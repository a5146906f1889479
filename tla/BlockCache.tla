----------------------------- MODULE BlockCache -----------------------------
(***************************************************************************)
(* The translation cache of the CPU recompiler                             *)
(* (CpuRecompilerBackend::Impl, src/core/cpu_recompiler.cpp) and the guest *)
(* instruction cache it has to agree with (Cpu::fetch32, src/core/cpu.cpp).*)
(* A block is a snapshot of guest instructions; nothing tells the cache    *)
(* that the guest changed them, so a block is guarded by counters: cached  *)
(* code by the generation of each instruction-cache line it spans, uncached*)
(* code by the generation of its physical page, and both by an epoch that  *)
(* a reset of the whole cache advances.                                    *)
(*                                                                         *)
(* What is abstracted.  A line of 16 bytes is one step of a block and holds*)
(* one element of Contents: a block spans whole lines.  What a line        *)
(* computes is left out but for its stores: the lines of AluOnly have none,*)
(* any other line may store anything anywhere.  Branches go anywhere.      *)
(* Cycle budgets, load delays, the fragments that run a pending delay slot *)
(* and the fusion of two blocks into a loop are left out.  Bounds: MaxBumps,*)
(* the new generations of instruction-cache lines, MaxPageGen and MaxEpoch,*)
(* the largest page generation and epoch, all of which come round at 2^32  *)
(* in the code, and MaxWrites, the writes to memory.                       *)
(***************************************************************************)
EXTENDS Integers, Sequences, FiniteSets, Functions

CONSTANTS LineCount,   \* lines of memory
          PageLines,   \* lines of a page (4 KiB in the code)
          IndexCount,  \* lines of the instruction cache (256)
          Contents,    \* what a line of memory may hold
          AluOnly,     \* the contents that neither load, store nor branch
          Ends,        \* the contents that a block does not go past: a branch, or
                       \* what no shape of block takes
          SlotCount,   \* kV4MaxBlocks
          MaxLines,    \* longest block, in lines
          V5Enabled,   \* v5_enabled: VIBESTATION_V5_DISABLE is not set
          Program,     \* what memory holds when the guest starts
          Warm,        \* the lines its instruction cache then holds
          Stored,      \* the lines that stores and DMA write
          Entries,     \* the addresses that branches and interrupts lead to
          MaxBumps, MaxPageGen, MaxEpoch, MaxWrites

ASSUME CacheAssumption ==
    /\ LineCount \in Nat \ {0} /\ PageLines \in Nat \ {0}
    /\ IndexCount \in Nat \ {0} /\ SlotCount \in Nat \ {0}
    /\ MaxLines \in Nat \ {0}
    /\ MaxBumps \in Nat /\ MaxPageGen \in Nat \ {0}
    /\ MaxEpoch \in Nat \ {0} /\ MaxWrites \in Nat
    /\ Program \in [0 .. LineCount - 1 -> Contents]
    /\ Warm \subseteq 0 .. LineCount - 1 /\ Stored \subseteq 0 .. LineCount - 1
    /\ \A l, m \in Warm : l % IndexCount = m % IndexCount => l = m
    /\ Entries \subseteq [line : 0 .. LineCount - 1, cached : BOOLEAN]
    /\ AluOnly \subseteq Contents /\ Ends \subseteq Contents \ AluOnly /\ V5Enabled \in BOOLEAN

Lines == 0 .. LineCount - 1
PageOf(l) == l \div PageLines
IndexOf(l) == l % IndexCount
Pages == {PageOf(l) : l \in Lines}
Indexes == {IndexOf(l) : l \in Lines}
Slots == 1 .. SlotCount
NoSlot == 0

(* A guest address: a line, through the cached or the uncached segment.     *)
PCs == [line : Lines, cached : BOOLEAN]

VARIABLES
  ram,      \* main memory
  icache,   \* the instruction cache: per index, the line it holds and its words
  gens,     \* icache_generation_
  pageGen,  \* page_generations
  jit,      \* the translations: marked (code_lines; code_pages is the pages of
            \* these lines), blocks (the slots), used (block_count), cell (the
            \* dispatch entries) and epoch (cache_epoch)
  mode,     \* who is at work: the slice loop, the resident dispatcher, a block
  pc,
  writes,   \* the writes to memory so far
  run,      \* the block entered and the line of it about to execute
  exits,    \* history: generation exits since an instruction last executed
  unseen    \* history: uncached blocks a store changed without a new generation

vars == <<ram, icache, gens, pageGen, jit, mode, pc, writes, run, exits, unseen>>

NotCached == [valid |-> FALSE]
Idle == [slot |-> NoSlot, at |-> 0, last |-> 0]
Empty == [pc |-> [line |-> 0, cached |-> FALSE], epoch |-> 0, v5 |-> FALSE,
          retry |-> FALSE, bits |-> <<>>, gens |-> <<>>, page |-> 0]

(***************************************************************************)
(* The guest's view of its instructions.                                   *)
(***************************************************************************)
Resident(l) == icache[IndexOf(l)].valid /\ icache[IndexOf(l)].tag = l

(* What Cpu::fetch32 returns at line l: the words of the cache line, which  *)
(* a missing line is first filled with from memory.                         *)
Fetched(l, cached) ==
    IF cached /\ Resident(l) THEN icache[IndexOf(l)].words ELSE ram[l]

Fill(l) == [icache EXCEPT ![IndexOf(l)] =
              [valid |-> TRUE, tag |-> l, words |-> ram[l]]]
Bump(f, i) == [f EXCEPT ![i] = @ + 1]
CanBump == FoldFunction(+, 0, gens) < IndexCount + MaxBumps

(* A fetch of line l fills it when it is missing                            *)
(* (prepare_instruction_cache_line_for_backend).                            *)
Prepare(l) ==
    IF Resident(l) THEN UNCHANGED <<icache, gens>>
    ELSE /\ CanBump
         /\ icache' = Fill(l) /\ gens' = Bump(gens, IndexOf(l))

LineOf(b, k) == b.pc.line + k - 1
CodePages == {PageOf(l) : l \in jit.marked}

(* invalidate_range: a written page with translated code gets a new         *)
(* generation.                                                              *)
NotifyWrite(l) ==
    IF PageOf(l) \in CodePages
    THEN pageGen[PageOf(l)] < MaxPageGen /\ pageGen' = Bump(pageGen, PageOf(l))
    ELSE UNCHANGED pageGen

Init ==
    /\ ram = Program
    /\ icache = [i \in Indexes |->
          IF \E l \in Warm : IndexOf(l) = i
          THEN LET l == CHOOSE l \in Warm : IndexOf(l) = i
               IN  [valid |-> TRUE, tag |-> l, words |-> ram[l]]
          ELSE NotCached]
    /\ gens = [i \in Indexes |-> 1]
    /\ pageGen = [p \in Pages |-> 1]
    /\ jit = [marked |-> {}, used |-> 0, epoch |-> 1,
              blocks |-> [s \in Slots |-> Empty],
              cell |-> [p \in PCs |-> NoSlot]]
    /\ mode = "slice" /\ run = Idle /\ exits = 0 /\ unseen = {}
    /\ pc \in Entries /\ writes = 0

(***************************************************************************)
(* Translation.                                                            *)
(***************************************************************************)
Span(p, n) == p.line .. p.line + n - 1
InPage(p, n) ==
    Span(p, n) \subseteq Lines /\ PageOf(p.line + n - 1) = PageOf(p.line)

Snapshot(p, n, v5, retry) ==
    [pc |-> p, epoch |-> 0, v5 |-> v5, retry |-> retry,
     bits |-> [k \in 1 .. n |-> Fetched(p.line + k - 1, p.cached)],
     gens |-> [k \in 1 .. n |->
                 IF Resident(p.line + k - 1) THEN gens[IndexOf(p.line + k - 1)]
                 ELSE gens[IndexOf(p.line + k - 1)] - 1],
     page |-> pageGen[PageOf(p.line)]]

(* The blocks of consecutive lines from p on that all belong to usable, to  *)
(* the first that ends a block, the end of the page, or the longest block.  *)
Runs(p, usable) ==
    {n \in 1 .. MaxLines :
       /\ InPage(p, n) /\ Span(p, n) \subseteq usable
       /\ \A l \in Span(p, n - 1) : Fetched(l, p.cached) \notin Ends}
Longest(N) == {n \in N : \A m \in N : m <= n}

(* try_compile_v5: a later line of cached code that is not resident is read *)
(* from memory and given a generation that is already stale.                *)
V5Shapes(p) ==
    {Snapshot(p, n, TRUE, FALSE) : n \in Longest(Runs(p, Lines))}

(* The V4 shapes.  Cached code stays in its line, or in the span lines of a *)
(* promotion, which have to be resident; a branch that ends the last of them*)
(* may take its delay slot from the next, when that is.                     *)
V4Shapes(p, span) ==
    IF ~p.cached
    THEN {Snapshot(p, n, FALSE, FALSE) : n \in Longest(Runs(p, Lines))}
    ELSE LET long == Longest({n \in Runs(p, {l \in Lines : Resident(l)}) : n <= span})
             slot == {n + 1 : n \in {m \in long :
                        /\ p.line + m \in Lines /\ Resident(p.line + m)
                        /\ Fetched(p.line + m - 1, TRUE) \in Ends}}
         IN  {Snapshot(p, n, FALSE, n > 1 /\ span > 1) : n \in long \cup slot}

Shapes(p, span) ==
    V4Shapes(p, span) \cup (IF V5Enabled THEN V5Shapes(p) ELSE {})

(* acquire_block: the slot of the live block at p, or the next free one.    *)
LiveAt(J, p) ==
    /\ J.cell[p] # NoSlot
    /\ J.blocks[J.cell[p]].epoch = J.epoch /\ J.blocks[J.cell[p]].pc = p
Acquire(J, p, forceNew) ==
    IF ~forceNew /\ LiveAt(J, p) THEN J.cell[p] ELSE J.used + 1
CanAcquire(J, p, forceNew) == Acquire(J, p, forceNew) \in Slots

(* Mutant: only cached code is marked. *)
InstallMarksCached(J, p, b, forceNew) ==
    LET s == Acquire(J, p, forceNew)
    IN  [J EXCEPT !.blocks[s] = [b EXCEPT !.epoch = J.epoch],
                  !.used = IF s > @ THEN s ELSE @,
                  !.cell[p] = s,
                  !.marked = IF p.cached THEN @ \cup Span(p, Len(b.bits)) ELSE @]

(* The end of compile_block: the lines are marked and the block installed.  *)
Install(J, p, b, forceNew) ==
    LET s == Acquire(J, p, forceNew)
    IN  [J EXCEPT !.blocks[s] = [b EXCEPT !.epoch = J.epoch],
                  !.used = IF s > @ THEN s ELSE @,
                  !.cell[p] = s,
                  !.marked = @ \cup Span(p, Len(b.bits))]

(* Mutant: a reset leaves the dispatch entries. *)
ResetKeepingCells(J) == [J EXCEPT !.blocks = [s \in Slots |-> Empty], !.used = 0,
                                  !.marked = {}, !.epoch = @ + 1]

(* reset_translations: the slots are used again from the first, so every    *)
(* cell is emptied.  The page generations stay.  (A slot keeps its old block*)
(* until it is used again; none can be told from an empty one by its epoch.)*)
ResetOf(J) == [J EXCEPT !.blocks = [s \in Slots |-> Empty], !.used = 0, !.marked = {}, !.epoch = @ + 1,
                        !.cell = [p \in PCs |-> NoSlot]]

(* promote_visible_predecessor: an ALU block that ends where line l begins, *)
(* still current, is translated again with this line; the farthest one, and *)
(* into a slot of its own, so that a failure leaves the old one installed.  *)
At(l) == [line |-> l, cached |-> TRUE]
Promotable(J, l, d) ==
    /\ l - d \in Lines /\ PageOf(l - d) = PageOf(l) /\ J.cell[At(l - d)] # NoSlot
    /\ LET b == J.blocks[J.cell[At(l - d)]]
       IN  /\ b.epoch = J.epoch /\ b.pc = At(l - d) /\ ~b.v5 /\ Len(b.bits) = d
           /\ \A k \in 1 .. d : /\ b.bits[k] \in AluOnly
                                /\ b.gens[k] = gens[IndexOf(l - d + k - 1)]
Promoted(J, l) ==
    LET far == {d \in 1 .. 3 : Promotable(J, l, d)}
    IN  IF far = {} THEN {J}
        ELSE LET d == CHOOSE d \in far : \A e \in far : e <= d
             IN  {J} \cup {Install(J, At(l - d), b, TRUE) :
                             b \in IF CanAcquire(J, At(l - d), TRUE)
                                   THEN Shapes(At(l - d), d + 1) ELSE {}}

(* lookup_candidate: only whether a translation exists, for cached code; for*)
(* uncached code also its page generation.                                  *)
Candidate(p) ==
    /\ LiveAt(jit, p)
    /\ p.cached \/ jit.blocks[jit.cell[p]].page = pageGen[PageOf(p.line)]

Between == mode = "slice"

(* run_slice finds a translation and enters the resident dispatcher.        *)
Lookup ==
    /\ Between /\ Candidate(pc)
    /\ mode' = "native"
    /\ UNCHANGED <<ram, writes, icache, gens, pageGen, jit, pc, run, exits, unseen>>

(* run_slice finds none: the first line is fetched and the block compiled.  *)
(* Without a slot or room for its code the whole cache is reset and the     *)
(* compilation tried once more.                                             *)
CompileIn(J) ==
    /\ CanAcquire(J, pc, FALSE)
    /\ \E b \in Shapes(pc, 1)' : \E K \in {Install(J, pc, b, FALSE)} :
          jit' \in (IF pc.cached THEN Promoted(K, pc.line)' ELSE {K})
    /\ unseen' = unseen \ {Acquire(J, pc, FALSE)}

Translate ==
    /\ Between /\ ~Candidate(pc)
    /\ mode' = "native"
    /\ UNCHANGED <<ram, writes, pageGen, pc, run, exits>>
    /\ IF pc.cached THEN Prepare(pc.line) ELSE UNCHANGED <<icache, gens>>
    /\ \/ CompileIn(jit)
       \/ jit.epoch < MaxEpoch /\ CompileIn(ResetOf(jit))

(***************************************************************************)
(* The resident dispatcher: check_block of install_v4_resident_dispatch.   *)
(* A chain of blocks never returns to run_slice while they are valid; the  *)
(* block of the cell is not asked for its start_pc here.                   *)
(***************************************************************************)
Block == jit.blocks[jit.cell[pc]]
HasBlock == jit.cell[pc] # NoSlot /\ Block.epoch = jit.epoch
Guarded(b) == IF b.v5 THEN {1} ELSE 1 .. Len(b.bits)
LineCurrent(b, k) == b.gens[k] = gens[IndexOf(LineOf(b, k))]
Current(b) ==
    IF b.pc.cached THEN \A k \in Guarded(b) : LineCurrent(b, k)
    ELSE b.page = pageGen[PageOf(b.pc.line)]

EnterBlock(last) ==
    /\ mode' = "body"
    /\ run' = [slot |-> jit.cell[pc], at |-> 1, last |-> last]
    /\ UNCHANGED <<ram, writes, pageGen, pc, exits, unseen>>

(* Every guard holds: the block runs, or its first instruction alone when   *)
(* the slice cannot afford more.                                            *)
Enter ==
    /\ mode = "native" /\ HasBlock /\ Current(Block)
    /\ \E last \in {1, Len(Block.bits)} : EnterBlock(last)
    /\ UNCHANGED <<icache, gens, jit>>

(* revalidate_cached compares what the guest would fetch with the snapshot. *)
(* Its first line may be filled; a later one that is missing must not be,   *)
(* and the first instruction runs alone.                                    *)
Revalidating ==
    /\ mode = "native" /\ HasBlock /\ Block.pc.cached
    /\ ~Current(Block) /\ ~Block.retry
    /\ Prepare(pc.line)
(* Mutant: the tag of the line is compared, not its words. *)
MatchesTag(b, k) == Resident(LineOf(b, k)) /\ k \in DOMAIN b.bits

Matches(b, k) ==
    Resident(LineOf(b, k)) /\ icache[IndexOf(LineOf(b, k))].words = b.bits[k]
Differs(b, k) ==
    Resident(LineOf(b, k)) /\ icache[IndexOf(LineOf(b, k))].words # b.bits[k]

(* All lines match: their generations are published and the block runs.     *)
Revalidate ==
    /\ Revalidating
    /\ \E b \in {Block} :
         /\ \A k \in Guarded(b) : Matches(b, k)'
         /\ jit' = [jit EXCEPT !.blocks[jit.cell[pc]].gens =
                      [k \in DOMAIN @ |-> IF k \in Guarded(b) /\ k <= 2
                                          THEN gens'[IndexOf(LineOf(b, k))]
                                          ELSE @[k]]]
         /\ \E last \in {1, Len(b.bits)} : EnterBlock(last)

RevalidateFirst ==
    /\ Revalidating
    /\ \E b \in {Block} : /\ Matches(b, 1)'
                          /\ \E k \in Guarded(b) : ~Resident(LineOf(b, k))'
    /\ EnterBlock(1)
    /\ UNCHANGED jit

(* Mutant: the stale block stays in its cell. *)
DropNothing ==
    /\ mode' = "slice" /\ exits' = exits + 1
    /\ UNCHANGED <<ram, writes, pageGen, jit, pc, run, unseen>>

(* The dispatcher has proved the block stale: run_slice empties its cell and*)
(* goes round again (invalidate_candidate).                                 *)
DropCell ==
    /\ jit' = [jit EXCEPT !.cell[pc] = NoSlot]
    /\ mode' = "slice" /\ exits' = exits + 1
    /\ UNCHANGED <<ram, writes, pageGen, pc, run, unseen>>
DropStale ==
    /\ mode = "native" /\ HasBlock /\ ~Current(Block)
    /\ ~Block.pc.cached \/ Block.retry
    /\ UNCHANGED <<icache, gens>>
    /\ DropCell
DropDifferent ==
    /\ Revalidating
    /\ \E b \in {Block} : \E k \in Guarded(b) :
         /\ Differs(b, k)' /\ \A j \in 1 .. k - 1 : Matches(b, j)'
    /\ DropCell

(* No block, or one of an earlier epoch.                                    *)
Missing ==
    /\ mode = "native" /\ ~HasBlock
    /\ mode' = "slice"
    /\ UNCHANGED <<ram, writes, icache, gens, pageGen, jit, pc, run, exits, unseen>>

(* The slice's budget is spent, between two blocks or two attempts.         *)
Yield ==
    /\ mode = "native" \/ exits > 0
    /\ mode # "body" /\ mode' = "slice" /\ exits' = 0
    /\ UNCHANGED <<ram, writes, icache, gens, pageGen, jit, pc, run, unseen>>

TranslateFails ==
    /\ Between /\ ~Candidate(pc) /\ jit.epoch < MaxEpoch
    /\ IF pc.cached THEN Prepare(pc.line) ELSE UNCHANGED <<icache, gens>>
    /\ jit' = ResetOf(jit)
    /\ mode' = "slice" /\ exits' = 0
    /\ UNCHANGED <<ram, writes, pageGen, pc, run, unseen>>

(***************************************************************************)
(* Inside a block.  Running is the block and run.at the line of it whose   *)
(* instructions execute in the next step.                                  *)
(***************************************************************************)
Running == jit.blocks[run.slot]
HereLine == LineOf(Running, run.at)

(* The block is left with the guest at line l, or at the end of it anywhere.*)
LeaveAt(p) ==
    /\ mode' = "native" /\ run' = Idle /\ pc' = p
LeaveEnd == \E p \in Entries : LeaveAt(p)
LeaveFor(l) == l \in Lines /\ LeaveAt([pc EXCEPT !.line = l])

Stay == /\ run' = [run EXCEPT !.at = @ + 1]
        /\ UNCHANGED <<mode, pc>>

(* emit_line_checks: before the first instruction of a later line of cached *)
(* code its generation is compared; line_check compares the words, fills the*)
(* line from memory when it may and the words there match, and else leaves. *)
NextLine ==
    LET b == Running  k == run.at + 1  l == LineOf(b, k)  s == run.slot
        Publish == jit' = [jit EXCEPT !.blocks[s].gens[k] = gens'[IndexOf(l)]]
    IN  IF ~b.v5 \/ ~b.pc.cached \/ LineCurrent(b, k)
        THEN Stay /\ UNCHANGED <<icache, gens, jit>>
        ELSE IF Resident(l)
        THEN /\ UNCHANGED <<icache, gens>>
             /\ IF icache[IndexOf(l)].words = b.bits[k]
                THEN Stay /\ Publish
                ELSE LeaveFor(l) /\ UNCHANGED jit
        ELSE \/ /\ ram'[l] = b.bits[k] /\ CanBump
                /\ gens' = Bump(gens, IndexOf(l))
                /\ icache' = [icache EXCEPT ![IndexOf(l)] =
                                [valid |-> TRUE, tag |-> l, words |-> ram'[l]]]
                /\ Stay /\ Publish
             \/ LeaveFor(l) /\ UNCHANGED <<icache, gens, jit>>

(* The line executed: on to the next one, or out of the block.  A fragment  *)
(* leaves after the first instruction, still in the line or past it.        *)
Onward ==
    IF run.at < run.last THEN NextLine
    ELSE /\ UNCHANGED <<icache, gens, jit>>
         /\ IF run.last = Len(Running.bits) THEN LeaveEnd
            ELSE \E l \in {HereLine, HereLine + 1} : LeaveFor(l)
StopHere ==
    /\ \E l \in {HereLine, HereLine + 1} : LeaveFor(l)
    /\ UNCHANGED <<icache, gens, jit>>

Execute ==
    /\ mode = "body" /\ exits' = 0
    /\ UNCHANGED <<ram, writes, pageGen, unseen>>
    /\ Onward

(* A store of what the line holds already is left out.                      *)
Written(l, c) ==
    /\ writes < MaxWrites /\ writes' = writes + 1 /\ c # ram[l]
    /\ ram' = [ram EXCEPT ![l] = c]
Storing(l, c) ==
    /\ mode = "body" /\ Running.bits[run.at] \notin AluOnly
    /\ Written(l, c) /\ exits' = 0

(* compile_v4_memory's store: a page with translated code gets a new        *)
(* generation; a line with translated code, or cached code's own index,     *)
(* ends the block.                                                          *)
V4Stops(l) ==
    \/ l \in jit.marked
    \/ Running.pc.cached /\ IndexOf(l) = IndexOf(Running.pc.line)
StoreV4(l, c) ==
    /\ Storing(l, c) /\ ~Running.v5
    /\ NotifyWrite(l)
    /\ IF V4Stops(l) THEN StopHere ELSE Onward
    /\ UNCHANGED unseen

(* emit_store of a V5 block: uncached code stops after a store into a       *)
(* translated line; no generation advances.                                 *)
Covers(s, l) ==
    /\ jit.blocks[s].epoch = jit.epoch /\ ~jit.blocks[s].pc.cached
    /\ l \in Span(jit.blocks[s].pc, Len(jit.blocks[s].bits))
V5Stops(l) == ~Running.pc.cached /\ l \in jit.marked
StoreV5(l, c) ==
    /\ Storing(l, c) /\ Running.v5
    /\ IF V5Stops(l) THEN StopHere ELSE Onward
    /\ unseen' = unseen \cup {s \in Slots : Covers(s, l)}
    /\ UNCHANGED pageGen

(* SWC2 in a V5 block does advance the generation of a translated line.     *)
StoreGteV5(l, c) ==
    /\ Storing(l, c) /\ Running.v5
    /\ IF l \in jit.marked THEN NotifyWrite(l) ELSE UNCHANGED pageGen
    /\ IF V5Stops(l) THEN StopHere ELSE Onward
    /\ UNCHANGED unseen

(* A device store may run a DMA into memory: the block ends.                *)
StoreDevice(l, c) ==
    /\ Storing(l, c) /\ NotifyWrite(l)
    /\ StopHere /\ UNCHANGED unseen

(* A store with the cache isolated drops the line and ends the block.       *)
Isolated(l) ==
    /\ CanBump
    /\ icache' = [icache EXCEPT ![IndexOf(l)] = NotCached]
    /\ gens' = Bump(gens, IndexOf(l))
StoreIsolated(l) ==
    /\ mode = "body" /\ Running.bits[run.at] \notin AluOnly
    /\ Isolated(l)
    /\ \E m \in {HereLine, HereLine + 1} : LeaveFor(m)
    /\ exits' = 0 /\ UNCHANGED <<ram, writes, pageGen, jit, unseen>>

(***************************************************************************)
(* Between slices, and so after any attempt that may have been a slice's   *)
(* last: the interpreter, DMA, and the host.                               *)
(***************************************************************************)
Outside == mode = "slice" /\ exits = 0 /\ UNCHANGED <<mode, run, exits, unseen>>

(* A word reaches memory over the bus (System::write8 / 16 / 32).           *)
BusWrite(l, c) ==
    /\ Outside /\ Written(l, c) /\ NotifyWrite(l)
    /\ UNCHANGED <<icache, gens, jit, pc>>
(* The interpreter executes an instruction: a fetch, and where it goes.     *)
Interpret ==
    /\ Outside /\ pc.cached /\ Prepare(pc.line) /\ pc' \in Entries
    /\ UNCHANGED <<ram, writes, pageGen, jit>>
(* invalidate_icache_line, from an isolated store it interprets.            *)
InterpretIsolated(l) ==
    /\ Outside /\ Isolated(l) /\ NotifyWrite(l)
    /\ UNCHANGED <<ram, writes, jit, pc>>
(* An interrupt is taken before the next instruction is looked for.         *)
Interrupt ==
    /\ Outside /\ pc' \in Entries
    /\ UNCHANGED <<ram, writes, icache, gens, pageGen, jit>>
(* flush(), and the reset when PGXP is switched.                            *)
Flush ==
    /\ Outside /\ jit.epoch < MaxEpoch /\ jit' = ResetOf(jit)
    /\ UNCHANGED <<ram, writes, icache, gens, pageGen, pc>>

Next ==
    \/ Lookup \/ Translate \/ TranslateFails
    \/ Enter \/ Revalidate \/ RevalidateFirst \/ DropStale \/ DropDifferent
    \/ Missing \/ Yield
    \/ Execute
    \/ \E l \in Stored, c \in Contents :
          \/ StoreV4(l, c) \/ StoreV5(l, c) \/ StoreGteV5(l, c)
          \/ StoreDevice(l, c) \/ BusWrite(l, c)
    \/ \E l \in Lines : StoreIsolated(l) \/ InterpretIsolated(l)
    \/ Interpret \/ Interrupt \/ Flush

Spec == Init /\ [][Next]_vars

TypeOK ==
    /\ ram \in [Lines -> Contents]
    /\ gens \in [Indexes -> Nat \ {0}] /\ pageGen \in [Pages -> Nat \ {0}]
    /\ DOMAIN icache = Indexes /\ jit.marked \subseteq Lines
    /\ jit.used \in 0 .. SlotCount /\ jit.cell \in [PCs -> Slots \cup {NoSlot}]
    /\ mode \in {"slice", "native", "body"} /\ pc \in PCs
    /\ (mode = "body") = (run.slot # NoSlot)

(***************************************************************************)
(* What the cache owes the guest.                                          *)
(***************************************************************************)
(* A block executes, line by line, the instructions the interpreter would   *)
(* have fetched there; but for uncached blocks that a V5 store changed.     *)
RunsWhatIsFetched ==
    mode = "body" =>
        \/ Running.bits[run.at] = Fetched(HereLine, Running.pc.cached)
        \/ run.slot \in unseen

(* A block that runs was translated from where the guest is.                *)
RunsItsOwnCode == mode = "body" => Running.pc = pc

(* An uncached block that would still be let in is memory's own: nothing    *)
(* wrote it without a new generation, and none of its lines lost its mark.  *)
UncachedIsMemory ==
    \A p \in PCs : LET b == jit.blocks[jit.cell[p]] IN
        /\ ~p.cached /\ jit.cell[p] # NoSlot /\ b.epoch = jit.epoch
        /\ b.page = pageGen[PageOf(p.line)] /\ jit.cell[p] \notin unseen
        => \A k \in 1 .. Len(b.bits) : b.bits[k] = ram[LineOf(b, k)]

(* A translation proved stale is replaced by one that is not: a slice never *)
(* drops a second one before an instruction has executed.                   *)
DropsOnce == exits <= 1

(* Uncached code sees every store: cpu.cpp:2705 "uncached (KSEG1) code      *)
(* observes memory directly".                                               *)
UncachedSeesStores ==
    mode = "body" /\ ~Running.pc.cached => Running.bits[run.at] = ram[HereLine]
=============================================================================
