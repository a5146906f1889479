--------------------------- MODULE BlockCacheProofs ---------------------------
(***************************************************************************)
(* Proofs about the translation cache: a block that runs is the one of its *)
(* address, an uncached block that would be let in is memory's own, and    *)
(* what a block executes is what the guest would have fetched.  For any    *)
(* memory, instruction cache, pool of blocks and length of a block.        *)
(***************************************************************************)
EXTENDS BlockCache, SequenceTheorems, TLAPS

-----------------------------------------------------------------------------
(***************************************************************************)
(* The blocks that translation makes.                                      *)
(***************************************************************************)
LEMMA LengthOf ==
  ASSUME NEW n \in Nat, NEW f, f = [k \in 1 .. n |-> f[k]]
  PROVE  Len(f) = n
<1> DEFINE S == {f[k] : k \in 1 .. n}
<1>1. f \in [1 .. n -> S]
  OBVIOUS
<1>2. f \in Seq(S)
  BY <1>1, SeqDef
<1>3. Len(f) \in Nat /\ DOMAIN f = 1 .. Len(f) /\ DOMAIN f = 1 .. n
  BY <1>1, <1>2, LenProperties
<1>4. CASE n = 0
  BY <1>3, <1>4
<1>5. CASE n > 0
  <2>1. n \in 1 .. Len(f) /\ (Len(f) > 0 => Len(f) \in 1 .. n)
    BY <1>3, <1>5
  <2>2. QED
    BY <1>3, <2>1
<1>6. QED
  BY <1>4, <1>5

(* A block as it was translated, before it is installed.                   *)
Shaped(b, p) ==
  /\ b.pc = p
  /\ Len(b.bits) \in Nat \ {0}
  /\ DOMAIN b = DOMAIN Empty
  /\ DOMAIN b.gens = 1 .. Len(b.bits)
  /\ Span(p, Len(b.bits)) \subseteq Lines
  /\ ~p.cached => InPage(p, Len(b.bits))

(* The line of a block's k-th place is in its span.                        *)
LEMMA LinesOfSpan ==
  ASSUME NEW b, b.pc.line \in Int, Len(b.bits) \in Nat, NEW k \in 1 .. Len(b.bits)
  PROVE  LineOf(b, k) \in Span(b.pc, Len(b.bits))
BY DEF LineOf, Span

(* Lines between two of a page are in it.                                  *)
LEMMA BetweenPages ==
  ASSUME NEW i \in Nat, NEW j \in Nat, NEW l \in i .. j, PageOf(i) = PageOf(j)
  PROVE  PageOf(l) = PageOf(i)
<1> DEFINE q == i \div PageLines  r == l \div PageLines
<1>1. PageLines \in Nat \ {0} /\ i \div PageLines = j \div PageLines
  BY CacheAssumption DEF PageOf
<1>2. /\ q \in Int /\ r \in Int
      /\ PageLines * q <= i /\ j < PageLines * (q + 1)
      /\ PageLines * r <= l /\ l < PageLines * (r + 1)
  BY <1>1
<1>3. PageLines * r < PageLines * (q + 1) /\ PageLines * q < PageLines * (r + 1)
  BY <1>1, <1>2
<1> HIDE DEF q, r
<1>4. r < q + 1 /\ q < r + 1
  BY <1>1, <1>2, <1>3
<1>5. QED
  BY <1>2, <1>4 DEF q, r, PageOf

-----------------------------------------------------------------------------
(***************************************************************************)
(* The inductive invariant, over a memory, an instruction cache and the     *)
(* counters, so that each lemma may say what it changes.                   *)
(***************************************************************************)
Holds(ic, l, c) == ic[IndexOf(l)].valid /\ ic[IndexOf(l)].tag = l /\ ic[IndexOf(l)].words = c

(* A cached line whose generation is the block's is the block's: a           *)
(* generation is never given back.                                         *)
CachedInv(b, ic, g) ==
  \A k \in 1 .. Len(b.bits) :
    /\ b.gens[k] \in Int /\ b.gens[k] <= g[IndexOf(LineOf(b, k))]
    /\ b.gens[k] = g[IndexOf(LineOf(b, k))] => Holds(ic, LineOf(b, k), b.bits[k])

(* So is an uncached block whose page has the block's generation, unless a  *)
(* store it was not told of changed it.                                    *)
Equals(b, mem) == \A k \in 1 .. Len(b.bits) : b.bits[k] = mem[LineOf(b, k)]
MemoryInv(b, mem, pg, told) ==
  /\ b.page \in Int /\ b.page <= pg[PageOf(b.pc.line)]
  /\ b.page = pg[PageOf(b.pc.line)] /\ told => Equals(b, mem)

BlockInv(b, p, marks, mem, ic, g, pg, told) ==
  /\ Shaped(b, p)
  /\ p.cached => CachedInv(b, ic, g)
  /\ ~p.cached => MemoryInv(b, mem, pg, told) /\ Span(p, Len(b.bits)) \subseteq marks

JitFields == {"marked", "used", "epoch", "blocks", "cell"}
JitTypes(J) ==
  /\ DOMAIN J = JitFields /\ DOMAIN J.blocks = Slots /\ DOMAIN J.cell = PCs
  /\ J.used \in 0 .. SlotCount

(* Every cell's block is live, and the block of the cell's address.         *)
CellsInv(J, mem, ic, g, pg, un) ==
  \A p \in PCs : J.cell[p] # NoSlot =>
    /\ J.cell[p] \in 1 .. J.used /\ J.blocks[J.cell[p]].epoch = J.epoch
    /\ BlockInv(J.blocks[J.cell[p]], p, J.marked, mem, ic, g, pg, J.cell[p] \notin un)

JitInv(J, mem, ic, g, pg, un) == JitTypes(J) /\ CellsInv(J, mem, ic, g, pg, un)

MachineTypes ==
  /\ DOMAIN ram = Lines /\ DOMAIN icache = Indexes
  /\ gens \in [Indexes -> Int] /\ pageGen \in [Pages -> Int]
  /\ pc \in PCs /\ DOMAIN run = DOMAIN Idle
  /\ mode \in {"slice", "native", "body"}

(* The block that runs: the rest of what it was entered for is the guest's. *)
BodyOf(J, p, r, mem, ic, un) ==
  LET b == J.blocks[r.slot] IN
  /\ r.slot = J.cell[p] /\ r.slot # NoSlot
  /\ r.last \in 1 .. Len(b.bits) /\ r.at \in 1 .. r.last
  /\ p.cached => Holds(ic, LineOf(b, r.at), b.bits[r.at])
  /\ p.cached /\ ~b.v5 => \A k \in 1 .. r.last : Holds(ic, LineOf(b, k), b.bits[k])
  /\ ~p.cached => r.slot \in un \/ Equals(b, mem)

BodyInv == mode = "body" => BodyOf(jit, pc, run, ram, icache, unseen)

IInv == /\ MachineTypes /\ BodyInv
        /\ JitInv(jit, ram, icache, gens, pageGen, unseen)

-----------------------------------------------------------------------------
(* What a block is made of.                                                *)
Made(b, p) ==
  /\ Shaped(b, p)
  /\ p.cached => CachedInv(b, icache, gens)
  /\ ~p.cached => MemoryInv(b, ram, pageGen, TRUE)

LEMMA SnapshotMade ==
  ASSUME MachineTypes, NEW p \in PCs, NEW n \in Nat \ {0}, Span(p, n) \subseteq Lines,
         ~p.cached => InPage(p, n), NEW v5, NEW retry
  PROVE  Made(Snapshot(p, n, v5, retry), p)
<1> DEFINE b == Snapshot(p, n, v5, retry)
<1>1. /\ b.pc = p /\ b.page = pageGen[PageOf(p.line)] /\ DOMAIN b = DOMAIN Empty
      /\ b.bits = [k \in 1 .. n |-> Fetched(p.line + k - 1, p.cached)]
      /\ b.gens = [k \in 1 .. n |->
                     IF Resident(p.line + k - 1) THEN gens[IndexOf(p.line + k - 1)]
                     ELSE gens[IndexOf(p.line + k - 1)] - 1]
  BY DEF Snapshot, Empty
<1> HIDE DEF b
<1>2. Len(b.bits) = n
  BY <1>1, LengthOf
<1>3. \A k \in 1 .. n : LineOf(b, k) = p.line + k - 1 /\ LineOf(b, k) \in Lines
  BY <1>1 DEF LineOf, Span, PCs, Lines
<1>4. Shaped(b, p)
  BY <1>1, <1>2 DEF Shaped
<1>5. CachedInv(b, icache, gens) \/ ~p.cached
  <2>1. ASSUME p.cached, NEW k \in 1 .. n
        PROVE  /\ b.gens[k] \in Int /\ b.gens[k] <= gens[IndexOf(LineOf(b, k))]
               /\ b.gens[k] = gens[IndexOf(LineOf(b, k))]
                    => Holds(icache, LineOf(b, k), b.bits[k])
    <3> DEFINE l == p.line + k - 1
    <3>1. l = LineOf(b, k) /\ l \in Lines /\ gens[IndexOf(l)] \in Int
      BY <1>3 DEF MachineTypes, Indexes
    <3>2. b.bits[k] = Fetched(l, p.cached)
      BY <1>1
    <3>3. b.gens[k] = IF Resident(l) THEN gens[IndexOf(l)] ELSE gens[IndexOf(l)] - 1
      BY <1>1
    <3> HIDE DEF l
    <3>4. CASE Resident(l)
      BY <2>1, <3>1, <3>2, <3>3, <3>4 DEF Fetched, Holds, Resident
    <3>5. CASE ~Resident(l)
      BY <3>1, <3>3, <3>5
    <3>6. QED
      BY <3>4, <3>5
  <2>2. QED
    BY <1>2, <2>1 DEF CachedInv
<1>6. p.cached \/ MemoryInv(b, ram, pageGen, TRUE)
  <2>1. pageGen[PageOf(p.line)] \in Int
    BY DEF MachineTypes, Pages, PCs
  <2>2. ~p.cached => Equals(b, ram)
    BY <1>1, <1>2, <1>3 DEF Equals, Fetched
  <2>3. QED
    BY <1>1, <2>1, <2>2 DEF MemoryInv
<1>7. QED
  BY <1>4, <1>5, <1>6 DEF Made, b

LEMMA RunsFit ==
  ASSUME NEW p \in PCs, NEW usable, NEW n \in Longest(Runs(p, usable))
  PROVE  n \in Nat \ {0} /\ InPage(p, n) /\ Span(p, n) \subseteq Lines
BY CacheAssumption DEF Longest, Runs, InPage

ShapesAreMade == \A p \in PCs : \A span : \A b \in Shapes(p, span) : Made(b, p)

LEMMA ShapesMade == MachineTypes => ShapesAreMade
<1> SUFFICES ASSUME MachineTypes, NEW p \in PCs, NEW span, NEW b \in Shapes(p, span)
             PROVE  Made(b, p)
  BY DEF ShapesAreMade
<1>1. CASE b \in V5Shapes(p)
  <2>1. PICK n \in Longest(Runs(p, Lines)) : b = Snapshot(p, n, TRUE, FALSE)
    BY <1>1 DEF V5Shapes
  <2>2. n \in Nat \ {0} /\ InPage(p, n) /\ Span(p, n) \subseteq Lines
    BY RunsFit
  <2>3. QED
    BY <2>1, <2>2, SnapshotMade
<1>2. CASE b \in V4Shapes(p, span) /\ ~p.cached
  <2>1. PICK n \in Longest(Runs(p, Lines)) : b = Snapshot(p, n, FALSE, FALSE)
    BY <1>2 DEF V4Shapes
  <2>2. n \in Nat \ {0} /\ InPage(p, n) /\ Span(p, n) \subseteq Lines
    BY RunsFit
  <2>3. QED
    BY <2>1, <2>2, SnapshotMade
<1>3. CASE b \in V4Shapes(p, span) /\ p.cached
  <2> DEFINE usable == {l \in Lines : Resident(l)}
             long == Longest({n \in Runs(p, usable) : n <= span})
             slot == {n + 1 : n \in {m \in long :
                        /\ p.line + m \in Lines /\ Resident(p.line + m)
                        /\ Fetched(p.line + m - 1, TRUE) \in Ends}}
  <2>1. b \in {Snapshot(p, n, FALSE, n > 1 /\ span > 1) : n \in long \cup slot}
    BY <1>3 DEF V4Shapes
  <2>2. PICK n \in long \cup slot : b = Snapshot(p, n, FALSE, n > 1 /\ span > 1)
    BY <2>1
  <2>3. \A m \in long : m \in Nat \ {0} /\ Span(p, m) \subseteq Lines
    BY CacheAssumption DEF Longest, Runs, InPage
  <2>4. n \in Nat \ {0} /\ Span(p, n) \subseteq Lines
    <3>1. CASE n \in long
      BY <2>3, <3>1
    <3>2. CASE n \in slot
      <4>1. PICK m \in long : n = m + 1 /\ p.line + m \in Lines
        BY <3>2
      <4>2. m \in Nat \ {0} /\ Span(p, m) \subseteq Lines /\ p.line \in Int
        BY <2>3 DEF PCs, Lines
      <4> HIDE DEF long, slot, usable
      <4>3. ASSUME NEW l \in Span(p, n), l # p.line + m
            PROVE  l \in Span(p, m)
        <5>1. m \in Int /\ p.line \in Int /\ n = m + 1
          BY <4>1, <4>2
        <5>2. l \in p.line .. p.line + n - 1
          BY <4>3 DEF Span
        <5>3. l \in p.line .. p.line + m - 1
          BY <4>3, <5>1, <5>2
        <5>4. QED
          BY <5>3 DEF Span
      <4>4. QED
        BY <4>1, <4>2, <4>3
    <3>3. QED
      BY <2>2, <3>1, <3>2
  <2> HIDE DEF long, slot
  <2>5. QED
    BY <1>3, <2>2, <2>4, SnapshotMade
<1>4. QED
  BY <1>1, <1>2, <1>3 DEF Shapes

-----------------------------------------------------------------------------
(***************************************************************************)
(* What changes the instruction cache, a page or memory leaves the          *)
(* translations in the invariant.                                          *)
(***************************************************************************)
LEMMA LineIn ==
  ASSUME NEW p \in PCs, NEW b, Shaped(b, p), NEW k \in 1 .. Len(b.bits)
  PROVE  /\ LineOf(b, k) \in Lines /\ LineOf(b, k) \in Span(p, Len(b.bits))
         /\ IndexOf(LineOf(b, k)) \in Indexes
         /\ ~p.cached => PageOf(LineOf(b, k)) = PageOf(p.line)
<1>1. p.line \in Nat /\ b.pc = p /\ Len(b.bits) \in Nat \ {0}
  BY CacheAssumption DEF PCs, Lines, Shaped
<1>2. LineOf(b, k) \in Span(p, Len(b.bits)) /\ LineOf(b, k) \in Lines
  BY <1>1, LinesOfSpan DEF Shaped
<1>3. ~p.cached => PageOf(LineOf(b, k)) = PageOf(p.line)
  <2>1. SUFFICES ASSUME ~p.cached PROVE PageOf(LineOf(b, k)) = PageOf(p.line)
    OBVIOUS
  <2>2. PageOf(p.line + Len(b.bits) - 1) = PageOf(p.line)
    BY <2>1 DEF Shaped, InPage
  <2>3. p.line + Len(b.bits) - 1 \in Nat /\ LineOf(b, k) \in p.line .. p.line + Len(b.bits) - 1
    BY <1>1, <1>2 DEF Span
  <2>4. QED
    BY <1>1, <2>2, <2>3, BetweenPages
<1>4. QED
  BY <1>2, <1>3 DEF Indexes

LEMMA BumpIs ==
  ASSUME NEW S, NEW f \in [S -> Int], NEW i \in S
  PROVE  /\ Bump(f, i) \in [S -> Int] /\ Bump(f, i)[i] = f[i] + 1
         /\ \A j \in S \ {i} : Bump(f, i)[j] = f[j]
BY DEF Bump

(* A line of the instruction cache changes, with a new generation.         *)
LEMMA CacheChanges ==
  ASSUME NEW J, NEW mem, NEW ic, NEW g \in [Indexes -> Int], NEW pg, NEW un,
         JitInv(J, mem, ic, g, pg, un), DOMAIN ic = Indexes, NEW i \in Indexes, NEW x
  PROVE  JitInv(J, mem, [ic EXCEPT ![i] = x], Bump(g, i), pg, un)
<1> DEFINE ic2 == [ic EXCEPT ![i] = x]  g2 == Bump(g, i)
<1>1. \A j \in Indexes \ {i} : ic2[j] = ic[j] /\ g2[j] = g[j]
  BY BumpIs
<1>2. g2[i] = g[i] + 1 /\ g[i] \in Int
  BY BumpIs
<1> HIDE DEF ic2, g2
<1>3. ASSUME NEW p \in PCs, NEW b, Shaped(b, p), CachedInv(b, ic, g)
      PROVE  CachedInv(b, ic2, g2)
  <2>1. ASSUME NEW k \in 1 .. Len(b.bits)
        PROVE  /\ b.gens[k] \in Int /\ b.gens[k] <= g2[IndexOf(LineOf(b, k))]
               /\ b.gens[k] = g2[IndexOf(LineOf(b, k))]
                    => Holds(ic2, LineOf(b, k), b.bits[k])
    <3>1. IndexOf(LineOf(b, k)) \in Indexes
      BY <1>3, LineIn
    <3>2. /\ b.gens[k] \in Int /\ b.gens[k] <= g[IndexOf(LineOf(b, k))]
          /\ b.gens[k] = g[IndexOf(LineOf(b, k))] => Holds(ic, LineOf(b, k), b.bits[k])
      BY <1>3 DEF CachedInv
    <3>3. CASE IndexOf(LineOf(b, k)) = i
      BY <1>2, <3>2, <3>3
    <3>4. CASE IndexOf(LineOf(b, k)) # i
      BY <1>1, <3>1, <3>2, <3>4 DEF Holds
    <3>5. QED
      BY <3>3, <3>4
  <2>2. QED
    BY <2>1 DEF CachedInv
<1>4. CellsInv(J, mem, ic2, g2, pg, un)
  BY <1>3 DEF JitInv, CellsInv, BlockInv
<1>5. QED
  BY <1>4 DEF JitInv, ic2, g2

(* A page gets a new generation.                                           *)
LEMMA PageChanges ==
  ASSUME NEW J, NEW mem, NEW ic, NEW g, NEW pg \in [Pages -> Int], NEW un,
         JitInv(J, mem, ic, g, pg, un), NEW q \in Pages
  PROVE  JitInv(J, mem, ic, g, Bump(pg, q), un)
<1> DEFINE pg2 == Bump(pg, q)
<1>1. \A r \in Pages : pg[r] \in Int /\ (pg2[r] = pg[r] \/ pg2[r] = pg[r] + 1)
  BY BumpIs
<1> HIDE DEF pg2
<1>2. ASSUME NEW p \in PCs, NEW b, Shaped(b, p), NEW told, MemoryInv(b, mem, pg, told)
      PROVE  MemoryInv(b, mem, pg2, told)
  <2>1. b.pc = p /\ PageOf(p.line) \in Pages
    BY <1>2 DEF Shaped, PCs, Pages
  <2>2. QED
    BY <1>1, <1>2, <2>1 DEF MemoryInv
<1>3. CellsInv(J, mem, ic, g, pg2, un)
  BY <1>2 DEF JitInv, CellsInv, BlockInv
<1>4. QED
  BY <1>3 DEF JitInv, pg2

(* Memory changes at a line, and no block that would be let in spans it,    *)
(* but for those that join the untold.                                     *)
LEMMA MemoryChanges ==
  ASSUME NEW J, NEW mem, NEW ic, NEW g, NEW pg, NEW un, NEW more,
         JitInv(J, mem, ic, g, pg, un), DOMAIN mem = Lines, NEW l \in Lines, NEW c,
         \A p \in PCs : J.cell[p] # NoSlot /\ ~p.cached =>
            LET b == J.blocks[J.cell[p]] IN
            \/ l \notin Span(p, Len(b.bits))
            \/ b.page # pg[PageOf(p.line)]
            \/ J.cell[p] \in more
  PROVE  JitInv(J, [mem EXCEPT ![l] = c], ic, g, pg, un \cup more)
<1> DEFINE mem2 == [mem EXCEPT ![l] = c]
<1>1. \A m \in Lines \ {l} : mem2[m] = mem[m]
  OBVIOUS
<1> HIDE DEF mem2
<1>2. ASSUME NEW p \in PCs, ~p.cached, J.cell[p] # NoSlot
      PROVE  MemoryInv(J.blocks[J.cell[p]], mem2, pg, J.cell[p] \notin un \cup more)
  <2> DEFINE b == J.blocks[J.cell[p]]
  <2>1. Shaped(b, p) /\ MemoryInv(b, mem, pg, J.cell[p] \notin un) /\ b.pc = p
    BY <1>2 DEF JitInv, CellsInv, BlockInv, Shaped
  <2>2. \/ l \notin Span(p, Len(b.bits)) \/ b.page # pg[PageOf(p.line)]
        \/ J.cell[p] \in more
    BY <1>2
  <2> HIDE DEF b
  <2>3. CASE l \notin Span(p, Len(b.bits))
    <3>1. \A k \in 1 .. Len(b.bits) : LineOf(b, k) \in Lines \ {l}
      BY <2>1, <2>3, LineIn
    <3>2. Equals(b, mem) => Equals(b, mem2)
      BY <1>1, <3>1 DEF Equals
    <3>3. QED
      BY <2>1, <3>2 DEF MemoryInv, b
  <2>4. CASE b.page # pg[PageOf(p.line)] \/ J.cell[p] \in more
    BY <2>1, <2>4 DEF MemoryInv, b
  <2>5. QED
    BY <2>2, <2>3, <2>4
<1>3. CellsInv(J, mem2, ic, g, pg, un \cup more)
  BY <1>2 DEF JitInv, CellsInv, BlockInv
<1>4. QED
  BY <1>3 DEF JitInv, mem2

LEMMA PlaceOf ==
  ASSUME NEW p \in PCs, NEW b, Shaped(b, p), NEW l \in Span(p, Len(b.bits))
  PROVE  \E k \in 1 .. Len(b.bits) : l = LineOf(b, k)
<1>1. p.line \in Int /\ b.pc = p /\ Len(b.bits) \in Nat \ {0}
  BY DEF PCs, Lines, Shaped
<1>2. l \in Int /\ l - p.line + 1 \in 1 .. Len(b.bits)
  BY <1>1 DEF Span
<1>3. l = LineOf(b, l - p.line + 1)
  BY <1>1, <1>2 DEF LineOf
<1>4. QED
  BY <1>2, <1>3

PagesOf(marks) == {PageOf(m) : m \in marks}
Notified(marks, pg, l) == IF PageOf(l) \in PagesOf(marks) THEN Bump(pg, PageOf(l)) ELSE pg

(* A write the pages hear of: those with a translation get a generation.   *)
LEMMA NotifiedInv ==
  ASSUME NEW J, NEW mem, NEW ic, NEW g, NEW pg \in [Pages -> Int], NEW un,
         JitInv(J, mem, ic, g, pg, un), NEW l \in Lines
  PROVE  /\ JitInv(J, mem, ic, g, Notified(J.marked, pg, l), un)
         /\ Notified(J.marked, pg, l) \in [Pages -> Int]
<1>1. PageOf(l) \in Pages
  BY DEF Pages
<1>2. QED
  BY <1>1, PageChanges, BumpIs DEF Notified

LEMMA NotifiedWrite ==
  ASSUME NEW J, NEW mem, NEW ic, NEW g, NEW pg \in [Pages -> Int], NEW un,
         JitInv(J, mem, ic, g, pg, un), DOMAIN mem = Lines, NEW l \in Lines, NEW c
  PROVE  JitInv(J, [mem EXCEPT ![l] = c], ic, g, Notified(J.marked, pg, l), un)
<1> DEFINE pg2 == Notified(J.marked, pg, l)
<1>1. JitInv(J, mem, ic, g, pg2, un)
  BY NotifiedInv
<1>2. ASSUME NEW p \in PCs, J.cell[p] # NoSlot, ~p.cached,
             l \in Span(p, Len(J.blocks[J.cell[p]].bits))
      PROVE  J.blocks[J.cell[p]].page # pg2[PageOf(p.line)]
  <2> DEFINE b == J.blocks[J.cell[p]]
  <2>1. /\ Shaped(b, p) /\ b.page \in Int /\ b.page <= pg[PageOf(p.line)]
        /\ Span(p, Len(b.bits)) \subseteq J.marked
    BY <1>2 DEF JitInv, CellsInv, BlockInv, MemoryInv, Shaped
  <2>2. PageOf(l) = PageOf(p.line)
    <3>1. PICK k \in 1 .. Len(b.bits) : l = LineOf(b, k)
      BY <1>2, <2>1, PlaceOf
    <3>2. QED
      BY <1>2, <2>1, <3>1, LineIn
  <2>3. l \in J.marked /\ PageOf(l) \in Pages
    BY <1>2, <2>1 DEF Pages
  <2>4. pg2[PageOf(p.line)] = pg[PageOf(p.line)] + 1 /\ pg[PageOf(p.line)] \in Int
    BY <2>2, <2>3, BumpIs DEF Notified, PagesOf
  <2> HIDE DEF pg2, b
  <2>5. b.page # pg2[PageOf(p.line)]
    BY <2>1, <2>4
  <2>6. QED
    BY <2>5 DEF b
<1> HIDE DEF pg2
<1>3. JitInv(J, [mem EXCEPT ![l] = c], ic, g, pg2, un \cup {})
  BY <1>1, <1>2, MemoryChanges
<1>4. un \cup {} = un
  OBVIOUS
<1>5. QED
  BY <1>3, <1>4 DEF pg2

-----------------------------------------------------------------------------
(***************************************************************************)
(* What changes the translations.                                          *)
(***************************************************************************)
LEMMA InstallIs ==
  ASSUME NEW J, JitTypes(J), NEW p \in PCs, NEW b, DOMAIN b = DOMAIN Empty, NEW new,
         CanAcquire(J, p, new)
  PROVE  LET s == Acquire(J, p, new)  K == Install(J, p, b, new) IN
         /\ s \in Slots /\ DOMAIN K = JitFields /\ K.epoch = J.epoch
         /\ K.blocks = [J.blocks EXCEPT ![s] = [b EXCEPT !.epoch = J.epoch]]
         /\ K.used = IF s > J.used THEN s ELSE J.used
         /\ K.cell = [J.cell EXCEPT ![p] = s]
         /\ K.marked = J.marked \cup Span(p, Len(b.bits))
BY DEF Install, CanAcquire, JitTypes, JitFields

(* It leaves the blocks of other addresses where they are.                 *)
LEMMA InstallKeeps ==
  ASSUME NEW J, NEW mem, NEW ic, NEW g, NEW pg, NEW un, JitInv(J, mem, ic, g, pg, un),
         NEW p \in PCs, NEW b, NEW new, CanAcquire(J, p, new), Shaped(b, p),
         NEW q \in PCs, q # p, J.cell[q] # NoSlot, NEW N, N = Install(J, p, b, new)
  PROVE  /\ N.cell[q] = J.cell[q] /\ N.cell[q] # Acquire(J, p, new)
         /\ N.blocks[N.cell[q]] = J.blocks[J.cell[q]]
<1> DEFINE s == Acquire(J, p, new)
           K == Install(J, p, b, new)
           b2 == [b EXCEPT !.epoch = J.epoch]
<1>1. JitTypes(J) /\ DOMAIN b = DOMAIN Empty
  BY DEF JitInv, Shaped
<1>2. /\ s \in Slots /\ DOMAIN K = JitFields /\ K.epoch = J.epoch
      /\ K.blocks = [J.blocks EXCEPT ![s] = b2]
      /\ K.used = IF s > J.used THEN s ELSE J.used
      /\ K.cell = [J.cell EXCEPT ![p] = s]
      /\ K.marked = J.marked \cup Span(p, Len(b.bits))
  BY <1>1, InstallIs
<1>3. s = J.used + 1 \/ (s = J.cell[p] /\ s # NoSlot)
  BY DEF Acquire, LiveAt
<1> HIDE DEF s, K, b2
<1>4. J.cell[q] \in 1 .. J.used /\ J.blocks[J.cell[q]].pc = q
  BY DEF JitInv, CellsInv, BlockInv, Shaped
<1>5. s # J.cell[q]
  <2>1. CASE s = J.used + 1
    BY <1>1, <1>4, <2>1 DEF JitTypes
  <2>2. CASE s = J.cell[p] /\ s # NoSlot
    <3>1. J.blocks[s].pc = p
      BY <2>2 DEF JitInv, CellsInv, BlockInv, Shaped
    <3>2. QED
      BY <1>4, <3>1
  <2>3. QED
    BY <1>3, <2>1, <2>2
<1>6. J.cell[q] \in Slots
  BY <1>1, <1>4, CacheAssumption DEF JitTypes, Slots
<1>7. K.cell[q] = J.cell[q] /\ K.cell[q] # s /\ K.blocks[K.cell[q]] = J.blocks[J.cell[q]]
  BY <1>1, <1>2, <1>5, <1>6 DEF JitTypes
<1>8. QED
  BY <1>7 DEF s, K

LEMMA InstallInv ==
  ASSUME NEW J, NEW mem, NEW ic, NEW g, NEW pg, NEW un, JitInv(J, mem, ic, g, pg, un),
         NEW p \in PCs, NEW b, NEW new, CanAcquire(J, p, new),
         Shaped(b, p), p.cached => CachedInv(b, ic, g), ~p.cached => MemoryInv(b, mem, pg, TRUE)
  PROVE  /\ JitInv(Install(J, p, b, new), mem, ic, g, pg, un \ {Acquire(J, p, new)})
         /\ p.cached => JitInv(Install(J, p, b, new), mem, ic, g, pg, un)
<1> DEFINE s == Acquire(J, p, new)
           K == Install(J, p, b, new)
           b2 == [b EXCEPT !.epoch = J.epoch]
<1>1. JitTypes(J) /\ DOMAIN b = DOMAIN Empty
  BY DEF JitInv, Shaped
<1>2. /\ s \in Slots /\ DOMAIN K = JitFields /\ K.epoch = J.epoch
      /\ K.blocks = [J.blocks EXCEPT ![s] = b2]
      /\ K.used = IF s > J.used THEN s ELSE J.used
      /\ K.cell = [J.cell EXCEPT ![p] = s]
      /\ K.marked = J.marked \cup Span(p, Len(b.bits))
  BY <1>1, InstallIs
<1>3. s = J.used + 1 \/ (s = J.cell[p] /\ s # NoSlot)
  BY DEF Acquire, LiveAt
<1>4. /\ b2.pc = p /\ b2.bits = b.bits /\ b2.gens = b.gens /\ b2.page = b.page
      /\ b2.epoch = J.epoch /\ DOMAIN b2 = DOMAIN Empty
  BY <1>1 DEF Shaped, Empty
<1> HIDE DEF s, K, b2
<1>5. JitTypes(K)
  BY <1>1, <1>2 DEF JitTypes, Slots
<1>6. /\ Shaped(b2, p)
      /\ p.cached => CachedInv(b2, ic, g)
      /\ ~p.cached => MemoryInv(b2, mem, pg, TRUE)
  BY <1>4 DEF Shaped, CachedInv, MemoryInv, Equals, LineOf
<1>7. ASSUME NEW q \in PCs, q # p, K.cell[q] # NoSlot
      PROVE  /\ K.cell[q] = J.cell[q] /\ J.cell[q] # NoSlot /\ K.cell[q] # s
             /\ K.blocks[K.cell[q]] = J.blocks[J.cell[q]]
  <2>1. J.cell[q] # NoSlot
    BY <1>1, <1>2, <1>7 DEF JitTypes
  <2>2. QED
    BY <1>7, <2>1, InstallKeeps DEF s, K
<1>8. /\ K.cell[p] = s /\ K.blocks[s] = b2 /\ s \in 1 .. K.used
  <2>1. s \in Int /\ J.used \in Int /\ s >= 1
    BY <1>1, <1>2, CacheAssumption DEF JitTypes, Slots
  <2>2. QED
    BY <1>1, <1>2, <2>1 DEF JitTypes
<1>9. ASSUME NEW less, \A t : t # s => (t \in un <=> t \in less), p.cached \/ s \notin less
      PROVE  CellsInv(K, mem, ic, g, pg, less)
  <2>1. SUFFICES ASSUME NEW q \in PCs, K.cell[q] # NoSlot
                 PROVE  /\ K.cell[q] \in 1 .. K.used /\ K.blocks[K.cell[q]].epoch = K.epoch
                        /\ BlockInv(K.blocks[K.cell[q]], q, K.marked, mem, ic, g, pg,
                                    K.cell[q] \notin less)
    BY DEF CellsInv
  <2>2. CASE q = p
    <3>1. K.cell[q] \notin less \/ p.cached
      BY <1>8, <1>9, <2>2
    <3>2. p.cached \/ MemoryInv(b2, mem, pg, K.cell[q] \notin less)
      BY <1>6, <3>1 DEF MemoryInv
    <3>3. BlockInv(b2, p, K.marked, mem, ic, g, pg, K.cell[q] \notin less)
      <4>1. Span(p, Len(b2.bits)) \subseteq K.marked
        BY <1>2, <1>4
      <4>2. QED
        BY <1>6, <3>2, <4>1, Zenon DEF BlockInv
    <3>4. QED
      BY <1>2, <1>4, <1>8, <2>2, <3>3
  <2>3. CASE q # p
    <3>1. /\ K.cell[q] = J.cell[q] /\ J.cell[q] # NoSlot /\ K.cell[q] # s
          /\ K.blocks[K.cell[q]] = J.blocks[J.cell[q]]
      BY <1>7, <2>1, <2>3
    <3> DEFINE d == J.blocks[J.cell[q]]
    <3>2. /\ J.cell[q] \in 1 .. J.used /\ d.epoch = J.epoch
          /\ BlockInv(d, q, J.marked, mem, ic, g, pg, J.cell[q] \notin un)
      BY <3>1 DEF JitInv, CellsInv
    <3>3. J.cell[q] \in un <=> J.cell[q] \in less
      BY <1>9, <3>1
    <3>4. J.marked \subseteq K.marked /\ J.cell[q] \in 1 .. K.used
      <4>1. s \in Int /\ J.used \in Int
        BY <1>1, <1>2 DEF JitTypes, Slots
      <4>2. QED
        BY <1>2, <3>2, <4>1
    <3> HIDE DEF d
    <3>5. BlockInv(d, q, K.marked, mem, ic, g, pg, J.cell[q] \notin less)
      BY <3>2, <3>3, <3>4 DEF BlockInv, MemoryInv
    <3>6. QED
      BY <1>2, <3>1, <3>2, <3>4, <3>5 DEF d
  <2>4. QED
    BY <2>2, <2>3
<1>10. CellsInv(K, mem, ic, g, pg, un \ {s}) /\ (p.cached => CellsInv(K, mem, ic, g, pg, un))
  <2>1. \A t : t # s => (t \in un <=> t \in un \ {s})
    OBVIOUS
  <2>2. QED
    BY <1>9, <2>1
<1>11. QED
  BY <1>5, <1>10 DEF JitInv, s, K

(* A reset empties every cell. *)
LEMMA ResetInv ==
  ASSUME NEW J, JitTypes(J)
  PROVE  /\ JitTypes(ResetOf(J)) /\ \A p \in PCs : ResetOf(J).cell[p] = NoSlot
         /\ \A mem, ic, g, pg, un : JitInv(ResetOf(J), mem, ic, g, pg, un)
<1> DEFINE K == ResetOf(J)
<1>1. /\ DOMAIN K = JitFields /\ K.blocks = [s \in Slots |-> Empty] /\ K.used = 0
      /\ K.cell = [p \in PCs |-> NoSlot]
  BY DEF ResetOf, JitTypes, JitFields
<1> HIDE DEF K
<1>2. JitTypes(K)
  BY <1>1, CacheAssumption DEF JitTypes
<1>3. \A p \in PCs : K.cell[p] = NoSlot
  BY <1>1
<1>4. QED
  BY <1>2, <1>3 DEF JitInv, CellsInv, K

LEMMA CellsOwn ==
  ASSUME NEW J, NEW mem, NEW ic, NEW g, NEW pg, NEW un, JitInv(J, mem, ic, g, pg, un),
         NEW q \in PCs, J.cell[q] # NoSlot
  PROVE  J.blocks[J.cell[q]].pc = q
BY DEF JitInv, CellsInv, BlockInv, Shaped

(* A cell is emptied.                                                      *)
LEMMA DropInv ==
  ASSUME NEW J, NEW mem, NEW ic, NEW g, NEW pg, NEW un, JitInv(J, mem, ic, g, pg, un),
         NEW p \in PCs
  PROVE  JitInv([J EXCEPT !.cell[p] = NoSlot], mem, ic, g, pg, un)
<1> DEFINE K == [J EXCEPT !.cell[p] = NoSlot]
<1>1. /\ DOMAIN K = JitFields /\ K.cell = [J.cell EXCEPT ![p] = NoSlot]
      /\ K.blocks = J.blocks /\ K.used = J.used /\ K.epoch = J.epoch /\ K.marked = J.marked
  BY DEF JitInv, JitTypes, JitFields
<1> HIDE DEF K
<1>2. JitTypes(K)
  BY <1>1 DEF JitInv, JitTypes
<1>3. \A q \in PCs : K.cell[q] = NoSlot \/ K.cell[q] = J.cell[q]
  BY <1>1 DEF JitInv, JitTypes
<1>4. CellsInv(K, mem, ic, g, pg, un)
  BY <1>1, <1>3 DEF JitInv, CellsInv
<1>5. QED
  BY <1>2, <1>4 DEF JitInv, K

(* A block's lines are given other generations.                            *)
LEMMA PublishInv ==
  ASSUME NEW J, NEW mem, NEW ic, NEW g, NEW pg, NEW un, JitInv(J, mem, ic, g, pg, un),
         NEW p \in PCs, J.cell[p] # NoSlot, NEW f,
         DOMAIN f = DOMAIN J.blocks[J.cell[p]].gens,
         CachedInv([J.blocks[J.cell[p]] EXCEPT !.gens = f], ic, g)
  PROVE  JitInv([J EXCEPT !.blocks[J.cell[p]].gens = f], mem, ic, g, pg, un)
<1> DEFINE s == J.cell[p]
           K == [J EXCEPT !.blocks[s].gens = f]
           b == J.blocks[s]
           b2 == [b EXCEPT !.gens = f]
<1>1. /\ JitTypes(J) /\ s \in 1 .. J.used /\ b.epoch = J.epoch
      /\ BlockInv(b, p, J.marked, mem, ic, g, pg, s \notin un)
  BY DEF JitInv, CellsInv
<1>2. /\ DOMAIN K = JitFields /\ K.cell = J.cell /\ K.used = J.used /\ K.epoch = J.epoch
      /\ K.marked = J.marked /\ K.blocks = [J.blocks EXCEPT ![s] = b2]
  BY <1>1 DEF JitTypes, JitFields
<1>3. Shaped(b, p) /\ DOMAIN b = DOMAIN Empty
  BY <1>1 DEF BlockInv, Shaped
<1>4. /\ b2.pc = b.pc /\ b2.bits = b.bits /\ b2.page = b.page /\ b2.epoch = b.epoch
      /\ b2.gens = f /\ DOMAIN b2 = DOMAIN Empty
  BY <1>3 DEF Empty
<1>5. s \in Slots
  BY <1>1, CacheAssumption DEF JitTypes, Slots
<1>6. DOMAIN f = DOMAIN b.gens /\ CachedInv(b2, ic, g)
  OBVIOUS
<1> HIDE DEF K, b2
<1>7. JitTypes(K)
  BY <1>1, <1>2 DEF JitTypes
<1>8. BlockInv(b2, p, K.marked, mem, ic, g, pg, s \notin un)
  <2>1. Shaped(b2, p)
    BY <1>3, <1>4, <1>6 DEF Shaped
  <2>2. ~p.cached => MemoryInv(b2, mem, pg, s \notin un) /\ Span(p, Len(b2.bits)) \subseteq K.marked
    BY <1>1, <1>2, <1>4 DEF BlockInv, MemoryInv, Equals, LineOf
  <2>3. QED
    BY <1>6, <2>1, <2>2, Zenon DEF BlockInv
<1>9. ASSUME NEW q \in PCs, K.cell[q] # NoSlot
      PROVE  /\ K.cell[q] \in 1 .. K.used /\ K.blocks[K.cell[q]].epoch = K.epoch
             /\ BlockInv(K.blocks[K.cell[q]], q, K.marked, mem, ic, g, pg, K.cell[q] \notin un)
  <2>1. CASE K.cell[q] = s
    <3>1. J.cell[q] = s /\ J.blocks[s].pc = q /\ b.pc = p
      <4>1. J.cell[q] = s /\ J.cell[q] # NoSlot
        BY <1>2, <1>9, <2>1
      <4>2. J.blocks[J.cell[q]].pc = q /\ J.blocks[J.cell[p]].pc = p
        BY <4>1, CellsOwn
      <4>3. QED
        BY <4>1, <4>2
    <3>2. K.blocks[s] = b2 /\ q = p
      BY <1>1, <1>2, <1>5, <3>1 DEF JitTypes
    <3>3. K.blocks[K.cell[q]] = b2 /\ K.cell[q] = s /\ K.cell[q] \in 1 .. K.used
      BY <1>1, <1>2, <2>1, <3>2
    <3>4. b2.epoch = K.epoch
      BY <1>1, <1>2, <1>4
    <3>5. BlockInv(K.blocks[K.cell[q]], q, K.marked, mem, ic, g, pg, K.cell[q] \notin un)
      BY <1>8, <3>2, <3>3, Zenon
    <3>6. QED
      BY <3>3, <3>4, <3>5, Zenon
  <2>2. CASE K.cell[q] # s
    <3>1. J.cell[q] # NoSlot /\ J.cell[q] # s /\ J.cell[q] = K.cell[q]
      BY <1>2, <1>9, <2>2
    <3>2. J.cell[q] \in 1 .. J.used
      BY <3>1 DEF JitInv, CellsInv
    <3>3. J.cell[q] \in Slots
      BY <1>1, <3>2, CacheAssumption DEF JitTypes, Slots
    <3>4. K.blocks[K.cell[q]] = J.blocks[J.cell[q]]
      BY <1>1, <1>2, <3>1, <3>3 DEF JitTypes
    <3>5. QED
      BY <1>2, <3>1, <3>4 DEF JitInv, CellsInv
  <2>3. QED
    BY <2>1, <2>2
<1>10. QED
  BY <1>7, <1>9 DEF JitInv, CellsInv, K

(* A promotion installs a block at a line before, in a slot of its own.    *)
LEMMA PromotedIs ==
  ASSUME NEW J, NEW l \in Lines, NEW N \in Promoted(J, l), N # J
  PROVE  \E d \in 1 .. 3 : \E b :
           /\ l - d \in Lines /\ CanAcquire(J, At(l - d), TRUE)
           /\ b \in Shapes(At(l - d), d + 1) /\ N = Install(J, At(l - d), b, TRUE)
<1> DEFINE far == {d \in 1 .. 3 : Promotable(J, l, d)}
           d == CHOOSE d \in far : \A e \in far : e <= d
<1>1. far # {} /\ \E q \in far : \A e \in far : e <= q
  <2>1. far # {}
    BY DEF Promoted
  <2>2. CASE 3 \in far
    BY <2>2
  <2>3. CASE 3 \notin far /\ 2 \in far
    BY <2>3
  <2>4. CASE 3 \notin far /\ 2 \notin far
    BY <2>1, <2>4
  <2>5. QED
    BY <2>1, <2>2, <2>3, <2>4
<1>2. d \in far
  BY <1>1
<1>3. d \in 1 .. 3 /\ l - d \in Lines
  BY <1>2 DEF Promotable
<1>4. PICK b \in (IF CanAcquire(J, At(l - d), TRUE) THEN Shapes(At(l - d), d + 1) ELSE {}) :
        N = Install(J, At(l - d), b, TRUE)
  BY <1>1 DEF Promoted
<1> HIDE DEF far, d
<1>5. QED
  BY <1>3, <1>4

(* The promotion of the block before.                                      *)
PromotionsKeep ==
  \A J, un, l, N :
    /\ JitInv(J, ram, icache, gens, pageGen, un) /\ l \in Lines /\ N \in Promoted(J, l)
    => JitInv(N, ram, icache, gens, pageGen, un)

LEMMA PromotedInv == MachineTypes => PromotionsKeep
<1> SUFFICES ASSUME MachineTypes, NEW J, NEW un, NEW l \in Lines, NEW N \in Promoted(J, l),
                    JitInv(J, ram, icache, gens, pageGen, un), N # J
             PROVE  JitInv(N, ram, icache, gens, pageGen, un)
  BY DEF PromotionsKeep
<1>1. PICK d \in 1 .. 3 : \E b :
        /\ l - d \in Lines /\ CanAcquire(J, At(l - d), TRUE)
        /\ b \in Shapes(At(l - d), d + 1) /\ N = Install(J, At(l - d), b, TRUE)
  BY PromotedIs
<1>2. PICK b : /\ l - d \in Lines /\ CanAcquire(J, At(l - d), TRUE)
               /\ b \in Shapes(At(l - d), d + 1) /\ N = Install(J, At(l - d), b, TRUE)
  BY <1>1
<1>3. At(l - d) \in PCs /\ At(l - d).cached
  BY <1>2 DEF At, PCs
<1>4. Made(b, At(l - d))
  BY <1>2, <1>3, ShapesMade DEF ShapesAreMade
<1>5. QED
  BY <1>2, <1>3, <1>4, InstallInv DEF Made

-----------------------------------------------------------------------------
(***************************************************************************)
(* The steps outside blocks.                                               *)
(***************************************************************************)
LEMMA InitInv == Init => IInv
<1> SUFFICES ASSUME Init PROVE IInv
  OBVIOUS
<1>1. MachineTypes
  <2>1. DOMAIN ram = Lines /\ DOMAIN icache = Indexes
    BY CacheAssumption DEF Init, Lines
  <2>2. gens \in [Indexes -> Int] /\ pageGen \in [Pages -> Int]
    BY DEF Init
  <2>3. pc \in PCs
    BY CacheAssumption DEF Init, PCs, Lines
  <2>4. QED
    BY <2>1, <2>2, <2>3 DEF Init, MachineTypes
<1>2. /\ DOMAIN jit = JitFields /\ jit.used = 0 /\ DOMAIN jit.blocks = Slots
      /\ jit.cell = [p \in PCs |-> NoSlot]
  BY DEF Init, JitFields
<1>3. JitInv(jit, ram, icache, gens, pageGen, unseen)
  BY <1>2, CacheAssumption DEF JitInv, JitTypes, CellsInv
<1>4. QED
  BY <1>1, <1>3 DEF Init, IInv, BodyInv

(* Where no block runs, only the machine and the translations matter.       *)
LEMMA OutOfBody ==
  ASSUME MachineTypes', JitInv(jit', ram', icache', gens', pageGen', unseen'), mode' # "body"
  PROVE  IInv'
BY DEF IInv, BodyInv

LEMMA PrepareInv ==
  ASSUME MachineTypes, NEW J, NEW un, JitInv(J, ram, icache, gens, pageGen, un),
         NEW l \in Lines, Prepare(l)
  PROVE  /\ JitInv(J, ram, icache', gens', pageGen, un)
         /\ DOMAIN icache' = Indexes /\ gens' \in [Indexes -> Int]
<1>1. IndexOf(l) \in Indexes
  BY DEF Indexes
<1>2. CASE Resident(l)
  BY <1>2 DEF Prepare, MachineTypes
<1>3. CASE ~Resident(l)
  <2> DEFINE x == [valid |-> TRUE, tag |-> l, words |-> ram[l]]
  <2>1. icache' = [icache EXCEPT ![IndexOf(l)] = x] /\ gens' = Bump(gens, IndexOf(l))
    BY <1>3 DEF Prepare, Fill
  <2> HIDE DEF x
  <2>2. gens \in [Indexes -> Int] /\ DOMAIN icache = Indexes
    BY DEF MachineTypes
  <2>3. gens' \in [Indexes -> Int] /\ DOMAIN icache' = Indexes
    BY <1>1, <2>1, <2>2, BumpIs
  <2>4. JitInv(J, ram, icache', gens', pageGen, un)
    BY <1>1, <2>1, <2>2, CacheChanges
  <2>5. QED
    BY <2>3, <2>4
<1>4. QED
  BY <1>2, <1>3

LEMMA PrepareOrNot ==
  ASSUME IInv, IF pc.cached THEN Prepare(pc.line) ELSE UNCHANGED <<icache, gens>>
  PROVE  /\ JitInv(jit, ram, icache', gens', pageGen, unseen)
         /\ DOMAIN icache' = Indexes /\ gens' \in [Indexes -> Int]
<1>1. MachineTypes /\ pc.line \in Lines
  BY DEF IInv, MachineTypes, PCs
<1>2. JitInv(jit, ram, icache, gens, pageGen, unseen)
  BY DEF IInv
<1>3. QED
  BY <1>1, <1>2, PrepareInv DEF MachineTypes

(* A line leaves the instruction cache.                                    *)
LEMMA IsolatedInv ==
  ASSUME IInv, NEW l \in Lines, Isolated(l)
  PROVE  /\ JitInv(jit, ram, icache', gens', pageGen, unseen)
         /\ DOMAIN icache' = Indexes /\ gens' \in [Indexes -> Int]
<1>1. IndexOf(l) \in Indexes
  BY DEF Indexes
<1>2. icache' = [icache EXCEPT ![IndexOf(l)] = NotCached] /\ gens' = Bump(gens, IndexOf(l))
  BY DEF Isolated
<1>3. gens \in [Indexes -> Int] /\ DOMAIN icache = Indexes
  BY DEF IInv, MachineTypes
<1>4. gens' \in [Indexes -> Int] /\ DOMAIN icache' = Indexes
  BY <1>1, <1>2, <1>3, BumpIs
<1>5. JitInv(jit, ram, icache', gens', pageGen, unseen)
  BY <1>1, <1>2, <1>3, CacheChanges DEF IInv
<1>6. QED
  BY <1>4, <1>5

(* The pages hear of a write, with and without the write itself.           *)
LEMMA NotifyIs ==
  ASSUME NEW l, NotifyWrite(l)
  PROVE  pageGen' = Notified(jit.marked, pageGen, l)
BY DEF NotifyWrite, Notified, CodePages, PagesOf

LEMMA WriteInv ==
  ASSUME IInv, NEW l \in Lines, NEW c, Written(l, c), NotifyWrite(l)
  PROVE  /\ JitInv(jit, ram', icache, gens, pageGen', unseen)
         /\ DOMAIN ram' = Lines /\ pageGen' \in [Pages -> Int]
<1>1. pageGen' = Notified(jit.marked, pageGen, l) /\ ram' = [ram EXCEPT ![l] = c]
  BY NotifyIs DEF Written
<1>2. /\ JitInv(jit, ram, icache, gens, pageGen, unseen)
      /\ DOMAIN ram = Lines /\ pageGen \in [Pages -> Int]
  BY DEF IInv, MachineTypes
<1>3. QED
  BY <1>1, <1>2, NotifiedInv, NotifiedWrite

(* What compile_block makes and installs, before a promotion.              *)
LEMMA CompiledInv ==
  ASSUME MachineTypes, MachineTypes', NEW J, UNCHANGED <<ram, pageGen, pc>>,
         JitInv(J, ram, icache', gens', pageGen, unseen),
         NEW new, CanAcquire(J, pc, new), NEW b \in Shapes(pc, 1)',
         NEW K, K = Install(J, pc, b, new),
         unseen' = unseen \ {Acquire(J, pc, new)}
  PROVE  Shaped(b, pc) /\ JitInv(K, ram', icache', gens', pageGen', unseen')
<1>1. pc \in PCs /\ pc' \in PCs
  BY DEF MachineTypes
<1>2. ShapesAreMade'
  <2>1. (MachineTypes => ShapesAreMade)'
    BY ShapesMade, PTL
  <2>2. QED
    BY <2>1
<1>3. Made(b, pc)'
  BY <1>1, <1>2 DEF ShapesAreMade
<1>4. /\ Shaped(b, pc)
      /\ pc.cached => CachedInv(b, icache', gens')
      /\ ~pc.cached => MemoryInv(b, ram, pageGen, TRUE)
  BY <1>3 DEF Made, Shaped, CachedInv, MemoryInv, Holds, IndexOf, PageOf, LineOf, Span, Lines,
     InPage, Equals, Empty
<1>5. QED
  BY <1>1, <1>4, InstallInv

LEMMA CompileInv ==
  ASSUME MachineTypes, MachineTypes', NEW J, UNCHANGED <<ram, pageGen, pc>>,
         JitInv(J, ram, icache', gens', pageGen, unseen),
         CanAcquire(J, pc, FALSE), NEW b \in Shapes(pc, 1)',
         NEW K, K = Install(J, pc, b, FALSE),
         jit' \in (IF pc.cached THEN Promoted(K, pc.line)' ELSE {K}),
         unseen' = unseen \ {Acquire(J, pc, FALSE)}
  PROVE  JitInv(jit', ram', icache', gens', pageGen', unseen')
<1>1. pc.line \in Lines /\ pc'.line \in Lines
  BY DEF MachineTypes, PCs
<1>2. PromotionsKeep'
  <2>1. (MachineTypes => PromotionsKeep)'
    BY PromotedInv, PTL
  <2>2. QED
    BY <2>1
<1>3. JitInv(K, ram', icache', gens', pageGen', unseen')
  BY CompiledInv
<1>4. CASE ~pc.cached
  BY <1>3, <1>4
<1>5. CASE pc.cached
  BY <1>1, <1>2, <1>3, <1>5 DEF PromotionsKeep
<1>6. QED
  BY <1>4, <1>5

LEMMA TranslateStep ==
  ASSUME IInv, Translate
  PROVE  IInv'
<1>1. /\ mode' = "native" /\ UNCHANGED <<ram, writes, pageGen, pc, run, exits>>
      /\ IF pc.cached THEN Prepare(pc.line) ELSE UNCHANGED <<icache, gens>>
  BY DEF Translate
<1>2. /\ JitInv(jit, ram, icache', gens', pageGen, unseen)
      /\ DOMAIN icache' = Indexes /\ gens' \in [Indexes -> Int]
  BY <1>1, PrepareOrNot
<1>3. MachineTypes /\ MachineTypes'
  BY <1>1, <1>2 DEF IInv, MachineTypes
<1>4. ASSUME NEW J, JitInv(J, ram, icache', gens', pageGen, unseen), CompileIn(J)
      PROVE  JitInv(jit', ram', icache', gens', pageGen', unseen')
  <2>1. CanAcquire(J, pc, FALSE) /\ unseen' = unseen \ {Acquire(J, pc, FALSE)}
    BY <1>4 DEF CompileIn
  <2>2. PICK b \in Shapes(pc, 1)' : \E K \in {Install(J, pc, b, FALSE)} :
          jit' \in (IF pc.cached THEN Promoted(K, pc.line)' ELSE {K})
    BY <1>4 DEF CompileIn
  <2>3. PICK K \in {Install(J, pc, b, FALSE)} :
          jit' \in (IF pc.cached THEN Promoted(K, pc.line)' ELSE {K})
    BY <2>2
  <2>4. K = Install(J, pc, b, FALSE)
    BY <2>3
  <2>5. QED
    BY <1>1, <1>3, <1>4, <2>1, <2>3, <2>4, CompileInv
<1>5. JitInv(ResetOf(jit), ram, icache', gens', pageGen, unseen)
  BY ResetInv DEF IInv, JitInv
<1>6. CompileIn(jit) \/ CompileIn(ResetOf(jit))
  BY DEF Translate
<1>7. JitInv(jit', ram', icache', gens', pageGen', unseen')
  BY <1>2, <1>4, <1>5, <1>6
<1>8. QED
  BY <1>1, <1>3, <1>7, OutOfBody

LEMMA FlushSteps ==
  ASSUME IInv, TranslateFails \/ Flush
  PROVE  IInv'
<1>1. /\ jit' = ResetOf(jit) /\ mode' = "slice"
      /\ UNCHANGED <<ram, pageGen, pc, run>>
  BY DEF TranslateFails, Flush, Outside
<1>2. DOMAIN icache' = Indexes /\ gens' \in [Indexes -> Int]
  <2>1. CASE TranslateFails
    BY <2>1, PrepareOrNot DEF TranslateFails
  <2>2. CASE Flush
    BY <2>2 DEF Flush, IInv, MachineTypes
  <2>3. QED
    BY <2>1, <2>2
<1>3. MachineTypes'
  BY <1>1, <1>2 DEF IInv, MachineTypes
<1>4. JitInv(jit', ram', icache', gens', pageGen', unseen')
  BY <1>1, ResetInv DEF IInv, JitInv
<1>5. QED
  BY <1>1, <1>3, <1>4, OutOfBody

(* Who is at work changes, or the guest's address, and nothing else.       *)
LEMMA MoveSteps ==
  ASSUME IInv, Lookup \/ Missing \/ Yield \/ Interrupt
  PROVE  IInv'
<1>1. /\ mode' \in {"slice", "native"} /\ (pc' = pc \/ pc' \in Entries)
      /\ UNCHANGED <<ram, icache, gens, pageGen, jit, run, unseen>>
  BY DEF Lookup, Missing, Yield, Interrupt, Outside
<1>2. pc' \in PCs
  BY <1>1, CacheAssumption DEF IInv, MachineTypes, PCs, Lines
<1>3. MachineTypes' /\ JitInv(jit', ram', icache', gens', pageGen', unseen')
  BY <1>1, <1>2 DEF IInv, MachineTypes
<1>4. QED
  BY <1>1, <1>3, OutOfBody

LEMMA OutsideSteps ==
  ASSUME IInv, Interpret \/ \E l \in Lines : InterpretIsolated(l)
  PROVE  IInv'
<1>1. mode' = "slice" /\ UNCHANGED <<ram, jit, run, unseen>>
  BY DEF Interpret, InterpretIsolated, Outside
<1>2. CASE Interpret
  <2>1. pc' \in PCs /\ pageGen' = pageGen /\ pc.cached /\ Prepare(pc.line)
    BY <1>2, CacheAssumption DEF Interpret, PCs, Lines
  <2>2. /\ JitInv(jit, ram, icache', gens', pageGen, unseen)
        /\ DOMAIN icache' = Indexes /\ gens' \in [Indexes -> Int]
    BY <2>1, PrepareOrNot
  <2>3. MachineTypes'
    BY <1>1, <2>1, <2>2 DEF IInv, MachineTypes
  <2>4. QED
    BY <1>1, <2>1, <2>2, <2>3, OutOfBody
<1>3. ASSUME NEW l \in Lines, InterpretIsolated(l)
      PROVE  IInv'
  <2>1. Isolated(l) /\ NotifyWrite(l) /\ pc' = pc
    BY <1>3 DEF InterpretIsolated
  <2>2. /\ JitInv(jit, ram, icache', gens', pageGen, unseen)
        /\ DOMAIN icache' = Indexes /\ gens' \in [Indexes -> Int]
    BY <2>1, IsolatedInv
  <2>3. pageGen' = Notified(jit.marked, pageGen, l) /\ pageGen \in [Pages -> Int]
    BY <2>1, NotifyIs DEF IInv, MachineTypes
  <2>4. /\ JitInv(jit, ram, icache', gens', pageGen', unseen)
        /\ pageGen' \in [Pages -> Int]
    BY <2>2, <2>3, NotifiedInv
  <2>5. MachineTypes'
    BY <1>1, <2>1, <2>2, <2>4 DEF IInv, MachineTypes
  <2>6. QED
    BY <1>1, <2>4, <2>5, OutOfBody
<1>4. QED
  BY <1>2, <1>3

LEMMA BusWriteStep ==
  ASSUME IInv, NEW l \in Lines, NEW c, BusWrite(l, c)
  PROVE  IInv'
<1>1. /\ mode' = "slice" /\ UNCHANGED <<icache, gens, jit, pc, run, unseen>>
      /\ Written(l, c) /\ NotifyWrite(l)
  BY DEF BusWrite, Outside
<1>2. /\ JitInv(jit, ram', icache, gens, pageGen', unseen)
      /\ DOMAIN ram' = Lines /\ pageGen' \in [Pages -> Int]
  BY <1>1, WriteInv
<1>3. MachineTypes'
  BY <1>1, <1>2 DEF IInv, MachineTypes
<1>4. QED
  BY <1>1, <1>2, <1>3, OutOfBody

LEMMA DropSteps ==
  ASSUME IInv, DropStale \/ DropDifferent
  PROVE  IInv'
<1>1. /\ jit' = [jit EXCEPT !.cell[pc] = NoSlot] /\ mode' = "slice"
      /\ UNCHANGED <<ram, pageGen, pc, run, unseen>>
  BY DEF DropStale, DropDifferent, DropCell
<1>2. /\ JitInv(jit, ram, icache', gens', pageGen, unseen)
      /\ DOMAIN icache' = Indexes /\ gens' \in [Indexes -> Int]
  <2>1. CASE DropStale
    BY <2>1 DEF DropStale, IInv, MachineTypes
  <2>2. CASE DropDifferent
    <3>1. Prepare(pc.line) /\ pc.line \in Lines
      BY <2>2 DEF DropDifferent, Revalidating, IInv, MachineTypes, PCs
    <3>2. QED
      BY <3>1, PrepareInv DEF IInv
  <2>3. QED
    BY <2>1, <2>2
<1>3. MachineTypes' /\ pc \in PCs
  BY <1>1, <1>2 DEF IInv, MachineTypes
<1>4. JitInv(jit', ram', icache', gens', pageGen', unseen')
  BY <1>1, <1>2, <1>3, DropInv
<1>5. QED
  BY <1>1, <1>3, <1>4, OutOfBody

(***************************************************************************)
(* A block is entered.                                                     *)
(***************************************************************************)
LEMMA LiveBlock ==
  ASSUME NEW J, NEW mem, NEW ic, NEW g, NEW pg, NEW un, JitInv(J, mem, ic, g, pg, un),
         NEW p \in PCs, J.cell[p] # NoSlot
  PROVE  /\ J.cell[p] \in Slots /\ Shaped(J.blocks[J.cell[p]], p)
         /\ J.blocks[J.cell[p]].epoch = J.epoch
         /\ p.cached => CachedInv(J.blocks[J.cell[p]], ic, g)
         /\ ~p.cached => /\ MemoryInv(J.blocks[J.cell[p]], mem, pg, J.cell[p] \notin un)
                         /\ Span(p, Len(J.blocks[J.cell[p]].bits)) \subseteq J.marked
<1>1. J.cell[p] \in 1 .. J.used /\ J.used \in 0 .. SlotCount
  BY DEF JitInv, JitTypes, CellsInv
<1>2. J.cell[p] \in Slots
  BY <1>1, CacheAssumption DEF Slots
<1>3. QED
  BY <1>2 DEF JitInv, CellsInv, BlockInv

LEMMA EnterStep ==
  ASSUME IInv, Enter
  PROVE  IInv'
<1> DEFINE b == Block
<1>1. PICK last \in {1, Len(b.bits)} : EnterBlock(last)
  BY DEF Enter
<1>2. /\ mode' = "body" /\ run' = [slot |-> jit.cell[pc], at |-> 1, last |-> last]
      /\ UNCHANGED <<ram, pageGen, pc, unseen, icache, gens, jit>>
  BY <1>1 DEF EnterBlock, Enter
<1>3. pc \in PCs /\ jit.cell[pc] # NoSlot /\ Current(b)
  BY DEF IInv, MachineTypes, Enter, HasBlock
<1>4. /\ Shaped(b, pc)
      /\ pc.cached => CachedInv(b, icache, gens)
      /\ ~pc.cached => MemoryInv(b, ram, pageGen, jit.cell[pc] \notin unseen)
  BY <1>3, LiveBlock DEF IInv, Block
<1>5. b.pc = pc /\ Len(b.bits) \in Nat \ {0} /\ last \in 1 .. Len(b.bits)
  BY <1>4 DEF Shaped
<1>6. run'.slot = jit.cell[pc] /\ run'.at = 1 /\ run'.last = last /\ DOMAIN run' = DOMAIN Idle
  BY <1>2 DEF Idle
<1>7. jit.blocks[run'.slot] = b
  BY <1>2, <1>6 DEF Block
<1>8. pc.cached => \A k \in Guarded(b) : Holds(icache, LineOf(b, k), b.bits[k])
  <2>1. \A k \in Guarded(b) : k \in 1 .. Len(b.bits)
    BY <1>5 DEF Guarded
  <2>2. QED
    BY <1>3, <1>4, <1>5, <2>1 DEF Current, LineCurrent, CachedInv
<1>9. ~pc.cached => jit.cell[pc] \in unseen \/ Equals(b, ram)
  BY <1>3, <1>4, <1>5 DEF Current, MemoryInv
<1> HIDE DEF b
<1>10. MachineTypes' /\ JitInv(jit', ram', icache', gens', pageGen', unseen')
  BY <1>2, <1>6 DEF IInv, MachineTypes
<1>11. BodyInv'
  <2>1. 1 \in Guarded(b) /\ (~b.v5 => \A k \in 1 .. last : k \in Guarded(b))
    BY <1>5 DEF Guarded
  <2>2. BodyOf(jit, pc, run', ram, icache, unseen)
    BY <1>3, <1>5, <1>6, <1>7, <1>8, <1>9, <2>1 DEF BodyOf
  <2>3. QED
    BY <1>2, <2>2 DEF BodyInv
<1>12. QED
  BY <1>10, <1>11 DEF IInv

(* The block the dispatcher looks at again, after its first line is there. *)
LEMMA RevalidatingInv ==
  ASSUME IInv, Revalidating
  PROVE  /\ pc \in PCs /\ pc.cached /\ jit.cell[pc] # NoSlot /\ jit.cell[pc] \in Slots
         /\ JitInv(jit, ram, icache', gens', pageGen, unseen)
         /\ DOMAIN icache' = Indexes /\ gens' \in [Indexes -> Int]
         /\ Shaped(Block, pc) /\ CachedInv(Block, icache', gens')
<1>1. pc \in PCs /\ Prepare(pc.line) /\ jit.cell[pc] # NoSlot /\ pc.line \in Lines
  BY DEF IInv, MachineTypes, Revalidating, HasBlock, PCs
<1>2. /\ JitInv(jit, ram, icache', gens', pageGen, unseen)
      /\ DOMAIN icache' = Indexes /\ gens' \in [Indexes -> Int]
  BY <1>1, PrepareInv DEF IInv
<1>3. Block.pc = pc
  BY <1>1, CellsOwn DEF IInv, Block
<1>4. pc.cached
  BY <1>3 DEF Revalidating
<1>5. QED
  BY <1>1, <1>2, <1>4, LiveBlock DEF Block

LEMMA RevalidateFirstStep ==
  ASSUME IInv, RevalidateFirst
  PROVE  IInv'
<1> DEFINE b == Block
<1>1. /\ pc \in PCs /\ pc.cached /\ jit.cell[pc] # NoSlot
      /\ JitInv(jit, ram, icache', gens', pageGen, unseen)
      /\ DOMAIN icache' = Indexes /\ gens' \in [Indexes -> Int]
      /\ Shaped(b, pc)
  BY RevalidatingInv DEF RevalidateFirst
<1>2. /\ mode' = "body" /\ run' = [slot |-> jit.cell[pc], at |-> 1, last |-> 1]
      /\ UNCHANGED <<ram, pageGen, pc, unseen, jit>>
  BY DEF RevalidateFirst, EnterBlock
<1>3. Holds(icache', LineOf(b, 1), b.bits[1])
  <2>1. PICK d \in {Block} : Matches(d, 1)'
    BY DEF RevalidateFirst
  <2>2. QED
    BY <2>1 DEF Matches, Resident, Holds, LineOf, IndexOf
<1>4. run'.slot = jit.cell[pc] /\ run'.at = 1 /\ run'.last = 1 /\ DOMAIN run' = DOMAIN Idle
  BY <1>2 DEF Idle
<1>5. jit.blocks[run'.slot] = b
  BY <1>4 DEF Block
<1>6. Len(b.bits) \in Nat \ {0}
  BY <1>1 DEF Shaped
<1> HIDE DEF b
<1>7. MachineTypes' /\ JitInv(jit', ram', icache', gens', pageGen', unseen')
  BY <1>1, <1>2, <1>4 DEF IInv, MachineTypes
<1>8. BodyInv'
  <2>1. \A k \in 1 .. 1 : Holds(icache', LineOf(b, k), b.bits[k])
    BY <1>3
  <2>2. BodyOf(jit, pc, run', ram, icache', unseen)
    BY <1>1, <1>3, <1>4, <1>5, <1>6, <2>1 DEF BodyOf
  <2>3. QED
    BY <1>2, <2>2 DEF BodyInv
<1>9. QED
  BY <1>7, <1>8 DEF IInv

LEMMA PublishIs ==
  ASSUME NEW J, JitTypes(J), NEW s \in Slots, DOMAIN J.blocks[s] = DOMAIN Empty, NEW f
  PROVE  LET K == [J EXCEPT !.blocks[s].gens = f] IN
         /\ K.cell = J.cell /\ K.blocks[s] = [J.blocks[s] EXCEPT !.gens = f]
         /\ K.blocks[s].bits = J.blocks[s].bits /\ K.blocks[s].pc = J.blocks[s].pc
         /\ K.blocks[s].v5 = J.blocks[s].v5 /\ K.blocks[s].gens = f
<1> DEFINE K == [J EXCEPT !.blocks[s].gens = f]
<1>1. K.cell = J.cell /\ K.blocks[s] = [J.blocks[s] EXCEPT !.gens = f]
  BY DEF JitTypes, JitFields
<1>2. QED
  BY <1>1 DEF Empty

LEMMA RevalidateStep ==
  ASSUME IInv, Revalidate
  PROVE  IInv'
<1> DEFINE b == Block
           s == jit.cell[pc]
           f == [k \in DOMAIN b.gens |-> IF k \in Guarded(b) /\ k <= 2
                                         THEN gens'[IndexOf(LineOf(b, k))] ELSE b.gens[k]]
           b2 == [b EXCEPT !.gens = f]
<1>1. /\ pc \in PCs /\ pc.cached /\ s # NoSlot /\ s \in Slots
      /\ JitInv(jit, ram, icache', gens', pageGen, unseen)
      /\ DOMAIN icache' = Indexes /\ gens' \in [Indexes -> Int]
      /\ Shaped(b, pc) /\ CachedInv(b, icache', gens')
  BY RevalidatingInv DEF Revalidate
<1>2. /\ \A k \in Guarded(b) : Holds(icache', LineOf(b, k), b.bits[k])
      /\ jit' = [jit EXCEPT !.blocks[s].gens = f]
      /\ \E last \in {1, Len(b.bits)} : EnterBlock(last)
  <2>1. PICK d \in {Block} :
          /\ \A k \in Guarded(d) : Matches(d, k)'
          /\ jit' = [jit EXCEPT !.blocks[jit.cell[pc]].gens =
                      [k \in DOMAIN @ |-> IF k \in Guarded(d) /\ k <= 2
                                          THEN gens'[IndexOf(LineOf(d, k))]
                                          ELSE @[k]]]
          /\ \E last \in {1, Len(d.bits)} : EnterBlock(last)
    BY DEF Revalidate
  <2>2. d = b
    BY <2>1
  <2>3. jit.blocks[s].gens = b.gens
    BY DEF Block
  <2>4. \A k \in Guarded(b) : Holds(icache', LineOf(b, k), b.bits[k])
    BY <2>1, <2>2 DEF Matches, Resident, Holds, LineOf, IndexOf
  <2>5. QED
    BY <2>1, <2>2, <2>3, <2>4
<1>3. PICK last \in {1, Len(b.bits)} : EnterBlock(last)
  BY <1>2
<1>4. /\ mode' = "body" /\ run' = [slot |-> s, at |-> 1, last |-> last]
      /\ UNCHANGED <<ram, pageGen, pc, unseen>>
  BY <1>3 DEF EnterBlock
<1>5. run'.slot = s /\ run'.at = 1 /\ run'.last = last /\ DOMAIN run' = DOMAIN Idle
  BY <1>4 DEF Idle
<1>6. b = jit.blocks[s] /\ b.pc = pc /\ Len(b.bits) \in Nat \ {0} /\ DOMAIN b = DOMAIN Empty
      /\ DOMAIN b.gens = 1 .. Len(b.bits)
  BY <1>1 DEF Shaped, Block
<1>7. CachedInv(b2, icache', gens')
  <2>1. b2.gens = f /\ b2.bits = b.bits /\ b2.pc = b.pc
    BY <1>6 DEF Empty
  <2>2. ASSUME NEW k \in 1 .. Len(b.bits)
        PROVE  /\ f[k] \in Int /\ f[k] <= gens'[IndexOf(LineOf(b, k))]
               /\ f[k] = gens'[IndexOf(LineOf(b, k))] => Holds(icache', LineOf(b, k), b.bits[k])
    <3>1. gens'[IndexOf(LineOf(b, k))] \in Int
      BY <1>1, LineIn
    <3>2. /\ b.gens[k] \in Int /\ b.gens[k] <= gens'[IndexOf(LineOf(b, k))]
          /\ b.gens[k] = gens'[IndexOf(LineOf(b, k))] => Holds(icache', LineOf(b, k), b.bits[k])
      BY <1>1 DEF CachedInv
    <3>3. f[k] = IF k \in Guarded(b) /\ k <= 2 THEN gens'[IndexOf(LineOf(b, k))] ELSE b.gens[k]
      BY <1>6
    <3> HIDE DEF f, b, s
    <3>4. QED
      BY <1>2, <3>1, <3>2, <3>3
  <2> HIDE DEF f, b, b2
  <2>3. QED
    BY <2>1, <2>2 DEF CachedInv, LineOf
<1>8. DOMAIN f = DOMAIN b.gens
  OBVIOUS
<1> HIDE DEF b, f, b2, s
<1>9. b2 = [jit.blocks[jit.cell[pc]] EXCEPT !.gens = f] /\ s = jit.cell[pc]
  BY <1>6 DEF b2, s
<1>10. JitInv(jit', ram', icache', gens', pageGen', unseen')
  <2>1. jit.cell[pc] # NoSlot /\ DOMAIN f = DOMAIN jit.blocks[jit.cell[pc]].gens
    BY <1>1, <1>6, <1>8, <1>9
  <2>2. CachedInv([jit.blocks[jit.cell[pc]] EXCEPT !.gens = f], icache', gens')
    BY <1>7, <1>9
  <2>3. JitInv([jit EXCEPT !.blocks[jit.cell[pc]].gens = f], ram, icache', gens', pageGen, unseen)
    BY <1>1, <2>1, <2>2, PublishInv
  <2>4. QED
    BY <1>2, <1>4, <1>9, <2>3
<1>11. /\ jit'.cell = jit.cell /\ jit'.blocks[s].bits = b.bits /\ jit'.blocks[s].pc = b.pc
       /\ jit'.blocks[s].v5 = b.v5
  <2>1. JitTypes(jit) /\ DOMAIN jit.blocks[s] = DOMAIN Empty
    BY <1>6 DEF IInv, JitInv
  <2>2. QED
    BY <1>1, <1>2, <1>6, <2>1, PublishIs
<1>12. MachineTypes'
  BY <1>1, <1>4, <1>5 DEF IInv, MachineTypes
<1>13. BodyOf(jit', pc', run', ram', icache', unseen')
  <2>1. 1 \in Guarded(b) /\ (~b.v5 => \A k \in 1 .. last : k \in Guarded(b))
    BY <1>3, <1>6 DEF Guarded
  <2>2. \A k : LineOf(jit'.blocks[s], k) = LineOf(b, k)
    BY <1>11 DEF LineOf
  <2>3. QED
    <3>1. /\ Holds(icache', LineOf(b, 1), b.bits[1])
          /\ ~b.v5 => \A k \in 1 .. last : Holds(icache', LineOf(b, k), b.bits[k])
      BY <1>2, <2>1
    <3>2. BodyOf(jit', pc, run', ram, icache', unseen)
      <4> DEFINE d == jit'.blocks[s]
      <4>1. d.bits = b.bits /\ d.v5 = b.v5 /\ \A k : LineOf(d, k) = LineOf(b, k)
        BY <1>11, <2>2
      <4>2. last \in 1 .. Len(b.bits) /\ 1 \in 1 .. last
        BY <1>3, <1>6
      <4>3. s = jit'.cell[pc] /\ s # NoSlot /\ pc.cached
        BY <1>1, <1>9, <1>11
      <4>4. /\ Holds(icache', LineOf(d, 1), d.bits[1])
            /\ ~d.v5 => \A k \in 1 .. last : Holds(icache', LineOf(d, k), d.bits[k])
        BY <3>1, <4>1
      <4> HIDE DEF d
      <4>5. jit'.blocks[run'.slot] = d
        BY <1>5 DEF d
      <4>6. QED
        BY <1>5, <4>1, <4>2, <4>3, <4>4, <4>5 DEF BodyOf
    <3>3. QED
      BY <1>4, <3>2
<1>14. QED
  BY <1>10, <1>12, <1>13 DEF IInv, BodyInv

-----------------------------------------------------------------------------
(***************************************************************************)
(* The steps inside a block: what a line stores, then onward or out.       *)
(***************************************************************************)
(* The machine after a line's stores, before the guest goes on.            *)
LineStored ==
  /\ JitInv(jit, ram', icache, gens, pageGen', unseen')
  /\ DOMAIN ram' = Lines /\ pageGen' \in [Pages -> Int]

LEMMA LeftIs ==
  ASSUME MachineTypes, (\E l : LeaveFor(l)) \/ LeaveEnd
  PROVE  mode' = "native" /\ pc' \in PCs /\ DOMAIN run' = DOMAIN Idle
<1>1. pc' \in PCs
  <2>1. CASE \E l : LeaveFor(l)
    BY <2>1 DEF LeaveFor, LeaveAt, MachineTypes, PCs
  <2>2. CASE LeaveEnd
    BY <2>2, CacheAssumption DEF LeaveEnd, LeaveAt, PCs, Lines
  <2>3. QED
    BY <2>1, <2>2
<1>2. QED
  BY <1>1 DEF LeaveFor, LeaveEnd, LeaveAt

LEMMA LeaveInv ==
  ASSUME IInv, LineStored, (\E l : LeaveFor(l)) \/ LeaveEnd, UNCHANGED <<icache, gens, jit>>
  PROVE  IInv'
<1>1. mode' = "native" /\ pc' \in PCs /\ DOMAIN run' = DOMAIN Idle
  BY LeftIs DEF IInv
<1>2. MachineTypes'
  BY <1>1 DEF IInv, MachineTypes, LineStored
<1>3. QED
  BY <1>1, <1>2, OutOfBody DEF LineStored

(* The block that runs, seen from the cell of its address.                  *)
LEMMA RunningIs ==
  ASSUME IInv, mode = "body"
  PROVE  /\ BodyOf(jit, pc, run, ram, icache, unseen) /\ pc \in PCs
         /\ run.slot = jit.cell[pc] /\ jit.cell[pc] # NoSlot /\ run.slot \in Slots
         /\ Running = jit.blocks[jit.cell[pc]] /\ Shaped(Running, pc) /\ Running.pc = pc
         /\ Running.epoch = jit.epoch /\ Len(Running.bits) \in Nat
         /\ ~pc.cached => Span(pc, Len(Running.bits)) \subseteq jit.marked
<1>1. BodyOf(jit, pc, run, ram, icache, unseen) /\ pc \in PCs
  BY DEF IInv, BodyInv, MachineTypes
<1>2. run.slot = jit.cell[pc] /\ jit.cell[pc] # NoSlot
  BY <1>1 DEF BodyOf
<1>3. Running = jit.blocks[jit.cell[pc]]
  BY <1>2 DEF Running
<1>4. QED
  BY <1>1, <1>2, <1>3, LiveBlock DEF IInv, Shaped

(* On to the next line, whatever the translations and the caches became,    *)
(* as long as the block's instructions are the same.                       *)
LEMMA StayInv ==
  ASSUME IInv, mode = "body", Stay, run.at < run.last,
         JitInv(jit', ram', icache', gens', pageGen', unseen'),
         DOMAIN ram' = Lines, pageGen' \in [Pages -> Int],
         DOMAIN icache' = Indexes, gens' \in [Indexes -> Int],
         jit'.cell = jit.cell, jit'.blocks[run.slot].bits = Running.bits,
         jit'.blocks[run.slot].pc = Running.pc, jit'.blocks[run.slot].v5 = Running.v5,
         pc.cached => Holds(icache', LineOf(Running, run.at + 1), Running.bits[run.at + 1]),
         pc.cached /\ ~Running.v5 => UNCHANGED icache,
         ~pc.cached => run.slot \in unseen' \/ Equals(Running, ram')
  PROVE  IInv'
<1> DEFINE d == jit'.blocks[run.slot]
           b == Running
<1>1. /\ BodyOf(jit, pc, run, ram, icache, unseen)
      /\ run.slot = jit.cell[pc] /\ jit.cell[pc] # NoSlot /\ Len(b.bits) \in Nat
  BY RunningIs
<1>2. /\ run.last \in 1 .. Len(b.bits) /\ run.at \in 1 .. run.last
      /\ pc.cached /\ ~b.v5 => \A k \in 1 .. run.last : Holds(icache, LineOf(b, k), b.bits[k])
  BY <1>1 DEF BodyOf, Running
<1>3. /\ run'.slot = run.slot /\ run'.at = run.at + 1 /\ run'.last = run.last
      /\ DOMAIN run' = DOMAIN Idle /\ mode' = "body" /\ pc' = pc
  BY DEF Stay, IInv, MachineTypes, Idle
<1>4. d.bits = b.bits /\ d.v5 = b.v5 /\ \A k : LineOf(d, k) = LineOf(b, k)
  BY DEF LineOf
<1> HIDE DEF d, b
<1>5. ~pc.cached => run.slot \in unseen' \/ Equals(d, ram')
  BY <1>4 DEF Equals, b
<1>6. run.at + 1 \in 1 .. run.last
  BY <1>1, <1>2
<1>7. /\ pc.cached => Holds(icache', LineOf(d, run.at + 1), d.bits[run.at + 1])
      /\ pc.cached /\ ~d.v5 => \A k \in 1 .. run.last : Holds(icache', LineOf(d, k), d.bits[k])
  BY <1>2, <1>4 DEF b
<1>8. BodyOf(jit', pc, run', ram', icache', unseen')
  <2>1. jit'.blocks[run'.slot] = d /\ run'.slot = jit'.cell[pc]
    BY <1>1, <1>3 DEF d
  <2>2. QED
    BY <1>1, <1>2, <1>3, <1>4, <1>5, <1>6, <1>7, <2>1 DEF BodyOf
<1>9. MachineTypes'
  BY <1>3 DEF IInv, MachineTypes
<1>10. QED
  BY <1>3, <1>8, <1>9 DEF IInv, BodyInv

(* The line is there, with the block's words, under a generation that the   *)
(* block takes over.                                                       *)
Published(J, s, k, v) == [J EXCEPT !.blocks[s].gens[k] = v]

LEMMA PublishLine ==
  ASSUME IInv, mode = "body", NEW k \in 1 .. Len(Running.bits), NEW pg, NEW un, NEW mem,
         NEW ic, NEW g \in [Indexes -> Int], JitInv(jit, mem, ic, g, pg, un),
         pc.cached, Holds(ic, LineOf(Running, k), Running.bits[k]),
         NEW K, K = Published(jit, run.slot, k, g[IndexOf(LineOf(Running, k))])
  PROVE  /\ JitInv(K, mem, ic, g, pg, un) /\ K.cell = jit.cell
         /\ K.blocks[run.slot].bits = Running.bits /\ K.blocks[run.slot].pc = Running.pc
         /\ K.blocks[run.slot].v5 = Running.v5
<1> DEFINE b == Running
           v == g[IndexOf(LineOf(b, k))]
           f == [b.gens EXCEPT ![k] = v]
<1>1. /\ run.slot = jit.cell[pc] /\ jit.cell[pc] # NoSlot /\ run.slot \in Slots /\ pc \in PCs
      /\ b = jit.blocks[jit.cell[pc]] /\ Shaped(b, pc)
  BY RunningIs
<1>2. DOMAIN b = DOMAIN Empty /\ JitTypes(jit) /\ DOMAIN b.gens = 1 .. Len(b.bits)
  BY <1>1 DEF Shaped, JitInv
<1>3. K = [jit EXCEPT !.blocks[run.slot].gens = f]
  BY <1>1 DEF Published
<1>4. DOMAIN f = DOMAIN b.gens
  OBVIOUS
<1>5. CachedInv([b EXCEPT !.gens = f], ic, g)
  <2> DEFINE b2 == [b EXCEPT !.gens = f]
  <2>1. b2.gens = f /\ b2.bits = b.bits /\ b2.pc = b.pc
    BY <1>2 DEF Empty
  <2>2. CachedInv(b, ic, g)
    BY <1>1, LiveBlock
  <2>3. v \in Int
    BY <1>1, LineIn
  <2>4. ASSUME NEW j \in 1 .. Len(b.bits)
        PROVE  /\ f[j] \in Int /\ f[j] <= g[IndexOf(LineOf(b, j))]
               /\ f[j] = g[IndexOf(LineOf(b, j))] => Holds(ic, LineOf(b, j), b.bits[j])
    <3>1. f[j] = IF j = k THEN v ELSE b.gens[j]
      BY <1>2
    <3>2. /\ b.gens[j] \in Int /\ b.gens[j] <= g[IndexOf(LineOf(b, j))]
          /\ b.gens[j] = g[IndexOf(LineOf(b, j))] => Holds(ic, LineOf(b, j), b.bits[j])
      BY <2>2 DEF CachedInv
    <3>3. CASE j = k
      BY <2>3, <3>1, <3>3
    <3>4. CASE j # k
      BY <3>1, <3>2, <3>4
    <3>5. QED
      BY <3>3, <3>4
  <2> HIDE DEF f, v, b, b2
  <2>5. CachedInv(b2, ic, g)
    BY <2>1, <2>4 DEF CachedInv, LineOf
  <2>6. QED
    BY <2>5 DEF b2
<1> HIDE DEF f, b
<1>6. JitInv(K, mem, ic, g, pg, un)
  <2>1. /\ DOMAIN f = DOMAIN jit.blocks[jit.cell[pc]].gens
        /\ CachedInv([jit.blocks[jit.cell[pc]] EXCEPT !.gens = f], ic, g)
    BY <1>1, <1>4, <1>5
  <2>2. JitInv([jit EXCEPT !.blocks[jit.cell[pc]].gens = f], mem, ic, g, pg, un)
    BY <1>1, <2>1, PublishInv
  <2>3. QED
    BY <1>1, <1>3, <2>2
<1>7. /\ K.cell = jit.cell /\ K.blocks[run.slot].bits = b.bits
      /\ K.blocks[run.slot].pc = b.pc /\ K.blocks[run.slot].v5 = b.v5
  <2>1. b = jit.blocks[run.slot]
    BY <1>1
  <2>2. DOMAIN jit.blocks[run.slot] = DOMAIN Empty
    BY <1>2, <2>1
  <2>3. run.slot \in Slots /\ JitTypes(jit)
    BY <1>1, <1>2
  <2>4. /\ K.cell = jit.cell /\ K.blocks[run.slot].bits = jit.blocks[run.slot].bits
        /\ K.blocks[run.slot].pc = jit.blocks[run.slot].pc
        /\ K.blocks[run.slot].v5 = jit.blocks[run.slot].v5
    BY <1>3, <2>2, <2>3, PublishIs
  <2>5. QED
    BY <2>1, <2>4
<1>8. QED
  BY <1>6, <1>7 DEF b

LEMMA OnwardInv ==
  ASSUME IInv, mode = "body", LineStored, Onward,
         ~pc.cached => run.slot \in unseen' \/ Equals(Running, ram')
  PROVE  IInv'
<1> DEFINE b == Running
           k == run.at + 1
           l == LineOf(b, k)
<1>1. /\ BodyOf(jit, pc, run, ram, icache, unseen) /\ run.slot \in Slots
      /\ pc \in PCs /\ Shaped(b, pc) /\ b.pc = pc /\ Len(b.bits) \in Nat
      /\ b = jit.blocks[run.slot]
  BY RunningIs
<1>2. CASE run.at >= run.last
  <2>1. UNCHANGED <<icache, gens, jit>> /\ ((\E m : LeaveFor(m)) \/ LeaveEnd)
    BY <1>1, <1>2 DEF Onward, BodyOf
  <2>2. QED
    BY <2>1, LeaveInv
<1>3. CASE run.at < run.last
  <2>1. NextLine /\ k \in 1 .. Len(b.bits) /\ k \in 1 .. run.last
    BY SMTT(20), <1>1, <1>3 DEF Onward, BodyOf
  <2>2. l \in Lines /\ IndexOf(l) \in Indexes
    BY <1>1, <2>1, LineIn
  <2>3. CASE Stay /\ UNCHANGED <<icache, gens, jit>> /\ (~b.v5 \/ ~pc.cached \/ LineCurrent(b, k))
    <3>1. CachedInv(b, icache, gens) \/ ~pc.cached
      BY <1>1, RunningIs, LiveBlock DEF IInv
    <3>2. pc.cached => Holds(icache, l, b.bits[k])
      BY <1>1, <2>1, <2>3, <3>1 DEF CachedInv, LineCurrent, BodyOf
    <3>3. DOMAIN icache = Indexes /\ gens \in [Indexes -> Int]
      BY DEF IInv, MachineTypes
    <3>4. QED
      BY <1>1, <1>3, <2>3, <3>2, <3>3, StayInv DEF LineStored
  <2>4. CASE /\ Stay /\ Resident(l) /\ icache[IndexOf(l)].words = b.bits[k] /\ b.v5 /\ pc.cached
             /\ UNCHANGED <<icache, gens>>
             /\ jit' = [jit EXCEPT !.blocks[run.slot].gens[k] = gens'[IndexOf(l)]]
    <3>1. Holds(icache, l, b.bits[k]) /\ DOMAIN icache = Indexes /\ gens \in [Indexes -> Int]
      BY <2>4 DEF Resident, Holds, IInv, MachineTypes
    <3>2. jit' = Published(jit, run.slot, k, gens[IndexOf(LineOf(Running, k))])
      BY <2>4 DEF Published
    <3>3. UNCHANGED <<icache, gens>> /\ Stay /\ pc.cached
      BY <2>4
    <3> HIDE DEF l, k
    <3>4. Holds(icache, LineOf(Running, k), Running.bits[k])
      BY <3>1 DEF l
    <3>5. /\ JitInv(jit', ram', icache, gens, pageGen', unseen') /\ jit'.cell = jit.cell
          /\ jit'.blocks[run.slot].bits = b.bits /\ jit'.blocks[run.slot].pc = b.pc
          /\ jit'.blocks[run.slot].v5 = b.v5
      BY <2>1, <3>1, <3>2, <3>3, <3>4, PublishLine DEF LineStored
    <3>6. QED
      BY <1>3, <3>1, <3>3, <3>4, <3>5, StayInv DEF LineStored, k
  <2>5. CASE LeaveFor(l) /\ UNCHANGED <<icache, gens, jit>>
    BY <2>5, LeaveInv
  <2>6. CASE /\ Stay /\ ~Resident(l) /\ b.v5 /\ pc.cached /\ ram'[l] = b.bits[k]
             /\ gens' = Bump(gens, IndexOf(l))
             /\ icache' = [icache EXCEPT ![IndexOf(l)] =
                             [valid |-> TRUE, tag |-> l, words |-> ram'[l]]]
             /\ jit' = [jit EXCEPT !.blocks[run.slot].gens[k] = gens'[IndexOf(l)]]
    <3> DEFINE x == [valid |-> TRUE, tag |-> l, words |-> ram'[l]]
    <3>1. DOMAIN icache = Indexes /\ gens \in [Indexes -> Int]
      BY DEF IInv, MachineTypes
    <3>2. icache'[IndexOf(l)] = x /\ DOMAIN icache' = Indexes
      BY <2>2, <2>6, <3>1
    <3>3. x.valid /\ x.tag = l /\ x.words = b.bits[k]
      BY <2>6
    <3> HIDE DEF l, b, k
    <3>4. Holds(icache', l, b.bits[k])
      BY <3>2, <3>3 DEF Holds
    <3>5. icache' = [icache EXCEPT ![IndexOf(l)] = x]
      BY <2>6
    <3> HIDE DEF x
    <3>6. gens' = Bump(gens, IndexOf(l)) /\ Stay /\ pc.cached /\ b.v5
      BY <2>6
    <3>7. jit' = Published(jit, run.slot, k, gens'[IndexOf(LineOf(Running, k))])
      BY <2>6 DEF Published, l, b
    <3>8. JitInv(jit, ram', icache', gens', pageGen', unseen')
      <4>1. JitInv(jit, ram', icache, gens, pageGen', unseen')
        BY DEF LineStored
      <4>2. JitInv(jit, ram', [icache EXCEPT ![IndexOf(l)] = x], Bump(gens, IndexOf(l)),
                   pageGen', unseen')
        BY <2>2, <3>1, <4>1, CacheChanges
      <4>3. QED
        BY <3>5, <3>6, <4>2
    <3>9. gens' \in [Indexes -> Int]
      BY <2>2, <3>6, <3>1, BumpIs
    <3>10. Holds(icache', LineOf(Running, k), Running.bits[k]) /\ k \in 1 .. Len(Running.bits)
      BY <2>1, <3>4 DEF l, b
    <3>11. /\ JitInv(jit', ram', icache', gens', pageGen', unseen') /\ jit'.cell = jit.cell
           /\ jit'.blocks[run.slot].bits = Running.bits /\ jit'.blocks[run.slot].pc = Running.pc
           /\ jit'.blocks[run.slot].v5 = Running.v5
      BY <3>6, <3>7, <3>8, <3>9, <3>10, PublishLine
    <3>12. QED
      BY <1>3, <3>2, <3>6, <3>9, <3>10, <3>11, StayInv DEF LineStored, b, k
  <2>7. QED
    BY <1>1, <2>1, <2>3, <2>4, <2>5, <2>6 DEF NextLine
<1>4. QED
  BY <1>1, <1>2, <1>3 DEF BodyOf

(* A line with no translation is not one of an uncached block that runs.    *)
LEMMA UnmarkedKeeps ==
  ASSUME IInv, mode = "body", NEW l \in Lines \ jit.marked, NEW c, Written(l, c)
  PROVE  ~pc.cached => run.slot \in unseen \/ Equals(Running, ram')
<1> SUFFICES ASSUME ~pc.cached, run.slot \notin unseen
             PROVE  Equals(Running, ram')
  OBVIOUS
<1>1. /\ BodyOf(jit, pc, run, ram, icache, unseen) /\ pc \in PCs
      /\ Running = jit.blocks[run.slot] /\ Shaped(Running, pc)
      /\ Span(pc, Len(Running.bits)) \subseteq jit.marked
  BY RunningIs
<1>2. Equals(Running, ram)
  BY <1>1 DEF BodyOf
<1>3. ram' = [ram EXCEPT ![l] = c] /\ DOMAIN ram = Lines
  BY DEF Written, IInv, MachineTypes
<1>4. \A k \in 1 .. Len(Running.bits) :
         LineOf(Running, k) \in Lines /\ LineOf(Running, k) # l
  BY <1>1, LineIn
<1>5. QED
  BY <1>2, <1>3, <1>4 DEF Equals

LEMMA StopHereInv ==
  ASSUME IInv, LineStored, StopHere
  PROVE  IInv'
<1>1. (\E l : LeaveFor(l)) /\ UNCHANGED <<icache, gens, jit>>
  BY DEF StopHere
<1>2. QED
  BY <1>1, LeaveInv

LEMMA ExecuteStep ==
  ASSUME IInv, Execute
  PROVE  IInv'
<1>1. mode = "body" /\ Onward /\ UNCHANGED <<ram, pageGen, unseen>>
  BY DEF Execute
<1>2. LineStored
  BY <1>1 DEF LineStored, IInv, MachineTypes
<1>3. ~pc.cached => run.slot \in unseen' \/ Equals(Running, ram')
  BY <1>1, RunningIs DEF BodyOf
<1>4. QED
  BY <1>1, <1>2, <1>3, OnwardInv

LEMMA StoreV4Step ==
  ASSUME IInv, NEW l \in Lines, NEW c, StoreV4(l, c)
  PROVE  IInv'
<1>1. /\ mode = "body" /\ Written(l, c) /\ NotifyWrite(l) /\ unseen' = unseen
      /\ IF V4Stops(l) THEN StopHere ELSE Onward
  BY DEF StoreV4, Storing
<1>2. LineStored
  BY <1>1, WriteInv DEF LineStored
<1>3. CASE V4Stops(l)
  BY <1>1, <1>2, <1>3, StopHereInv
<1>4. CASE ~V4Stops(l)
  <2>1. l \in Lines \ jit.marked
    BY <1>4 DEF V4Stops
  <2>2. QED
    BY <1>1, <1>2, <1>4, <2>1, UnmarkedKeeps, OnwardInv
<1>5. QED
  BY <1>3, <1>4

LEMMA StoreDeviceStep ==
  ASSUME IInv, NEW l \in Lines, NEW c, StoreDevice(l, c)
  PROVE  IInv'
<1>1. Written(l, c) /\ NotifyWrite(l) /\ StopHere /\ unseen' = unseen
  BY DEF StoreDevice, Storing
<1>2. LineStored
  BY <1>1, WriteInv DEF LineStored
<1>3. QED
  BY <1>1, <1>2, StopHereInv

(* What a V5 store changes unheard joins the untold.                       *)
LEMMA StoreV5Step ==
  ASSUME IInv, NEW l \in Lines, NEW c, StoreV5(l, c)
  PROVE  IInv'
<1> DEFINE more == {s \in Slots : Covers(s, l)}
<1>1. /\ mode = "body" /\ Written(l, c) /\ pageGen' = pageGen
      /\ unseen' = unseen \cup more
      /\ IF V5Stops(l) THEN StopHere ELSE Onward
  BY DEF StoreV5, Storing
<1>2. ASSUME NEW p \in PCs, jit.cell[p] # NoSlot, ~p.cached,
             l \in Span(p, Len(jit.blocks[jit.cell[p]].bits))
      PROVE  jit.cell[p] \in more
  <2>1. /\ jit.cell[p] \in Slots /\ Shaped(jit.blocks[jit.cell[p]], p)
        /\ jit.blocks[jit.cell[p]].epoch = jit.epoch
    BY <1>2, LiveBlock DEF IInv
  <2>2. QED
    BY <1>2, <2>1 DEF Covers, Shaped
<1> HIDE DEF more
<1>3. LineStored
  <2>1. /\ JitInv(jit, ram, icache, gens, pageGen, unseen) /\ DOMAIN ram = Lines
        /\ pageGen \in [Pages -> Int] /\ ram' = [ram EXCEPT ![l] = c]
    BY DEF IInv, MachineTypes, StoreV5, Storing, Written
  <2>2. JitInv(jit, [ram EXCEPT ![l] = c], icache, gens, pageGen, unseen \cup more)
    BY <1>2, <2>1, MemoryChanges
  <2>3. QED
    BY <1>1, <2>1, <2>2 DEF LineStored
<1>4. CASE V5Stops(l)
  BY <1>1, <1>3, <1>4, StopHereInv
<1>5. CASE ~V5Stops(l)
  <2>1. Running.pc = pc
    BY <1>1, RunningIs
  <2>2. ~pc.cached => l \in Lines \ jit.marked
    BY <1>5, <2>1 DEF V5Stops
  <2>3. ~pc.cached => run.slot \in unseen' \/ Equals(Running, ram')
    BY <1>1, <2>2, UnmarkedKeeps
  <2>4. QED
    BY <1>1, <1>3, <1>5, <2>3, OnwardInv
<1>6. QED
  BY <1>4, <1>5

LEMMA StoreGteV5Step ==
  ASSUME IInv, NEW l \in Lines, NEW c, StoreGteV5(l, c)
  PROVE  IInv'
<1>1. /\ mode = "body" /\ Written(l, c) /\ unseen' = unseen
      /\ IF l \in jit.marked THEN NotifyWrite(l) ELSE UNCHANGED pageGen
      /\ IF V5Stops(l) THEN StopHere ELSE Onward
  BY DEF StoreGteV5, Storing
<1>2. LineStored
  <2>1. CASE l \in jit.marked
    BY <1>1, <2>1, WriteInv DEF LineStored
  <2>2. CASE l \notin jit.marked
    <3>1. /\ JitInv(jit, ram, icache, gens, pageGen, unseen) /\ DOMAIN ram = Lines
          /\ pageGen \in [Pages -> Int] /\ ram' = [ram EXCEPT ![l] = c]
      BY <1>1 DEF IInv, MachineTypes, Written
    <3>2. ASSUME NEW p \in PCs, jit.cell[p] # NoSlot, ~p.cached
          PROVE  l \notin Span(p, Len(jit.blocks[jit.cell[p]].bits))
      BY <2>2, <3>1, <3>2, LiveBlock
    <3>3. JitInv(jit, [ram EXCEPT ![l] = c], icache, gens, pageGen, unseen \cup {})
      BY <3>1, <3>2, MemoryChanges
    <3>4. unseen \cup {} = unseen'
      BY <1>1
    <3>5. QED
      BY <1>1, <2>2, <3>1, <3>3, <3>4 DEF LineStored
  <2>3. QED
    BY <2>1, <2>2
<1>3. CASE V5Stops(l)
  BY <1>1, <1>2, <1>3, StopHereInv
<1>4. CASE ~V5Stops(l)
  <2>1. Running.pc = pc
    BY <1>1, RunningIs
  <2>2. ~pc.cached => l \in Lines \ jit.marked
    BY <1>4, <2>1 DEF V5Stops
  <2>3. ~pc.cached => run.slot \in unseen' \/ Equals(Running, ram')
    BY <1>1, <2>2, UnmarkedKeeps
  <2>4. QED
    BY <1>1, <1>2, <1>4, <2>3, OnwardInv
<1>5. QED
  BY <1>3, <1>4

LEMMA StoreIsolatedStep ==
  ASSUME IInv, NEW l \in Lines, StoreIsolated(l)
  PROVE  IInv'
<1>1. /\ Isolated(l) /\ (\E m : LeaveFor(m)) /\ UNCHANGED <<ram, pageGen, jit, unseen>>
  BY DEF StoreIsolated
<1>2. /\ JitInv(jit, ram, icache', gens', pageGen, unseen)
      /\ DOMAIN icache' = Indexes /\ gens' \in [Indexes -> Int]
  BY <1>1, IsolatedInv
<1>3. mode' = "native" /\ pc' \in PCs /\ DOMAIN run' = DOMAIN Idle
  BY <1>1, LeftIs DEF IInv
<1>4. MachineTypes'
  BY <1>1, <1>2, <1>3 DEF IInv, MachineTypes
<1>5. QED
  BY <1>1, <1>2, <1>3, <1>4, OutOfBody

LEMMA StutterStep ==
  ASSUME IInv, UNCHANGED vars
  PROVE  IInv'
<1>1. MachineTypes'
  BY DEF vars, IInv, MachineTypes
<1>2. BodyInv' /\ JitInv(jit', ram', icache', gens', pageGen', unseen')
  BY DEF vars, IInv, BodyInv
<1>3. QED
  BY <1>1, <1>2 DEF IInv

-----------------------------------------------------------------------------
(***************************************************************************)
(* The invariant is inductive, and what it gives.                          *)
(***************************************************************************)
LEMMA Inductive ==
  ASSUME IInv, [Next]_vars
  PROVE  IInv'
<1>1. CASE Lookup \/ Missing \/ Yield \/ Interrupt
  BY <1>1, MoveSteps
<1>2. CASE Translate
  BY <1>2, TranslateStep
<1>3. CASE TranslateFails \/ Flush
  BY <1>3, FlushSteps
<1>4. CASE Enter
  BY <1>4, EnterStep
<1>5. CASE Revalidate
  BY <1>5, RevalidateStep
<1>6. CASE RevalidateFirst
  BY <1>6, RevalidateFirstStep
<1>7. CASE DropStale \/ DropDifferent
  BY <1>7, DropSteps
<1>8. CASE Execute
  BY <1>8, ExecuteStep
<1>9. ASSUME NEW l \in Stored, NEW c \in Contents,
             \/ StoreV4(l, c) \/ StoreV5(l, c) \/ StoreGteV5(l, c)
             \/ StoreDevice(l, c) \/ BusWrite(l, c)
      PROVE  IInv'
  <2>1. l \in Lines
    BY CacheAssumption DEF Lines
  <2>2. QED
    BY <1>9, <2>1, StoreV4Step, StoreV5Step, StoreGteV5Step, StoreDeviceStep, BusWriteStep
<1>10. CASE \E l \in Lines : StoreIsolated(l)
  BY <1>10, StoreIsolatedStep
<1>11. CASE Interpret \/ \E l \in Lines : InterpretIsolated(l)
  BY <1>11, OutsideSteps
<1>12. CASE UNCHANGED vars
  BY <1>12, StutterStep
<1>13. QED
  BY <1>1, <1>2, <1>3, <1>4, <1>5, <1>6, <1>7, <1>8, <1>9, <1>10, <1>11, <1>12 DEF Next

LEMMA Invariance == Spec => []IInv
<1>1. IInv /\ [Next]_vars => IInv'
  BY Inductive
<1>2. QED
  BY InitInv, <1>1, PTL DEF Spec

LEMMA OwnCode == IInv => RunsItsOwnCode
BY RunningIs DEF RunsItsOwnCode

(* A cell's block is the block of its address: slots are used again after a *)
(* reset (reset_translations, cpu_recompiler.cpp:11302) and the dispatcher   *)
(* does not compare a start_pc, but no cell outlives the block it was given.*)
THEOREM RunsOwnCode == Spec => []RunsItsOwnCode
BY Invariance, OwnCode, PTL

LEMMA MemorysOwn == IInv => UncachedIsMemory
<1> SUFFICES ASSUME IInv, NEW p \in PCs, ~p.cached, jit.cell[p] # NoSlot,
                    jit.blocks[jit.cell[p]].page = pageGen[PageOf(p.line)],
                    jit.cell[p] \notin unseen
             PROVE  \A k \in 1 .. Len(jit.blocks[jit.cell[p]].bits) :
                       jit.blocks[jit.cell[p]].bits[k] = ram[LineOf(jit.blocks[jit.cell[p]], k)]
  BY DEF UncachedIsMemory
<1>1. /\ MemoryInv(jit.blocks[jit.cell[p]], ram, pageGen, jit.cell[p] \notin unseen)
      /\ Shaped(jit.blocks[jit.cell[p]], p)
  BY LiveBlock DEF IInv
<1>2. QED
  BY <1>1 DEF MemoryInv, Shaped, Equals

(* An uncached block that the page generation still lets in is what memory  *)
(* holds, whoever wrote memory since: the interpreter's bus, DMA, a store   *)
(* of a block.  The one exception is the plain store of a V5 block.         *)
THEOREM UncachedIsMemorys == Spec => []UncachedIsMemory
BY Invariance, MemorysOwn, PTL

LEMMA FetchedRuns == IInv => RunsWhatIsFetched
<1> SUFFICES ASSUME IInv, mode = "body", run.slot \notin unseen
             PROVE  Running.bits[run.at] = Fetched(HereLine, Running.pc.cached)
  BY DEF RunsWhatIsFetched
<1>1. /\ BodyOf(jit, pc, run, ram, icache, unseen) /\ Running.pc = pc
      /\ Running = jit.blocks[run.slot] /\ Len(Running.bits) \in Nat
  BY RunningIs
<1>2. CASE pc.cached
  <2>1. Holds(icache, HereLine, Running.bits[run.at])
    BY <1>1, <1>2 DEF BodyOf, HereLine
  <2>2. QED
    BY <1>1, <1>2, <2>1 DEF Holds, Fetched, Resident
<1>3. CASE ~pc.cached
  <2>1. Equals(Running, ram) /\ run.at \in 1 .. Len(Running.bits)
    BY <1>1, <1>3 DEF BodyOf
  <2>2. QED
    BY <1>1, <1>3, <2>1 DEF Equals, Fetched, HereLine
<1>4. QED
  BY <1>2, <1>3

(* What a block executes, line by line, is what Cpu::fetch32 would have     *)
(* returned there: through every revalidation, store in the block, eviction *)
(* and slot that is used again (check_block of the resident dispatcher and  *)
(* emit_line_checks).                                                      *)
THEOREM RunsTheFetched == Spec => []RunsWhatIsFetched
BY Invariance, FetchedRuns, PTL

-----------------------------------------------------------------------------
(***************************************************************************)
(* A slice drops one block at most.  After the drop the cell is empty, and  *)
(* the block then translated fits what the guest would fetch.              *)
(***************************************************************************)
Fits(b, p) ==
  /\ p.cached => ~b.retry /\ \A k \in 1 .. Len(b.bits) : ~Differs(b, k)
  /\ ~p.cached => b.page = pageGen[PageOf(p.line)]

FreshHere ==
  /\ jit.cell[pc] # NoSlot /\ Fits(Block, pc)
  /\ pc.cached => Resident(pc.line)

ExitsInv ==
  /\ exits \in {0, 1}
  /\ exits = 1 /\ mode = "slice" => jit.cell[pc] = NoSlot
  /\ exits = 1 /\ mode = "native" => FreshHere

LEMMA SnapshotFits ==
  ASSUME NEW p \in PCs, NEW n \in Nat \ {0}, NEW v5
  PROVE  Fits(Snapshot(p, n, v5, FALSE), p)
<1> DEFINE b == Snapshot(p, n, v5, FALSE)
<1>1. /\ b.pc = p /\ b.page = pageGen[PageOf(p.line)] /\ b.retry = FALSE
      /\ b.bits = [k \in 1 .. n |-> Fetched(p.line + k - 1, p.cached)]
  BY DEF Snapshot
<1> HIDE DEF b
<1>2. Len(b.bits) = n
  BY <1>1, LengthOf
<1>3. ASSUME p.cached, NEW k \in 1 .. n
      PROVE  ~Differs(b, k)
  <2>1. LineOf(b, k) = p.line + k - 1 /\ b.bits[k] = Fetched(p.line + k - 1, p.cached)
    BY <1>1 DEF LineOf
  <2>2. QED
    BY <1>3, <2>1 DEF Differs, Fetched
<1>4. QED
  BY <1>1, <1>2, <1>3 DEF Fits, b

ShapesAllFit == \A p \in PCs : \A b \in Shapes(p, 1) : Fits(b, p)

LEMMA ShapesFit == ShapesAllFit
<1> SUFFICES ASSUME NEW p \in PCs, NEW b \in Shapes(p, 1)
             PROVE  Fits(b, p)
  BY DEF ShapesAllFit
<1>1. ASSUME NEW usable, NEW n \in Longest(Runs(p, usable)), NEW v5,
             b = Snapshot(p, n, v5, FALSE)
      PROVE  Fits(b, p)
  BY <1>1, RunsFit, SnapshotFits
<1>2. CASE b \in V5Shapes(p)
  BY <1>1, <1>2 DEF V5Shapes
<1>3. CASE b \in V4Shapes(p, 1) /\ ~p.cached
  BY <1>1, <1>3 DEF V4Shapes
<1>4. CASE b \in V4Shapes(p, 1) /\ p.cached
  <2> DEFINE usable == {l \in Lines : Resident(l)}
             long == Longest({n \in Runs(p, usable) : n <= 1})
             slot == {n + 1 : n \in {m \in long :
                        /\ p.line + m \in Lines /\ Resident(p.line + m)
                        /\ Fetched(p.line + m - 1, TRUE) \in Ends}}
  <2>1. b \in {Snapshot(p, n, FALSE, n > 1 /\ 1 > 1) : n \in long \cup slot}
    BY <1>4 DEF V4Shapes
  <2>2. PICK n \in long \cup slot : b = Snapshot(p, n, FALSE, n > 1 /\ 1 > 1)
    BY <2>1
  <2>3. \A m \in long : m \in Nat \ {0}
    BY CacheAssumption DEF Longest, Runs
  <2>4. n \in Nat \ {0}
    <3>1. CASE n \in long
      BY <2>3, <3>1
    <3>2. CASE n \in slot
      <4>1. PICK m \in long : n = m + 1
        BY <3>2
      <4>2. QED
        BY <2>3, <4>1
    <3>3. QED
      BY <2>2, <3>1, <3>2
  <2>5. (n > 1 /\ 1 > 1) = FALSE
    BY <2>4
  <2> HIDE DEF long, slot
  <2>6. QED
    BY <2>2, <2>4, <2>5, SnapshotFits
<1>5. QED
  BY <1>2, <1>3, <1>4 DEF Shapes

(* A promotion leaves the block after the promoted one in its cell.        *)
PromotionsSpare ==
  \A J, un, l, N :
    /\ JitInv(J, ram, icache, gens, pageGen, un) /\ l \in Lines /\ N \in Promoted(J, l)
    /\ J.cell[At(l)] # NoSlot
    => N.cell[At(l)] = J.cell[At(l)] /\ N.blocks[N.cell[At(l)]] = J.blocks[J.cell[At(l)]]

LEMMA PromotedSpares == MachineTypes => PromotionsSpare
<1> SUFFICES ASSUME MachineTypes, NEW J, NEW un, NEW l \in Lines, NEW N \in Promoted(J, l),
                    JitInv(J, ram, icache, gens, pageGen, un), N # J, J.cell[At(l)] # NoSlot
             PROVE  /\ N.cell[At(l)] = J.cell[At(l)]
                    /\ N.blocks[N.cell[At(l)]] = J.blocks[J.cell[At(l)]]
  BY DEF PromotionsSpare
<1>1. PICK d \in 1 .. 3 : \E b :
        /\ l - d \in Lines /\ CanAcquire(J, At(l - d), TRUE)
        /\ b \in Shapes(At(l - d), d + 1) /\ N = Install(J, At(l - d), b, TRUE)
  BY PromotedIs
<1>2. PICK b : /\ l - d \in Lines /\ CanAcquire(J, At(l - d), TRUE)
               /\ b \in Shapes(At(l - d), d + 1) /\ N = Install(J, At(l - d), b, TRUE)
  BY <1>1
<1>3. At(l - d) \in PCs /\ At(l) \in PCs /\ At(l - d) # At(l)
  BY <1>2 DEF At, PCs, Lines
<1>4. Shaped(b, At(l - d))
  BY <1>2, <1>3, ShapesMade DEF ShapesAreMade, Made
<1> DEFINE p == At(l - d)  q == At(l)  new == TRUE
<1>5. p \in PCs /\ q \in PCs /\ q # p /\ Shaped(b, p) /\ CanAcquire(J, p, new) /\ J.cell[q] # NoSlot
  BY <1>2, <1>3, <1>4
<1>6. N = Install(J, p, b, new)
  BY <1>2
<1> HIDE DEF p, q, new
<1>7. N.cell[q] = J.cell[q] /\ N.blocks[N.cell[q]] = J.blocks[J.cell[q]]
  BY <1>5, <1>6, InstallKeeps
<1>8. QED
  BY <1>6, <1>7 DEF q

LEMMA InstalledThere ==
  ASSUME NEW J, JitTypes(J), NEW p \in PCs, NEW b, Shaped(b, p),
         NEW new, CanAcquire(J, p, new), NEW N, N = Install(J, p, b, new)
  PROVE  N.cell[p] # NoSlot /\ N.blocks[N.cell[p]] = [b EXCEPT !.epoch = J.epoch]
<1> DEFINE s == Acquire(J, p, new)
           b2 == [b EXCEPT !.epoch = J.epoch]
<1>1. s \in Slots
  BY DEF CanAcquire
<1>2. N.blocks = [J.blocks EXCEPT ![s] = b2] /\ N.cell = [J.cell EXCEPT ![p] = s]
  BY DEF Install, JitTypes, JitFields
<1> HIDE DEF s, b2
<1>3. N.cell[p] = s /\ s # NoSlot /\ N.blocks[s] = b2
  BY <1>1, <1>2, CacheAssumption DEF JitTypes, Slots, NoSlot
<1>4. QED
  BY <1>3 DEF b2

LEMMA CompileFits ==
  ASSUME MachineTypes, MachineTypes', NEW J, UNCHANGED <<ram, pageGen, pc>>,
         JitInv(J, ram, icache', gens', pageGen, unseen),
         NEW new, CanAcquire(J, pc, new), NEW b \in Shapes(pc, 1)',
         NEW K, K = Install(J, pc, b, new),
         jit' \in (IF pc.cached THEN Promoted(K, pc.line)' ELSE {K}),
         unseen' = unseen \ {Acquire(J, pc, new)}
  PROVE  jit'.cell[pc] # NoSlot /\ Fits(Block, pc)'
<1> DEFINE b2 == [b EXCEPT !.epoch = J.epoch]
<1>1. pc \in PCs /\ pc' \in PCs /\ pc' = pc /\ pc.line \in Lines
  BY DEF MachineTypes, PCs
<1>2. Shaped(b, pc) /\ JitInv(K, ram', icache', gens', pageGen', unseen')
  BY CompiledInv
<1>3. (ShapesAllFit /\ PromotionsSpare)'
  <2>1. (MachineTypes => ShapesAllFit /\ PromotionsSpare)'
    BY ShapesFit, PromotedSpares, PTL
  <2>2. QED
    BY <2>1
<1>4. Fits(b, pc)'
  BY <1>1, <1>3 DEF ShapesAllFit
<1>5. JitTypes(J) /\ DOMAIN b = DOMAIN Empty
  BY <1>2 DEF JitInv, Shaped
<1>7. /\ b2.pc = b.pc /\ b2.bits = b.bits /\ b2.page = b.page /\ b2.retry = b.retry
  BY <1>5 DEF Empty
<1>8. K.cell[pc] # NoSlot /\ K.blocks[K.cell[pc]] = b2
  BY <1>1, <1>2, <1>5, InstalledThere
<1> HIDE DEF b2
<1>9. jit'.cell[pc] = K.cell[pc] /\ jit'.blocks[jit'.cell[pc]] = K.blocks[K.cell[pc]]
  <2>1. CASE ~pc.cached
    BY <2>1
  <2>2. CASE pc.cached
    <3>1. At(pc'.line) = pc
      BY <1>1, <2>2 DEF At, PCs
    <3>2. /\ jit' \in Promoted(K, pc.line)' /\ pc'.line \in Lines
          /\ K.cell[At(pc'.line)] # NoSlot
      BY <1>1, <1>8, <2>2, <3>1
    <3>3. /\ jit'.cell[At(pc'.line)] = K.cell[At(pc'.line)]
          /\ jit'.blocks[jit'.cell[At(pc'.line)]] = K.blocks[K.cell[At(pc'.line)]]
      BY <1>2, <1>3, <3>2 DEF PromotionsSpare
    <3>4. QED
      BY <3>1, <3>3
  <2>3. QED
    BY <2>1, <2>2
<1>10. Block' = b2
  BY <1>1, <1>8, <1>9 DEF Block
<1>11. Fits(b2, pc)'
  BY <1>4, <1>7 DEF Fits, Differs, LineOf
<1>12. QED
  BY <1>8, <1>9, <1>10, <1>11

LEMMA PrepareThere ==
  ASSUME MachineTypes, NEW l \in Lines, Prepare(l)
  PROVE  /\ Resident(l)' /\ (Resident(l) => UNCHANGED icache)
<1>1. IndexOf(l) \in Indexes
  BY DEF Indexes
<1>2. CASE Resident(l)
  BY <1>2 DEF Prepare, Resident
<1>3. CASE ~Resident(l)
  BY <1>1, <1>3 DEF Prepare, Fill, Resident, MachineTypes
<1>4. QED
  BY <1>2, <1>3

LEMMA TranslateFresh ==
  ASSUME IInv, Translate
  PROVE  FreshHere'
<1>1. /\ UNCHANGED <<ram, writes, pageGen, pc, run, exits>>
      /\ IF pc.cached THEN Prepare(pc.line) ELSE UNCHANGED <<icache, gens>>
  BY DEF Translate
<1>2. /\ JitInv(jit, ram, icache', gens', pageGen, unseen)
      /\ DOMAIN icache' = Indexes /\ gens' \in [Indexes -> Int]
  BY <1>1, PrepareOrNot
<1>3. MachineTypes /\ MachineTypes'
  BY <1>1, <1>2, TranslateStep DEF IInv
<1>4. ASSUME NEW J, JitInv(J, ram, icache', gens', pageGen, unseen), CompileIn(J)
      PROVE  jit'.cell[pc] # NoSlot /\ Fits(Block, pc)'
  <2>1. CanAcquire(J, pc, FALSE) /\ unseen' = unseen \ {Acquire(J, pc, FALSE)}
    BY <1>4 DEF CompileIn
  <2>2. PICK b \in Shapes(pc, 1)' : \E K \in {Install(J, pc, b, FALSE)} :
          jit' \in (IF pc.cached THEN Promoted(K, pc.line)' ELSE {K})
    BY <1>4 DEF CompileIn
  <2>3. PICK K \in {Install(J, pc, b, FALSE)} :
          jit' \in (IF pc.cached THEN Promoted(K, pc.line)' ELSE {K})
    BY <2>2
  <2> DEFINE new == FALSE
  <2>4. /\ K = Install(J, pc, b, new) /\ CanAcquire(J, pc, new)
        /\ unseen' = unseen \ {Acquire(J, pc, new)}
    BY <2>1, <2>3
  <2> HIDE DEF new
  <2>5. QED
    BY <1>1, <1>3, <1>4, <2>3, <2>4, CompileFits
<1>5. JitInv(ResetOf(jit), ram, icache', gens', pageGen, unseen)
  BY ResetInv DEF IInv, JitInv
<1>6. CompileIn(jit) \/ CompileIn(ResetOf(jit))
  BY DEF Translate
<1>7. jit'.cell[pc] # NoSlot /\ Fits(Block, pc)'
  BY <1>2, <1>4, <1>5, <1>6
<1>8. pc.cached => Resident(pc.line)'
  BY <1>1, <1>3, PrepareThere DEF MachineTypes, PCs
<1>9. QED
  BY <1>1, <1>7, <1>8 DEF FreshHere, Resident

(* A block that fits is entered, revalidated or run for its first           *)
(* instruction, and not dropped.                                           *)
LEMMA FreshIsKept ==
  ASSUME IInv, FreshHere
  PROVE  HasBlock /\ ~DropStale /\ ~DropDifferent
<1>1. /\ pc \in PCs /\ jit.cell[pc] # NoSlot /\ Fits(Block, pc)
      /\ pc.cached => Resident(pc.line)
  BY DEF IInv, MachineTypes, FreshHere
<1>2. Shaped(Block, pc) /\ Block.epoch = jit.epoch
  BY <1>1, LiveBlock DEF IInv, Block
<1>3. Block.pc = pc
  BY <1>2 DEF Shaped
<1>4. ~DropStale
  BY <1>1, <1>3 DEF DropStale, Fits, Current
<1>5. ASSUME DropDifferent
      PROVE  FALSE
  <2>1. pc.cached /\ Prepare(pc.line) /\ pc.line \in Lines
    BY <1>1, <1>3, <1>5 DEF DropDifferent, Revalidating, PCs
  <2>2. icache' = icache
    BY <1>1, <2>1, PrepareThere DEF IInv
  <2>3. PICK b \in {Block} : \E k \in Guarded(b) : Differs(b, k)'
    BY <1>5 DEF DropDifferent
  <2>4. b = Block
    BY <2>3
  <2>5. PICK k \in Guarded(b) : Differs(b, k)'
    BY <2>3
  <2>6. Differs(b, k)
    BY <2>2, <2>5 DEF Differs, Resident
  <2>7. k \in 1 .. Len(b.bits)
    BY <1>2, <2>4 DEF Guarded, Shaped
  <2>8. QED
    BY <1>1, <2>1, <2>4, <2>6, <2>7 DEF Fits
<1>6. QED
  BY <1>1, <1>2, <1>4, <1>5 DEF HasBlock

LEMMA ExitsInductive ==
  ASSUME IInv, ExitsInv, [Next]_vars
  PROVE  ExitsInv'
<1> USE DEF ExitsInv
<1>1. CASE Lookup
  BY <1>1 DEF Lookup, Between, Candidate, LiveAt
<1>2. CASE Translate
  BY <1>2, TranslateFresh DEF Translate
<1>3. CASE Enter \/ Revalidate \/ RevalidateFirst
  <2>1. mode' = "body" /\ exits' = exits
    BY <1>3 DEF Enter, Revalidate, RevalidateFirst, EnterBlock
  <2>2. QED
    BY <2>1
<1>4. CASE DropStale \/ DropDifferent
  <2>1. /\ mode = "native" /\ exits' = exits + 1 /\ mode' = "slice" /\ pc' = pc
        /\ jit' = [jit EXCEPT !.cell[pc] = NoSlot]
    BY <1>4 DEF DropStale, DropDifferent, DropCell, Revalidating
  <2>2. exits = 0
    BY <1>4, <2>1, FreshIsKept
  <2>3. jit'.cell[pc] = NoSlot
    BY <2>1 DEF IInv, MachineTypes, JitInv, JitTypes, JitFields
  <2>4. QED
    BY <2>1, <2>2, <2>3
<1>5. CASE Missing
  BY <1>5, FreshIsKept DEF Missing
<1>6. CASE Yield \/ TranslateFails \/ Execute
  BY <1>6 DEF Yield, TranslateFails, Execute
<1>7. CASE \E l \in Stored, c \in Contents :
             StoreV4(l, c) \/ StoreV5(l, c) \/ StoreGteV5(l, c) \/ StoreDevice(l, c)
  BY <1>7 DEF StoreV4, StoreV5, StoreGteV5, StoreDevice, Storing
<1>8. CASE \E l \in Lines : StoreIsolated(l)
  BY <1>8 DEF StoreIsolated
<1>9. CASE \/ \E l \in Stored, c \in Contents : BusWrite(l, c)
           \/ \E l \in Lines : InterpretIsolated(l)
           \/ Interpret \/ Interrupt \/ Flush
  BY <1>9 DEF BusWrite, InterpretIsolated, Interpret, Interrupt, Flush, Outside
<1>10. CASE UNCHANGED vars
  BY <1>10 DEF vars, FreshHere, Fits, Block, Differs, LineOf, Resident
<1>11. QED
  BY <1>1, <1>2, <1>3, <1>4, <1>5, <1>6, <1>7, <1>8, <1>9, <1>10 DEF Next

(* A slice that finds a block stale empties its cell and goes round again   *)
(* (invalidate_candidate, cpu_recompiler.cpp), with its budget unspent. What*)
(* it translates then passes every test of check_block: the slice does not  *)
(* go round for ever without executing an instruction.                     *)
THEOREM OneDrop == Spec => []DropsOnce
<1>1. Init => ExitsInv
  BY DEF Init, ExitsInv
<1>2. IInv /\ ExitsInv /\ [Next]_vars => ExitsInv'
  BY ExitsInductive
<1>3. ExitsInv => DropsOnce
  BY DEF ExitsInv, DropsOnce
<1>4. QED
  BY Invariance, <1>1, <1>2, <1>3, PTL DEF Spec

-----------------------------------------------------------------------------
=============================================================================
