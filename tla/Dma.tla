-------------------------------- MODULE Dma --------------------------------
(***************************************************************************)
(* The DMA controller (src/src/core/dma.cpp): the registers the guest      *)
(* programs, the request lines of the devices, the services the scheduler  *)
(* gives (tick) and the completion interrupt through DICR.                 *)
(*                                                                         *)
(* A service is atomic for the guest and for the devices: while Busy only  *)
(* the Tick and Serve actions are enabled.  It is cut into one action per  *)
(* channel looked at and per turn of execute_dma()'s loop.                 *)
(*                                                                         *)
(* Addresses are counted in words.  What the words hold is left out, so the *)
(* walk of channel 2's linked list is one step here and GpuList's subject. *)
(***************************************************************************)
EXTENDS Integers, FiniteSets

CONSTANTS
  Channels,     (* the channels in use, of 0..6                            *)
  Streaming,    (* served a slice at a time: MDEC in and MDEC out          *)
  Asking,       (* with a request line of their own: 0 to 4                *)
  Supplied,     (* whose device says how many words it has: MDEC out, CD   *)
  Sectors,      (* fed one sector at a time: the CD-ROM                    *)
  Otc,          (* the ordering-table channel, 6                           *)
  Slices,       (* the words a slice may have: 32, 64, 128, 192, 96        *)
  Wrap,         (* 2^16: block sizes and counts are 16 bits, 0 is Wrap     *)
  Space,        (* 2^22: the words a 24-bit MADR can name                  *)
  RawTail,      (* the words of a raw sector's tail, dropped unread        *)
  Starts, Sizes, Counts, Commands, (* what the guest writes to a channel   *)
  Masks,        (* ... as the enabled channels of DPCR and of DICR         *)
  Loads,        (* the words a device may have ready at once               *)
  MaxOps        (* bound: register writes and disturbances                 *)

Modes == {"immediate", "block", "list", "reserved"}
Command == [mode : Modes, toRam : BOOLEAN, back : BOOLEAN, on : BOOLEAN, go : BOOLEAN]

(* A channel's registers, block_words_remaining included. *)
Channel == [madr : 0..Space-1, size : 0..Wrap-1, count : 0..Wrap-1, rest : 0..Wrap,
            mode : Modes, toRam : BOOLEAN, back : BOOLEAN, on : BOOLEAN, go : BOOLEAN]

ASSUME DmaAssumption ==
  /\ Channels \subseteq 0..6
  /\ Streaming \subseteq Channels /\ Asking \subseteq Channels
  /\ Supplied \subseteq Asking /\ Sectors \subseteq Supplied
  /\ Slices \subseteq Nat \ {0}
  /\ Wrap \in Nat \ {0} /\ Space \in Nat \ {0} /\ RawTail \in Nat
  /\ Starts \subseteq 0..Space-1
  /\ Sizes \subseteq 0..Wrap-1 /\ Counts \subseteq 0..Wrap-1
  /\ Commands \subseteq Command /\ Masks \subseteq SUBSET Channels
  /\ Loads \subseteq Nat \ {0} /\ MaxOps \in Nat

VARIABLES
  ch,       (* channels_: MADR, BCR, CHCR and block_words_remaining (rest) *)
  dpcr,     (* the channels DPCR enables                                   *)
  dicr,     (* DICR: the enables, the flags and the derived master         *)
  pending,  (* I_STAT's DMA bit                                            *)
  line,     (* what gates a device's request: data_request_, the MDEC's    *)
            (* output enable, the GPU's direction, SPUCNT's mode           *)
  supply,   (* words a supplied channel's device has to give               *)
  serving,  (* the channel execute_dma() is working on, or Nobody          *)
  budget,   (* words_budget: what is left of the slice, or NoLimit         *)
  turn,     (* the channel tick() looks at next, or Nobody                 *)
  ops,      (* guest writes and disturbances so far                        *)
  (* Histories. *)
  log,      (* per channel, since its registers were last written: where   *)
            (* it began, how much was planned and moved, whether it ended  *)
  slice,    (* the words a slice's service may still move, by its log      *)
  owed,     (* completions that interrupt, not yet acknowledged in DICR    *)
  acked     (* the guest acknowledged I_STAT while the master flag was up  *)

guest == <<ch, dpcr, dicr, pending, ops, log, owed, acked>>
vars == <<ch, dpcr, dicr, pending, line, supply, serving, budget, turn, ops,
          log, slice, owed, acked>>

Nobody == 7
NoLimit == 0
Least(a, b) == IF a < b THEN a ELSE b

(* Size and count 0 mean 0x10000. *)
Full(n) == IF n = 0 THEN Wrap ELSE n

(* is_active(): only an immediate transfer needs the trigger. *)
Active(r) == r.on /\ (r.mode = "immediate" => r.go)

(* request_active().  Without a line of its own a channel may always run;  *)
(* immediate and list transfers do not look at the line.                   *)
Request(c, r) == \/ r.mode \in {"immediate", "list"}
                 \/ c \notin Asking
                 \/ line[c] /\ (c \in Supplied => supply[c] > 0)

(* The start condition of write() and of tick(). *)
Runnable(c, r) == Active(r) /\ c \in dpcr /\ Request(c, r)

(* What a transfer still has to move. *)
Rest(r) == IF r.rest = 0 THEN Full(r.size) ELSE r.rest
Left(r) == IF r.mode = "block" THEN Rest(r) + (Full(r.count) - 1) * Full(r.size)
                               ELSE Rest(r)

(* The log of a transfer: as it begins, after n more words, at its end.    *)
NewLog(r) == [from |-> r.madr, plan |-> Left(r), moved |-> 0, done |-> FALSE]
Grown(l, n) == [l EXCEPT !.moved = @ + n]
Closed(l) == [l EXCEPT !.done = TRUE]

Init ==
  /\ ch = [c \in Channels |-> [madr |-> 0, size |-> 0, count |-> 0, rest |-> 0,
             mode |-> "immediate", toRam |-> TRUE, back |-> FALSE, on |-> FALSE, go |-> FALSE]]
  /\ dpcr = {}
  /\ dicr = [force |-> FALSE, master_enable |-> FALSE, enables |-> {}, flags |-> {},
             master |-> FALSE]
  /\ pending = FALSE
  /\ line = [c \in Asking |-> FALSE] /\ supply = [c \in Supplied |-> 0]
  /\ serving = Nobody /\ budget = NoLimit /\ turn = Nobody /\ ops = 0
  /\ log = [c \in Channels |-> NewLog(ch[c])]
  /\ slice = 0
  /\ owed = {} /\ acked = FALSE

(***************************************************************************)
(* The guest and the devices, while no service is in progress.             *)
(***************************************************************************)
Busy == serving # Nobody \/ turn # Nobody

Operate == ~Busy /\ ops < MaxOps /\ ops' = ops + 1

(* slice_words_for_channel(); the MDEC's depth chooses among the slices.   *)
Serve(c) == \E s \in (IF c \in Streaming THEN Slices ELSE {NoLimit}) :
              /\ serving' = c /\ budget' = s /\ slice' = s

(* write() to MADR, BCR and CHCR, which starts the transfer if it can.     *)
WriteMadr(c) ==
  /\ Operate
  /\ \E a \in Starts : LET r == [ch[c] EXCEPT !.madr = a] IN
       ch' = [ch EXCEPT ![c] = r] /\ log' = [log EXCEPT ![c] = NewLog(r)]
  /\ UNCHANGED <<dpcr, dicr, pending, line, supply, serving, budget, turn, slice, owed, acked>>

(* Mutant: a new block size leaves the words of the old block to finish.   *)
WriteBcrKeepsRest(c) ==
  /\ Operate
  /\ \E s \in Sizes, n \in Counts : LET r == [ch[c] EXCEPT !.size = s, !.count = n] IN
       ch' = [ch EXCEPT ![c] = r]
       /\ log' = [log EXCEPT ![c] = NewLog([r EXCEPT !.rest = 0])]
  /\ UNCHANGED <<dpcr, dicr, pending, line, supply, serving, budget, turn, slice, owed, acked>>

WriteBcr(c) ==
  /\ Operate
  /\ \E s \in Sizes, n \in Counts :
       LET r == [ch[c] EXCEPT !.size = s, !.count = n, !.rest = 0] IN
       ch' = [ch EXCEPT ![c] = r] /\ log' = [log EXCEPT ![c] = NewLog(r)]
  /\ UNCHANGED <<dpcr, dicr, pending, line, supply, serving, budget, turn, slice, owed, acked>>

Commanded(r, k) == [madr |-> r.madr, size |-> r.size, count |-> r.count, rest |-> 0,
                    mode |-> k.mode, toRam |-> k.toRam, back |-> k.back,
                    on |-> k.on, go |-> k.go]

WriteChcr(c) ==
  /\ Operate
  /\ \E k \in Commands : LET r == Commanded(ch[c], k) IN
       /\ ch' = [ch EXCEPT ![c] = r] /\ log' = [log EXCEPT ![c] = NewLog(r)]
       /\ IF Runnable(c, r) THEN Serve(c) ELSE UNCHANGED <<serving, budget, slice>>
  /\ UNCHANGED <<dpcr, dicr, pending, line, supply, turn, owed, acked>>

WriteDpcr ==
  /\ Operate
  /\ dpcr' \in Masks
  /\ UNCHANGED <<ch, dicr, pending, line, supply, serving, budget, turn,
                 log, slice, owed, acked>>

(* Mutant: the interrupt is requested for a flag, not for the other ways   *)
(* the master flag can rise.                                               *)
RecomputeOnFlag(d) == LET up == d.force \/ (d.master_enable /\ d.flags # {}) IN
                      /\ dicr' = [d EXCEPT !.master = up]
                      /\ pending' = (pending \/ (up /\ ~d.master /\ d.flags # dicr.flags))
                      /\ acked' = (acked /\ up)

(* recompute_dicr_master(): the interrupt is requested when it rises.      *)
Recompute(d) == LET up == d.force \/ (d.master_enable /\ d.flags # {}) IN
                /\ dicr' = [d EXCEPT !.master = up]
                /\ pending' = (pending \/ (up /\ ~d.master))
                /\ acked' = (acked /\ up)

(* The parts of DICR that word, half-word and byte writes touch. *)
Accesses == {{"force", "enables", "flags"}, {"enables", "flags"}, {"force"}, {"enables"},
             {"flags"}}

(* Mutant: flags that the access does not touch are written back as read. *)
ClearedUnmasked(touched, w) == IF "flags" \in touched THEN w ELSE dicr.flags

(* The flags a write clears are those it writes ones to.  What an access   *)
(* does not touch is written back as it is read, but for the flags: theirs *)
(* are masked to zero.                                                     *)
Cleared(touched, w) == IF "flags" \in touched THEN w ELSE {}

(* What the guest acknowledged, w, is no longer owed. *)
WriteDicr ==
  /\ Operate
  /\ \E touched \in Accesses :
     \E f \in (IF "force" \in touched THEN BOOLEAN ELSE {dicr.force}),
        m \in (IF "enables" \in touched THEN BOOLEAN ELSE {dicr.master_enable}),
        e \in (IF "enables" \in touched THEN Masks ELSE {dicr.enables}),
        w \in (IF "flags" \in touched THEN SUBSET Channels ELSE {{}}) :
       /\ Recompute([dicr EXCEPT !.force = f, !.master_enable = m, !.enables = e,
                                 !.flags = dicr.flags \ Cleared(touched, w)])
       /\ owed' = owed \ w
  /\ UNCHANGED <<ch, dpcr, line, supply, serving, budget, turn, log, slice>>

(* The interrupt handler clears its bit of I_STAT. *)
AckIrq ==
  /\ Operate /\ pending
  /\ pending' = FALSE /\ acked' = dicr.master
  /\ UNCHANGED <<ch, dpcr, dicr, line, supply, serving, budget, turn, log, slice, owed>>

(* The device has words again; the guest opens a gate, the GPU turns.      *)
Deliver(c) ==
  /\ ~Busy /\ supply[c] = 0
  /\ \E n \in Loads : supply' = [supply EXCEPT ![c] = n]
  /\ UNCHANGED <<guest, line, serving, budget, turn, slice>>

Raise(c) ==
  /\ ~Busy /\ ~line[c]
  /\ line' = [line EXCEPT ![c] = TRUE]
  /\ UNCHANGED <<guest, supply, serving, budget, turn, slice>>

(* The guest closes a gate, or a device drops what it had. *)
Drop(c) ==
  /\ Operate /\ line[c]
  /\ line' = [line EXCEPT ![c] = FALSE]
  /\ \/ UNCHANGED supply
     \/ c \in Supplied /\ supply' = [supply EXCEPT ![c] = 0]
  /\ UNCHANGED <<ch, dpcr, dicr, pending, serving, budget, turn, log, slice, owed, acked>>

(***************************************************************************)
(* A service: tick() looks at the channels in order, and one that finds    *)
(* none to run changes nothing.                                            *)
(***************************************************************************)
Tick ==
  /\ ~Busy
  /\ turn' = IF \E c \in Channels : Runnable(c, ch[c]) THEN 0 ELSE Nobody
  /\ UNCHANGED <<guest, line, supply, serving, budget, slice>>

Ahead == {c \in Channels : turn <= c /\ Runnable(c, ch[c])}

TickServe(c) ==
  /\ serving = Nobody /\ c \in Ahead
  /\ \A d \in Ahead : c <= d
  /\ Serve(c) /\ turn' = c + 1
  /\ UNCHANGED <<guest, line, supply>>

TickEnd ==
  /\ turn # Nobody /\ serving = Nobody /\ Ahead = {}
  /\ turn' = Nobody
  /\ UNCHANGED <<guest, line, supply, serving, budget, slice>>

Leave == serving' = Nobody /\ budget' = NoLimit

(* The history of a slice; nothing remains of one that was kept to.        *)
Spend(c, n) == IF c \in Streaming THEN slice - n ELSE 0
Account(c, n) == slice' = IF serving' = Nobody THEN Least(Spend(c, n), 0) ELSE Spend(c, n)

(* transfer_complete(). *)
Off(r) == [r EXCEPT !.on = FALSE, !.go = FALSE, !.rest = 0]

Complete(c, r, moved) ==
  /\ ch' = [ch EXCEPT ![c] = Off(r)]
  /\ log' = [log EXCEPT ![c] = Closed(Grown(@, moved))]
  /\ IF dicr.master_enable /\ c \in dicr.enables
     THEN Recompute([dicr EXCEPT !.flags = @ \cup {c}]) /\ owed' = owed \cup {c}
     ELSE UNCHANGED <<dicr, pending, acked, owed>>
  /\ Leave /\ Account(c, moved)

Move(c, r, moved) ==
  /\ ch' = [ch EXCEPT ![c] = r]
  /\ log' = [log EXCEPT ![c] = Grown(@, moved)]
  /\ UNCHANGED <<dicr, pending, acked, owed>>

(* dma_block(): how many words it moves, and the registers after them.     *)
Wanted(r) == IF budget = NoLimit THEN Rest(r) ELSE Least(Rest(r), budget)

(* Mutant: a device that has less than is wanted gives nothing yet.        *)
WordsAllOrNone(c, r) ==
  IF r.toRam /\ c \in Supplied /\ supply[c] < Wanted(r) THEN 0 ELSE Wanted(r)

Words(c, r) == IF r.toRam /\ c \in Supplied THEN Least(Wanted(r), supply[c]) ELSE Wanted(r)

(* Mutant: MADR advances by the block, though only a part of it was moved. *)
AfterWholeBlock(c, r, n) ==
  [r EXCEPT !.rest = Rest(r) - n,
            !.madr = (IF c = Otc \/ r.back THEN @ - Rest(r) ELSE @ + Rest(r)) % Space,
            !.count = IF r.mode = "block" /\ n = Rest(r) THEN Full(@) - 1 ELSE @]

After(c, r, n) ==
  [r EXCEPT !.rest = Rest(r) - n,
            !.madr = (IF c = Otc \/ r.back THEN @ - n ELSE @ + n) % Space,
            !.count = IF r.mode = "block" /\ n = Rest(r) THEN Full(@) - 1 ELSE @]

(* The device after n words.  The CD-ROM gives nothing, though it is read, *)
(* while its gate is closed; a sector is done with, and the gate closes,   *)
(* when only the tail of a raw sector is left.  The MDEC may have decoded  *)
(* its next block by then, and a device that takes words may be full.      *)
Drain(c, r, n) ==
  LET given == c \in Supplied /\ r.toRam /\ n > 0 /\ (c \in Sectors => line[c])
      left == supply[c] - n
  IN  \/ given /\ c \in Sectors /\ \E tail \in {0, RawTail} :
           /\ supply' = [supply EXCEPT ![c] = IF left <= tail THEN 0 ELSE left]
           /\ line' = [line EXCEPT ![c] = left > tail]
      \/ given /\ c \notin Sectors /\ UNCHANGED line /\ \E more \in Loads \cup {0} :
           /\ more = 0 \/ left = 0
           /\ supply' = [supply EXCEPT ![c] = left + more]
      \/ ~given /\ UNCHANGED supply /\ \E open \in BOOLEAN :
           line' = IF c \in Asking \ Supplied
                   THEN [line EXCEPT ![c] = @ /\ open] ELSE line

(* execute_dma() in immediate mode: one slice. *)
ServeImmediate(c) ==
  /\ serving = c /\ ch[c].mode = "immediate"
  /\ LET r == ch[c]  n == Words(c, r)  s == After(c, r, n) IN
     /\ Drain(c, r, n)
     /\ IF s.rest = 0 THEN Complete(c, s, n) ELSE Move(c, s, n) /\ Leave /\ Account(c, n)
  /\ UNCHANGED <<dpcr, turn, ops>>

(* Mutant: every block is given the whole slice. *)
ServeBlockUnspent(c) ==
  /\ serving = c /\ ch[c].mode = "block" /\ Runnable(c, ch[c])
  /\ LET r == ch[c]  n == Words(c, r)  s == After(c, r, n) IN
     /\ Drain(c, r, n)
     /\ IF s.count = 0 /\ s.rest = 0 THEN Complete(c, s, n)
        ELSE /\ Move(c, s, n)
             /\ IF budget # NoLimit /\ n >= budget THEN Leave
                ELSE UNCHANGED <<serving, budget>>
             /\ Account(c, n)
  /\ UNCHANGED <<dpcr, turn, ops>>

(* ... in block mode: blocks, or parts of them, while the device asks and  *)
(* the slice lasts.  The transfer ends when the count, as it is written,   *)
(* is zero and no block is left unfinished.                                *)
ServeBlock(c) ==
  /\ serving = c /\ ch[c].mode = "block" /\ Runnable(c, ch[c])
  /\ LET r == ch[c]  n == Words(c, r)  s == After(c, r, n) IN
     /\ Drain(c, r, n)
     /\ IF s.count = 0 /\ s.rest = 0 THEN Complete(c, s, n)
        ELSE /\ Move(c, s, n)
             /\ IF budget # NoLimit /\ n >= budget THEN Leave
                ELSE /\ UNCHANGED serving
                     /\ budget' = IF budget = NoLimit THEN NoLimit ELSE budget - n
             /\ Account(c, n)
  /\ UNCHANGED <<dpcr, turn, ops>>

EndBlocks(c) ==
  /\ serving = c /\ ch[c].mode = "block" /\ ~Runnable(c, ch[c])
  /\ Leave /\ Account(c, 0)
  /\ UNCHANGED <<guest, line, supply, turn>>

(* ... in list mode, where MADR stays; and a mode the switch leaves out.   *)
ServeList(c) ==
  /\ serving = c /\ ch[c].mode = "list"
  /\ Complete(c, ch[c], 0)
  /\ UNCHANGED <<dpcr, line, supply, turn, ops>>

ServeReserved(c) ==
  /\ serving = c /\ ch[c].mode = "reserved"
  /\ Leave /\ Account(c, 0)
  /\ UNCHANGED <<guest, line, supply, turn>>

Service == \/ TickEnd
           \/ \E c \in Channels : \/ TickServe(c)
                                 \/ ServeImmediate(c) \/ ServeBlock(c) \/ EndBlocks(c)
                                 \/ ServeList(c) \/ ServeReserved(c)

Next ==
  \/ \E c \in Channels : WriteMadr(c) \/ WriteBcr(c) \/ WriteChcr(c)
  \/ WriteDpcr \/ WriteDicr \/ AckIrq
  \/ \E c \in Supplied : Deliver(c)
  \/ \E c \in Asking : Raise(c) \/ Drop(c)
  \/ Tick \/ Service

Spec == Init /\ [][Next]_vars

(* The scheduler services the DMA again and again while a channel waits,   *)
(* and device time passes between services.                                *)
FairSpec == /\ Spec
            /\ WF_vars(Tick) /\ WF_vars(Service)
            /\ \A c \in Supplied : SF_vars(Deliver(c))
            /\ \A c \in Asking : SF_vars(Raise(c))

-----------------------------------------------------------------------------
(***************************************************************************)
(* Properties.                                                             *)
(***************************************************************************)
TypeOK ==
  /\ ch \in [Channels -> Channel]
  /\ dpcr \subseteq Channels
  /\ dicr \in [force : BOOLEAN, master_enable : BOOLEAN, enables : SUBSET Channels,
               flags : SUBSET Channels, master : BOOLEAN]
  /\ pending \in BOOLEAN /\ acked \in BOOLEAN /\ owed \subseteq Channels
  /\ line \in [Asking -> BOOLEAN] /\ supply \in [Supplied -> Nat]
  /\ serving \in Channels \cup {Nobody} /\ turn \in 0..Nobody
  /\ budget \in Nat
  /\ ops \in 0..MaxOps
  /\ log \in [Channels -> [from : 0..Space-1, plan : Nat, moved : Nat, done : BOOLEAN]]
  /\ slice \in Int

(* However a transfer is cut into slices, blocks and what the device had   *)
(* ready (dma_block 430-446, 690-703), nothing is moved twice or skipped:  *)
(* what is moved and what is left make what was programmed, and a transfer *)
(* that is reported complete has moved exactly that.                       *)
WordsConserved ==
  \A c \in Channels : ch[c].mode \in {"immediate", "block"} =>
     log[c].plan = log[c].moved + (IF log[c].done THEN 0 ELSE Left(ch[c]))

(* MADR (689) is always where the next word goes: the slices of a transfer *)
(* cover one contiguous run of memory, forwards or backwards.              *)
AddressFollows ==
  \A c \in Channels : ch[c].madr =
     (IF c = Otc \/ ch[c].back THEN log[c].from - log[c].moved
                               ELSE log[c].from + log[c].moved) % Space

(* A streaming channel moves no more than its slice in one service, over   *)
(* however many blocks (execute_dma 376-380), so that the other channels   *)
(* and the CPU get their turn.                                             *)
SliceBound == slice >= 0

(* A completion that interrupts keeps its flag until the guest writes a    *)
(* one to that very bit, whatever the width of its writes to DICR          *)
(* (system.cpp 3386, 3634).                                                *)
FlagsOwed == dicr.flags = owed

(* While the master flag is up, the CPU's interrupt bit is set, or the     *)
(* guest has cleared it since the flag rose: no rise goes unnoticed, be it *)
(* a completion's, the force bit's or a late master enable's (92-98).      *)
NoLostInterrupt ==
  /\ dicr.master = (dicr.force \/ (dicr.master_enable /\ dicr.flags # {}))
  /\ dicr.master => pending \/ acked

(* A completion's interrupt goes astray neither in the controller's flags  *)
(* nor on its way to the CPU.                                              *)
InterruptsKept == FlagsOwed /\ NoLostInterrupt

(* A transfer that stays programmed and enabled ends, if its device goes   *)
(* on: no cut leaves a channel waiting for ever.                           *)
Waiting(c) == Active(ch[c]) /\ c \in dpcr /\ ch[c].mode # "reserved"
TransfersEnd == \A c \in Channels : []<>~Waiting(c)
=============================================================================
