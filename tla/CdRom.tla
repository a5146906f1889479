------------------------------- MODULE CdRom -------------------------------
(***************************************************************************)
(* The CD-ROM controller (core/cdrom.cpp): the command port, the queue of  *)
(* interrupts that wait for their turn, the data-ready interrupt with its  *)
(* retries, and the sectors on their way to the guest.                     *)
(*                                                                         *)
(* The controller is one record; its functions are functions on it, named  *)
(* as in the code, and an action is one register access of the guest or    *)
(* one unit of time.  A delay of the code is a constant; only their order  *)
(* matters.  Only full acknowledgements are modelled, a response is one    *)
(* byte, and a sector is a few words of which some are the header that     *)
(* streaming programs look at and some the tail that nobody reads.  CD     *)
(* audio, the interrupt enable and the insertion probe are left out.       *)
(***************************************************************************)
EXTENDS Integers, Sequences, FiniteSets

CONSTANTS
  Targets,       \* the sectors a guest may seek to
  LastLba,       \* the last sector of the track
  Backlog,       \* kSectorBufferBacklog
  Retry, IrqGap, \* kCdAsyncRetryDelayCycles, kCdAsyncMinInterruptGapCycles
  Redelivery,    \* kCdSectorRedeliveryDelayCycles
  Busy,          \* command_busy_for
  SecondDelay,   \* the delays of schedule_second_response
  Period,        \* read_period_cycles_
  SeekTime,      \* kSeekStartupCycles, kSeekCycles
  RawSize, DataSize,   \* words of a whole sector, and of its data only
  HeaderAt,      \* kRawSectorStreamHeaderBytes
  TailAt,        \* kRawSectorHeaderAndDataBytes
  MaxCommands,   \* bound: commands of the guest
  None           \* nothing in a buffer or a timer

ASSUME CdRomAssumption ==
  /\ Targets \subseteq 0..LastLba
  /\ \A n \in {LastLba, Backlog, Retry, IrqGap, Redelivery, Busy, SecondDelay,
               Period, SeekTime, DataSize, HeaderAt, MaxCommands} : n \in Nat \ {0}
  /\ RawSize \in Nat /\ TailAt \in Nat
  /\ HeaderAt < TailAt /\ TailAt < RawSize
  /\ \A allow \in BOOLEAN, delay \in 1..Retry : [allow |-> allow, delay |-> delay] # None

VARIABLES
  cd,      \* the controller, a record:
           \*   flag (0: no interrupt up), irqs, async, second: interrupts;
           \*   unread: the response is not read; busy, since, timer,
           \*   redeliver: delays; data, index, header, request, queue: sectors;
           \*   state, begin, startup, lba, target, xa, whole: the drive;
           \*   and its histories: heard, the last command whose first answer
           \*   came; told, the sector in the buffer was announced; shown, its
           \*   number; found, this read command has found a sector; late, a
           \*   sector joined the queue behind the interrupt of another; over,
           \*   one went into the buffer past the queue
  asked    \* history: the commands written so far

cdVars == <<cd, asked>>

\* A command with the operands that matter; the others change nothing here.
Commands ==
  [name : {"getstat", "wrong", "readn", "pause", "init", "seekl", "stop", "getid"}]
  \union [name : {"setloc"}, target : Targets]
  \union [name : {"setmode"}, xa : BOOLEAN, whole : BOOLEAN]

-----------------------------------------------------------------------------
(* The sector the guest can read. *)

CanDiscardUnreadSectorTail(c) ==
  c.data # None /\ c.whole /\ c.data.size = RawSize /\ c.index >= TailAt

HasUnreadDataBuffer(c) == c.data # None /\ ~CanDiscardUnreadSectorTail(c)

\* A streaming program that has seen the header may lose the rest.
ShouldDefer(c) ==
  /\ HasUnreadDataBuffer(c)
  /\ ~(c.whole /\ c.xa /\ (c.header \/ c.index >= HeaderAt) /\ c.flag # 1)

ActivateDataPayload(c, s) ==
  [c EXCEPT !.data = s, !.index = 0, !.header = FALSE, !.told = FALSE,
            !.shown = s.lba]

\* The interrupt that is up or waiting is for the sector in the buffer.
IrqIsForPresent(c) ==
  c.flag = 1 \/ (c.async # None /\ c.async.allow /\ c.data # None)

QueueSectorBuffer(c, s) ==
  LET longer == Append(c.queue, s)
  IN [c EXCEPT !.queue = IF Len(longer) > Backlog THEN Tail(longer) ELSE longer,
               !.late = @ \/ IrqIsForPresent(c)]

Newest(q) == q[Len(q)]

(* Mutant: the superseded sectors stay in the queue. *)
PopQueuedSectorOnly(c) ==
  ActivateDataPayload([c EXCEPT !.queue = SubSeq(@, 1, Len(@) - 1)], Newest(c.queue))

PopQueuedSector(c) ==
  ActivateDataPayload([c EXCEPT !.queue = <<>>], Newest(c.queue))

\* complete_active_data_buffer() without the service of the interrupts.
Drained(c) ==
  [c EXCEPT !.request = FALSE, !.data = None, !.index = 0, !.header = FALSE,
            !.redeliver = IF c.queue = <<>> THEN None ELSE Redelivery]

\* select_latest_sector_for_data_ready_irq(): with sectors in the queue,
\* completing a tail starts a redelivery and services nothing.
SelectLatestSector(c) ==
  IF c.queue = <<>> THEN c
  ELSE LET t == IF CanDiscardUnreadSectorTail(c) THEN Drained(c) ELSE c
       IN IF ShouldDefer(t) THEN t ELSE PopQueuedSector(t)

-----------------------------------------------------------------------------
(* Interrupts.  An entry of the queue is [irq, wait, of]: of is the command *)
(* it answers first, or 0.                                                  *)

FireIrq(c, irq, of) ==
  [c EXCEPT !.flag = irq, !.unread = TRUE,
            !.heard = IF of = 0 THEN c.heard ELSE of,
            !.told = c.told \/ irq = 1]

DataIrqMayGo(c, allow) ==
  /\ c.flag = 0 /\ c.busy = 0 /\ c.since >= IrqGap
  /\ allow \/ ~ShouldDefer(c)

\* queue_or_deliver_async_irq(1, ...)
QueueOrDeliverAsync(c, allow) ==
  IF c.flag = 1 THEN [c EXCEPT !.async = None]
  ELSE IF c.async # None THEN [c EXCEPT !.async.allow = @ \/ allow]
  ELSE IF DataIrqMayGo(c, allow) THEN FireIrq(SelectLatestSector(c), 1, 0)
  ELSE [c EXCEPT !.async = [allow |-> allow, delay |-> Retry]]

DeliverPendingAsync(c) ==
  IF c.async = None \/ c.flag # 0 \/ c.busy > 0 THEN c
  ELSE IF DataIrqMayGo(c, c.async.allow)
       THEN FireIrq(SelectLatestSector([c EXCEPT !.async = None]), 1, 0)
       ELSE [c EXCEPT !.async.delay = Retry]

EnqueueIrq(c, irq, of, wait) ==
  IF c.flag # 0 \/ (wait /\ c.busy > 0)
  THEN [c EXCEPT !.irqs = Append(@, [irq |-> irq, wait |-> wait, of |-> of])]
  ELSE FireIrq(c, irq, of)

ServicePendingIrq(c) ==
  IF c.irqs = <<>> \/ c.flag # 0 \/ (Head(c.irqs).wait /\ c.busy > 0) THEN c
  ELSE LET next == Head(c.irqs)
           rest == [c EXCEPT !.irqs = Tail(@)]
       IN IF next.irq = 1 THEN QueueOrDeliverAsync(rest, FALSE)
          ELSE FireIrq(rest, next.irq, next.of)

CompleteActiveDataBuffer(c) ==
  IF c.queue # <<>> THEN Drained(c) ELSE ServicePendingIrq(Drained(c))

CompleteDiscardableTail(c) ==
  IF CanDiscardUnreadSectorTail(c) THEN CompleteActiveDataBuffer(c) ELSE c

(* Mutant: any interrupt that is up counts as the data-ready one. *)
HasPendingAnyIrq(c) ==
  \/ c.flag # 0
  \/ c.async # None
  \/ \E i \in DOMAIN c.irqs : c.irqs[i].irq = 1

(* Mutant: the interrupt that waits for its gap is forgotten. *)
HasPendingInQueue(c) ==
  \/ c.flag = 1
  \/ \E i \in DOMAIN c.irqs : c.irqs[i].irq = 1

HasPendingDataReadyIrq(c) ==
  \/ c.flag = 1
  \/ c.async # None
  \/ \E i \in DOMAIN c.irqs : c.irqs[i].irq = 1

\* enqueue_data_irq(): the drive has read a sector the guest may want.
EnqueueDataIrq(c0, s) ==
  LET c == CompleteDiscardableTail(c0)
      q == QueueSectorBuffer(c, s)
  IN IF c.flag # 0 \/ c.unread \/ c.busy > 0
     THEN IF HasPendingDataReadyIrq(c) THEN q
          ELSE [q EXCEPT !.irqs = Append(@, [irq |-> 1, wait |-> FALSE, of |-> 0])]
     ELSE IF ShouldDefer(c) THEN QueueOrDeliverAsync(q, FALSE)
     ELSE QueueOrDeliverAsync(
            [ActivateDataPayload(c, s) EXCEPT !.over = @ \/ c.queue # <<>>], TRUE)

-----------------------------------------------------------------------------
(* Commands. *)

ScheduleSecondResponse(c, irq) ==
  [c EXCEPT !.second = [irq |-> irq, delay |-> SecondDelay]]

(* Mutant: every queued interrupt is dropped, answers too. *)
ClearAllIrqs(c) ==
  [c EXCEPT !.data = None, !.index = 0, !.header = FALSE, !.queue = <<>>,
            !.request = FALSE, !.redeliver = None, !.async = None, !.irqs = <<>>]

\* The waiting interrupts that are no data-ready ones, in their order.
ButDataReady(irqs) ==
  LET kept == {i \in DOMAIN irqs : irqs[i].irq # 1}
      place(i) == Cardinality({j \in kept : j <= i})
  IN [k \in 1..Cardinality(kept) |-> irqs[CHOOSE i \in kept : place(i) = k]]

ClearReadBuffers(c) ==
  [c EXCEPT !.data = None, !.index = 0, !.header = FALSE, !.queue = <<>>,
            !.request = FALSE, !.redeliver = None, !.async = None,
            !.irqs = ButDataReady(@)]

StartReadStream(c0) ==
  LET c == [ClearReadBuffers(c0) EXCEPT !.startup = TRUE, !.found = FALSE, !.shown = -1,
                                       !.late = FALSE, !.over = FALSE]
  IN IF c.target # None /\ c.target # c.lba
     THEN [c EXCEPT !.state = "seeking", !.begin = TRUE, !.timer = SeekTime]
     ELSE [c EXCEPT !.state = "reading", !.begin = FALSE, !.timer = Period]

Stopped(c) == [c EXCEPT !.state = "idle", !.begin = FALSE, !.startup = FALSE]

CmdPause(c, n) ==
  LET told == EnqueueIrq(c, 3, n, TRUE)
  IN IF c.state = "seeking" \/ (c.state = "reading" /\ c.startup)
     THEN EnqueueIrq(told, 5, 0, FALSE)
     ELSE ScheduleSecondResponse(Stopped(told), 2)

CmdSetmode(c, n, xa, whole) ==
  LET m == [c EXCEPT !.xa = xa, !.whole = whole]
      cleared == IF /\ c.xa /\ ~xa
                    /\ \/ c.data # None \/ c.queue # <<>>
                       \/ HasPendingDataReadyIrq(m)
                 THEN ClearReadBuffers(m) ELSE m
  IN EnqueueIrq(cleared, 3, n, TRUE)

CmdSeekl(c, n) ==
  IF c.target = None THEN EnqueueIrq(c, 5, n, TRUE)
  ELSE ScheduleSecondResponse(
         EnqueueIrq([c EXCEPT !.state = "seeking", !.begin = FALSE,
                              !.startup = FALSE, !.timer = SeekTime], 3, n, TRUE), 2)

CmdStop(c, n) ==
  ScheduleSecondResponse(
    EnqueueIrq([Stopped(c) EXCEPT !.data = None, !.index = 0, !.header = FALSE],
               3, n, TRUE), 2)

CmdSetloc(c, n, target) == EnqueueIrq([c EXCEPT !.target = target], 3, n, TRUE)

CmdReadn(c, n) == StartReadStream(EnqueueIrq(c, 3, n, TRUE))

CmdInit(c, n) ==
  ScheduleSecondResponse(
    EnqueueIrq([Stopped(c) EXCEPT !.xa = FALSE, !.whole = TRUE], 3, n, TRUE), 2)

CmdGetid(c, n) == ScheduleSecondResponse(EnqueueIrq(c, 3, n, TRUE), 2)

\* execute_command(); n numbers the command.
ExecuteCommand(c, n, cmd) ==
  CASE cmd.name = "getstat" -> EnqueueIrq(c, 3, n, TRUE)
    [] cmd.name = "wrong"   -> EnqueueIrq(c, 5, n, TRUE)
    [] cmd.name = "setloc"  -> CmdSetloc(c, n, cmd.target)
    [] cmd.name = "readn"   -> CmdReadn(c, n)
    [] cmd.name = "pause"   -> CmdPause(c, n)
    [] cmd.name = "init"    -> CmdInit(c, n)
    [] cmd.name = "setmode" -> CmdSetmode(c, n, cmd.xa, cmd.whole)
    [] cmd.name = "seekl"   -> CmdSeekl(c, n)
    [] cmd.name = "stop"    -> CmdStop(c, n)
    [] cmd.name = "getid"   -> CmdGetid(c, n)

-----------------------------------------------------------------------------
(* Register accesses of the guest. *)

\* write8(), port 1: the command runs at once and the controller is busy after it.
WriteCommand(cmd) ==
  /\ asked < MaxCommands
  /\ asked' = asked + 1
  /\ cd' = ExecuteCommand([cd EXCEPT !.busy = Busy], asked + 1, cmd)

\* write8(), port 3: an acknowledgement, which may drop the response too.
AcknowledgedIrq(c, clear) ==
  LET f == [c EXCEPT !.flag = 0, !.since = IF c.flag = 0 THEN @ ELSE 0,
                     !.unread = @ /\ ~clear]
      p == IF c.flag # 0 /\ c.queue # <<>> THEN CompleteDiscardableTail(f) ELSE f
  IN DeliverPendingAsync(ServicePendingIrq(p))

Acknowledge(clear) ==
  /\ cd.flag # 0 \/ (clear /\ cd.unread)
  /\ cd' = AcknowledgedIrq(cd, clear)
  /\ UNCHANGED asked

\* read8(), port 1, up to the last byte.
ReadResponse ==
  /\ cd.unread
  /\ cd' = ServicePendingIrq([cd EXCEPT !.unread = FALSE])
  /\ UNCHANGED asked

\* write8(), port 3: BFRD.
RequestData(on) ==
  /\ cd.request # on
  /\ cd' = [cd EXCEPT !.request = on]
  /\ UNCHANGED asked

\* read8(), port 2, and dma_read().
TakenWord(c) ==
  LET t == [c EXCEPT !.index = @ + 1,
                     !.header = @ \/ (c.whole /\ c.xa /\ c.index + 1 >= HeaderAt)]
  IN IF t.index >= t.data.size \/ CanDiscardUnreadSectorTail(t)
     THEN CompleteActiveDataBuffer(t) ELSE t

ReadData ==
  /\ cd.data # None /\ cd.request
  /\ cd' = TakenWord(cd)
  /\ UNCHANGED asked

-----------------------------------------------------------------------------
(* tick(), one unit at a time, in the order of the code. *)

TickRedelivery(c) ==
  IF c.redeliver = None THEN c
  ELSE IF c.redeliver > 1 THEN [c EXCEPT !.redeliver = @ - 1]
  ELSE IF HasUnreadDataBuffer(c) \/ c.queue = <<>> THEN [c EXCEPT !.redeliver = 0]
  ELSE LET p == PopQueuedSector([c EXCEPT !.redeliver = None])
       IN IF p.async # None THEN QueueOrDeliverAsync([p EXCEPT !.async = None], TRUE)
          ELSE ServicePendingIrq(p)

TickBusy(c) ==
  IF c.busy # 1 THEN [c EXCEPT !.busy = IF @ = 0 THEN 0 ELSE @ - 1]
  ELSE DeliverPendingAsync(ServicePendingIrq([c EXCEPT !.busy = 0]))

TickSecond(c) ==
  IF c.second = None THEN c
  ELSE IF c.second.delay > 1 THEN [c EXCEPT !.second.delay = @ - 1]
  ELSE EnqueueIrq([c EXCEPT !.second = None], c.second.irq, 0, FALSE)

TickAsync(c) ==
  IF c.async = None THEN c
  ELSE IF c.async.delay > 1 THEN [c EXCEPT !.async.delay = @ - 1]
  ELSE DeliverPendingAsync([c EXCEPT !.async.delay = Retry])

TickSeek(c) ==
  IF c.timer > 1 THEN [c EXCEPT !.timer = @ - 1]
  ELSE LET there == [c EXCEPT !.lba = IF c.target = None THEN @ ELSE c.target,
                              !.timer = Period]
       IN IF c.begin
          THEN [there EXCEPT !.state = "reading", !.begin = FALSE, !.startup = FALSE]
          ELSE [there EXCEPT !.state = "idle"]

\* What read_sector() found: a sector for the guest, one that the XA decoder
\* took, or none.
SectorRead(c, found) ==
  IF found = "error"
  THEN EnqueueIrq([c EXCEPT !.state = "idle", !.startup = FALSE], 5, 0, FALSE)
  ELSE LET s == [lba |-> c.lba, size |-> IF c.whole THEN RawSize ELSE DataSize]
           r == [c EXCEPT !.startup = FALSE, !.timer = Period]
           e == IF found = "audio" THEN r
                ELSE EnqueueDataIrq([r EXCEPT !.found = TRUE], s)
       IN IF c.lba >= LastLba THEN [e EXCEPT !.state = "idle"]
          ELSE [e EXCEPT !.lba = @ + 1]

TickRead(c, found) ==
  IF c.timer > 1 THEN [c EXCEPT !.timer = @ - 1] ELSE SectorRead(c, found)

Ticked(c0, found) ==
  LET c == TickAsync(TickSecond(TickBusy(TickRedelivery(
             [c0 EXCEPT !.since = IF @ < IrqGap THEN @ + 1 ELSE @]))))
      m == CASE c.state = "seeking" -> TickSeek(c)
             [] c.state = "reading" -> TickRead(c, found)
             [] OTHER -> c
  IN ServicePendingIrq(m)

Tick ==
  \E found \in {"data", "audio", "error"} :
     /\ found = "audio" => cd.xa
     /\ found # "data" => cd.state = "reading" /\ cd.timer = 1
     /\ cd' = Ticked(cd, found)
     /\ UNCHANGED asked

-----------------------------------------------------------------------------
\* After a reset, in the mode some Setmode has left.
CdInit ==
  /\ asked = 0
  /\ \E xa, whole \in BOOLEAN :
       cd = [flag |-> 0, unread |-> FALSE, irqs |-> <<>>, async |-> None,
             second |-> None, busy |-> 0, since |-> IrqGap, redeliver |-> None,
             data |-> None, index |-> 0, header |-> FALSE, request |-> FALSE,
             queue |-> <<>>, state |-> "idle", begin |-> FALSE, startup |-> FALSE,
             timer |-> 0, lba |-> 0, target |-> None, xa |-> xa, whole |-> whole,
             heard |-> 0, told |-> TRUE, shown |-> -1, found |-> FALSE,
             late |-> FALSE, over |-> FALSE]

Guest ==
  \/ \E cmd \in Commands : WriteCommand(cmd)
  \/ \E clear \in BOOLEAN : Acknowledge(clear)
  \/ ReadResponse
  \/ \E on \in BOOLEAN : RequestData(on)
  \/ ReadData

CdNext == Tick \/ Guest

CdSpec == CdInit /\ [][CdNext]_cdVars

-----------------------------------------------------------------------------
(* What must hold. *)

\* A data-ready interrupt is in the queue of those that wait for their turn.
DataReadyWaits(c) == \E i \in DOMAIN c.irqs : c.irqs[i].irq = 1

(* Every command gets exactly one first answer, in the order of the commands: *)
(* the answers not yet heard wait in the queue, whatever read commands, mode  *)
(* changes and sectors did to it in between.                                  *)
AnswersOwed ==
  LET owed == {i \in DOMAIN cd.irqs : cd.irqs[i].of # 0}
  IN /\ {cd.irqs[i].of : i \in owed} = cd.heard+1..asked
     /\ \A i, j \in owed : i < j => cd.irqs[i].of < cd.irqs[j].of

(* There is at most one data-ready interrupt at a time, up, waiting for its   *)
(* gap or in the queue: a guest that counts them counts sectors.  And none of *)
(* an earlier read command is on its way: the next one is for a sector that   *)
(* this command has found.                                                    *)
OneDataReady ==
  /\ \A i, j \in DOMAIN cd.irqs : cd.irqs[i].irq = 1 /\ cd.irqs[j].irq = 1 => i = j
  /\ cd.flag = 1 => cd.async = None
  /\ DataReadyWaits(cd) => cd.async = None /\ cd.flag # 1
  /\ cd.async # None \/ DataReadyWaits(cd) => cd.found

(* A sector in the buffer was announced or will be, as long as no sector was  *)
(* queued behind another's interrupt or went past the queue.  Without the two *)
(* exceptions it is false: such a sector comes into the buffer in silence.    *)
AnnouncedIfPrompt ==
  cd.data # None => \/ cd.told \/ HasPendingDataReadyIrq(cd)
                    \/ cd.late \/ cd.over

(* The guest never sees an older sector of a stream after a newer one, unless *)
(* a sector has gone past the queue, whose older ones then come after it.     *)
SectorsInOrder ==
  [][cd'.shown \notin {cd.shown, -1} => cd'.shown > cd.shown \/ cd.over]_cdVars
=============================================================================
