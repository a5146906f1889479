------------------------------- MODULE Timers -------------------------------
(***************************************************************************)
(* One root counter of src/core/timer.cpp.  Timers::advance() runs the     *)
(* three counters one after the other and none reads another's state, so   *)
(* index (0, 1 or 2) is chosen once and every claim is about that counter. *)
(*                                                                         *)
(* The widths are constants: the counter wraps at Wrap (0x10000), a pulse  *)
(* lasts PulseCycles (kIrqPulseCycles), and the slow clock of timer 2      *)
(* ticks every Divider (8) cycles.                                         *)
(***************************************************************************)
EXTENDS Integers

CONSTANTS
  Wrap, PulseCycles, Divider,
  Sources,               (* values of the clock source field, mode bits 8-9 *)
  MaxStep,               (* bound: cycles in one advance()                  *)
  MaxSpan                (* bound: cycles the properties look ahead         *)

ASSUME TimersAssumption ==
  /\ \A n \in {Wrap, PulseCycles, Divider, MaxStep, MaxSpan} : n \in Nat \ {0}
  /\ Wrap > 1 /\ MaxStep < MaxSpan
  /\ 0 \in Sources /\ Sources \subseteq 0..3

VARIABLES
  index,   (* which of the three counters                                  *)
  t        (* its struct Timer, with what the class keeps for it           *)

timerVars == <<index, t>>

(* The writable mode bits.  sync is the sync mode, or "off" when bit 0 is  *)
(* clear and the sync mode bits are not looked at.                         *)
Mode == [sync : {"off", "0", "1", "2", "3"}, reset : BOOLEAN, onTarget : BOOLEAN,
         onOverflow : BOOLEAN, repeat : BOOLEAN, toggle : BOOLEAN, source : Sources]

(* high: mode bit 10, the request line.  sawTarget, sawOverflow: bits 11   *)
(* and 12.  rem: timer 2's cycles towards its next slow tick.  blank: the  *)
(* blanking interval the counter can synchronise with is on.  fired, a     *)
(* history: the interrupts requested since the mode was written.           *)
Timer == [mode : Mode, counter : 0..Wrap-1, target : 0..Wrap-1, high : BOOLEAN,
          sawTarget : BOOLEAN, sawOverflow : BOOLEAN, done : BOOLEAN, released : BOOLEAN,
          pulse : 0..PulseCycles, rem : 0..Divider-1,
          blank : BOOLEAN, fired : Nat]

Least(a, b) == IF a < b THEN a ELSE b

(***************************************************************************)
(* The arithmetic of the events.                                           *)
(***************************************************************************)
TicksToTarget(s) ==
  IF s.counter < s.target THEN s.target - s.counter ELSE (Wrap - s.counter) + s.target

TicksToOverflow(s) == Wrap - s.counter

TicksToEvent(s) == Least(TicksToTarget(s), TicksToOverflow(s))

CountsSystemClock(s) == index = 2 \/ s.mode.source \in {0, 2}

CountsEighths(s) == index = 2 /\ s.mode.source \in {2, 3}

CyclesForTicks(s, ticks) == IF CountsEighths(s) THEN ticks * Divider - s.rem ELSE ticks

UntilEvent(s) == CyclesForTicks(s, TicksToEvent(s))

PausedBySync(s) ==
  IF index = 2 THEN s.mode.sync \in {"0", "3"}
  ELSE \/ s.mode.sync = "0" /\ s.blank
       \/ s.mode.sync = "2" /\ ~s.blank
       \/ s.mode.sync = "3" /\ ~s.released

(* Mutant: the one shot is taken only when the target is hit.              *)
OneShotOnTarget(s, targetHit, overflowHit) ==
  LET seen == [s EXCEPT !.sawTarget = @ \/ targetHit, !.sawOverflow = @ \/ overflowHit]
      irq  == /\ (targetHit /\ s.mode.onTarget) \/ (overflowHit /\ s.mode.onOverflow)
              /\ s.mode.repeat \/ ~s.done
  IN IF ~irq THEN seen
     ELSE [seen EXCEPT !.done  = @ \/ (targetHit /\ ~s.mode.repeat),
                       !.high  = IF s.mode.toggle THEN ~@ ELSE FALSE,
                       !.pulse = IF s.mode.toggle THEN @ ELSE PulseCycles,
                       !.fired = @ + 1]

(***************************************************************************)
(* An event: handle_timer_event() and then the move of the counter.        *)
(***************************************************************************)
HandleTimerEvent(s, targetHit, overflowHit) ==
  LET seen == [s EXCEPT !.sawTarget = @ \/ targetHit, !.sawOverflow = @ \/ overflowHit]
      irq  == /\ (targetHit /\ s.mode.onTarget) \/ (overflowHit /\ s.mode.onOverflow)
              /\ s.mode.repeat \/ ~s.done
  IN IF ~irq THEN seen
     ELSE [seen EXCEPT !.done  = @ \/ ~s.mode.repeat,
                       !.high  = IF s.mode.toggle THEN ~@ ELSE FALSE,
                       !.pulse = IF s.mode.toggle THEN @ ELSE PulseCycles,
                       !.fired = @ + 1]

ApplyTicksToEvent(s, ticks) ==
  LET targetHit == ticks = TicksToTarget(s)
      moved == IF targetHit /\ s.mode.reset /\ s.target > 0 THEN 0
               ELSE (s.counter + ticks) % Wrap
  IN [HandleTimerEvent(s, targetHit, ticks = TicksToOverflow(s)) EXCEPT !.counter = moved]

(* add_ticks(_, 1): the one tick of an edge.                               *)
AddTick(s) ==
  IF PausedBySync(s) THEN s
  ELSE IF TicksToEvent(s) > 1 THEN [s EXCEPT !.counter = (@ + 1) % Wrap]
  ELSE ApplyTicksToEvent(s, 1)

(***************************************************************************)
(* advance_timer(): the span is cut at the end of a pulse and at every     *)
(* event; whole laps of a counter that cannot interrupt are skipped.       *)
(***************************************************************************)
Counting(s) == CountsSystemClock(s) /\ ~PausedBySync(s)

(* The cycles of the next piece, at most c.                                *)
Piece(s, c) ==
  LET untilPulse == IF s.pulse # 0 THEN Least(c, s.pulse) ELSE c
  IN IF Counting(s) THEN Least(untilPulse, UntilEvent(s)) ELSE untilPulse

(* The ticks in a piece of n cycles, and what remains towards the next.     *)
TicksIn(s, n) == IF CountsEighths(s) THEN (s.rem + n) \div Divider ELSE n

RemainderAfter(s, n) ==
  IF CountsEighths(s) THEN (s.rem + n) % Divider ELSE IF index = 2 THEN 0 ELSE s.rem

Pulsed(s, n) ==
  [s EXCEPT !.rem   = RemainderAfter(s, n),
            !.high  = @ \/ (s.pulse # 0 /\ s.pulse = n),
            !.pulse = IF @ = 0 THEN 0 ELSE @ - n]

(* One piece of n cycles: the remainder, the pulse, then the counter.      *)
RunPiece(s, n) ==
  IF ~Counting(s) THEN Pulsed(s, n)
  ELSE IF UntilEvent(s) = n THEN ApplyTicksToEvent(Pulsed(s, n), TicksIn(s, n))
  ELSE [Pulsed(s, n) EXCEPT !.counter = (@ + TicksIn(s, n)) % Wrap]

(* Mutant: laps are skipped though the pulse has not ended.                *)
LapsDuringPulse(s) ==
  /\ ~(s.mode.onTarget /\ (s.mode.repeat \/ ~s.done))
  /\ s.mode.reset /\ s.target > 0 /\ s.counter = 0

(* Nothing but target hits without an interrupt lies ahead.                *)
OnlyLaps(s) ==
  /\ ~(s.mode.onTarget /\ (s.mode.repeat \/ ~s.done))
  /\ s.pulse = 0 /\ s.mode.reset /\ s.target > 0 /\ s.counter = 0

Lap(s) == IF CountsEighths(s) THEN s.target * Divider ELSE s.target

(* One turn of the loop: the counter after the next piece of c cycles, and  *)
(* the cycles left to run.                                                 *)
Turn(s, c) ==
  LET n       == Piece(s, c)
      atEvent == Counting(s) /\ UntilEvent(s) = n
      after   == RunPiece(s, n)
      left    == c - n
  IN IF atEvent /\ left > 0 /\ OnlyLaps(after)
     THEN [timer |-> [after EXCEPT !.sawTarget = @ \/ left >= Lap(after)],
           left  |-> left % Lap(after)]
     ELSE [timer |-> after, left |-> left]

loop[c \in Nat] ==
  [s \in Timer |-> IF c = 0 THEN s ELSE LET turn == Turn(s, c) IN loop[turn.left][turn.timer]]

AdvanceTimer(s, cycles) == loop[cycles][s]

(* cycles_until_irq(); NoEvent is kNoEvent.                                *)
NoEvent == -1

(* Mutant: an overflow is announced that a counter reset on target never reaches.  *)
UntilUnreachable(s) ==
  LET hits == (IF s.mode.onTarget THEN {TicksToTarget(s)} ELSE {}) \cup
              (IF s.mode.onOverflow THEN {TicksToOverflow(s)} ELSE {})
  IN IF ~Counting(s) \/ (~s.mode.repeat /\ s.done) \/ hits = {} THEN NoEvent
     ELSE CyclesForTicks(s, CHOOSE h \in hits : \A g \in hits : h <= g)

CyclesUntilIrq(s) ==
  LET overflowReachable == ~(s.mode.reset /\ s.target > 0 /\ s.counter < s.target)
      hits == (IF s.mode.onTarget THEN {TicksToTarget(s)} ELSE {}) \cup
              (IF s.mode.onOverflow /\ overflowReachable THEN {TicksToOverflow(s)} ELSE {})
  IN IF ~Counting(s) \/ (~s.mode.repeat /\ s.done) \/ hits = {} THEN NoEvent
     ELSE CyclesForTicks(s, CHOOSE h \in hits : \A g \in hits : h <= g)

(***************************************************************************)
(* The operations.                                                         *)
(***************************************************************************)
(* Mode zero, which reset() leaves.                                        *)
IdleMode ==
  [sync |-> "off", reset |-> FALSE, onTarget |-> FALSE, onOverflow |-> FALSE,
   repeat |-> FALSE, toggle |-> FALSE, source |-> 0]

(* The history field is capped where only "more than one" matters.         *)
Capped(s) == [s EXCEPT !.fired = Least(@, 2)]

TimerInit ==
  /\ index \in 0..2
  /\ t = [mode |-> IdleMode, counter |-> 0, target |-> 0, high |-> TRUE,
          sawTarget |-> FALSE, sawOverflow |-> FALSE, done |-> FALSE, released |-> FALSE,
          pulse |-> 0, rem |-> 0, blank |-> FALSE, fired |-> 0]

WriteCounter(v) ==
  /\ t' = [t EXCEPT !.counter = v, !.rem = IF index = 2 THEN 0 ELSE @]
  /\ UNCHANGED index

WriteMode(m) ==
  /\ t' = [t EXCEPT !.mode = m, !.high = TRUE, !.sawTarget = FALSE, !.sawOverflow = FALSE,
                    !.counter = 0, !.done = FALSE, !.released = FALSE, !.pulse = 0,
                    !.rem = IF index = 2 THEN 0 ELSE @, !.fired = 0]
  /\ UNCHANGED index

WriteTarget(v) ==
  /\ t' = [t EXCEPT !.target = v]
  /\ UNCHANGED index

(* Reading the mode clears bits 11 and 12.                                 *)
ReadMode ==
  /\ t' = [t EXCEPT !.sawTarget = FALSE, !.sawOverflow = FALSE]
  /\ UNCHANGED index

Advance(n) ==
  /\ t' = Capped(AdvanceTimer(t, n))
  /\ UNCHANGED index

(* The edge at which blanking begins, as the counter sees it.              *)
BlankBegins(s) ==
  CASE s.mode.sync \in {"1", "2"} -> [s EXCEPT !.counter = 0]
    [] s.mode.sync = "3"          -> [s EXCEPT !.released = TRUE]
    [] OTHER                      -> s

(* The counters clocked by the horizontal edge: timers 0 and 1, odd source.*)
CountsEdges(s) == index < 2 /\ s.mode.source \in {1, 3}

HblankPulse ==
  LET begun  == IF index = 0 THEN BlankBegins([t EXCEPT !.blank = TRUE]) ELSE t
      ticked == IF CountsEdges(t) THEN AddTick(begun) ELSE begun
  IN /\ t' = Capped([ticked EXCEPT !.blank = IF index = 0 THEN FALSE ELSE @])
     /\ UNCHANGED index

SetVblank(active) ==
  /\ index = 1 /\ active # t.blank
  /\ t' = IF active THEN BlankBegins([t EXCEPT !.blank = TRUE]) ELSE [t EXCEPT !.blank = FALSE]
  /\ UNCHANGED index

(* A bound that loses no state: what a mode write leaves does not depend   *)
(* on the old mode, so two set-ups with mode zero between them reach what  *)
(* one after the other reaches.                                            *)
SwitchesThroughIdle(m) == IdleMode \in {t.mode, m}

TimerNext ==
  \/ \E v \in 0..Wrap-1 : WriteCounter(v) \/ WriteTarget(v)
  \/ \E m \in Mode : SwitchesThroughIdle(m) /\ WriteMode(m)
  \/ ReadMode
  \/ \E n \in 1..MaxStep : Advance(n)
  \/ HblankPulse
  \/ \E active \in BOOLEAN : SetVblank(active)

TimerSpec == TimerInit /\ [][TimerNext]_timerVars

(***************************************************************************)
(* Properties.                                                             *)
(***************************************************************************)
(* Every field keeps its range; the interrupts counted are capped at 2.    *)
TimerTypeOK == index \in 0..2 /\ t \in Timer /\ t.fired \in 0..2

(* timer.h: advance(a) then advance(b) is identical to advance(a + b).     *)
(* Cutting one cycle off any span is enough, by induction on the span; it  *)
(* covers the laps advance_timer() skips and the pulse it splits at.       *)
Additive ==
  \A n \in 2..MaxSpan : AdvanceTimer(AdvanceTimer(t, 1), n - 1) = AdvanceTimer(t, n)

(* cycles_until_irq() is the cycle of the next interrupt exactly: none is  *)
(* raised before it, one is raised at it, and with kNoEvent none is raised *)
(* however long the CPU runs without touching the counter.  (fired only    *)
(* grows, so the cycle before the event speaks for all earlier ones.)      *)
DeadlineExact ==
  LET due == CyclesUntilIrq(t)
      Fires(n) == AdvanceTimer(t, n).fired > t.fired
  IN IF due = NoEvent THEN ~Fires(MaxSpan) ELSE ~Fires(due - 1) /\ Fires(due)

(* Without the repeat bit a counter interrupts once per write of its mode, *)
(* whatever edges, resets and writes of counter and target follow.         *)
OneShotOnce == ~t.mode.repeat => t.fired <= 1

=============================================================================
