------------------------------ MODULE AudioProofs ------------------------------
(***************************************************************************)
(* Proofs about the host audio ring for every target, maximum, capacity    *)
(* and batch: the positions stay in range, the latency stays within        *)
(* MaxSamples, the statistics account for every sample, and the unread     *)
(* samples are always the newest ones in order.  Then, about the stutter   *)
(* history and what the callback plays: the channels never change places,  *)
(* and the loop plays the past; and that the ring implements AudioFifo.    *)
(* Last, about the device that plays from that FIFO, for every latency and *)
(* any number of resumes and disc changes: nothing stale is heard.         *)
(***************************************************************************)
EXTENDS AudioRing, HostAudio, SequenceTheorems, TLAPS

(* Used is a count of samples, and moving either position by a number of   *)
(* samples that fits changes it by exactly that number.                    *)
LEMMA AdvanceInRange ==
  ASSUME NEW pos \in Position, NEW n \in 0..Size
  PROVE  Advance(pos, n) \in Position
  BY SizesAssumption DEF Advance, Position, Size

LEMMA BetweenInRange ==
  ASSUME NEW read \in Position, NEW write \in Position
  PROVE  Between(read, write) \in 0..Capacity
  BY SizesAssumption DEF Between, Position, Size

LEMMA ReadAdvances ==
  ASSUME NEW read \in Position, NEW write \in Position,
         NEW n \in 0..Between(read, write)
  PROVE  /\ Advance(read, n) \in Position
         /\ Between(Advance(read, n), write) = Between(read, write) - n
  BY SizesAssumption DEF Advance, Between, Position, Size

LEMMA WriteAdvances ==
  ASSUME NEW read \in Position, NEW write \in Position,
         NEW n \in Nat, Between(read, write) + n <= Capacity
  PROVE  /\ Advance(write, n) \in Position
         /\ Between(read, Advance(write, n)) = Between(read, write) + n
  BY SizesAssumption DEF Advance, Between, Position, Size

(* Slots at successive distances from a position compose. *)
LEMMA AdvanceTwice ==
  ASSUME NEW pos \in Position, NEW m \in 0..Capacity, NEW n \in Nat, m + n <= Capacity
  PROVE  Advance(Advance(pos, m), n) = Advance(pos, m + n)
  BY SizesAssumption DEF Advance, Position, Size

LEMMA BetweenAdvance ==
  ASSUME NEW pos \in Position, NEW n \in 0..Capacity
  PROVE  Between(pos, Advance(pos, n)) = n
  BY SizesAssumption DEF Advance, Between, Position, Size

LEMMA DistanceFromWrite ==
  ASSUME NEW read \in Position, NEW write \in Position, NEW d \in 0..Capacity
  PROVE  Between(write, Advance(read, d)) =
           IF d >= Between(read, write) THEN d - Between(read, write)
           ELSE Size - (Between(read, write) - d)
  BY SizesAssumption DEF Advance, Between, Position, Size

-----------------------------------------------------------------------------
Counts == [{"dropped", "trimmed", "cleared", "heard"} -> Nat]

Typed ==
  /\ buf \in [Position -> Nat]
  /\ write_pos \in Position /\ read_pos \in Position
  /\ produced \in Nat /\ Used <= produced
  /\ lost \in Counts

(* The inductive invariant.  Contiguous needs the bound on Used, since a   *)
(* batch is placed at a distance from the write position, and the bound    *)
(* needs the evenness of Used, since the queue is cut by whole frames.     *)
IInv ==
  /\ Typed
  /\ LatencyBound
  /\ Used % 2 = 0
  /\ Contiguous
  /\ Ledger

LEMMA InitIInv == Init => IInv
<1> SUFFICES ASSUME Init PROVE IInv
  OBVIOUS
<1> USE SizesAssumption DEF Init
<1>1. Used = 0
  BY DEF Used, Between
<1>2. Typed
  BY <1>1 DEF Typed, Position, Counts
<1>3. LatencyBound /\ Used % 2 = 0
  BY <1>1 DEF LatencyBound
<1>4. Contiguous
  BY <1>1 DEF Contiguous
<1>5. Ledger
  BY <1>1 DEF Ledger
<1> QED
  BY <1>2, <1>3, <1>4, <1>5 DEF IInv

-----------------------------------------------------------------------------
(* A step that takes n samples from the old end of an unchanged ring.      *)
LEMMA TakeKeeps ==
  ASSUME Typed, LatencyBound, Contiguous, Used % 2 = 0,
         NEW n \in 0..Used, n % 2 = 0,
         UNCHANGED <<buf, write_pos, produced>>,
         read_pos' = Advance(read_pos, n), available' = Used - n,
         lost' \in Counts
  PROVE  /\ Typed' /\ LatencyBound' /\ Contiguous' /\ (Used % 2 = 0)'
         /\ Used' = Used - n
<1>1. Used \in 0..Capacity
  BY BetweenInRange DEF Typed, Used
<1>2. read_pos' \in Position /\ Used' = Used - n
  BY ReadAdvances DEF Typed, Used
<1>3. Typed'
  BY <1>1, <1>2 DEF Typed
<1>4. LatencyBound' /\ (Used % 2 = 0)'
  BY <1>1, <1>2, SizesAssumption DEF LatencyBound
<1>5. ASSUME NEW i \in 0..Capacity, i < Used'
      PROVE  buf'[Advance(read_pos', i)] = produced' - Used' + i + 1
  <2>1. n + i \in 0..Capacity /\ n + i < Used /\ n \in 0..Capacity /\ i \in Nat
    BY <1>1, <1>2, <1>5, SizesAssumption
  <2>2. Advance(read_pos', i) = Advance(read_pos, n + i)
    BY <2>1, AdvanceTwice DEF Typed
  <2>3. buf[Advance(read_pos, n + i)] = produced - Used + (n + i) + 1
    BY <2>1 DEF Contiguous
  <2> QED
    BY <1>1, <1>2, <2>1, <2>2, <2>3 DEF Typed
<1>6. Contiguous'
  BY <1>5 DEF Contiguous
<1> QED
  BY <1>2, <1>3, <1>4, <1>6

LEMMA EvenIsEven ==
  ASSUME NEW n \in Nat
  PROVE  Even(n) \in 0..n /\ Even(n) % 2 = 0
  BY DEF Even

(* try_read_samples() takes trimmed + count samples, or nothing at all.    *)
LEMMA ReadIInv ==
  ASSUME IInv, NEW request \in Frames, NEW trim \in Frames, Read(request, trim)
  PROVE  IInv' /\ produced' = produced /\ Used' <= Used
<1> DEFINE whole == Even(Used)
           trimmed == Lesser(Even(trim), Excess(whole, request))
           count == Lesser(request, whole - trimmed)
<1>1. Used \in 0..Capacity /\ whole = Used
  BY BetweenInRange, SizesAssumption DEF IInv, Typed, Used, Even
<1>2. request \in Nat /\ request % 2 = 0 /\ trim \in Nat /\ trim % 2 = 0
  BY BoundsAssumption DEF Frames
<1>3. Even(trim) = trim
  BY <1>2 DEF Even
<1>4. trimmed \in 0..Used /\ trimmed % 2 = 0
  BY <1>1, <1>2, <1>3, SizesAssumption DEF IInv, Lesser, Excess
<1>5. count \in 0..(Used - trimmed) /\ count % 2 = 0
  BY <1>1, <1>2, <1>4, SizesAssumption DEF IInv, Lesser
<1>6. CASE count = 0
  <2>1. UNCHANGED <<ring, produced, lost>>
    BY <1>6 DEF Read, history
  <2>2. Used' = Used
    BY <2>1 DEF ring, Used
  <2> QED
    BY <1>1, <2>1, <2>2, SizesAssumption DEF IInv, ring, Typed, LatencyBound, Contiguous, Ledger
<1>7. CASE count # 0
  <2> DEFINE n == trimmed + count
  <2> HIDE DEF trimmed, count
  <2>1. n \in 0..Used /\ n % 2 = 0 /\ trimmed \in 0..Capacity /\ count \in Nat
        /\ trimmed + count <= Capacity
    BY <1>1, <1>4, <1>5, SizesAssumption
  <2>2. /\ read_pos' = Advance(Advance(read_pos, trimmed), count)
        /\ available' = Used - trimmed - count
        /\ lost' = [lost EXCEPT !.trimmed = @ + trimmed, !.heard = @ + count]
        /\ UNCHANGED <<buf, write_pos, produced>>
    BY <1>7 DEF Read, trimmed, count
  <2>3. read_pos' = Advance(read_pos, n)
    BY <2>1, <2>2, AdvanceTwice DEF IInv, Typed
  <2>4. available' = Used - n
    BY <1>1, <1>4, <1>5, <2>2, SizesAssumption
  <2>5. lost' \in Counts
    <3>1. lost \in Counts /\ trimmed \in Nat /\ count \in Nat
      BY <1>1, <1>4, <1>5, <2>1, SizesAssumption DEF IInv, Typed
    <3>2. lost.trimmed + trimmed \in Nat /\ lost.heard + count \in Nat
      BY <3>1 DEF Counts
    <3> QED
      BY <2>2, <3>1, <3>2 DEF Counts
  <2>6. /\ Typed' /\ LatencyBound' /\ Contiguous' /\ (Used % 2 = 0)'
        /\ Used' = Used - n
    <3> HIDE DEF n
    <3> QED
      BY <2>1, <2>2, <2>3, <2>4, <2>5, TakeKeeps DEF IInv
  <2>7. Ledger'
    BY <1>1, <1>4, <1>5, <2>2, <2>6, SizesAssumption DEF IInv, Typed, Ledger, Counts
  <2>8. Used' <= Used
    BY <1>1, <2>1, <2>6, SizesAssumption
  <2> QED
    BY <2>2, <2>6, <2>7, <2>8 DEF IInv
<1> QED
  BY <1>6, <1>7

(* try_read_history_samples() takes the drained samples.                   *)
LEMMA ReadHistoryIInv ==
  ASSUME IInv, NEW request \in Frames, NEW drain \in Frames,
         ReadHistory(request, drain)
  PROVE  IInv' /\ produced' = produced /\ Used' <= Used
<1> DEFINE drained == Lesser(Even(drain), Even(Used))
<1>1. Used \in 0..Capacity /\ Even(Used) = Used
  BY BetweenInRange, SizesAssumption DEF IInv, Typed, Used, Even
<1>2. drain \in Nat /\ drain % 2 = 0 /\ Even(drain) = drain
  BY BoundsAssumption DEF Frames, Even
<1>3. drained \in 0..Used /\ drained % 2 = 0
  BY <1>1, <1>2, SizesAssumption DEF IInv, Lesser
<1>4. /\ read_pos' = Advance(read_pos, drained)
      /\ available' = Used - drained
      /\ lost' = [lost EXCEPT !.heard = @ + drained]
      /\ UNCHANGED <<buf, write_pos, produced>>
  BY DEF ReadHistory
<1> HIDE DEF drained
<1>5. lost' \in Counts
  BY <1>1, <1>3, <1>4, SizesAssumption DEF IInv, Typed, Counts
<1>6. /\ Typed' /\ LatencyBound' /\ Contiguous' /\ (Used % 2 = 0)'
      /\ Used' = Used - drained
  BY <1>3, <1>4, <1>5, TakeKeeps DEF IInv
<1>7. Ledger'
  BY <1>1, <1>3, <1>4, <1>6, SizesAssumption DEF IInv, Typed, Ledger, Counts
<1>8. Used' <= Used
  BY <1>1, <1>3, <1>6, SizesAssumption
<1> QED
  BY <1>4, <1>6, <1>7, <1>8 DEF IInv

LEMMA ClearIInv == IInv /\ Clear => IInv'
<1> SUFFICES ASSUME IInv, Clear PROVE IInv'
  OBVIOUS
<1> USE SizesAssumption
<1>1. Used' = 0 /\ Used \in 0..Capacity
  BY BetweenInRange DEF Clear, Used, Between, IInv, Typed
<1>2. Typed'
  <2>1. lost \in Counts /\ lost.cleared + Used \in Nat
    BY <1>1 DEF IInv, Typed, Counts
  <2>2. lost' \in Counts
    BY <2>1 DEF Clear, Counts
  <2>3. 0 \in Position /\ Used' <= produced
    BY <1>1 DEF Position, IInv, Typed
  <2> QED
    BY <2>2, <2>3 DEF IInv, Typed, Clear
<1>3. LatencyBound' /\ (Used % 2 = 0)'
  BY <1>1 DEF LatencyBound, Clear
<1>4. Contiguous'
  BY <1>1 DEF Contiguous
<1>5. Ledger'
  BY SMTT(20), <1>1 DEF IInv, Typed, Ledger, Clear, Counts
<1> QED
  BY <1>2, <1>3, <1>4, <1>5 DEF IInv

-----------------------------------------------------------------------------
(* push_samples_bounded().  The batch is written behind the samples that   *)
(* are kept; `room` and `cut` only move the read position.                 *)
LEMMA PushIInv ==
  ASSUME IInv, NEW n \in Frames, Push(n)
  PROVE  IInv' /\ Used' = IF Used + n > MaxSamples THEN TargetSamples ELSE Used + n
<1> DEFINE skipped == Excess(n, Capacity)
           count == n - skipped
           room == Excess(Used + count, Capacity)
           write == Advance(write_pos, count)
           read == Advance(read_pos, room)
           after == Between(read, write)
           cut == IF Used + n > MaxSamples THEN Excess(after, TargetSamples) ELSE 0
<1> USE SizesAssumption
<1>1. Used \in 0..Capacity /\ Used <= MaxSamples /\ Used % 2 = 0
  BY BetweenInRange DEF IInv, Typed, Used, LatencyBound
<1>2. n \in Nat /\ n % 2 = 0 /\ n > 0
  BY BoundsAssumption DEF Frames, Push
<1>3. /\ skipped \in 0..n /\ count \in 0..Capacity /\ count + skipped = n
      /\ skipped > 0 => count = Capacity
  BY <1>2 DEF Excess
<1>4. /\ room \in 0..Used /\ Used - room + count <= Capacity
      /\ skipped > 0 => room = Used
  BY <1>1, <1>3 DEF Excess
<1>5. /\ buf' = [p \in Position |->
                  IF Between(write_pos, p) < count
                  THEN produced + skipped + Between(write_pos, p) + 1 ELSE buf[p]]
      /\ write_pos' = write
      /\ read_pos' = Advance(read, cut)
      /\ available' = after - cut
      /\ produced' = produced + n
      /\ lost' = [lost EXCEPT !.dropped = @ + skipped + room + cut]
  BY DEF Push
<1> HIDE DEF skipped, count, room
<1>6. read \in Position /\ Between(read, write_pos) = Used - room
  BY <1>4, ReadAdvances DEF IInv, Typed, Used
<1>7. write \in Position /\ after = Used - room + count
  BY <1>3, <1>4, <1>6, WriteAdvances DEF IInv, Typed
<1> HIDE DEF read, write, after
<1>8. cut \in 0..after /\ after \in 0..Capacity
  BY <1>1, <1>3, <1>4, <1>7 DEF Excess
<1>9. after - cut = IF Used + n > MaxSamples THEN TargetSamples ELSE Used + n
  BY <1>1, <1>2, <1>3, <1>4, <1>7 DEF Excess, room, skipped
<1>a. after - cut \in 0..Capacity /\ after - cut <= MaxSamples
      /\ after - cut <= Used + n
  BY <1>1, <1>2, <1>3, <1>4, <1>7, <1>8, <1>9
<1>b. (after - cut) % 2 = 0
  <2>1. (Used + n) % 2 = 0
    BY <1>1, <1>2
  <2> QED
    BY <2>1, <1>9
<1> HIDE DEF cut
<1>10. read_pos' \in Position /\ write_pos' \in Position /\ Used' = after - cut
  BY <1>5, <1>6, <1>7, <1>8, ReadAdvances DEF Used, after
<1>11. LatencyBound' /\ (Used % 2 = 0)'
  <2>1. available' = after - cut
    BY <1>5
  <2> QED
    BY <2>1, <1>a, <1>b, <1>10 DEF LatencyBound
<1>12. Typed'
  <2>1. produced \in Nat /\ Used <= produced /\ buf \in [Position -> Nat] /\ lost \in Counts
    BY DEF IInv, Typed
  <2>2. produced' \in Nat /\ Used' <= produced'
    <3>1. produced' = produced + n
      BY <1>5
    <3> QED
      BY <2>1, <3>1, <1>1, <1>2, <1>a, <1>10
  <2>3. ASSUME NEW p \in Position, Between(write_pos, p) < count
        PROVE  produced + skipped + Between(write_pos, p) + 1 \in Nat
    BY <2>1, <2>3, <1>3, BetweenInRange DEF IInv, Typed
  <2>4. buf' \in [Position -> Nat]
    BY <2>1, <2>3, <1>5
  <2>5. lost.dropped + skipped + room + cut \in Nat
    BY <2>1, <1>1, <1>3, <1>4, <1>8 DEF Counts
  <2>6. lost' \in Counts
    BY <2>1, <2>5, <1>5 DEF Counts
  <2> QED
    BY <2>2, <2>4, <2>6, <1>10 DEF Typed
<1>13. ASSUME NEW i \in 0..Capacity, i < Used'
       PROVE  buf'[Advance(read_pos', i)] = produced' - Used' + i + 1
  <2> DEFINE d == cut + i
             slot == Advance(read, d)
  <2>1. d \in 0..Capacity /\ d < after
    BY <1>8, <1>10, <1>13
  <2>2. Advance(read_pos', i) = slot /\ slot \in Position
    BY <1>5, <1>6, <1>8, <1>13, <2>1, AdvanceTwice, AdvanceInRange DEF Size
  <2>3. Between(write_pos, slot) =
          IF d >= Used - room THEN d - (Used - room) ELSE Size - (Used - room - d)
    BY <1>6, <2>1, DistanceFromWrite DEF IInv, Typed
  <2>4. produced' - Used' + i + 1 = produced + n - after + d + 1 /\ produced \in Nat
    BY <1>2, <1>5, <1>8, <1>10, <1>13 DEF IInv, Typed
  <2> HIDE DEF slot
  <2>5. CASE d >= Used - room
    <3>1. Between(write_pos, slot) = d - (Used - room) /\ d - (Used - room) < count
      BY <1>1, <1>3, <1>4, <1>7, <2>1, <2>3, <2>5
    <3>2. buf'[slot] = produced + skipped + (d - (Used - room)) + 1
      BY <1>5, <2>2, <3>1
    <3> HIDE DEF d
    <3> QED
      BY <1>1, <1>2, <1>3, <1>4, <1>7, <2>1, <2>2, <2>4, <3>2
  <2>6. CASE d < Used - room
    <3>1. skipped = 0 /\ count = n
      BY <1>1, <1>3, <1>4, <2>1, <2>6
    <3>2. ~(Between(write_pos, slot) < count)
      BY <1>1, <1>3, <1>4, <1>7, <2>1, <2>3, <2>6 DEF Size
    <3>3. buf'[slot] = buf[slot]
      BY <1>5, <2>2, <3>2
    <3>4. slot = Advance(read_pos, room + d) /\ room + d \in 0..Capacity /\ room + d < Used
      BY <1>1, <1>4, <2>1, <2>6, AdvanceTwice DEF slot, read, IInv, Typed
    <3>5. buf[slot] = produced - Used + (room + d) + 1
      BY <3>4 DEF IInv, Contiguous
    <3> HIDE DEF d
    <3> QED
      BY <1>1, <1>2, <1>3, <1>4, <1>7, <2>1, <2>2, <2>4, <3>1, <3>3, <3>5
  <2> QED
    BY <2>1, <2>5, <2>6, <1>1, <1>4
<1>14. Contiguous'
  BY <1>13 DEF Contiguous
<1>15. Ledger'
  <2>1. lost \in Counts /\ produced \in Nat /\ Ledger
    BY DEF IInv, Typed
  <2>2. /\ produced' = produced + n
        /\ lost' = [lost EXCEPT !.dropped = @ + skipped + room + cut]
    BY <1>5
  <2>3. /\ lost'.dropped = lost.dropped + skipped + room + cut
        /\ lost'.trimmed = lost.trimmed /\ lost'.cleared = lost.cleared
        /\ lost'.heard = lost.heard
        /\ lost.dropped \in Nat /\ lost.trimmed \in Nat
        /\ lost.cleared \in Nat /\ lost.heard \in Nat
    BY <2>1, <2>2 DEF Counts
  <2> QED
    <3>1. Used' = Used - room + count - cut
      BY <1>1, <1>3, <1>4, <1>7, <1>8, <1>10
    <3>2. produced' = produced + n /\ n = count + skipped
      BY <1>2, <1>3, <2>2
    <3>3. /\ produced = lost.dropped + lost.trimmed + lost.cleared + lost.heard + Used
          /\ count \in Nat /\ skipped \in Nat /\ room \in Nat /\ cut \in Nat /\ Used \in Nat
      BY <2>1, <1>1, <1>2, <1>3, <1>4, <1>8 DEF Ledger
    <3>4. produced' = lost'.dropped + lost'.trimmed + lost'.cleared + lost'.heard + Used'
      BY <2>3, <3>1, <3>2, <3>3
    <3> QED
      BY <3>4 DEF Ledger
<1> QED
  BY <1>9, <1>10, <1>11, <1>12, <1>14, <1>15 DEF IInv

-----------------------------------------------------------------------------
LEMMA Inductive == IInv /\ [Next]_vars => IInv'
<1> SUFFICES ASSUME IInv, [Next]_vars PROVE IInv'
  OBVIOUS
<1>1. ASSUME NEW n \in Frames, Push(n) PROVE IInv'
  BY <1>1, PushIInv
<1>2. ASSUME NEW request \in Frames, NEW trim \in Frames, Read(request, trim)
      PROVE  IInv'
  BY <1>2, ReadIInv
<1>3. ASSUME NEW request \in Frames, NEW drain \in {0, request},
             ReadHistory(request, drain)
      PROVE  IInv'
  <2>1. drain \in Frames
    BY BoundsAssumption DEF Frames
  <2> QED
    BY <1>3, <2>1, ReadHistoryIInv
<1>4. CASE Clear
  BY <1>4, ClearIInv
<1>5. CASE UNCHANGED vars
  BY <1>5 DEF vars, ring, IInv, Typed, LatencyBound, Contiguous, Ledger, Used
<1> QED
  BY <1>1, <1>2, <1>3, <1>4, <1>5 DEF Next

LEMMA SpecIInv == Spec => []IInv
  BY InitIInv, Inductive, PTL DEF Spec

(* The queue never holds more than max_samples after a push, whatever the  *)
(* size of the batch, and the count published to the callback is exact.    *)
THEOREM LatencyBounded == Spec => []LatencyBound
<1>1. IInv => LatencyBound
  BY DEF IInv
<1> QED
  BY <1>1, SpecIInv, PTL

(* The unread samples are always the newest ones, in production order,     *)
(* across every wrap of the ring: append_samples_locked() writes and       *)
(* discard_oldest_locked() skips exactly the right slots.                  *)
THEOREM QueueIsContiguous == Spec => []Contiguous
<1>1. IInv => Contiguous
  BY DEF IInv
<1> QED
  BY <1>1, SpecIInv, PTL

(* The SPU's drop, trim, reset and playback counters account for every     *)
(* sample it produced exactly once.                                        *)
THEOREM LedgerBalances == Spec => []Ledger
<1>1. IInv => Ledger
  BY DEF IInv
<1> QED
  BY <1>1, SpecIInv, PTL

-----------------------------------------------------------------------------
(* What the callback plays.  Past is the number of the newest sample that  *)
(* has left the queue; the history and the callback's samples are no newer.*)
Past == produced - Used

(* Every filled slot of the history holds a sample that has left the queue,*)
(* the left samples in the even slots, and the filled slots come first.    *)
Sound(data, write, valid, past) ==
  /\ data \in [0..History-1 -> Nat]
  /\ write \in 0..History-1 /\ valid \in 0..History
  /\ valid < History => write = valid
  /\ \A p \in 0..History-1 :
       p < valid => data[p] \in 1..past /\ data[p] % 2 = (p + 1) % 2

HistoryInv ==
  /\ Sound(hist, hist_write, hist_valid, Past)
  /\ hist_write % 2 = 0 /\ hist_valid % 2 = 0

(* A latched loop covers filled slots only, whole frames of them.          *)
LoopInv ==
  /\ loop \in [active : BOOLEAN, start : Nat, length : Nat, offset : Nat]
  /\ loop.active =>
       /\ loop.length >= 2 /\ loop.length % 2 = 0 /\ loop.length <= hist_valid
       /\ loop.start % 2 = 0 /\ loop.offset % 2 = 0
       /\ loop.start = 0 \/ hist_valid = History

OutInv ==
  /\ out \in Seq(Nat)
  /\ \A i \in 1..Len(out) : out[i] \in 1..Past /\ out[i] % 2 = i % 2

PlayInv == IInv /\ Past % 2 = 0 /\ HistoryInv /\ LoopInv /\ OutInv

(* A chunk that goes on where the history stands: its samples have left    *)
(* the queue and continue the alternation of the channels.                 *)
Follows(chunk, n, write, past) ==
  /\ chunk \in [1..n -> Nat]
  /\ \A i \in 1..n : chunk[i] \in 1..past /\ chunk[i] % 2 = (write + i) % 2

(* Wrapping round a buffer of even size keeps the channel.                 *)
LEMMA WrapParity ==
  ASSUME NEW a \in Nat, NEW M \in Nat, M > 0, M % 2 = 0
  PROVE  (a % M) % 2 = a % 2 /\ (a % M) \in 0..M-1
<1>1. PICK q \in Nat : a = q * M + (a % M)
  <2>1. a \div M \in Nat /\ a = M * (a \div M) + (a % M)
    OBVIOUS
  <2> DEFINE d == a \div M
  <2>2. d \in Nat /\ a = M * d + (a % M)
    BY <2>1
  <2> HIDE DEF d
  <2>3. M * d = d * M
    BY <2>2
  <2> QED
    BY <2>2, <2>3
<1>2. PICK k \in Nat : M = 2 * k
  OBVIOUS
<1>3. a % M \in 0..M-1
  OBVIOUS
<1> DEFINE r == a % M
<1>4. r \in Nat
  BY <1>3
<1> HIDE DEF r
<1>5. a = q * (2 * k) + r
  BY <1>1, <1>2 DEF r
<1>6. q * (2 * k) = 2 * (q * k) /\ q * k \in Nat
  OBVIOUS
<1>7. (2 * (q * k) + r) % 2 = r % 2
  <2> DEFINE m == q * k
  <2> HIDE DEF m
  <2>1. m \in Nat
    BY <1>6 DEF m
  <2>2. (2 * m + r) % 2 = r % 2
    BY <2>1, <1>4
  <2> QED
    BY <2>2 DEF m
<1> QED
  BY <1>3, <1>5, <1>6, <1>7 DEF r

(* history_push() keeps the history sound, unless an odd chunk replaces it *)
(* all, and moves its write position by the length of the chunk.           *)
LEMMA PushedSound ==
  ASSUME NEW h, NEW past \in Nat, NEW n \in Nat, NEW chunk,
         Sound(h.data, h.write, h.valid, past),
         Follows(chunk, n, h.write, past),
         n >= History => (h.write + n) % 2 = 0,
         NEW H, H = Pushed(h, chunk)
  PROVE  /\ Sound(H.data, H.write, H.valid, past)
         /\ H.write % 2 = (h.write + n) % 2
         /\ H.valid = Lesser(h.valid + n, History)
<1> USE HistoryAssumption
<1>1. Len(chunk) = n
  BY DEF Follows
<1>2. h.write \in 0..History-1 /\ h.valid \in 0..History /\ h.write \in Nat /\ h.valid \in Nat
  BY DEF Sound
<1>3. CASE n >= History
  <2>1. H = [data |-> [p \in 0..History-1 |-> chunk[n - History + p + 1]],
             write |-> 0, valid |-> History]
    BY <1>1, <1>3 DEF Pushed
  <2>2. /\ H.data = [p \in 0..History-1 |-> chunk[n - History + p + 1]]
        /\ H.write = 0 /\ H.valid = History
    BY <2>1
  <2>3. ASSUME NEW p \in 0..History-1
        PROVE  H.data[p] \in 1..past /\ H.data[p] % 2 = (p + 1) % 2
    <3> DEFINE i == n - History + p + 1
    <3>1. i \in 1..n /\ H.data[p] = chunk[i]
      BY <1>3, <2>2
    <3>2. chunk[i] \in 1..past /\ chunk[i] % 2 = (h.write + i) % 2
      BY <3>1 DEF Follows
    <3>3. (h.write + i) % 2 = (p + 1) % 2
      BY <1>2, <1>3
    <3> QED
      BY <3>1, <3>2, <3>3
  <2>4. H.data \in [0..History-1 -> Nat]
    <3>1. ASSUME NEW p \in 0..History-1 PROVE H.data[p] \in Nat
      BY <2>3
    <3> QED
      BY <2>2, <3>1
  <2>5. Sound(H.data, H.write, H.valid, past)
    <3>1. H.write = 0 /\ H.valid = History
      BY <2>2
    <3>2. H.write \in 0..History-1 /\ H.valid \in 0..History
      BY <3>1
    <3> QED
      BY <2>3, <2>4, <3>1, <3>2 DEF Sound
  <2>6. H.write % 2 = (h.write + n) % 2
    BY <1>2, <1>3, <2>2
  <2>7. H.valid = Lesser(h.valid + n, History)
    BY <1>2, <1>3, <2>2 DEF Lesser
  <2> QED
    BY <2>5, <2>6, <2>7
<1>4. CASE n < History
  <2> DEFINE slot(i) == (h.write + i - 1) % History
  <2>1. H = [data |-> [p \in 0..History-1 |->
                        IF \E i \in 1..n : slot(i) = p
                        THEN chunk[CHOOSE i \in 1..n : slot(i) = p] ELSE h.data[p]],
             write |-> (h.write + n) % History,
             valid |-> Lesser(h.valid + n, History)]
    <3>1. ~(n >= History)
      BY <1>2, <1>4, SizesAssumption
    <3> QED
      BY <1>1, <3>1 DEF Pushed
  <2>2. /\ H.data = [p \in 0..History-1 |->
                        IF \E i \in 1..n : slot(i) = p
                        THEN chunk[CHOOSE i \in 1..n : slot(i) = p] ELSE h.data[p]]
        /\ H.write = (h.write + n) % History
        /\ H.valid = Lesser(h.valid + n, History)
    BY <2>1
  <2>3. ASSUME NEW i \in 1..n
        PROVE  slot(i) \in 0..History-1 /\ (slot(i) + 1) % 2 = (h.write + i) % 2
    <3> DEFINE a == h.write + i - 1
    <3>1. a \in Nat /\ h.write + i = a + 1
      BY <1>2
    <3> HIDE DEF a
    <3>2. (a % History) % 2 = a % 2 /\ (a % History) \in 0..History-1
      BY <3>1, WrapParity
    <3> DEFINE r == a % History
    <3>3. r \in Nat /\ r % 2 = a % 2
      BY <3>2
    <3> HIDE DEF r
    <3>4. (r + 1) % 2 = (a + 1) % 2
      BY <3>1, <3>3
    <3> QED
      BY <3>1, <3>2, <3>4 DEF r, a
  <2> HIDE DEF slot
  <2>4. ASSUME NEW p \in 0..History-1, \E i \in 1..n : slot(i) = p
        PROVE  H.data[p] \in 1..past /\ H.data[p] % 2 = (p + 1) % 2
    <3> DEFINE i == CHOOSE j \in 1..n : slot(j) = p
    <3>1. i \in 1..n /\ slot(i) = p
      BY <2>4
    <3>2. H.data[p] = chunk[i]
      BY <2>2, <2>4
    <3> HIDE DEF i
    <3> QED
      BY <2>3, <3>1, <3>2 DEF Follows
  <2>5. ASSUME NEW p \in 0..History-1, ~(\E i \in 1..n : slot(i) = p)
        PROVE  H.data[p] = h.data[p]
    BY <2>2, <2>5
  <2>6. H.data \in [0..History-1 -> Nat]
    <3>1. ASSUME NEW p \in 0..History-1 PROVE H.data[p] \in Nat
      <4>1. CASE \E i \in 1..n : slot(i) = p
        <5>1. H.data[p] \in 1..past
          BY <2>4, <4>1
        <5> QED
          BY <5>1
      <4>2. CASE ~(\E i \in 1..n : slot(i) = p)
        <5>1. H.data[p] = h.data[p]
          BY <2>5, <4>2
        <5> QED
          BY <5>1 DEF Sound
      <4> QED
        BY <4>1, <4>2
    <3> QED
      BY <2>2, <3>1
  <2>7. ASSUME NEW p \in 0..History-1, p < H.valid
        PROVE  H.data[p] \in 1..past /\ H.data[p] % 2 = (p + 1) % 2
    <3>1. CASE p < h.valid
      BY <2>4, <2>5, <3>1 DEF Sound
    <3>2. CASE p >= h.valid
      <4> DEFINE i == p - h.valid + 1
      <4>1. h.write = h.valid /\ i \in 1..n /\ h.write + i - 1 = p
        <5>1. h.valid \in Nat /\ H.valid = Lesser(h.valid + n, History)
          BY <2>2 DEF Sound
        <5>2. p \in Nat /\ h.valid < History
          BY <2>7, <3>2, <5>1
        <5>3. h.write = h.valid
          BY <5>2 DEF Sound
        <5>4. p < h.valid + n
          BY <1>2, <2>7, <5>1, <5>2 DEF Lesser
        <5> QED
          BY <1>2, <3>2, <5>1, <5>2, <5>3, <5>4
      <4>2. slot(i) = p
        BY <4>1 DEF slot
      <4> HIDE DEF i
      <4> QED
        BY <2>4, <4>1, <4>2
    <3> QED
      BY <1>2, <3>1, <3>2
  <2>8. H.write \in 0..History-1 /\ H.write % 2 = (h.write + n) % 2
    <3> DEFINE a == h.write + n
    <3>1. a \in Nat
      BY <1>2
    <3>2. H.write = (a % History)
      BY <2>2
    <3> HIDE DEF a
    <3>3. (a % History) % 2 = a % 2 /\ (a % History) \in 0..History-1
      BY <3>1, WrapParity
    <3> QED
      BY <3>2, <3>3 DEF a
  <2>9. H.valid \in 0..History /\ (H.valid < History => H.write = H.valid)
    <3>1. H.valid \in 0..History
      BY <1>2, <2>2 DEF Lesser
    <3>2. ASSUME H.valid < History PROVE H.write = H.valid
      <4>1. h.valid + n < History /\ H.valid = h.valid + n /\ h.write = h.valid
        BY <1>2, <2>2, <3>2 DEF Lesser, Sound
      <4>2. (h.valid + n) % History = h.valid + n
        BY <1>2, <4>1
      <4> QED
        BY <2>2, <4>1, <4>2
    <3> QED
      BY <3>1, <3>2
  <2> QED
    BY <2>2, <2>6, <2>7, <2>8, <2>9 DEF Sound
<1> QED
  BY <1>2, <1>3, <1>4

LEMMA SoundLater ==
  ASSUME NEW data, NEW write, NEW valid, NEW past \in Nat, NEW later \in Nat,
         past <= later, Sound(data, write, valid, past)
  PROVE  Sound(data, write, valid, later)
<1>1. ASSUME NEW p \in 0..History-1, p < valid
      PROVE  data[p] \in 1..later /\ data[p] % 2 = (p + 1) % 2
  BY <1>1 DEF Sound
<1> QED
  BY <1>1 DEF Sound

(* Two chunks that make up whole frames, pushed one after the other, as a  *)
(* drain across the wrap of the ring does.                                 *)
LEMMA RememberSound ==
  ASSUME NEW past \in Nat, NEW m \in Nat, NEW n \in Nat, NEW first, NEW second,
         Sound(hist, hist_write, hist_valid, past),
         hist_write % 2 = 0, hist_valid % 2 = 0,
         Follows(first, m, 0, past), Follows(second, n, m, past),
         (m + n) % 2 = 0, m >= History => m % 2 = 0,
         Remember(first, second)
  PROVE  /\ Sound(hist', hist_write', hist_valid', past)
         /\ hist_write' % 2 = 0 /\ hist_valid' % 2 = 0
         /\ hist_valid' >= hist_valid
<1> USE HistoryAssumption
<1> DEFINE now == [data |-> hist, write |-> hist_write, valid |-> hist_valid]
           one == Pushed(now, first)
           two == Pushed(one, second)
<1>1. hist' = two.data /\ hist_write' = two.write /\ hist_valid' = two.valid
  BY DEF Remember
<1>2. now.data = hist /\ now.write = hist_write /\ now.valid = hist_valid
  OBVIOUS
<1>3. hist_write \in 0..History-1 /\ hist_valid \in 0..History
  BY DEF Sound
<1>4. Follows(first, m, now.write, past)
  <2>1. ASSUME NEW i \in 1..m PROVE (hist_write + i) % 2 = (0 + i) % 2
    BY <1>3
  <2> QED
    BY <1>2, <2>1 DEF Follows
<1> HIDE DEF now
<1>5. m >= History => (now.write + m) % 2 = 0
  BY <1>2, <1>3
<1>6. Sound(now.data, now.write, now.valid, past)
  BY <1>2
<1>7. /\ Sound(one.data, one.write, one.valid, past)
      /\ one.write % 2 = (now.write + m) % 2
      /\ one.valid = Lesser(now.valid + m, History)
  BY <1>4, <1>5, <1>6, PushedSound
<1>8. one.write \in 0..History-1 /\ one.valid \in 0..History
  BY <1>7 DEF Sound
<1> HIDE DEF one
<1>9. one.write % 2 = m % 2
  BY <1>2, <1>3, <1>7
<1>10. Follows(second, n, one.write, past)
  <2>1. ASSUME NEW i \in 1..n PROVE (one.write + i) % 2 = (m + i) % 2
    BY <1>8, <1>9
  <2> QED
    BY <2>1 DEF Follows
<1>11. (one.write + n) % 2 = 0
  BY <1>8, <1>9
<1>12. /\ Sound(two.data, two.write, two.valid, past)
       /\ two.write % 2 = (one.write + n) % 2
       /\ two.valid = Lesser(one.valid + n, History)
  BY <1>7, <1>10, <1>11, PushedSound DEF two
<1>13. two.valid % 2 = 0 /\ two.valid >= hist_valid
  BY <1>2, <1>3, <1>7, <1>8, <1>12 DEF Lesser
<1> QED
  BY <1>1, <1>11, <1>12, <1>13

(* The samples copied from the ring are those that the queue holds there.  *)
LEMMA CopyFollows ==
  ASSUME IInv, Past % 2 = 0, NEW k \in Nat, NEW n \in Nat, k + n <= Used
  PROVE  /\ Copy(Advance(read_pos, k), n) = [i \in 1..n |-> Past + k + i]
         /\ \A later \in Nat : Past + k + n <= later =>
              Follows(Copy(Advance(read_pos, k), n), n, k, later)
<1>1. Used \in 0..Capacity /\ Past \in Nat /\ read_pos \in Position
  BY BetweenInRange DEF IInv, Typed, Used, Past
<1>2. ASSUME NEW i \in 1..n
      PROVE  buf[Advance(Advance(read_pos, k), i - 1)] = Past + k + i
  <2>1. k \in 0..Capacity /\ i - 1 \in Nat /\ k + (i - 1) <= Capacity
        /\ k + (i - 1) \in 0..Capacity /\ k + (i - 1) < Used
    BY <1>1, SizesAssumption
  <2>2. Advance(Advance(read_pos, k), i - 1) = Advance(read_pos, k + (i - 1))
    BY <1>1, <2>1, AdvanceTwice
  <2>3. buf[Advance(read_pos, k + (i - 1))] = produced - Used + (k + (i - 1)) + 1
    BY <2>1 DEF IInv, Contiguous
  <2> QED
    BY <1>1, <2>2, <2>3 DEF Past, IInv, Typed
<1>3. Copy(Advance(read_pos, k), n) = [i \in 1..n |-> Past + k + i]
  BY <1>2 DEF Copy
<1> DEFINE copy == Copy(Advance(read_pos, k), n)
<1> HIDE DEF copy
<1>4. ASSUME NEW later \in Nat, Past + k + n <= later
      PROVE  Follows(copy, n, k, later)
  <2>1. copy \in [1..n -> Nat]
    BY <1>1, <1>3 DEF copy
  <2>2. ASSUME NEW i \in 1..n
        PROVE  copy[i] \in 1..later /\ copy[i] % 2 = (k + i) % 2
    <3>1. copy[i] = Past + k + i
      BY <1>3 DEF copy
    <3> QED
      BY <1>1, <1>4, <3>1
  <2> QED
    BY <2>1, <2>2 DEF Follows
<1> QED
  BY <1>3, <1>4 DEF copy

-----------------------------------------------------------------------------
LEMMA InitPlayInv == Init => PlayInv
<1> SUFFICES ASSUME Init PROVE PlayInv
  OBVIOUS
<1> USE HistoryAssumption DEF Init
<1>1. IInv
  BY InitIInv
<1>2. Past = 0
  BY DEF Past, Used, Between
<1>3. HistoryInv
  BY <1>2 DEF HistoryInv, Sound
<1>4. LoopInv
  BY DEF LoopInv, NoLoop
<1>5. OutInv
  BY DEF OutInv
<1> QED
  BY <1>1, <1>2, <1>3, <1>4, <1>5 DEF PlayInv

LEMMA PastIsNat ==
  ASSUME IInv
  PROVE  Past \in Nat /\ Used \in Nat /\ Used \in 0..Capacity /\ produced = Past + Used
  BY BetweenInRange, SizesAssumption DEF IInv, Typed, Used, Past

LEMMA Regrouped ==
  ASSUME NEW past \in Nat, NEW used \in Nat, NEW n \in Nat,
         NEW later \in Nat, NEW left \in Nat,
         later + left = past + used + n, left <= used + n,
         past % 2 = 0, used % 2 = 0, n % 2 = 0, left % 2 = 0
  PROVE  later % 2 = 0 /\ past <= later
<1>1. past <= later
  OBVIOUS
<1>2. (past + used + n) % 2 = 0
  <2>1. PICK i \in Nat : past = 2 * i
    OBVIOUS
  <2>2. PICK j \in Nat : used = 2 * j
    OBVIOUS
  <2>3. PICK k \in Nat : n = 2 * k
    OBVIOUS
  <2> QED
    BY <2>1, <2>2, <2>3
<1>3. later % 2 = 0
  <2>1. PICK i \in Nat : past + used + n = 2 * i
    BY <1>2
  <2>2. PICK j \in Nat : left = 2 * j
    OBVIOUS
  <2> QED
    BY <2>1, <2>2
<1> QED
  BY <1>1, <1>3

(* A push touches neither the history nor what was played, and no sample   *)
(* comes back to the queue.                                                *)
LEMMA PushPlayInv ==
  ASSUME PlayInv, NEW n \in Frames, Push(n)
  PROVE  PlayInv'
<1>1. IInv /\ IInv' /\ Used' <= Used + n
  <2>1. IInv /\ IInv' /\ Used' = IF Used + n > MaxSamples THEN TargetSamples ELSE Used + n
    BY PushIInv DEF PlayInv
  <2>2. Used \in Nat /\ n \in Nat
    BY <2>1, PastIsNat, BoundsAssumption DEF Frames
  <2> QED
    BY <2>1, <2>2, SizesAssumption
<1>2. /\ Past \in Nat /\ Used \in Nat /\ produced = Past + Used
      /\ Past' \in Nat /\ Used' \in Nat /\ produced' = Past' + Used'
  <2>1. (IInv => Past \in Nat /\ Used \in Nat /\ Used \in 0..Capacity
                  /\ produced = Past + Used)'
    BY PastIsNat, PTL
  <2> QED
    BY <1>1, <2>1, PastIsNat
<1>3. produced' = produced + n /\ n \in Nat /\ n % 2 = 0
  BY BoundsAssumption DEF Push, Frames
<1>4. Past % 2 = 0 /\ Used % 2 = 0 /\ Used' % 2 = 0
  BY <1>1 DEF PlayInv, IInv
<1>5. Past' % 2 = 0 /\ Past <= Past'
  <2>1. Past' + Used' = Past + Used + n
    BY <1>2, <1>3
  <2> QED
    BY <1>1, <1>2, <1>3, <1>4, <2>1, Regrouped
<1>6. UNCHANGED <<hist, hist_write, hist_valid, loop, out>>
  BY DEF Push, history
<1>7. HistoryInv'
  BY <1>2, <1>5, <1>6, SoundLater DEF HistoryInv, PlayInv
<1>8. LoopInv'
  BY <1>6 DEF LoopInv, PlayInv
<1>9. OutInv'
  <2>1. out \in Seq(Nat)
        /\ \A i \in 1..Len(out) : out[i] \in 1..Past /\ out[i] % 2 = i % 2
    BY DEF OutInv, PlayInv
  <2>2. \A i \in 1..Len(out) : out[i] \in 1..Past' /\ out[i] % 2 = i % 2
    BY <1>2, <1>5, <2>1
  <2> QED
    BY <1>6, <2>1, <2>2 DEF OutInv
<1> QED
  BY <1>1, <1>5, <1>7, <1>8, <1>9 DEF PlayInv

(* A reset empties the history and silences the callback.                  *)
LEMMA ClearPlayInv == PlayInv /\ Clear => PlayInv'
<1> SUFFICES ASSUME PlayInv, Clear PROVE PlayInv'
  OBVIOUS
<1>1. IInv'
  BY ClearIInv DEF PlayInv
<1>2. Used' = 0 /\ produced' = produced
  BY SizesAssumption DEF Clear, Used, Between
<1>3. Past \in Nat /\ Used \in Nat /\ produced = Past + Used /\ Past % 2 = 0
      /\ Used % 2 = 0
  BY PastIsNat DEF PlayInv, IInv
<1>4. Past' = Past + Used
  BY <1>2, <1>3 DEF Past
<1>5. Past' % 2 = 0
  BY <1>3, <1>4
<1>6. HistoryInv'
  BY HistoryAssumption DEF Clear, HistoryInv, Sound, PlayInv
<1>7. LoopInv'
  BY DEF Clear, LoopInv, NoLoop
<1>8. OutInv'
  BY DEF Clear, OutInv
<1> QED
  BY <1>1, <1>5, <1>6, <1>7, <1>8 DEF PlayInv

LEMMA NoneFollows ==
  ASSUME NEW write, NEW past
  PROVE  Follows(<<>>, 0, write, past)
  BY DEF Follows

(* What a read hands out, it also remembers, from the first sample it did  *)
(* not trim.                                                               *)
LEMMA ReadPlayInv ==
  ASSUME PlayInv, NEW request \in Frames, NEW trim \in Frames, Read(request, trim)
  PROVE  PlayInv'
<1> DEFINE whole == Even(Used)
           trimmed == Lesser(Even(trim), Excess(whole, request))
           count == Lesser(request, whole - trimmed)
           from == Advance(read_pos, trimmed)
<1>1. IInv /\ IInv'
  BY ReadIInv DEF PlayInv
<1>2. /\ Past \in Nat /\ Past % 2 = 0 /\ Used \in 0..Capacity /\ Used % 2 = 0
      /\ produced = Past + Used /\ whole = Used
  BY <1>1, PastIsNat DEF PlayInv, IInv, Even
<1>3. request \in Nat /\ request % 2 = 0 /\ trim \in Nat /\ trim % 2 = 0
      /\ Even(trim) = trim
  BY BoundsAssumption DEF Frames, Even
<1>4. trimmed \in 0..Used /\ trimmed % 2 = 0
  BY <1>2, <1>3 DEF Lesser, Excess
<1>5. count \in 0..(Used - trimmed) /\ count % 2 = 0
  BY <1>2, <1>3, <1>4 DEF Lesser
<1>6. CASE count = 0
  <2>1. out' = <<>>
        /\ UNCHANGED <<ring, hist, hist_write, hist_valid, loop, produced>>
    BY <1>6 DEF Read, history
  <2>2. Past' = Past
    BY <2>1 DEF Past, Used, ring
  <2>3. HistoryInv' /\ LoopInv'
    BY <2>1, <2>2 DEF PlayInv, HistoryInv, LoopInv
  <2>4. OutInv'
    BY <2>1 DEF OutInv
  <2> QED
    BY <1>1, <1>2, <2>2, <2>3, <2>4 DEF PlayInv
<1>7. CASE count # 0
  <2>1. /\ out' = Copy(from, count)
        /\ read_pos' = Advance(from, count)
        /\ Remember(<<>>, Copy(from, count))
        /\ loop' = [loop EXCEPT !.active = FALSE]
        /\ UNCHANGED <<buf, write_pos, produced>>
    BY <1>7 DEF Read
  <2> HIDE DEF trimmed, count
  <2> DEFINE later == Past + trimmed + count
  <2>2. trimmed \in Nat /\ count \in Nat /\ trimmed + count <= Used
        /\ trimmed + count \in 0..Used /\ trimmed \in 0..Capacity
        /\ trimmed + count <= Capacity
    <3>1. Capacity \in Nat
      BY SizesAssumption
    <3> QED
      BY <1>2, <1>4, <1>5, <3>1
  <2>3. Past' = later
    <3>1. read_pos' = Advance(read_pos, trimmed + count)
      BY <1>1, <2>1, <2>2, AdvanceTwice DEF IInv, Typed
    <3>2. Used' = Used - (trimmed + count)
      <4> DEFINE n == trimmed + count
      <4>1. n \in 0..Used /\ read_pos' = Advance(read_pos, n)
        BY <2>2, <3>1
      <4> HIDE DEF n
      <4>2. Used' = Used - n
        BY <1>1, <2>1, <4>1, ReadAdvances DEF Used, IInv, Typed
      <4> QED
        BY <4>2 DEF n
    <3> QED
      BY <1>2, <2>1, <2>2, <3>2 DEF Past
  <2>4. later \in Nat /\ later % 2 = 0 /\ Past <= later
    BY <1>2, <1>4, <1>5, <2>2
  <2>5. /\ Copy(from, count) = [i \in 1..count |-> Past + trimmed + i]
        /\ Follows(Copy(from, count), count, trimmed, later)
    <3>1. Past + trimmed + count <= later
      BY <2>4
    <3> HIDE DEF later
    <3> QED
      BY <1>1, <1>2, <2>2, <2>4, <3>1, CopyFollows
  <2>6. Follows(Copy(from, count), count, 0, later)
    <3>1. ASSUME NEW i \in 1..count PROVE (trimmed + i) % 2 = (0 + i) % 2
      BY <1>4, <2>2
    <3> QED
      BY <2>5, <3>1 DEF Follows
  <2>7. /\ Sound(hist', hist_write', hist_valid', later)
        /\ hist_write' % 2 = 0 /\ hist_valid' % 2 = 0
    <3>1. Sound(hist, hist_write, hist_valid, later)
          /\ hist_write % 2 = 0 /\ hist_valid % 2 = 0
      BY <1>2, <2>4, SoundLater DEF PlayInv, HistoryInv
    <3>2. Follows(<<>>, 0, 0, later)
      BY NoneFollows
    <3>3. (0 + count) % 2 = 0 /\ 0 \in Nat /\ (0 >= History => 0 % 2 = 0)
      BY <1>5, <2>2
    <3> HIDE DEF from, later
    <3> QED
      BY <2>1, <2>2, <2>4, <2>6, <3>1, <3>2, <3>3, RememberSound
  <2>8. HistoryInv'
    BY <2>3, <2>7 DEF HistoryInv
  <2>9. LoopInv'
    BY <2>1 DEF PlayInv, LoopInv
  <2>10. OutInv'
    <3>1. Len(out') = count /\ out' \in Seq(Nat)
      <4>1. out' = [i \in 1..count |-> Past + trimmed + i]
        BY <2>1, <2>5
      <4>2. \A i \in 1..count : Past + trimmed + i \in Nat
        BY <1>2, <2>2
      <4> QED
        BY <2>2, <4>1, <4>2
    <3> QED
      BY <2>1, <2>3, <2>6, <3>1 DEF OutInv, Follows
  <2> QED
    BY <1>1, <2>3, <2>4, <2>8, <2>9, <2>10 DEF PlayInv
<1> QED
  BY <1>6, <1>7

-----------------------------------------------------------------------------
(* The loop of try_read_history_samples(): what a latched loop plays at    *)
(* place i of the callback's buffer.                                       *)
Latched(l, valid) ==
  /\ l.start \in Nat /\ l.length \in Nat /\ l.offset \in Nat
  /\ l.length >= 2 /\ l.length % 2 = 0 /\ l.length <= valid
  /\ l.start % 2 = 0 /\ l.offset % 2 = 0
  /\ l.start = 0 \/ valid = History

LEMMA LoopPlays ==
  ASSUME NEW past \in Nat, NEW data, NEW write, NEW valid,
         Sound(data, write, valid, past),
         NEW l, Latched(l, valid), NEW i \in Nat, i > 0,
         NEW played, played = data[(l.start + ((l.offset + i - 1) % l.length)) % History]
  PROVE  played \in 1..past /\ played % 2 = i % 2
<1> USE HistoryAssumption
<1> DEFINE a == l.offset + i - 1
           b == a % l.length
           c == l.start + b
           slot == c % History
<1>1. a \in Nat /\ a + 1 = l.offset + i
  BY DEF Latched
<1>2. (a + 1) % 2 = i % 2
  BY <1>1 DEF Latched
<1> HIDE DEF a
<1>3. b \in 0..l.length-1 /\ b % 2 = a % 2
  <2> DEFINE m == l.length
  <2>1. m \in Nat /\ m > 0 /\ m % 2 = 0
    BY DEF Latched
  <2> HIDE DEF m
  <2>2. (a % m) % 2 = a % 2 /\ (a % m) \in 0..m-1
    BY <1>1, <2>1, WrapParity
  <2> QED
    BY <2>2 DEF m
<1> HIDE DEF b
<1>4. b \in Nat /\ b < l.length
  <2>1. l.length \in Nat
    BY DEF Latched
  <2> QED
    BY <1>3, <2>1
<1>5. c \in Nat /\ c % 2 = b % 2
  <2>1. l.start \in Nat /\ l.start % 2 = 0
    BY DEF Latched
  <2> DEFINE d == l.start
  <2>2. d \in Nat /\ d % 2 = 0
    BY <2>1
  <2> HIDE DEF d
  <2>3. d + b \in Nat /\ (d + b) % 2 = b % 2
    BY <1>4, <2>2
  <2> QED
    BY <2>3 DEF d
<1>6. l.start = 0 => c < valid
  BY <1>4 DEF Latched, Sound
<1> HIDE DEF c
<1>7. slot % 2 = c % 2 /\ slot \in 0..History-1
  BY <1>5, WrapParity
<1>8. slot < valid
  <2>1. CASE valid = History
    BY <1>7, <2>1
  <2>2. CASE l.start = 0
    <3>1. c < valid /\ valid \in 0..History
      BY <1>6, <2>2 DEF Sound
    <3>2. c % History = c
      BY <1>5, <3>1
    <3> QED
      BY <3>1, <3>2
  <2> QED
    BY <2>1, <2>2 DEF Latched
<1> HIDE DEF slot
<1>9. data[slot] \in 1..past /\ data[slot] % 2 = (slot + 1) % 2
  BY <1>7, <1>8 DEF Sound
<1>10. (slot + 1) % 2 = (a + 1) % 2
  BY <1>1, <1>3, <1>4, <1>5, <1>7
<1>11. played = data[slot]
  BY DEF slot, c, b, a
<1> QED
  BY <1>2, <1>9, <1>10, <1>11

(* Every start that the search for the closest frame may return is the     *)
(* first sample of a frame.                                                *)
LEMMA StartsAreFrames ==
  ASSUME NEW write \in 0..History-1, write % 2 = 0, NEW valid \in 0..History,
         NEW start \in LoopStarts(write, valid)
  PROVE  start \in Nat /\ start % 2 = 0 /\ (start = 0 \/ valid = History)
<1> USE HistoryAssumption
<1>1. CASE valid < History
  BY <1>1 DEF LoopStarts
<1>2. CASE ~(valid < History)
  <2>1. PICK k \in {j \in 0..History-2 : j % 2 = 0} : start = (write + k) % History
    BY <1>2 DEF LoopStarts
  <2> DEFINE a == write + k
  <2>2. a \in Nat /\ a % 2 = 0 /\ start = (a % History)
    BY <2>1
  <2> HIDE DEF a
  <2>3. (a % History) % 2 = a % 2 /\ (a % History) \in 0..History-1
    BY <2>2, WrapParity
  <2> QED
    BY <1>2, <2>2, <2>3
<1> QED
  BY <1>1, <1>2

(* A drain, in two chunks when it wraps, and the loop that plays after it. *)
LEMMA ReadHistoryPlayInv ==
  ASSUME PlayInv, NEW request \in Frames, NEW drain \in {0, request},
         ReadHistory(request, drain)
  PROVE  PlayInv'
<1> DEFINE drained == Lesser(Even(drain), Even(Used))
           first == Lesser(drained, Size - read_pos)
           one == Copy(read_pos, first)
           two == Copy(Advance(read_pos, first), drained - first)
<1>1. drain \in Frames
  BY BoundsAssumption DEF Frames
<1>2. IInv /\ IInv'
  BY <1>1, ReadHistoryIInv DEF PlayInv
<1>3. /\ Past \in Nat /\ Past % 2 = 0 /\ Used \in Nat /\ Used \in 0..Capacity
      /\ Used % 2 = 0 /\ produced = Past + Used /\ Even(Used) = Used
      /\ Used <= MaxSamples
  BY <1>2, PastIsNat DEF PlayInv, IInv, Even, LatencyBound
<1>4. /\ request \in Nat /\ request % 2 = 0 /\ request <= Batch
      /\ drain \in Nat /\ drain % 2 = 0 /\ drain <= Batch /\ Even(drain) = drain
  BY <1>1, BoundsAssumption DEF Frames, Even
<1>5. drained \in Nat /\ drained % 2 = 0 /\ drained <= Used /\ drained <= History
  BY <1>3, <1>4, DrainAssumption, SizesAssumption, BoundsAssumption, HistoryAssumption
     DEF Lesser
<1>6. /\ read_pos' = Advance(read_pos, drained)
      /\ Remember(one, two)
      /\ UNCHANGED <<buf, write_pos, produced>>
  BY DEF ReadHistory
<1> HIDE DEF drained
<1>7. first \in Nat /\ drained - first \in Nat /\ first + (drained - first) = drained
  <2>1. read_pos \in Nat /\ read_pos < Size /\ Size \in Nat
    BY <1>2, SizesAssumption DEF IInv, Typed, Position, Size
  <2> QED
    BY <1>5, <2>1 DEF Lesser
<1> HIDE DEF first
<1> DEFINE later == Past + drained
<1>8. later \in Nat /\ later % 2 = 0 /\ Past <= later
  BY <1>3, <1>5
<1>9. Past' = later
  <2>1. drained \in 0..Used
    BY <1>3, <1>5
  <2>2. Used' = Used - drained
    BY <1>2, <1>6, <2>1, ReadAdvances DEF Used, IInv, Typed
  <2> QED
    <3>1. Past' = produced - (Used - drained)
      BY <1>6, <2>2 DEF Past
    <3>2. (Past + Used) - (Used - drained) = Past + drained
      BY <1>3, <1>5
    <3> QED
      BY <1>3, <3>1, <3>2
<1>10. Follows(one, first, 0, later)
  <2>1. Advance(read_pos, 0) = read_pos
    BY <1>2, SizesAssumption DEF Advance, Size, IInv, Typed, Position
  <2>2. 0 \in Nat /\ 0 + first <= Used /\ Past + 0 + first <= later
    BY <1>3, <1>5, <1>7
  <2> HIDE DEF later
  <2>3. Follows(Copy(Advance(read_pos, 0), first), first, 0, later)
    BY <1>2, <1>3, <1>7, <1>8, <2>2, CopyFollows
  <2> QED
    BY <2>1, <2>3
<1>11. Follows(two, drained - first, first, later)
  <2> DEFINE rest == drained - first
  <2>1. rest \in Nat /\ first + rest <= Used /\ Past + first + rest <= later
    BY <1>3, <1>5, <1>7
  <2> HIDE DEF later, rest
  <2>2. Follows(Copy(Advance(read_pos, first), rest), rest, first, later)
    BY <1>2, <1>3, <1>7, <1>8, <2>1, CopyFollows
  <2> QED
    BY <2>2 DEF rest
<1>12. first >= History => first % 2 = 0
  BY <1>5, <1>7, HistoryAssumption
<1> HIDE DEF one, two
<1>13. /\ Sound(hist', hist_write', hist_valid', later)
       /\ hist_write' % 2 = 0 /\ hist_valid' % 2 = 0
       /\ hist_valid' >= hist_valid
  <2> DEFINE rest == drained - first
  <2>1. Sound(hist, hist_write, hist_valid, later)
        /\ hist_write % 2 = 0 /\ hist_valid % 2 = 0
    BY <1>3, <1>8, SoundLater DEF PlayInv, HistoryInv
  <2>2. rest \in Nat /\ (first + rest) % 2 = 0
    BY <1>5, <1>7
  <2>3. Follows(two, rest, first, later)
    BY <1>11
  <2> HIDE DEF rest, later
  <2> QED
    BY <1>6, <1>7, <1>8, <1>10, <1>12, <2>1, <2>2, <2>3, RememberSound
<1>14. HistoryInv'
  BY <1>9, <1>13 DEF HistoryInv
<1>15. hist_valid \in 0..History /\ hist_valid' \in 0..History
       /\ hist_write' \in 0..History-1
  BY <1>13 DEF PlayInv, HistoryInv, Sound
<1>16. CASE hist_valid' < 2
  <2>1. out' = <<>> /\ UNCHANGED loop
    BY <1>16 DEF ReadHistory
  <2>2. LoopInv'
    BY <1>13, <1>15, <2>1, HistoryAssumption DEF LoopInv, PlayInv
  <2>3. OutInv'
    BY <2>1 DEF OutInv
  <2> QED
    BY <1>2, <1>8, <1>9, <1>14, <2>2, <2>3 DEF PlayInv
<1>17. CASE ~(hist_valid' < 2)
  <2>1. PICK start \in LoopStarts(hist_write', hist_valid') :
          LET latched == IF loop.active THEN loop
                         ELSE [active |-> TRUE, start |-> start,
                               length |-> Even(hist_valid'), offset |-> 0]
          IN  /\ out' = [i \in 1..request |->
                   hist'[(latched.start + ((latched.offset + i - 1) % latched.length))
                         % History]]
              /\ loop' = [latched EXCEPT !.offset =
                   (latched.offset + request) % latched.length]
    BY <1>17 DEF ReadHistory
  <2> DEFINE latched == IF loop.active THEN loop
                        ELSE [active |-> TRUE, start |-> start,
                              length |-> Even(hist_valid'), offset |-> 0]
  <2>2. start \in Nat /\ start % 2 = 0 /\ (start = 0 \/ hist_valid' = History)
    <3> DEFINE w == hist_write'
               v == hist_valid'
    <3>1. w \in 0..History-1 /\ w % 2 = 0 /\ v \in 0..History
          /\ start \in LoopStarts(w, v)
      BY <1>13, <1>15
    <3> HIDE DEF w, v
    <3>2. start \in Nat /\ start % 2 = 0 /\ (start = 0 \/ v = History)
      BY <3>1, StartsAreFrames
    <3> QED
      BY <3>2 DEF v
  <2>3. Latched(latched, hist_valid') /\ latched.active = TRUE
        /\ latched \in [active : BOOLEAN, start : Nat, length : Nat, offset : Nat]
    <3>1. CASE loop.active
      BY <1>13, <1>15, <3>1, HistoryAssumption DEF Latched, LoopInv, PlayInv
    <3>2. CASE ~loop.active
      <4>1. Even(hist_valid') = hist_valid' /\ hist_valid' \in Nat /\ hist_valid' >= 2
        <5> DEFINE v == hist_valid'
        <5>1. v \in 0..History /\ v % 2 = 0 /\ ~(v < 2)
          BY <1>13, <1>15, <1>17
        <5> HIDE DEF v
        <5>2. Even(v) = v /\ v \in Nat /\ v >= 2
          BY <5>1, HistoryAssumption DEF Even
        <5> QED
          BY <5>2 DEF v
      <4>2. latched = [active |-> TRUE, start |-> start,
                       length |-> hist_valid', offset |-> 0]
        BY <3>2, <4>1
      <4> HIDE DEF latched
      <4>3. /\ latched.start = start /\ latched.length = hist_valid'
            /\ latched.offset = 0 /\ latched.active = TRUE
            /\ latched \in [active : BOOLEAN, start : Nat, length : Nat, offset : Nat]
        BY <2>2, <4>1, <4>2
      <4>4. 0 % 2 = 0 /\ hist_valid' <= hist_valid'
        BY <4>1
      <4> QED
        BY <1>13, <2>2, <4>1, <4>3, <4>4 DEF Latched
    <3> QED
      BY <3>1, <3>2
  <2>4. /\ out' = [i \in 1..request |->
             hist'[(latched.start + ((latched.offset + i - 1) % latched.length))
                   % History]]
        /\ loop' = [latched EXCEPT !.offset =
             (latched.offset + request) % latched.length]
    BY <2>1
  <2> HIDE DEF latched, later
  <2>5. LoopInv'
    <3> DEFINE m == latched.length
               a == latched.offset + request
    <3>1. m \in Nat /\ m > 0 /\ m % 2 = 0 /\ a \in Nat /\ a % 2 = 0
      BY <1>4, <2>3 DEF Latched
    <3>2. loop' = [latched EXCEPT !.offset = a % m]
      BY <2>4
    <3> HIDE DEF m, a
    <3>3. (a % m) % 2 = 0 /\ (a % m) \in Nat
      <4>1. (a % m) % 2 = a % 2 /\ (a % m) \in 0..m-1
        BY <3>1, WrapParity
      <4> QED
        BY <3>1, <4>1
    <3>4. /\ loop' \in [active : BOOLEAN, start : Nat, length : Nat, offset : Nat]
          /\ loop'.start = latched.start /\ loop'.length = latched.length
          /\ loop'.offset = a % m
      BY <2>3, <3>2, <3>3
    <3> QED
      BY <2>3, <3>3, <3>4 DEF LoopInv, Latched
  <2>6. ASSUME NEW i \in 1..request
        PROVE  out'[i] \in 1..later /\ out'[i] % 2 = i % 2
    <3>1. i \in Nat /\ i > 0
      BY <1>4
    <3>2. out'[i] =
            hist'[(latched.start + ((latched.offset + i - 1) % latched.length)) % History]
      BY <2>4
    <3> QED
      BY <1>8, <1>13, <2>3, <3>1, <3>2, LoopPlays
  <2>7. Len(out') = request /\ out' \in Seq(Nat)
    <3>1. \A i \in 1..request : out'[i] \in Nat
      BY <1>8, <2>6
    <3> QED
      BY <1>4, <2>4, <3>1
  <2>8. OutInv'
    BY <1>9, <2>6, <2>7 DEF OutInv
  <2> QED
    BY <1>2, <1>8, <1>9, <1>14, <2>5, <2>8 DEF PlayInv
<1> QED
  BY <1>16, <1>17

LEMMA PlayInductive == PlayInv /\ [Next]_vars => PlayInv'
<1> SUFFICES ASSUME PlayInv, [Next]_vars PROVE PlayInv'
  OBVIOUS
<1>1. ASSUME NEW n \in Frames, Push(n) PROVE PlayInv'
  BY <1>1, PushPlayInv
<1>2. ASSUME NEW request \in Frames, NEW trim \in Frames, Read(request, trim)
      PROVE  PlayInv'
  BY <1>2, ReadPlayInv
<1>3. ASSUME NEW request \in Frames, NEW drain \in {0, request},
             ReadHistory(request, drain)
      PROVE  PlayInv'
  BY <1>3, ReadHistoryPlayInv
<1>4. CASE Clear
  BY <1>4, ClearPlayInv
<1>5. CASE UNCHANGED vars
  <2>1. UNCHANGED <<hist, hist_write, hist_valid, loop, out>> /\ Past' = Past
    BY <1>5 DEF vars, ring, history, Past, Used
  <2>2. IInv'
    BY <1>5, Inductive DEF PlayInv
  <2> QED
    BY <2>1, <2>2 DEF PlayInv, HistoryInv, LoopInv, OutInv
<1> QED
  BY <1>1, <1>2, <1>3, <1>4, <1>5 DEF Next

LEMMA SpecPlayInv == Spec => []PlayInv
  BY InitPlayInv, PlayInductive, PTL DEF Spec

(* Left samples play on the left, from the queue and from the stutter loop *)
(* alike, whatever wraps: an odd capacity, a drain cut in two, a loop that *)
(* starts anywhere choose_stutter_start_pos() allows.                      *)
THEOREM ChannelsKept == Spec => []ChannelOrder
<1>1. PlayInv => ChannelOrder
  BY PastIsNat DEF PlayInv, OutInv, ChannelOrder
<1> QED
  BY <1>1, SpecPlayInv, PTL

(* The stutter loop repeats the past: no sample that is still queued, and  *)
(* no slot that was never filled.                                          *)
THEOREM LoopPlaysThePast == Spec => []LoopIsPast
<1>1. PlayInv => LoopIsPast
  BY PastIsNat DEF PlayInv, OutInv, LoopIsPast, Past
<1> QED
  BY <1>1, SpecPlayInv, PTL

-----------------------------------------------------------------------------
(* The refinement.  The queue of AudioFifo is a run of consecutive samples,*)
(* and every operation of the ring turns one run into another.             *)
Run(past, n) == [i \in 1..n |-> past + i]

LEMMA RunIsSeq ==
  ASSUME NEW past \in Nat, NEW n \in Nat
  PROVE  Run(past, n) \in Seq(Nat) /\ Len(Run(past, n)) = n
  BY DEF Run

LEMMA RunNewest ==
  ASSUME NEW past \in Nat, NEW n \in Nat, NEW m \in 0..n
  PROVE  Fifo!Newest(Run(past, n), m) = Run(past + (n - m), m)
<1> DEFINE s == Run(past, n)
           from == n - m + 1
           rest == SubSeq(s, from, n)
           t == Run(past + (n - m), m)
<1>1. s \in Seq(Nat) /\ Len(s) = n /\ (\A i \in 1..n : s[i] = past + i)
  BY RunIsSeq DEF Run
<1>2. n - m \in Nat /\ past + (n - m) \in Nat /\ m \in Nat
  OBVIOUS
<1>3. t \in Seq(Nat) /\ Len(t) = m /\ (\A i \in 1..m : t[i] = past + (n - m) + i)
  BY <1>2, RunIsSeq DEF Run
<1>4. from \in Int /\ n \in Int /\ (\A i \in from..n : s[i] \in Nat)
  BY <1>1, <1>2
<1>5. n - from + 1 = m /\ (from <= n <=> m > 0)
  BY <1>2
<1>6. Fifo!Newest(s, m) = rest
  BY <1>1 DEF Fifo!Newest
<1> HIDE DEF s, from, t
<1>7. /\ rest \in Seq(Nat)
      /\ Len(rest) = IF from <= n THEN n - from + 1 ELSE 0
      /\ \A i \in 1..n-from+1 : rest[i] = s[from + i - 1]
  BY <1>4, SubSeqProperties
<1> HIDE DEF rest
<1>8. Len(rest) = m /\ (\A i \in 1..m : rest[i] = s[from + i - 1])
  BY <1>2, <1>5, <1>7
<1>9. ASSUME NEW i \in 1..m PROVE s[from + i - 1] = past + (n - m) + i
  <2>1. from + i - 1 \in 1..n /\ from + i - 1 = n - m + i
    BY <1>2 DEF from
  <2> QED
    BY <1>1, <2>1
<1>10. rest = t
  BY <1>3, <1>7, <1>8, <1>9, SeqEqual
<1> QED
  BY <1>6, <1>10 DEF s, t

LEMMA RunGrows ==
  ASSUME NEW past \in Nat, NEW n \in Nat, NEW m \in Nat
  PROVE  Run(past, n) \o [i \in 1..m |-> past + n + i] = Run(past, n + m)
<1> DEFINE s == Run(past, n)
           t == Run(past + n, m)
           u == Run(past, n + m)
<1>1. /\ s \in Seq(Nat) /\ Len(s) = n /\ (\A i \in 1..n : s[i] = past + i)
      /\ t \in Seq(Nat) /\ Len(t) = m /\ (\A i \in 1..m : t[i] = past + n + i)
      /\ u \in Seq(Nat) /\ Len(u) = n + m /\ (\A i \in 1..n+m : u[i] = past + i)
  BY RunIsSeq DEF Run
<1>2. t = [i \in 1..m |-> past + n + i]
  BY DEF Run
<1> HIDE DEF s, t, u
<1>3. /\ s \o t \in Seq(Nat) /\ Len(s \o t) = n + m
      /\ \A i \in 1..n+m : (s \o t)[i] = IF i <= n THEN s[i] ELSE t[i - n]
  BY ZenonT(30), <1>1, ConcatProperties
<1>4. ASSUME NEW i \in 1..n+m PROVE (s \o t)[i] = u[i]
  <2>1. CASE i <= n
    BY <1>1, <1>3, <2>1
  <2>2. CASE ~(i <= n)
    <3>1. i - n \in 1..m /\ past + n + (i - n) = past + i
      BY <2>2
    <3> QED
      BY <1>1, <1>3, <2>2, <3>1
  <2> QED
    BY <2>1, <2>2
<1>5. s \o t = u
  BY <1>1, <1>3, <1>4, SeqEqual
<1> QED
  BY <1>2, <1>5 DEF s, u

(* The queue that AudioRing shows to AudioFifo.                            *)
Queue == Copy(read_pos, Used)

LEMMA QueueIsRun == IInv => Queue = Run(Past, Used)
<1> SUFFICES ASSUME IInv PROVE Queue = Run(Past, Used)
  OBVIOUS
<1>1. Past \in Nat /\ Used \in Nat /\ Used \in 0..Capacity /\ produced = Past + Used
  BY PastIsNat
<1>2. ASSUME NEW i \in 1..Used PROVE buf[Advance(read_pos, i - 1)] = Past + i
  <2>1. i - 1 \in 0..Capacity /\ i - 1 < Used
    BY <1>1, SizesAssumption
  <2>2. buf[Advance(read_pos, i - 1)] = produced - Used + (i - 1) + 1
    BY <2>1 DEF IInv, Contiguous
  <2> QED
    BY <1>1, <2>2
<1> QED
  BY <1>2 DEF Queue, Copy, Run

LEMMA QueueIsRunNext == IInv' => Queue' = Run(Past', Used')
<1>1. (IInv => Queue = Run(Past, Used))'
  BY QueueIsRun, PTL
<1> QED
  BY <1>1 DEF Run

LEMMA InitFifo == Init => Fifo!Init
<1> SUFFICES ASSUME Init PROVE Fifo!Init
  OBVIOUS
<1>1. Used = 0 /\ produced = 0
  BY SizesAssumption DEF Init, Used, Between
<1>2. Copy(read_pos, Used) = <<>>
  BY <1>1 DEF Copy
<1> QED
  BY <1>1, <1>2 DEF Fifo!Init

(* A push appends the batch and, beyond MaxSamples, keeps the newest.      *)
LEMMA PushFifo ==
  ASSUME IInv, NEW n \in Frames, Push(n)
  PROVE  produced' > produced /\ Fifo!Push(produced' - produced)
<1>1. IInv' /\ Used' = IF Used + n > MaxSamples THEN TargetSamples ELSE Used + n
  BY PushIInv
<1>2. Past \in Nat /\ Used \in Nat /\ produced = Past + Used
  BY PastIsNat
<1>3. produced' = produced + n /\ n \in Nat /\ n > 0
  BY BoundsAssumption DEF Push, Frames
<1>4. produced' > produced /\ produced' - produced = n
  BY <1>2, <1>3
<1> DEFINE total == Used + n
           grown == Queue \o [i \in 1..n |-> produced + i]
<1>5. grown = Run(Past, total) /\ Len(grown) = total
  <2>1. Queue = Run(Past, Used) /\ [i \in 1..n |-> produced + i] = [i \in 1..n |-> Past + Used + i]
    BY <1>2, QueueIsRun
  <2>2. Run(Past, Used) \o [i \in 1..n |-> Past + Used + i] = Run(Past, Used + n)
    BY <1>2, <1>3, RunGrows
  <2>3. grown = Run(Past, total)
    BY <2>1, <2>2
  <2>4. total \in Nat
    BY <1>2, <1>3
  <2> QED
    BY <1>2, <2>3, <2>4, RunIsSeq
<1>6. Queue' = Run(Past', Used') /\ Past' = produced' - Used'
  BY <1>1, QueueIsRunNext DEF Past
<1>7. total \in Nat /\ produced' = Past + total
      /\ Used' = IF total > MaxSamples THEN TargetSamples ELSE total
  BY <1>1, <1>2, <1>3
<1> HIDE DEF grown, total
<1>8. ASSUME total > MaxSamples PROVE Queue' = Fifo!Newest(grown, TargetSamples)
  <2>1. TargetSamples \in 0..total /\ TargetSamples \in Nat
    BY <1>7, <1>8, SizesAssumption
  <2>2. Fifo!Newest(grown, TargetSamples)
          = Run(Past + (total - TargetSamples), TargetSamples)
    BY <1>2, <1>5, <1>7, <2>1, RunNewest
  <2>3. Past' = Past + (total - TargetSamples) /\ Used' = TargetSamples
    BY <1>2, <1>6, <1>7, <1>8, <2>1
  <2> QED
    BY <1>6, <2>2, <2>3
<1>9. ASSUME ~(total > MaxSamples) PROVE Queue' = grown
  <2>1. Past' = Past /\ Used' = total
    BY <1>2, <1>6, <1>7, <1>9
  <2> QED
    BY <1>5, <1>6, <2>1
<1>10. Queue' = IF Len(grown) > MaxSamples THEN Fifo!Newest(grown, TargetSamples) ELSE grown
  BY <1>5, <1>8, <1>9
<1> QED
  BY <1>3, <1>4, <1>10 DEF Fifo!Push, Queue, grown

LEMMA FramesTaken ==
  ASSUME NEW past \in Nat, NEW used \in Nat, NEW later \in Nat, NEW left \in Nat,
         later + left = past + used, left <= used, used % 2 = 0, left % 2 = 0
  PROVE  /\ used - left \in Nat /\ (used - left) % 2 = 0 /\ used - left <= used
         /\ used - (used - left) = left /\ later = past + (used - left)
  OBVIOUS

(* Samples leave at the old end, whole frames of them.                     *)
LEMMA TakeFifo ==
  ASSUME IInv, IInv', produced' = produced, Used' <= Used
  PROVE  Fifo!Take(Len(Queue) - Len(Queue'))
<1>1. Past \in Nat /\ Used \in Nat /\ produced = Past + Used /\ Used % 2 = 0
  BY PastIsNat DEF IInv
<1>2. Past' \in Nat /\ Used' \in Nat /\ produced' = Past' + Used' /\ Used' % 2 = 0
  <2>1. (IInv => Past \in Nat /\ Used \in Nat /\ Used \in 0..Capacity
                  /\ produced = Past + Used)'
    BY PastIsNat, PTL
  <2> QED
    BY <2>1 DEF IInv
<1>3. Queue = Run(Past, Used) /\ Queue' = Run(Past', Used')
  BY QueueIsRun, QueueIsRunNext
<1>4. Len(Queue) = Used /\ Len(Queue') = Used'
  BY <1>1, <1>2, <1>3, RunIsSeq
<1> DEFINE n == Used - Used'
<1>5. n \in Nat /\ n % 2 = 0 /\ n <= Used /\ Used - n = Used' /\ Past' = Past + n
  <2>1. Past' + Used' = Past + Used
    BY <1>1, <1>2
  <2> DEFINE left == Used'
             later == Past'
  <2>2. /\ left \in Nat /\ later \in Nat /\ left % 2 = 0
        /\ later + left = Past + Used /\ left <= Used
    BY <1>2, <2>1
  <2> HIDE DEF left, later
  <2>3. /\ Used - left \in Nat /\ (Used - left) % 2 = 0 /\ Used - left <= Used
        /\ Used - (Used - left) = left /\ later = Past + (Used - left)
    BY <1>1, <2>2, FramesTaken
  <2> QED
    BY <2>3 DEF left, later
<1>6. Past' = Past + (Used - Used')
  BY <1>5
<1>7. Used' \in 0..Used
  BY <1>1, <1>2
<1>8. Queue' = Fifo!Newest(Queue, Used')
  BY <1>1, <1>3, <1>6, <1>7, RunNewest
<1> QED
  BY <1>4, <1>5, <1>8 DEF Fifo!Take, Queue

LEMMA ResetFifo ==
  ASSUME IInv, IInv', produced' = produced, Used' = 0
  PROVE  Fifo!Reset
<1>1. Queue' = Run(Past', 0)
  BY QueueIsRunNext
<1>2. Run(Past', 0) = <<>>
  BY DEF Run
<1> QED
  BY <1>1, <1>2 DEF Fifo!Reset, Queue

LEMMA NextFifo == IInv /\ [Next]_vars => [Fifo!Next]_<<Queue, produced>>
<1> SUFFICES ASSUME IInv, [Next]_vars PROVE [Fifo!Next]_<<Queue, produced>>
  OBVIOUS
<1>0. IInv'
  BY Inductive
<1>1. ASSUME NEW n \in Frames, Push(n) PROVE Fifo!Next
  BY <1>1, PushFifo DEF Fifo!Next
<1>2. ASSUME produced' = produced, Used' <= Used PROVE Fifo!Next
  BY <1>0, <1>2, TakeFifo DEF Fifo!Next, Queue
<1>3. ASSUME NEW request \in Frames, NEW trim \in Frames, Read(request, trim)
      PROVE  produced' = produced /\ Used' <= Used
  BY <1>3, ReadIInv
<1>4. ASSUME NEW request \in Frames, NEW drain \in {0, request},
             ReadHistory(request, drain)
      PROVE  produced' = produced /\ Used' <= Used
  <2>1. drain \in Frames
    BY BoundsAssumption DEF Frames
  <2> QED
    BY <1>4, <2>1, ReadHistoryIInv
<1>5. CASE Clear
  <2>1. Used' = 0 /\ produced' = produced
    BY <1>5, SizesAssumption DEF Clear, Used, Between
  <2> QED
    BY <1>0, <2>1, ResetFifo DEF Fifo!Next
<1>6. CASE UNCHANGED vars
  BY <1>6 DEF vars, ring, Queue, Copy, Used
<1> QED
  BY <1>1, <1>2, <1>3, <1>4, <1>5, <1>6 DEF Next

(* The ring, with its two positions, its wrap and its odd capacity,        *)
(* implements a bounded queue whose oldest samples give way.               *)
THEOREM RingImplementsFifo == Spec => RefinesFifo
<1>1. Init /\ [][Next]_vars /\ []IInv => Fifo!Spec
  BY InitFifo, NextFifo, PTL DEF Fifo!Spec, Fifo!vars, Queue
<1> QED
  BY <1>1, SpecIInv, PTL DEF Spec, RefinesFifo

-----------------------------------------------------------------------------
(***************************************************************************)
(* The SPU's host output, module HostAudio.                                *)
(***************************************************************************)

(* A push leaves at most the maximum latency in the queue. *)
LEMMA PushBounds ==
  ASSUME NEW S, NEW q \in Seq(S), Len(q) <= MaxBlocks, NEW e \in S,
         NEW r, r = (IF Len(Append(q, e)) > MaxBlocks
                     THEN Newest(Append(q, e), TargetBlocks) ELSE Append(q, e))
  PROVE  r \in Seq(S) /\ Len(r) <= MaxBlocks
<1>. DEFINE grown == Append(q, e)
<1>1. grown \in Seq(S) /\ Len(grown) = Len(q) + 1 /\ Len(q) \in Nat
  OBVIOUS
<1>2. CASE Len(grown) > MaxBlocks
  <2>. DEFINE m == Len(grown) - TargetBlocks + 1
              n == Len(grown)
  <2>1. m \in 1..n /\ n \in 1..Len(grown) /\ n - m + 1 = TargetBlocks
    BY <1>1, <1>2, LatencyAssumption
  <2>2. r = SubSeq(grown, m, n)
    BY <1>2 DEF Newest
  <2>. HIDE DEF grown, m, n
  <2>3. m \in Int /\ n \in Int /\ m <= n /\ \A i \in m..n : grown[i] \in S
    BY <1>1, <2>1
  <2>4. r \in Seq(S) /\ Len(r) = n - m + 1
    <3>1. grown \in Seq(S)
      BY <1>1
    <3>2. /\ SubSeq(grown, m, n) \in Seq(S)
          /\ Len(SubSeq(grown, m, n)) = IF m <= n THEN n - m + 1 ELSE 0
      BY <2>3, <3>1, SubSeqProperties
    <3> QED
      BY <2>2, <2>3, <3>2
  <2> QED
    BY <2>1, <2>4, LatencyAssumption
<1>3. CASE ~(Len(grown) > MaxBlocks)
  BY <1>1, <1>3, LatencyAssumption
<1> QED
  BY <1>2, <1>3

(* Every block in the queue is of the current session, unless the UI is    *)
(* about to clear it; and a callback that began while playback was on      *)
(* holds up whoever turned it off.                                         *)
Fresh == at["ui"] \notin ResetAt => \A i \in DOMAIN queue : queue[i] = session

Covered == callback # "out" /\ ~playback => \E t \in Thread : at[t] = "pause"

HostInv == HostTypeOK /\ Fresh /\ Covered

LEMMA HostStart == HostInit => HostInv
<1> SUFFICES ASSUME HostInit  PROVE HostInv
  OBVIOUS
<1>. DEFINE none == <<>>
<1>1. none \in Seq(0..MaxSession) /\ Len(none) = 0 /\ DOMAIN none = {}
  OBVIOUS
<1>2. HostTypeOK
  <2>1. at \in [Thread -> {"idle", "push", "start_test", "start", "unpause"} \cup ResetAt]
    BY DEF HostInit
  <2>2. queue = none
    BY DEF HostInit
  <2>. HIDE DEF none
  <2>3. queue \in Seq(0..MaxSession) /\ Len(queue) <= MaxBlocks
    BY <1>1, <2>2, LatencyAssumption
  <2>4. /\ playback \in BOOLEAN /\ device \in {"paused", "running"}
        /\ started \in BOOLEAN /\ stutter \in BOOLEAN /\ hint \in BOOLEAN
        /\ callback \in {"out", "sense", "live", "loop", "drain"}
    BY DEF HostInit
  <2>5. queued \in 0..MaxBlocks /\ session \in 0..MaxSession /\ swaps \in 0..MaxSwaps
    BY LatencyAssumption DEF HostInit
  <2> QED
    BY <2>1, <2>3, <2>4, <2>5 DEF HostTypeOK
<1>3. Fresh
  BY <1>1 DEF HostInit, Fresh
<1>4. Covered
  BY DEF HostInit, Covered
<1> QED
  BY <1>2, <1>3, <1>4 DEF HostInv

LEMMA SetPlaybackKeeps ==
  ASSUME HostInv, NEW t \in Thread, NEW enabled \in BOOLEAN,
         t = "emu" => ~enabled, SetPlayback(t, enabled)
  PROVE  HostInv'
<1>1. HostTypeOK'
  BY LatencyAssumption DEF HostInv, HostTypeOK, SetPlayback, Goes, ResetAt
<1>2. Fresh'
  <2>1. CASE session' = session
    BY <2>1 DEF HostInv, HostTypeOK, Fresh, SetPlayback, Goes, ResetAt, Thread
  <2>2. CASE session' # session
    BY <2>2 DEF HostInv, HostTypeOK, Fresh, SetPlayback, Goes, ResetAt, Thread
  <2> QED
    BY <2>1, <2>2
<1>3. Covered'
  BY DEF HostInv, HostTypeOK, Covered, SetPlayback, Goes, Thread
<1> QED
  BY <1>1, <1>2, <1>3 DEF HostInv

LEMMA SetHintKeeps ==
  ASSUME HostInv, SetHint
  PROVE  HostInv'
<1>1. hint' \in BOOLEAN
  BY Zenon DEF SetHint
<1>2. HostTypeOK'
  BY <1>1 DEF HostInv, HostTypeOK, SetHint
<1>3. Fresh'
  BY DEF HostInv, Fresh, SetHint
<1>4. Covered'
  BY DEF HostInv, Covered, SetHint
<1> QED
  BY <1>2, <1>3, <1>4 DEF HostInv

LEMMA ChangeDiscKeeps ==
  ASSUME HostInv, ChangeDisc
  PROVE  HostInv'
<1>1. HostTypeOK'
  <2>1. at' \in [Thread -> {"idle", "push", "start_test", "start", "unpause"} \cup ResetAt]
    BY DEF HostInv, HostTypeOK, ChangeDisc, Goes, ResetAt
  <2>2. swaps' \in 0..MaxSwaps
    BY LatencyAssumption DEF HostInv, HostTypeOK, ChangeDisc
  <2> QED
    BY <2>1, <2>2 DEF HostInv, HostTypeOK, ChangeDisc
<1>2. Fresh'
  BY DEF HostInv, HostTypeOK, Fresh, ChangeDisc, Goes, ResetAt, Thread
<1>3. Covered'
  BY DEF HostInv, HostTypeOK, Covered, ChangeDisc, Goes, Thread
<1> QED
  BY <1>1, <1>2, <1>3 DEF HostInv

(* The clear at the end of the UI's reset makes the queue fresh again; the *)
(* device is paused only between two callbacks.                            *)
LEMMA ResetKeeps ==
  ASSUME HostInv, NEW t \in Thread, Reset(t)
  PROVE  HostInv'
<1>1. CASE ResetPause(t)
  <2>1. HostTypeOK'
    BY <1>1 DEF HostInv, HostTypeOK, ResetPause, Goes, ResetAt
  <2>2. Fresh'
    BY <1>1 DEF HostInv, HostTypeOK, Fresh, ResetPause, Goes, ResetAt, Thread
  <2>3. Covered'
    BY <1>1 DEF Covered, ResetPause
  <2> QED
    BY <2>1, <2>2, <2>3 DEF HostInv
<1>2. CASE ResetUnstart(t)
  <2>1. HostTypeOK'
    BY <1>2 DEF HostInv, HostTypeOK, ResetUnstart, Goes, ResetAt
  <2>2. Fresh'
    BY <1>2 DEF HostInv, HostTypeOK, Fresh, ResetUnstart, Goes, ResetAt, Thread
  <2>3. Covered'
    BY <1>2 DEF HostInv, HostTypeOK, Covered, ResetUnstart, Goes, Thread
  <2> QED
    BY <2>1, <2>2, <2>3 DEF HostInv
<1>3. CASE ResetUnstutter(t)
  <2>1. HostTypeOK'
    BY <1>3 DEF HostInv, HostTypeOK, ResetUnstutter, Goes, ResetAt
  <2>2. Fresh'
    BY <1>3 DEF HostInv, HostTypeOK, Fresh, ResetUnstutter, Goes, ResetAt, Thread
  <2>3. Covered'
    BY <1>3 DEF HostInv, HostTypeOK, Covered, ResetUnstutter, Goes, Thread
  <2> QED
    BY <2>1, <2>2, <2>3 DEF HostInv
<1>4. CASE ResetClear(t)
  <2>. DEFINE none == <<>>
  <2>0. queue' = none /\ none \in Seq(0..MaxSession) /\ Len(none) = 0 /\ DOMAIN none = {}
    BY <1>4 DEF ResetClear
  <2>. HIDE DEF none
  <2>1. HostTypeOK'
    BY <1>4, <2>0, LatencyAssumption DEF HostInv, HostTypeOK, ResetClear, Goes, ResetAt
  <2>2. Fresh'
    BY <2>0 DEF Fresh
  <2>3. Covered'
    BY <1>4 DEF HostInv, HostTypeOK, Covered, ResetClear, Goes, Thread
  <2> QED
    BY <2>1, <2>2, <2>3 DEF HostInv
<1> QED
  BY <1>1, <1>2, <1>3, <1>4 DEF Reset

(* A push adds a block of the session it happens in. *)
LEMMA PushKeeps ==
  ASSUME HostInv, EnqueuePush
  PROVE  HostInv'
<1>. DEFINE grown == Append(queue, session)
<1>1. /\ queue \in Seq(0..MaxSession) /\ session \in 0..MaxSession
      /\ Len(queue) <= MaxBlocks
  BY DEF HostInv, HostTypeOK
<1>2. queue' = IF Len(grown) > MaxBlocks THEN Newest(grown, TargetBlocks) ELSE grown
  BY DEF EnqueuePush
<1>3. queue' \in Seq(0..MaxSession) /\ Len(queue') <= MaxBlocks
  BY <1>1, <1>2, PushBounds
<1>4. queued' \in 0..MaxBlocks
  <2>1. queued' = Len(queue')
    BY DEF EnqueuePush
  <2>2. Len(queue') \in Nat
    BY <1>3
  <2> QED
    BY <1>3, <2>1, <2>2, LatencyAssumption
<1>5. HostTypeOK'
  BY <1>3, <1>4 DEF HostInv, HostTypeOK, EnqueuePush, Goes
<1>6. Fresh'
  <2> SUFFICES ASSUME at'["ui"] \notin ResetAt
               PROVE  \A i \in DOMAIN queue' : queue'[i] = session
    BY DEF Fresh, EnqueuePush
  <2>1. at["ui"] \notin ResetAt
    BY DEF HostInv, HostTypeOK, EnqueuePush, Goes, Thread
  <2>. DEFINE Same == {session}
  <2>2. queue \in Seq(Same)
    <3>1. \A i \in 1..Len(queue) : queue[i] \in Same
      BY <1>1, <2>1 DEF HostInv, Fresh
    <3>2. Len(queue) \in Nat /\ queue = [i \in 1..Len(queue) |-> queue[i]]
      BY <1>1
    <3>. HIDE DEF Same
    <3> QED
      BY <3>1, <3>2
  <2>3. session \in Same
    OBVIOUS
  <2>. HIDE DEF Same
  <2>4. queue' \in Seq(Same)
    BY <1>1, <1>2, <2>2, <2>3, PushBounds
  <2>5. \A i \in DOMAIN queue' : queue'[i] \in Same
    BY <2>4
  <2> QED
    BY <2>5 DEF Same
<1>7. Covered'
  BY DEF HostInv, HostTypeOK, Covered, EnqueuePush, Goes, Thread
<1> QED
  BY <1>5, <1>6, <1>7 DEF HostInv

LEMMA EnqueueKeeps ==
  ASSUME HostInv, Enqueue
  PROVE  HostInv'
<1>1. CASE EnqueuePush
  BY <1>1, PushKeeps
<1>2. CASE EnqueueTest \/ EnqueueStartTest \/ EnqueueStart \/ EnqueueUnpause
  <2>1. /\ UNCHANGED <<playback, hint, queue, callback, queued, session, swaps>>
        /\ at' = [at EXCEPT !["emu"] = at'["emu"]] /\ at["emu"] # "pause"
        /\ at'["emu"] \in {"idle", "push", "start", "unpause"}
        /\ device' \in {"paused", "running"} /\ started' \in BOOLEAN /\ stutter' \in BOOLEAN
    BY <1>2 DEF HostInv, HostTypeOK, EnqueueTest, EnqueueStartTest, EnqueueStart,
                EnqueueUnpause, Goes, Thread
  <2>2. HostTypeOK'
    BY <2>1 DEF HostInv, HostTypeOK
  <2>3. Fresh'
    BY <2>1 DEF HostInv, HostTypeOK, Fresh, Thread
  <2>4. Covered'
    BY <2>1 DEF HostInv, HostTypeOK, Covered, Thread
  <2> QED
    BY <2>2, <2>3, <2>4 DEF HostInv
<1> QED
  BY <1>1, <1>2 DEF Enqueue

LEMMA CallbackKeeps ==
  ASSUME HostInv, Callback
  PROVE  HostInv'
<1>1. /\ UNCHANGED <<playback, device, started, hint, at, queued, session, swaps>>
      /\ stutter' \in BOOLEAN /\ callback' \in {"out", "sense", "live", "loop", "drain"}
      /\ callback' # "out" => callback # "out" \/ playback
      /\ queue' = queue \/ (queue # <<>> /\ queue' = Tail(queue))
  <2>1. CASE CallbackBegin
    BY <2>1 DEF HostInv, HostTypeOK, CallbackBegin
  <2>2. CASE CallbackSense
    <3>1. UNCHANGED <<playback, device, started, hint, at, queued, session, swaps, queue>>
      BY <2>2 DEF CallbackSense
    <3>2. callback # "out"
      BY <2>2 DEF CallbackSense
    <3>3. stutter' \in BOOLEAN
      <4>1. CASE stutter
        <5>1. stutter' = (Len(queue) < ExitBlocks)
          BY <2>2, <4>1 DEF CallbackSense
        <5> QED
          BY <5>1
      <4>2. CASE ~stutter
        <5>1. stutter' = (Len(queue) < EnterBlocks)
          BY <2>2, <4>2 DEF CallbackSense
        <5> QED
          BY <5>1
      <4> QED
        BY <4>1, <4>2
    <3>4. callback' \in {"loop", "live"}
      <4>1. CASE stutter'
        BY <2>2, <4>1 DEF CallbackSense
      <4>2. CASE ~stutter'
        BY <2>2, <4>2 DEF CallbackSense
      <4> QED
        BY <4>1, <4>2
    <3> QED
      BY <3>1, <3>2, <3>3, <3>4
  <2>3. CASE CallbackPlay
    BY <2>3 DEF HostInv, HostTypeOK, CallbackPlay, TakeBlock
  <2>4. CASE CallbackLoop
    BY <2>4 DEF HostInv, HostTypeOK, CallbackLoop
  <2>5. CASE CallbackDrain
    BY <2>5 DEF HostInv, HostTypeOK, CallbackDrain, TakeBlock
  <2> QED
    BY <2>1, <2>2, <2>3, <2>4, <2>5 DEF Callback
<1>2. /\ queue \in Seq(0..MaxSession) /\ Len(queue) <= MaxBlocks
  BY DEF HostInv, HostTypeOK
<1>3. /\ queue' \in Seq(0..MaxSession) /\ Len(queue') <= MaxBlocks
      /\ \A i \in DOMAIN queue' : \E j \in DOMAIN queue : queue'[i] = queue[j]
  <2>1. CASE queue' = queue
    BY <1>2, <2>1
  <2>2. CASE queue # <<>> /\ queue' = Tail(queue)
    <3>1. /\ queue' \in Seq(0..MaxSession) /\ Len(queue') = Len(queue) - 1
          /\ \A i \in DOMAIN queue' : i + 1 \in DOMAIN queue /\ queue'[i] = queue[i + 1]
      BY <1>2, <2>2
    <3>2. Len(queue) \in Nat
      BY <1>2
    <3> QED
      BY <1>2, <3>1, <3>2, LatencyAssumption
  <2> QED
    BY <1>1, <2>1, <2>2
<1>4. HostTypeOK'
  BY <1>1, <1>3 DEF HostInv, HostTypeOK
<1>5. Fresh'
  BY <1>1, <1>3 DEF HostInv, Fresh
<1>6. Covered'
  BY <1>1 DEF HostInv, Covered
<1> QED
  BY <1>4, <1>5, <1>6 DEF HostInv

LEMMA HostStep == HostInv /\ [HostNext]_hostVars => HostInv'
<1> SUFFICES ASSUME HostInv, [HostNext]_hostVars  PROVE HostInv'
  OBVIOUS
<1>1. CASE HostNext
  <2>1. "ui" \in Thread /\ "emu" \in Thread
    BY DEF Thread
  <2>2. CASE \E enabled \in BOOLEAN : SetPlayback("ui", enabled)
    BY <2>1, <2>2, SetPlaybackKeeps
  <2>3. CASE SetPlayback("emu", FALSE)
    <3>. DEFINE off == FALSE
    <3>1. SetPlayback("emu", off) /\ off \in BOOLEAN /\ ~off
      BY <2>3
    <3>. HIDE DEF off
    <3> QED
      BY <2>1, <3>1, SetPlaybackKeeps
  <2> QED
    BY <1>1, <2>2, <2>3, SetHintKeeps, ChangeDiscKeeps, ResetKeeps, EnqueueKeeps, CallbackKeeps DEF HostNext
<1>2. CASE UNCHANGED hostVars
  BY <1>2 DEF hostVars, HostInv, HostTypeOK, Fresh, Covered
<1> QED
  BY <1>1, <1>2

(* Nothing but what was pushed since the last resume is played or drained  *)
(* to the history, and nothing at all after a pause, once no reset is at   *)
(* work.                                                                   *)
THEOREM NothingStaleIsPlayed == HostSpec => NothingStale
<1>1. HostInv /\ [HostNext]_hostVars =>
        [Plays /\ ~Resetting => playback /\ Head(queue) = session]_hostVars
  <2> SUFFICES ASSUME HostInv, HostNext, Plays, ~Resetting
               PROVE  playback /\ Head(queue) = session
    OBVIOUS
  <2>1. \A t \in Thread : at[t] \notin ResetAt
    BY DEF Resetting
  <2>2. playback
    BY <2>1 DEF HostInv, Covered, Plays, ResetAt
  <2>3. queue # <<>>
    <3>1. \E n \in Nat : n = Len(queue')
      <4>1. queue' \in Seq(0..MaxSession)
        BY HostStep DEF HostInv, HostTypeOK
      <4> QED
        BY <4>1
    <3>2. Len(queue) # 0
      BY <3>1 DEF Plays
    <3> QED
      BY <3>2
  <2>4. Head(queue) = session
    BY <2>1, <2>3 DEF HostInv, HostTypeOK, Fresh, Thread
  <2> QED
    BY <2>2, <2>4
<1> QED
  BY <1>1, HostStart, HostStep, PTL DEF HostSpec, NothingStale
================================================================================
