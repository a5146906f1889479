------------------------------ MODULE AudioRing ------------------------------
(***************************************************************************)
(* AudioRingBuffer (src/core/audio_ring_buffer.cpp) as the SPU uses it: the*)
(* emulator thread pushes with push_samples_bounded(), the host callback   *)
(* reads with try_read_samples() or, while starved, loops the recent       *)
(* history with try_read_history_samples(), and a reset clears everything. *)
(*                                                                         *)
(* Every operation holds mutex_, so each is one action.  Samples are       *)
(* numbered from 1 in the order the SPU produces them; odd numbers are     *)
(* left samples.  0 is a sample of silence.  Capacity is not always even:  *)
(* samples_from_seconds() rounds up (37 ms of 44.1 kHz stereo is 3265).    *)
(***************************************************************************)
EXTENDS Naturals, Sequences

CONSTANTS
  TargetSamples, MaxSamples,  (* target_samples and max_samples of every push            *)
  Capacity,     (* capacity_, one less than buffer_.size()                 *)
  History,      (* history_buffer_.size()                                  *)
  Batch,        (* largest count of one push or read                       *)
  MaxProduced   (* bound of the model: samples the SPU produces            *)

ASSUME SizesAssumption ==
  /\ TargetSamples \in Nat /\ MaxSamples \in Nat /\ Capacity \in Nat
  /\ TargetSamples % 2 = 0 /\ MaxSamples % 2 = 0
  /\ 0 < TargetSamples /\ TargetSamples <= MaxSamples /\ MaxSamples <= Capacity

ASSUME HistoryAssumption == History \in Nat /\ History > 0 /\ History % 2 = 0

(* A callback drains no more than the history holds: a period of 256 frames *)
(* (g_spu_desired_samples) and a default latency of at most 300 ms are     *)
(* both below HISTORY_BUFFER_SECONDS, 400 ms.                              *)
ASSUME DrainAssumption == Batch <= History \/ MaxSamples <= History

ASSUME BoundsAssumption == Batch \in Nat /\ MaxProduced \in Nat

VARIABLES
  buf, write_pos, read_pos,
  available,    (* available_samples_snapshot_                             *)
  hist, hist_write, hist_valid,
  loop,         (* history_loop_active_, _start_, _length_, _offset_       *)
  produced,     (* samples pushed so far                                   *)
  out,          (* what the last callback wrote                            *)
  lost          (* the counters: dropped by pushes, trimmed, cleared;      *)
                (* and heard: consumed or drained                          *)

ring == <<buf, write_pos, read_pos, available>>
history == <<hist, hist_write, hist_valid>>
vars == <<ring, history, loop, produced, out, lost>>

Size == Capacity + 1
Position == 0..Capacity
NoLoop == [active |-> FALSE, start |-> 0, length |-> 0, offset |-> 0]

Init ==
  /\ buf = [p \in Position |-> 0] /\ write_pos = 0 /\ read_pos = 0 /\ available = 0
  /\ hist = [p \in 0..History-1 |-> 0] /\ hist_write = 0 /\ hist_valid = 0
  /\ loop = NoLoop
  /\ produced = 0 /\ out = <<>>
  /\ lost = [dropped |-> 0, trimmed |-> 0, cleared |-> 0, heard |-> 0]

-----------------------------------------------------------------------------
Lesser(a, b) == IF a <= b THEN a ELSE b
Excess(a, b) == IF a > b THEN a - b ELSE 0
Even(n) == n - (n % 2)

(* advance_pos() and used_samples(). *)
Advance(pos, n) == IF pos + n >= Size THEN pos + n - Size ELSE pos + n
Between(read, write) == IF write >= read THEN write - read ELSE Size - (read - write)
Used == Between(read_pos, write_pos)

(* copy_from_ring(): n samples from pos. *)
Copy(pos, n) == [i \in 1..n |-> buf[Advance(pos, i - 1)]]

-----------------------------------------------------------------------------
(* Mutants of a push: the ring makes no room; the front of a long batch is *)
(* kept instead of its newest samples.                                     *)
PushInto(n, room, skip, target) ==
  LET count == Lesser(n, Capacity)
      write == Advance(write_pos, count)
      read == Advance(read_pos, room)
      after == Between(read, write)
      cut == IF Used + n > MaxSamples THEN Excess(after, target) ELSE 0
  IN  /\ n > 0 /\ produced + n <= MaxProduced
      /\ buf' = [p \in Position |->
                  LET offset == Between(write_pos, p)
                  IN  IF offset < count THEN produced + skip + offset + 1 ELSE buf[p]]
      /\ write_pos' = write /\ read_pos' = Advance(read, cut)
      /\ available' = after - cut
      /\ produced' = produced + n
      /\ lost' = [lost EXCEPT !.dropped = @ + Excess(n, Capacity) + room + cut]
      /\ UNCHANGED <<history, loop, out>>

PushNoRoom(n) == PushInto(n, 0, Excess(n, Capacity), TargetSamples)
PushFront(n) ==
  PushInto(n, Excess(Used + Lesser(n, Capacity), Capacity), 0, TargetSamples)

(* push_samples_bounded(): a batch longer than the ring loses its front,   *)
(* the oldest samples make room, and a queue that peaked above MaxSamples is cut  *)
(* to TargetSamples.                                                              *)
Push(n) ==
  LET skipped == Excess(n, Capacity)
      count == n - skipped
      room == Excess(Used + count, Capacity)
      write == Advance(write_pos, count)
      read == Advance(read_pos, room)
      after == Between(read, write)
      cut == IF Used + n > MaxSamples THEN Excess(after, TargetSamples) ELSE 0
  IN  /\ n > 0 /\ produced + n <= MaxProduced
      /\ buf' = [p \in Position |->
                  LET offset == Between(write_pos, p)
                  IN  IF offset < count THEN produced + skipped + offset + 1
                                        ELSE buf[p]]
      /\ write_pos' = write
      /\ read_pos' = Advance(read, cut)
      /\ available' = after - cut
      /\ produced' = produced + n
      /\ lost' = [lost EXCEPT !.dropped = @ + skipped + room + cut]
      /\ UNCHANGED <<history, loop, out>>

(* history_push(): the newest History samples, written round the buffer.   *)
(* A chunk at least as long as the buffer replaces it from slot 0.         *)
Pushed(h, chunk) ==
  LET n == Len(chunk)
      slot(i) == (h.write + i - 1) % History
  IN  IF n >= History
      THEN [data |-> [p \in 0..History-1 |-> chunk[n - History + p + 1]],
            write |-> 0, valid |-> History]
      ELSE [data |-> [p \in 0..History-1 |->
                        IF \E i \in 1..n : slot(i) = p
                        THEN chunk[CHOOSE i \in 1..n : slot(i) = p] ELSE h.data[p]],
            write |-> (h.write + n) % History,
            valid |-> Lesser(h.valid + n, History)]

Remember(first, second) ==
  LET now == [data |-> hist, write |-> hist_write, valid |-> hist_valid]
      h == Pushed(Pushed(now, first), second)
  IN  hist' = h.data /\ hist_write' = h.write /\ hist_valid' = h.valid

(* Mutant: the loop may start in the middle of a frame. *)
LoopStartsAnywhere(write, valid) == IF valid < History THEN {0} ELSE 0..History-1

(* choose_stutter_start_pos(), once the history is full: a frame boundary, *)
(* by sample values.  Before that the loop starts at slot 0.               *)
LoopStarts(write, valid) ==
  IF valid < History THEN {0}
  ELSE {(write + k) % History : k \in {j \in 0..History-2 : j % 2 = 0}}

(* try_read_samples(): at most `trim` samples are skipped, and only while   *)
(* the request can still be filled; then whole frames are handed out and   *)
(* remembered.  A starved read takes nothing.                              *)
Read(request, trim) ==
  LET queued == Even(Used)
      trimmed == Lesser(Even(trim), Excess(queued, request))
      count == Lesser(request, queued - trimmed)
      from == Advance(read_pos, trimmed)
  IN  IF count = 0
      THEN out' = <<>> /\ UNCHANGED <<ring, history, loop, produced, lost>>
      ELSE /\ out' = Copy(from, count)
           /\ read_pos' = Advance(from, count)
           /\ available' = Used - trimmed - count
           /\ Remember(<<>>, Copy(from, count))
           /\ loop' = [loop EXCEPT !.active = FALSE]
           /\ lost' = [lost EXCEPT !.trimmed = @ + trimmed, !.heard = @ + count]
           /\ UNCHANGED <<buf, write_pos, produced>>

(* Mutant: the drained samples stay in the queue. *)
ReadHistoryPeek(request, drain) ==
  LET drained == Lesser(Even(drain), Even(Used))
  IN  /\ Remember(<<>>, Copy(read_pos, drained))
      /\ hist_valid' >= 2
      /\ out' = [i \in 1..request |-> hist'[(i - 1) % Even(hist_valid')]]
      /\ loop' = [active |-> TRUE, start |-> 0, length |-> Even(hist_valid'),
                  offset |-> request % Even(hist_valid')]
      /\ UNCHANGED <<ring, produced, lost>>

(* try_read_history_samples(): up to `drain` live samples move to the      *)
(* history, in two chunks when they wrap.  A loop latched earlier goes on; *)
(* a new one starts at some frame of the valid history, the one closest    *)
(* in value to the last output.                                            *)
ReadHistory(request, drain) ==
  LET drained == Lesser(Even(drain), Even(Used))
      first == Lesser(drained, Size - read_pos)
  IN  /\ read_pos' = Advance(read_pos, drained)
      /\ available' = Used - drained
      /\ Remember(Copy(read_pos, first), Copy(Advance(read_pos, first), drained - first))
      /\ lost' = [lost EXCEPT !.heard = @ + drained]
      /\ UNCHANGED <<buf, write_pos, produced>>
      /\ IF hist_valid' < 2
         THEN out' = <<>> /\ UNCHANGED loop
         ELSE \E start \in LoopStarts(hist_write', hist_valid') :
                LET latched == IF loop.active THEN loop
                               ELSE [active |-> TRUE, start |-> start,
                                     length |-> Even(hist_valid'), offset |-> 0]
                IN  /\ out' = [i \in 1..request |->
                         hist'[(latched.start + ((latched.offset + i - 1) % latched.length))
                               % History]]
                    /\ loop' = [latched EXCEPT !.offset =
                         (latched.offset + request) % latched.length]

Clear ==
  /\ write_pos' = 0 /\ read_pos' = 0 /\ available' = 0
  /\ hist_write' = 0 /\ hist_valid' = 0
  /\ loop' = NoLoop
  /\ out' = <<>>
  /\ lost' = [lost EXCEPT !.cleared = @ + Used]
  /\ UNCHANGED <<buf, hist, produced>>

-----------------------------------------------------------------------------
(* The SPU pushes, requests and trims whole frames.                        *)
Frames == {n \in 0..Batch : n % 2 = 0}

Next ==
  \/ \E n \in Frames : Push(n)
  \/ \E request \in Frames \ {0}, trim \in Frames : Read(request, trim)
  \/ \E request \in Frames \ {0} : \E drain \in {0, request} : ReadHistory(request, drain)
  \/ Clear

Spec == Init /\ [][Next]_vars

-----------------------------------------------------------------------------
(* Every variable keeps its type, and every position its range.            *)
TypeOK ==
  /\ buf \in [Position -> 0..MaxProduced]
  /\ write_pos \in Position /\ read_pos \in Position
  /\ available \in 0..Capacity
  /\ hist \in [0..History-1 -> 0..MaxProduced]
  /\ hist_write \in 0..History-1 /\ hist_valid \in 0..History
  /\ loop \in [active : BOOLEAN, start : 0..History-1,
               length : 0..History, offset : 0..History]
  /\ produced \in 0..MaxProduced
  /\ out \in Seq(0..MaxProduced)
  /\ lost \in [{"dropped", "trimmed", "cleared", "heard"} -> 0..MaxProduced]

(* After every operation the latency is within max_samples, although the   *)
(* ring itself may hold more, and the published count is the real one.     *)
LatencyBound == Used <= MaxSamples /\ available = Used

(* The unread samples are the newest ones, in order and without a gap,     *)
(* wherever the ring has wrapped.                                          *)
Contiguous ==
  \A i \in 0..Capacity :
    i < Used => buf[Advance(read_pos, i)] = produced - Used + i + 1

(* The SPU's statistics account for every sample once: dropped, trimmed,   *)
(* cleared by a reset, handed to the callback, or still queued.            *)
Ledger ==
  produced = lost.dropped + lost.trimmed + lost.cleared + lost.heard + Used

(* The callback plays left samples on the left, from the queue and from    *)
(* the history loop alike, and the loop never plays an unfilled slot.      *)
ChannelOrder == \A i \in 1..Len(out) : out[i] > 0 /\ out[i] % 2 = i % 2

(* The history loop repeats what was heard or drained, never a sample that *)
(* is still waiting in the queue and will be heard as new.                 *)
LoopIsPast ==
  loop.active => \A i \in 1..Len(out) : out[i] <= produced - Used

(* The ring with its positions and its wrap implements the bounded FIFO.   *)
Fifo == INSTANCE AudioFifo WITH queue <- Copy(read_pos, Used)
RefinesFifo == Fifo!Spec
=============================================================================
