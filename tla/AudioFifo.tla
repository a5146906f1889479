------------------------------ MODULE AudioFifo ------------------------------
(***************************************************************************)
(* What the host audio queue promises its two ends: a bounded FIFO of      *)
(* samples.  The producer appends; when the queue would pass MaxSamples the       *)
(* oldest samples go until TargetSamples remain.  The consumer takes whole stereo *)
(* frames from the old end, and nothing else ever leaves or reorders.      *)
(***************************************************************************)
EXTENDS Naturals, Sequences

CONSTANTS TargetSamples, MaxSamples

VARIABLES
  queue,    (* the unread samples, oldest first              *)
  produced  (* samples are numbered in production order      *)

vars == <<queue, produced>>

(* The last n elements of s. *)
Newest(s, n) == SubSeq(s, Len(s) - n + 1, Len(s))

Init == queue = <<>> /\ produced = 0

Push(n) ==
  LET grown == queue \o [i \in 1..n |-> produced + i]
  IN  /\ produced' = produced + n
      /\ queue' = IF Len(grown) > MaxSamples THEN Newest(grown, TargetSamples) ELSE grown

(* Whole stereo frames leave at the old end. *)
Take(n) ==
  /\ n % 2 = 0 /\ n <= Len(queue)
  /\ queue' = Newest(queue, Len(queue) - n)
  /\ UNCHANGED produced

Reset == queue' = <<>> /\ UNCHANGED produced

Next ==
  \/ produced' > produced /\ Push(produced' - produced)
  \/ Take(Len(queue) - Len(queue'))
  \/ Reset

Spec == Init /\ [][Next]_vars
=============================================================================
