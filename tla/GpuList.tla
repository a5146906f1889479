------------------------------- MODULE GpuList -------------------------------
(***************************************************************************)
(* The walk of a list of drawing packets, dma_linked_list() of             *)
(* src/core/dma.cpp.  The processor stands still while it runs, so memory, *)
(* which gives each packet the next one, does not change under it.  A list *)
(* that was corrupted may never end: Brent's algorithm keeps one packet    *)
(* (the tortoise), compares every later one with it, and moves it up after *)
(* 1, 2, 4, ... packets.                                                   *)
(*                                                                         *)
(* The words of a packet are left out: what counts is which packets are    *)
(* sent to the GPU, in which order, and when the walk stops.               *)
(***************************************************************************)
EXTENDS Integers, Sequences, FiniteSets

CONSTANTS
  Packets,     (* the addresses in RAM a header may stand at                *)
  NoPacket,    (* the link of a header with the end-of-list mark            *)
  MaxPackets   (* the walk gives up after so many links: 0x100000           *)

ASSUME GpuListAssumption ==
  IsFiniteSet(Packets) /\ NoPacket \notin Packets /\ MaxPackets \in Nat

(* What memory may hold, and where the transfer starts.                    *)
Lists == [link : [Packets -> Packets \cup {NoPacket}], first : Packets]

WalkStart(list) ==
  [at |-> list.first, tortoise |-> list.first, power |-> 1, steps |-> 0,
   sent |-> <<>>, state |-> "walking"]

(* One turn of the loop: the packet at hand is sent, its link followed.    *)
Visit(list, w) ==
  LET next   == list.link[w.at]
      passed == [w EXCEPT !.sent = Append(@, w.at)]
  IN IF next = NoPacket THEN [passed EXCEPT !.state = "ended"]
     ELSE IF next = w.tortoise THEN [passed EXCEPT !.at = next, !.state = "cycle"]
     ELSE IF w.steps + 1 = w.power
          THEN [passed EXCEPT !.at = next, !.tortoise = next, !.power = 2 * @, !.steps = 0]
     ELSE [passed EXCEPT !.at = next, !.steps = @ + 1]

(* The walk after n turns of the loop, for every list.                     *)
walk[n \in Nat] ==
  [list \in Lists |->
    IF n = 0 THEN WalkStart(list)
    ELSE LET w == walk[n-1][list] IN IF w.state = "walking" THEN Visit(list, w) ELSE w]

(* One that is still walking then has been given up.                       *)
Walked(list) == walk[MaxPackets][list]

(***************************************************************************)
(* What the walk is measured by: a list never ends when some packets       *)
(* contain the first one and the next of each of them.                     *)
(***************************************************************************)
NeverEnds(list) ==
  \E S \in SUBSET Packets : list.first \in S /\ \A p \in S : list.link[p] \in S

(* Doubled over and over, 1 comes to n: the packets the tortoise waits for. *)
PowerOfTwo(n) ==
  \E P \in SUBSET (1..n) : 1 \in P /\ \A x \in P \ {n} : 2 * x \in P

(* The list from its first packet to the one with the mark, none twice.    *)
IsWhole(list, sent) ==
  /\ sent \in Seq(Packets) /\ sent # <<>> /\ sent[1] = list.first
  /\ \A i \in 1..Len(sent)-1 : list.link[sent[i]] = sent[i+1]
  /\ list.link[sent[Len(sent)]] = NoPacket
  /\ \A i, j \in 1..Len(sent) : i # j => sent[i] # sent[j]
=============================================================================
