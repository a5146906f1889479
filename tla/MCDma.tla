------------------------------- MODULE MCDma -------------------------------
(* The CHCR values of the checked instance of Dma, and what GpuList's walk  *)
(* does to every list of so many packets.                                   *)
EXTENDS Dma, GpuList

Chcr(mode, toRam, back) == [mode |-> mode, toRam |-> toRam, back |-> back,
                            on |-> TRUE, go |-> mode = "immediate"]

SomeCommands == {Chcr("immediate", TRUE, FALSE), Chcr("block", TRUE, FALSE),
                 Chcr("block", FALSE, TRUE), Chcr("list", FALSE, FALSE),
                 Chcr("reserved", TRUE, FALSE)}

(* Every list that ends is sent whole and every other is flagged, whatever *)
(* memory holds and wherever the transfer starts (dma_linked_list()).      *)
ASSUME ListsAreWalked ==
  /\ PowerOfTwo(Cardinality(Packets)) /\ MaxPackets = 2 * Cardinality(Packets)
  /\ \A list \in Lists :
       /\ Walked(list).state = "cycle" <=> NeverEnds(list)
       /\ Walked(list).state = "ended" <=> ~NeverEnds(list)
       /\ Walked(list).state = "ended" => IsWhole(list, Walked(list).sent)
=============================================================================
