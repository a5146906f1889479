---------------------------- MODULE SerialDevice ----------------------------
(***************************************************************************)
(* What the serial port may rely on from a memory card: after every byte   *)
(* the card is in the middle of a command exactly if it acknowledged the   *)
(* byte, an idle card answers to its access byte only, and whatever drops  *)
(* the command leaves the card idle.                                       *)
(***************************************************************************)
VARIABLES
  busy,     (* a command is in progress                                    *)
  ack       (* the last byte since the last drop was acknowledged          *)

vars == <<busy, ack>>

(* The acknowledgements a card may give to a byte. *)
Answers(inCommand, access) == IF inCommand THEN BOOLEAN ELSE {access}

Init == busy = FALSE /\ ack = FALSE

Byte(access) == /\ ack' \in Answers(busy, access)
                /\ busy' = ack'

Drop == busy' = FALSE /\ ack' = FALSE

Next == (\E access \in BOOLEAN : Byte(access)) \/ Drop

Spec == Init /\ [][Next]_vars
=============================================================================
