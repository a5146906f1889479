------------------------------- MODULE Serial -------------------------------
(***************************************************************************)
(* The serial port (src/src/core/sio.cpp) with the controller on it        *)
(* (src/src/core/pad_controller.cpp) and a memory card in each slot, of    *)
(* which only the promise of SerialDevice is used; MemoryCard keeps it.    *)
(*                                                                         *)
(* A transfer and its acknowledgement are events that may come at any time *)
(* after they were begun.  The bytes the guest sends are the ones that the *)
(* port or the controller tell apart.  Left out are what the guest reads   *)
(* back, the interrupt flag, and the payload of replies but for buttons.   *)
(***************************************************************************)
EXTENDS Integers, FiniteSets

CONSTANTS
  Sockets,    (* the slots a card is put into and taken from               *)
  Queries,    (* 0x45 to 0x4D: commands that only ask, in config mode      *)
  Buttons,    (* what the player may hold down                             *)
  Released    (* ... and 0xFFFF: nothing                                   *)

Slots == {"slot0", "slot1"}
Pad == "01"
Card == "81"
Bytes == {Pad, Card, "42", "43", "44", "00"} \cup Queries
Empty == "empty"
NoButtons == "none"

ASSUME SerialAssumption ==
  /\ Sockets \subseteq Slots
  /\ Queries \cap {Pad, Card, "42", "43", "44", "00", Empty} = {}
  /\ Released \in Buttons /\ NoButtons \notin Buttons

VARIABLES
  ctrl,      (* ctrl_: of TXEN, SELECT and SLOT1, those that are set       *)
  tx,        (* transmit_buffer_ when transmit_buffer_full_, or Empty      *)
  shifting,  (* transmit_value_ while it is transmitted, or Empty          *)
  state,     (* transfer_state_                                            *)
  active,    (* active_device_: "None", "Controller", or a card's slot     *)
  pad,       (* the controller                                             *)
  buttons,   (* its button_state_                                          *)
  inserted,  (* the slots with a card                                      *)
  busy,      (* the slots whose card is in the middle of a command         *)
  (* Histories. *)
  stray,     (* the byte in tx was not written in this selection           *)
  begun,     (* transfers begun in this selection: none, a first, a later  *)
  strayed,   (* the byte shifting is a stray                               *)
  refused,   (* the last transfer of this selection was not acknowledged   *)
  reply      (* the reply the controller is giving: the bytes it announced *)
             (* and has not sent, and the two halves of the buttons it sent *)

device == <<pad, busy, reply>>
vars == <<ctrl, tx, shifting, state, active, pad, buttons, inserted, busy,
          stray, begun, strayed, refused, reply>>

(***************************************************************************)
(* The controller: PadController.                                          *)
(***************************************************************************)
NoReply == [owed |-> 0, low |-> NoButtons, high |-> NoButtons]

(* reset_transfer_state(): the modes stay.                                 *)
Quiet(p) == [p EXCEPT !.command = "Idle", !.step = 0, !.length = 0,
                      !.mark = FALSE, !.held = NoButtons]
PadOff == [command |-> "Idle", step |-> 0, length |-> 0, mark |-> FALSE,
           held |-> NoButtons, config |-> FALSE, analog |-> FALSE]

(* response_halfwords(), which the ID byte announces, and the length of a   *)
(* reply with its ID byte.                                                 *)
Halfwords(p) == IF p.config \/ p.analog THEN 3 ELSE 1
Length(p) == 2 * (Halfwords(p) + 1)

(* Ready: which command a byte begins.                                     *)
Begins(p, b) == CASE b = "42" -> "ReadPad"
                  [] b = "43" -> "ConfigMode"
                  [] b = "44" /\ p.config -> "SetAnalogMode"
                  [] b \in Queries /\ p.config -> "Query"
                  [] OTHER -> "Ready"
Chosen(p, b) ==
  [p EXCEPT !.command = Begins(p, b), !.step = 0, !.length = Length(p),
            !.held = IF b = "42" \/ (b = "43" /\ ~p.config) THEN buttons ELSE @]

(* What a byte does to the modes in the middle of a command.               *)
Marked(p, b) == [p EXCEPT !.mark = IF p.step = 2 /\ p.command = "ConfigMode"
                                   THEN b = "01" ELSE @]
Moded(p, b) ==
  CASE p.command = "ConfigMode" /\ p.step = p.length - 1 -> [p EXCEPT !.config = p.mark]
    [] p.command = "SetAnalogMode" /\ p.step = 2 /\ b \in {"00", "01"} ->
         [p EXCEPT !.analog = b = "01"]
    [] OTHER -> p

(* The answer to a byte of a command: whether more is to come, the         *)
(* controller after it, and the half of the buttons it carried.            *)
Following(p) == (p.step + 1) % p.length
Advanced(p) == IF Following(p) = 0 THEN Quiet(p) ELSE [p EXCEPT !.step = Following(p)]
(* Mutant: the buttons are read as each half is sent.                      *)
SentLive(p) == buttons

Sent(p) == p.held

Told(p, r) ==
  [owed |-> IF p.step = 0 THEN 2 * Halfwords(p) + 1 ELSE r.owed - 1,
   low  |-> IF p.step = 0 THEN NoButtons ELSE IF p.step = 2 THEN Sent(p) ELSE r.low,
   high |-> IF p.step = 0 THEN NoButtons ELSE IF p.step = 3 THEN Sent(p) ELSE r.high]

(* transfer(): the acknowledgement, the controller and its reply after it. *)
PadTransfer(b) ==
  CASE pad.command = "Idle" ->
         [ack |-> b = Pad, reply |-> reply,
          pad |-> IF b = Pad THEN [pad EXCEPT !.command = "Ready"] ELSE pad]
    [] pad.command = "Ready" /\ Begins(pad, b) = "Ready" ->
         [ack |-> FALSE, reply |-> reply, pad |-> Chosen(pad, b)]
    [] OTHER ->
         LET p == IF pad.command = "Ready" THEN Chosen(pad, b)
                  ELSE Moded(Marked(pad, b), b) IN
         [ack |-> Following(p) # 0, reply |-> Told(p, reply), pad |-> Advanced(p)]

(***************************************************************************)
(* The port.                                                               *)
(***************************************************************************)
Selected(c) == "SELECT" \in c
Enabled(c) == {"SELECT", "TXEN"} \subseteq c
Slot == IF "SLOT1" \in ctrl THEN "slot1" ELSE "slot0"

Init ==
  /\ ctrl = {} /\ tx = Empty /\ shifting = Empty /\ state = "Idle" /\ active = "None"
  /\ pad = PadOff /\ buttons = Released /\ inserted = {} /\ busy = {}
  /\ stray = FALSE /\ begun = "none" /\ strayed = FALSE /\ refused = FALSE /\ reply = NoReply

(* Mutant: a deselected card stays in its command.                         *)
ResetDevicesButCards ==
  active' = "None" /\ pad' = Quiet(pad) /\ busy' = busy /\ reply' = NoReply

(* reset_device_transfer_state() *)
ResetDevices == active' = "None" /\ pad' = Quiet(pad) /\ busy' = {} /\ reply' = NoReply

(* Mutant: the transmit buffer stays full.                                 *)
BeginAgain(b, foreign) ==
  /\ state' = "Transmitting" /\ shifting' = b /\ tx' = tx
  /\ strayed' = foreign /\ stray' = stray /\ refused' = FALSE
  /\ begun' = IF begun = "none" THEN "first" ELSE "later"

(* begin_transfer() with byte b, and no transfer begun. *)
Begin(b, foreign) ==
  /\ state' = "Transmitting" /\ shifting' = b /\ tx' = Empty
  /\ strayed' = foreign /\ stray' = FALSE /\ refused' = FALSE
  /\ begun' = IF begun = "none" THEN "first" ELSE "later"

(* write8() to the data register. *)
WriteData(b) ==
  /\ IF state = "Idle" /\ Enabled(ctrl)
     THEN Begin(b, FALSE)
     ELSE /\ tx' = b /\ stray' = ~Selected(ctrl)
          /\ UNCHANGED <<state, shifting, strayed, refused, begun>>
  /\ UNCHANGED <<ctrl, active, device, buttons, inserted>>

(* write16() to the control register, without and with its reset bit.      *)
WriteControl(c) ==
  /\ ctrl' = c
  /\ IF Selected(c) THEN UNCHANGED <<active, device>> ELSE ResetDevices
  /\ CASE Enabled(c) /\ state = "Idle" /\ tx # Empty -> Begin(tx, stray)
       [] Enabled(c) /\ ~(state = "Idle" /\ tx # Empty) ->
            UNCHANGED <<tx, state, shifting, strayed, stray, refused, begun>>
       [] OTHER ->
            /\ state' = "Idle" /\ shifting' = Empty /\ strayed' = FALSE
            /\ stray' = (tx # Empty /\ (stray \/ ~Selected(c)))
            /\ begun' = IF Selected(c) THEN begun ELSE "none"
            /\ refused' = (refused /\ Selected(c))
            /\ UNCHANGED tx
  /\ UNCHANGED <<buttons, inserted>>

SoftReset ==
  /\ ctrl' = {} /\ tx' = Empty /\ shifting' = Empty /\ state' = "Idle"
  /\ stray' = FALSE /\ strayed' = FALSE /\ begun' = "none" /\ refused' = FALSE
  /\ ResetDevices
  /\ UNCHANGED <<buttons, inserted>>

(* do_transfer(): which device takes the byte, if any.                     *)
Device == INSTANCE SerialDevice WITH busy <- FALSE, ack <- FALSE

ToCard == /\ \/ active = "None" /\ shifting = Card
             \/ active = Slot
          /\ Slot \in inserted
ToPad == \/ active = "None" /\ shifting # Card
         \/ active = "Controller" /\ Slot = "slot0"

Ended(ack, who) ==
  /\ state' = IF ack THEN "WaitingForAck" ELSE "Idle"
  /\ active' = IF ack THEN who ELSE "None"
  /\ refused' = ~ack /\ shifting' = Empty /\ strayed' = FALSE

DoTransfer ==
  /\ state = "Transmitting"
  /\ \/ /\ ToCard
        /\ \E ack \in Device!Answers(Slot \in busy, shifting = Card) :
             /\ busy' = IF ack THEN busy \cup {Slot} ELSE busy \ {Slot}
             /\ Ended(ack, Slot)
        /\ UNCHANGED <<pad, reply>>
     \/ /\ ToPad
        /\ LET r == PadTransfer(shifting) IN
             pad' = r.pad /\ reply' = r.reply /\ Ended(r.ack, "Controller")
        /\ UNCHANGED busy
     \/ ~ToCard /\ ~ToPad /\ Ended(FALSE, "None") /\ UNCHANGED device
  /\ UNCHANGED <<ctrl, tx, buttons, inserted, stray, begun>>

(* Mutant: the byte that waits is not begun.                               *)
DoAckEnds ==
  /\ state = "WaitingForAck"
  /\ state' = "Idle" /\ UNCHANGED <<tx, shifting, strayed, stray, refused, begun>>
  /\ UNCHANGED <<ctrl, active, device, buttons, inserted>>

DoAck ==
  /\ state = "WaitingForAck"
  /\ IF tx # Empty /\ Enabled(ctrl)
     THEN Begin(tx, stray)
     ELSE state' = "Idle" /\ UNCHANGED <<tx, shifting, strayed, stray, refused, begun>>
  /\ UNCHANGED <<ctrl, active, device, buttons, inserted>>

(* The other threads' operations, between two frames: the buttons, a card  *)
(* mounted or ejected, and the machine reset.                              *)
SetButtons(b) ==
  /\ buttons' = b
  /\ UNCHANGED <<ctrl, tx, shifting, state, active, device, inserted, stray, begun,
                 strayed, refused>>

SetCard(slot) ==
  /\ \/ inserted' = inserted \cup {slot} \/ inserted' = inserted \ {slot}
  /\ ResetDevices
  /\ UNCHANGED <<ctrl, tx, shifting, state, buttons, stray, begun, strayed, refused>>

Reset ==
  /\ ctrl' = {} /\ tx' = Empty /\ shifting' = Empty /\ state' = "Idle"
  /\ stray' = FALSE /\ strayed' = FALSE /\ begun' = "none" /\ refused' = FALSE
  /\ active' = "None" /\ pad' = PadOff /\ busy' = {} /\ reply' = NoReply
  /\ buttons' = Released
  /\ UNCHANGED inserted

Next ==
  \/ \E b \in Bytes : WriteData(b)
  \/ \E c \in SUBSET {"TXEN", "SELECT", "SLOT1"} : WriteControl(c)
  \/ SoftReset \/ DoTransfer \/ DoAck
  \/ \E b \in Buttons : SetButtons(b)
  \/ \E s \in Sockets : SetCard(s)
  \/ Reset

Spec == Init /\ [][Next]_vars

(***************************************************************************)
(* Properties.                                                             *)
(***************************************************************************)
Replying == pad.command \notin {"Idle", "Ready"}

(* No command goes on from one selection to the next: while the port is    *)
(* deselected nothing is transferred and every device is idle; and the     *)
(* device the port is talking to is in the middle of a command.            *)
SelectionsApart ==
  /\ ~Selected(ctrl) => /\ state = "Idle" /\ active = "None"
                        /\ pad.command = "Idle" /\ busy = {}
  /\ active = "Controller" => pad.command # "Idle"
  /\ active \in Slots => active \in busy \cap inserted

(* A byte that was written before the port was selected may be sent in a   *)
(* selection, but only as its first.                                       *)
OnlyFirstByteStrays == strayed => begun = "first"

(* A byte waits in the buffer of an enabled port only while another is     *)
(* transferred, or after one was not acknowledged.                         *)
WaitsOnlyWhenRefused == Enabled(ctrl) /\ tx # Empty /\ state = "Idle" => refused

(* A reply is as long as its ID byte announced, whatever modes it sets,    *)
(* and both halves of the buttons in it are from the same moment.          *)
ReplyWhole ==
  /\ Replying => reply.owed = pad.length - pad.step
  /\ reply.high # NoButtons => reply.high = reply.low
=============================================================================
