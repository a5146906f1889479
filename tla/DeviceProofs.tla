----------------------------- MODULE DeviceProofs -----------------------------
(***************************************************************************)
(* Proofs about three devices.                                             *)
(*                                                                         *)
(* The serial port: no command goes on from one selection to the next, a   *)
(* byte from before a selection is sent first in it or never, a byte waits *)
(* only after one that was refused, and a reply keeps to what its ID byte  *)
(* announced.  For any buttons, queries and slots in use.                  *)
(*                                                                         *)
(* The root counters: an advance may be cut anywhere, the announced cycle  *)
(* is that of the next interrupt, and a one-shot interrupts once.          *)
(*                                                                         *)
(* The walk of the GPU's list: it flags the lists that never end, and only *)
(* those, and sends every other one whole.                                 *)
(***************************************************************************)
EXTENDS Serial, Timers, GpuList, FiniteSetTheorems, WellFoundedInduction, TLAPS

-----------------------------------------------------------------------------
(***************************************************************************)
(* The controller, apart from the port.                                    *)
(***************************************************************************)
Fields == {"command", "step", "length", "mark", "held", "config", "analog"}
Replies == {"ReadPad", "ConfigMode", "SetAnalogMode", "Query"}

(* The controller p in the middle of reply r: what of it is sent, and which *)
(* half of the buttons comes next.                                         *)
Midway(p, r) ==
  p.command \notin {"Idle", "Ready"} =>
    /\ p.length \in {4, 8} /\ p.step \in 1 .. p.length - 1
    /\ r.owed = p.length - p.step
    /\ p.step <= 3 => r.high = NoButtons
    /\ p.step = 3 => r.low = p.held

PadInv(p, r) ==
  /\ DOMAIN p = Fields /\ p = [f \in Fields |-> p[f]]
  /\ p.command \in {"Idle", "Ready"} \cup Replies
  /\ Midway(p, r)
  /\ r.high # NoButtons => r.high = r.low

LEMMA QuietInv ==
  ASSUME PadInv(pad, reply)
  PROVE  PadInv(Quiet(pad), NoReply) /\ Quiet(pad).command = "Idle"
BY DEF PadInv, Midway, Quiet, NoReply, Fields

LEMMA PadOffInv == PadInv(PadOff, NoReply) /\ PadOff.command = "Idle"
BY DEF PadInv, Midway, PadOff, NoReply, Fields

(* The place after the next byte. *)
LEMMA Follows ==
  ASSUME NEW p, p.length \in {4, 8}, p.step \in 0 .. p.length - 1
  PROVE  Following(p) = IF p.step + 1 = p.length THEN 0 ELSE p.step + 1
<1>1. CASE p.length = 4
  BY <1>1 DEF Following
<1>2. CASE p.length = 8
  BY <1>2 DEF Following
<1>3. QED
  BY <1>1, <1>2

(* One byte of a reply that is sent from p, and the reply after it. *)
LEMMA ReplyStep ==
  ASSUME NEW p, NEW r, DOMAIN p = Fields, p = [f \in Fields |-> p[f]],
         p.command \in Replies, p.length \in {4, 8}, p.step \in 0 .. p.length - 1,
         p.step = 0 => p.length = Length(p),
         p.step > 0 => Midway(p, r) /\ (r.high # NoButtons => r.high = r.low)
  PROVE  /\ PadInv(Advanced(p), Told(p, r))
         /\ Following(p) # 0 => Advanced(p).command # "Idle"
<1>1. Following(p) = IF p.step + 1 = p.length THEN 0 ELSE p.step + 1
  BY Follows
<1>2. p.command \notin {"Idle", "Ready"}
  BY DEF Replies
<1>3. Halfwords(p) \in {1, 3} /\ (p.step = 0 => p.length = 2 * Halfwords(p) + 2)
  BY DEF Halfwords, Length
<1>4. /\ Told(p, r).owed = p.length - (p.step + 1)
      /\ p.step = 0 => Told(p, r).low = NoButtons /\ Told(p, r).high = NoButtons
      /\ p.step = 2 => Told(p, r).low = p.held
      /\ p.step \in {1, 2} => Told(p, r).high = NoButtons
      /\ p.step = 3 => Told(p, r).high = p.held /\ Told(p, r).low = p.held
      /\ p.step > 3 => Told(p, r).high = r.high /\ Told(p, r).low = r.low
  BY <1>2, <1>3 DEF Told, Sent, Midway
<1>5. Told(p, r).high # NoButtons => Told(p, r).high = Told(p, r).low
  BY <1>4
<1>6. CASE Following(p) = 0
  <2>1. Advanced(p) = Quiet(p)
    BY <1>6 DEF Advanced
  <2>2. QED
    BY <1>5, <1>6, <2>1 DEF PadInv, Midway, Quiet, Fields
<1>7. CASE Following(p) # 0
  <2>1. Advanced(p) = [p EXCEPT !.step = p.step + 1] /\ p.step + 1 # p.length
    BY <1>1, <1>7 DEF Advanced
  <2>2. /\ Advanced(p).command = p.command /\ Advanced(p).length = p.length
        /\ Advanced(p).step = p.step + 1 /\ Advanced(p).held = p.held
        /\ DOMAIN Advanced(p) = Fields /\ Advanced(p) = [f \in Fields |-> Advanced(p)[f]]
    BY <2>1 DEF Fields
  <2>3. Midway(Advanced(p), Told(p, r))
    BY <1>4, <2>1, <2>2 DEF Midway
  <2>4. QED
    BY <1>2, <1>5, <2>2, <2>3 DEF PadInv
<1>8. QED
  BY <1>6, <1>7

(* What a byte chooses, and what it does to the modes, leave the rest of    *)
(* the controller alone.                                                   *)
LEMMA ChosenPad ==
  ASSUME PadInv(pad, reply), NEW b, Begins(pad, b) # "Ready"
  PROVE  LET p == Chosen(pad, b) IN
         /\ DOMAIN p = Fields /\ p = [f \in Fields |-> p[f]]
         /\ p.command \in Replies /\ p.step = 0
         /\ p.length \in {4, 8} /\ p.length = Length(p)
<1>1. Begins(pad, b) \in Replies
  BY DEF Begins, Replies
<1>2. Length(pad) \in {4, 8}
  BY DEF Length, Halfwords
<1>3. /\ DOMAIN Chosen(pad, b) = Fields
      /\ Chosen(pad, b) = [f \in Fields |-> Chosen(pad, b)[f]]
      /\ Chosen(pad, b).command = Begins(pad, b) /\ Chosen(pad, b).step = 0
      /\ Chosen(pad, b).length = Length(pad)
      /\ Chosen(pad, b).config = pad.config /\ Chosen(pad, b).analog = pad.analog
  BY DEF Chosen, PadInv, Fields
<1>4. QED
  BY <1>1, <1>2, <1>3 DEF Length, Halfwords

LEMMA ModedPad ==
  ASSUME PadInv(pad, reply), NEW b
  PROVE  LET p == Moded(Marked(pad, b), b) IN
         /\ DOMAIN p = Fields /\ p = [f \in Fields |-> p[f]]
         /\ p.command = pad.command /\ p.step = pad.step
         /\ p.length = pad.length /\ p.held = pad.held
<1> DEFINE q == Marked(pad, b)
<1>1. /\ DOMAIN q = Fields /\ q = [f \in Fields |-> q[f]]
      /\ q.command = pad.command /\ q.step = pad.step
      /\ q.length = pad.length /\ q.held = pad.held
  BY DEF Marked, PadInv, Fields
<1> HIDE DEF q
<1>2. /\ DOMAIN Moded(q, b) = Fields /\ Moded(q, b) = [f \in Fields |-> Moded(q, b)[f]]
      /\ Moded(q, b).command = q.command /\ Moded(q, b).step = q.step
      /\ Moded(q, b).length = q.length /\ Moded(q, b).held = q.held
  BY <1>1 DEF Moded, Fields
<1>3. QED
  BY <1>1, <1>2 DEF q

(* A byte answered by the controller.                                      *)
LEMMA PadByte ==
  ASSUME PadInv(pad, reply), NEW b
  PROVE  LET sent == PadTransfer(b) IN
         PadInv(sent.pad, sent.reply) /\ (sent.ack => sent.pad.command # "Idle")
<1>1. CASE pad.command = "Idle"
  <2> DEFINE ready == [pad EXCEPT !.command = "Ready"]
  <2>1. /\ PadTransfer(b).ack = (b = Pad) /\ PadTransfer(b).reply = reply
        /\ PadTransfer(b).pad = IF b = Pad THEN ready ELSE pad
    BY <1>1 DEF PadTransfer
  <2>2. PadInv(ready, reply) /\ ready.command = "Ready"
    BY DEF PadInv, Midway, Fields
  <2> HIDE DEF ready
  <2>3. CASE b = Pad
    BY <2>1, <2>2, <2>3
  <2>4. CASE b # Pad
    BY <2>1, <2>4
  <2>5. QED
    BY <2>3, <2>4
<1>2. CASE pad.command = "Ready" /\ Begins(pad, b) = "Ready"
  <2>1. /\ PadTransfer(b).ack = FALSE /\ PadTransfer(b).reply = reply
        /\ PadTransfer(b).pad = Chosen(pad, b)
    BY <1>2 DEF PadTransfer
  <2>2. PadInv(Chosen(pad, b), reply)
    BY <1>2 DEF PadInv, Midway, Chosen, Fields
  <2>3. QED
    BY <2>1, <2>2
<1>3. CASE pad.command # "Idle" /\ ~(pad.command = "Ready" /\ Begins(pad, b) = "Ready")
  <2> DEFINE p == IF pad.command = "Ready" THEN Chosen(pad, b) ELSE Moded(Marked(pad, b), b)
  <2>1. /\ PadTransfer(b).ack = (Following(p) # 0)
        /\ PadTransfer(b).reply = Told(p, reply) /\ PadTransfer(b).pad = Advanced(p)
    BY <1>3 DEF PadTransfer
  <2>2. /\ DOMAIN p = Fields /\ p = [f \in Fields |-> p[f]]
        /\ p.command \in Replies /\ p.length \in {4, 8} /\ p.step \in 0 .. p.length - 1
        /\ p.step = 0 => p.length = Length(p)
        /\ p.step > 0 => Midway(p, reply) /\ (reply.high # NoButtons => reply.high = reply.low)
    <3>1. CASE pad.command = "Ready"
      BY <1>3, <3>1, ChosenPad
    <3>2. CASE pad.command # "Ready"
      BY <1>3, <3>2, ModedPad DEF PadInv, Midway, Replies
    <3>3. QED
      BY <3>1, <3>2
  <2> HIDE DEF p
  <2>3. PadInv(Advanced(p), Told(p, reply)) /\ (Following(p) # 0 => Advanced(p).command # "Idle")
    BY <2>2, ReplyStep
  <2>4. QED
    BY <2>1, <2>3
<1>4. QED
  BY <1>1, <1>2, <1>3

-----------------------------------------------------------------------------
(***************************************************************************)
(* The port.  A stray byte is one that waits and finds a selection in which *)
(* nothing was sent: that is why it can only be sent first.                *)
(***************************************************************************)
PortTypes ==
  /\ state \in {"Idle", "Transmitting", "WaitingForAck"}
  /\ active \in {"None", "Controller"} \cup Slots

Strays == /\ stray => tx # Empty /\ begun = "none"
          /\ ~Selected(ctrl) => begun = "none"

IInv == /\ PortTypes /\ Strays /\ PadInv(pad, reply)
        /\ SelectionsApart /\ OnlyFirstByteStrays /\ WaitsOnlyWhenRefused

(* The part of it that is about the line, and the part about the devices.  *)
LineInv == Strays /\ OnlyFirstByteStrays /\ WaitsOnlyWhenRefused
line == <<ctrl, tx, shifting, state, stray, begun, strayed, refused>>

LEMMA LineKept == ASSUME LineInv, UNCHANGED line PROVE LineInv'
BY DEF LineInv, line, Strays, OnlyFirstByteStrays, WaitsOnlyWhenRefused, Selected, Enabled

LEMMA SlotInSlots == Slot \in Slots
BY DEF Slot, Slots

LEMMA EnabledIsSelected == \A c : Enabled(c) => Selected(c)
BY DEF Enabled, Selected

LEMMA InitInv == Init => IInv
<1> SUFFICES ASSUME Init PROVE IInv
  OBVIOUS
<1>1. PadInv(pad, reply) /\ pad.command = "Idle"
  BY PadOffInv DEF Init
<1>2. PortTypes /\ Strays /\ OnlyFirstByteStrays /\ WaitsOnlyWhenRefused
  BY DEF Init, PortTypes, Strays, OnlyFirstByteStrays, WaitsOnlyWhenRefused
<1>3. SelectionsApart
  BY <1>1 DEF Init, SelectionsApart, Slots
<1>4. QED
  BY <1>1, <1>2, <1>3 DEF IInv

(* Every device idle. *)
LEMMA DevicesReset ==
  ASSUME IInv, ResetDevices
  PROVE  /\ PadInv(pad, reply)' /\ pad'.command = "Idle" /\ busy' = {} /\ active' = "None"
         /\ (state' = "Idle" \/ Selected(ctrl')) => SelectionsApart'
<1>1. PadInv(Quiet(pad), NoReply) /\ Quiet(pad).command = "Idle"
  BY QuietInv DEF IInv
<1>2. PadInv(pad, reply)' /\ pad'.command = "Idle" /\ busy' = {} /\ active' = "None"
  BY <1>1 DEF ResetDevices
<1>3. QED
  BY <1>2 DEF SelectionsApart, Slots

LEMMA WriteDataStep ==
  ASSUME IInv, NEW b \in Bytes, WriteData(b)
  PROVE  IInv'
<1> USE DEF WriteData, device
<1>1. PadInv(pad, reply)'
  BY DEF IInv
<1>2. b # Empty
  BY SerialAssumption DEF Bytes, Empty, Pad, Card
<1>3. CASE state = "Idle" /\ Enabled(ctrl)
  <2>1. Begin(b, FALSE) /\ Selected(ctrl)
    BY <1>3, EnabledIsSelected
  <2>2. SelectionsApart' /\ PortTypes'
    BY <2>1 DEF IInv, SelectionsApart, PortTypes, Begin
  <2>3. LineInv'
    BY <2>1 DEF LineInv, Strays, OnlyFirstByteStrays, WaitsOnlyWhenRefused, Begin
  <2>4. QED
    BY <1>1, <2>2, <2>3 DEF IInv, LineInv
<1>4. CASE ~(state = "Idle" /\ Enabled(ctrl))
  <2>1. /\ tx' = b /\ stray' = ~Selected(ctrl)
        /\ UNCHANGED <<ctrl, state, shifting, strayed, refused, begun>>
    BY <1>4
  <2>2. SelectionsApart' /\ PortTypes'
    BY <2>1 DEF IInv, SelectionsApart, PortTypes
  <2>3. Strays' /\ OnlyFirstByteStrays'
    BY <1>2, <2>1 DEF IInv, Strays, OnlyFirstByteStrays
  <2>4. WaitsOnlyWhenRefused'
    BY <1>4, <2>1 DEF WaitsOnlyWhenRefused
  <2>5. QED
    BY <1>1, <2>2, <2>3, <2>4 DEF IInv
<1>5. QED
  BY <1>3, <1>4

LEMMA WriteControlStep ==
  ASSUME IInv, NEW c, WriteControl(c)
  PROVE  IInv'
<1>1. /\ ctrl' = c
      /\ Selected(c) => UNCHANGED <<active, device>>
      /\ ~Selected(c) => ResetDevices
      /\ UNCHANGED <<buttons, inserted>>
  BY DEF WriteControl
<1>2. PadInv(pad, reply)'
  BY <1>1, DevicesReset DEF IInv, device
<1>3. active' \in {"None", "Controller"} \cup Slots
  BY <1>1, DevicesReset DEF IInv, PortTypes
<1>4. /\ Selected(c) => /\ active' = "Controller" => pad'.command # "Idle"
                        /\ active' \in Slots => active' \in busy' \cap inserted'
  BY <1>1 DEF IInv, SelectionsApart, device
<1>5. Selected(c) => SelectionsApart'
  BY <1>1, <1>4 DEF SelectionsApart
<1>6. CASE Enabled(c) /\ state = "Idle" /\ tx # Empty
  <2>1. Begin(tx, stray) /\ Selected(c)
    BY <1>6, EnabledIsSelected DEF WriteControl
  <2>2. PortTypes'
    BY <1>3, <2>1 DEF PortTypes, Begin
  <2>3. LineInv'
    BY <1>1, <2>1 DEF IInv, LineInv, Strays, OnlyFirstByteStrays, WaitsOnlyWhenRefused, Begin
  <2>4. QED
    BY <1>2, <1>5, <2>1, <2>2, <2>3 DEF IInv, LineInv
<1>7. CASE Enabled(c) /\ ~(state = "Idle" /\ tx # Empty)
  <2>1. UNCHANGED <<tx, state, shifting, strayed, stray, refused, begun>> /\ Selected(c)
    BY <1>7, EnabledIsSelected DEF WriteControl
  <2>2. PortTypes'
    BY <1>3, <2>1 DEF IInv, PortTypes
  <2>3. LineInv'
    BY <1>1, <1>7, <2>1 DEF IInv, LineInv, Strays, OnlyFirstByteStrays, WaitsOnlyWhenRefused
  <2>4. QED
    BY <1>2, <1>5, <2>1, <2>2, <2>3 DEF IInv, LineInv
<1>8. CASE ~Enabled(c)
  <2>1. /\ state' = "Idle" /\ shifting' = Empty /\ strayed' = FALSE
        /\ stray' = (tx # Empty /\ (stray \/ ~Selected(c)))
        /\ begun' = IF Selected(c) THEN begun ELSE "none"
        /\ UNCHANGED tx
    BY <1>8 DEF WriteControl
  <2>2. PortTypes'
    BY <1>3, <2>1 DEF PortTypes
  <2>3. Strays' /\ OnlyFirstByteStrays'
    BY <1>1, <2>1 DEF IInv, Strays, OnlyFirstByteStrays
  <2>4. WaitsOnlyWhenRefused'
    BY <1>1, <1>8 DEF WaitsOnlyWhenRefused
  <2>5. SelectionsApart'
    BY <1>1, <1>5, <2>1, DevicesReset
  <2>6. QED
    BY <1>2, <2>2, <2>3, <2>4, <2>5 DEF IInv
<1>9. QED
  BY <1>6, <1>7, <1>8

LEMMA ResetStep ==
  ASSUME IInv, SoftReset \/ Reset
  PROVE  IInv'
<1>1. /\ ctrl' = {} /\ tx' = Empty /\ state' = "Idle" /\ stray' = FALSE
      /\ strayed' = FALSE /\ begun' = "none"
  BY DEF SoftReset, Reset
<1>2. /\ PadInv(pad, reply)' /\ pad'.command = "Idle" /\ busy' = {} /\ active' = "None"
  <2>1. CASE SoftReset
    BY <2>1, DevicesReset DEF SoftReset
  <2>2. CASE Reset
    BY <2>2, PadOffInv DEF Reset
  <2>3. QED
    BY <2>1, <2>2
<1>3. SelectionsApart'
  BY <1>1, <1>2 DEF SelectionsApart, Slots
<1>4. PortTypes' /\ Strays' /\ OnlyFirstByteStrays' /\ WaitsOnlyWhenRefused'
  BY <1>1, <1>2 DEF PortTypes, Strays, OnlyFirstByteStrays, WaitsOnlyWhenRefused
<1>5. QED
  BY <1>2, <1>3, <1>4 DEF IInv

(* A device has answered.                                                  *)
LEMMA Answered ==
  ASSUME IInv, state = "Transmitting", NEW STATE ack,
         NEW STATE who, who \in {"None", "Controller"} \cup Slots,
         Ended(ack, who), UNCHANGED <<ctrl, tx, buttons, inserted, stray, begun>>
  PROVE  /\ PortTypes' /\ LineInv' /\ Selected(ctrl') /\ (active' = who \/ active' = "None")
         /\ active' # "None" => ack
<1>1. state' \in {"Idle", "WaitingForAck"} /\ (state' = "Idle" => refused')
  BY DEF Ended
<1>2. active' \in {who, "None"} /\ (active' # "None" => ack)
  BY DEF Ended
<1>3. Selected(ctrl)
  BY DEF IInv, SelectionsApart
<1>4. LineInv'
  BY <1>1 DEF IInv, LineInv, Strays, OnlyFirstByteStrays, WaitsOnlyWhenRefused, Ended
<1>5. QED
  BY <1>1, <1>2, <1>3, <1>4 DEF PortTypes

LEMMA DoTransferStep ==
  ASSUME IInv, DoTransfer
  PROVE  IInv'
<1>1. state = "Transmitting" /\ UNCHANGED <<ctrl, tx, buttons, inserted, stray, begun>>
  BY DEF DoTransfer
<1>2. CASE /\ ToCard
           /\ \E ack \in Device!Answers(Slot \in busy, shifting = Card) :
                /\ busy' = IF ack THEN busy \cup {Slot} ELSE busy \ {Slot}
                /\ Ended(ack, Slot)
           /\ UNCHANGED <<pad, reply>>
  <2>1. PICK ack \in Device!Answers(Slot \in busy, shifting = Card) :
          /\ busy' = IF ack THEN busy \cup {Slot} ELSE busy \ {Slot}
          /\ Ended(ack, Slot)
    BY <1>2
  <2>2. /\ PortTypes' /\ LineInv' /\ Selected(ctrl') /\ (active' = Slot \/ active' = "None")
        /\ active' # "None" => ack
    <3>1. Slot \in {"None", "Controller"} \cup Slots
      BY SlotInSlots
    <3>2. QED
      BY <1>1, <2>1, <3>1, Answered
  <2>3. Slot \in inserted
    BY <1>2 DEF ToCard
  <2>4. active' = Slot => Slot \in busy' \cap inserted'
    BY <1>1, <2>1, <2>2, <2>3, SlotInSlots DEF Slots
  <2>5. SelectionsApart'
    <3>1. Slot \notin {"None", "Controller"}
      BY SlotInSlots DEF Slots
    <3>2. active' \in Slots => active' = Slot
      BY <2>2 DEF Slots
    <3>3. active' # "Controller"
      BY <2>2, <3>1
    <3>4. QED
      BY <2>2, <2>4, <3>2, <3>3 DEF SelectionsApart
  <2>6. PadInv(pad, reply)'
    BY <1>2 DEF IInv
  <2>7. QED
    BY <2>2, <2>5, <2>6 DEF IInv, LineInv
<1>3. CASE /\ ToPad
           /\ LET r == PadTransfer(shifting) IN
                pad' = r.pad /\ reply' = r.reply /\ Ended(r.ack, "Controller")
           /\ UNCHANGED busy
  <2> DEFINE r == PadTransfer(shifting)
  <2>1. pad' = r.pad /\ reply' = r.reply /\ Ended(r.ack, "Controller")
    BY <1>3
  <2>2. PadInv(r.pad, r.reply) /\ (r.ack => r.pad.command # "Idle")
    BY PadByte DEF IInv
  <2> HIDE DEF r
  <2>3. /\ PortTypes' /\ LineInv' /\ Selected(ctrl')
        /\ (active' = "Controller" \/ active' = "None")
        /\ active' # "None" => r.ack
    BY <1>1, <2>1, Answered
  <2>4. SelectionsApart'
    BY <2>1, <2>2, <2>3 DEF SelectionsApart, Slots
  <2>5. QED
    BY <2>1, <2>2, <2>3, <2>4 DEF IInv, LineInv
<1>4. CASE ~ToCard /\ ~ToPad /\ Ended(FALSE, "None") /\ UNCHANGED device
  <2>1. PortTypes' /\ LineInv' /\ Selected(ctrl') /\ active' = "None"
    BY <1>1, <1>4, Answered
  <2>2. SelectionsApart'
    BY <2>1 DEF SelectionsApart, Slots
  <2>3. PadInv(pad, reply)'
    BY <1>4 DEF IInv, device
  <2>4. QED
    BY <2>1, <2>2, <2>3 DEF IInv, LineInv
<1>5. QED
  BY <1>2, <1>3, <1>4 DEF DoTransfer

LEMMA DoAckStep ==
  ASSUME IInv, DoAck
  PROVE  IInv'
<1>1. state = "WaitingForAck" /\ UNCHANGED <<ctrl, active, device, buttons, inserted>>
  BY DEF DoAck
<1>2. PadInv(pad, reply)' /\ Selected(ctrl)
  BY <1>1 DEF IInv, device, SelectionsApart
<1>3. SelectionsApart'
  BY <1>1, <1>2 DEF IInv, SelectionsApart, device
<1>4. CASE tx # Empty /\ Enabled(ctrl)
  <2>1. Begin(tx, stray)
    BY <1>4 DEF DoAck
  <2>2. PortTypes' /\ LineInv'
    BY <1>1, <1>2, <2>1 DEF IInv, PortTypes, LineInv, Strays, OnlyFirstByteStrays,
       WaitsOnlyWhenRefused, Begin
  <2>3. QED
    BY <1>2, <1>3, <2>2 DEF IInv, LineInv
<1>5. CASE ~(tx # Empty /\ Enabled(ctrl))
  <2>1. state' = "Idle" /\ UNCHANGED <<tx, shifting, strayed, stray, refused, begun>>
    BY <1>5 DEF DoAck
  <2>2. PortTypes' /\ LineInv'
    BY <1>1, <1>2, <1>5, <2>1 DEF IInv, PortTypes, LineInv, Strays, OnlyFirstByteStrays,
       WaitsOnlyWhenRefused
  <2>3. QED
    BY <1>2, <1>3, <2>2 DEF IInv, LineInv
<1>6. QED
  BY <1>4, <1>5

(* The buttons, a card, and nothing at all: the line is left alone.        *)
LEMMA OtherStep ==
  ASSUME IInv, (\E b \in Buttons : SetButtons(b)) \/ (\E s \in Sockets : SetCard(s))
               \/ UNCHANGED vars
  PROVE  IInv'
<1>1. UNCHANGED line
  BY DEF SetButtons, SetCard, vars, line
<1>2. LineInv' /\ state' = state /\ ctrl' = ctrl
  BY <1>1, LineKept DEF IInv, LineInv, line
<1>3. CASE \E s \in Sockets : SetCard(s)
  <2>1. ResetDevices
    BY <1>3 DEF SetCard
  <2>2. state = "Idle" \/ Selected(ctrl)
    BY DEF IInv, SelectionsApart
  <2>3. QED
    BY <1>2, <2>1, <2>2, DevicesReset DEF IInv, LineInv, PortTypes
<1>4. CASE (\E b \in Buttons : SetButtons(b)) \/ UNCHANGED vars
  <2>1. UNCHANGED <<active, pad, busy, reply, inserted>>
    BY <1>4 DEF SetButtons, vars, device
  <2>2. PadInv(pad, reply)' /\ SelectionsApart' /\ PortTypes'
    BY <1>2, <2>1 DEF IInv, SelectionsApart, PortTypes
  <2>3. QED
    BY <1>2, <2>2 DEF IInv, LineInv
<1>5. QED
  BY <1>3, <1>4

LEMMA Inductive == IInv /\ [Next]_vars => IInv'
BY WriteDataStep, WriteControlStep, ResetStep, DoTransferStep, DoAckStep, OtherStep DEF Next

-----------------------------------------------------------------------------
(***************************************************************************)
(* The theorems.                                                           *)
(***************************************************************************)
LEMMA Invariance == Spec => []IInv
BY InitInv, Inductive, PTL DEF Spec

(* Deselecting ends what every device was doing, and the device the port    *)
(* talks to is in a command (sio.cpp:72-80, 547-626 and 188-309).          *)
THEOREM SelectionsStayApart == Spec => []SelectionsApart
<1>1. IInv => SelectionsApart
  BY DEF IInv
<1>2. QED
  BY <1>1, Invariance, PTL

(* A byte left in the buffer by an earlier selection is the first byte of   *)
(* the next, or none of it (sio.cpp:497-626).                              *)
THEOREM OnlyTheFirstStrays == Spec => []OnlyFirstByteStrays
<1>1. IInv => OnlyFirstByteStrays
  BY DEF IInv
<1>2. QED
  BY <1>1, Invariance, PTL

(* A byte is stuck in the buffer only behind one that no device             *)
(* acknowledged (sio.cpp:188-344).                                         *)
THEOREM WaitsBehindRefused == Spec => []WaitsOnlyWhenRefused
<1>1. IInv => WaitsOnlyWhenRefused
  BY DEF IInv
<1>2. QED
  BY <1>1, Invariance, PTL

(* A reply ends where its ID byte said, through any change of modes, and    *)
(* holds one reading of the buttons (pad_controller.cpp:24-328).           *)
THEOREM RepliesAreWhole == Spec => []ReplyWhole
<1>1. IInv => ReplyWhole
  BY DEF IInv, PadInv, Midway, ReplyWhole, Replying
<1>2. QED
  BY <1>1, Invariance, PTL

-----------------------------------------------------------------------------
(***************************************************************************)
(* Numbers: the least of a set, course-of-values induction in the form of  *)
(* a set of numbers, and division.                                         *)
(***************************************************************************)
LEMMA LeastNumber ==
  ASSUME NEW T, T \subseteq Nat, T # {}
  PROVE  \E n \in T : \A m \in T : n <= m
<1>. DEFINE below(n) == 0..n-1
            Downs == {below(n) : n \in T}
            R == StrictSubsetOrdering(Nat)
            S == FiniteSubsetsOf(Nat)
<1>1. IsWellFoundedOn(R, S)
  BY FS_StrictSubsetOrderingWellFounded
<1>2. \A n \in Nat : IsFiniteSet(below(n)) /\ below(n) \subseteq Nat
  BY FS_Interval
<1>3. Downs \subseteq S /\ Downs # {}
  BY <1>2 DEF FiniteSubsetsOf
<1>. HIDE DEF R, S, Downs
<1>4. \E x \in Downs : \A y \in Downs : ~(<<y, x>> \in R)
  BY <1>1, <1>3, WFMin
<1>. USE DEF R, S, Downs
<1>5. PICK n \in T : \A m \in T : ~(<<below(m), below(n)>> \in R)
  BY <1>4
<1>6. ASSUME NEW m \in T PROVE n <= m
  <2>1. SUFFICES ASSUME m < n PROVE FALSE
    OBVIOUS
  <2>2. below(m) \subseteq below(n) /\ below(m) # below(n)
    <3>1. m \in below(n) /\ m \notin below(m)
      BY <2>1
    <3>2. below(m) \subseteq below(n)
      BY <2>1
    <3>. QED
      BY <3>1, <3>2
  <2>3. <<below(m), below(n)>> \in R
    BY <2>2, <1>2 DEF StrictSubsetOrdering
  <2>. QED
    BY <1>5, <2>3
<1>. QED
  BY <1>6

LEMMA Induction ==
  ASSUME NEW T, \A n \in Nat : (\A m \in 0..n-1 : m \in T) => n \in T
  PROVE  Nat \subseteq T
<1>. DEFINE Missing == Nat \ T
<1>. SUFFICES ASSUME Missing # {} PROVE FALSE
  OBVIOUS
<1>1. Missing \subseteq Nat
  OBVIOUS
<1>. HIDE DEF Missing
<1>2. PICK n \in Missing : \A m \in Missing : n <= m
  BY <1>1, LeastNumber
<1>. USE DEF Missing
<1>3. \A m \in 0..n-1 : m \in T
  BY <1>2
<1>. QED
  BY <1>2, <1>3

LEMMA Divided ==
  ASSUME NEW a \in Nat, NEW d \in Nat \ {0}
  PROVE  /\ a \div d \in Nat /\ a % d \in 0..d-1
         /\ a = d * (a \div d) + (a % d)
  OBVIOUS

LEMMA LargerQuotient ==
  ASSUME NEW d \in Nat \ {0}, NEW q \in Int, NEW p \in Int, q < p,
         NEW r \in 0..d-1, NEW u \in 0..d-1
  PROVE  d * q + r < d * p + u
<1>. DEFINE k == p - q
            x == d * q
            y == d * k
<1>1. k \in Nat /\ k >= 1 /\ p = q + k
  OBVIOUS
<1>. HIDE DEF k
<1>2. d * p = x + y /\ x \in Int
  BY <1>1
<1>3. y >= d /\ y \in Int
  BY <1>1
<1>. HIDE DEF y
<1>. SUFFICES x + r < d * p + u
  OBVIOUS
<1>. HIDE DEF x
<1>. QED
  BY <1>2, <1>3

LEMMA OneQuotient ==
  ASSUME NEW d \in Nat \ {0}, NEW q \in Int, NEW p \in Int,
         NEW r \in 0..d-1, NEW u \in 0..d-1, d * q + r = d * p + u
  PROVE  q = p /\ r = u
<1>. DEFINE x == d * q + r
            y == d * p + u
<1>1. x \in Int /\ y \in Int /\ x = y
  OBVIOUS
<1>2. ~(q < p)
  <2>. SUFFICES ASSUME q < p PROVE FALSE
    OBVIOUS
  <2>1. x < y
    BY LargerQuotient
  <2>. HIDE DEF x, y
  <2>. QED
    BY <1>1, <2>1
<1>3. ~(p < q)
  <2>. SUFFICES ASSUME p < q PROVE FALSE
    OBVIOUS
  <2>1. y < x
    BY LargerQuotient
  <2>. HIDE DEF x, y
  <2>. QED
    BY <1>1, <2>1
<1>. QED
  BY <1>2, <1>3

(* A number is divided where its quotient and its remainder are known.     *)
LEMMA DividedInto ==
  ASSUME NEW d \in Nat \ {0}, NEW q \in Nat, NEW r \in 0..d-1
  PROVE  (d * q + r) \div d = q /\ (d * q + r) % d = r
<1>. DEFINE a == d * q + r
<1>1. a \in Nat
  OBVIOUS
<1>. HIDE DEF a
<1>. DEFINE p == a \div d
            u == a % d
<1>2. p \in Nat /\ u \in 0..d-1 /\ a = d * p + u
  BY <1>1, Divided
<1>. HIDE DEF p, u
<1>3. d * q + r = d * p + u
  BY <1>2 DEF a
<1>4. q = p /\ r = u
  BY <1>2, <1>3, OneQuotient
<1>. QED
  BY <1>4 DEF a, p, u

-----------------------------------------------------------------------------
(***************************************************************************)
(* One piece of a counter's advance.                                       *)
(***************************************************************************)
LEMMA Widths ==
  /\ Wrap \in Nat /\ Wrap > 1 /\ PulseCycles \in Nat \ {0} /\ Divider \in Nat \ {0}
  /\ MaxStep \in Nat /\ MaxSpan \in Nat /\ MaxSpan >= 1
  BY TimersAssumption

LEMMA Ranges ==
  ASSUME NEW s \in Timer
  PROVE  /\ s.counter \in 0..Wrap-1 /\ s.target \in 0..Wrap-1
         /\ s.pulse \in 0..PulseCycles /\ s.rem \in 0..Divider-1
         /\ s.counter \in Nat /\ s.target \in Nat /\ s.pulse \in Nat /\ s.rem \in Nat
         /\ s.fired \in Nat
  BY Widths DEF Timer

(* The next event is at least a tick ahead.                                *)
LEMMA EventAhead ==
  ASSUME NEW s \in Timer
  PROVE  /\ TicksToTarget(s) \in Nat \ {0} /\ TicksToOverflow(s) \in 1..Wrap
         /\ TicksToEvent(s) \in 1..Wrap
         /\ TicksToEvent(s) <= TicksToTarget(s) /\ TicksToEvent(s) <= TicksToOverflow(s)
         /\ TicksToEvent(s) \in {TicksToTarget(s), TicksToOverflow(s)}
         /\ s.counter < s.target => TicksToTarget(s) < TicksToOverflow(s)
  BY Widths, Ranges DEF TicksToTarget, TicksToOverflow, TicksToEvent, Least

LEMMA Multiples ==
  ASSUME NEW g \in Int, NEW h \in Int, NEW d \in Nat \ {0}, g < h
  PROVE  g * d + d <= h * d /\ g * d \in Int /\ h * d \in Int
<1>. DEFINE k == h - g
            x == g * d
            y == k * d
<1>1. k \in Nat /\ k >= 1 /\ h = g + k
  OBVIOUS
<1>. HIDE DEF k
<1>2. h * d = x + y /\ x \in Int /\ y \in Int /\ h * d \in Int
  BY <1>1
<1>3. y >= d
  BY <1>1
<1>. HIDE DEF y
<1>. SUFFICES x + d <= h * d /\ x \in Int /\ h * d \in Int
  OBVIOUS
<1>. HIDE DEF x
<1>. QED
  BY <1>2, <1>3

(* More ticks take more cycles, and any tick takes some.                   *)
LEMMA CyclesGrow ==
  ASSUME NEW s \in Timer, NEW g \in Nat, NEW h \in Nat, g < h
  PROVE  /\ CyclesForTicks(s, h) \in Nat \ {0}
         /\ CyclesForTicks(s, g) \in Int /\ CyclesForTicks(s, g) < CyclesForTicks(s, h)
<1>1. CASE CountsEighths(s)
  <2>1. g * Divider + Divider <= h * Divider /\ g * Divider \in Int /\ h * Divider \in Int
    BY Widths, Multiples
  <2>2. 0 * Divider + Divider <= h * Divider
    BY Widths, Multiples
  <2>3. 0 * Divider = 0
    BY Widths
  <2>. DEFINE x == g * Divider
              y == h * Divider
  <2>4. /\ x + Divider <= y /\ Divider <= y /\ x \in Int /\ y \in Int
        /\ CyclesForTicks(s, g) = x - s.rem /\ CyclesForTicks(s, h) = y - s.rem
    BY <1>1, <2>1, <2>2, <2>3, Widths DEF CyclesForTicks
  <2>. HIDE DEF x, y
  <2>. QED
    BY <2>4, Ranges, Widths
<1>2. CASE ~CountsEighths(s)
  BY <1>2 DEF CyclesForTicks
<1>. QED
  BY <1>1, <1>2

LEMMA TicksTyped ==
  ASSUME NEW s \in Timer, NEW n \in Nat
  PROVE  TicksIn(s, n) \in Nat /\ RemainderAfter(s, n) \in 0..Divider-1
<1>1. s.rem + n \in Nat /\ 0 \in 0..Divider-1 /\ s.rem \in 0..Divider-1
  BY Ranges, Widths
<1>2. (s.rem + n) \div Divider \in Nat /\ (s.rem + n) % Divider \in 0..Divider-1
  BY <1>1, Widths, Divided
<1>. QED
  BY <1>1, <1>2 DEF TicksIn, RemainderAfter

(* What is left of any number of ticks after n cycles takes n cycles less. *)
LEMMA CyclesLeft ==
  ASSUME NEW s \in Timer, NEW n \in Nat, NEW h \in Int,
         NEW r, r.rem = RemainderAfter(s, n), r.mode = s.mode
  PROVE  CyclesForTicks(r, h - TicksIn(s, n)) = CyclesForTicks(s, h) - n
<1>1. CountsEighths(r) = CountsEighths(s)
  BY DEF CountsEighths
<1>2. CASE CountsEighths(s)
  <2>. DEFINE q == (s.rem + n) \div Divider
              u == (s.rem + n) % Divider
              x == Divider * q
              y == h * Divider
  <2>1. q \in Nat /\ u \in Nat /\ s.rem + n = x + u /\ s.rem \in Nat
    <3>1. s.rem \in Nat
      BY Ranges
    <3>. DEFINE a == s.rem + n
    <3>2. a \in Nat /\ Divider \in Nat \ {0}
      BY <3>1, Widths
    <3>. HIDE DEF a
    <3>3. /\ a \div Divider \in Nat /\ a % Divider \in 0..Divider-1
          /\ a = Divider * (a \div Divider) + (a % Divider)
      BY <3>2, Divided
    <3>. QED
      BY <3>1, <3>2, <3>3 DEF a
  <2>2. TicksIn(s, n) = q /\ r.rem = u
    BY <1>2 DEF TicksIn, RemainderAfter
  <2>. HIDE DEF q, u
  <2>3. (h - q) * Divider = y - x /\ x \in Int /\ y \in Int
    BY <2>1, Widths
  <2>. HIDE DEF x
  <2>4. CyclesForTicks(r, h - q) = (y - x) - u
    BY <1>1, <1>2, <2>2, <2>3 DEF CyclesForTicks
  <2>5. CyclesForTicks(s, h) = y - s.rem
    BY <1>2 DEF CyclesForTicks
  <2>. HIDE DEF y
  <2>. QED
    BY <2>1, <2>2, <2>3, <2>4, <2>5
<1>3. CASE ~CountsEighths(s)
  BY <1>1, <1>3 DEF CyclesForTicks, TicksIn
<1>. QED
  BY <1>2, <1>3

(* Before the cycles of h ticks have passed, there are fewer; with them, h. *)
LEMMA TicksUntil ==
  ASSUME NEW s \in Timer, NEW n \in Nat, NEW h \in Nat \ {0}, n <= CyclesForTicks(s, h)
  PROVE  /\ n < CyclesForTicks(s, h) => TicksIn(s, n) < h
         /\ n = CyclesForTicks(s, h) =>
              TicksIn(s, n) = h /\ (CountsEighths(s) => RemainderAfter(s, n) = 0)
<1>1. CASE CountsEighths(s)
  <2>. DEFINE q == (s.rem + n) \div Divider
              u == (s.rem + n) % Divider
  <2>1. q \in Nat /\ u \in 0..Divider-1 /\ s.rem + n = Divider * q + u /\ s.rem \in Nat
    <3>1. s.rem \in Nat
      BY Ranges
    <3>. DEFINE a == s.rem + n
    <3>2. a \in Nat /\ Divider \in Nat \ {0}
      BY <3>1, Widths
    <3>. HIDE DEF a
    <3>3. /\ a \div Divider \in Nat /\ a % Divider \in 0..Divider-1
          /\ a = Divider * (a \div Divider) + (a % Divider)
      BY <3>2, Divided
    <3>. QED
      BY <3>1, <3>2, <3>3 DEF a
  <2>2. TicksIn(s, n) = q /\ RemainderAfter(s, n) = u
    BY <1>1 DEF TicksIn, RemainderAfter
  <2>3. s.rem + CyclesForTicks(s, h) = Divider * h + 0
    <3>1. h * Divider = Divider * h /\ h * Divider \in Int
      BY Widths
    <3>. DEFINE y == h * Divider
    <3>2. CyclesForTicks(s, h) = y - s.rem /\ y \in Int
      BY <1>1, <3>1 DEF CyclesForTicks
    <3>. HIDE DEF y
    <3>3. s.rem + CyclesForTicks(s, h) = y
      BY <2>1, <3>2
    <3>. QED
      BY <3>1, <3>3 DEF y
  <2>. HIDE DEF q, u
  <2>. DEFINE x == Divider * q
              y == Divider * h
  <2>4. n = CyclesForTicks(s, h) => q = h /\ u = 0
    <3>. SUFFICES ASSUME n = CyclesForTicks(s, h) PROVE q = h /\ u = 0
      OBVIOUS
    <3>1. Divider * q + u = Divider * h + 0 /\ 0 \in 0..Divider-1
      BY <2>1, <2>3, Widths
    <3>. QED
      BY <2>1, <3>1, Widths, OneQuotient
  <2>5. n < CyclesForTicks(s, h) => q < h
    <3>. SUFFICES ASSUME n < CyclesForTicks(s, h), ~(q < h) PROVE FALSE
      OBVIOUS
    <3>1. x + u < y + 0 /\ x \in Int /\ y \in Int
      <4>1. x \in Int /\ y \in Int
        BY <2>1, Widths
      <4>2. CyclesForTicks(s, h) \in Int
        BY CyclesGrow
      <4>. DEFINE c == CyclesForTicks(s, h)
      <4>. HIDE DEF x, y, c
      <4>3. s.rem + n = x + u /\ s.rem + c = y + 0 /\ n < c /\ c \in Int
        BY <2>1, <2>3, <4>2 DEF x, y, c
      <4>. QED
        BY <2>1, <4>1, <4>3
    <3>2. CASE q = h
      <4>. HIDE DEF y
      <4>1. x = y
        BY <3>2 DEF y
      <4>. HIDE DEF x
      <4>. QED
        BY <2>1, <3>1, <4>1
    <3>3. CASE h < q
      <4>1. y + 0 < x + u
        BY <2>1, <3>3, Widths, LargerQuotient
      <4>. HIDE DEF x, y
      <4>. QED
        BY <2>1, <3>1, <4>1
    <3>. QED
      BY <2>1, <3>2, <3>3
  <2>. QED
    BY <2>2, <2>4, <2>5
<1>2. CASE ~CountsEighths(s)
  BY <1>2 DEF CyclesForTicks, TicksIn
<1>. QED
  BY <1>1, <1>2

(* A length of piece within the pulse and up to the next event.            *)
Fits(s, n) ==
  /\ n \in Nat \ {0}
  /\ s.pulse # 0 => n <= s.pulse
  /\ Counting(s) => n <= UntilEvent(s)

LEMMA EventCycles ==
  ASSUME NEW s \in Timer
  PROVE  UntilEvent(s) \in Nat \ {0}
<1>1. TicksToEvent(s) \in Nat /\ 0 \in Nat /\ 0 < TicksToEvent(s)
  BY EventAhead, Widths
<1>. QED
  BY <1>1, CyclesGrow DEF UntilEvent

LEMMA PieceFits ==
  ASSUME NEW s \in Timer, NEW c \in Nat \ {0}
  PROVE  Fits(s, Piece(s, c)) /\ Piece(s, c) \in 1..c
<1>. DEFINE e == UntilEvent(s)
<1>1. e \in Nat \ {0} /\ s.pulse \in Nat
  BY EventCycles, Ranges
<1>2. /\ Counting(s) => Piece(s, c) = Least(IF s.pulse # 0 THEN Least(c, s.pulse) ELSE c, e)
      /\ ~Counting(s) => Piece(s, c) = IF s.pulse # 0 THEN Least(c, s.pulse) ELSE c
  BY DEF Piece
<1>3. Fits(s, Piece(s, c)) <=>
        /\ Piece(s, c) \in Nat \ {0}
        /\ s.pulse # 0 => Piece(s, c) <= s.pulse
        /\ Counting(s) => Piece(s, c) <= e
  BY DEF Fits
<1>. HIDE DEF e
<1>4. CASE Counting(s)
  BY <1>1, <1>2, <1>3, <1>4 DEF Least
<1>5. CASE ~Counting(s)
  BY <1>1, <1>2, <1>3, <1>5 DEF Least
<1>. QED
  BY <1>4, <1>5

(* What a change of the counter's own fields leaves alone.                 *)
SetUp(s, r) ==
  r.mode = s.mode /\ r.target = s.target /\ r.released = s.released /\ r.blank = s.blank

LEMMA PulsedIs ==
  ASSUME NEW s \in Timer, NEW n, Fits(s, n), NEW r, r = Pulsed(s, n)
  PROVE  /\ r \in Timer /\ SetUp(s, r)
         /\ r.counter = s.counter /\ r.fired = s.fired /\ r.done = s.done
         /\ r.sawTarget = s.sawTarget /\ r.sawOverflow = s.sawOverflow
         /\ r.rem = RemainderAfter(s, n)
         /\ r.pulse = IF s.pulse = 0 THEN 0 ELSE s.pulse - n
         /\ r.high = (s.high \/ (s.pulse # 0 /\ s.pulse = n))
<1>1. RemainderAfter(s, n) \in 0..Divider-1
  BY TicksTyped DEF Fits
<1>. DEFINE p == IF s.pulse = 0 THEN 0 ELSE s.pulse - n
            m == RemainderAfter(s, n)
            h == s.high \/ (s.pulse # 0 /\ s.pulse = n)
<1>2. p \in 0..PulseCycles
  BY Ranges, Widths DEF Fits
<1>3. h \in BOOLEAN
  BY DEF Timer
<1>4. r = [s EXCEPT !.rem = m, !.high = h, !.pulse = p]
  BY DEF Pulsed
<1>. HIDE DEF p, m, h
<1>5. /\ r.counter = s.counter /\ r.fired = s.fired /\ r.done = s.done
      /\ r.sawTarget = s.sawTarget /\ r.sawOverflow = s.sawOverflow /\ SetUp(s, r)
      /\ r.rem = m /\ r.pulse = p /\ r.high = h
  BY <1>4 DEF Timer, SetUp
<1>6. r \in Timer
  BY <1>1, <1>2, <1>3, <1>4 DEF Timer, m
<1>. QED
  BY <1>5, <1>6 DEF p, m, h

(* Whether handle_timer_event() raises an interrupt.                       *)
Interrupts(s, targetHit, overflowHit) ==
  /\ (targetHit /\ s.mode.onTarget) \/ (overflowHit /\ s.mode.onOverflow)
  /\ s.mode.repeat \/ ~s.done

(* What it does to the other fields, and what it leaves alone.             *)
Interrupted(s, r) ==
  /\ r.fired = s.fired + 1 /\ r.done = (s.done \/ ~s.mode.repeat)
  /\ r.high = (s.mode.toggle /\ ~s.high)
  /\ r.pulse = IF s.mode.toggle THEN s.pulse ELSE PulseCycles

Undisturbed(s, r) ==
  r.fired = s.fired /\ r.done = s.done /\ r.pulse = s.pulse /\ r.high = s.high

LEMMA Handled ==
  ASSUME NEW s \in Timer, NEW a \in BOOLEAN, NEW b \in BOOLEAN,
         NEW r, r = HandleTimerEvent(s, a, b)
  PROVE  /\ r \in Timer /\ SetUp(s, r) /\ r.counter = s.counter /\ r.rem = s.rem
         /\ r.sawTarget = (s.sawTarget \/ a) /\ r.sawOverflow = (s.sawOverflow \/ b)
         /\ Interrupts(s, a, b) => Interrupted(s, r)
         /\ ~Interrupts(s, a, b) => Undisturbed(s, r)
<1>. DEFINE seen == [s EXCEPT !.sawTarget = @ \/ a, !.sawOverflow = @ \/ b]
<1>1. /\ seen \in Timer /\ SetUp(s, seen) /\ seen.counter = s.counter /\ seen.rem = s.rem
      /\ seen.fired = s.fired /\ seen.done = s.done /\ seen.pulse = s.pulse
      /\ seen.high = s.high
      /\ seen.sawTarget = (s.sawTarget \/ a) /\ seen.sawOverflow = (s.sawOverflow \/ b)
  BY DEF Timer, SetUp
<1>2. CASE Interrupts(s, a, b)
  <2>. DEFINE d == s.done \/ ~s.mode.repeat
              h == IF s.mode.toggle THEN ~s.high ELSE FALSE
              p == IF s.mode.toggle THEN s.pulse ELSE PulseCycles
              f == s.fired + 1
  <2>1. r = [seen EXCEPT !.done = d, !.high = h, !.pulse = p, !.fired = f]
    BY <1>1, <1>2 DEF HandleTimerEvent, Interrupts
  <2>2. d \in BOOLEAN /\ h \in BOOLEAN /\ h = (s.mode.toggle /\ ~s.high)
    BY DEF Timer, Mode
  <2>3. p \in 0..PulseCycles /\ f \in Nat
    BY Ranges, Widths
  <2>. HIDE DEF d, h, p, f, seen
  <2>4. r \in Timer
    BY <1>1, <2>1, <2>2, <2>3, ZenonT(30) DEF Timer
  <2>5. /\ SetUp(seen, r) /\ r.counter = seen.counter /\ r.rem = seen.rem
        /\ r.sawTarget = seen.sawTarget /\ r.sawOverflow = seen.sawOverflow
        /\ r.done = d /\ r.fired = f /\ r.high = h /\ r.pulse = p
    BY <1>1, <2>1 DEF Timer, SetUp
  <2>6. Interrupted(s, r)
    BY <2>2, <2>5 DEF Interrupted, d, f, p
  <2>. QED
    BY <1>1, <1>2, <2>4, <2>5, <2>6 DEF SetUp
<1>3. CASE ~Interrupts(s, a, b)
  <2>1. r = seen
    BY <1>3 DEF HandleTimerEvent, Interrupts
  <2>. HIDE DEF seen
  <2>. QED
    BY <1>1, <1>3, <2>1 DEF Undisturbed
<1>. QED
  BY <1>2, <1>3

LEMMA EventApplied ==
  ASSUME NEW s \in Timer, NEW k \in Nat, NEW r, r = ApplyTicksToEvent(s, k),
         NEW a \in BOOLEAN, a <=> (k = TicksToTarget(s)),
         NEW b \in BOOLEAN, b <=> (k = TicksToOverflow(s))
  PROVE  /\ r \in Timer /\ SetUp(s, r) /\ r.rem = s.rem
         /\ r.counter = IF a /\ s.mode.reset /\ s.target > 0 THEN 0
                        ELSE (s.counter + k) % Wrap
         /\ r.sawTarget = (s.sawTarget \/ a) /\ r.sawOverflow = (s.sawOverflow \/ b)
         /\ Interrupts(s, a, b) => Interrupted(s, r)
         /\ ~Interrupts(s, a, b) => Undisturbed(s, r)
<1>. DEFINE e == HandleTimerEvent(s, a, b)
            v == IF a /\ s.mode.reset /\ s.target > 0 THEN 0 ELSE (s.counter + k) % Wrap
<1>1. a = (k = TicksToTarget(s)) /\ b = (k = TicksToOverflow(s))
  OBVIOUS
<1>2. /\ e \in Timer /\ SetUp(s, e) /\ e.counter = s.counter /\ e.rem = s.rem
      /\ e.sawTarget = (s.sawTarget \/ a) /\ e.sawOverflow = (s.sawOverflow \/ b)
      /\ Interrupts(s, a, b) => Interrupted(s, e)
      /\ ~Interrupts(s, a, b) => Undisturbed(s, e)
  BY Handled
<1>3. r = [e EXCEPT !.counter = v]
  BY <1>1, ZenonT(30) DEF ApplyTicksToEvent
<1>4. v \in 0..Wrap-1
  <2>. DEFINE c == s.counter + k
  <2>1. c \in Nat /\ Wrap \in Nat \ {0} /\ 0 \in 0..Wrap-1
    BY Ranges, Widths
  <2>. HIDE DEF c
  <2>2. c % Wrap \in 0..Wrap-1
    BY <2>1, Divided
  <2>. QED
    BY <2>1, <2>2 DEF c
<1>. HIDE DEF e, v
<1>5. r \in Timer
  BY <1>2, <1>3, <1>4 DEF Timer
<1>6. /\ SetUp(e, r) /\ r.rem = e.rem /\ r.counter = v /\ r.fired = e.fired /\ r.done = e.done
      /\ r.pulse = e.pulse /\ r.high = e.high
      /\ r.sawTarget = e.sawTarget /\ r.sawOverflow = e.sawOverflow
  BY <1>2, <1>3 DEF Timer, SetUp
<1>7. SetUp(s, r) /\ r.rem = s.rem
  BY <1>2, <1>6 DEF SetUp
<1>8. r.counter = IF a /\ s.mode.reset /\ s.target > 0 THEN 0 ELSE (s.counter + k) % Wrap
  BY <1>6 DEF v
<1>9. Interrupts(s, a, b) => Interrupted(s, r)
  BY <1>2, <1>6 DEF Interrupted
<1>10. ~Interrupts(s, a, b) => Undisturbed(s, r)
  BY <1>2, <1>6 DEF Undisturbed
<1>. QED
  BY <1>2, <1>5, <1>6, <1>7, <1>8, <1>9, <1>10

(* Between two events a counter that counts moves by the ticks.            *)
LEMMA Moved ==
  ASSUME NEW s \in Timer, NEW k \in Nat, NEW r, r = [s EXCEPT !.counter = (@ + k) % Wrap]
  PROVE  /\ r \in Timer /\ SetUp(s, r) /\ r.rem = s.rem /\ r.counter = (s.counter + k) % Wrap
         /\ r.fired = s.fired /\ r.done = s.done /\ r.pulse = s.pulse /\ r.high = s.high
         /\ r.sawTarget = s.sawTarget /\ r.sawOverflow = s.sawOverflow
<1>. DEFINE v == (s.counter + k) % Wrap
<1>1. v \in 0..Wrap-1
  <2>1. s.counter + k \in Nat
    BY Ranges
  <2>. QED
    BY <2>1, Widths, Divided
<1>2. r = [s EXCEPT !.counter = v]
  OBVIOUS
<1>. HIDE DEF v
<1>3. r \in Timer
  BY <1>1, <1>2 DEF Timer
<1>4. /\ SetUp(s, r) /\ r.rem = s.rem /\ r.counter = v
      /\ r.fired = s.fired /\ r.done = s.done /\ r.pulse = s.pulse /\ r.high = s.high
      /\ r.sawTarget = s.sawTarget /\ r.sawOverflow = s.sawOverflow
  BY <1>2 DEF Timer, SetUp
<1>. QED
  BY <1>3, <1>4 DEF v

(* A timer is these fields: two with the same are the same.                *)
LEMMA SameTimer ==
  ASSUME NEW s \in Timer, NEW r \in Timer, SetUp(s, r),
         r.counter = s.counter, r.high = s.high, r.sawTarget = s.sawTarget,
         r.sawOverflow = s.sawOverflow, r.done = s.done, r.pulse = s.pulse,
         r.rem = s.rem, r.fired = s.fired
  PROVE  r = s
  BY DEF Timer, SetUp

LEMMA SameSetUp ==
  ASSUME NEW s, NEW r, SetUp(s, r)
  PROVE  /\ Counting(r) = Counting(s) /\ CountsEighths(r) = CountsEighths(s)
         /\ r.counter = s.counter =>
              /\ TicksToTarget(r) = TicksToTarget(s) /\ TicksToOverflow(r) = TicksToOverflow(s)
              /\ TicksToEvent(r) = TicksToEvent(s)
         /\ \A q : SetUp(r, q) => SetUp(s, q)
<1>1. PausedBySync(r) = PausedBySync(s) /\ CountsSystemClock(r) = CountsSystemClock(s)
  BY DEF SetUp, PausedBySync, CountsSystemClock
<1>2. CountsEighths(r) = CountsEighths(s)
  BY DEF SetUp, CountsEighths
<1>3. r.counter = s.counter =>
        TicksToTarget(r) = TicksToTarget(s) /\ TicksToOverflow(r) = TicksToOverflow(s)
  BY DEF SetUp, TicksToTarget, TicksToOverflow
<1>4. r.counter = s.counter => TicksToEvent(r) = TicksToEvent(s)
  BY <1>3 DEF TicksToEvent
<1>5. Counting(r) = Counting(s)
  BY <1>1 DEF Counting
<1>6. \A q : SetUp(r, q) => SetUp(s, q)
  BY DEF SetUp
<1>. QED
  BY <1>2, <1>3, <1>4, <1>5, <1>6

(* The pulse and the request line when n cycles of the pulse have run.     *)
PulseAfter(s, n) == IF s.pulse = 0 THEN 0 ELSE s.pulse - n
HighAfter(s, n) == s.high \/ (s.pulse # 0 /\ s.pulse = n)

AtEvent(s, n) == Counting(s) /\ UntilEvent(s) = n

(* A piece that ends before the event: the counter moves, if it counts.    *)
LEMMA QuietPiece ==
  ASSUME NEW s \in Timer, NEW n, Fits(s, n), ~AtEvent(s, n), NEW r, r = RunPiece(s, n)
  PROVE  /\ r \in Timer /\ SetUp(s, r) /\ r.rem = RemainderAfter(s, n)
         /\ Counting(s) => /\ r.counter = s.counter + TicksIn(s, n)
                           /\ TicksIn(s, n) \in 0..TicksToEvent(s)-1
         /\ ~Counting(s) => r.counter = s.counter
         /\ r.pulse = PulseAfter(s, n) /\ r.high = HighAfter(s, n)
         /\ r.fired = s.fired /\ r.done = s.done
         /\ r.sawTarget = s.sawTarget /\ r.sawOverflow = s.sawOverflow
<1>. DEFINE x == Pulsed(s, n)
            k == TicksIn(s, n)
            m == TicksToEvent(s)
<1>1. /\ x \in Timer /\ SetUp(s, x)
      /\ x.counter = s.counter /\ x.fired = s.fired /\ x.done = s.done
      /\ x.sawTarget = s.sawTarget /\ x.sawOverflow = s.sawOverflow
      /\ x.rem = RemainderAfter(s, n)
      /\ x.pulse = PulseAfter(s, n) /\ x.high = HighAfter(s, n)
  BY PulsedIs DEF PulseAfter, HighAfter
<1>2. CASE ~Counting(s)
  <2>1. r = x
    BY <1>2 DEF RunPiece
  <2>. HIDE DEF x
  <2>. QED
    BY <1>1, <1>2, <2>1
<1>3. CASE Counting(s)
  <2>1. r = [x EXCEPT !.counter = (@ + k) % Wrap]
    BY <1>3 DEF RunPiece, AtEvent
  <2>2. n \in Nat /\ n < UntilEvent(s)
    BY <1>3, EventCycles DEF Fits, AtEvent
  <2>3. k \in Nat
    BY <2>2, TicksTyped
  <2>4. m \in Nat \ {0} /\ m <= TicksToOverflow(s)
    BY EventAhead, Widths
  <2>. HIDE DEF x, m
  <2>5. n < CyclesForTicks(s, m)
    BY <2>2 DEF UntilEvent, m
  <2>6. k < m
    <3>1. CyclesForTicks(s, m) \in Nat
      BY <2>4, CyclesGrow
    <3>. QED
      BY <2>2, <2>4, <2>5, <3>1, TicksUntil
  <2>. HIDE DEF k
  <2>7. /\ r \in Timer /\ SetUp(x, r) /\ r.rem = x.rem
        /\ r.counter = (x.counter + k) % Wrap
        /\ r.fired = x.fired /\ r.done = x.done /\ r.pulse = x.pulse /\ r.high = x.high
        /\ r.sawTarget = x.sawTarget /\ r.sawOverflow = x.sawOverflow
    BY <1>1, <2>1, <2>3, Moved
  <2>8. (s.counter + k) % Wrap = s.counter + k
    <3>. DEFINE c == s.counter + k
    <3>1. c \in 0..Wrap-1 /\ Wrap \in Nat \ {0}
      BY <2>3, <2>4, <2>6, Ranges, Widths DEF TicksToOverflow
    <3>. HIDE DEF c
    <3>2. c % Wrap = c
      BY <3>1
    <3>. QED
      BY <3>2 DEF c
  <2>9. SetUp(s, r)
    BY <1>1, <2>7 DEF SetUp
  <2>10. r.counter = s.counter + k
    BY <1>1, <2>7, <2>8
  <2>. QED
    BY <1>1, <1>3, <2>3, <2>4, <2>6, <2>7, <2>9, <2>10 DEF k, m
<1>. QED
  BY <1>2, <1>3

(* A piece that ends at the event.                                         *)
LEMMA EventPiece ==
  ASSUME NEW s \in Timer, NEW n, Fits(s, n), AtEvent(s, n), NEW r, r = RunPiece(s, n),
         NEW a \in BOOLEAN, a <=> (TicksToEvent(s) = TicksToTarget(s)),
         NEW b \in BOOLEAN, b <=> (TicksToEvent(s) = TicksToOverflow(s))
  PROVE  /\ r \in Timer /\ SetUp(s, r) /\ r.rem = RemainderAfter(s, n)
         /\ TicksIn(s, n) = TicksToEvent(s) /\ (index = 2 => r.rem = 0)
         /\ r.counter = IF a /\ s.mode.reset /\ s.target > 0 THEN 0
                        ELSE (s.counter + TicksToEvent(s)) % Wrap
         /\ r.sawTarget = (s.sawTarget \/ a) /\ r.sawOverflow = (s.sawOverflow \/ b)
         /\ Interrupts(s, a, b) =>
              /\ r.fired = s.fired + 1 /\ r.done = (s.done \/ ~s.mode.repeat)
              /\ r.high = (s.mode.toggle /\ ~HighAfter(s, n))
              /\ r.pulse = IF s.mode.toggle THEN PulseAfter(s, n) ELSE PulseCycles
         /\ ~Interrupts(s, a, b) =>
              /\ r.fired = s.fired /\ r.done = s.done
              /\ r.high = HighAfter(s, n) /\ r.pulse = PulseAfter(s, n)
<1>. DEFINE x == Pulsed(s, n)
            k == TicksIn(s, n)
            m == TicksToEvent(s)
<1>1. /\ x \in Timer /\ SetUp(s, x)
      /\ x.counter = s.counter /\ x.fired = s.fired /\ x.done = s.done
      /\ x.sawTarget = s.sawTarget /\ x.sawOverflow = s.sawOverflow
      /\ x.rem = RemainderAfter(s, n)
      /\ x.pulse = PulseAfter(s, n) /\ x.high = HighAfter(s, n)
  BY PulsedIs DEF PulseAfter, HighAfter
<1>2. m \in Nat \ {0}
  BY EventAhead, Widths
<1>3. k = m /\ (CountsEighths(s) => RemainderAfter(s, n) = 0)
  <2>. HIDE DEF m
  <2>1. n = CyclesForTicks(s, m) /\ n \in Nat
    BY DEF AtEvent, UntilEvent, Fits, m
  <2>2. CyclesForTicks(s, m) \in Nat
    BY <2>1
  <2>. QED
    BY <1>2, <2>1, <2>2, TicksUntil
<1>4. index = 2 => RemainderAfter(s, n) = 0
  BY <1>3 DEF RemainderAfter
<1>5. r = ApplyTicksToEvent(x, k)
  BY DEF RunPiece, AtEvent
<1>6. TicksToTarget(x) = TicksToTarget(s) /\ TicksToOverflow(x) = TicksToOverflow(s)
  BY <1>1, SameSetUp
<1>7. Interrupts(x, a, b) = Interrupts(s, a, b)
  BY <1>1 DEF Interrupts, SetUp
<1>. HIDE DEF x, k
<1>8. r = ApplyTicksToEvent(x, m)
  BY <1>3, <1>5
<1>9. (a <=> (m = TicksToTarget(x))) /\ (b <=> (m = TicksToOverflow(x)))
  BY <1>6
<1>. HIDE DEF m
<1>10. /\ r \in Timer /\ SetUp(x, r) /\ r.rem = x.rem
       /\ r.counter = IF a /\ x.mode.reset /\ x.target > 0 THEN 0
                      ELSE (x.counter + m) % Wrap
       /\ r.sawTarget = (x.sawTarget \/ a) /\ r.sawOverflow = (x.sawOverflow \/ b)
       /\ Interrupts(x, a, b) => Interrupted(x, r)
       /\ ~Interrupts(x, a, b) => Undisturbed(x, r)
  BY <1>1, <1>2, <1>8, <1>9, EventApplied
<1>11. SetUp(s, r)
  BY <1>1, <1>10 DEF SetUp
<1>12. r.counter = IF a /\ s.mode.reset /\ s.target > 0 THEN 0 ELSE (s.counter + m) % Wrap
  BY <1>1, <1>10 DEF SetUp
<1>13. r.sawTarget = (s.sawTarget \/ a) /\ r.sawOverflow = (s.sawOverflow \/ b)
  BY <1>1, <1>10
<1>14. Interrupts(s, a, b) =>
         /\ r.fired = s.fired + 1 /\ r.done = (s.done \/ ~s.mode.repeat)
         /\ r.high = (s.mode.toggle /\ ~HighAfter(s, n))
         /\ r.pulse = IF s.mode.toggle THEN PulseAfter(s, n) ELSE PulseCycles
  BY <1>1, <1>7, <1>10 DEF Interrupted, SetUp
<1>15. ~Interrupts(s, a, b) =>
         /\ r.fired = s.fired /\ r.done = s.done
         /\ r.high = HighAfter(s, n) /\ r.pulse = PulseAfter(s, n)
  BY <1>1, <1>7, <1>10 DEF Undisturbed
<1>16. r.rem = RemainderAfter(s, n) /\ (index = 2 => r.rem = 0)
  BY <1>1, <1>4, <1>10
<1>17. TicksIn(s, n) = TicksToEvent(s)
  BY <1>3 DEF k, m
<1>. QED
  BY <1>10, <1>11, <1>12, <1>13, <1>14, <1>15, <1>16, <1>17 DEF m

(* So every piece keeps a counter a counter, with its set-up.              *)
LEMMA PieceTyped ==
  ASSUME NEW s \in Timer, NEW n, Fits(s, n)
  PROVE  /\ RunPiece(s, n) \in Timer /\ SetUp(s, RunPiece(s, n))
         /\ AtEvent(s, n) /\ index = 2 => RunPiece(s, n).rem = 0
<1>. DEFINE r == RunPiece(s, n)
<1>1. CASE ~AtEvent(s, n)
  BY <1>1, QuietPiece
<1>2. CASE AtEvent(s, n)
  <2>1. PICK a \in BOOLEAN, b \in BOOLEAN :
          /\ a <=> (TicksToEvent(s) = TicksToTarget(s))
          /\ b <=> (TicksToEvent(s) = TicksToOverflow(s))
    OBVIOUS
  <2>2. r = RunPiece(s, n)
    OBVIOUS
  <2>. HIDE DEF r
  <2>3. r \in Timer /\ SetUp(s, r) /\ (index = 2 => r.rem = 0)
    BY <1>2, <2>1, <2>2, EventPiece
  <2>. QED
    BY <1>2, <2>3 DEF r
<1>. QED
  BY <1>1, <1>2

-----------------------------------------------------------------------------
(***************************************************************************)
(* The loop of advance_timer() ends: every turn leaves fewer cycles.       *)
(***************************************************************************)
LEMMA LapTicks ==
  ASSUME NEW s \in Timer, OnlyLaps(s)
  PROVE  Lap(s) \in Nat \ {0}
<1>1. s.target \in Nat /\ s.target > 0
  BY Ranges DEF OnlyLaps
<1>2. s.target * Divider \in Nat \ {0}
  BY <1>1, Widths
<1>. QED
  BY <1>1, <1>2 DEF Lap

LEMMA SmallRemainder ==
  ASSUME NEW a \in Nat, NEW d \in Nat \ {0}
  PROVE  a % d \in 0..a
<1>. DEFINE x == d * (a \div d)
            r == a % d
<1>1. a \div d \in Nat /\ r \in 0..d-1 /\ a = x + r
  BY Divided
<1>2. x \in Nat
  BY <1>1
<1>. HIDE DEF x, r
<1>. QED
  BY <1>1, <1>2 DEF r

LEMMA TurnProgress ==
  ASSUME NEW s \in Timer, NEW c \in Nat \ {0}
  PROVE  Turn(s, c).timer \in Timer /\ Turn(s, c).left \in 0..c-1
<1>. DEFINE n == Piece(s, c)
            r == RunPiece(s, n)
            left == c - n
            w == r.sawTarget \/ left >= Lap(r)
            q == [r EXCEPT !.sawTarget = w]
<1>1. n \in 1..c /\ Fits(s, n)
  BY PieceFits
<1>. HIDE DEF n
<1>2. r \in Timer
  BY <1>1, PieceTyped
<1>3. left \in 0..c-1 /\ left \in Nat
  BY <1>1
<1>. HIDE DEF left
<1>4. CASE AtEvent(s, n) /\ left > 0 /\ OnlyLaps(r)
  <2>1. Turn(s, c) = [timer |-> q, left |-> left % Lap(r)]
    BY <1>4 DEF Turn, AtEvent, n, left
  <2>2. Lap(r) \in Nat \ {0}
    BY <1>2, <1>4, LapTicks
  <2>3. w \in BOOLEAN
    BY <1>2 DEF Timer
  <2>. HIDE DEF r, w
  <2>4. q \in Timer
    BY <1>2, <2>3 DEF Timer
  <2>5. left % Lap(r) \in 0..left
    BY <1>3, <2>2, SmallRemainder
  <2>. HIDE DEF q
  <2>6. Turn(s, c).timer = q /\ Turn(s, c).left = left % Lap(r)
    BY <2>1
  <2>. DEFINE u == left % Lap(r)
  <2>. HIDE DEF u
  <2>7. u \in 0..c-1
    BY <1>3, <2>5 DEF u
  <2>. QED
    BY <2>4, <2>6, <2>7 DEF u
<1>5. CASE ~(AtEvent(s, n) /\ left > 0 /\ OnlyLaps(r))
  <2>1. Turn(s, c) = [timer |-> r, left |-> left]
    BY <1>5 DEF Turn, AtEvent, n, left
  <2>. HIDE DEF r
  <2>. QED
    BY <1>2, <1>3, <2>1
<1>. QED
  BY <1>4, <1>5

(* f runs the loop for every number of cycles up to k.                     *)
Loops(f, k) ==
  /\ f \in [0..k -> [Timer -> Timer]]
  /\ \A c \in 0..k : \A s \in Timer :
       f[c][s] = IF c = 0 THEN s ELSE f[Turn(s, c).left][Turn(s, c).timer]

LEMMA LoopsAgree ==
  ASSUME NEW f, NEW g, NEW k \in Nat, NEW m \in Nat, Loops(f, k), Loops(g, m),
         NEW c \in 0..k, c \in 0..m
  PROVE  f[c] = g[c]
<1>. DEFINE Same == {i \in Nat : i <= k /\ i <= m => f[i] = g[i]}
<1>1. \A i \in Nat : (\A j \in 0..i-1 : j \in Same) => i \in Same
  <2>. SUFFICES ASSUME NEW i \in Nat, \A j \in 0..i-1 : j \in Same, i <= k, i <= m
                PROVE  f[i] = g[i]
    OBVIOUS
  <2>1. i \in 0..k /\ i \in 0..m
    OBVIOUS
  <2>2. f[i] \in [Timer -> Timer] /\ g[i] \in [Timer -> Timer]
    BY <2>1 DEF Loops
  <2>3. \A s \in Timer : f[i][s] = g[i][s]
    <3>. SUFFICES ASSUME NEW s \in Timer PROVE f[i][s] = g[i][s]
      OBVIOUS
    <3>1. CASE i = 0
      <4>1. f[i][s] = s /\ g[i][s] = s
        BY <2>1, <3>1 DEF Loops
      <4>. QED
        BY <4>1
    <3>2. CASE i # 0
      <4>. DEFINE left == Turn(s, i).left
                  r == Turn(s, i).timer
      <4>1. left \in 0..i-1 /\ r \in Timer
        BY <3>2, TurnProgress
      <4>2. f[i][s] = f[left][r] /\ g[i][s] = g[left][r]
        BY <2>1, <3>2 DEF Loops
      <4>. HIDE DEF left, r
      <4>3. left \in Same /\ left <= k /\ left <= m
        BY <4>1
      <4>. QED
        BY <4>2, <4>3
    <3>. QED
      BY <3>1, <3>2
  <2>. QED
    BY <2>2, <2>3
<1>. HIDE DEF Same
<1>2. Nat \subseteq Same
  BY <1>1, Induction
<1>3. c \in Same /\ c <= k /\ c <= m
  BY <1>2
<1>. QED
  BY <1>3 DEF Same

LEMMA LoopsExist ==
  \A k \in Nat : \E f : Loops(f, k)
<1>. DEFINE Has == {k \in Nat : \E f : Loops(f, k)}
<1>1. \A n \in Nat : (\A m \in 0..n-1 : m \in Has) => n \in Has
  <2>. SUFFICES ASSUME NEW n \in Nat, \A m \in 0..n-1 : m \in Has PROVE \E f : Loops(f, n)
    OBVIOUS
  <2>1. CASE n = 0
    <3>. DEFINE g == [c \in 0..0 |-> [s \in Timer |-> s]]
    <3>1. g \in [0..0 -> [Timer -> Timer]]
      OBVIOUS
    <3>2. \A c \in 0..0 : \A s \in Timer :
            g[c][s] = IF c = 0 THEN s ELSE g[Turn(s, c).left][Turn(s, c).timer]
      OBVIOUS
    <3>. HIDE DEF g
    <3>3. Loops(g, 0)
      BY <3>1, <3>2 DEF Loops
    <3>. QED
      BY <2>1, <3>3
  <2>2. CASE n # 0
    <3>1. n-1 \in Has /\ n-1 \in Nat
      BY <2>2
    <3>2. PICK f : Loops(f, n-1)
      BY <3>1
    <3>3. /\ f \in [0..n-1 -> [Timer -> Timer]]
          /\ \A c \in 0..n-1 : \A s \in Timer :
               f[c][s] = IF c = 0 THEN s ELSE f[Turn(s, c).left][Turn(s, c).timer]
      BY <3>2 DEF Loops
    <3>. DEFINE last == [s \in Timer |-> f[Turn(s, n).left][Turn(s, n).timer]]
                g == [c \in 0..n |-> IF c < n THEN f[c] ELSE last]
    <3>4. last \in [Timer -> Timer]
      <4>1. \A s \in Timer : f[Turn(s, n).left][Turn(s, n).timer] \in Timer
        BY <2>2, <3>3, TurnProgress
      <4>. QED
        BY <4>1
    <3>5. \A s \in Timer : last[s] = f[Turn(s, n).left][Turn(s, n).timer]
      OBVIOUS
    <3>. HIDE DEF last
    <3>6. g \in [0..n -> [Timer -> Timer]]
      BY <3>3, <3>4
    <3>7. /\ \A c \in 0..n-1 : g[c] = f[c]
          /\ g[n] = last
      OBVIOUS
    <3>. HIDE DEF g
    <3>8. ASSUME NEW c \in 0..n, NEW s \in Timer
          PROVE  g[c][s] = IF c = 0 THEN s ELSE g[Turn(s, c).left][Turn(s, c).timer]
      <4>1. CASE c = 0
        BY <2>2, <3>3, <3>7, <4>1
      <4>2. CASE c # 0
        <5>. DEFINE left == Turn(s, c).left
                    r == Turn(s, c).timer
        <5>1. left \in 0..c-1 /\ r \in Timer
          BY <4>2, TurnProgress
        <5>2. g[c][s] = f[left][r]
          <6>1. CASE c = n
            BY <3>5, <3>7, <6>1
          <6>2. CASE c # n
            BY <3>3, <3>7, <4>2, <6>2
          <6>. QED
            BY <6>1, <6>2
        <5>. HIDE DEF left, r
        <5>3. g[left] = f[left]
          BY <3>7, <5>1
        <5>. QED
          BY <4>2, <5>2, <5>3 DEF left, r
      <4>. QED
        BY <4>1, <4>2
    <3>9. Loops(g, n)
      BY <3>6, <3>8 DEF Loops
    <3>. QED
      BY <3>9
  <2>. QED
    BY <2>1, <2>2
<1>. HIDE DEF Has
<1>2. Nat \subseteq Has
  BY <1>1, Induction
<1>. QED
  BY <1>2 DEF Has

(* The recursion of loop has a solution, so loop is one.                   *)
LEMMA LoopIs ==
  loop = [c \in Nat |->
           [s \in Timer |-> IF c = 0 THEN s ELSE loop[Turn(s, c).left][Turn(s, c).timer]]]
<1>. DEFINE Upto(c) == CHOOSE f : Loops(f, c)
            F == [c \in Nat |-> Upto(c)[c]]
<1>1. ASSUME NEW c \in Nat PROVE Loops(Upto(c), c)
  BY LoopsExist
<1>2. \A c \in Nat : F[c] = Upto(c)[c]
  OBVIOUS
<1>. HIDE DEF Upto
<1>3. ASSUME NEW c \in Nat
      PROVE  F[c] = [s \in Timer |-> IF c = 0 THEN s ELSE F[Turn(s, c).left][Turn(s, c).timer]]
  <2>. DEFINE f == Upto(c)
  <2>1. Loops(f, c)
    BY <1>1
  <2>2. F[c] = f[c]
    BY <1>2
  <2>. HIDE DEF f, F
  <2>3. f[c] \in [Timer -> Timer]
    BY <2>1 DEF Loops
  <2>4. ASSUME NEW s \in Timer
        PROVE  f[c][s] = IF c = 0 THEN s ELSE F[Turn(s, c).left][Turn(s, c).timer]
    <3>1. f[c][s] = IF c = 0 THEN s ELSE f[Turn(s, c).left][Turn(s, c).timer]
      BY <2>1 DEF Loops
    <3>2. CASE c = 0
      BY <3>1, <3>2
    <3>3. CASE c # 0
      <4>. DEFINE left == Turn(s, c).left
      <4>1. left \in 0..c-1
        BY <3>3, TurnProgress
      <4>. HIDE DEF left
      <4>2. left \in Nat /\ left \in 0..c /\ left \in 0..left
        BY <4>1
      <4>3. Loops(Upto(left), left)
        BY <1>1, <4>2
      <4>. DEFINE g == Upto(left)
      <4>. HIDE DEF g
      <4>4. f[left] = g[left]
        BY <2>1, <4>2, <4>3, LoopsAgree DEF g
      <4>5. F[left] = f[left]
        BY <1>2, <4>2, <4>4 DEF g
      <4>. QED
        BY <3>1, <3>3, <4>5 DEF left
    <3>. QED
      BY <3>2, <3>3
  <2>. QED
    BY <2>2, <2>3, <2>4
<1>4. F = [c \in Nat |->
            [s \in Timer |-> IF c = 0 THEN s ELSE F[Turn(s, c).left][Turn(s, c).timer]]]
  <2>1. F = [c \in Nat |-> F[c]]
    OBVIOUS
  <2>. HIDE DEF F
  <2>. QED
    BY <1>3, <2>1
<1>. HIDE DEF F
<1>5. \E f : f = [c \in Nat |->
                   [s \in Timer |-> IF c = 0 THEN s ELSE f[Turn(s, c).left][Turn(s, c).timer]]]
  BY <1>4
<1>. QED
  BY <1>5 DEF loop

LEMMA LoopTyped ==
  \A c \in Nat : loop[c] \in [Timer -> Timer]
<1>. DEFINE Typed == {c \in Nat : loop[c] \in [Timer -> Timer]}
<1>1. \A n \in Nat : (\A m \in 0..n-1 : m \in Typed) => n \in Typed
  <2>. SUFFICES ASSUME NEW n \in Nat, \A m \in 0..n-1 : m \in Typed
                PROVE  loop[n] \in [Timer -> Timer]
    OBVIOUS
  <2>1. loop[n] = [s \in Timer |-> IF n = 0 THEN s
                                   ELSE loop[Turn(s, n).left][Turn(s, n).timer]]
    BY LoopIs
  <2>2. ASSUME NEW s \in Timer, n # 0
        PROVE  loop[Turn(s, n).left][Turn(s, n).timer] \in Timer
    <3>1. Turn(s, n).left \in 0..n-1 /\ Turn(s, n).timer \in Timer
      BY <2>2, TurnProgress
    <3>. QED
      BY <3>1
  <2>. QED
    BY <2>1, <2>2
<1>. HIDE DEF Typed
<1>2. Nat \subseteq Typed
  BY <1>1, Induction
<1>. QED
  BY <1>2 DEF Typed

LEMMA AdvanceIs ==
  ASSUME NEW s \in Timer
  PROVE  /\ \A c \in Nat : AdvanceTimer(s, c) \in Timer
         /\ AdvanceTimer(s, 0) = s
         /\ \A c \in Nat \ {0} :
              AdvanceTimer(s, c) = AdvanceTimer(Turn(s, c).timer, Turn(s, c).left)
<1>1. ASSUME NEW c \in Nat
      PROVE  /\ loop[c][s] \in Timer
             /\ loop[c][s] = IF c = 0 THEN s ELSE loop[Turn(s, c).left][Turn(s, c).timer]
  <2>1. loop[c] = [r \in Timer |-> IF c = 0 THEN r
                                   ELSE loop[Turn(r, c).left][Turn(r, c).timer]]
    BY LoopIs
  <2>2. loop[c][s] \in Timer
    BY LoopTyped
  <2>. QED
    BY <2>1, <2>2
<1>. QED
  BY <1>1 DEF AdvanceTimer

(* A lap of a counter that cannot interrupt shows only in bit 11.          *)
LEMMA OneLap ==
  ASSUME NEW s \in Timer, Counting(s), OnlyLaps(s), index = 2 => s.rem = 0,
         NEW c \in Nat, c >= Lap(s)
  PROVE  /\ Piece(s, c) = Lap(s) /\ AtEvent(s, Lap(s))
         /\ RunPiece(s, Lap(s)) = [s EXCEPT !.sawTarget = TRUE]
<1>. DEFINE n == Lap(s)
            r == RunPiece(s, n)
            m == TicksToEvent(s)
<1>1. n \in Nat \ {0}
  BY LapTicks
<1>2. /\ s.pulse = 0 /\ s.counter = 0 /\ s.mode.reset /\ s.target > 0
      /\ s.target \in 0..Wrap-1 /\ s.rem \in Nat
      /\ ~(s.mode.onTarget /\ (s.mode.repeat \/ ~s.done))
  BY Ranges DEF OnlyLaps
<1>3. m = s.target /\ m = TicksToTarget(s) /\ m < TicksToOverflow(s) /\ m \in Nat
  BY <1>2, Widths DEF TicksToEvent, TicksToTarget, TicksToOverflow, Least
<1>4. UntilEvent(s) = n
  <2>1. CASE CountsEighths(s)
    <3>1. s.rem = 0
      BY <2>1 DEF CountsEighths
    <3>2. UntilEvent(s) = s.target * Divider - 0
      BY <1>3, <2>1, <3>1 DEF UntilEvent, CyclesForTicks
    <3>3. s.target * Divider \in Int
      BY <1>2, Widths
    <3>4. s.target * Divider - 0 = s.target * Divider
      BY <3>3
    <3>. QED
      BY <2>1, <3>2, <3>4 DEF Lap
  <2>2. CASE ~CountsEighths(s)
    BY <1>3, <2>2 DEF UntilEvent, CyclesForTicks, Lap
  <2>. QED
    BY <2>1, <2>2
<1>. HIDE DEF n, m
<1>5. AtEvent(s, n) /\ Fits(s, n)
  BY <1>1, <1>2, <1>4 DEF AtEvent, Fits
<1>6. Piece(s, c) = n
  BY <1>1, <1>2, <1>4 DEF Piece, Least, n
<1>7. PICK a \in BOOLEAN, b \in BOOLEAN :
        /\ a <=> (TicksToEvent(s) = TicksToTarget(s))
        /\ b <=> (TicksToEvent(s) = TicksToOverflow(s))
  OBVIOUS
<1>8. a = TRUE /\ b = FALSE
  BY <1>3, <1>7, EventAhead DEF m
<1>9. r = RunPiece(s, n)
  OBVIOUS
<1>. HIDE DEF r
<1>10. ~Interrupts(s, a, b)
  BY <1>2, <1>8 DEF Interrupts
<1>11. /\ r \in Timer /\ SetUp(s, r) /\ r.rem = RemainderAfter(s, n) /\ (index = 2 => r.rem = 0)
       /\ r.counter = IF a /\ s.mode.reset /\ s.target > 0 THEN 0 ELSE (s.counter + m) % Wrap
       /\ r.sawTarget = (s.sawTarget \/ a) /\ r.sawOverflow = (s.sawOverflow \/ b)
       /\ r.fired = s.fired /\ r.done = s.done
       /\ r.high = HighAfter(s, n) /\ r.pulse = PulseAfter(s, n)
  BY <1>5, <1>7, <1>9, <1>10, EventPiece DEF m
<1>12. /\ r.counter = 0 /\ r.sawTarget = TRUE /\ r.sawOverflow = s.sawOverflow
       /\ r.high = s.high /\ r.pulse = 0
  BY <1>2, <1>8, <1>11 DEF HighAfter, PulseAfter, Timer
<1>13. r.rem = s.rem
  BY <1>11 DEF RemainderAfter, CountsEighths
<1>. DEFINE q == [s EXCEPT !.sawTarget = TRUE]
<1>14. /\ q \in Timer /\ SetUp(s, q) /\ q.counter = s.counter /\ q.high = s.high
       /\ q.sawTarget = TRUE /\ q.sawOverflow = s.sawOverflow /\ q.done = s.done
       /\ q.pulse = s.pulse /\ q.rem = s.rem /\ q.fired = s.fired
  BY DEF Timer, SetUp
<1>. HIDE DEF q
<1>15. SetUp(q, r)
  BY <1>11, <1>14 DEF SetUp
<1>16. r = q
  BY <1>2, <1>11, <1>12, <1>13, <1>14, <1>15, SameTimer
<1>. QED
  BY <1>5, <1>6, <1>9, <1>16 DEF n, q

LEMMA LessOneLap ==
  ASSUME NEW a \in Nat, NEW d \in Nat \ {0}, a >= d
  PROVE  (a - d) % d = a % d
<1>. DEFINE q == a \div d
            u == a % d
            x == d * q
<1>1. q \in Nat /\ u \in 0..d-1 /\ a = x + u
  BY Divided
<1>. HIDE DEF q, u
<1>2. q # 0
  BY <1>1
<1>3. q-1 \in Nat /\ d * (q-1) = x - d /\ x \in Int
  BY <1>1, <1>2
<1>4. (d * (q-1) + u) % d = u
  BY <1>1, <1>3, DividedInto
<1>. HIDE DEF x
<1>5. a - d = d * (q-1) + u
  BY <1>1, <1>3
<1>. QED
  BY <1>4, <1>5 DEF u

(* Skipping the laps is running them.                                      *)
LEMMA LapsSkipped ==
  ASSUME NEW s \in Timer, Counting(s), OnlyLaps(s), index = 2 => s.rem = 0,
         NEW c \in Nat, c > 0, NEW w \in BOOLEAN, w <=> (s.sawTarget \/ c >= Lap(s))
  PROVE  AdvanceTimer([s EXCEPT !.sawTarget = w], c % Lap(s)) = AdvanceTimer(s, c)
<1>. DEFINE n == Lap(s)
            q == [s EXCEPT !.sawTarget = w]
<1>1. n \in Nat \ {0} /\ s.sawTarget \in BOOLEAN
  BY LapTicks DEF Timer
<1>2. CASE c < n
  <2>1. w = s.sawTarget
    BY <1>1, <1>2
  <2>2. q = s
    BY <2>1 DEF Timer
  <2>. HIDE DEF n
  <2>3. c % n = c
    BY <1>1, <1>2
  <2>. QED
    BY <2>2, <2>3 DEF n
<1>3. CASE c >= n
  <2>1. w = TRUE
    BY <1>3
  <2>2. q = [s EXCEPT !.sawTarget = TRUE]
    BY <2>1
  <2>3. Piece(s, c) = n /\ AtEvent(s, n) /\ RunPiece(s, n) = q
    BY <1>3, <2>2, OneLap
  <2>4. q \in Timer /\ q.sawTarget = TRUE /\ Lap(q) = n /\ OnlyLaps(q)
    <3>1. q \in Timer /\ q.sawTarget = TRUE
      BY <2>2 DEF Timer
    <3>2. /\ SetUp(s, q) /\ q.counter = s.counter /\ q.done = s.done
          /\ q.pulse = s.pulse
      BY <2>2 DEF Timer, SetUp
    <3>. HIDE DEF q
    <3>3. CountsEighths(q) = CountsEighths(s)
      BY <3>2, SameSetUp
    <3>. QED
      BY <3>1, <3>2, <3>3 DEF Lap, OnlyLaps, SetUp
  <2>. DEFINE left == c - n
              full == left >= n
  <2>5. left \in Nat
    BY <1>1, <1>3
  <2>. HIDE DEF q
  <2>6. AdvanceTimer(s, c) = AdvanceTimer(Turn(s, c).timer, Turn(s, c).left)
    BY AdvanceIs
  <2>7. left % n = c % n
    <3>. HIDE DEF n
    <3>. QED
      BY <1>1, <1>3, LessOneLap
  <2>8. CASE left = 0
    <3>1. Turn(s, c) = [timer |-> q, left |-> left]
      BY <2>3, <2>8 DEF Turn, AtEvent
    <3>. HIDE DEF left, n
    <3>2. 0 % n = 0
      BY <1>1
    <3>3. Turn(s, c).timer = q /\ Turn(s, c).left = 0 /\ c % n = 0
      BY <2>7, <2>8, <3>1, <3>2
    <3>. QED
      BY <2>6, <3>3 DEF q, n
  <2>9. CASE left > 0
    <3>. DEFINE v == q.sawTarget \/ left >= Lap(q)
    <3>1. Turn(s, c) = [timer |-> [q EXCEPT !.sawTarget = v], left |-> left % Lap(q)]
      BY <2>3, <2>4, <2>9 DEF Turn, AtEvent
    <3>2. v = TRUE
      BY <2>4
    <3>3. [q EXCEPT !.sawTarget = v] = q
      BY <2>4, <3>2 DEF Timer
    <3>4. Turn(s, c).timer = q /\ Turn(s, c).left = left % n
      BY <2>4, <3>1, <3>3
    <3>. HIDE DEF left, n
    <3>. QED
      BY <2>6, <2>7, <3>4 DEF q, n
  <2>. HIDE DEF left
  <2>. QED
    BY <2>5, <2>8, <2>9
<1>4. c < n \/ c >= n
  BY <1>1
<1>. QED
  BY <1>2, <1>3, <1>4

(* advance_timer() runs a span piece by piece.                             *)
LEMMA PieceByPiece ==
  ASSUME NEW s \in Timer, NEW c \in Nat \ {0}
  PROVE  AdvanceTimer(s, c) = AdvanceTimer(RunPiece(s, Piece(s, c)), c - Piece(s, c))
<1>. DEFINE n == Piece(s, c)
            r == RunPiece(s, n)
            left == c - n
<1>1. n \in 1..c /\ Fits(s, n)
  BY PieceFits
<1>. HIDE DEF n
<1>2. r \in Timer /\ SetUp(s, r) /\ (AtEvent(s, n) /\ index = 2 => r.rem = 0)
  BY <1>1, PieceTyped
<1>3. left \in Nat
  BY <1>1
<1>4. AdvanceTimer(s, c) = AdvanceTimer(Turn(s, c).timer, Turn(s, c).left)
  BY AdvanceIs
<1>5. CASE AtEvent(s, n) /\ left > 0 /\ OnlyLaps(r)
  <2>. DEFINE w == r.sawTarget \/ left >= Lap(r)
              q == [r EXCEPT !.sawTarget = w]
              u == left % Lap(r)
  <2>1. Turn(s, c) = [timer |-> q, left |-> u]
    BY <1>5 DEF Turn, AtEvent, n, left
  <2>2. Turn(s, c).timer = q /\ Turn(s, c).left = u
    <3>. HIDE DEF q, u
    <3>. QED
      BY <2>1
  <2>3. Counting(r)
    BY <1>2, <1>5, SameSetUp DEF AtEvent
  <2>4. w \in BOOLEAN /\ (w <=> (r.sawTarget \/ left >= Lap(r)))
    BY <1>2 DEF Timer
  <2>. HIDE DEF w, r, left
  <2>5. AdvanceTimer(q, u) = AdvanceTimer(r, left)
    BY <1>2, <1>3, <1>5, <2>3, <2>4, LapsSkipped
  <2>. HIDE DEF q, u
  <2>6. AdvanceTimer(s, c) = AdvanceTimer(r, left)
    BY <1>4, <2>2, <2>5
  <2>. QED
    BY <2>6 DEF r, left, n
<1>6. CASE ~(AtEvent(s, n) /\ left > 0 /\ OnlyLaps(r))
  <2>1. Turn(s, c) = [timer |-> r, left |-> left]
    BY <1>6 DEF Turn, AtEvent, n, left
  <2>. HIDE DEF r, left
  <2>2. Turn(s, c).timer = r /\ Turn(s, c).left = left
    BY <2>1
  <2>. QED
    BY <1>4, <2>2 DEF r, left, n
<1>. QED
  BY <1>5, <1>6

-----------------------------------------------------------------------------
(***************************************************************************)
(* A span may be cut anywhere.                                             *)
(***************************************************************************)
LEMMA TicksAdd ==
  ASSUME NEW s \in Timer, NEW r \in Timer, NEW n \in Nat, NEW m \in Nat,
         r.rem = RemainderAfter(s, n), r.mode = s.mode
  PROVE  /\ TicksIn(s, n + m) = TicksIn(s, n) + TicksIn(r, m)
         /\ RemainderAfter(s, n + m) = RemainderAfter(r, m)
<1>1. CountsEighths(r) = CountsEighths(s)
  BY DEF CountsEighths
<1>2. CASE CountsEighths(s)
  <2>. DEFINE a == s.rem + n
              b == r.rem + m
  <2>1. a \in Nat /\ b \in Nat /\ Divider \in Nat \ {0} /\ s.rem \in Nat /\ r.rem \in Nat
    BY Ranges, Widths
  <2>. HIDE DEF a, b
  <2>. DEFINE q == a \div Divider
              u == a % Divider
              q2 == b \div Divider
              u2 == b % Divider
              x == Divider * q
              y == Divider * q2
  <2>2. /\ q \in Nat /\ u \in 0..Divider-1 /\ a = x + u
        /\ q2 \in Nat /\ u2 \in 0..Divider-1 /\ b = y + u2
    BY <2>1, Divided
  <2>3. TicksIn(s, n) = q /\ r.rem = u /\ TicksIn(r, m) = q2 /\ RemainderAfter(r, m) = u2
    BY <1>1, <1>2 DEF TicksIn, RemainderAfter, a, b
  <2>. HIDE DEF q, u, q2, u2
  <2>4. /\ q + q2 \in Nat /\ x \in Int /\ y \in Int /\ Divider * (q + q2) = x + y
    BY <2>1, <2>2
  <2>. DEFINE z == Divider * (q + q2) + u2
  <2>5. z \div Divider = q + q2 /\ z % Divider = u2
    BY <2>1, <2>2, <2>4, DividedInto
  <2>. HIDE DEF x, y
  <2>6. s.rem + (n + m) = z
    BY <2>1, <2>2, <2>3, <2>4 DEF a, b
  <2>. HIDE DEF z
  <2>7. TicksIn(s, n + m) = q + q2 /\ RemainderAfter(s, n + m) = u2
    BY <1>2, <2>5, <2>6 DEF TicksIn, RemainderAfter
  <2>. QED
    BY <2>3, <2>7
<1>3. CASE ~CountsEighths(s)
  BY <1>1, <1>3 DEF TicksIn, RemainderAfter
<1>. QED
  BY <1>2, <1>3

(* While no event is met, what lies ahead draws nearer by what has run.    *)
LEMMA EventNearer ==
  ASSUME NEW s \in Timer, NEW n, Fits(s, n), ~AtEvent(s, n), Counting(s),
         NEW r, r = RunPiece(s, n)
  PROVE  /\ TicksToTarget(r) = TicksToTarget(s) - TicksIn(s, n)
         /\ TicksToOverflow(r) = TicksToOverflow(s) - TicksIn(s, n)
         /\ TicksToEvent(r) = TicksToEvent(s) - TicksIn(s, n)
         /\ UntilEvent(r) = UntilEvent(s) - n
         /\ r.counter < r.target <=> s.counter < s.target
<1>. DEFINE k == TicksIn(s, n)
<1>1. /\ r \in Timer /\ SetUp(s, r) /\ r.rem = RemainderAfter(s, n)
      /\ r.counter = s.counter + k /\ k \in 0..TicksToEvent(s)-1
  BY QuietPiece
<1>2. n \in Nat
  BY DEF Fits
<1>. HIDE DEF k
<1>3. r.target = s.target /\ r.mode = s.mode
  BY <1>1 DEF SetUp
<1>4. /\ TicksToEvent(s) \in Nat
      /\ TicksToEvent(s) <= TicksToTarget(s) /\ TicksToEvent(s) <= TicksToOverflow(s)
  BY EventAhead, Widths
<1>5. /\ s.counter \in Nat /\ s.target \in Nat /\ k \in Nat /\ Wrap \in Nat
      /\ s.counter < Wrap /\ s.target < Wrap
  BY <1>1, <1>4, Ranges, Widths
<1>6. /\ r.counter < r.target <=> s.counter < s.target
      /\ TicksToTarget(r) = TicksToTarget(s) - k
  BY <1>1, <1>3, <1>4, <1>5 DEF TicksToTarget
<1>7. TicksToOverflow(r) = TicksToOverflow(s) - k
  BY <1>1, <1>5 DEF TicksToOverflow
<1>8. TicksToTarget(s) \in Nat /\ TicksToOverflow(s) \in Nat
  BY EventAhead, Widths
<1>9. TicksToEvent(r) = TicksToEvent(s) - k
  BY <1>5, <1>6, <1>7, <1>8 DEF TicksToEvent, Least
<1>10. UntilEvent(r) = UntilEvent(s) - n
  <2>. DEFINE h == TicksToEvent(s)
  <2>1. h \in Int
    BY <1>4
  <2>2. TicksToEvent(r) = h - TicksIn(s, n)
    BY <1>9 DEF k
  <2>. HIDE DEF h
  <2>3. CyclesForTicks(r, h - TicksIn(s, n)) = CyclesForTicks(s, h) - n
    BY <1>1, <1>2, <1>3, <2>1, CyclesLeft
  <2>. QED
    BY <2>2, <2>3 DEF UntilEvent, h
<1>. QED
  BY <1>6, <1>7, <1>9, <1>10 DEF k

(* The first n cycles of a piece leave the rest of it as the next piece,   *)
(* and running the two is running the whole.                               *)
LEMMA PieceSplits ==
  ASSUME NEW s \in Timer, NEW p, Fits(s, p), NEW n \in Nat \ {0}, n < p,
         NEW r, r = RunPiece(s, n)
  PROVE  /\ Fits(s, n) /\ ~AtEvent(s, n) /\ r \in Timer /\ Fits(r, p - n)
         /\ AtEvent(r, p - n) <=> AtEvent(s, p)
         /\ RunPiece(r, p - n) = RunPiece(s, p)
<1>1. /\ p \in Nat \ {0} /\ s.pulse \in Nat /\ UntilEvent(s) \in Nat
      /\ s.pulse # 0 => p <= s.pulse
      /\ Counting(s) => p <= UntilEvent(s)
  BY Ranges, EventCycles DEF Fits
<1>2. Fits(s, n) /\ ~AtEvent(s, n)
  BY <1>1 DEF Fits, AtEvent
<1>3. /\ r \in Timer /\ SetUp(s, r) /\ r.rem = RemainderAfter(s, n)
      /\ Counting(s) => /\ r.counter = s.counter + TicksIn(s, n)
                        /\ TicksIn(s, n) \in 0..TicksToEvent(s)-1
      /\ ~Counting(s) => r.counter = s.counter
      /\ r.pulse = PulseAfter(s, n) /\ r.high = HighAfter(s, n)
      /\ r.fired = s.fired /\ r.done = s.done
      /\ r.sawTarget = s.sawTarget /\ r.sawOverflow = s.sawOverflow
  BY <1>2, QuietPiece
<1>4. r.pulse = (IF s.pulse = 0 THEN 0 ELSE s.pulse - n) /\ r.high = s.high /\ r.pulse \in Nat
  BY <1>1, <1>3 DEF PulseAfter, HighAfter, Timer
<1>5. Counting(r) = Counting(s) /\ CountsEighths(r) = CountsEighths(s)
  BY <1>3, SameSetUp
<1>. DEFINE m == p - n
            x == RunPiece(s, p)
            y == RunPiece(r, m)
<1>6. m \in Nat \ {0} /\ p = n + m
  BY <1>1
<1>7. Counting(s) =>
        /\ TicksToTarget(r) = TicksToTarget(s) - TicksIn(s, n)
        /\ TicksToOverflow(r) = TicksToOverflow(s) - TicksIn(s, n)
        /\ TicksToEvent(r) = TicksToEvent(s) - TicksIn(s, n)
        /\ UntilEvent(r) = UntilEvent(s) - n
  BY <1>2, EventNearer
<1>8. Fits(r, m) /\ (AtEvent(r, m) <=> AtEvent(s, p))
  BY <1>1, <1>4, <1>5, <1>6, <1>7 DEF Fits, AtEvent
<1>. HIDE DEF m
<1>9. PulseAfter(r, m) = PulseAfter(s, p) /\ HighAfter(r, m) = HighAfter(s, p)
  BY <1>1, <1>4, <1>6 DEF PulseAfter, HighAfter
<1>10. /\ TicksIn(s, p) = TicksIn(s, n) + TicksIn(r, m)
       /\ RemainderAfter(s, p) = RemainderAfter(r, m)
  <2>1. r.mode = s.mode /\ m \in Nat
    BY <1>3, <1>6 DEF SetUp
  <2>2. /\ TicksIn(s, n + m) = TicksIn(s, n) + TicksIn(r, m)
        /\ RemainderAfter(s, n + m) = RemainderAfter(r, m)
    BY <1>3, <2>1, TicksAdd
  <2>. QED
    BY <1>6, <2>2
<1>11. TicksIn(s, n) \in Nat /\ TicksIn(r, m) \in Nat /\ s.counter \in Nat
  BY <1>3, <1>6, TicksTyped, Ranges
<1>12. CASE ~AtEvent(s, p)
  <2>1. x = RunPiece(s, p) /\ y = RunPiece(r, m)
    OBVIOUS
  <2>. HIDE DEF x, y
  <2>2. /\ x \in Timer /\ SetUp(s, x) /\ x.rem = RemainderAfter(s, p)
        /\ Counting(s) => x.counter = s.counter + TicksIn(s, p)
        /\ ~Counting(s) => x.counter = s.counter
        /\ x.pulse = PulseAfter(s, p) /\ x.high = HighAfter(s, p)
        /\ x.fired = s.fired /\ x.done = s.done
        /\ x.sawTarget = s.sawTarget /\ x.sawOverflow = s.sawOverflow
    BY <1>12, <2>1, QuietPiece
  <2>3. /\ y \in Timer /\ SetUp(r, y) /\ y.rem = RemainderAfter(r, m)
        /\ Counting(r) => y.counter = r.counter + TicksIn(r, m)
        /\ ~Counting(r) => y.counter = r.counter
        /\ y.pulse = PulseAfter(r, m) /\ y.high = HighAfter(r, m)
        /\ y.fired = r.fired /\ y.done = r.done
        /\ y.sawTarget = r.sawTarget /\ y.sawOverflow = r.sawOverflow
    BY <1>3, <1>8, <1>12, <2>1, QuietPiece
  <2>4. y.counter = x.counter
    BY <1>3, <1>5, <1>10, <1>11, <2>2, <2>3
  <2>5. SetUp(x, y)
    BY <1>3, <2>2, <2>3 DEF SetUp
  <2>6. /\ y.rem = x.rem /\ y.pulse = x.pulse /\ y.high = x.high /\ y.fired = x.fired
        /\ y.done = x.done /\ y.sawTarget = x.sawTarget /\ y.sawOverflow = x.sawOverflow
    BY <1>3, <1>9, <1>10, <2>2, <2>3
  <2>7. y = x
    BY <2>2, <2>3, <2>4, <2>5, <2>6, SameTimer
  <2>. QED
    BY <1>2, <1>3, <1>8, <2>7 DEF x, y, m
<1>13. CASE AtEvent(s, p)
  <2>1. PICK a \in BOOLEAN, b \in BOOLEAN :
          /\ a <=> (TicksToEvent(s) = TicksToTarget(s))
          /\ b <=> (TicksToEvent(s) = TicksToOverflow(s))
    OBVIOUS
  <2>2. /\ TicksToEvent(s) \in Nat /\ TicksToTarget(s) \in Nat /\ TicksToOverflow(s) \in Nat
    BY EventAhead, Widths
  <2>3. /\ a <=> (TicksToEvent(r) = TicksToTarget(r))
        /\ b <=> (TicksToEvent(r) = TicksToOverflow(r))
        /\ r.counter + TicksToEvent(r) = s.counter + TicksToEvent(s)
    BY <1>3, <1>7, <1>11, <1>13, <2>1, <2>2 DEF AtEvent
  <2>4. x = RunPiece(s, p) /\ y = RunPiece(r, m)
    OBVIOUS
  <2>. HIDE DEF x, y
  <2>5. /\ x \in Timer /\ SetUp(s, x) /\ x.rem = RemainderAfter(s, p)
        /\ x.counter = IF a /\ s.mode.reset /\ s.target > 0 THEN 0
                       ELSE (s.counter + TicksToEvent(s)) % Wrap
        /\ x.sawTarget = (s.sawTarget \/ a) /\ x.sawOverflow = (s.sawOverflow \/ b)
        /\ Interrupts(s, a, b) =>
             /\ x.fired = s.fired + 1 /\ x.done = (s.done \/ ~s.mode.repeat)
             /\ x.high = (s.mode.toggle /\ ~HighAfter(s, p))
             /\ x.pulse = IF s.mode.toggle THEN PulseAfter(s, p) ELSE PulseCycles
        /\ ~Interrupts(s, a, b) =>
             /\ x.fired = s.fired /\ x.done = s.done
             /\ x.high = HighAfter(s, p) /\ x.pulse = PulseAfter(s, p)
    BY <1>13, <2>1, <2>4, EventPiece
  <2>6. /\ y \in Timer /\ SetUp(r, y) /\ y.rem = RemainderAfter(r, m)
        /\ y.counter = IF a /\ r.mode.reset /\ r.target > 0 THEN 0
                       ELSE (r.counter + TicksToEvent(r)) % Wrap
        /\ y.sawTarget = (r.sawTarget \/ a) /\ y.sawOverflow = (r.sawOverflow \/ b)
        /\ Interrupts(r, a, b) =>
             /\ y.fired = r.fired + 1 /\ y.done = (r.done \/ ~r.mode.repeat)
             /\ y.high = (r.mode.toggle /\ ~HighAfter(r, m))
             /\ y.pulse = IF r.mode.toggle THEN PulseAfter(r, m) ELSE PulseCycles
        /\ ~Interrupts(r, a, b) =>
             /\ y.fired = r.fired /\ y.done = r.done
             /\ y.high = HighAfter(r, m) /\ y.pulse = PulseAfter(r, m)
    BY <1>3, <1>8, <1>13, <2>3, <2>4, EventPiece
  <2>7. Interrupts(r, a, b) = Interrupts(s, a, b)
    BY <1>3 DEF Interrupts, SetUp
  <2>8. r.mode = s.mode /\ r.target = s.target
    BY <1>3 DEF SetUp
  <2>9. y.counter = x.counter
    BY <2>3, <2>5, <2>6, <2>8
  <2>10. SetUp(x, y)
    BY <1>3, <2>5, <2>6 DEF SetUp
  <2>11. y.rem = x.rem /\ y.sawTarget = x.sawTarget /\ y.sawOverflow = x.sawOverflow
    BY <1>3, <1>10, <2>5, <2>6
  <2>12. y.pulse = x.pulse /\ y.high = x.high /\ y.fired = x.fired /\ y.done = x.done
    <3>1. CASE Interrupts(s, a, b)
      BY <1>3, <1>9, <2>5, <2>6, <2>7, <2>8, <3>1
    <3>2. CASE ~Interrupts(s, a, b)
      BY <1>3, <1>9, <2>5, <2>6, <2>7, <2>8, <3>2
    <3>. QED
      BY <3>1, <3>2
  <2>13. y = x
    BY <2>5, <2>6, <2>9, <2>10, <2>11, <2>12, SameTimer
  <2>. QED
    BY <1>2, <1>3, <1>8, <2>13 DEF x, y, m
<1>. QED
  BY <1>12, <1>13

LEMMA NextPiece ==
  ASSUME NEW s \in Timer, NEW c \in Nat \ {0}, NEW n \in Nat \ {0}, n < Piece(s, c),
         NEW r, r = RunPiece(s, n)
  PROVE  Piece(r, c - n) = Piece(s, c) - n
<1>. DEFINE p == Piece(s, c)
<1>1. Fits(s, p) /\ p \in 1..c
  BY PieceFits
<1>. HIDE DEF p
<1>2. /\ n < p /\ p \in Nat /\ s.pulse \in Nat /\ UntilEvent(s) \in Nat
      /\ s.pulse # 0 => p <= s.pulse
      /\ Counting(s) => p <= UntilEvent(s)
  BY <1>1, Ranges, EventCycles DEF Fits, p
<1>3. Fits(s, n) /\ ~AtEvent(s, n)
  BY <1>1, <1>2, PieceSplits
<1>4. SetUp(s, r) /\ r.pulse = PulseAfter(s, n)
  BY <1>3, QuietPiece
<1>5. Counting(r) = Counting(s)
  BY <1>4, SameSetUp
<1>6. Counting(s) => UntilEvent(r) = UntilEvent(s) - n
  BY <1>3, EventNearer
<1>7. r.pulse = IF s.pulse = 0 THEN 0 ELSE s.pulse - n
  BY <1>4 DEF PulseAfter
<1>8. CASE Counting(s)
  <2>. DEFINE e == UntilEvent(s)
  <2>1. /\ p = Least(IF s.pulse # 0 THEN Least(c, s.pulse) ELSE c, e)
        /\ Piece(r, c - n) =
             Least(IF r.pulse # 0 THEN Least(c - n, r.pulse) ELSE c - n, e - n)
    BY <1>5, <1>6, <1>8 DEF Piece, p
  <2>2. e \in Nat
    BY <1>2
  <2>. HIDE DEF e
  <2>3. Piece(r, c - n) = p - n
    BY <1>2, <1>7, <2>1, <2>2 DEF Least
  <2>. QED
    BY <2>3 DEF p
<1>9. CASE ~Counting(s)
  <2>1. /\ p = IF s.pulse # 0 THEN Least(c, s.pulse) ELSE c
        /\ Piece(r, c - n) = IF r.pulse # 0 THEN Least(c - n, r.pulse) ELSE c - n
    BY <1>5, <1>9 DEF Piece, p
  <2>2. Piece(r, c - n) = p - n
    BY <1>2, <1>7, <2>1 DEF Least
  <2>. QED
    BY <2>2 DEF p
<1>. QED
  BY <1>8, <1>9

LEMMA CycleByCycle ==
  ASSUME NEW s \in Timer, NEW c \in Nat \ {0}
  PROVE  AdvanceTimer(s, c) = AdvanceTimer(AdvanceTimer(s, 1), c - 1)
<1>. DEFINE p == Piece(s, c)
            r == RunPiece(s, 1)
            left == c - 1
<1>1. p \in 1..c /\ Fits(s, p) /\ Piece(s, 1) \in 1..1 /\ Fits(s, Piece(s, 1))
  BY PieceFits
<1>2. Piece(s, 1) = 1
  BY <1>1
<1>3. r \in Timer
  BY <1>1, <1>2, PieceTyped
<1>. HIDE DEF r, p
<1>4. AdvanceTimer(s, 1) = r
  <2>1. AdvanceTimer(s, 1) = AdvanceTimer(RunPiece(s, Piece(s, 1)), 1 - Piece(s, 1))
    BY PieceByPiece
  <2>2. AdvanceTimer(s, 1) = AdvanceTimer(r, 0)
    BY <1>2, <2>1 DEF r
  <2>. QED
    BY <1>3, <2>2, AdvanceIs
<1>5. AdvanceTimer(s, c) = AdvanceTimer(RunPiece(s, p), c - p)
  BY PieceByPiece DEF p
<1>6. CASE p = 1
  BY <1>4, <1>5, <1>6 DEF r
<1>7. CASE p > 1
  <2>1. left \in Nat \ {0} /\ p - 1 \in Nat
    BY <1>1, <1>7
  <2>2. Piece(r, left) = p - 1
    BY <1>7, NextPiece DEF p, r
  <2>3. RunPiece(r, p - 1) = RunPiece(s, p)
    BY <1>1, <1>7, PieceSplits DEF r
  <2>4. left - (p - 1) = c - p
    BY <1>1
  <2>. HIDE DEF left
  <2>5. AdvanceTimer(r, left) = AdvanceTimer(RunPiece(r, Piece(r, left)), left - Piece(r, left))
    BY <1>3, <2>1, PieceByPiece
  <2>6. AdvanceTimer(r, left) = AdvanceTimer(RunPiece(s, p), c - p)
    BY <2>2, <2>3, <2>4, <2>5
  <2>. QED
    BY <1>4, <1>5, <2>6 DEF left
<1>. QED
  BY <1>1, <1>6, <1>7

(* Any two spans, one after the other, are the span of their sum.          *)
LEMMA SpansAdd ==
  ASSUME NEW s \in Timer, NEW n \in Nat, NEW m \in Nat
  PROVE  AdvanceTimer(AdvanceTimer(s, n), m) = AdvanceTimer(s, n + m)
<1>. DEFINE Adds == {i \in Nat : \A r \in Timer :
                       AdvanceTimer(AdvanceTimer(r, i), m) = AdvanceTimer(r, i + m)}
<1>1. \A i \in Nat : (\A j \in 0..i-1 : j \in Adds) => i \in Adds
  <2>. SUFFICES ASSUME NEW i \in Nat, \A j \in 0..i-1 : j \in Adds, NEW r \in Timer
                PROVE  AdvanceTimer(AdvanceTimer(r, i), m) = AdvanceTimer(r, i + m)
    OBVIOUS
  <2>1. CASE i = 0
    <3>1. AdvanceTimer(r, 0) = r /\ 0 + m = m
      BY AdvanceIs
    <3>. QED
      BY <2>1, <3>1
  <2>2. CASE i # 0
    <3>. DEFINE q == AdvanceTimer(r, 1)
    <3>1. q \in Timer
      BY AdvanceIs
    <3>2. i - 1 \in Adds
      BY <2>2
    <3>. HIDE DEF q
    <3>3. AdvanceTimer(AdvanceTimer(q, i - 1), m) = AdvanceTimer(q, (i - 1) + m)
      BY <3>1, <3>2
    <3>4. AdvanceTimer(r, i) = AdvanceTimer(q, i - 1)
      BY <2>2, CycleByCycle DEF q
    <3>. DEFINE c == i + m
    <3>5. c \in Nat \ {0} /\ c - 1 = (i - 1) + m
      BY <2>2
    <3>. HIDE DEF c
    <3>6. AdvanceTimer(r, c) = AdvanceTimer(q, c - 1)
      BY <3>5, CycleByCycle DEF q
    <3>. QED
      BY <3>3, <3>4, <3>5, <3>6 DEF c
  <2>. QED
    BY <2>1, <2>2
<1>. HIDE DEF Adds
<1>2. Nat \subseteq Adds
  BY <1>1, Induction
<1>3. n \in Adds
  BY <1>2
<1>. QED
  BY <1>3 DEF Adds

-----------------------------------------------------------------------------
(***************************************************************************)
(* cycles_until_irq() and the pieces.                                      *)
(***************************************************************************)
Hits(s) ==
  (IF s.mode.onTarget THEN {TicksToTarget(s)} ELSE {}) \cup
  (IF s.mode.onOverflow /\ ~(s.mode.reset /\ s.target > 0 /\ s.counter < s.target)
   THEN {TicksToOverflow(s)} ELSE {})

(* An interrupt is to come: one of the counter's hits requests it.         *)
Armed(s) == Counting(s) /\ (s.mode.repeat \/ ~s.done) /\ Hits(s) # {}

FirstOf(s, h) == h \in Hits(s) /\ \A g \in Hits(s) : h <= g

LEMMA HitsAhead ==
  ASSUME NEW s \in Timer, NEW h \in Hits(s)
  PROVE  h \in Nat \ {0} /\ TicksToEvent(s) <= h
<1>1. h \in {TicksToTarget(s), TicksToOverflow(s)}
  BY DEF Hits
<1>. QED
  BY <1>1, EventAhead, Widths

LEMMA FirstHit ==
  ASSUME NEW s \in Timer, Hits(s) # {}
  PROVE  \E h \in Nat \ {0} : FirstOf(s, h)
<1>1. Hits(s) \subseteq Nat
  BY HitsAhead
<1>2. PICK h \in Hits(s) : \A g \in Hits(s) : h <= g
  BY <1>1, LeastNumber
<1>. QED
  BY <1>2, HitsAhead DEF FirstOf

LEMMA DueIs ==
  ASSUME NEW s \in Timer
  PROVE  /\ ~Armed(s) => CyclesUntilIrq(s) = NoEvent
         /\ \A h \in Nat \ {0} : Armed(s) /\ FirstOf(s, h) =>
              /\ CyclesUntilIrq(s) = CyclesForTicks(s, h)
              /\ CyclesUntilIrq(s) \in Nat \ {0}
<1>1. CyclesUntilIrq(s) =
        IF ~Armed(s) THEN NoEvent
        ELSE CyclesForTicks(s, CHOOSE h \in Hits(s) : \A g \in Hits(s) : h <= g)
  BY DEF CyclesUntilIrq, Armed, Hits
<1>2. ASSUME NEW h \in Nat \ {0}, Armed(s), FirstOf(s, h)
      PROVE  /\ CyclesUntilIrq(s) = CyclesForTicks(s, h)
             /\ CyclesUntilIrq(s) \in Nat \ {0}
  <2>. DEFINE first == CHOOSE x \in Hits(s) : \A g \in Hits(s) : x <= g
  <2>1. first \in Hits(s) /\ \A g \in Hits(s) : first <= g
    BY <1>2 DEF FirstOf
  <2>2. CyclesUntilIrq(s) = CyclesForTicks(s, first)
    BY <1>1, <1>2
  <2>. HIDE DEF first
  <2>3. first = h
    BY <1>2, <2>1, HitsAhead DEF FirstOf
  <2>4. CyclesForTicks(s, h) \in Nat \ {0}
    <3>1. 0 \in Nat /\ 0 < h
      OBVIOUS
    <3>. QED
      BY <3>1, CyclesGrow
  <2>. QED
    BY <2>2, <2>3, <2>4
<1>. QED
  BY <1>1, <1>2

(* A piece before the event brings the interrupt nearer and raises none.   *)
LEMMA QuietDeadline ==
  ASSUME NEW s \in Timer, NEW n, Fits(s, n), ~AtEvent(s, n), NEW r, r = RunPiece(s, n)
  PROVE  /\ r.fired = s.fired /\ Armed(r) = Armed(s)
         /\ \A h \in Nat \ {0} : Armed(s) /\ FirstOf(s, h) =>
              FirstOf(r, h - TicksIn(s, n)) /\ h - TicksIn(s, n) \in Nat \ {0}
<1>1. /\ r \in Timer /\ SetUp(s, r)
      /\ r.fired = s.fired /\ r.done = s.done
      /\ Counting(s) => TicksIn(s, n) \in 0..TicksToEvent(s)-1
  BY QuietPiece
<1>2. Counting(r) = Counting(s) /\ r.mode = s.mode /\ r.target = s.target
  BY <1>1, SameSetUp DEF SetUp
<1>3. CASE ~Counting(s)
  BY <1>1, <1>2, <1>3 DEF Armed
<1>4. CASE Counting(s)
  <2>. DEFINE k == TicksIn(s, n)
  <2>1. /\ TicksToTarget(r) = TicksToTarget(s) - k
        /\ TicksToOverflow(r) = TicksToOverflow(s) - k
        /\ r.counter < r.target <=> s.counter < s.target
    BY <1>4, EventNearer
  <2>2. k \in 0..TicksToEvent(s)-1 /\ k \in Nat /\ TicksToEvent(s) \in Nat
    BY <1>1, <1>4, EventAhead, Widths
  <2>. HIDE DEF k
  <2>3. Hits(r) = {g - k : g \in Hits(s)}
    BY <1>2, <2>1 DEF Hits
  <2>4. Armed(r) = Armed(s)
    BY <1>1, <1>2, <2>3 DEF Armed
  <2>5. ASSUME NEW h \in Nat \ {0}, FirstOf(s, h)
        PROVE  FirstOf(r, h - k) /\ h - k \in Nat \ {0}
    <3>1. h \in Hits(s) /\ \A g \in Hits(s) : h <= g
      BY <2>5 DEF FirstOf
    <3>2. h - k \in Hits(r)
      BY <2>3, <3>1
    <3>3. \A g \in Hits(r) : h - k <= g
      <4>1. \A g \in Hits(s) : g \in Nat /\ h - k <= g - k
        BY <2>2, <3>1, HitsAhead
      <4>. QED
        BY <2>3, <4>1
    <3>4. TicksToEvent(s) <= h
      BY <3>1, HitsAhead
    <3>. QED
      BY <2>2, <3>2, <3>3, <3>4 DEF FirstOf
  <2>. QED
    BY <1>1, <2>4, <2>5 DEF k
<1>. QED
  BY <1>3, <1>4

LEMMA WrapsOnce ==
  ASSUME NEW d \in Nat \ {0}, NEW c \in 0..d
  PROVE  c % d = IF c = d THEN 0 ELSE c
<1>1. CASE c = d
  <2>1. d * 1 + 0 = d /\ 0 \in 0..d-1
    OBVIOUS
  <2>2. (d * 1 + 0) % d = 0
    BY <2>1, DividedInto
  <2>. QED
    BY <1>1, <2>1, <2>2
<1>2. CASE c # d
  <2>1. d * 0 + c = c /\ c \in 0..d-1
    BY <1>2
  <2>2. (d * 0 + c) % d = c
    BY <2>1, DividedInto
  <2>. QED
    BY <1>2, <2>1, <2>2
<1>. QED
  BY <1>1, <1>2

(* An event raises the interrupt if it is the next hit; if it is none, the *)
(* next hit stays where it was.                                            *)
LEMMA EventDeadline ==
  ASSUME NEW s \in Timer, NEW n, Fits(s, n), AtEvent(s, n), NEW r, r = RunPiece(s, n)
  PROVE  /\ ~Armed(s) => r.fired = s.fired /\ ~Armed(r)
         /\ \A h \in Nat \ {0} : Armed(s) /\ FirstOf(s, h) =>
              /\ h = TicksToEvent(s) => r.fired = s.fired + 1
              /\ h # TicksToEvent(s) =>
                   /\ r.fired = s.fired /\ Armed(r)
                   /\ FirstOf(r, h - TicksToEvent(s)) /\ h - TicksToEvent(s) \in Nat \ {0}
<1>. DEFINE k == TicksToEvent(s)
            tt == TicksToTarget(s)
            to == TicksToOverflow(s)
            low == s.counter < s.target
            resets == s.mode.reset /\ s.target > 0
<1>1. PICK a \in BOOLEAN, b \in BOOLEAN :
        /\ a <=> (TicksToEvent(s) = TicksToTarget(s))
        /\ b <=> (TicksToEvent(s) = TicksToOverflow(s))
  OBVIOUS
<1>2. /\ r \in Timer /\ SetUp(s, r)
      /\ r.counter = IF a /\ s.mode.reset /\ s.target > 0 THEN 0 ELSE (s.counter + k) % Wrap
      /\ Interrupts(s, a, b) =>
           r.fired = s.fired + 1 /\ r.done = (s.done \/ ~s.mode.repeat)
      /\ ~Interrupts(s, a, b) => r.fired = s.fired /\ r.done = s.done
  BY <1>1, EventPiece
<1>3. Counting(s) /\ Counting(r) /\ r.mode = s.mode /\ r.target = s.target
  BY <1>2, SameSetUp DEF SetUp, AtEvent
<1>4. /\ k \in Nat \ {0} /\ tt \in Nat \ {0} /\ to \in Nat \ {0}
      /\ k <= tt /\ k <= to /\ (k = tt \/ k = to) /\ (low => tt < to)
  BY EventAhead, Widths
<1>5. /\ s.counter \in Nat /\ s.target \in Nat /\ Wrap \in Nat
      /\ s.counter < Wrap /\ s.target < Wrap
      /\ to = Wrap - s.counter
      /\ tt = IF low THEN s.target - s.counter ELSE to + s.target
  BY Ranges, Widths DEF TicksToTarget, TicksToOverflow
<1>6. (a <=> k = tt) /\ (b <=> k = to)
  BY <1>1
<1>7. Hits(s) = (IF s.mode.onTarget THEN {tt} ELSE {}) \cup
                (IF s.mode.onOverflow /\ ~(resets /\ low) THEN {to} ELSE {})
  BY DEF Hits
<1>8. Hits(r) = (IF s.mode.onTarget THEN {TicksToTarget(r)} ELSE {}) \cup
                (IF s.mode.onOverflow /\ ~(resets /\ r.counter < r.target)
                 THEN {TicksToOverflow(r)} ELSE {})
  BY <1>3 DEF Hits
<1>9. /\ TicksToTarget(r) = IF r.counter < s.target THEN s.target - r.counter
                            ELSE (Wrap - r.counter) + s.target
      /\ TicksToOverflow(r) = Wrap - r.counter
  BY <1>3 DEF TicksToTarget, TicksToOverflow
<1>10. (s.counter + k) % Wrap = IF s.counter + k = Wrap THEN 0 ELSE s.counter + k
  <2>. DEFINE c == s.counter + k
  <2>1. c \in 0..Wrap /\ Wrap \in Nat \ {0}
    BY <1>4, <1>5
  <2>. HIDE DEF c
  <2>2. c % Wrap = IF c = Wrap THEN 0 ELSE c
    BY <2>1, WrapsOnce
  <2>. QED
    BY <2>2 DEF c
<1>11. r.counter = IF a /\ resets THEN 0
                   ELSE IF s.counter + k = Wrap THEN 0 ELSE s.counter + k
  BY <1>2, <1>10
<1>12. Interrupts(s, a, b) <=>
         /\ (a /\ s.mode.onTarget) \/ (b /\ s.mode.onOverflow)
         /\ s.mode.repeat \/ ~s.done
  BY DEF Interrupts
<1>. HIDE DEF k, tt, to
<1>13. (a /\ s.mode.onTarget) \/ (b /\ s.mode.onOverflow) => k \in Hits(s)
  BY <1>4, <1>6, <1>7
<1>14. ASSUME ~Armed(s) PROVE r.fired = s.fired /\ ~Armed(r)
  <2>1. ~Interrupts(s, a, b)
    BY <1>3, <1>12, <1>13, <1>14 DEF Armed
  <2>2. r.fired = s.fired /\ r.done = s.done
    BY <1>2, <2>1
  <2>3. CASE ~(s.mode.repeat \/ ~s.done)
    BY <1>3, <2>2, <2>3 DEF Armed
  <2>4. CASE Hits(s) = {}
    <3>1. ~s.mode.onTarget /\ (s.mode.onOverflow => resets /\ low)
      BY <1>7, <2>4
    <3>2. s.mode.onOverflow => r.counter < r.target
      BY <1>3, <1>4, <1>5, <1>6, <1>11, <3>1
    <3>3. Hits(r) = {}
      BY <1>8, <3>1, <3>2
    <3>. QED
      BY <2>2, <3>3 DEF Armed
  <2>. QED
    BY <1>3, <1>14, <2>3, <2>4 DEF Armed
<1>15. ASSUME NEW h \in Nat \ {0}, Armed(s), FirstOf(s, h)
       PROVE  /\ h = k => r.fired = s.fired + 1
              /\ h # k => /\ r.fired = s.fired /\ Armed(r)
                          /\ FirstOf(r, h - k) /\ h - k \in Nat \ {0}
  <2>1. h \in Hits(s) /\ (\A g \in Hits(s) : h <= g) /\ (s.mode.repeat \/ ~s.done)
    BY <1>15 DEF Armed, FirstOf
  <2>2. k <= h
    BY <2>1, HitsAhead DEF k
  <2>3. CASE h = k
    <3>1. (a /\ s.mode.onTarget) \/ (b /\ s.mode.onOverflow)
      BY <1>6, <1>7, <2>1, <2>3
    <3>2. Interrupts(s, a, b)
      BY <1>12, <2>1, <3>1
    <3>. QED
      BY <1>2, <2>3, <3>2
  <2>4. CASE h # k
    <3>1. k < h /\ k \notin Hits(s)
      BY <1>4, <2>1, <2>2, <2>4
    <3>2. ~Interrupts(s, a, b)
      BY <1>12, <1>13, <3>1
    <3>3. r.fired = s.fired /\ r.done = s.done
      BY <1>2, <3>2
    <3>4. Hits(r) = {h - k}
      <4>1. CASE a
        <5>1. k = tt /\ ~s.mode.onTarget
          BY <1>6, <1>7, <3>1, <4>1
        <5>2. h = to /\ s.mode.onOverflow /\ ~(resets /\ low) /\ Hits(s) = {to}
          BY <1>7, <2>1, <5>1
        <5>3. low /\ ~resets
          BY <1>4, <1>5, <3>1, <5>1, <5>2
        <5>4. r.counter = s.counter + k /\ s.counter + k = s.target
          BY <1>5, <1>11, <5>1, <5>3
        <5>5. TicksToOverflow(r) = h - k
          BY <1>4, <1>5, <1>9, <5>2, <5>4
        <5>. QED
          BY <1>8, <5>1, <5>2, <5>3, <5>5
      <4>2. CASE ~a
        <5>1. k = to /\ k # tt
          BY <1>4, <1>6, <4>2
        <5>2. ~low /\ tt = to + s.target /\ s.target > 0
          BY <1>4, <1>5, <5>1
        <5>3. ~s.mode.onOverflow
          BY <1>7, <3>1, <5>1, <5>2
        <5>4. s.mode.onTarget /\ h = tt
          BY <1>7, <2>1, <5>3
        <5>5. r.counter = 0
          BY <1>5, <1>11, <4>2, <5>1
        <5>6. TicksToTarget(r) = h - k
          BY <1>4, <1>5, <1>9, <5>1, <5>2, <5>4, <5>5
        <5>. QED
          BY <1>8, <5>3, <5>4, <5>6
      <4>. QED
        BY <4>1, <4>2
    <3>5. Armed(r)
      BY <1>3, <2>1, <3>3, <3>4 DEF Armed
    <3>6. FirstOf(r, h - k) /\ h - k \in Nat \ {0}
      BY <1>4, <3>1, <3>4 DEF FirstOf
    <3>. QED
      BY <2>4, <3>3, <3>5, <3>6
  <2>. QED
    BY <2>3, <2>4
<1>. QED
  BY <1>14, <1>15 DEF k

(* A piece never passes the announced cycle.  At it an interrupt is        *)
(* raised; before it none is, and the rest of the wait is announced.       *)
LEMMA PieceDeadline ==
  ASSUME NEW s \in Timer, NEW p, Fits(s, p), NEW r, r = RunPiece(s, p)
  PROVE  /\ CyclesUntilIrq(s) = NoEvent =>
              r.fired = s.fired /\ CyclesUntilIrq(r) = NoEvent
         /\ CyclesUntilIrq(s) # NoEvent =>
              /\ CyclesUntilIrq(s) \in Nat \ {0} /\ p <= CyclesUntilIrq(s)
              /\ p = CyclesUntilIrq(s) => r.fired = s.fired + 1
              /\ p < CyclesUntilIrq(s) =>
                   r.fired = s.fired /\ CyclesUntilIrq(r) = CyclesUntilIrq(s) - p
<1>. DEFINE due == CyclesUntilIrq(s)
            k == TicksToEvent(s)
<1>1. r \in Timer /\ SetUp(s, r) /\ r.rem = RemainderAfter(s, p) /\ r.mode = s.mode
  <2>1. CASE ~AtEvent(s, p)
    BY <2>1, QuietPiece DEF SetUp
  <2>2. CASE AtEvent(s, p)
    <3>1. PICK a \in BOOLEAN, b \in BOOLEAN :
            /\ a <=> (TicksToEvent(s) = TicksToTarget(s))
            /\ b <=> (TicksToEvent(s) = TicksToOverflow(s))
      OBVIOUS
    <3>. QED
      BY <2>2, <3>1, EventPiece DEF SetUp
  <2>. QED
    BY <2>1, <2>2
<1>2. p \in Nat /\ p # 0
  BY DEF Fits
<1>3. CASE ~Armed(s)
  <2>1. due = NoEvent
    BY <1>3, DueIs
  <2>2. r.fired = s.fired /\ ~Armed(r)
    BY <1>3, QuietDeadline, EventDeadline
  <2>. QED
    BY <1>1, <2>1, <2>2, DueIs
<1>4. CASE Armed(s)
  <2>1. PICK h \in Nat \ {0} : FirstOf(s, h)
    BY <1>4, FirstHit DEF Armed
  <2>2. due = CyclesForTicks(s, h) /\ due \in Nat \ {0}
    BY <1>4, <2>1, DueIs
  <2>3. k \in Nat \ {0} /\ k <= h
    BY <2>1, HitsAhead, EventAhead, Widths DEF FirstOf
  <2>4. Counting(s) /\ p <= UntilEvent(s) /\ UntilEvent(s) = CyclesForTicks(s, k)
    BY <1>4 DEF Armed, Fits, UntilEvent
  <2>. HIDE DEF k, due
  <2>5. UntilEvent(s) \in Nat /\ (k < h => UntilEvent(s) < due) /\ (k = h => UntilEvent(s) = due)
    BY <2>2, <2>3, <2>4, CyclesGrow, EventCycles
  <2>6. due # NoEvent /\ p <= due
    BY <1>2, <2>2, <2>3, <2>4, <2>5 DEF NoEvent
  <2>7. ASSUME NEW m \in Int, m = TicksIn(s, p), Armed(r), FirstOf(r, h - m), h - m \in Nat \ {0}
        PROVE  CyclesUntilIrq(r) = due - p
    <3>1. CyclesUntilIrq(r) = CyclesForTicks(r, h - m)
      BY <1>1, <2>7, DueIs
    <3>2. h \in Int
      OBVIOUS
    <3>3. CyclesForTicks(r, h - TicksIn(s, p)) = CyclesForTicks(s, h) - p
      BY <1>1, <1>2, <3>2, CyclesLeft
    <3>. QED
      BY <2>2, <2>7, <3>1, <3>3
  <2>8. CASE ~AtEvent(s, p)
    <3>1. p < due
      BY <1>2, <2>2, <2>3, <2>4, <2>5, <2>8 DEF AtEvent
    <3>2. /\ r.fired = s.fired /\ Armed(r)
          /\ FirstOf(r, h - TicksIn(s, p)) /\ h - TicksIn(s, p) \in Nat \ {0}
      BY <1>4, <2>1, <2>8, QuietDeadline
    <3>3. TicksIn(s, p) \in Int
      BY <1>2, TicksTyped
    <3>4. CyclesUntilIrq(r) = due - p
      BY <2>7, <3>2, <3>3
    <3>. QED
      BY <1>2, <2>2, <2>6, <3>1, <3>2, <3>4 DEF due
  <2>9. CASE AtEvent(s, p)
    <3>1. p = UntilEvent(s)
      BY <2>9 DEF AtEvent
    <3>2. TicksIn(s, p) = k
      <4>1. PICK a \in BOOLEAN, b \in BOOLEAN :
              /\ a <=> (TicksToEvent(s) = TicksToTarget(s))
              /\ b <=> (TicksToEvent(s) = TicksToOverflow(s))
        OBVIOUS
      <4>. QED
        BY <2>9, <4>1, EventPiece DEF k
    <3>3. CASE h = k
      <4>1. r.fired = s.fired + 1
        BY <1>4, <2>1, <2>9, <3>3, EventDeadline DEF k
      <4>2. p = due
        BY <2>5, <3>1, <3>3
      <4>. QED
        BY <1>2, <2>2, <2>6, <4>1, <4>2 DEF due
    <3>4. CASE h # k
      <4>1. /\ r.fired = s.fired /\ Armed(r)
            /\ FirstOf(r, h - k) /\ h - k \in Nat \ {0}
        BY <1>4, <2>1, <2>9, <3>4, EventDeadline DEF k
      <4>2. CyclesUntilIrq(r) = due - p
        BY <2>3, <2>7, <3>2, <4>1
      <4>3. p < due
        BY <2>3, <2>5, <3>1, <3>4
      <4>. QED
        BY <1>2, <2>2, <2>6, <4>1, <4>2, <4>3 DEF due
    <3>. QED
      BY <3>3, <3>4
  <2>. QED
    BY <2>8, <2>9
<1>. QED
  BY <1>3, <1>4

(* So of any span up to it, only the one that reaches it interrupts.       *)
LEMMA SpanDeadline ==
  ASSUME NEW n \in Nat, NEW s \in Timer
  PROVE  /\ CyclesUntilIrq(s) = NoEvent => AdvanceTimer(s, n).fired = s.fired
         /\ CyclesUntilIrq(s) # NoEvent =>
              /\ CyclesUntilIrq(s) \in Nat \ {0}
              /\ n < CyclesUntilIrq(s) => AdvanceTimer(s, n).fired = s.fired
              /\ n = CyclesUntilIrq(s) => AdvanceTimer(s, n).fired = s.fired + 1
<1>. DEFINE Exact(c, r) ==
              /\ CyclesUntilIrq(r) = NoEvent => AdvanceTimer(r, c).fired = r.fired
              /\ CyclesUntilIrq(r) # NoEvent =>
                   /\ CyclesUntilIrq(r) \in Nat \ {0}
                   /\ c < CyclesUntilIrq(r) => AdvanceTimer(r, c).fired = r.fired
                   /\ c = CyclesUntilIrq(r) => AdvanceTimer(r, c).fired = r.fired + 1
            Good == {c \in Nat : \A r \in Timer : Exact(c, r)}
<1>1. \A c \in Nat : (\A m \in 0..c-1 : m \in Good) => c \in Good
  <2>. SUFFICES ASSUME NEW c \in Nat, \A m \in 0..c-1 : m \in Good, NEW r \in Timer
                PROVE  Exact(c, r)
    OBVIOUS
  <2>1. CyclesUntilIrq(r) # NoEvent => CyclesUntilIrq(r) \in Nat \ {0}
    <3>1. Fits(r, Piece(r, 1))
      BY PieceFits
    <3>. QED
      BY <3>1, PieceDeadline
  <2>2. CASE c = 0
    <3>1. AdvanceTimer(r, c) = r
      BY <2>2, AdvanceIs
    <3>. QED
      BY <2>1, <2>2, <3>1
  <2>3. CASE c # 0
    <3>. DEFINE p == Piece(r, c)
                q == RunPiece(r, p)
                m == c - p
    <3>1. p \in 1..c /\ Fits(r, p)
      BY <2>3, PieceFits
    <3>. HIDE DEF p
    <3>2. q \in Timer
      BY <3>1, PieceTyped
    <3>3. m \in 0..c-1
      BY <3>1
    <3>4. AdvanceTimer(r, c) = AdvanceTimer(q, m)
      BY <2>3, PieceByPiece DEF p
    <3>5. /\ CyclesUntilIrq(r) = NoEvent => q.fired = r.fired /\ CyclesUntilIrq(q) = NoEvent
          /\ CyclesUntilIrq(r) # NoEvent =>
               /\ p <= CyclesUntilIrq(r)
               /\ p = CyclesUntilIrq(r) => q.fired = r.fired + 1
               /\ p < CyclesUntilIrq(r) =>
                    q.fired = r.fired /\ CyclesUntilIrq(q) = CyclesUntilIrq(r) - p
      BY <3>1, PieceDeadline
    <3>. HIDE DEF q
    <3>6. Exact(m, q)
      BY <3>2, <3>3
    <3>7. AdvanceTimer(q, 0) = q
      BY <3>2, AdvanceIs
    <3>8. CASE CyclesUntilIrq(r) = NoEvent
      BY <3>4, <3>5, <3>6, <3>8
    <3>9. CASE CyclesUntilIrq(r) # NoEvent
      <4>. DEFINE due == CyclesUntilIrq(r)
      <4>1. due \in Nat \ {0} /\ p <= due
        BY <2>1, <3>5, <3>9
      <4>2. CASE p = due
        <5>1. c = due => m = 0
          BY <3>1, <4>2
        <5>2. ~(c < due)
          BY <3>1, <4>1, <4>2
        <5>. QED
          BY <3>4, <3>5, <3>7, <3>9, <4>1, <4>2, <5>1, <5>2
      <4>3. CASE p < due
        <5>1. q.fired = r.fired /\ CyclesUntilIrq(q) = due - p
          BY <3>5, <3>9, <4>3
        <5>2. due - p \in Nat \ {0}
          BY <3>1, <4>1, <4>3
        <5>3. CyclesUntilIrq(q) # NoEvent
          BY <5>1, <5>2 DEF NoEvent
        <5>4. (c < due => m < due - p) /\ (c = due => m = due - p)
          BY <3>1, <4>1, <4>3
        <5>. HIDE DEF m, due
        <5>5. /\ c < due => AdvanceTimer(q, m).fired = q.fired
              /\ c = due => AdvanceTimer(q, m).fired = q.fired + 1
          BY <3>6, <5>1, <5>3, <5>4
        <5>. QED
          BY <3>4, <3>9, <4>1, <5>1, <5>5 DEF due
      <4>. HIDE DEF due
      <4>4. p = due \/ p < due
        BY <3>1, <4>1
      <4>. QED
        BY <4>2, <4>3, <4>4
    <3>. QED
      BY <3>8, <3>9
  <2>. QED
    BY <2>2, <2>3
<1>. HIDE DEF Good
<1>2. Nat \subseteq Good
  BY <1>1, Induction
<1>3. n \in Good
  BY <1>2
<1>4. Exact(n, s)
  BY <1>3 DEF Good
<1>. QED
  BY <1>4

-----------------------------------------------------------------------------
(***************************************************************************)
(* Every operation keeps a counter a counter, and a one shot one shot.     *)
(***************************************************************************)
(* A one-shot counter that has interrupted knows it: done is the bit that  *)
(* keeps it from a second one, so OneShotOnce needs it to be inductive.    *)
OneShot(s) == ~s.mode.repeat => s.fired = 0 \/ (s.fired = 1 /\ s.done)

LEMMA OneShotKept ==
  ASSUME NEW s \in Timer, OneShot(s), NEW r, r.mode = s.mode,
         \/ r.fired = s.fired /\ r.done = s.done
         \/ /\ s.mode.repeat \/ ~s.done
            /\ r.fired = s.fired + 1 /\ r.done = (s.done \/ ~s.mode.repeat)
  PROVE  OneShot(r)
<1>1. CASE r.fired = s.fired /\ r.done = s.done
  BY <1>1 DEF OneShot
<1>2. CASE /\ s.mode.repeat \/ ~s.done
           /\ r.fired = s.fired + 1 /\ r.done = (s.done \/ ~s.mode.repeat)
  <2>. SUFFICES ASSUME ~s.mode.repeat PROVE r.fired = 1 /\ r.done
    BY DEF OneShot
  <2>1. ~s.done /\ s.fired = 0
    BY <1>2 DEF OneShot
  <2>2. r.fired = 1
    BY <1>2, <2>1
  <2>3. r.done
    BY <1>2
  <2>. QED
    BY <2>2, <2>3
<1>. QED
  BY <1>1, <1>2

LEMMA PieceOneShot ==
  ASSUME NEW s \in Timer, NEW n, Fits(s, n), OneShot(s)
  PROVE  OneShot(RunPiece(s, n))
<1>. DEFINE r == RunPiece(s, n)
<1>1. r = RunPiece(s, n)
  OBVIOUS
<1>. HIDE DEF r
<1>2. CASE ~AtEvent(s, n)
  <2>1. r.mode = s.mode /\ r.fired = s.fired /\ r.done = s.done
    BY <1>1, <1>2, QuietPiece DEF SetUp
  <2>. QED
    BY <1>1, <2>1, OneShotKept
<1>3. CASE AtEvent(s, n)
  <2>1. PICK a \in BOOLEAN, b \in BOOLEAN :
          /\ a <=> (TicksToEvent(s) = TicksToTarget(s))
          /\ b <=> (TicksToEvent(s) = TicksToOverflow(s))
    OBVIOUS
  <2>2. /\ SetUp(s, r)
        /\ Interrupts(s, a, b) =>
             r.fired = s.fired + 1 /\ r.done = (s.done \/ ~s.mode.repeat)
        /\ ~Interrupts(s, a, b) => r.fired = s.fired /\ r.done = s.done
    BY <1>1, <1>3, <2>1, EventPiece
  <2>3. r.mode = s.mode /\ (Interrupts(s, a, b) => s.mode.repeat \/ ~s.done)
    BY <2>2 DEF SetUp, Interrupts
  <2>. QED
    BY <1>1, <2>2, <2>3, OneShotKept
<1>. QED
  BY <1>2, <1>3

LEMMA SpanKept ==
  ASSUME NEW n \in Nat, NEW s \in Timer, OneShot(s)
  PROVE  AdvanceTimer(s, n) \in Timer /\ OneShot(AdvanceTimer(s, n))
<1>. DEFINE Good == {c \in Nat : \A r \in Timer : OneShot(r) => OneShot(AdvanceTimer(r, c))}
<1>1. \A c \in Nat : (\A m \in 0..c-1 : m \in Good) => c \in Good
  <2>. SUFFICES ASSUME NEW c \in Nat, \A m \in 0..c-1 : m \in Good,
                       NEW r \in Timer, OneShot(r)
                PROVE  OneShot(AdvanceTimer(r, c))
    OBVIOUS
  <2>1. CASE c = 0
    BY <2>1, AdvanceIs
  <2>2. CASE c # 0
    <3>. DEFINE p == Piece(r, c)
                q == RunPiece(r, p)
                m == c - p
    <3>1. p \in 1..c /\ Fits(r, p)
      BY <2>2, PieceFits
    <3>. HIDE DEF p
    <3>2. q \in Timer /\ OneShot(q)
      BY <3>1, PieceTyped, PieceOneShot
    <3>3. m \in 0..c-1
      BY <3>1
    <3>4. AdvanceTimer(r, c) = AdvanceTimer(q, m)
      BY <2>2, PieceByPiece DEF p
    <3>. HIDE DEF q, m
    <3>5. OneShot(AdvanceTimer(q, m))
      BY <3>2, <3>3
    <3>. QED
      BY <3>4, <3>5
  <2>. QED
    BY <2>1, <2>2
<1>. HIDE DEF Good
<1>2. Nat \subseteq Good
  BY <1>1, Induction
<1>3. n \in Good
  BY <1>2
<1>. QED
  BY <1>3, AdvanceIs DEF Good

LEMMA TickKept ==
  ASSUME NEW s \in Timer, OneShot(s)
  PROVE  AddTick(s) \in Timer /\ OneShot(AddTick(s))
<1>. DEFINE r == AddTick(s)
<1>1. CASE PausedBySync(s)
  BY <1>1 DEF AddTick
<1>2. CASE ~PausedBySync(s) /\ TicksToEvent(s) > 1
  <2>1. r = [s EXCEPT !.counter = (@ + 1) % Wrap]
    BY <1>2 DEF AddTick
  <2>2. 1 \in Nat
    OBVIOUS
  <2>. HIDE DEF r
  <2>3. r \in Timer /\ SetUp(s, r) /\ r.fired = s.fired /\ r.done = s.done
    BY <2>1, <2>2, Moved, ZenonT(30)
  <2>4. r.mode = s.mode
    BY <2>3 DEF SetUp
  <2>. QED
    BY <2>3, <2>4, OneShotKept DEF r
<1>3. CASE ~PausedBySync(s) /\ ~(TicksToEvent(s) > 1)
  <2>1. r = ApplyTicksToEvent(s, 1)
    BY <1>3 DEF AddTick
  <2>2. PICK a \in BOOLEAN, b \in BOOLEAN :
          (a <=> 1 = TicksToTarget(s)) /\ (b <=> 1 = TicksToOverflow(s))
    OBVIOUS
  <2>3. 1 \in Nat
    OBVIOUS
  <2>. HIDE DEF r
  <2>4. /\ r \in Timer /\ SetUp(s, r)
        /\ Interrupts(s, a, b) => Interrupted(s, r)
        /\ ~Interrupts(s, a, b) => Undisturbed(s, r)
    BY <2>1, <2>2, <2>3, EventApplied
  <2>5. r.mode = s.mode /\ (Interrupts(s, a, b) => s.mode.repeat \/ ~s.done)
    BY <2>4 DEF SetUp, Interrupts
  <2>. QED
    BY <2>4, <2>5, OneShotKept DEF r, Interrupted, Undisturbed
<1>. QED
  BY <1>1, <1>2, <1>3

LEMMA BlankKept ==
  ASSUME NEW s \in Timer, OneShot(s)
  PROVE  BlankBegins(s) \in Timer /\ OneShot(BlankBegins(s))
<1>. DEFINE r == BlankBegins(s)
<1>1. 0 \in 0..Wrap-1
  BY Widths
<1>2. CASE s.mode.sync \in {"1", "2"}
  <2>1. r = [s EXCEPT !.counter = 0]
    BY <1>2 DEF BlankBegins
  <2>. HIDE DEF r
  <2>2. r \in Timer /\ r.mode = s.mode /\ r.fired = s.fired /\ r.done = s.done
    BY <1>1, <2>1 DEF Timer
  <2>. QED
    BY <2>2, OneShotKept DEF r
<1>3. CASE s.mode.sync = "3"
  <2>1. r = [s EXCEPT !.released = TRUE]
    BY <1>3 DEF BlankBegins
  <2>. HIDE DEF r
  <2>2. r \in Timer /\ r.mode = s.mode /\ r.fired = s.fired /\ r.done = s.done
    BY <2>1 DEF Timer
  <2>. QED
    BY <2>2, OneShotKept DEF r
<1>4. CASE s.mode.sync \notin {"1", "2", "3"}
  BY <1>4 DEF BlankBegins
<1>. QED
  BY <1>2, <1>3, <1>4

LEMMA BlankSet ==
  ASSUME NEW s \in Timer, OneShot(s), NEW v \in BOOLEAN
  PROVE  [s EXCEPT !.blank = v] \in Timer /\ OneShot([s EXCEPT !.blank = v])
<1>. DEFINE r == [s EXCEPT !.blank = v]
<1>1. r \in Timer /\ r.mode = s.mode /\ r.fired = s.fired /\ r.done = s.done
  BY DEF Timer
<1>. HIDE DEF r
<1>2. OneShot(r)
  BY <1>1, OneShotKept
<1>. QED
  BY <1>1, <1>2 DEF r

LEMMA CapKept ==
  ASSUME NEW s \in Timer, OneShot(s)
  PROVE  Capped(s) \in Timer /\ Capped(s).fired \in 0..2 /\ OneShot(Capped(s))
<1>. DEFINE f == Least(s.fired, 2)
            r == [s EXCEPT !.fired = f]
<1>1. f \in 0..2 /\ f \in Nat /\ (s.fired = 0 => f = 0) /\ (s.fired = 1 => f = 1)
  BY Ranges DEF Least
<1>. HIDE DEF f
<1>2. r \in Timer /\ r.mode = s.mode /\ r.fired = f /\ r.done = s.done
  BY <1>1 DEF Timer
<1>. HIDE DEF r
<1>3. OneShot(r)
  BY <1>1, <1>2 DEF OneShot
<1>. QED
  BY <1>1, <1>2, <1>3 DEF Capped, r, f

TimerInv == TimerTypeOK /\ OneShot(t)

LEMMA TimerStarts == TimerInit => TimerInv
<1>. SUFFICES ASSUME TimerInit PROVE TimerInv
  OBVIOUS
<1>1. IdleMode \in Mode
  BY TimersAssumption DEF IdleMode, Mode
<1>2. 0 \in 0..Wrap-1 /\ 0 \in 0..PulseCycles /\ 0 \in 0..Divider-1
  BY Widths
<1>3. t \in Timer
  BY <1>1, <1>2 DEF TimerInit, Timer
<1>4. t.fired = 0 /\ index \in 0..2
  BY DEF TimerInit
<1>. QED
  BY <1>3, <1>4 DEF TimerInv, TimerTypeOK, OneShot

LEMMA RegisterStep ==
  ASSUME TimerInv,
         \/ \E v \in 0..Wrap-1 : WriteCounter(v) \/ WriteTarget(v)
         \/ \E m \in Mode : WriteMode(m)
         \/ ReadMode
  PROVE  TimerInv'
<1>1. t \in Timer /\ index \in 0..2 /\ t.fired \in 0..2 /\ OneShot(t)
  BY DEF TimerInv, TimerTypeOK
<1>2. 0 \in 0..Wrap-1 /\ 0 \in 0..PulseCycles /\ 0 \in 0..Divider-1 /\ t.rem \in 0..Divider-1
  BY <1>1, Widths, Ranges
<1>3. CASE \E v \in 0..Wrap-1 : WriteCounter(v)
  <2>1. PICK v \in 0..Wrap-1 : WriteCounter(v)
    BY <1>3
  <2>. DEFINE m == IF index = 2 THEN 0 ELSE t.rem
  <2>2. t' = [t EXCEPT !.counter = v, !.rem = m] /\ index' = index
    BY <2>1 DEF WriteCounter
  <2>3. m \in 0..Divider-1
    BY <1>2
  <2>. HIDE DEF m
  <2>4. t' \in Timer /\ t'.mode = t.mode /\ t'.fired = t.fired /\ t'.done = t.done
    BY <1>1, <2>2, <2>3 DEF Timer
  <2>. QED
    BY <1>1, <2>2, <2>4 DEF TimerInv, TimerTypeOK, OneShot
<1>4. CASE \E v \in 0..Wrap-1 : WriteTarget(v)
  <2>1. PICK v \in 0..Wrap-1 : WriteTarget(v)
    BY <1>4
  <2>2. t' = [t EXCEPT !.target = v] /\ index' = index
    BY <2>1 DEF WriteTarget
  <2>3. t' \in Timer /\ t'.mode = t.mode /\ t'.fired = t.fired /\ t'.done = t.done
    BY <1>1, <2>2 DEF Timer
  <2>. QED
    BY <1>1, <2>2, <2>3 DEF TimerInv, TimerTypeOK, OneShot
<1>5. CASE \E m \in Mode : WriteMode(m)
  <2>1. PICK m \in Mode : WriteMode(m)
    BY <1>5
  <2>. DEFINE k == IF index = 2 THEN 0 ELSE t.rem
  <2>2. /\ t' = [t EXCEPT !.mode = m, !.high = TRUE, !.sawTarget = FALSE, !.sawOverflow = FALSE,
                          !.counter = 0, !.done = FALSE, !.released = FALSE, !.pulse = 0,
                          !.rem = k, !.fired = 0]
        /\ index' = index
    BY <2>1 DEF WriteMode
  <2>3. k \in 0..Divider-1
    BY <1>2
  <2>. HIDE DEF k
  <2>4. t' \in Timer
    BY <1>1, <1>2, <2>2, <2>3 DEF Timer
  <2>5. t'.fired = 0
    BY <1>1, <2>2 DEF Timer
  <2>. QED
    BY <1>1, <2>2, <2>4, <2>5 DEF TimerInv, TimerTypeOK, OneShot
<1>6. CASE ReadMode
  <2>1. t' = [t EXCEPT !.sawTarget = FALSE, !.sawOverflow = FALSE] /\ index' = index
    BY <1>6 DEF ReadMode
  <2>2. t' \in Timer /\ t'.mode = t.mode /\ t'.fired = t.fired /\ t'.done = t.done
    BY <1>1, <2>1 DEF Timer
  <2>. QED
    BY <1>1, <2>1, <2>2 DEF TimerInv, TimerTypeOK, OneShot
<1>. QED
  BY <1>3, <1>4, <1>5, <1>6

LEMMA TimeStep ==
  ASSUME TimerInv,
         \/ \E n \in 1..MaxStep : Advance(n)
         \/ HblankPulse
         \/ \E on \in BOOLEAN : SetVblank(on)
  PROVE  TimerInv'
<1>1. t \in Timer /\ index \in 0..2 /\ t.fired \in 0..2 /\ OneShot(t)
  BY DEF TimerInv, TimerTypeOK
<1>2. CASE \E n \in 1..MaxStep : Advance(n)
  <2>1. PICK n \in 1..MaxStep : Advance(n)
    BY <1>2
  <2>. DEFINE s == AdvanceTimer(t, n)
  <2>2. s \in Timer /\ OneShot(s)
    BY <1>1, Widths, SpanKept
  <2>3. t' = Capped(s) /\ index' = index
    BY <2>1 DEF Advance
  <2>. HIDE DEF s
  <2>4. t' \in Timer /\ t'.fired \in 0..2 /\ OneShot(t')
    BY <2>2, <2>3, CapKept
  <2>. QED
    BY <1>1, <2>3, <2>4 DEF TimerInv, TimerTypeOK, OneShot
<1>3. CASE HblankPulse
  <2>. DEFINE shown  == [t EXCEPT !.blank = TRUE]
              seen   == IF index = 0 THEN BlankBegins(shown) ELSE t
              ticked == IF CountsEdges(t) THEN AddTick(seen) ELSE seen
              v      == IF index = 0 THEN FALSE ELSE ticked.blank
              ended  == [ticked EXCEPT !.blank = v]
  <2>1. shown \in Timer /\ OneShot(shown)
    BY <1>1, BlankSet
  <2>2. t' = Capped(ended) /\ index' = index
    BY <1>3 DEF HblankPulse
  <2>. HIDE DEF shown
  <2>3. seen \in Timer /\ OneShot(seen)
    BY <1>1, <2>1, BlankKept
  <2>. HIDE DEF seen
  <2>4. ticked \in Timer /\ OneShot(ticked)
    BY <2>3, TickKept
  <2>. HIDE DEF ticked
  <2>5. v \in BOOLEAN
    BY <2>4 DEF Timer
  <2>. HIDE DEF v
  <2>6. ended \in Timer /\ OneShot(ended)
    BY <2>4, <2>5, BlankSet
  <2>. HIDE DEF ended
  <2>7. t' \in Timer /\ t'.fired \in 0..2 /\ OneShot(t')
    BY <2>2, <2>6, CapKept
  <2>. QED
    BY <1>1, <2>2, <2>7 DEF TimerInv, TimerTypeOK, OneShot
<1>4. CASE \E on \in BOOLEAN : SetVblank(on)
  <2>1. PICK on \in BOOLEAN : SetVblank(on)
    BY <1>4
  <2>. DEFINE lit  == [t EXCEPT !.blank = TRUE]
              dark == [t EXCEPT !.blank = FALSE]
  <2>2. lit \in Timer /\ OneShot(lit) /\ dark \in Timer /\ OneShot(dark)
    BY <1>1, BlankSet
  <2>3. lit.fired = t.fired /\ dark.fired = t.fired
    BY <1>1 DEF Timer
  <2>4. index' = index /\ (t' = BlankBegins(lit) \/ t' = dark)
    BY <2>1 DEF SetVblank
  <2>. HIDE DEF lit, dark
  <2>5. BlankBegins(lit) \in Timer /\ OneShot(BlankBegins(lit))
    BY <2>2, BlankKept
  <2>6. BlankBegins(lit).fired = lit.fired
    BY <2>2 DEF BlankBegins, Timer
  <2>7. t' \in Timer /\ t'.fired = t.fired /\ OneShot(t')
    BY <2>2, <2>3, <2>4, <2>5, <2>6
  <2>. QED
    BY <1>1, <2>4, <2>7 DEF TimerInv, TimerTypeOK, OneShot
<1>. QED
  BY <1>2, <1>3, <1>4

LEMMA TimerInvariance == TimerSpec => []TimerInv
<1>1. TimerInv /\ [TimerNext]_timerVars => TimerInv'
  <2>. SUFFICES ASSUME TimerInv, [TimerNext]_timerVars PROVE TimerInv'
    OBVIOUS
  <2>1. CASE \/ \E v \in 0..Wrap-1 : WriteCounter(v) \/ WriteTarget(v)
             \/ \E m \in Mode : WriteMode(m)
             \/ ReadMode
    BY <2>1, RegisterStep
  <2>2. CASE \/ \E n \in 1..MaxStep : Advance(n)
             \/ HblankPulse
             \/ \E on \in BOOLEAN : SetVblank(on)
    BY <2>2, TimeStep
  <2>3. CASE UNCHANGED timerVars
    BY <2>3 DEF TimerInv, TimerTypeOK, OneShot, timerVars
  <2>. QED
    BY <2>1, <2>2, <2>3 DEF TimerNext
<1>. QED
  BY <1>1, TimerStarts, PTL DEF TimerSpec

(* The fields of a counter keep their ranges.                              *)
THEOREM TimersTyped == TimerSpec => []TimerTypeOK
<1>1. TimerInv => TimerTypeOK
  BY DEF TimerInv
<1>. QED
  BY <1>1, TimerInvariance, PTL

(* timer.h: "advance(a) then advance(b) is identical to advance(a + b)",   *)
(* for every counter there is and all a and b, with the laps that          *)
(* advance_timer() skips and the pulses it cuts a span at.                 *)
THEOREM SpansAreAdditive ==
  \A s \in Timer, a, b \in Nat :
    AdvanceTimer(AdvanceTimer(s, a), b) = AdvanceTimer(s, a + b)
  BY SpansAdd

(* The same as the run states it, in every state of the machine.           *)
THEOREM AdvancesAreAdditive == TimerSpec => []Additive
<1>1. TimerInv => Additive
  <2>. SUFFICES ASSUME TimerInv, NEW n \in 2..MaxSpan
                PROVE  AdvanceTimer(AdvanceTimer(t, 1), n - 1) = AdvanceTimer(t, n)
    BY DEF Additive
  <2>1. t \in Timer /\ n \in Nat \ {0}
    BY DEF TimerInv, TimerTypeOK
  <2>. QED
    BY <2>1, CycleByCycle
<1>. QED
  BY <1>1, TimerInvariance, PTL

(* cycles_until_irq() of any counter: the spans shorter than it raise      *)
(* nothing, the span of just its length raises one interrupt, and with     *)
(* kNoEvent no span raises any, however long.                              *)
THEOREM WaitsAreExact ==
  \A s \in Timer, n \in Nat :
    /\ CyclesUntilIrq(s) = NoEvent \/ n < CyclesUntilIrq(s) =>
         AdvanceTimer(s, n).fired = s.fired
    /\ n = CyclesUntilIrq(s) => AdvanceTimer(s, n).fired = s.fired + 1
<1>. SUFFICES ASSUME NEW s \in Timer, NEW n \in Nat
              PROVE  /\ CyclesUntilIrq(s) = NoEvent \/ n < CyclesUntilIrq(s) =>
                          AdvanceTimer(s, n).fired = s.fired
                     /\ n = CyclesUntilIrq(s) => AdvanceTimer(s, n).fired = s.fired + 1
  OBVIOUS
<1>1. n # NoEvent
  BY DEF NoEvent
<1>. QED
  BY <1>1, SpanDeadline

(* cycles_until_irq() announces the cycle of the next interrupt exactly,   *)
(* whatever the mode, the counter, the target and the pulse are: System    *)
(* may run the CPU up to it without looking at the counter.                *)
THEOREM DeadlinesAreExact == TimerSpec => []DeadlineExact
<1>1. TimerInv => DeadlineExact
  <2>. SUFFICES ASSUME TimerInv PROVE DeadlineExact
    OBVIOUS
  <2>1. t \in Timer /\ t.fired \in Nat
    BY Ranges DEF TimerInv, TimerTypeOK
  <2>. DEFINE due == CyclesUntilIrq(t)
  <2>2. CASE due = NoEvent
    <3>1. AdvanceTimer(t, MaxSpan).fired = t.fired
      BY <2>1, <2>2, Widths, SpanDeadline
    <3>. QED
      BY <2>1, <2>2, <3>1 DEF DeadlineExact
  <2>3. CASE due # NoEvent
    <3>1. 0 \in Nat
      OBVIOUS
    <3>2. due \in Nat \ {0}
      BY <2>1, <2>3, <3>1, SpanDeadline
    <3>3. due \in Nat /\ due - 1 \in Nat /\ due - 1 < due
      BY <3>2
    <3>4. AdvanceTimer(t, due - 1).fired = t.fired
      BY <2>1, <2>3, <3>3, SpanDeadline
    <3>5. AdvanceTimer(t, due).fired = t.fired + 1
      BY <2>1, <2>3, <3>3, SpanDeadline
    <3>. QED
      BY <2>1, <2>3, <3>4, <3>5 DEF DeadlineExact
  <2>. QED
    BY <2>2, <2>3
<1>. QED
  BY <1>1, TimerInvariance, PTL

(* A counter without the repeat bit interrupts once per write of its mode. *)
THEOREM OneShotsFireOnce == TimerSpec => []OneShotOnce
<1>1. TimerInv => OneShotOnce
  BY DEF TimerInv, TimerTypeOK, OneShot, OneShotOnce
<1>. QED
  BY <1>1, TimerInvariance, PTL

-----------------------------------------------------------------------------
(***************************************************************************)
(* The walk of the GPU's list: the recursion has one solution.             *)
(***************************************************************************)
Turned(list, w) == IF w.state = "walking" THEN Visit(list, w) ELSE w

(* f walks every list, up to k turns.                                      *)
Chain(f, k) ==
  \A c \in 0..k :
    f[c] = [list \in Lists |-> IF c = 0 THEN WalkStart(list) ELSE Turned(list, f[c-1][list])]

LEMMA ChainsAgree ==
  ASSUME NEW f, NEW g, NEW k \in Nat, NEW m \in Nat, Chain(f, k), Chain(g, m),
         NEW c \in 0..k, c \in 0..m
  PROVE  f[c] = g[c]
<1>. DEFINE Same == {i \in Nat : i <= k /\ i <= m => f[i] = g[i]}
<1>1. \A i \in Nat : (\A j \in 0..i-1 : j \in Same) => i \in Same
  <2>. SUFFICES ASSUME NEW i \in Nat, \A j \in 0..i-1 : j \in Same, i <= k, i <= m
                PROVE  f[i] = g[i]
    OBVIOUS
  <2>1. i \in 0..k /\ i \in 0..m
    OBVIOUS
  <2>2. /\ f[i] = [list \in Lists |-> IF i = 0 THEN WalkStart(list)
                                      ELSE Turned(list, f[i-1][list])]
        /\ g[i] = [list \in Lists |-> IF i = 0 THEN WalkStart(list)
                                      ELSE Turned(list, g[i-1][list])]
    BY <2>1 DEF Chain
  <2>3. CASE i = 0
    BY <2>2, <2>3
  <2>4. CASE i # 0
    <3>1. i-1 \in Same /\ i-1 \in Nat /\ i-1 <= k /\ i-1 <= m
      BY <2>4
    <3>2. f[i-1] = g[i-1]
      BY <3>1
    <3>. QED
      BY <2>2, <3>2
  <2>. QED
    BY <2>3, <2>4
<1>. HIDE DEF Same
<1>2. Nat \subseteq Same
  BY <1>1, Induction
<1>3. c \in Same /\ c <= k /\ c <= m
  BY <1>2
<1>. QED
  BY <1>3 DEF Same

LEMMA ChainsExist ==
  \A k \in Nat : \E f : Chain(f, k)
<1>. DEFINE Has == {k \in Nat : \E f : Chain(f, k)}
<1>1. \A n \in Nat : (\A m \in 0..n-1 : m \in Has) => n \in Has
  <2>. SUFFICES ASSUME NEW n \in Nat, \A m \in 0..n-1 : m \in Has PROVE \E f : Chain(f, n)
    OBVIOUS
  <2>1. CASE n = 0
    <3>. DEFINE g == [c \in 0..0 |-> [list \in Lists |-> WalkStart(list)]]
    <3>1. g[0] = [list \in Lists |-> WalkStart(list)]
      OBVIOUS
    <3>. HIDE DEF g
    <3>2. Chain(g, 0)
      BY <3>1 DEF Chain
    <3>. QED
      BY <2>1, <3>2
  <2>2. CASE n # 0
    <3>1. n-1 \in Has /\ n-1 \in Nat
      BY <2>2
    <3>2. PICK f : Chain(f, n-1)
      BY <3>1
    <3>. DEFINE last == [list \in Lists |-> Turned(list, f[n-1][list])]
                g == [c \in 0..n |-> IF c < n THEN f[c] ELSE last]
    <3>3. /\ \A c \in 0..n-1 : g[c] = f[c]
          /\ g[n] = last
      OBVIOUS
    <3>. HIDE DEF g
    <3>4. ASSUME NEW c \in 0..n
          PROVE  g[c] = [list \in Lists |-> IF c = 0 THEN WalkStart(list)
                                            ELSE Turned(list, g[c-1][list])]
      <4>1. CASE c = n
        <5>1. g[c-1] = f[n-1]
          BY <2>2, <3>3, <4>1
        <5>. QED
          BY <2>2, <3>3, <4>1, <5>1
      <4>2. CASE c # n
        <5>1. c \in 0..n-1 /\ g[c] = f[c]
          BY <3>3, <4>2
        <5>2. f[c] = [list \in Lists |-> IF c = 0 THEN WalkStart(list)
                                         ELSE Turned(list, f[c-1][list])]
          BY <3>2, <5>1 DEF Chain
        <5>3. CASE c = 0
          BY <5>1, <5>2, <5>3
        <5>4. CASE c # 0
          <6>1. g[c-1] = f[c-1]
            BY <3>3, <5>1, <5>4
          <6>. QED
            BY <5>1, <5>2, <6>1
        <5>. QED
          BY <5>3, <5>4
      <4>. QED
        BY <4>1, <4>2
    <3>5. Chain(g, n)
      BY <3>4 DEF Chain
    <3>. QED
      BY <3>5
  <2>. QED
    BY <2>1, <2>2
<1>. HIDE DEF Has
<1>2. Nat \subseteq Has
  BY <1>1, Induction
<1>. QED
  BY <1>2 DEF Has

LEMMA WalkIs ==
  ASSUME NEW list \in Lists
  PROVE  /\ walk[0][list] = WalkStart(list)
         /\ \A n \in Nat : walk[n+1][list] = Turned(list, walk[n][list])
<1>. DEFINE Upto(c) == CHOOSE f : Chain(f, c)
            F == [c \in Nat |-> Upto(c)[c]]
            Body(f, c) == [r \in Lists |-> IF c = 0 THEN WalkStart(r)
                                           ELSE Turned(r, f[c-1][r])]
<1>1. ASSUME NEW c \in Nat PROVE Chain(Upto(c), c)
  BY ChainsExist
<1>2. \A c \in Nat : F[c] = Upto(c)[c]
  OBVIOUS
<1>. HIDE DEF Upto
<1>3. ASSUME NEW c \in Nat PROVE F[c] = Body(F, c)
  <2>. DEFINE f == Upto(c)
  <2>1. Chain(f, c)
    BY <1>1
  <2>2. F[c] = f[c]
    BY <1>2
  <2>. HIDE DEF f, F
  <2>3. c \in 0..c
    OBVIOUS
  <2>4. f[c] = Body(f, c)
    BY <2>1, <2>3 DEF Chain
  <2>5. CASE c = 0
    BY <2>2, <2>4, <2>5
  <2>6. CASE c # 0
    <3>. DEFINE d == c-1
    <3>1. d \in Nat /\ d \in 0..c /\ d \in 0..d
      BY <2>6
    <3>. HIDE DEF d
    <3>2. Chain(Upto(d), d)
      BY <1>1, <3>1
    <3>. DEFINE g == Upto(d)
    <3>. HIDE DEF g
    <3>3. f[d] = g[d]
      BY <2>1, <3>1, <3>2, ChainsAgree DEF g
    <3>4. F[d] = f[d]
      BY <1>2, <3>1, <3>3 DEF g
    <3>. QED
      BY <2>2, <2>4, <3>4 DEF d
  <2>. QED
    BY <2>5, <2>6
<1>4. F = [c \in Nat |-> Body(F, c)]
  <2>1. F = [c \in Nat |-> F[c]]
    OBVIOUS
  <2>. HIDE DEF F, Body
  <2>. QED
    BY <1>3, <2>1
<1>5. walk = CHOOSE f : f = [c \in Nat |-> Body(f, c)]
  BY DEF walk, Turned
<1>. HIDE DEF F
<1>6. walk = [c \in Nat |-> Body(walk, c)]
  <2>. HIDE DEF Body
  <2>. QED
    BY <1>4, <1>5
<1>7. \A c \in Nat : walk[c] = Body(walk, c)
  <2>. HIDE DEF Body
  <2>. QED
    BY <1>6
<1>8. walk[0][list] = WalkStart(list)
  BY <1>7
<1>9. ASSUME NEW n \in Nat PROVE walk[n+1][list] = Turned(list, walk[n][list])
  <2>1. n+1 \in Nat /\ n+1 # 0 /\ (n+1)-1 = n
    OBVIOUS
  <2>2. walk[n+1] = Body(walk, n+1)
    BY <1>7, <2>1
  <2>. QED
    BY <2>1, <2>2
<1>. QED
  BY <1>8, <1>9

-----------------------------------------------------------------------------
(***************************************************************************)
(* What the walk has sent: a list in order, closed when a loop is found.   *)
(***************************************************************************)
SentSet(w) == {w.sent[i] : i \in 1..Len(w.sent)}

(* The packets sent follow each other from the first on.                   *)
Linked(list, sent) ==
  /\ sent # <<>> => sent[1] = list.first
  /\ \A i \in 1..Len(sent)-1 : list.link[sent[i]] = sent[i+1]

WalkInv(list, w) ==
  /\ w.at \in Packets /\ w.tortoise \in Packets /\ w.sent \in Seq(Packets)
  /\ w.state \in {"walking", "ended", "cycle"}
  /\ Linked(list, w.sent)
  /\ w.state = "walking" =>
       /\ IF w.sent = <<>> THEN w.at = list.first
                           ELSE w.at = list.link[w.sent[Len(w.sent)]]
       /\ list.first \in SentSet(w) \cup {w.at} /\ w.tortoise \in SentSet(w) \cup {w.at}
       /\ \A p \in SentSet(w) : list.link[p] \in SentSet(w) \cup {w.at}
  /\ w.state = "ended" => w.sent # <<>> /\ list.link[w.sent[Len(w.sent)]] = NoPacket
  /\ w.state = "cycle" => list.first \in SentSet(w) /\ \A p \in SentSet(w) : list.link[p] \in SentSet(w)

(* One turn, field by field.                                               *)
LEMMA Visited ==
  ASSUME NEW list \in Lists, NEW w, w.at \in Packets, w.sent \in Seq(Packets),
         DOMAIN w = {"at", "tortoise", "power", "steps", "sent", "state"},
         NEW v, v = Visit(list, w), NEW next, next = list.link[w.at]
  PROVE  /\ DOMAIN v = DOMAIN w /\ v.sent = Append(w.sent, w.at)
         /\ next = NoPacket => v.state = "ended" /\ v.at = w.at /\ v.tortoise = w.tortoise
         /\ next # NoPacket => v.at = next
         /\ next # NoPacket /\ next = w.tortoise =>
              v.state = "cycle" /\ v.tortoise = w.tortoise
         /\ next # NoPacket /\ next # w.tortoise => v.state = w.state
         /\ next # NoPacket /\ next # w.tortoise /\ w.steps + 1 = w.power =>
              v.tortoise = next /\ v.power = 2 * w.power /\ v.steps = 0
         /\ next # NoPacket /\ next # w.tortoise /\ w.steps + 1 # w.power =>
              v.tortoise = w.tortoise /\ v.power = w.power /\ v.steps = w.steps + 1
<1>. DEFINE q == Append(w.sent, w.at)
            passed == [w EXCEPT !.sent = q]
<1>1. /\ DOMAIN passed = DOMAIN w /\ passed.sent = q /\ passed.at = w.at
      /\ passed.tortoise = w.tortoise /\ passed.power = w.power
      /\ passed.steps = w.steps /\ passed.state = w.state
  OBVIOUS
<1>2. v = IF next = NoPacket THEN [passed EXCEPT !.state = "ended"]
          ELSE IF next = w.tortoise THEN [passed EXCEPT !.at = next, !.state = "cycle"]
          ELSE IF w.steps + 1 = w.power
               THEN [passed EXCEPT !.at = next, !.tortoise = next,
                                   !.power = 2 * passed.power, !.steps = 0]
          ELSE [passed EXCEPT !.at = next, !.steps = passed.steps + 1]
  BY DEF Visit
<1>. HIDE DEF passed, q
<1>3. CASE next = NoPacket
  BY <1>1, <1>2, <1>3 DEF q
<1>4. CASE next # NoPacket /\ next = w.tortoise
  BY <1>1, <1>2, <1>4 DEF q
<1>5. CASE next # NoPacket /\ next # w.tortoise /\ w.steps + 1 = w.power
  <2>1. v = [passed EXCEPT !.at = next, !.tortoise = next,
                           !.power = 2 * passed.power, !.steps = 0]
    BY <1>2, <1>5
  <2>. QED
    BY <1>1, <1>5, <2>1 DEF q
<1>6. CASE next # NoPacket /\ next # w.tortoise /\ w.steps + 1 # w.power
  <2>1. v = [passed EXCEPT !.at = next, !.steps = passed.steps + 1]
    BY <1>2, <1>6
  <2>. QED
    BY <1>1, <1>6, <2>1 DEF q
<1>. QED
  BY <1>3, <1>4, <1>5, <1>6

LEMMA NextPacket ==
  ASSUME NEW list \in Lists, NEW p \in Packets
  PROVE  list.first \in Packets /\ list.link[p] \in Packets \cup {NoPacket}
         /\ list.link \in [Packets -> Packets \cup {NoPacket}]
  BY DEF Lists

LEMMA VisitKeeps ==
  ASSUME NEW list \in Lists, NEW w, WalkInv(list, w), w.state = "walking",
         DOMAIN w = {"at", "tortoise", "power", "steps", "sent", "state"}
  PROVE  WalkInv(list, Visit(list, w))
<1>. DEFINE v == Visit(list, w)
            next == list.link[w.at]
            n == Len(w.sent)
<1>1. /\ w.at \in Packets /\ w.tortoise \in Packets /\ w.sent \in Seq(Packets)
      /\ Linked(list, w.sent)
      /\ IF w.sent = <<>> THEN w.at = list.first ELSE w.at = list.link[w.sent[n]]
      /\ list.first \in SentSet(w) \cup {w.at} /\ w.tortoise \in SentSet(w) \cup {w.at}
      /\ \A p \in SentSet(w) : list.link[p] \in SentSet(w) \cup {w.at}
  BY DEF WalkInv
<1>2. next \in Packets \cup {NoPacket} /\ NoPacket \notin Packets
  BY <1>1, NextPacket, GpuListAssumption
<1>3. /\ v.sent = Append(w.sent, w.at)
      /\ next = NoPacket => v.state = "ended" /\ v.at = w.at /\ v.tortoise = w.tortoise
      /\ next # NoPacket => v.at = next
      /\ next # NoPacket /\ next = w.tortoise => v.state = "cycle" /\ v.tortoise = w.tortoise
      /\ next # NoPacket /\ next # w.tortoise =>
           v.state = "walking" /\ (v.tortoise = next \/ v.tortoise = w.tortoise)
  <2>. HIDE DEF next
  <2>1. v = Visit(list, w) /\ next = list.link[w.at]
    BY DEF next
  <2>. HIDE DEF v
  <2>2. /\ v.sent = Append(w.sent, w.at)
        /\ next = NoPacket => v.state = "ended" /\ v.at = w.at /\ v.tortoise = w.tortoise
        /\ next # NoPacket => v.at = next
        /\ next # NoPacket /\ next = w.tortoise => v.state = "cycle" /\ v.tortoise = w.tortoise
        /\ next # NoPacket /\ next # w.tortoise => v.state = w.state
    BY <1>1, <2>1, Visited
  <2>3. next # NoPacket /\ next # w.tortoise => v.tortoise = next \/ v.tortoise = w.tortoise
    BY <1>1, <2>1, Visited
  <2>. QED
    BY <2>2, <2>3
<1>. HIDE DEF v, next
<1>4. /\ v.sent \in Seq(Packets) /\ Len(v.sent) = n + 1 /\ n \in Nat
      /\ v.sent[n+1] = w.at /\ (\A i \in 1..n : v.sent[i] = w.sent[i])
      /\ v.sent # <<>> /\ (w.sent = <<>> <=> n = 0)
  BY <1>1, <1>3
<1>5. v.at \in Packets /\ v.tortoise \in Packets /\ v.state \in {"walking", "ended", "cycle"}
  BY <1>1, <1>2, <1>3
<1>6. SentSet(v) = SentSet(w) \cup {w.at}
  <2>. HIDE DEF n
  <2>1. SentSet(v) = {v.sent[i] : i \in 1..n+1}
    BY <1>4 DEF SentSet
  <2>2. SentSet(w) = {w.sent[i] : i \in 1..n}
    BY DEF SentSet, n
  <2>3. 1..n+1 = (1..n) \cup {n+1}
    BY <1>4
  <2>. QED
    BY <1>4, <2>1, <2>2, <2>3
<1>7. Linked(list, v.sent)
  <2>1. v.sent[1] = list.first
    BY <1>1, <1>4 DEF Linked
  <2>2. ASSUME NEW i \in 1..n PROVE list.link[v.sent[i]] = v.sent[i+1]
    <3>1. CASE i = n
      BY <1>1, <1>4, <3>1
    <3>2. CASE i # n
      <4>1. i \in 1..n-1 /\ i+1 \in 1..n
        BY <1>4, <3>2
      <4>2. list.link[w.sent[i]] = w.sent[i+1]
        BY <1>1, <4>1 DEF Linked
      <4>. QED
        BY <1>4, <4>1, <4>2
    <3>. QED
      BY <3>1, <3>2
  <2>. QED
    BY <1>4, <2>1, <2>2 DEF Linked
<1>8. \A p \in SentSet(v) : list.link[p] \in SentSet(v) \cup {next}
  BY <1>1, <1>6 DEF next
<1>9. list.first \in SentSet(v) /\ w.tortoise \in SentSet(v)
  BY <1>1, <1>6
<1>10. list.link[v.sent[Len(v.sent)]] = next
  BY <1>4 DEF next
<1>11. CASE next = NoPacket
  BY <1>3, <1>4, <1>5, <1>7, <1>10, <1>11 DEF WalkInv, v
<1>12. CASE next # NoPacket /\ next = w.tortoise
  BY <1>3, <1>4, <1>5, <1>7, <1>8, <1>9, <1>12 DEF WalkInv, v
<1>13. CASE next # NoPacket /\ next # w.tortoise
  BY <1>3, <1>4, <1>5, <1>7, <1>8, <1>9, <1>10, <1>13 DEF WalkInv, v
<1>. QED
  BY <1>11, <1>12, <1>13

WalkFields == {"at", "tortoise", "power", "steps", "sent", "state"}

LEMMA WalkKeeps ==
  ASSUME NEW list \in Lists, NEW n \in Nat
  PROVE  WalkInv(list, walk[n][list]) /\ DOMAIN walk[n][list] = WalkFields
<1>. DEFINE Good == {i \in Nat : /\ WalkInv(list, walk[i][list])
                                 /\ DOMAIN walk[i][list] = WalkFields}
<1>1. \A i \in Nat : (\A j \in 0..i-1 : j \in Good) => i \in Good
  <2>. SUFFICES ASSUME NEW i \in Nat, \A j \in 0..i-1 : j \in Good
                PROVE  WalkInv(list, walk[i][list]) /\ DOMAIN walk[i][list] = WalkFields
    OBVIOUS
  <2>1. CASE i = 0
    <3>1. walk[i][list] = WalkStart(list)
      BY <2>1, WalkIs
    <3>2. list.first \in Packets
      BY DEF Lists
    <3>3. /\ SentSet(WalkStart(list)) = {} /\ DOMAIN WalkStart(list) = WalkFields
          /\ WalkStart(list).sent = <<>> /\ WalkStart(list).at = list.first
          /\ WalkStart(list).tortoise = list.first /\ WalkStart(list).state = "walking"
      BY DEF WalkStart, SentSet, WalkFields
    <3>4. Linked(list, <<>>)
      BY DEF Linked
    <3>5. <<>> \in Seq(Packets)
      OBVIOUS
    <3>. QED
      BY <3>1, <3>2, <3>3, <3>4, <3>5 DEF WalkInv
  <2>2. CASE i # 0
    <3>. DEFINE w == walk[i-1][list]
                v == walk[i][list]
    <3>1. i-1 \in Good
      BY <2>2
    <3>2. WalkInv(list, w) /\ DOMAIN w = WalkFields
      BY <3>1
    <3>3. v = Turned(list, w)
      <4>. DEFINE j == i-1
      <4>1. j \in Nat /\ j + 1 = i
        BY <2>2
      <4>. HIDE DEF j
      <4>2. walk[j+1][list] = Turned(list, walk[j][list])
        BY <4>1, WalkIs
      <4>. QED
        BY <4>1, <4>2 DEF j
    <3>. HIDE DEF v, w
    <3>4. CASE w.state # "walking"
      BY <3>2, <3>3, <3>4 DEF Turned, v
    <3>5. CASE w.state = "walking"
      <4>1. v = Visit(list, w)
        BY <3>3, <3>5 DEF Turned
      <4>2. DOMAIN w = {"at", "tortoise", "power", "steps", "sent", "state"}
        BY <3>2 DEF WalkFields
      <4>3. WalkInv(list, v)
        BY <3>2, <3>5, <4>1, <4>2, VisitKeeps
      <4>4. DOMAIN v = DOMAIN w
        <5>1. w.at \in Packets /\ w.sent \in Seq(Packets)
          BY <3>2 DEF WalkInv
        <5>. QED
          BY <4>1, <4>2, <5>1, Visited
      <4>. QED
        BY <3>2, <4>3, <4>4 DEF v
    <3>. QED
      BY <3>4, <3>5
  <2>. QED
    BY <2>1, <2>2
<1>. HIDE DEF Good
<1>2. Nat \subseteq Good
  BY <1>1, Induction
<1>3. n \in Good
  BY <1>2
<1>. QED
  BY <1>3 DEF Good

(* An order that reaches the end mark has no packet twice: from the second *)
(* time on it would repeat what followed the first, and never reach it.    *)
LEMMA NoneTwice ==
  ASSUME NEW list \in Lists, NEW sent \in Seq(Packets), Linked(list, sent), sent # <<>>,
         list.link[sent[Len(sent)]] = NoPacket,
         NEW i \in 1..Len(sent), NEW j \in 1..Len(sent), i < j, sent[i] = sent[j]
  PROVE  FALSE
<1>. DEFINE n == Len(sent)
            S == {sent[k] : k \in i..j-1}
            Inside == {k \in Nat : i <= k /\ k <= n => sent[k] \in S}
<1>1. n \in Nat /\ i \in Nat /\ j \in Nat /\ 1 <= i /\ j <= n
  OBVIOUS
<1>2. \A k \in 1..n : sent[k] \in Packets
  OBVIOUS
<1>3. \A k \in 1..n-1 : list.link[sent[k]] = sent[k+1]
  BY DEF Linked
<1>. HIDE DEF n
<1>4. ASSUME NEW p \in S PROVE list.link[p] \in S
  <2>1. PICK m \in i..j-1 : p = sent[m]
    OBVIOUS
  <2>2. m \in 1..n-1 /\ list.link[p] = sent[m+1]
    BY <1>1, <1>3, <2>1
  <2>3. CASE m = j-1
    <3>1. sent[m+1] = sent[i] /\ i \in i..j-1
      BY <1>1, <2>3
    <3>. QED
      BY <2>2, <3>1
  <2>4. CASE m # j-1
    <3>1. m+1 \in i..j-1
      BY <1>1, <2>1, <2>4
    <3>. QED
      BY <2>2, <3>1
  <2>. QED
    BY <2>3, <2>4
<1>5. \A k \in Nat : (\A m \in 0..k-1 : m \in Inside) => k \in Inside
  <2>. SUFFICES ASSUME NEW k \in Nat, \A m \in 0..k-1 : m \in Inside, i <= k, k <= n
                PROVE  sent[k] \in S
    OBVIOUS
  <2>1. CASE k = i
    <3>1. i \in i..j-1
      BY <1>1
    <3>. QED
      BY <2>1, <3>1
  <2>2. CASE k # i
    <3>1. k-1 \in Inside /\ i <= k-1 /\ k-1 <= n /\ k-1 \in 1..n-1
      BY <1>1, <2>2
    <3>2. sent[k-1] \in S
      BY <3>1
    <3>3. list.link[sent[k-1]] = sent[(k-1)+1] /\ (k-1)+1 = k
      BY <1>3, <3>1
    <3>. HIDE DEF S
    <3>. QED
      BY <1>4, <3>2, <3>3
  <2>. QED
    BY <2>1, <2>2
<1>. HIDE DEF Inside
<1>6. Nat \subseteq Inside
  BY <1>5, Induction
<1>7. n \in Inside /\ i <= n
  BY <1>1, <1>6
<1>8. sent[n] \in S
  BY <1>7 DEF Inside
<1>9. list.link[sent[n]] \in S
  BY <1>4, <1>8
<1>10. S \subseteq Packets
  BY <1>1, <1>2
<1>. QED
  BY <1>9, <1>10, GpuListAssumption DEF n

(* What the state of a finished walk says about the list.                  *)
(* A loop is only flagged where there is one: when dma_linked_list() sets  *)
(* cycle, the packets it has sent contain the first and the next of each,  *)
(* so that no list that ends is reported and cut short.                    *)
THEOREM OnlyLoopsAreFlagged ==
  \A list \in Lists : Walked(list).state = "cycle" => NeverEnds(list)
<1>. SUFFICES ASSUME NEW list \in Lists, Walked(list).state = "cycle"
              PROVE  NeverEnds(list)
  OBVIOUS
<1>. DEFINE w == walk[MaxPackets][list]
<1>1. WalkInv(list, w) /\ w.state = "cycle"
  BY WalkKeeps, GpuListAssumption DEF Walked
<1>. HIDE DEF w
<1>2. SentSet(w) \subseteq Packets
  BY <1>1 DEF WalkInv, SentSet
<1>. QED
  BY <1>1, <1>2 DEF WalkInv, NeverEnds

(* A list that ends reaches the GPU whole, in order and none of it twice:  *)
(* when the walk stops at the end mark it has sent every packet from the   *)
(* first to the marked one, each the next of the one before.               *)
THEOREM ListsAreSentWhole ==
  \A list \in Lists : Walked(list).state = "ended" => IsWhole(list, Walked(list).sent)
<1>. SUFFICES ASSUME NEW list \in Lists, Walked(list).state = "ended"
              PROVE  IsWhole(list, Walked(list).sent)
  OBVIOUS
<1>. DEFINE w == walk[MaxPackets][list]
<1>1. WalkInv(list, w) /\ w.state = "ended" /\ Walked(list) = w
  BY WalkKeeps, GpuListAssumption DEF Walked
<1>. HIDE DEF w
<1>. DEFINE sent == w.sent
<1>2. /\ sent \in Seq(Packets) /\ sent # <<>> /\ Linked(list, sent)
      /\ list.link[sent[Len(sent)]] = NoPacket
  BY <1>1 DEF WalkInv
<1>. HIDE DEF sent
<1>3. ASSUME NEW i \in 1..Len(sent), NEW j \in 1..Len(sent), i # j, sent[i] = sent[j]
      PROVE  FALSE
  <2>1. i < j \/ j < i
    BY <1>3
  <2>. QED
    BY <1>2, <1>3, <2>1, NoneTwice
<1>4. IsWhole(list, sent)
  BY <1>2, <1>3 DEF IsWhole, Linked
<1>. QED
  BY <1>1, <1>4 DEF sent

(* A walk that reached the end mark was of a list that ends.               *)
LEMMA EndedIsNoLoop ==
  ASSUME NEW list \in Lists, NEW sent \in Seq(Packets), Linked(list, sent), sent # <<>>,
         list.link[sent[Len(sent)]] = NoPacket
  PROVE  ~NeverEnds(list)
<1>. SUFFICES ASSUME NeverEnds(list) PROVE FALSE
  OBVIOUS
<1>. DEFINE n == Len(sent)
<1>1. PICK S \in SUBSET Packets : list.first \in S /\ \A p \in S : list.link[p] \in S
  BY DEF NeverEnds
<1>. DEFINE Inside == {k \in Nat : 1 <= k /\ k <= n => sent[k] \in S}
<1>2. n \in Nat /\ 1 <= n
  OBVIOUS
<1>3. sent[1] = list.first /\ \A k \in 1..n-1 : list.link[sent[k]] = sent[k+1]
  BY DEF Linked
<1>. HIDE DEF n
<1>4. \A k \in Nat : (\A m \in 0..k-1 : m \in Inside) => k \in Inside
  <2>. SUFFICES ASSUME NEW k \in Nat, \A m \in 0..k-1 : m \in Inside, 1 <= k, k <= n
                PROVE  sent[k] \in S
    OBVIOUS
  <2>1. CASE k = 1
    BY <1>1, <1>3, <2>1
  <2>2. CASE k # 1
    <3>1. k-1 \in Inside /\ 1 <= k-1 /\ k-1 <= n /\ k-1 \in 1..n-1
      BY <1>2, <2>2
    <3>2. sent[k-1] \in S
      BY <3>1
    <3>3. list.link[sent[k-1]] = sent[(k-1)+1] /\ (k-1)+1 = k
      BY <1>3, <3>1
    <3>. QED
      BY <1>1, <3>2, <3>3
  <2>. QED
    BY <2>1, <2>2
<1>. HIDE DEF Inside
<1>5. Nat \subseteq Inside
  BY <1>4, Induction
<1>6. sent[n] \in S
  BY <1>2, <1>5 DEF Inside
<1>7. NoPacket \in S
  BY <1>1, <1>6 DEF n
<1>. QED
  BY <1>7, GpuListAssumption

(* A walk that has stopped stays as it is.                                 *)
LEMMA StoppedStays ==
  ASSUME NEW list \in Lists, NEW m \in Nat, walk[m][list].state # "walking"
  PROVE  \A n \in Nat : m <= n => walk[n][list] = walk[m][list]
<1>. DEFINE Same == {n \in Nat : m <= n => walk[n][list] = walk[m][list]}
<1>1. \A n \in Nat : (\A k \in 0..n-1 : k \in Same) => n \in Same
  <2>. SUFFICES ASSUME NEW n \in Nat, \A k \in 0..n-1 : k \in Same, m <= n, m # n
                PROVE  walk[n][list] = walk[m][list]
    OBVIOUS
  <2>. DEFINE k == n-1
  <2>1. k \in Nat /\ k \in 0..n-1 /\ m <= k /\ k + 1 = n
    OBVIOUS
  <2>2. walk[k][list] = walk[m][list]
    BY <2>1
  <2>. HIDE DEF k
  <2>3. walk[k+1][list] = Turned(list, walk[k][list])
    BY <2>1, WalkIs
  <2>. QED
    BY <2>1, <2>2, <2>3 DEF Turned
<1>. HIDE DEF Same
<1>2. Nat \subseteq Same
  BY <1>1, Induction
<1>. QED
  BY <1>2 DEF Same

(* One turn after which the walk goes on.                                  *)
LEMMA VisitGoesOn ==
  ASSUME NEW list \in Lists, NEW w, w.at \in Packets, w.sent \in Seq(Packets),
         DOMAIN w = {"at", "tortoise", "power", "steps", "sent", "state"},
         NEW v, v = Visit(list, w), v.state = "walking"
  PROVE  /\ v.at \in Packets /\ v.at = list.link[w.at] /\ v.at # w.tortoise
         /\ w.steps + 1 = w.power =>
              v.tortoise = v.at /\ v.power = 2 * w.power /\ v.steps = 0
         /\ w.steps + 1 # w.power =>
              v.tortoise = w.tortoise /\ v.power = w.power /\ v.steps = w.steps + 1
<1>. DEFINE next == list.link[w.at]
<1>1. next = list.link[w.at] /\ next \in Packets \cup {NoPacket}
  BY NextPacket
<1>. HIDE DEF next
<1>2. next # NoPacket /\ next # w.tortoise
  BY <1>1, Visited
<1>3. v.at = next
  BY <1>1, <1>2, Visited
<1>4. w.steps + 1 = w.power => v.tortoise = next /\ v.power = 2 * w.power /\ v.steps = 0
  BY <1>1, <1>2, Visited
<1>5. w.steps + 1 # w.power =>
        v.tortoise = w.tortoise /\ v.power = w.power /\ v.steps = w.steps + 1
  BY <1>1, <1>2, Visited
<1>. QED
  BY <1>1, <1>2, <1>3, <1>4, <1>5

LEMMA GoesOn ==
  ASSUME NEW list \in Lists, NEW n \in Nat, walk[n+1][list].state = "walking"
  PROVE  LET w == walk[n][list]
             v == walk[n+1][list]
         IN /\ w.state = "walking" /\ w.at \in Packets /\ v.at \in Packets
            /\ v.at = list.link[w.at] /\ v.at # w.tortoise
            /\ w.steps + 1 = w.power =>
                 v.tortoise = v.at /\ v.power = 2 * w.power /\ v.steps = 0
            /\ w.steps + 1 # w.power =>
                 v.tortoise = w.tortoise /\ v.power = w.power /\ v.steps = w.steps + 1
<1>. DEFINE w == walk[n][list]
            v == walk[n+1][list]
<1>1. v = Turned(list, w) /\ v.state = "walking"
  BY WalkIs
<1>2. WalkInv(list, w) /\ DOMAIN w = {"at", "tortoise", "power", "steps", "sent", "state"}
  BY WalkKeeps DEF WalkFields
<1>. HIDE DEF v, w
<1>3. w.state = "walking" /\ v = Visit(list, w)
  BY <1>1 DEF Turned
<1>4. w.at \in Packets /\ w.sent \in Seq(Packets)
  BY <1>2 DEF WalkInv
<1>5. /\ v.at \in Packets /\ v.at = list.link[w.at] /\ v.at # w.tortoise
      /\ w.steps + 1 = w.power =>
           v.tortoise = v.at /\ v.power = 2 * w.power /\ v.steps = 0
      /\ w.steps + 1 # w.power =>
           v.tortoise = w.tortoise /\ v.power = w.power /\ v.steps = w.steps + 1
  BY <1>1, <1>2, <1>3, <1>4, VisitGoesOn
<1>. QED
  BY <1>3, <1>4, <1>5 DEF v, w

(* Brent's argument.  at(n) is the packet after n turns.  Of the first     *)
(* Room + 1 two are the same, lap turns apart; the list then runs round    *)
(* that lap.  Powers of two that reach Room exactly put the tortoise at    *)
(* turn Room - 1, in the lap, and leave it there for Room turns: the walk  *)
(* meets it lap <= Room turns later, by turn 2 * Room - 1.                 *)
LEMMA Met ==
  ASSUME NEW list \in Lists, NEW Room \in Nat \ {0}, PowerOfTwo(Room),
         Cardinality(Packets) <= Room, walk[2 * Room - 1][list].state = "walking"
  PROVE  FALSE
<1>. DEFINE last == 2 * Room - 1
            at(n) == walk[n][list].at
            tortoise(n) == walk[n][list].tortoise
            power(n) == walk[n][list].power
            steps(n) == walk[n][list].steps
<1>1. PICK Powers \in SUBSET (1..Room) : 1 \in Powers /\ \A x \in Powers \ {Room} : 2 * x \in Powers
  BY DEF PowerOfTwo
<1>2. last \in Nat /\ Room <= last /\ Room - 1 \in Nat /\ last + 1 = 2 * Room
  OBVIOUS
<1>3. \A n \in Nat : n <= last => walk[n][list].state = "walking"
  <2>. SUFFICES ASSUME NEW n \in Nat, n <= last, walk[n][list].state # "walking" PROVE FALSE
    OBVIOUS
  <2>. HIDE DEF last
  <2>1. walk[last][list] = walk[n][list]
    BY <1>2, StoppedStays
  <2>. QED
    BY <2>1 DEF last
<1>4. /\ at(0) = list.first /\ tortoise(0) = list.first /\ power(0) = 1 /\ steps(0) = 0
      /\ list.first \in Packets
  <2>1. walk[0][list] = WalkStart(list)
    BY WalkIs
  <2>. QED
    BY <2>1 DEF WalkStart, Lists
<1>5. ASSUME NEW n \in Nat, n + 1 <= last
      PROVE  /\ at(n) \in Packets /\ at(n+1) \in Packets
             /\ at(n+1) = list.link[at(n)] /\ at(n+1) # tortoise(n)
             /\ steps(n) + 1 = power(n) =>
                  tortoise(n+1) = at(n+1) /\ power(n+1) = 2 * power(n) /\ steps(n+1) = 0
             /\ steps(n) + 1 # power(n) =>
                  /\ tortoise(n+1) = tortoise(n) /\ power(n+1) = power(n)
                  /\ steps(n+1) = steps(n) + 1
  <2>1. walk[n+1][list].state = "walking"
    BY <1>3, <1>5
  <2>. QED
    BY <2>1, GoesOn
<1>. HIDE DEF at, tortoise, power, steps, last
<1>6. \A n \in Nat : n <= last => at(n) \in Packets
  <2>. SUFFICES ASSUME NEW n \in Nat, n <= last PROVE at(n) \in Packets
    OBVIOUS
  <2>1. CASE n = 0
    BY <1>4, <2>1
  <2>2. CASE n # 0
    <3>1. n-1 \in Nat /\ (n-1) + 1 <= last /\ (n-1) + 1 = n
      BY <1>2, <2>2
    <3>. QED
      BY <1>5, <3>1
  <2>. QED
    BY <2>1, <2>2
<1>7. PICK x \in 0..Room, y \in 0..Room : x < y /\ at(x) = at(y)
  <2>. DEFINE f == [n \in 0..Room |-> at(n)]
  <2>1. f \in [0..Room -> Packets]
    BY <1>2, <1>6
  <2>2. IsFiniteSet(0..Room) /\ Cardinality(0..Room) = Room + 1
    BY FS_Interval
  <2>3. IsFiniteSet(Packets) /\ Cardinality(Packets) \in Nat
    BY GpuListAssumption, FS_CardinalityType
  <2>. HIDE DEF f
  <2>4. Cardinality(Packets) < Cardinality(0..Room)
    BY <2>2, <2>3
  <2>5. \E a, b \in 0..Room : a # b /\ f[a] = f[b]
    BY <2>1, <2>2, <2>3, <2>4, FS_PigeonHole
  <2>6. PICK a \in 0..Room, b \in 0..Room : a # b /\ at(a) = at(b)
    BY <2>5 DEF f
  <2>7. a < b \/ b < a
    BY <2>6
  <2>. QED
    BY <2>6, <2>7
<1>. DEFINE lap == y - x
<1>8. lap \in Nat /\ lap <= Room /\ 0 < lap /\ x <= Room - 1 /\ x + lap = y /\ x \in Nat
  BY <1>7
<1>. HIDE DEF lap
<1>9. \A n \in Nat : x <= n /\ n + lap <= last => at(n + lap) = at(n)
  <2>. DEFINE Same == {n \in Nat : x <= n /\ n + lap <= last => at(n + lap) = at(n)}
  <2>1. \A n \in Nat : (\A m \in 0..n-1 : m \in Same) => n \in Same
    <3>. SUFFICES ASSUME NEW n \in Nat, \A m \in 0..n-1 : m \in Same, x <= n, n + lap <= last
                  PROVE  at(n + lap) = at(n)
      OBVIOUS
    <3>1. CASE n = x
      BY <1>7, <1>8, <3>1
    <3>2. CASE n # x
      <4>. DEFINE m == n - 1
      <4>1. m \in Nat /\ m \in 0..n-1 /\ x <= m /\ m + 1 = n /\ m + 1 <= last /\ m + lap <= last
        BY <1>2, <1>8, <3>2
      <4>2. (m + lap) + 1 <= last /\ m + lap \in Nat /\ (m + lap) + 1 = n + lap
        BY <1>2, <1>8, <4>1
      <4>. HIDE DEF m
      <4>3. at(m + lap) = at(m)
        BY <4>1
      <4>4. at((m + lap) + 1) = list.link[at(m + lap)] /\ at(m + 1) = list.link[at(m)]
        BY <1>5, <4>1, <4>2
      <4>. QED
        BY <4>1, <4>2, <4>3, <4>4
    <3>. QED
      BY <3>1, <3>2
  <2>. HIDE DEF Same
  <2>2. Nat \subseteq Same
    BY <2>1, Induction
  <2>. QED
    BY <2>2 DEF Same
<1>10. at(Room - 1 + lap) = at(Room - 1) /\ Room - 1 + lap <= last /\ Room - 1 + lap \in Nat
  BY <1>2, <1>8, <1>9
<1>. DEFINE Waits(n) == /\ power(n) \in Powers /\ steps(n) \in 0..power(n)-1
                        /\ n = power(n) - 1 + steps(n) /\ tortoise(n) = at(power(n) - 1)
                        /\ power(n) = Room => steps(n) < lap
<1>11. \A n \in Nat : n <= last => Waits(n)
  <2>. DEFINE Good == {n \in Nat : n <= last => Waits(n)}
  <2>1. \A n \in Nat : (\A m \in 0..n-1 : m \in Good) => n \in Good
    <3>. SUFFICES ASSUME NEW n \in Nat, \A m \in 0..n-1 : m \in Good, n <= last
                  PROVE  Waits(n)
      OBVIOUS
    <3>1. CASE n = 0
      BY <1>1, <1>4, <1>8, <3>1
    <3>2. CASE n # 0
      <4>. DEFINE m == n - 1
      <4>1. m \in Nat /\ m \in 0..n-1 /\ m + 1 = n /\ m + 1 <= last
        BY <1>2, <3>2
      <4>. HIDE DEF m
      <4>2. Waits(m)
        BY <1>2, <4>1
      <4>3. /\ at(n) # tortoise(m)
            /\ steps(m) + 1 = power(m) =>
                 tortoise(n) = at(n) /\ power(n) = 2 * power(m) /\ steps(n) = 0
            /\ steps(m) + 1 # power(m) =>
                 tortoise(n) = tortoise(m) /\ power(n) = power(m) /\ steps(n) = steps(m) + 1
        BY <1>5, <4>1
      <4>4. power(m) \in 1..Room /\ steps(m) \in Nat /\ steps(m) < power(m)
        <5>1. power(m) \in Powers /\ steps(m) \in 0..power(m)-1
          BY <4>2
        <5>2. power(m) \in 1..Room
          BY <1>1, <5>1
        <5>. HIDE DEF Waits
        <5>. QED
          BY <5>1, <5>2
      <4>5. power(m) = Room => steps(m) + 1 < lap
        <5>. SUFFICES ASSUME power(m) = Room, ~(steps(m) + 1 < lap) PROVE FALSE
          OBVIOUS
        <5>1. steps(m) + 1 = lap
          BY <1>8, <4>2, <4>4
        <5>2. n = Room - 1 + lap
          BY <4>1, <4>2, <4>4, <5>1
        <5>3. tortoise(m) = at(Room - 1)
          BY <4>2
        <5>. QED
          BY <1>10, <4>3, <5>2, <5>3
      <4>6. CASE steps(m) + 1 = power(m)
        <5>1. power(m) # Room
          BY <1>8, <4>5, <4>6
        <5>2. 2 * power(m) \in Powers
          BY <1>1, <4>2, <5>1
        <5>3. n = 2 * power(m) - 1
          BY <4>1, <4>2, <4>4, <4>6
        <5>. QED
          BY <1>8, <4>3, <4>4, <4>6, <5>2, <5>3
      <4>7. CASE steps(m) + 1 # power(m)
        <5>1. power(n) = power(m) /\ steps(n) = steps(m) + 1 /\ tortoise(n) = at(power(n) - 1)
          BY <4>2, <4>3, <4>7
        <5>2. n = power(m) - 1 + (steps(m) + 1)
          BY <4>1, <4>2, <4>4
        <5>. QED
          BY <4>2, <4>4, <4>5, <4>7, <5>1, <5>2
      <4>. QED
        BY <4>6, <4>7
    <3>. QED
      BY <3>1, <3>2
  <2>. HIDE DEF Good
  <2>2. Nat \subseteq Good
    BY <2>1, Induction
  <2>. QED
    BY <2>2 DEF Good
<1>12. Waits(last)
  BY <1>2, <1>11
<1>13. power(last) \in 1..Room /\ steps(last) \in 0..power(last)-1
  BY <1>1, <1>12
<1>14. last = power(last) - 1 + steps(last)
  BY <1>12
<1>. QED
  BY <1>2, <1>13, <1>14

(* Every walk ends by itself, and tells which lists do not: with room for  *)
(* so many packets that the count of 0x100000 is twice the room,           *)
(* dma_linked_list() never gives up - it stops at the end mark of a list   *)
(* that has one and sets cycle for every list that has none.               *)
THEOREM LoopsAreFound ==
  ASSUME NEW Room \in Nat \ {0}, PowerOfTwo(Room), Cardinality(Packets) <= Room,
         2 * Room - 1 <= MaxPackets
  PROVE  \A list \in Lists :
           /\ Walked(list).state = "cycle" <=> NeverEnds(list)
           /\ Walked(list).state = "ended" <=> ~NeverEnds(list)
<1>. SUFFICES ASSUME NEW list \in Lists
              PROVE  /\ Walked(list).state = "cycle" <=> NeverEnds(list)
                     /\ Walked(list).state = "ended" <=> ~NeverEnds(list)
  OBVIOUS
<1>. DEFINE w == walk[MaxPackets][list]
            turn == 2 * Room - 1
<1>1. w = Walked(list) /\ WalkInv(list, w)
  BY WalkKeeps, GpuListAssumption DEF Walked
<1>2. walk[turn][list].state # "walking"
  BY Met
<1>3. turn \in Nat /\ MaxPackets \in Nat /\ turn <= MaxPackets
  BY GpuListAssumption
<1>. HIDE DEF turn
<1>4. w = walk[turn][list]
  BY <1>2, <1>3, StoppedStays
<1>. HIDE DEF w
<1>5. w.state = "ended" \/ w.state = "cycle"
  BY <1>1, <1>2, <1>4 DEF WalkInv
<1>6. w.state = "cycle" => NeverEnds(list)
  BY <1>1, OnlyLoopsAreFlagged
<1>7. ASSUME w.state = "ended" PROVE ~NeverEnds(list)
  <2>1. /\ w.sent \in Seq(Packets) /\ w.sent # <<>> /\ Linked(list, w.sent)
        /\ list.link[w.sent[Len(w.sent)]] = NoPacket
    BY <1>1, <1>7 DEF WalkInv
  <2>. QED
    BY <2>1, EndedIsNoLoop
<1>. QED
  BY <1>1, <1>5, <1>6, <1>7

(* The machine's own numbers: RAM has 0x80000 addresses a header may stand *)
(* at (& 0x001FFFFC), and the walk gives up after 0x100000 packets, which  *)
(* is just enough: no list of any length is given up.                      *)
COROLLARY RamIsWalked ==
  ASSUME Cardinality(Packets) = 524288, MaxPackets = 1048576
  PROVE  \A list \in Lists :
           /\ Walked(list).state = "cycle" <=> NeverEnds(list)
           /\ Walked(list).state = "ended" <=> ~NeverEnds(list)
<1>. DEFINE P == {1, 2, 4, 8, 16, 32, 64, 128, 256, 512, 1024, 2048, 4096, 8192, 16384,
                  32768, 65536, 131072, 262144, 524288}
            Room == 524288
<1>1. 1 \in P /\ \A x \in P : x \in Int /\ 1 <= x /\ x <= Room
  BY SMT
<1>2. \A x \in P : x # Room => 2 * x \in P
  BY SMT
<1>3. /\ Room \in Int /\ 0 < Room /\ 2 * Room - 1 <= MaxPackets
      /\ Cardinality(Packets) = Room
  BY SMT
<1>. HIDE DEF P, Room
<1>4. P \in SUBSET (1..Room)
  BY <1>1, <1>3
<1>5. PowerOfTwo(Room)
  BY <1>1, <1>2, <1>4 DEF PowerOfTwo
<1>6. Room \in Nat \ {0} /\ Cardinality(Packets) <= Room
  BY <1>3
<1>. QED
  BY <1>3, <1>5, <1>6, LoopsAreFound, SMT
===============================================================================
