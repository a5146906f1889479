----------------------------- MODULE MemoryCard -----------------------------
(***************************************************************************)
(* One memory card slot (src/src/core/memory_card.cpp): the command the    *)
(* guest sends byte by byte, the image in memory, and the files it is      *)
(* loaded from and saved to, with saves that fail and a program that may   *)
(* end or crash at any time.                                               *)
(*                                                                         *)
(* A byte is what the card makes of it: the access byte, a command, the    *)
(* number of a frame, or a piece of a payload.  A payload is one value     *)
(* repeated, so a frame is whole when its bytes are equal.  The bytes the  *)
(* card sends back and its checksum, which nothing verifies, are left out. *)
(***************************************************************************)
EXTENDS Integers, Sequences

CONSTANTS
  Frames,     (* the frames of a card, 0..1023                             *)
  FrameSize,  (* kFrameSize: 128                                           *)
  Values,     (* the payloads the guest writes                             *)
  Blank,      (* ... and the one a formatted card holds                    *)
  Paths,      (* the files a card may be mounted from                      *)
  NoPath,     (* no card                                                   *)
  MaxWrites,  (* bound: write commands                                     *)
  MaxFaults   (* bound: saves that fail, and crashes                       *)

ASSUME CardAssumption ==
  /\ 0 \in Frames /\ FrameSize \in Nat \ {0}
  /\ Blank \in Values
  /\ NoPath \notin Paths /\ MaxWrites \in Nat /\ MaxFaults \in Nat

VARIABLES
  at,       (* state_: the command and the place in its script             *)
  address,  (* address_                                                    *)
  offset,   (* sector_offset_                                              *)
  data,     (* data_                                                       *)
  path,     (* path_, and inserted_ when it is not NoPath                  *)
  dirty,    (* dirty_                                                      *)
  failed,   (* flags_: kFlagWriteError                                     *)
  fresh,    (* flags_: kFlagNoWriteYet                                     *)
  ack,      (* the last byte since the transfer was reset was acknowledged *)
  disk,     (* the files                                                   *)
  writes,   (* write commands so far                                       *)
  faults,   (* saves that failed and crashes so far                        *)
  (* Histories. *)
  kept,     (* <<file, frame, payload>> of each completed write, until the *)
            (* frame is written to again or its file is left unsaved       *)
  cut       (* <<file, frame>>: a write to it began, and none ended and was *)
            (* saved since                                                 *)

transfer == <<at, address, offset>>
card == <<data, path, dirty, failed, fresh>>
vars == <<at, address, offset, data, path, dirty, failed, fresh, ack, disk,
          writes, faults, kept, cut>>

Inserted == path # NoPath

Images == [Frames -> [0..FrameSize-1 -> Values]]
Formatted == [f \in Frames |-> [i \in 0..FrameSize-1 |-> Blank]]
File == [is : {"absent", "short", "whole"}, image : Images]

(* State, in the order transfer() goes through each command.               *)
Idle == <<"Idle", 1>>
Command == <<"Command", 1>>
Script == [
  Read |-> <<"CardID1", "CardID2", "AddressMSB", "AddressLSB", "ACK1", "ACK2",
             "ConfirmAddressMSB", "ConfirmAddressLSB", "Data", "Checksum", "End">>,
  Write |-> <<"CardID1", "CardID2", "AddressMSB", "AddressLSB", "Data", "Checksum",
              "ACK1", "ACK2", "End">>,
  GetID |-> <<"CardID1", "CardID2", "ACK1", "ACK2", "1", "2", "3", "4">>]
Commands == DOMAIN Script
InScript(c) == at[1] = c
Phase == Script[at[1]][at[2]]
AtEnd == at[2] = Len(Script[at[1]])
Onward == <<at[1], at[2] + 1>>

Init ==
  /\ at = Idle /\ address = 0 /\ offset = 0
  /\ data = Formatted /\ path = NoPath /\ dirty = FALSE /\ failed = FALSE /\ fresh = TRUE
  /\ ack = FALSE
  /\ disk = [p \in Paths |-> [is |-> "absent", image |-> Formatted]] /\ writes = 0 /\ faults = 0
  /\ kept = {} /\ cut = {}

(***************************************************************************)
(* Files.                                                                  *)
(***************************************************************************)
(* save_raw_file() truncates, then writes: it may fail to open the file,   *)
(* which leaves it alone, or to write it, which leaves it short.           *)
Outcomes == {"saved", "unopened", "cut"}
Put(files, p, content, how) ==
  [files EXCEPT ![p] = CASE how = "saved" -> [is |-> "whole", image |-> content]
                         [] how = "cut" -> [is |-> "short", image |-> Formatted]
                         [] OTHER -> @]

Fault(how) == /\ how # "saved" => faults < MaxFaults
              /\ faults' = IF how = "saved" THEN faults ELSE faults + 1

(* save_if_dirty(), as far as the files go. *)
Unsaved == Inserted /\ dirty
SavedTo(files, how) == IF Unsaved THEN Put(files, path, data, how) ELSE files
Outcome(how) == ~Unsaved => how = "saved"

(* The histories when a card leaves without its frames, and when a frame   *)
(* is written to.                                                          *)
Without(p) == {k \in kept : k[1] # p}
Overwritten(p, f) == {k \in kept : k[1] # p \/ k[2] # f}

(***************************************************************************)
(* transfer(): one byte from the guest.                                    *)
(***************************************************************************)
ResetTransferState == at' = Idle /\ address' = 0 /\ offset' = 0 /\ ack' = FALSE

Select ==
  /\ Inserted /\ at = Idle
  /\ ack' \in BOOLEAN          (* the access byte, or another               *)
  /\ at' = IF ack' THEN Command ELSE Idle
  /\ UNCHANGED <<writes, address, offset, card, disk, faults, kept, cut>>

ChooseCommand ==
  /\ Inserted /\ at = Command
  /\ \/ \E c \in Commands :
          /\ at' = <<c, 1>> /\ ack' = TRUE
          /\ c = "Write" => writes < MaxWrites
          /\ writes' = IF c = "Write" THEN writes + 1 ELSE writes
     \/ at' = Idle /\ ack' = FALSE /\ writes' = writes
  /\ UNCHANGED <<address, offset, card, disk, faults, kept, cut>>

(* The fixed answers.  The two halves of the address are taken as one.     *)
Answer ==
  /\ Inserted /\ at[1] \in Commands /\ ~AtEnd
  /\ Phase \notin {"AddressLSB", "Data"}
  /\ at' = Onward /\ ack' = TRUE
  /\ UNCHANGED <<writes, address, offset, card, disk, faults, kept, cut>>

TakeAddress ==
  /\ Inserted /\ at[1] \in Commands /\ Phase = "AddressLSB"
  /\ address' \in Frames /\ offset' = 0
  /\ at' = Onward /\ ack' = TRUE
  /\ UNCHANGED <<writes, card, disk, faults, kept, cut>>

(* Mutant: the last byte of a frame is left out.                           *)
NextByteEarly ==
  /\ at' = IF offset + 2 >= FrameSize THEN Onward ELSE at
  /\ offset' = IF offset + 2 >= FrameSize THEN 0 ELSE offset + 1
  /\ ack' = TRUE

NextByte ==
  /\ at' = IF offset + 1 >= FrameSize THEN Onward ELSE at
  /\ offset' = IF offset + 1 >= FrameSize THEN 0 ELSE offset + 1
  /\ ack' = TRUE

ReadData ==
  /\ Inserted /\ InScript("Read") /\ Phase = "Data"
  /\ NextByte
  /\ UNCHANGED <<writes, address, card, disk, faults, kept, cut>>

(* Mutant: a byte that changes nothing makes the card clean.               *)
WriteByteLast(v) ==
  /\ data' = [data EXCEPT ![address][offset] = v]
  /\ dirty' = (data[address][offset] # v)

WriteByte(v) ==
  /\ data' = [data EXCEPT ![address][offset] = v]
  /\ dirty' = (dirty \/ data[address][offset] # v)

WriteData ==
  /\ Inserted /\ InScript("Write") /\ Phase = "Data"
  /\ \E v \in Values : (offset > 0 => v = data[address][0]) /\ WriteByte(v)
  /\ fresh' = (fresh /\ offset # 0)
  /\ NextByte
  /\ kept' = Overwritten(path, address)
  /\ cut' = cut \cup {<<path, address>>}
  /\ UNCHANGED <<writes, address, path, failed, disk, faults>>

(* Mutant: the last byte is acknowledged like the others.                  *)
EndReadAcks ==
  /\ Inserted /\ at[1] \in {"Read", "GetID"} /\ AtEnd
  /\ at' = Idle /\ ack' = TRUE
  /\ UNCHANGED <<writes, address, offset, card, disk, faults, kept, cut>>

(* The last byte of a command is not acknowledged.                         *)
EndRead ==
  /\ Inserted /\ at[1] \in {"Read", "GetID"} /\ AtEnd
  /\ at' = Idle /\ ack' = FALSE
  /\ UNCHANGED <<writes, address, offset, card, disk, faults, kept, cut>>

(* Mutant: a save that fails raises no flag.                               *)
EndWriteSilent ==
  /\ Inserted /\ InScript("Write") /\ AtEnd
  /\ at' = Idle /\ ack' = FALSE
  /\ \E how \in Outcomes :
       /\ Outcome(how) /\ Fault(how) /\ disk' = SavedTo(disk, how)
       /\ dirty' = (dirty /\ how # "saved")
       /\ cut' = IF how = "saved" THEN cut \ {<<path, address>>} ELSE cut
  /\ failed' = failed
  /\ kept' = Overwritten(path, address) \cup {<<path, address, data[address][0]>>}
  /\ UNCHANGED <<writes, address, offset, data, path, fresh>>

EndWrite ==
  /\ Inserted /\ InScript("Write") /\ AtEnd
  /\ at' = Idle /\ ack' = FALSE
  /\ \E how \in Outcomes :
       /\ Outcome(how) /\ Fault(how) /\ disk' = SavedTo(disk, how)
       /\ dirty' = (dirty /\ how # "saved")
       /\ failed' = IF Unsaved THEN how # "saved" ELSE failed
       /\ cut' = IF how = "saved" THEN cut \ {<<path, address>>} ELSE cut
  /\ kept' = Overwritten(path, address) \cup {<<path, address, data[address][0]>>}
  /\ UNCHANGED <<writes, address, offset, data, path, fresh>>

(***************************************************************************)
(* The port and the program around the card.                               *)
(***************************************************************************)
(* Sio::reset_device_transfer_state(): deselected, or a card was mounted.  *)
Deselect ==
  /\ ResetTransferState
  /\ UNCHANGED <<writes, card, disk, faults, kept, cut>>

(* reset() *)
Reset ==
  /\ ResetTransferState
  /\ fresh' = TRUE
  /\ UNCHANGED <<writes, data, path, dirty, failed, disk, faults, kept, cut>>

(* The program ends after Sio::shutdown(), or the card is ejected: saved   *)
(* if it can be, and forgotten in either case.                             *)
Leave(how) ==
  /\ Outcome(how)
  /\ ResetTransferState
  /\ data' = Formatted /\ path' = NoPath /\ dirty' = FALSE /\ failed' = FALSE /\ fresh' = TRUE
  /\ kept' = IF how = "saved" THEN kept ELSE Without(path)

Eject ==
  /\ Inserted
  /\ \E how \in Outcomes : Leave(how) /\ Fault(how) /\ disk' = SavedTo(disk, how)
  /\ UNCHANGED <<writes, cut>>

(* load_or_create() of another file: the new image is read, or made, before *)
(* the old one is saved, and mounted whether or not that works.            *)
Mount(p) ==
  /\ p # path /\ disk[p].is # "short"
  /\ \E made, how \in Outcomes :
       /\ disk[p].is = "whole" => made = "saved"
       /\ LET files == IF disk[p].is = "absent" THEN Put(disk, p, Formatted, made) ELSE disk IN
          IF made # "saved"
          THEN /\ how = "saved" /\ Fault(made) /\ disk' = files
               /\ UNCHANGED <<transfer, card, ack, kept>>
          ELSE /\ Outcome(how) /\ Fault(how) /\ disk' = SavedTo(files, how)
               /\ data' = files[p].image /\ path' = p
               /\ dirty' = FALSE /\ failed' = FALSE /\ fresh' = TRUE
               /\ ResetTransferState
               /\ kept' = IF how = "saved" THEN kept ELSE Without(path)
  /\ UNCHANGED <<writes, cut>>

(* The program stops without a word, perhaps in the middle of a save: of   *)
(* the mounted card's, or of a new card's first image.                     *)
Crash ==
  /\ Fault("cut")
  /\ \/ /\ disk' = disk
        /\ kept' = IF failed THEN Without(path) ELSE kept
     \/ \E p \in Paths :
          /\ (p = path /\ dirty) \/ disk[p].is = "absent"
          /\ disk' = Put(disk, p, Formatted, "cut")
          /\ kept' = {k \in kept : k[1] # p /\ (failed => k[1] # path)}
  /\ ResetTransferState
  /\ data' = Formatted /\ path' = NoPath /\ dirty' = FALSE /\ failed' = FALSE /\ fresh' = TRUE
  /\ UNCHANGED <<writes, cut>>

Transfer == Select \/ ChooseCommand \/ Answer \/ TakeAddress \/ ReadData \/ WriteData
              \/ EndRead \/ EndWrite

Next == Transfer \/ Deselect \/ Reset \/ Eject \/ (\E p \in Paths : Mount(p)) \/ Crash

Spec == Init /\ [][Next]_vars

(***************************************************************************)
(* Properties.                                                             *)
(***************************************************************************)
TypeOK ==
  /\ at \in {Idle, Command} \cup UNION {{c} \X (1..Len(Script[c])) : c \in Commands}
  /\ address \in Frames /\ offset \in 0..FrameSize-1
  /\ data \in Images /\ path \in Paths \cup {NoPath}
  /\ dirty \in BOOLEAN /\ failed \in BOOLEAN /\ fresh \in BOOLEAN /\ ack \in BOOLEAN
  /\ disk \in [Paths -> File] /\ writes \in 0..MaxWrites /\ faults \in 0..MaxFaults
  /\ kept \subseteq Paths \X Frames \X Values /\ cut \subseteq Paths \X Frames

(* A card that is not dirty is what its file holds, whatever was torn, *)
(* failed or mounted before.                                               *)
CleanMeansSaved ==
  Inserted /\ ~dirty => disk[path] = [is |-> "whole", image |-> data]

(* A frame the guest saw written to its end, and has not begun to write    *)
(* again, is in the card's file; only while the card is mounted and says   *)
(* so with its error flag is it in memory instead.  (A save that fails as  *)
(* the card leaves takes back the frames of that card.)                    *)
FrameKept ==
  \A k \in kept :
    LET p == k[1]  f == k[2]  whole == [i \in 0..FrameSize-1 |-> k[3]] IN
    \/ disk[p].is = "whole" /\ disk[p].image[f] = whole
    \/ p = path /\ dirty /\ failed /\ data[f] = whole

(* Only the frame of a write that was not finished is torn, in memory or   *)
(* in a file.                                                              *)
Torn(frame) == \E i \in 0..FrameSize-1 : frame[i] # frame[0]
TornOnlyWhenCut ==
  /\ \A f \in Frames : Torn(data[f]) => <<path, f>> \in cut
  /\ \A p \in Paths, f \in Frames :
       disk[p].is = "whole" /\ Torn(disk[p].image[f]) => <<p, f>> \in cut

(* The port's view of the card.                                            *)
Device == INSTANCE SerialDevice WITH busy <- (at # Idle)
ImplementsDevice == Device!Spec
=============================================================================
