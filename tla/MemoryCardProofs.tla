-------------------------- MODULE MemoryCardProofs --------------------------
(***************************************************************************)
(* Proofs about the memory card: what is clean is on disk, a frame whose   *)
(* write the guest saw end is kept, only an unfinished write tears, and    *)
(* the card is the device the serial port relies on.  For any number of    *)
(* frames, files, saves that fail and crashes.                             *)
(***************************************************************************)
EXTENDS MemoryCard, TLAPS

-----------------------------------------------------------------------------
(* The scripts, spelt out once. *)
Places == 1 .. 11
Last(c) == IF c = "Read" THEN 11 ELSE IF c = "Write" THEN 9 ELSE 8

LEMMA CommandNames == Commands = {"Read", "Write", "GetID"}
  BY DEF Commands, Script

LEMMA Lengths == \A c \in Commands : Len(Script[c]) = Last(c)
<1>1. Len(Script["Read"]) = 11
  BY DEF Script
<1>2. Len(Script["Write"]) = 9
  BY DEF Script
<1>3. Len(Script["GetID"]) = 8
  BY DEF Script
<1>4. QED
  BY <1>1, <1>2, <1>3, CommandNames DEF Last

(* Where a script takes the address and the payload. *)
LEMMA WritePlaces ==
  \A n \in 1 .. 9 : /\ Script["Write"][n] = "AddressLSB" <=> n = 4
                    /\ Script["Write"][n] = "Data" <=> n = 5
  BY DEF Script

LEMMA DataNotLast ==
  \A c \in Commands : \A n \in 1 .. Len(Script[c]) :
     Script[c][n] \in {"Data", "AddressLSB"} => n < Len(Script[c])
<1>1. \A n \in 1 .. 11 : Script["Read"][n] \in {"Data", "AddressLSB"} => n < 11
  BY DEF Script
<1>2. \A n \in 1 .. 9 : Script["Write"][n] \in {"Data", "AddressLSB"} => n < 9
  BY DEF Script
<1>3. \A n \in 1 .. 8 : Script["GetID"][n] \in {"Data", "AddressLSB"} => n < 8
  BY DEF Script
<1>4. QED
  BY <1>1, <1>2, <1>3, Lengths, CommandNames DEF Last

(* A command and a place in its script. *)
InCommand(a) == \E c \in Commands : \E n \in 1 .. Len(Script[c]) : a = <<c, n>>
AtSet == {Idle, Command} \cup UNION {{c} \X (1..Len(Script[c])) : c \in Commands}

LEMMA AtCases == \A a : a \in AtSet <=> a = Idle \/ a = Command \/ InCommand(a)
  BY DEF AtSet, InCommand

LEMMA CommandIsNotIdle == Command # Idle /\ \A a : InCommand(a) => a # Idle /\ a[1] \in Commands
  BY CommandNames DEF InCommand, Idle, Command

-----------------------------------------------------------------------------
(***************************************************************************)
(* The inductive invariant.  FrameKept alone says nothing of what a card   *)
(* that is not dirty has in memory, nor CleanMeansSaved which frame is     *)
(* whole: MountedKept and Filling do.                                      *)
(***************************************************************************)
Whole(v) == [i \in 0..FrameSize-1 |-> v]

(* The port's view: acknowledged exactly in the middle of a command. *)
Acked == ack = (at # Idle)

(* A kept frame of the mounted card is in its memory, dirty or not. *)
MountedKept == \A k \in kept : k[1] = path => data[k[2]] = Whole(k[3])

(* The frame that is written is uniform as far as it has been filled. *)
Filling ==
  at[1] = "Write" =>
    /\ at[2] = 5 => \A i \in 0 .. FrameSize-1 :
                       i < offset => data[address][i] = data[address][0]
    /\ at[2] > 5 => ~Torn(data[address])

IInv == /\ TypeOK /\ Acked /\ CleanMeansSaved /\ FrameKept /\ MountedKept
        /\ TornOnlyWhenCut /\ Filling

(* The frames and what the files hold, as the invariant sees them. *)
Histories == CleanMeansSaved /\ FrameKept /\ MountedKept /\ TornOnlyWhenCut

-----------------------------------------------------------------------------
LEMMA InitIInv == Init => IInv
<1> SUFFICES ASSUME Init PROVE IInv
  OBVIOUS
<1>1. Formatted \in Images /\ \A f \in Frames : ~Torn(Formatted[f])
  BY CardAssumption DEF Formatted, Images, Torn
<1>2. \A p \in Paths : disk[p].is # "whole"
  BY DEF Init
<1>3. TypeOK
  <2>1. at \in AtSet
    BY AtCases DEF Init
  <2>2. disk \in [Paths -> File]
    BY <1>1 DEF Init, File
  <2>3. /\ address \in Frames /\ offset \in 0..FrameSize-1 /\ data \in Images
        /\ path \in Paths \cup {NoPath}
        /\ writes \in 0..MaxWrites /\ faults \in 0..MaxFaults
        /\ kept \subseteq Paths \X Frames \X Values /\ cut \subseteq Paths \X Frames
    BY <1>1, CardAssumption DEF Init
  <2>4. dirty \in BOOLEAN /\ failed \in BOOLEAN /\ fresh \in BOOLEAN /\ ack \in BOOLEAN
    BY Zenon DEF Init
  <2>5. QED
    BY <2>1, <2>2, <2>3, <2>4, Zenon DEF TypeOK, AtSet
<1>4. Acked
  BY Zenon DEF Init, Acked
<1>5. CleanMeansSaved /\ FrameKept /\ MountedKept
  BY DEF Init, CleanMeansSaved, FrameKept, MountedKept, Inserted
<1>6. TornOnlyWhenCut
  BY <1>1, <1>2 DEF Init, TornOnlyWhenCut
<1>7. Filling
  BY DEF Init, Filling, Idle
<1>8. QED
  BY <1>3, <1>4, <1>5, <1>6, <1>7 DEF IInv

(* A step that leaves the card, the files and the histories alone. *)
LEMMA HistoriesKept ==
  ASSUME Histories, UNCHANGED <<data, path, dirty, failed, disk, kept, cut>>
  PROVE  Histories'
BY DEF Histories, CleanMeansSaved, FrameKept, MountedKept, TornOnlyWhenCut, Inserted, Torn, Whole

(* The type of a step's parts. *)
LEMMA TypeFrom ==
  ASSUME at' \in AtSet, address' \in Frames, offset' \in 0..FrameSize-1,
         data' \in Images, path' \in Paths \cup {NoPath},
         dirty' \in BOOLEAN, failed' \in BOOLEAN, fresh' \in BOOLEAN, ack' \in BOOLEAN,
         disk' \in [Paths -> File], writes' \in 0..MaxWrites, faults' \in 0..MaxFaults,
         kept' \subseteq Paths \X Frames \X Values, cut' \subseteq Paths \X Frames
  PROVE  TypeOK'
BY Zenon DEF TypeOK, AtSet

(***************************************************************************)
(* The bytes that neither the card's memory nor its files hear of.         *)
(***************************************************************************)
LEMMA CommandAt ==
  ASSUME at \in AtSet, at[1] \in Commands
  PROVE  /\ at[2] \in 1 .. Len(Script[at[1]]) /\ at = <<at[1], at[2]>>
         /\ Len(Script[at[1]]) = Last(at[1])
<1>1. InCommand(at)
  BY AtCases, CommandNames DEF Idle, Command
<1>2. QED
  BY <1>1, Lengths DEF InCommand

LEMMA OnwardInScript ==
  ASSUME at \in AtSet, at[1] \in Commands, at[2] < Len(Script[at[1]])
  PROVE  Onward \in AtSet /\ Onward # Idle /\ Onward[1] = at[1] /\ Onward[2] = at[2] + 1
<1>1. at[2] + 1 \in 1 .. Len(Script[at[1]])
  BY CommandAt, Lengths DEF Last
<1>2. InCommand(Onward)
  BY <1>1 DEF InCommand, Onward
<1>3. QED
  BY <1>2, AtCases, CommandIsNotIdle DEF Onward

LEMMA SelectStep ==
  ASSUME IInv, Select
  PROVE  IInv'
<1>1. at' \in {Idle, Command} /\ at'[1] # "Write" /\ ack' \in BOOLEAN
  BY Zenon DEF Select, Idle, Command
<1>2. TypeOK'
  <2>1. at' \in AtSet
    BY <1>1, AtCases
  <2>2. QED
    BY <1>1, <2>1, Zenon DEF Select, card, IInv, TypeOK, AtSet
<1>3. Acked'
  BY CommandIsNotIdle, Zenon DEF Select, Acked
<1>4. Histories'
  BY HistoriesKept DEF IInv, Histories, Select, card
<1>5. QED
  BY <1>1, <1>2, <1>3, <1>4 DEF IInv, Histories, Filling

LEMMA ChooseCommandStep ==
  ASSUME IInv, ChooseCommand
  PROVE  IInv'
<1>1. at' = Idle \/ (InCommand(at') /\ at'[2] = 1)
  <2>1. SUFFICES ASSUME NEW c \in Commands, at' = <<c, 1>>
                 PROVE  InCommand(at') /\ at'[2] = 1
    BY DEF ChooseCommand
  <2>2. 1 \in 1 .. Len(Script[c])
    BY Lengths DEF Last
  <2>3. QED
    BY <2>1, <2>2 DEF InCommand
<1>2. writes' \in 0..MaxWrites
  BY CardAssumption DEF ChooseCommand, IInv, TypeOK
<1>3. ack' \in BOOLEAN /\ Acked'
  <2>1. CASE at' = Idle /\ ack' = FALSE
    BY <2>1, Zenon DEF Acked
  <2>2. CASE \E c \in Commands : at' = <<c, 1>> /\ ack' = TRUE
    <3>1. at' # Idle
      BY <2>2, CommandNames DEF Idle
    <3>2. QED
      BY <2>2, <3>1, Zenon DEF Acked
  <2>3. QED
    BY <2>1, <2>2 DEF ChooseCommand
<1>4. TypeOK'
  <2>1. at' \in AtSet
    BY <1>1, AtCases
  <2>2. QED
    BY <1>2, <1>3, <2>1, Zenon DEF ChooseCommand, card, IInv, TypeOK, AtSet
<1>5. Histories'
  BY HistoriesKept DEF IInv, Histories, ChooseCommand, card
<1>6. Filling'
  BY <1>1 DEF Filling, Idle
<1>7. QED
  BY <1>3, <1>4, <1>5, <1>6 DEF IInv, Histories

LEMMA AnswerStep ==
  ASSUME IInv, Answer
  PROVE  IInv'
<1> USE DEF Answer, card
<1>1. at \in AtSet
  BY Zenon DEF IInv, TypeOK, AtSet
<1>2. at[2] < Len(Script[at[1]])
  BY <1>1, CommandAt, Lengths DEF AtEnd, Last
<1>3. at' \in AtSet /\ at' # Idle /\ at'[1] = at[1] /\ at'[2] = at[2] + 1
  BY <1>1, <1>2, OnwardInScript
<1>4. TypeOK'
  BY <1>3, Zenon DEF IInv, TypeOK, AtSet
<1>5. Acked'
  BY <1>3, Zenon DEF Acked
<1>6. Histories'
  BY HistoriesKept DEF IInv, Histories
<1>7. Filling'
  <2>1. SUFFICES ASSUME at'[1] = "Write" PROVE Filling'
    BY DEF Filling
  <2>2. at[2] \in 1 .. 9 /\ Phase = Script["Write"][at[2]]
    BY <1>1, <1>3, <2>1, CommandAt DEF Phase, Last
  <2>3. at[2] # 4 /\ at[2] # 5
    BY <2>2, WritePlaces
  <2>4. QED
    BY <1>3, <2>1, <2>2, <2>3 DEF IInv, Filling, Torn
<1>8. QED
  BY <1>4, <1>5, <1>6, <1>7 DEF IInv, Histories

LEMMA TakeAddressStep ==
  ASSUME IInv, TakeAddress
  PROVE  IInv'
<1> USE DEF TakeAddress, card
<1>1. at \in AtSet
  BY Zenon DEF IInv, TypeOK, AtSet
<1>2. at[2] < Len(Script[at[1]])
  BY <1>1, CommandAt, DataNotLast DEF Phase
<1>3. at' \in AtSet /\ at' # Idle /\ at'[1] = at[1] /\ at'[2] = at[2] + 1
  BY <1>1, <1>2, OnwardInScript
<1>4. TypeOK'
  <2>1. 0 \in 0 .. FrameSize-1
    BY CardAssumption
  <2>2. QED
    BY <1>3, <2>1, Zenon DEF IInv, TypeOK, AtSet
<1>5. Acked'
  BY <1>3, Zenon DEF Acked
<1>6. Histories'
  BY HistoriesKept DEF IInv, Histories
<1>7. Filling'
  <2>1. SUFFICES ASSUME at'[1] = "Write" PROVE Filling'
    BY DEF Filling
  <2>2. at[2] \in 1 .. 9 /\ Phase = Script["Write"][at[2]]
    BY <1>1, <1>3, <2>1, CommandAt DEF Phase, Last
  <2>3. at'[2] = 5 /\ offset' = 0
    BY <1>3, <2>2, WritePlaces
  <2>4. QED
    BY <2>1, <2>3, CardAssumption DEF Filling
<1>8. QED
  BY <1>4, <1>5, <1>6, <1>7 DEF IInv, Histories

(* NextByte: the offset, and the place in the script, after one more byte.  *)
LEMMA NextByteMoves ==
  ASSUME TypeOK, at[1] \in Commands, Phase = "Data", NextByte
  PROVE  /\ at' \in AtSet /\ at' # Idle /\ at'[1] = at[1]
         /\ offset' \in 0 .. FrameSize-1
         /\ \/ at' = at /\ offset' = offset + 1
            \/ at'[2] = at[2] + 1 /\ offset + 1 = FrameSize
<1>1. at \in AtSet /\ offset \in 0 .. FrameSize-1
  BY Zenon DEF TypeOK, AtSet
<1>2. at[2] < Len(Script[at[1]])
  BY <1>1, CommandAt, DataNotLast DEF Phase
<1>3. Onward \in AtSet /\ Onward # Idle /\ Onward[1] = at[1] /\ Onward[2] = at[2] + 1
  BY <1>1, <1>2, OnwardInScript
<1>4. at # Idle
  BY CommandNames DEF Idle
<1>5. QED
  BY <1>1, <1>3, <1>4, CardAssumption DEF NextByte

LEMMA ReadDataStep ==
  ASSUME IInv, ReadData
  PROVE  IInv'
<1> USE DEF ReadData, card, InScript
<1>1. /\ at' \in AtSet /\ at' # Idle /\ at'[1] = "Read"
      /\ offset' \in 0 .. FrameSize-1 /\ ack' = TRUE
  BY NextByteMoves, CommandNames DEF IInv, NextByte
<1>2. TypeOK'
  BY <1>1, Zenon DEF IInv, TypeOK, AtSet
<1>3. Acked'
  BY <1>1, Zenon DEF Acked
<1>4. Histories'
  BY HistoriesKept DEF IInv, Histories
<1>5. QED
  BY <1>1, <1>2, <1>3, <1>4 DEF IInv, Histories, Filling

LEMMA EndReadStep ==
  ASSUME IInv, EndRead
  PROVE  IInv'
<1> USE DEF EndRead, card
<1>1. at' \in AtSet
  BY AtCases
<1>2. TypeOK'
  BY <1>1, Zenon DEF IInv, TypeOK, AtSet
<1>3. Acked'
  BY Zenon DEF Acked
<1>4. Histories'
  BY HistoriesKept DEF IInv, Histories
<1>5. QED
  BY <1>2, <1>3, <1>4 DEF IInv, Histories, Filling, Idle

(* What drops the transfer leaves the device idle. *)
LEMMA Dropped ==
  ASSUME ResetTransferState
  PROVE  /\ at' \in AtSet /\ address' \in Frames /\ offset' \in 0..FrameSize-1
         /\ ack' \in BOOLEAN /\ Acked' /\ Filling'
<1>1. at' \in AtSet
  BY AtCases DEF ResetTransferState
<1>2. ack' \in BOOLEAN /\ Acked'
  BY Zenon DEF ResetTransferState, Acked
<1>3. QED
  BY <1>1, <1>2, CardAssumption DEF ResetTransferState, Filling, Idle

LEMMA DeselectResetStep ==
  ASSUME IInv, Deselect \/ Reset
  PROVE  IInv'
<1> USE DEF Deselect, Reset, card
<1>1. TypeOK'
  <2>1. fresh' \in BOOLEAN
    BY Zenon DEF IInv, TypeOK
  <2>2. QED
    BY <2>1, Dropped, Zenon DEF IInv, TypeOK, AtSet
<1>2. Histories'
  BY HistoriesKept DEF IInv, Histories
<1>3. QED
  BY <1>1, <1>2, Dropped DEF IInv, Histories

(***************************************************************************)
(* A byte of a frame is written, and a write ends.                         *)
(***************************************************************************)
LEMMA WriteDataStep ==
  ASSUME IInv, WriteData
  PROVE  IInv'
<1>1. PICK v \in Values : (offset > 0 => v = data[address][0]) /\ WriteByte(v)
  BY DEF WriteData
<1>2. /\ NextByte /\ InScript("Write") /\ Phase = "Data" /\ Inserted
      /\ kept' = Overwritten(path, address) /\ cut' = cut \cup {<<path, address>>}
      /\ UNCHANGED <<writes, address, path, failed, disk, faults>>
      /\ fresh' = (fresh /\ offset # 0)
  BY DEF WriteData
<1>3. /\ at \in AtSet /\ at[1] = "Write" /\ at[2] = 5 /\ address \in Frames
      /\ path \in Paths /\ offset \in 0 .. FrameSize-1 /\ data \in Images
  <2>1. at \in AtSet
    BY Zenon DEF IInv, TypeOK, AtSet
  <2>2. at[1] = "Write" /\ at[2] = 5
    BY <1>2, <2>1, CommandAt, CommandNames, WritePlaces DEF InScript, Phase, Last
  <2>3. QED
    BY <1>2, <2>1, <2>2 DEF IInv, TypeOK, Inserted
<1>4. /\ data' \in Images /\ data'[address] = [data[address] EXCEPT ![offset] = v]
      /\ \A f \in Frames \ {address} : data'[f] = data[f]
      /\ data[address][offset] = v => data' = data
  BY <1>1, <1>3 DEF WriteByte, Images
<1>5. /\ at' \in AtSet /\ at' # Idle /\ at'[1] = "Write" /\ ack' = TRUE
      /\ offset' \in 0 .. FrameSize-1
      /\ \/ at' = at /\ offset' = offset + 1
         \/ at'[2] = 6 /\ offset + 1 = FrameSize
  BY <1>2, <1>3, NextByteMoves, CommandNames DEF IInv, NextByte
<1>6. /\ dirty' \in BOOLEAN /\ (dirty => dirty')
      /\ ~dirty' => ~dirty /\ data' = data
  <2>1. dirty' = (dirty \/ data[address][offset] # v)
    BY <1>1 DEF WriteByte
  <2>2. QED
    BY <1>4, <2>1, Zenon
<1>7. TypeOK'
  <2>1. fresh' \in BOOLEAN
    BY <1>2, Zenon
  <2>2. failed' \in BOOLEAN /\ ack' \in BOOLEAN
    BY <1>2, <1>5, Zenon DEF IInv, TypeOK
  <2>3. kept' \subseteq Paths \X Frames \X Values /\ cut' \subseteq Paths \X Frames
    BY <1>2, <1>3 DEF IInv, TypeOK, Overwritten
  <2>4. QED
    BY <1>2, <1>3, <1>4, <1>5, <1>6, <2>1, <2>2, <2>3, TypeFrom DEF IInv, TypeOK
<1>8. Acked'
  BY <1>5, Zenon DEF Acked
<1>9. CleanMeansSaved'
  BY <1>2, <1>6 DEF IInv, CleanMeansSaved, Inserted
<1>10. \A k \in kept' : k \in kept /\ k[2] \in Frames /\ (k[1] = path => data'[k[2]] = data[k[2]])
  BY <1>2, <1>4 DEF Overwritten, IInv, TypeOK
<1>11. FrameKept' /\ MountedKept'
  BY <1>2, <1>6, <1>10 DEF IInv, FrameKept, MountedKept
<1>12. TornOnlyWhenCut'
  BY <1>2, <1>4 DEF IInv, TornOnlyWhenCut, Torn
<1>13. Filling'
  <2>1. ASSUME NEW i \in 0 .. FrameSize-1, i <= offset
        PROVE  data'[address][i] = data'[address][0]
    <3>1. data[address] \in [0 .. FrameSize-1 -> Values] /\ 0 \in 0 .. FrameSize-1
      BY <1>3, CardAssumption DEF Images
    <3>2. i < offset => data[address][i] = data[address][0]
      BY <1>3, <2>1 DEF IInv, Filling
    <3>3. \A j \in 0 .. FrameSize-1 :
            data'[address][j] = IF j = offset THEN v ELSE data[address][j]
      BY <1>4, <3>1
    <3>4. CASE offset = 0
      BY <2>1, <3>1, <3>3, <3>4
    <3>5. CASE offset > 0
      <4>1. v = data[address][0]
        BY <1>1, <3>5
      <4>2. data'[address][0] = v
        BY <3>1, <3>3, <3>5, <4>1
      <4>3. QED
        BY <1>3, <2>1, <3>2, <3>3, <3>5, <4>1, <4>2
    <3>6. QED
      BY <1>3, <3>4, <3>5
  <2>2. CASE at' = at /\ offset' = offset + 1
    BY <1>2, <1>3, <2>1, <2>2 DEF Filling
  <2>3. CASE at'[2] = 6 /\ offset + 1 = FrameSize
    BY <1>2, <1>3, <2>1, <2>3 DEF Filling, Torn
  <2>4. QED
    BY <1>5, <2>2, <2>3
<1>14. QED
  BY <1>7, <1>8, <1>9, <1>11, <1>12, <1>13 DEF IInv

(* What a save makes of the files: the mounted card's, and only when it is  *)
(* dirty.                                                                  *)
LEMMA Saves ==
  ASSUME TypeOK, CleanMeansSaved, Inserted, NEW how \in Outcomes, Outcome(how),
         NEW files \in [Paths -> File], files[path] = disk[path]
  PROVE  /\ SavedTo(files, how) \in [Paths -> File]
         /\ \A p \in Paths \ {path} : SavedTo(files, how)[p] = files[p]
         /\ how = "saved" => SavedTo(files, how)[path] = [is |-> "whole", image |-> data]
         /\ how # "saved" => Unsaved
         /\ how = "unopened" => SavedTo(files, how)[path] = files[path]
         /\ how = "cut" => SavedTo(files, how)[path].is = "short"
<1>1. path \in Paths /\ data \in Images /\ Formatted \in Images
  BY CardAssumption DEF TypeOK, Inserted, Formatted, Images
<1>2. CASE Unsaved
  <2>1. /\ [is |-> "whole", image |-> data] \in File
        /\ [is |-> "short", image |-> Formatted] \in File
    BY <1>1 DEF File
  <2>2. QED
    BY <1>1, <1>2, <2>1 DEF SavedTo, Put, Outcomes
<1>3. CASE ~Unsaved
  BY <1>1, <1>3 DEF SavedTo, Unsaved, Outcome, CleanMeansSaved
<1>4. QED
  BY <1>2, <1>3

LEMMA EndWriteStep ==
  ASSUME IInv, EndWrite
  PROVE  IInv'
<1>1. PICK how \in Outcomes :
        /\ Outcome(how) /\ Fault(how) /\ disk' = SavedTo(disk, how)
        /\ dirty' = (dirty /\ how # "saved")
        /\ failed' = IF Unsaved THEN how # "saved" ELSE failed
        /\ cut' = IF how = "saved" THEN cut \ {<<path, address>>} ELSE cut
  BY DEF EndWrite
<1>2. /\ Inserted /\ InScript("Write") /\ AtEnd /\ at' = Idle /\ ack' = FALSE
      /\ kept' = Overwritten(path, address) \cup {<<path, address, data[address][0]>>}
      /\ UNCHANGED <<writes, address, offset, data, path, fresh>>
  BY DEF EndWrite
<1>3. /\ TypeOK /\ at \in AtSet /\ path \in Paths /\ data \in Images /\ address \in Frames
      /\ disk \in [Paths -> File]
  BY <1>2, Zenon DEF IInv, TypeOK, AtSet, Inserted
<1>4. at[1] = "Write" /\ at[2] = 9
  BY <1>2, <1>3, CommandAt, CommandNames DEF InScript, AtEnd, Last
<1>5. data[address] = Whole(data[address][0]) /\ data[address][0] \in Values
  <2>1. ~Torn(data[address])
    BY <1>4 DEF IInv, Filling
  <2>2. data[address] \in [0 .. FrameSize-1 -> Values] /\ 0 \in 0 .. FrameSize-1
    BY <1>3, CardAssumption DEF Images
  <2>3. QED
    BY <2>1, <2>2 DEF Torn, Whole
<1>6. /\ disk' \in [Paths -> File]
      /\ \A p \in Paths \ {path} : disk'[p] = disk[p]
      /\ how = "saved" => disk'[path] = [is |-> "whole", image |-> data]
      /\ how # "saved" => Unsaved
      /\ how = "unopened" => disk'[path] = disk[path]
      /\ how = "cut" => disk'[path].is = "short"
  BY <1>1, <1>2, <1>3, Saves DEF IInv
<1>7. /\ dirty' \in BOOLEAN /\ failed' \in BOOLEAN /\ ack' \in BOOLEAN
      /\ how = "saved" => ~dirty'
      /\ how # "saved" => dirty' /\ failed'
  <2>1. dirty' \in BOOLEAN /\ ack' \in BOOLEAN
    BY <1>1, <1>2, Zenon
  <2>2. failed' \in BOOLEAN
    <3>1. failed \in BOOLEAN
      BY <1>3, Zenon DEF TypeOK
    <3>2. CASE Unsaved
      BY <1>1, <3>2, Zenon
    <3>3. CASE ~Unsaved
      BY <1>1, <3>1, <3>3, Zenon
    <3>4. QED
      BY <3>2, <3>3, Zenon
  <2>3. how = "saved" => ~dirty'
    BY <1>1
  <2>4. ASSUME how # "saved" PROVE dirty' /\ failed'
    <3>1. Unsaved
      BY <1>6, <2>4
    <3>2. QED
      BY <1>1, <2>4, <3>1, Zenon DEF Unsaved
  <2>5. QED
    BY <2>1, <2>2, <2>3, <2>4
<1>8. how \in {"saved", "unopened", "cut"}
  BY <1>1 DEF Outcomes
<1>9. TypeOK'
  <2>1. at' \in AtSet
    BY <1>2, AtCases
  <2>2. kept' \subseteq Paths \X Frames \X Values /\ cut' \subseteq Paths \X Frames
    BY <1>1, <1>2, <1>3, <1>5 DEF TypeOK, Overwritten
  <2>3. faults' \in 0 .. MaxFaults
    BY <1>1, <1>3, CardAssumption DEF TypeOK, Fault
  <2>4. fresh' \in BOOLEAN
    BY <1>2, <1>3, Zenon DEF TypeOK
  <2>5. QED
    BY <1>2, <1>3, <1>6, <1>7, <2>1, <2>2, <2>3, <2>4, TypeFrom DEF TypeOK
<1>10. Acked'
  BY <1>2, Zenon DEF Acked
<1>11. CleanMeansSaved'
  BY <1>2, <1>6, <1>7, <1>8 DEF CleanMeansSaved, Inserted
<1>12. MountedKept'
  BY <1>2, <1>5 DEF IInv, MountedKept, Overwritten
<1>13. FrameKept'
  <2>1. SUFFICES ASSUME NEW k \in kept'
                 PROVE  \/ disk'[k[1]].is = "whole" /\ disk'[k[1]].image[k[2]] = Whole(k[3])
                        \/ k[1] = path' /\ dirty' /\ failed' /\ data'[k[2]] = Whole(k[3])
    BY DEF FrameKept, Whole
  <2>2. k[1] \in Paths
    BY <1>9, <2>1 DEF TypeOK
  <2>3. CASE k[1] = path
    <3>1. data[k[2]] = Whole(k[3])
      BY <1>2, <1>12, <2>1, <2>3 DEF MountedKept
    <3>2. QED
      BY <1>2, <1>6, <1>7, <1>8, <2>3, <3>1
  <2>4. CASE k[1] # path
    <3>1. k \in kept
      BY <1>2, <2>1, <2>4 DEF Overwritten
    <3>2. disk[k[1]].is = "whole" /\ disk[k[1]].image[k[2]] = Whole(k[3])
      BY <2>4, <3>1 DEF IInv, FrameKept, Whole
    <3>3. QED
      BY <1>6, <2>2, <2>4, <3>2
  <2>5. QED
    BY <2>3, <2>4
<1>14. TornOnlyWhenCut'
  <2>1. ~Torn(data[address])
    BY <1>4 DEF IInv, Filling
  <2>2. \A f \in Frames : Torn(data[f]) => <<path, f>> \in cut'
    BY <1>1, <2>1 DEF IInv, TornOnlyWhenCut
  <2>3. ASSUME NEW p \in Paths, NEW f \in Frames,
               disk'[p].is = "whole", Torn(disk'[p].image[f])
        PROVE  <<p, f>> \in cut'
    <3>1. CASE p = path /\ how = "saved"
      BY <1>6, <2>2, <2>3, <3>1
    <3>2. CASE p # path \/ how # "saved"
      <4>1. disk'[p] = disk[p]
        BY <1>6, <1>8, <2>3, <3>2
      <4>2. <<p, f>> \in cut
        BY <2>3, <4>1 DEF IInv, TornOnlyWhenCut
      <4>3. QED
        BY <1>1, <3>2, <4>2
    <3>3. QED
      BY <3>1, <3>2
  <2>4. QED
    BY <1>2, <2>2, <2>3 DEF TornOnlyWhenCut, Torn
<1>15. Filling'
  BY <1>2 DEF Filling, Idle
<1>16. QED
  BY <1>9, <1>10, <1>11, <1>12, <1>13, <1>14, <1>15 DEF IInv

(***************************************************************************)
(* The card leaves, another comes, and the program crashes.                *)
(***************************************************************************)
(* With no card mounted and the transfer dropped, the invariant asks only  *)
(* for the files.                                                          *)
NoCard == /\ ResetTransferState
          /\ data' = Formatted /\ path' = NoPath /\ dirty' = FALSE
          /\ failed' = FALSE /\ fresh' = TRUE
          /\ UNCHANGED <<writes, cut>>

LEMMA WithoutCard ==
  ASSUME IInv, NoCard, disk' \in [Paths -> File], faults' \in 0..MaxFaults,
         kept' \subseteq kept,
         \A k \in kept' : disk'[k[1]].is = "whole" /\ disk'[k[1]].image[k[2]] = Whole(k[3]),
         \A p \in Paths, f \in Frames :
            disk'[p].is = "whole" /\ Torn(disk'[p].image[f]) => <<p, f>> \in cut
  PROVE  IInv'
<1> USE DEF NoCard
<1>1. Formatted \in Images /\ \A f \in Frames : ~Torn(Formatted[f])
  BY CardAssumption DEF Formatted, Images, Torn
<1>2. dirty' \in BOOLEAN /\ failed' \in BOOLEAN /\ fresh' \in BOOLEAN
  BY Zenon
<1>3. TypeOK'
  <2>1. /\ writes' \in 0..MaxWrites /\ cut' \subseteq Paths \X Frames
        /\ kept' \subseteq Paths \X Frames \X Values
    BY DEF IInv, TypeOK
  <2>2. QED
    BY <1>1, <1>2, <2>1, Dropped, TypeFrom
<1>4. CleanMeansSaved'
  BY DEF CleanMeansSaved, Inserted
<1>5. FrameKept'
  BY DEF FrameKept, Whole
<1>6. MountedKept'
  <2>1. \A k \in kept' : k[1] # NoPath
    BY <1>3, CardAssumption DEF TypeOK
  <2>2. QED
    BY <2>1 DEF MountedKept
<1>7. TornOnlyWhenCut'
  BY <1>1 DEF TornOnlyWhenCut, Torn
<1>8. QED
  BY <1>3, <1>4, <1>5, <1>6, <1>7, Dropped DEF IInv

(* What a save that works, or fails, leaves true of the files.              *)
LEMMA SavedFiles ==
  ASSUME IInv, Inserted, NEW how \in Outcomes, Outcome(how),
         NEW files \in [Paths -> File], files[path] = disk[path],
         \A p \in Paths : files[p].is = "whole" =>
            files[p] = disk[p] \/ \A f \in Frames : ~Torn(files[p].image[f]),
         \A p \in Paths : disk[p].is = "whole" => files[p] = disk[p]
  PROVE  /\ \A k \in IF how = "saved" THEN kept ELSE Without(path) :
              /\ SavedTo(files, how)[k[1]].is = "whole"
              /\ SavedTo(files, how)[k[1]].image[k[2]] = Whole(k[3])
         /\ \A p \in Paths, f \in Frames :
              SavedTo(files, how)[p].is = "whole" /\ Torn(SavedTo(files, how)[p].image[f])
                 => <<p, f>> \in cut
<1> DEFINE after == SavedTo(files, how)
<1>1. /\ after \in [Paths -> File]
      /\ \A p \in Paths \ {path} : after[p] = files[p]
      /\ how = "saved" => after[path] = [is |-> "whole", image |-> data]
      /\ how = "unopened" => after[path] = files[path]
      /\ how = "cut" => after[path].is = "short"
  BY Saves DEF IInv
<1>2. how \in {"saved", "unopened", "cut"}
  BY DEF Outcomes
<1>3. path \in Paths /\ \A k \in kept : k[1] \in Paths /\ k[2] \in Frames
  BY DEF IInv, TypeOK, Inserted
<1> HIDE DEF after
<1>4. ASSUME NEW k \in (IF how = "saved" THEN kept ELSE Without(path))
      PROVE  after[k[1]].is = "whole" /\ after[k[1]].image[k[2]] = Whole(k[3])
  <2>1. k \in kept /\ (how # "saved" => k[1] # path)
    BY <1>4 DEF Without
  <2>2. CASE k[1] = path
    <3>1. data[k[2]] = Whole(k[3])
      BY <2>1, <2>2 DEF IInv, MountedKept
    <3>2. QED
      BY <1>1, <2>1, <2>2, <3>1
  <2>3. CASE k[1] # path
    <3>1. disk[k[1]].is = "whole" /\ disk[k[1]].image[k[2]] = Whole(k[3])
      BY <2>1, <2>3 DEF IInv, FrameKept, Whole
    <3>2. after[k[1]] = disk[k[1]]
      BY <1>1, <1>3, <2>1, <2>3, <3>1
    <3>3. QED
      BY <3>1, <3>2
  <2>4. QED
    BY <2>2, <2>3
<1>5. ASSUME NEW p \in Paths, NEW f \in Frames,
             after[p].is = "whole", Torn(after[p].image[f])
      PROVE  <<p, f>> \in cut
  <2>1. CASE p = path /\ how = "saved"
    BY <1>1, <1>5, <2>1 DEF IInv, TornOnlyWhenCut
  <2>2. CASE p # path \/ how # "saved"
    <3>1. after[p] = files[p]
      BY <1>1, <1>2, <1>5, <2>2
    <3>2. files[p] = disk[p]
      BY <1>5, <3>1
    <3>3. QED
      BY <1>5, <3>1, <3>2 DEF IInv, TornOnlyWhenCut
  <2>3. QED
    BY <2>1, <2>2
<1>6. QED
  BY <1>4, <1>5 DEF after

LEMMA EjectStep ==
  ASSUME IInv, Eject
  PROVE  IInv'
<1>1. PICK how \in Outcomes : Leave(how) /\ Fault(how) /\ disk' = SavedTo(disk, how)
  BY DEF Eject
<1>2. /\ Inserted /\ Outcome(how) /\ NoCard
      /\ kept' = IF how = "saved" THEN kept ELSE Without(path)
  BY <1>1 DEF Eject, Leave, NoCard
<1>3. TypeOK /\ CleanMeansSaved /\ disk \in [Paths -> File]
  BY DEF IInv, TypeOK
<1>4. disk' \in [Paths -> File]
  BY <1>1, <1>2, <1>3, Saves
<1>5. faults' \in 0..MaxFaults
  BY <1>1, <1>3, CardAssumption DEF TypeOK, Fault
<1>6. kept' \subseteq kept
  BY <1>2 DEF Without
<1>7. /\ \A k \in kept' : disk'[k[1]].is = "whole" /\ disk'[k[1]].image[k[2]] = Whole(k[3])
      /\ \A p \in Paths, f \in Frames :
            disk'[p].is = "whole" /\ Torn(disk'[p].image[f]) => <<p, f>> \in cut
  BY <1>1, <1>2, <1>3, SavedFiles
<1>8. QED
  BY <1>2, <1>4, <1>5, <1>6, <1>7, WithoutCard

LEMMA CrashStep ==
  ASSUME IInv, Crash
  PROVE  IInv'
<1>1. NoCard
  BY DEF Crash, NoCard
<1>2. TypeOK /\ disk \in [Paths -> File] /\ \A k \in kept : k[1] \in Paths
  BY DEF IInv, TypeOK
<1>3. faults' \in 0..MaxFaults
  BY <1>2, CardAssumption DEF Crash, TypeOK, Fault
<1>4. \A k \in kept : (failed => k[1] # path) =>
         disk[k[1]].is = "whole" /\ disk[k[1]].image[k[2]] = Whole(k[3])
  BY DEF IInv, FrameKept, Whole
<1>5. CASE disk' = disk /\ kept' = (IF failed THEN Without(path) ELSE kept)
  <2>1. \A k \in kept' : k \in kept /\ (failed => k[1] # path)
    BY <1>5 DEF Without
  <2>2. \A k \in kept' : disk'[k[1]].is = "whole" /\ disk'[k[1]].image[k[2]] = Whole(k[3])
    BY <1>4, <1>5, <2>1
  <2>3. \A p \in Paths, f \in Frames :
           disk'[p].is = "whole" /\ Torn(disk'[p].image[f]) => <<p, f>> \in cut
    BY <1>5 DEF IInv, TornOnlyWhenCut
  <2>4. QED
    BY <1>1, <1>2, <1>3, <1>5, <2>1, <2>2, <2>3, WithoutCard
<1>6. ASSUME NEW p \in Paths, disk' = Put(disk, p, Formatted, "cut"),
             kept' = {k \in kept : k[1] # p /\ (failed => k[1] # path)}
      PROVE  IInv'
  <2>1. [is |-> "short", image |-> Formatted] \in File
    BY CardAssumption DEF File, Formatted, Images
  <2>2. /\ disk' \in [Paths -> File] /\ disk'[p].is = "short"
        /\ \A q \in Paths \ {p} : disk'[q] = disk[q]
    BY <1>2, <1>6, <2>1 DEF Put
  <2>3. \A k \in kept' : disk'[k[1]].is = "whole" /\ disk'[k[1]].image[k[2]] = Whole(k[3])
    BY <1>2, <1>4, <1>6, <2>2
  <2>4. \A q \in Paths, f \in Frames :
           disk'[q].is = "whole" /\ Torn(disk'[q].image[f]) => <<q, f>> \in cut
    BY <2>2 DEF IInv, TornOnlyWhenCut
  <2>5. QED
    BY <1>1, <1>3, <1>6, <2>2, <2>3, <2>4, WithoutCard
<1>7. QED
  BY <1>5, <1>6 DEF Crash

(* The files once the image of another card is found or made.               *)
Made(p, made) == IF disk[p].is = "absent" THEN Put(disk, p, Formatted, made) ELSE disk

LEMMA MadeFiles ==
  ASSUME IInv, NEW p \in Paths, p # path, disk[p].is # "short", NEW made \in Outcomes,
         disk[p].is = "whole" => made = "saved"
  PROVE  /\ Made(p, made) \in [Paths -> File]
         /\ \A q \in Paths \ {p} : Made(p, made)[q] = disk[q]
         /\ \A q \in Paths : disk[q].is = "whole" => Made(p, made)[q] = disk[q]
         /\ \A q \in Paths : Made(p, made)[q].is = "whole" =>
               Made(p, made)[q] = disk[q] \/ \A f \in Frames : ~Torn(Made(p, made)[q].image[f])
         /\ made = "saved" => Made(p, made)[p].is = "whole"
<1>1. disk \in [Paths -> File] /\ disk[p].is \in {"absent", "short", "whole"}
  BY DEF IInv, TypeOK, File
<1>2. CASE disk[p].is = "absent"
  <2>1. Formatted \in Images /\ \A f \in Frames : ~Torn(Formatted[f])
    BY CardAssumption DEF Formatted, Images, Torn
  <2>2. /\ [is |-> "whole", image |-> Formatted] \in File
        /\ [is |-> "short", image |-> Formatted] \in File
    BY <2>1 DEF File
  <2>3. /\ Made(p, made) \in [Paths -> File]
        /\ \A q \in Paths \ {p} : Made(p, made)[q] = disk[q]
        /\ made = "saved" => Made(p, made)[p] = [is |-> "whole", image |-> Formatted]
        /\ made = "cut" => Made(p, made)[p].is = "short"
        /\ made = "unopened" => Made(p, made)[p] = disk[p]
    BY <1>1, <1>2, <2>2 DEF Made, Put
  <2>4. made \in {"saved", "cut", "unopened"}
    BY DEF Outcomes
  <2>5. Made(p, made)[p].is = "whole" => \A f \in Frames : ~Torn(Made(p, made)[p].image[f])
    <3>1. Made(p, made)[p].is = "whole" => made = "saved"
      BY <1>2, <2>3, <2>4
    <3>2. made = "saved" => Made(p, made)[p].image = Formatted
      BY <2>3
    <3>3. QED
      BY <2>1, <3>1, <3>2, Zenon
  <2>6. QED
    BY <1>2, <2>3, <2>5
<1>3. CASE disk[p].is = "whole"
  BY <1>1, <1>3 DEF Made
<1>4. QED
  BY <1>1, <1>2, <1>3

(* A new card whose first image could not be written changes only its file. *)
LEMMA NotMadeStep ==
  ASSUME IInv, NEW p \in Paths, p # path, disk[p].is # "short",
         NEW made \in Outcomes, made # "saved", disk[p].is = "whole" => made = "saved",
         disk' = Made(p, made), faults' \in 0..MaxFaults,
         UNCHANGED <<transfer, card, ack, kept, writes, cut>>
  PROVE  IInv'
<1> USE DEF transfer, card
<1>1. /\ disk' \in [Paths -> File]
      /\ \A q \in Paths \ {p} : disk'[q] = disk[q]
      /\ \A q \in Paths : disk[q].is = "whole" => disk'[q] = disk[q]
      /\ \A q \in Paths : disk'[q].is = "whole" =>
            disk'[q] = disk[q] \/ \A f \in Frames : ~Torn(disk'[q].image[f])
  BY MadeFiles
<1>2. \A k \in kept : k[1] \in Paths
  BY DEF IInv, TypeOK
<1>3. TypeOK'
  BY <1>1, Zenon DEF IInv, TypeOK, AtSet
<1>4. CleanMeansSaved'
  BY <1>1 DEF IInv, TypeOK, CleanMeansSaved, Inserted
<1>5. FrameKept'
  BY ZenonT(30), <1>1, <1>2 DEF IInv, FrameKept
<1>6. MountedKept' /\ Filling' /\ Acked'
  BY DEF IInv, MountedKept, Filling, Acked, Torn
<1>7. TornOnlyWhenCut'
  BY <1>1 DEF IInv, TornOnlyWhenCut, Torn
<1>8. QED
  BY <1>3, <1>4, <1>5, <1>6, <1>7 DEF IInv

LEMMA MountStep ==
  ASSUME IInv, NEW p \in Paths, Mount(p)
  PROVE  IInv'
<1>1. PICK made \in Outcomes, how \in Outcomes :
        /\ disk[p].is = "whole" => made = "saved"
        /\ IF made # "saved"
           THEN /\ how = "saved" /\ Fault(made) /\ disk' = Made(p, made)
                /\ UNCHANGED <<transfer, card, ack, kept>>
           ELSE /\ Outcome(how) /\ Fault(how) /\ disk' = SavedTo(Made(p, made), how)
                /\ data' = Made(p, made)[p].image /\ path' = p
                /\ dirty' = FALSE /\ failed' = FALSE /\ fresh' = TRUE
                /\ ResetTransferState
                /\ kept' = IF how = "saved" THEN kept ELSE Without(path)
  BY DEF Mount, Made
<1>2. p # path /\ disk[p].is # "short" /\ UNCHANGED <<writes, cut>>
  BY DEF Mount
<1>3. TypeOK /\ CleanMeansSaved /\ faults' \in 0..MaxFaults
  <2>1. faults' = faults \/ (faults < MaxFaults /\ faults' = faults + 1)
    BY <1>1 DEF Fault
  <2>2. QED
    BY <2>1, CardAssumption DEF IInv, TypeOK
<1>4. CASE made # "saved"
  BY <1>1, <1>2, <1>3, <1>4, NotMadeStep
<1>5. CASE made = "saved"
  <2> DEFINE files == Made(p, made)
  <2>1. /\ Outcome(how) /\ disk' = SavedTo(files, how)
        /\ data' = files[p].image /\ path' = p
        /\ dirty' = FALSE /\ failed' = FALSE /\ fresh' = TRUE
        /\ ResetTransferState
        /\ kept' = IF how = "saved" THEN kept ELSE Without(path)
    BY <1>1, <1>5
  <2>2. /\ files \in [Paths -> File]
        /\ \A q \in Paths \ {p} : files[q] = disk[q]
        /\ \A q \in Paths : disk[q].is = "whole" => files[q] = disk[q]
        /\ \A q \in Paths : files[q].is = "whole" =>
              files[q] = disk[q] \/ \A f \in Frames : ~Torn(files[q].image[f])
        /\ files[p].is = "whole"
    BY <1>1, <1>2, <1>5, MadeFiles
  <2> HIDE DEF files
  <2>3. /\ disk' \in [Paths -> File] /\ disk'[p] = files[p]
        /\ \A k \in kept' : disk'[k[1]].is = "whole" /\ disk'[k[1]].image[k[2]] = Whole(k[3])
        /\ \A q \in Paths, f \in Frames :
              disk'[q].is = "whole" /\ Torn(disk'[q].image[f]) => <<q, f>> \in cut
    <3>1. CASE Inserted
      <4>1. path \in Paths /\ files[path] = disk[path]
        BY <1>2, <1>3, <2>2, <3>1 DEF TypeOK, Inserted
      <4>2. disk' \in [Paths -> File] /\ disk'[p] = files[p]
        BY <1>2, <1>3, <2>1, <2>2, <3>1, <4>1, Saves
      <4>3. QED
        BY <2>1, <2>2, <3>1, <4>1, <4>2, SavedFiles
    <3>2. CASE ~Inserted
      <4>1. disk' = files /\ kept' = kept
        BY <2>1, <3>2 DEF SavedTo, Unsaved, Outcome
      <4>2. ASSUME NEW k \in kept
            PROVE  files[k[1]].is = "whole" /\ files[k[1]].image[k[2]] = Whole(k[3])
        <5>1. k[1] \in Paths /\ k[1] # path
          BY <1>3, <3>2, CardAssumption DEF TypeOK, Inserted
        <5>2. disk[k[1]].is = "whole" /\ disk[k[1]].image[k[2]] = Whole(k[3])
          BY <5>1 DEF IInv, FrameKept, Whole
        <5>3. QED
          BY <2>2, <5>1, <5>2
      <4>3. \A q \in Paths, f \in Frames :
              files[q].is = "whole" /\ Torn(files[q].image[f]) => <<q, f>> \in cut
        BY <2>2 DEF IInv, TornOnlyWhenCut
      <4>4. QED
        BY <2>2, <4>1, <4>2, <4>3
    <3>3. QED
      BY <3>1, <3>2
  <2>4. TypeOK'
    <3>1. dirty' \in BOOLEAN /\ failed' \in BOOLEAN /\ fresh' \in BOOLEAN
      BY <2>1, Zenon
    <3>2. data' \in Images
      BY <2>1, <2>2 DEF File
    <3>3. kept' \subseteq Paths \X Frames \X Values /\ cut' \subseteq Paths \X Frames
      BY <1>2, <1>3, <2>1 DEF TypeOK, Without
    <3>4. writes' \in 0..MaxWrites
      BY <1>2, <1>3 DEF TypeOK
    <3>5. QED
      BY <1>3, <2>1, <2>3, <3>1, <3>2, <3>3, <3>4, Dropped, TypeFrom
  <2>5. CleanMeansSaved'
    <3>1. disk'[p] \in File
      BY <2>3
    <3>2. disk'[p] = [is |-> "whole", image |-> data']
      BY <2>1, <2>2, <2>3, <3>1 DEF File
    <3>3. QED
      BY <2>1, <3>2 DEF CleanMeansSaved, Inserted
  <2>6. FrameKept'
    BY <2>3 DEF FrameKept, Whole
  <2>7. MountedKept'
    BY <2>1, <2>3 DEF MountedKept
  <2>8. TornOnlyWhenCut'
    BY <1>2, <2>1, <2>2, <2>3 DEF TornOnlyWhenCut, Torn
  <2>9. QED
    BY <2>1, <2>4, <2>5, <2>6, <2>7, <2>8, Dropped DEF IInv
<1>6. QED
  BY <1>4, <1>5

-----------------------------------------------------------------------------
(***************************************************************************)
(* The theorems.                                                           *)
(***************************************************************************)
LEMMA StutterStep ==
  ASSUME IInv, UNCHANGED vars
  PROVE  IInv'
<1> USE DEF vars
<1>1. TypeOK' /\ Acked'
  BY Zenon DEF IInv, TypeOK, Acked
<1>2. Histories'
  BY HistoriesKept DEF IInv, Histories
<1>3. Filling'
  BY DEF IInv, Filling, Torn
<1>4. QED
  BY <1>1, <1>2, <1>3 DEF IInv, Histories

LEMMA Inductive == IInv /\ [Next]_vars => IInv'
<1> SUFFICES ASSUME IInv, [Next]_vars PROVE IInv'
  OBVIOUS
<1>1. CASE Transfer
  BY <1>1, SelectStep, ChooseCommandStep, AnswerStep, TakeAddressStep, ReadDataStep,
     WriteDataStep, EndReadStep, EndWriteStep DEF Transfer
<1>2. CASE Deselect \/ Reset
  BY <1>2, DeselectResetStep
<1>3. CASE Eject
  BY <1>3, EjectStep
<1>4. CASE \E p \in Paths : Mount(p)
  BY <1>4, MountStep
<1>5. CASE Crash
  BY <1>5, CrashStep
<1>6. CASE UNCHANGED vars
  BY <1>6, StutterStep
<1>7. QED
  BY <1>1, <1>2, <1>3, <1>4, <1>5, <1>6 DEF Next

LEMMA Invariance == Spec => []IInv
BY InitIInv, Inductive, PTL DEF Spec

(* The state keeps its types (memory_card.h:96-145): the place in a command *)
(* is one of its script's, the address and the offset stay on the card.    *)
THEOREM TypeCorrect == Spec => []TypeOK
<1>1. IInv => TypeOK
  BY DEF IInv
<1>2. QED
  BY <1>1, Invariance, PTL

(* A card that is not dirty is what its file holds (memory_card.cpp:105-210), *)
(* for any number of torn writes, failed saves, other cards and crashes.   *)
THEOREM CleanIsSaved == Spec => []CleanMeansSaved
<1>1. IInv => CleanMeansSaved
  BY DEF IInv
<1>2. QED
  BY <1>1, Invariance, PTL

(* A frame whose write the guest saw end is in the card's file, or in memory *)
(* under the error flag (memory_card.cpp:375-452).                         *)
THEOREM FramesAreKept == Spec => []FrameKept
<1>1. IInv => FrameKept
  BY DEF IInv
<1>2. QED
  BY <1>1, Invariance, PTL

(* Only a write that was not finished tears a frame (memory_card.cpp:375-452, *)
(* and Sio::reset_device_transfer_state).                                  *)
THEOREM OnlyTheCutAreTorn == Spec => []TornOnlyWhenCut
<1>1. IInv => TornOnlyWhenCut
  BY DEF IInv
<1>2. QED
  BY <1>1, Invariance, PTL

(***************************************************************************)
(* The card implements the device of the port.                             *)
(***************************************************************************)
LEMMA InitDevice == Init => Device!Init
BY Zenon DEF Init, Device!Init

(* Outside a command only the access byte is acknowledged; inside, any      *)
(* byte may be.  Either way the card is then in a command exactly if it was. *)
LEMMA DeviceByte ==
  ASSUME IInv', at # Idle \/ at' \in {Idle, Command}
  PROVE  \E access \in BOOLEAN : Device!Byte(access)
<1>1. ack' \in BOOLEAN /\ ack' = (at' # Idle)
  BY Zenon DEF IInv, TypeOK, Acked
<1>2. Device!Byte(ack')
  BY <1>1, Zenon DEF Device!Byte, Device!Answers
<1>3. QED
  BY <1>1, <1>2, Zenon

LEMMA DeviceDrop ==
  ASSUME ResetTransferState
  PROVE  Device!Drop
BY Zenon DEF ResetTransferState, Device!Drop

LEMMA NextDevice == IInv /\ IInv' /\ [Next]_vars => [Device!Next]_Device!vars
<1> SUFFICES ASSUME IInv, IInv', [Next]_vars PROVE [Device!Next]_Device!vars
  OBVIOUS
<1>1. CASE Transfer
  <2>1. at # Idle \/ at' \in {Idle, Command}
    BY <1>1, CommandNames DEF Transfer, Select, ChooseCommand, Answer, TakeAddress,
       ReadData, WriteData, EndRead, EndWrite, InScript, Idle, Command
  <2>2. QED
    BY <2>1, DeviceByte DEF Device!Next
<1>2. CASE Deselect \/ Reset \/ Eject \/ Crash
  <2>1. ResetTransferState
    BY <1>2 DEF Deselect, Reset, Eject, Leave, Crash
  <2>2. QED
    BY <2>1, DeviceDrop DEF Device!Next
<1>3. CASE \E p \in Paths : Mount(p)
  <2>1. ResetTransferState \/ UNCHANGED <<at, ack>>
    BY <1>3 DEF Mount, transfer
  <2>2. UNCHANGED <<at, ack>> => UNCHANGED Device!vars
    BY DEF Device!vars
  <2>3. QED
    BY <2>1, <2>2, DeviceDrop DEF Device!Next
<1>4. CASE UNCHANGED vars
  BY <1>4 DEF vars, Device!vars
<1>5. QED
  BY <1>1, <1>2, <1>3, <1>4 DEF Next

(* The port may rely on the card as on any device (sio.cpp:285-360 against  *)
(* memory_card.cpp:243-452): it is in a command exactly while it           *)
(* acknowledges, and whatever drops the command leaves it idle.            *)
THEOREM CardImplementsDevice == Spec => ImplementsDevice
<1>1. Init /\ [][Next]_vars /\ []IInv => Device!Spec
  BY InitDevice, NextDevice, PTL DEF Device!Spec
<1>2. QED
  BY <1>1, Invariance, PTL DEF Spec, ImplementsDevice

-----------------------------------------------------------------------------
=============================================================================
