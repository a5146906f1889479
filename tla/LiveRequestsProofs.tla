------------------------- MODULE LiveRequestsProofs -------------------------
(***************************************************************************)
(* Proofs about LiveRequests for any set of discs and any number of        *)
(* operations.  The argument: at every moment of a frame the mailbox, what *)
(* the worker has taken out of it and the drive together determine one     *)
(* disc, the one that will be in the drive when all requests are served,   *)
(* and no step of the worker changes it.  The same holds of the card.      *)
(***************************************************************************)
EXTENDS LiveRequests, TLAPS

(* The disc the drive will hold when the pending requests are served.      *)
ComingDisc ==
  IF insert # None THEN insert
  ELSE IF eject \/ pc = "unload" THEN None
  ELSE IF pc = "swap" /\ taken # None THEN taken
  ELSE drive

(* The card that will be mounted.                                          *)
ComingCard ==
  IF cards # None THEN cards
  ELSE IF pc = "mount" /\ taken # None THEN taken
  ELSE card

(* An insert request withdraws an eject request, and the other way round.  *)
OneRequest == insert # None => ~eject

(* After a frame that came too early for a request, no request was made:   *)
(* the frame under way empties one mailbox after the other for good.       *)
SecondFrameServes ==
  late >= 1 /\ ~stale /\ ~staleCards =>
    /\ pc \notin {"wait", "begin"} => cards = None
    /\ pc \in {"swap", "eject", "unload", "run"} => insert = None
    /\ pc \in {"unload", "run"} => ~eject

(* What is being swapped in came out of the disc mailbox.                  *)
TakenDisc == pc = "swap" => taken \in Disc \cup {None}

(* Between the two halves of a live pick the picked disc is selected.      *)
PickSelected == doing = "insert" => selected # None

IInv ==
  /\ TypeOK /\ TakenDisc /\ PickSelected
  /\ ServedByNextFrame
  /\ SecondFrameServes
  /\ OneRequest
  /\ ~stale => ComingDisc = want
  /\ ~staleCards => ComingCard = target

USE DEF ui, box, system, worker

(* The values that are not Boolean, and the Boolean ones: two provers.     *)
Flags ==
  /\ started \in BOOLEAN /\ suspended \in BOOLEAN /\ running \in BOOLEAN
  /\ eject \in BOOLEAN /\ stale \in BOOLEAN /\ staleCards \in BOOLEAN

Values ==
  /\ selected \in Disc \cup {None} /\ mode \in {"generic", "game"} /\ target \in Card
  /\ doing \in {"no", "insert", "pause", "stop", "exit", "restart"}
  /\ pc \in {"wait", "begin", "mount", "insert", "swap", "eject", "unload", "run"}
  /\ insert \in Disc \cup {None} /\ cards \in Card \cup {None}
  /\ taken \in Card \cup {None}
  /\ drive \in Disc \cup {None} /\ lastDisc \in Disc \cup {None} /\ card \in Card
  /\ want \in Disc \cup {None}
  /\ late \in 0..3 /\ ops \in 0..MaxOps

LEMMA TypeOKSplit == TypeOK <=> Flags /\ Values
  BY DEF TypeOK, Flags, Values

(* A card file is named after a disc, or it is the generic one. *)
LEMMA CardPathType ==
  ASSUME NEW m, NEW game \in Disc \cup {None}, NEW disc \in Disc \cup {None}
  PROVE  CardPath(m, game, disc) \in Card
  BY DEF CardPath, Card

(* The flags stay Boolean. *)
LEMMA FlagsKept == Flags /\ [Next]_vars => Flags'
  <1> SUFFICES ASSUME Flags, [Next]_vars PROVE Flags'
    OBVIOUS
  <1>1. ASSUME NEW d \in Disc, LoadDisc(d) PROVE Flags'
    BY <1>1, Zenon DEF Flags, LoadDisc, ApplyMemoryCardSettings, MountPending
  <1>2. CASE RequestLiveDiscInsert
    BY <1>2, Zenon DEF Flags, RequestLiveDiscInsert
  <1>3. CASE ChangeCardMode
    BY <1>3, Zenon DEF Flags, ChangeCardMode, ApplyMemoryCardSettings, MountPending
  <1>4. CASE BootDisc
    BY <1>4, Zenon DEF Flags, BootDisc, ApplyMemoryCardSettings, MountPending
  <1>5. CASE UnloadDisc
    BY <1>5, Zenon DEF Flags, UnloadDisc
  <1>6. CASE StartBios
    BY <1>6, Zenon DEF Flags, StartBios, ApplyMemoryCardSettings, MountPending
  <1>7. CASE Resume
    BY <1>7, Zenon DEF Flags, Resume
  <1>8. ASSUME NEW op, PauseFirst(op) PROVE Flags'
    BY <1>8, Zenon DEF Flags, PauseFirst
  <1>9. CASE Paused
    <2>1. started' \in BOOLEAN /\ suspended' \in BOOLEAN
      BY <1>9 DEF Flags, Paused
    <2>2. running' \in BOOLEAN
      BY <1>9, Zenon DEF Flags, Paused
    <2>3. staleCards' \in BOOLEAN
      BY <1>9, Zenon DEF Flags, Paused, ApplyMemoryCardSettings, MountPending
    <2>4. QED
      BY <1>9, <2>1, <2>2, <2>3, Zenon DEF Flags, Paused
  <1>10. CASE Loop \/ RewindFrame \/ TakeCards \/ Mount \/ TakeInsert \/ SwapDisc \/ TakeEject \/ Eject
    BY <1>10, Zenon DEF Flags, Loop, RewindFrame, TakeCards, Mount, TakeInsert, SwapDisc, TakeEject, Eject
  <1>11. ASSUME NEW eof \in BOOLEAN, RunFrame(eof) PROVE Flags'
    BY <1>11, Zenon DEF Flags, RunFrame
  <1>12. CASE UNCHANGED vars
    BY <1>12, Zenon DEF Flags, vars
  <1>13. QED
    BY <1>1, <1>2, <1>3, <1>4, <1>5, <1>6, <1>7, <1>8, <1>9, <1>10, <1>11, <1>12, Zenon
    DEF Next, UINext, WorkerNext

(* The steps of the UI keep the other values. *)
LEMMA UIValuesKept == Values /\ UINext => Values'
  <1> SUFFICES ASSUME Values, UINext PROVE Values'
    OBVIOUS
  <1> USE LiveRequestsAssumption DEF Values
  <1>1. ASSUME NEW d \in Disc, LoadDisc(d) PROVE Values'
    <2>1. CardPath(mode, d, drive) \in Card
      BY CardPathType
    <2>2. QED
      BY <1>1, <2>1 DEF LoadDisc, Operation, ApplyMemoryCardSettings
  <1>2. CASE RequestLiveDiscInsert
    BY <1>2 DEF RequestLiveDiscInsert
  <1>3. CASE ChangeCardMode
    <2>1. CardPath(mode', selected, drive) \in Card
      BY CardPathType
    <2>2. mode' \in {"generic", "game"}
      BY <1>3 DEF ChangeCardMode
    <2>3. QED
      BY <1>3, <2>1, <2>2 DEF ChangeCardMode, Operation, ApplyMemoryCardSettings
  <1>4. CASE BootDisc
    <2>1. lastDisc' \in Disc \cup {None} /\ drive' \in Disc \cup {None}
      BY <1>4 DEF BootDisc
    <2>2. CardPath(mode, selected, drive') \in Card
      BY <2>1, CardPathType
    <2>3. QED
      BY <1>4, <2>1, <2>2 DEF BootDisc, Operation, ApplyMemoryCardSettings
  <1>5. CASE UnloadDisc
    BY <1>5 DEF UnloadDisc, Operation
  <1>6. CASE StartBios
    <2>1. CardPath(mode, selected, drive) \in Card
      BY CardPathType
    <2>2. QED
      BY <1>6, <2>1 DEF StartBios, Operation, ApplyMemoryCardSettings
  <1>7. CASE Resume
    BY <1>7 DEF Resume, Operation
  <1>8. ASSUME NEW op \in {"pause", "stop", "exit", "restart"}, PauseFirst(op) PROVE Values'
    BY <1>8 DEF PauseFirst, Operation
  <1>9. CASE Paused
    <2>1. CardPath(mode, selected, drive) \in Card
      BY CardPathType
    <2>2. QED
      BY <1>9, <2>1 DEF Paused, ApplyMemoryCardSettings
  <1>10. QED
    BY <1>1, <1>2, <1>3, <1>4, <1>5, <1>6, <1>7, <1>8, <1>9 DEF UINext

(* So do those of the worker: what it swaps in is a disc. *)
LEMMA WorkerValuesKept == Values /\ TakenDisc /\ WorkerNext => Values'
  <1> SUFFICES ASSUME Values, TakenDisc, WorkerNext PROVE Values'
    OBVIOUS
  <1> USE LiveRequestsAssumption DEF Values, Step
  <1>1. CASE Loop \/ RewindFrame
    BY <1>1 DEF Loop, RewindFrame
  <1>2. CASE TakeCards
    BY <1>2 DEF TakeCards
  <1>3. CASE Mount
    BY <1>3 DEF Mount
  <1>4. CASE TakeInsert
    BY <1>4 DEF TakeInsert, Card
  <1>5. CASE SwapDisc
    BY <1>5 DEF SwapDisc, TakenDisc
  <1>6. CASE TakeEject
    BY <1>6 DEF TakeEject
  <1>7. CASE Eject
    BY <1>7 DEF Eject
  <1>8. ASSUME NEW eof \in BOOLEAN, RunFrame(eof) PROVE Values'
    <2>1. late' \in 0..3
      BY <1>8 DEF RunFrame
    <2>2. QED
      BY <1>8, <2>1 DEF RunFrame
  <1>9. QED
    BY <1>1, <1>2, <1>3, <1>4, <1>5, <1>6, <1>7, <1>8 DEF WorkerNext

(* The parts of the strengthening that are about the requests. *)
Requests ==
  /\ TakenDisc /\ PickSelected /\ OneRequest
  /\ ~stale => ComingDisc = want
  /\ ~staleCards => ComingCard = target

Late == ServedByNextFrame /\ SecondFrameServes

LEMMA IInvSplit == IInv <=> TypeOK /\ Requests /\ Late
  BY DEF IInv, Requests, Late

(* Applying the card settings keeps the coming card the one named. *)
LEMMA SettingsReachCard ==
  ASSUME NEW live \in BOOLEAN, NEW path \in Card, ApplyMemoryCardSettings(live, path),
         pc' = pc, taken' = taken
  PROVE  ~staleCards' => ComingCard' = target'
  BY LiveRequestsAssumption DEF ApplyMemoryCardSettings, MountPending, ComingCard, Card

(* The steps of the UI keep the coming disc and card the ones asked for. *)
LEMMA UIRequestsKept == TypeOK /\ Requests /\ UINext => Requests'
  <1> SUFFICES ASSUME TypeOK, Requests, UINext PROVE Requests'
    OBVIOUS
  <1> USE LiveRequestsAssumption DEF TypeOK, Requests, TakenDisc, PickSelected, OneRequest
  <1>1. ASSUME NEW d \in Disc, LoadDisc(d) PROVE Requests'
    <2>1. CardPath(mode, d, drive) \in Card
      BY CardPathType
    <2>2. ~staleCards' => ComingCard' = target'
      BY <1>1, <2>1, SettingsReachCard DEF LoadDisc
    <2>3. QED
      BY <1>1, <2>2 DEF LoadDisc, ComingDisc
  <1>2. CASE RequestLiveDiscInsert
    <2>1. ~staleCards' => ComingCard' = target'
      BY <1>2 DEF RequestLiveDiscInsert, ComingCard
    <2>2. QED
      BY <1>2, <2>1 DEF RequestLiveDiscInsert, ComingDisc
  <1>3. CASE ChangeCardMode
    <2>1. CardPath(mode', selected, drive) \in Card
      BY CardPathType
    <2>2. ~staleCards' => ComingCard' = target'
      BY <1>3, <2>1, SettingsReachCard DEF ChangeCardMode
    <2>3. QED
      BY <1>3, <2>2 DEF ChangeCardMode, ComingDisc
  <1>4. CASE BootDisc
    <2>1. lastDisc' \in Disc \cup {None} /\ drive' \in Disc \cup {None}
      BY <1>4 DEF BootDisc
    <2>2. CardPath(mode, selected, drive') \in Card
      BY <2>1, CardPathType
    <2>3. ~staleCards' => ComingCard' = target'
      BY <1>4, <2>2, SettingsReachCard DEF BootDisc
    <2>4. QED
      BY <1>4, <2>3 DEF BootDisc, ComingDisc, WorkerIdle
  <1>5. CASE UnloadDisc
    <2>1. Operation /\ UNCHANGED <<doing, pc, taken, cards, card, target, staleCards>>
      BY <1>5 DEF UnloadDisc
    <2>2. insert' = None /\ eject' = TRUE /\ want' = None
      BY <1>5 DEF UnloadDisc
    <2>3. ComingDisc' = want' /\ (~staleCards' => ComingCard' = target')
      BY <2>1, <2>2 DEF ComingDisc, ComingCard
    <2>4. QED
      BY <2>1, <2>2, <2>3 DEF WorkerIdle, Operation
  <1>6. CASE StartBios
    <2>1. CardPath(mode, selected, drive) \in Card
      BY CardPathType
    <2>2. ~staleCards' => ComingCard' = target'
      BY <1>6, <2>1, SettingsReachCard DEF StartBios
    <2>3. QED
      BY <1>6, <2>2 DEF StartBios, ComingDisc
  <1>7. CASE Resume
    BY <1>7 DEF Resume, ComingDisc, ComingCard
  <1>8. ASSUME NEW op \in {"pause", "stop", "exit", "restart"}, PauseFirst(op) PROVE Requests'
    BY <1>8 DEF PauseFirst, ComingDisc, ComingCard
  <1>9. CASE Paused
    <2>1. CardPath(mode, selected, drive) \in Card
      BY CardPathType
    <2>2. ~staleCards' => ComingCard' = target'
      BY <1>9, <2>1, SettingsReachCard DEF Paused, ComingCard
    <2>3. QED
      BY <1>9, <2>2 DEF Paused, ComingDisc
  <1>10. QED
    BY <1>1, <1>2, <1>3, <1>4, <1>5, <1>6, <1>7, <1>8, <1>9 DEF UINext

(* No step of the worker changes the coming disc or the coming card. *)
LEMMA WorkerRequestsKept == TypeOK /\ Requests /\ WorkerNext => Requests'
  <1> SUFFICES ASSUME TypeOK, Requests, WorkerNext PROVE Requests'
    OBVIOUS
  <1> USE LiveRequestsAssumption
      DEF TypeOK, Requests, TakenDisc, PickSelected, OneRequest, Step, ComingDisc, ComingCard
  <1>1. CASE Loop \/ RewindFrame
    BY <1>1 DEF Loop, RewindFrame
  <1>2. CASE TakeCards
    BY <1>2 DEF TakeCards
  <1>3. CASE Mount
    BY <1>3 DEF Mount
  <1>4. CASE TakeInsert
    BY <1>4 DEF TakeInsert
  <1>5. CASE SwapDisc
    BY <1>5 DEF SwapDisc
  <1>6. CASE TakeEject
    BY <1>6 DEF TakeEject
  <1>7. CASE Eject
    BY <1>7 DEF Eject
  <1>8. ASSUME NEW eof, RunFrame(eof) PROVE Requests'
    BY <1>8 DEF RunFrame
  <1>9. QED
    BY <1>1, <1>2, <1>3, <1>4, <1>5, <1>6, <1>7, <1>8 DEF WorkerNext

(* An operation of the UI starts the count of frames again. *)
LEMMA UILateKept == UINext => Late'
  <1> SUFFICES ASSUME UINext PROVE late' = 0
    BY DEF Late, ServedByNextFrame, SecondFrameServes
  <1>1. QED
    BY DEF UINext, Operation, LoadDisc, RequestLiveDiscInsert, ChangeCardMode, BootDisc,
           UnloadDisc, StartBios, Resume, PauseFirst, Paused

(* The second frame finds both mailboxes as the UI left them, so at its    *)
(* end the coming disc and card are the ones in the machine.               *)
LEMMA WorkerLateKept == TypeOK /\ Requests /\ Late /\ WorkerNext => Late'
  <1> SUFFICES ASSUME TypeOK, Requests, Late, WorkerNext PROVE Late'
    OBVIOUS
  <1> USE DEF TypeOK, Late, ServedByNextFrame, SecondFrameServes, Step
  <1>1. CASE Loop \/ RewindFrame
    BY <1>1 DEF Loop, RewindFrame
  <1>2. CASE TakeCards
    BY <1>2 DEF TakeCards
  <1>3. CASE Mount
    BY <1>3 DEF Mount
  <1>4. CASE TakeInsert
    BY <1>4 DEF TakeInsert
  <1>5. CASE SwapDisc
    BY <1>5 DEF SwapDisc
  <1>6. CASE TakeEject
    BY <1>6 DEF TakeEject
  <1>7. CASE Eject
    BY <1>7 DEF Eject
  <1>8. ASSUME NEW eof, RunFrame(eof) PROVE Late'
    <2>1. CASE stale \/ staleCards \/ late = 0
      BY <1>8, <2>1 DEF RunFrame
    <2>2. CASE ~stale /\ ~staleCards /\ late >= 1
      <3>1. drive = want /\ card = target
        BY <1>8, <2>2 DEF RunFrame, Requests, ComingDisc, ComingCard
      <3>2. late' = late
        BY <1>8, <3>1 DEF RunFrame
      <3>3. QED
        BY <1>8, <2>2, <3>2 DEF RunFrame
    <2>3. QED
      BY <2>1, <2>2
  <1>9. QED
    BY <1>1, <1>2, <1>3, <1>4, <1>5, <1>6, <1>7, <1>8 DEF WorkerNext

LEMMA InitIInv == Init => IInv
  <1> SUFFICES ASSUME Init PROVE IInv
    OBVIOUS
  <1> USE LiveRequestsAssumption DEF Init
  <1>1. Flags
    BY Zenon DEF Flags
  <1>2. Values
    BY DEF Values, Card
  <1>3. QED
    BY <1>1, <1>2, TypeOKSplit
    DEF IInv, TakenDisc, PickSelected, OneRequest, ComingDisc, ComingCard, ServedByNextFrame, SecondFrameServes

LEMMA Inductive == IInv /\ [Next]_vars => IInv'
  <1> SUFFICES ASSUME IInv, [Next]_vars PROVE IInv'
    OBVIOUS
  <1>1. TypeOK /\ Requests /\ Late /\ Flags /\ Values /\ TakenDisc
    BY IInvSplit, TypeOKSplit DEF Requests
  <1>2. Flags'
    BY <1>1, FlagsKept
  <1>3. CASE UINext
    <2>1. Values' /\ Requests' /\ Late'
      BY <1>1, <1>3, UIValuesKept, UIRequestsKept, UILateKept
    <2>2. QED
      BY <1>2, <2>1 DEF IInv, TypeOK, Flags, Values, Requests, Late
  <1>4. CASE WorkerNext
    <2>1. Values' /\ Requests' /\ Late'
      BY <1>1, <1>4, WorkerValuesKept, WorkerRequestsKept, WorkerLateKept
    <2>2. QED
      BY <1>2, <2>1 DEF IInv, TypeOK, Flags, Values, Requests, Late
  <1>5. CASE UNCHANGED vars
    BY <1>5 DEF vars, IInv, TypeOK, TakenDisc, PickSelected, OneRequest, ComingDisc, ComingCard,
                ServedByNextFrame, SecondFrameServes
  <1>6. QED
    BY <1>3, <1>4, <1>5 DEF Next

(* Every variable of the live requests keeps its range. *)
THEOREM TypeCorrect == Spec => []TypeOK
  <1>1. IInv => TypeOK
    BY DEF IInv
  <1>2. QED
    BY <1>1, InitIInv, Inductive, PTL DEF Spec

(* The last disc operation decides what is in the drive once the mailbox   *)
(* is empty, for any number of discs and operations.                       *)
THEOREM LastDiscDecides == Spec => []LastDiscWins
  <1>1. IInv => LastDiscWins
    BY DEF IInv, LastDiscWins, DiscsServed, ComingDisc
  <1>2. QED
    BY <1>1, InitIInv, Inductive, PTL DEF Spec

(* The last card setting decides what is mounted.                          *)
THEOREM LastCardsDecide == Spec => []LastCardsWin
  <1>1. IInv => LastCardsWin
    BY DEF IInv, LastCardsWin, WorkerIdle, ComingCard
  <1>2. QED
    BY <1>1, InitIInv, Inductive, PTL DEF Spec

(* The two together: for any number of discs, cards and operations, what   *)
(* is in the drive and in the slot is what was asked for last.             *)
THEOREM LastRequestDecides == Spec => []LastRequestWins
  <1>1. LastDiscWins /\ LastCardsWin => LastRequestWins
    BY DEF LastRequestWins
  <1>2. QED
    BY <1>1, LastDiscDecides, LastCardsDecide, PTL

(* A request is served by the second frame after it.                       *)
THEOREM SecondFrame == Spec => []ServedByNextFrame
  <1>1. IInv => ServedByNextFrame
    BY DEF IInv
  <1>2. QED
    BY <1>1, InitIInv, Inductive, PTL DEF Spec

=============================================================================
