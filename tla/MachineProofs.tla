---------------------------- MODULE MachineProofs ----------------------------
(***************************************************************************)
(* Proofs about the machine's event scheduler, and about the CD-ROM        *)
(* controller that it advances: for every set of devices and every length  *)
(* of lines, instructions, stalls and delays; for every disc, backlog,     *)
(* delay and number of commands.                                           *)
(***************************************************************************)
EXTENDS Scheduler, CdRom, FiniteSetTheorems, TLAPS

(***************************************************************************)
(* The scheduler.                                                          *)
(***************************************************************************)

NotDue(s, t) == deadline[s] = Never \/ deadline[s] > t

(* The timers are never past the edge that comes. *)
TimersWithin == timers <= edge

(* Once the devices have been served none is due ... *)
Served == at = "service" => \A d \in Device : NotDue(d, Least(clock, edge))

(* ... and the DMA service neither, unless a transfer moved the clock. *)
Planned == at = "plan" => stalled \/ \A s \in Source : NotDue(s, Least(clock, edge))

(* A boundary request is consumed before the devices are served. *)
Consumed == at \in {"service", "plan"} => boundary = FALSE

(* A slice ends at the earliest deadline or, after a stall, in a cycle. *)
SliceBounded ==
  at = "slice" =>
    /\ clock < runEnd /\ runEnd <= edge /\ boundary = FALSE
    /\ \/ \A s \in Source : NotDue(s, runEnd - 1)
       \/ stalled /\ runEnd = clock + 1

Told == waiting /\ request /\ ~silent => deadline["dma"] # Never

IInv == TypeOK /\ TimersWithin /\ Served /\ Planned /\ Consumed /\ SliceBounded /\ Told

-----------------------------------------------------------------------------
(* What Reschedule leaves behind: every deadline is none or later. *)
LEMMA Rescheduled ==
  ASSUME TypeOK, NEW D, D \subseteq Device, NEW t \in Nat, NEW dma \in Nat \cup {Never},
         Reschedule(D, t, dma)
  PROVE  /\ deadline' \in [Source -> Nat \cup {Never}]
         /\ deadline'["dma"] = dma
         /\ \A d \in Device \ D : deadline'[d] = deadline[d]
         /\ \A d \in D : deadline'[d] = Never \/ deadline'[d] > t
<1>. "dma" \notin Device  BY SchedulerAssumption
<1>1. PICK next \in [D -> Later(t)] :
        deadline' = [s \in Source |-> IF s = "dma" THEN dma
                                      ELSE IF s \in D THEN next[s] ELSE deadline[s]]
  BY DEF Reschedule
<1>2. \A d \in D : next[d] = Never \/ (next[d] \in Nat /\ next[d] > t)
  BY SchedulerAssumption DEF Later
<1>3. \A s \in Source : deadline[s] \in Nat \cup {Never}
  BY DEF TypeOK
<1>. QED  BY <1>1, <1>2, <1>3 DEF Source

(* A service wanted by cycle t is armed, and not before its old time. *)
LEMMA ServiceByArmed ==
  ASSUME TypeOK, NEW t \in Nat
  PROVE  /\ ServiceBy(t) \in Nat \cup {Never}
         /\ waiting' => ServiceBy(t) # Never
BY DEF TypeOK, ServiceBy, IsDue, Never, Source

(* The initial state, between two frames with no event in sight. *)
LEMMA InitIInv == Init => IInv
<1> SUFFICES ASSUME Init PROVE IInv
  OBVIOUS
<1>1. /\ waiting \in BOOLEAN /\ request \in BOOLEAN /\ boundary \in BOOLEAN
      /\ stalled \in BOOLEAN /\ silent \in BOOLEAN
  BY Zenon DEF Init
<1>2. deadline \in [Source -> Nat \cup {Never}]
  BY DEF Init, Never
<1>3. /\ clock \in Nat /\ timers \in Nat /\ edge \in Nat /\ runEnd \in Nat
      /\ line \in 0 .. Lines - 1 /\ frame \in 0..MaxFrames
  BY SchedulerAssumption DEF Init
<1>4. QED
  BY <1>1, <1>2, <1>3 DEF Init, IInv, TypeOK, TimersWithin, Served, Planned, Consumed, SliceBounded, Told

(* A frame or a line begins or ends: the edge only moves forward. *)
LEMMA EdgeStep ==
  ASSUME IInv, BeginFrame \/ SaveAndRestore \/ BeginLine \/ EndLine \/ SyncSound
  PROVE  IInv'
<1> USE DEF IInv, TimersWithin, Served, Planned, Consumed, SliceBounded, Told
<1>0. "timers" \in Device /\ "dma" \notin Device /\ "dma" \in Source /\ Never \notin Nat
  BY SchedulerAssumption DEF Source, Never
<1>a. TypeOK /\ deadline["dma"] \in Nat \cup {Never}
  BY <1>0 DEF TypeOK
<1>1. CASE BeginFrame
  <2>1. edge' \in Nat /\ edge' >= edge /\ frame' \in 0..MaxFrames
    BY <1>1, <1>a, SchedulerAssumption DEF BeginFrame, TypeOK
  <2>2. QED
    BY <1>1, <2>1 DEF BeginFrame, TypeOK
<1>2. CASE SaveAndRestore
  <2>1. /\ deadline' \in [Source -> Nat \cup {Never}]
        /\ deadline["dma"] # Never => deadline'["dma"] # Never
    BY <1>2, <1>0 DEF SaveAndRestore, TypeOK, Greatest
  <2>2. QED
    BY <1>2, <2>1 DEF SaveAndRestore, TypeOK
<1>3. CASE BeginLine
  <2>1. deadline' \in [Source -> Nat \cup {Never}] /\ deadline'["dma"] = deadline["dma"]
    BY <1>3, <1>0, <1>a, Rescheduled DEF BeginLine, TypeOK
  <2>2. timers' \in Nat /\ edge' \in Nat /\ timers' <= edge'
    BY <1>3, SchedulerAssumption DEF BeginLine, SyncTimers, Greatest, Least, TypeOK
  <2>3. QED
    BY <1>3, <2>1, <2>2 DEF BeginLine, TypeOK
<1>4. CASE EndLine
  <2>1. deadline' \in [Source -> Nat \cup {Never}] /\ deadline'["dma"] = deadline["dma"]
    BY <1>4, <1>0, <1>a, Rescheduled DEF EndLine, TypeOK
  <2>2. timers' \in Nat /\ timers' <= edge'
    BY <1>4 DEF EndLine, SyncTimers, Greatest, Least, TypeOK
  <2>3. QED
    BY <1>4, <2>1, <2>2 DEF EndLine, TypeOK
<1>5. CASE SyncSound
  <2>1. PICK moved \in SUBSET Device : Reschedule(moved, clock, deadline["dma"])
    BY <1>5, <1>0, SchedulerAssumption DEF SyncSound, SpuMoves
  <2>2. deadline' \in [Source -> Nat \cup {Never}] /\ deadline'["dma"] = deadline["dma"]
    BY <2>1, <1>0, <1>a, Rescheduled DEF TypeOK
  <2>3. line' \in 0 .. Lines - 1
    BY <1>5, SchedulerAssumption DEF SyncSound, TypeOK
  <2>4. at' \in {"between", "edge"} /\ runEnd' \in Nat
    BY <1>5, <1>a DEF SyncSound, TypeOK
  <2>5. request' \in BOOLEAN /\ (silent' <=> (silent \/ request' # request))
    BY <1>5, <1>a, Zenon DEF SyncSound, TypeOK
  <2>6. silent' \in BOOLEAN
    BY <1>5, Zenon DEF SyncSound
  <2>7. QED
    BY <1>5, <2>2, <2>3, <2>4, <2>5, <2>6 DEF SyncSound, TypeOK
<1>6. QED
  BY <1>1, <1>2, <1>3, <1>4, <1>5

(* Firing what is due leaves no device due. *)
LEMMA FireStep == IInv /\ FireDevices => IInv'
<1> SUFFICES ASSUME IInv, FireDevices PROVE IInv'
  OBVIOUS
<1> DEFINE target  == Least(clock, edge)
           due     == {d \in Device : IsDue(d, target)}
           moved   == due \cup {d \in {"watch"} : "spu" \in due}
           noticed == (due \cap Feeder) \ {d \in {"spu"} : "watch" \in due}
           dma     == IF noticed # {} THEN ServiceBy(target) ELSE deadline["dma"]
<1>0. "dma" \notin Device /\ "dma" \in Source /\ Never \notin Nat /\ TypeOK
  BY SchedulerAssumption DEF IInv, Source, Never
<1>1. target \in Nat /\ target <= edge
  BY <1>0 DEF TypeOK, Least
<1>2. waiting' = waiting /\ at' = "service" /\ clock' = clock /\ edge' = edge
  BY DEF FireDevices
<1>3. dma \in Nat \cup {Never} /\ (noticed # {} /\ waiting => dma # Never)
  BY <1>0, <1>1, <1>2, ServiceByArmed DEF TypeOK
<1>4. Reschedule(moved, target, dma) /\ moved \subseteq Device
  BY SchedulerAssumption DEF FireDevices
<1> HIDE DEF target, dma, moved, noticed
<1>5. /\ deadline' \in [Source -> Nat \cup {Never}]
      /\ deadline'["dma"] = dma
      /\ \A d \in Device \ moved : deadline'[d] = deadline[d]
      /\ \A d \in moved : deadline'[d] = Never \/ deadline'[d] > target
  BY <1>0, <1>1, <1>3, <1>4, Rescheduled
<1>6. \A d \in Device : deadline'[d] = Never \/ deadline'[d] > target
  <2>1. \A d \in Device \ moved : deadline[d] = Never \/ deadline[d] > target
    BY <1>0, <1>1 DEF moved, IsDue, TypeOK, Source, Never
  <2>2. QED
    BY <2>1, <1>5
<1>7. Served'
  BY <1>2, <1>6 DEF Served, NotDue, target, Least
<1>8. timers' \in Nat /\ timers' <= edge
  BY <1>0, <1>1 DEF FireDevices, SyncTimers, Greatest, Least, TypeOK, IInv, TimersWithin
<1>9. request' \in BOOLEAN /\ silent' \in BOOLEAN /\ boundary' \in BOOLEAN /\ stalled' \in BOOLEAN
  BY <1>0, Zenon DEF FireDevices, TypeOK
<1>10. TypeOK'
  BY <1>0, <1>2, <1>5, <1>8, <1>9 DEF FireDevices, TypeOK
<1>11. Told'
  <2>1. CASE noticed # {}
    BY <2>1, <1>2, <1>3, <1>5 DEF Told
  <2>2. CASE noticed = {}
    <3>1. (silent' <=> (silent \/ request' # request)) /\ dma = deadline["dma"]
      BY <2>2, <1>0, Zenon DEF FireDevices, noticed, dma, target, TypeOK
    <3>2. QED
      BY <3>1, <1>2, <1>5 DEF Told, IInv
  <2>3. QED
    BY <2>1, <2>2
<1>12. QED
  BY <1>2, <1>7, <1>8, <1>10, <1>11 DEF FireDevices, IInv, TimersWithin, Planned, Consumed, SliceBounded

(* A DMA service that moves nothing leaves nothing due, and one that moves *)
(* data leaves a stall behind.                                             *)
LEMMA ServiceStep == IInv /\ (ServiceNone \/ ServiceTransfer) => IInv'
<1> SUFFICES ASSUME IInv, ServiceNone \/ ServiceTransfer PROVE IInv'
  OBVIOUS
<1> DEFINE target == Least(clock, edge)
           due    == {d \in Drive : IsDue(d, clock)}
<1>0. /\ "dma" \notin Device /\ "dma" \in Source /\ Never \notin Nat /\ TypeOK
      /\ Feeder \cup {"watch"} \subseteq Device /\ Drive \subseteq Device
      /\ Never \in Nat \cup {Never} /\ deadline["dma"] \in Nat \cup {Never}
  BY SchedulerAssumption DEF IInv, Source, Never, TypeOK
<1>1. target \in Nat /\ target <= clock
  BY <1>0 DEF TypeOK, Least
<1> HIDE DEF target
<1>2. CASE ServiceNone
  <2>1. CASE IsDue("dma", target)
    <3>1. Reschedule(due, clock, Never) /\ ~(waiting /\ request') /\ request' \in BOOLEAN
      BY <1>2, <2>1, <1>0 DEF ServiceNone, target, TypeOK
    <3>2. due \subseteq Device /\ clock \in Nat
      BY <1>0 DEF TypeOK
    <3>3. /\ deadline' \in [Source -> Nat \cup {Never}]
          /\ deadline'["dma"] = Never
          /\ \A d \in Device \ due : deadline'[d] = deadline[d]
          /\ \A d \in due : deadline'[d] = Never \/ deadline'[d] > clock
      BY <1>0, <3>1, <3>2, Rescheduled
    <3>4. \A d \in Device : deadline'[d] = Never \/ deadline'[d] > target
      <4>1. \A d \in Device : deadline[d] = Never \/ deadline[d] > target
        BY <1>2 DEF IInv, Served, NotDue, ServiceNone, target
      <4>2. \A d \in Device : deadline'[d] \in Nat \cup {Never}
        BY <3>3 DEF Source
      <4>3. QED
        BY <4>1, <4>2, <3>3, <1>1, <3>2 DEF Never
    <3>5. Planned'
      BY <1>2, <3>3, <3>4 DEF ServiceNone, Planned, NotDue, Source, target, Least
    <3>6. QED
      BY <1>2, <3>1, <3>3, <3>5, <1>0
      DEF ServiceNone, IInv, TypeOK, TimersWithin, Served, Consumed, SliceBounded, Told
  <2>2. CASE ~IsDue("dma", target)
    <3>1. request' = request /\ deadline' = deadline
      BY <1>2, <2>2 DEF ServiceNone, target
    <3>2. \A s \in Source : deadline[s] = Never \/ deadline[s] > target
      <4>1. \A d \in Device : deadline[d] = Never \/ deadline[d] > target
        BY <1>2 DEF IInv, Served, NotDue, ServiceNone, target
      <4>2. deadline["dma"] = Never \/ deadline["dma"] > target
        BY <2>2, <1>0, <1>1 DEF IsDue, TypeOK, Never
      <4>3. QED
        BY <4>1, <4>2 DEF Source
    <3>3. Planned'
      BY <1>2, <3>1, <3>2 DEF ServiceNone, Planned, NotDue, target, Least
    <3>4. QED
      BY <1>2, <3>1, <3>3, <1>0
      DEF ServiceNone, IInv, TypeOK, TimersWithin, Served, Consumed, SliceBounded, Told
  <2>3. QED
    BY <2>1, <2>2
<1>3. CASE ServiceTransfer
  <2>1. clock' \in Nat /\ clock' + Gap \in Nat
    BY <1>3, <1>0, SchedulerAssumption DEF ServiceTransfer, TypeOK
  <2> DEFINE dma == IF waiting' THEN clock' + Gap ELSE Never
  <2>2. dma \in Nat \cup {Never} /\ (waiting' => dma # Never)
    BY <2>1, <1>0
  <2>3. PICK devices \in {Drive, Feeder \cup {"watch"}} : Reschedule(devices, clock, dma)
    BY <1>3 DEF ServiceTransfer
  <2> HIDE DEF dma
  <2>4. deadline' \in [Source -> Nat \cup {Never}] /\ deadline'["dma"] = dma
    BY <2>2, <2>3, <1>0, Rescheduled DEF TypeOK
  <2>5. /\ waiting' \in BOOLEAN /\ request' \in BOOLEAN
        /\ stalled' \in BOOLEAN /\ stalled' /\ silent' \in BOOLEAN
    BY <1>3, Zenon DEF ServiceTransfer
  <2>6. QED
    BY <1>3, <2>1, <2>2, <2>4, <2>5, <1>0
    DEF ServiceTransfer, IInv, TypeOK, TimersWithin, Served, Planned, Consumed, SliceBounded, Told
<1>4. QED
  BY <1>2, <1>3

(* The slice that is planned ends no later than any deadline. *)
LEMMA PlanStep == IInv /\ PlanSlice => IInv'
<1> SUFFICES ASSUME IInv, PlanSlice PROVE IInv'
  OBVIOUS
<1>0. TypeOK /\ Never \notin Nat /\ at = "plan" /\ boundary' = boundary
  BY DEF IInv, Never, PlanSlice
<1>1. CASE clock >= edge
  BY <1>0, <1>1 DEF PlanSlice, IInv, TypeOK, TimersWithin, Served, Planned, Consumed, SliceBounded, Told
<1>2. CASE ~(clock >= edge)
  <2>1. PICK end \in ({edge} \cup {deadline[s] : s \in Source}) \ {Never} :
          /\ \A s \in Source : deadline[s] # Never => end <= deadline[s]
          /\ end <= edge
          /\ runEnd' = Greatest(end, clock + 1)
    BY <1>2 DEF PlanSlice
  <2>2. end \in Nat
    BY <2>1, <1>0 DEF TypeOK
  <2>3. runEnd' \in Nat /\ clock < runEnd' /\ runEnd' <= edge
    BY <2>1, <2>2, <1>0, <1>2 DEF Greatest, TypeOK
  <2>4. \/ \A s \in Source : deadline[s] = Never \/ deadline[s] > runEnd' - 1
        \/ stalled /\ runEnd' = clock + 1
    <3>1. CASE stalled /\ end <= clock
      BY <3>1, <2>1, <2>2, <1>0 DEF Greatest, TypeOK
    <3>2. CASE end > clock
      <4>1. runEnd' = end
        BY <3>2, <2>1, <2>2, <1>0 DEF Greatest, TypeOK
      <4>2. QED
        BY <4>1, <2>1, <2>2, <1>0 DEF TypeOK
    <3>3. CASE ~stalled
      <4>1. \A s \in Source : deadline[s] = Never \/ deadline[s] > clock
        BY <3>3, <1>0, <1>2 DEF IInv, Planned, NotDue, Least, TypeOK
      <4>2. end > clock
        BY <4>1, <2>1, <2>2, <1>0, <1>2 DEF TypeOK
      <4>3. QED
        BY <4>2, <3>2
    <3>4. QED
      BY <3>1, <3>2, <3>3, <2>2, <1>0 DEF TypeOK
  <2>5. boundary = FALSE
    BY <1>0 DEF IInv, Consumed
  <2>6. QED
    BY <1>0, <1>2, <2>3, <2>4, <2>5
    DEF PlanSlice, IInv, TypeOK, TimersWithin, Served, Planned, Consumed, SliceBounded, Told, NotDue
<1>3. QED
  BY <1>1, <1>2

(* The event of s, if it comes, comes no earlier than it was to. *)
PutOff(s) ==
  \/ deadline'[s] = Never
  \/ deadline[s] # Never /\ deadline'[s] >= deadline[s]

LEMMA Unmoved == TypeOK /\ deadline' = deadline => \A s \in Source : PutOff(s)
BY DEF PutOff, TypeOK, Never

(* An instruction that keeps the slice open has seen no deadline in it.    *)
LEMMA RetireKeepsSlice ==
  ASSUME IInv, at = "slice", NEW cycles \in Nat \ {0}, Retire(cycles),
         boundary' \in BOOLEAN, deadline' \in [Source -> Nat \cup {Never}],
         clock' < runEnd /\ ~boundary' =>
           \/ \A s \in Source : PutOff(s)
           \/ \A s \in Source : deadline'[s] = Never \/ deadline'[s] >= runEnd
  PROVE  /\ clock' \in Nat /\ at' \in {"serve", "slice"} /\ stalled' = FALSE
         /\ SliceBounded'
<1>0. TypeOK /\ clock < runEnd /\ runEnd <= edge
  BY DEF IInv, SliceBounded
<1>1. /\ clock' = clock + cycles /\ stalled' = FALSE /\ edge' = edge /\ runEnd' = runEnd
      /\ at' = IF clock' >= runEnd \/ boundary' THEN "serve" ELSE "slice"
  BY DEF Retire
<1>2. clock' \in Nat /\ clock' > clock
  BY <1>0, <1>1 DEF TypeOK
<1>3. CASE at' = "slice"
  <2>1. ~boundary' /\ clock' < runEnd
    BY <1>0, <1>1, <1>2, <1>3 DEF TypeOK
  <2>2. \A s \in Source : deadline[s] = Never \/ deadline[s] > runEnd - 1
    BY <1>0, <1>1, <1>2, <2>1 DEF IInv, SliceBounded, NotDue, TypeOK
  <2>3. \A s \in Source : deadline'[s] = Never \/ deadline'[s] > runEnd - 1
    <3>1. CASE \A s \in Source : PutOff(s)
      BY <2>2, <3>1, <1>0 DEF PutOff, TypeOK, Never
    <3>2. CASE \A s \in Source : deadline'[s] = Never \/ deadline'[s] >= runEnd
      BY <3>2, <1>0 DEF TypeOK, Never
    <3>3. \/ \A s \in Source : PutOff(s)
          \/ \A s \in Source : deadline'[s] = Never \/ deadline'[s] >= runEnd
      BY <2>1
    <3>4. QED
      BY <3>1, <3>2, <3>3
  <2>4. boundary' = FALSE
    BY <2>1, Zenon
  <2>5. QED
    BY <1>0, <1>1, <1>2, <1>3, <2>1, <2>3, <2>4 DEF SliceBounded, NotDue
<1>4. CASE at' # "slice"
  BY <1>1, <1>2, <1>4 DEF SliceBounded
<1>5. QED
  BY <1>3, <1>4

(* In a slice no device is due, or the slice is one late instruction.      *)
LEMMA InstructionStep == IInv /\ Instruction => IInv'
<1> SUFFICES ASSUME IInv, Instruction PROVE IInv'
  OBVIOUS
<1>0. /\ "dma" \notin Device /\ "dma" \in Source /\ Never \notin Nat /\ TypeOK
      /\ Feeder \cup {"watch"} \subseteq Device /\ Drive \subseteq Device
      /\ {"spu", "watch"} \subseteq Device
      /\ deadline["dma"] \in Nat \cup {Never} /\ at = "slice"
      /\ clock \in Nat /\ clock < runEnd /\ runEnd <= edge
      /\ MaxCost \in Nat /\ MaxStall \in Nat
  BY SchedulerAssumption DEF IInv, Source, Never, TypeOK, SliceBounded, Instruction
<1>1. SUFFICES ASSUME NEW cycles \in Nat \ {0}, Retire(cycles),
                      waiting' \in BOOLEAN, request' \in BOOLEAN, silent' \in BOOLEAN,
                      boundary' \in BOOLEAN,
                      timers' = timers \/ SyncTimers(clock),
                      deadline' \in [Source -> Nat \cup {Never}],
                      clock' < runEnd /\ ~boundary' =>
                        \/ \A s \in Source : PutOff(s)
                        \/ \A s \in Source : deadline'[s] = Never \/ deadline'[s] >= runEnd,
                      Told'
               PROVE IInv'
  <2>1. CASE Compute
    <3>1. PICK cycles \in 1..MaxCost : Retire(cycles)
      BY <2>1 DEF Compute
    <3>2. cycles \in Nat \ {0}
      BY <1>0
    <3>3. Told'
      BY <2>1 DEF Compute, IInv, Told
    <3>4. \A s \in Source : PutOff(s)
      BY <2>1, <1>0, Unmoved DEF Compute
    <3>5. QED
      BY <2>1, <1>0, <3>1, <3>2, <3>3, <3>4, <1>1 DEF Compute, TypeOK
  <2>2. ASSUME NEW d \in Device, Read(d) PROVE IInv'
    <3> DEFINE moved == IF d = "spu" THEN SpuMoves(clock) ELSE {e \in {d} : IsDue(e, clock)}
    <3>1. PICK cycles \in 1..MaxCost : Retire(cycles)
      BY <2>2 DEF Read
    <3>2. cycles \in Nat \ {0}
      BY <1>0
    <3>3. Reschedule(moved, clock, deadline["dma"]) /\ WatchPutOff
      BY <2>2 DEF Read
    <3>a. moved \subseteq Device /\ \A e \in moved \ {"watch"} : IsDue(e, clock)
      BY <1>0 DEF SpuMoves
    <3> HIDE DEF moved
    <3>4. /\ deadline' \in [Source -> Nat \cup {Never}]
          /\ deadline'["dma"] = deadline["dma"]
          /\ \A e \in Device \ moved : deadline'[e] = deadline[e]
          /\ \A e \in moved : deadline'[e] = Never \/ deadline'[e] > clock
      BY <3>3, <3>a, <1>0, Rescheduled
    <3>5. /\ request' \in BOOLEAN /\ (silent' <=> (silent \/ request' # request))
          /\ waiting' = waiting /\ boundary' = boundary
      BY <2>2, <1>0, Zenon DEF Read, TypeOK
    <3>6. silent' \in BOOLEAN
      BY <2>2, Zenon DEF Read
    <3>7. Told'
      BY <3>4, <3>5 DEF IInv, Told
    <3>8. timers' = timers \/ SyncTimers(clock)
      BY <2>2 DEF Read, SyncOnAccess
    <3>9. \A s \in Source : PutOff(s)
      <4> SUFFICES ASSUME NEW s \in Source PROVE PutOff(s)
        OBVIOUS
      <4>1. deadline[s] \in Nat \cup {Never} /\ deadline'[s] \in Nat \cup {Never}
        BY <3>4, <1>0 DEF TypeOK
      <4>2. CASE s = "watch"
        BY <4>2, <3>3 DEF PutOff, WatchPutOff
      <4>3. CASE s # "watch" /\ s \in moved
        BY <4>1, <4>3, <3>a, <3>4, <1>0 DEF PutOff, IsDue, Never
      <4>4. CASE s \notin moved
        <5>1. deadline'[s] = deadline[s]
          BY <4>4, <3>4 DEF Source
        <5>2. QED
          BY <4>1, <5>1 DEF PutOff, Never
      <4>5. QED
        BY <4>2, <4>3, <4>4
    <3>10. waiting' \in BOOLEAN /\ boundary' \in BOOLEAN
      BY <3>5, <1>0 DEF TypeOK
    <3>11. QED
      BY <3>1, <3>2, <3>4, <3>5, <3>6, <3>7, <3>8, <3>9, <3>10, <1>1
  <2>3. ASSUME NEW d \in Device, Write(d) PROVE IInv'
    <3>1. PICK cycles \in 1..MaxCost : Retire(cycles)
      BY <2>3 DEF Write
    <3>2. cycles \in Nat \ {0}
      BY <1>0
    <3>3. PICK D \in SUBSET Device : Reschedule(D, clock, ServiceBy(clock))
      <4>1. CASE d = "spu"
        <5>1. Reschedule({"spu", "watch"}, clock, ServiceBy(clock))
          BY <2>3, <4>1 DEF Write
        <5>2. QED
          BY <5>1, <1>0
      <4>2. CASE d # "spu"
        <5>1. Reschedule({d}, clock, ServiceBy(clock))
          BY <2>3, <4>2 DEF Write
        <5>2. QED
          BY <5>1
      <4>3. QED
        BY <4>1, <4>2
    <3>4. /\ deadline' \in [Source -> Nat \cup {Never}]
          /\ deadline'["dma"] = ServiceBy(clock)
      BY <3>3, <1>0, Rescheduled, ServiceByArmed
    <3>5. Told'
      BY <3>4, <1>0, ServiceByArmed DEF Told
    <3>6. /\ request' \in BOOLEAN /\ silent' \in BOOLEAN /\ boundary' \in BOOLEAN
          /\ waiting' \in BOOLEAN
      BY <2>3, <1>0, Zenon DEF Write, NoteChange, TypeOK
    <3>7. timers' = timers \/ SyncTimers(clock)
      BY <2>3 DEF Write, SyncOnAccess
    <3>8. ~boundary' => \A s \in Source : deadline'[s] = Never \/ deadline'[s] >= runEnd
      <4>1. ~boundary' => \A s \in Source : ~(deadline'[s] # Never /\ deadline'[s] < runEnd)
        BY <2>3, Zenon DEF Write, NoteChange
      <4>2. runEnd \in Nat
        BY <1>0 DEF TypeOK
      <4>3. QED
        BY <4>1, <4>2, <3>4 DEF Never
    <3>9. QED
      BY <3>1, <3>2, <3>4, <3>5, <3>6, <3>7, <3>8, <1>1, Zenon
  <2>4. CASE WriteDma
    <3>1. PICK c \in 1..MaxCost, stall \in 0..MaxStall : Retire(c + stall)
      BY <2>4 DEF WriteDma
    <3>2. c + stall \in Nat \ {0}
      BY <1>0
    <3>3. PICK devices \in {Drive, Feeder \cup {"watch"}} :
            Reschedule(devices, clock, ServiceBy(clock))
      BY <2>4 DEF WriteDma
    <3>4. /\ deadline' \in [Source -> Nat \cup {Never}]
          /\ deadline'["dma"] = ServiceBy(clock)
      BY <3>3, <1>0, Rescheduled, ServiceByArmed
    <3>5. Told'
      BY <3>4, <1>0, ServiceByArmed DEF Told
    <3>6. /\ request' \in BOOLEAN /\ silent' \in BOOLEAN /\ boundary' \in BOOLEAN
          /\ waiting' \in BOOLEAN
      BY <2>4, Zenon DEF WriteDma, NoteChange
    <3>7. timers' = timers
      BY <2>4 DEF WriteDma
    <3>8. ~boundary' => \A s \in Source : deadline'[s] = Never \/ deadline'[s] >= runEnd
      <4>1. ~boundary' => \A s \in Source : ~(deadline'[s] # Never /\ deadline'[s] < runEnd)
        BY <2>4, Zenon DEF WriteDma, NoteChange
      <4>2. runEnd \in Nat
        BY <1>0 DEF TypeOK
      <4>3. QED
        BY <4>1, <4>2, <3>4 DEF Never
    <3>9. QED
      BY <3>1, <3>2, <3>4, <3>5, <3>6, <3>7, <3>8, <1>1, Zenon
  <2>5. CASE WriteGpu
    <3>1. PICK cycles \in 1..MaxCost : Retire(cycles)
      BY <2>5 DEF WriteGpu
    <3>2. cycles \in Nat \ {0}
      BY <1>0
    <3>3. /\ request' \in BOOLEAN /\ (silent' <=> (silent \/ request' # request))
          /\ waiting' = waiting /\ boundary' = boundary /\ deadline' = deadline
          /\ timers' = timers
      BY <2>5, Zenon DEF WriteGpu
    <3>4. silent' \in BOOLEAN
      BY <2>5, Zenon DEF WriteGpu
    <3>5. Told'
      BY <3>3 DEF IInv, Told
    <3>6. \A s \in Source : PutOff(s)
      BY <3>3, <1>0, Unmoved
    <3>7. QED
      BY <3>1, <3>2, <3>3, <3>4, <3>5, <3>6, <1>0, <1>1 DEF TypeOK
  <2>6. QED
    BY <2>1, <2>2, <2>3, <2>4, <2>5 DEF Instruction
<1>2. /\ clock' \in Nat /\ at' \in {"serve", "slice"} /\ stalled' = FALSE
      /\ SliceBounded'
  BY <1>0, <1>1, RetireKeepsSlice
<1>3. timers' \in Nat /\ timers' <= edge' /\ edge' = edge /\ line' = line /\ frame' = frame /\ runEnd' = runEnd
  BY <1>0, <1>1 DEF Retire, SyncTimers, Greatest, Least, IInv, TypeOK, TimersWithin
<1>4. stalled' \in BOOLEAN
  BY <1>2, Zenon
<1>5. QED
  BY <1>0, <1>1, <1>2, <1>3, <1>4 DEF IInv, TypeOK, TimersWithin, Served, Planned, Consumed

LEMMA Inductive == IInv /\ [Next]_vars => IInv'
<1> SUFFICES ASSUME IInv, [Next]_vars PROVE IInv'
  OBVIOUS
<1>1. CASE Next
  BY <1>1, EdgeStep, FireStep, ServiceStep, PlanStep, InstructionStep DEF Next
<1>2. CASE UNCHANGED vars
  BY <1>2 DEF vars, IInv, TypeOK, TimersWithin, Served, Planned, Consumed, SliceBounded, Told, NotDue
<1>3. QED
  BY <1>1, <1>2

LEMMA Invariance == Spec => []IInv
BY InitIInv, Inductive, PTL DEF Spec

(* Every variable keeps its type, for every length of run. *)
THEOREM TypeCorrect == Spec => []TypeOK
<1>1. IInv => TypeOK
  BY DEF IInv
<1>2. QED
  BY <1>1, Invariance, PTL

(* run_frame() starts an instruction after an unapplied event only behind  *)
(* a DMA stall, and then exactly one.                                      *)
THEOREM LateInstructionBound == Spec => []LateOnlyAfterStall
<1>1. IInv => LateOnlyAfterStall
  <2> SUFFICES ASSUME IInv, at = "slice", IsLate PROVE stalled /\ runEnd = clock + 1
    BY DEF LateOnlyAfterStall
  <2>1. PICK s \in Source : IsDue(s, clock)
    BY DEF IsLate
  <2>2. clock \in Nat /\ runEnd \in Nat /\ clock < runEnd /\ deadline[s] \in Nat \cup {Never}
    BY DEF IInv, TypeOK, SliceBounded
  <2>3. QED
    BY <2>1, <2>2 DEF IInv, SliceBounded, NotDue, IsDue, Never
<1>2. QED
  BY <1>1, Invariance, PTL

(* A waiting channel whose request is up has a service to come, unless the *)
(* request last moved at one of the places that do not tell the scheduler. *)
THEOREM RequestNotForgotten == Spec => []RequestServedIfTold
<1>1. IInv => RequestServedIfTold
  BY DEF IInv, Told, RequestServedIfTold
<1>2. QED
  BY <1>1, Invariance, PTL

(* Edges and accesses find the timers exactly at their cycle. *)
THEOREM TimersAtTheirCycle == Spec => TimersExact
<1> DEFINE Exact == /\ at \in {"edge", "hblank"} /\ at' # at => timers' = edge
                    /\ at = "slice" /\ timers' # timers => timers' = clock
<1>1. IInv /\ [Next]_vars => [Exact]_vars
  <2> SUFFICES ASSUME IInv, Next PROVE Exact
    OBVIOUS
  <2>1. timers \in Nat /\ edge \in Nat /\ clock \in Nat /\ timers <= edge
    BY DEF IInv, TypeOK, TimersWithin
  <2>2. CASE at = "edge" \/ at = "hblank"
    BY <2>1, <2>2 DEF Next, BeginFrame, SaveAndRestore, BeginLine, FireDevices, ServiceNone,
       ServiceTransfer, PlanSlice, Instruction, EndLine, SyncSound, SyncTimers, Greatest, Least
  <2>3. CASE at = "slice"
    <3>1. clock < edge
      BY <2>1, <2>3 DEF IInv, SliceBounded, TypeOK
    <3>2. Instruction
      BY <2>3 DEF Next, BeginFrame, SaveAndRestore, BeginLine, FireDevices, ServiceNone,
         ServiceTransfer, PlanSlice, EndLine, SyncSound
    <3>3. timers' = timers \/ SyncTimers(clock)
      BY <3>2 DEF Instruction, Compute, Read, Write, WriteDma, WriteGpu, SyncOnAccess
    <3>4. QED
      BY <2>1, <2>3, <3>1, <3>3 DEF SyncTimers, Greatest, Least
  <2>4. QED
    BY <2>2, <2>3
<1>2. QED
  BY <1>1, Invariance, PTL DEF Spec, TimersExact

-----------------------------------------------------------------------------
(***************************************************************************)
(* The CD-ROM controller.                                                  *)
(*                                                                         *)
(* The model is made of functions on the controller, so the proof is too:  *)
(* a lemma for each says what it keeps of Holds(c, n), the invariant of a  *)
(* controller c that was given n commands, and the lemma of an action      *)
(* chains those of the functions it calls.  The invariant says             *)
(*   Sound    what the interrupts up, waiting and queued say of the        *)
(*            sectors in the buffer and in the queue;                      *)
(*   Settled  a data-ready interrupt waits only for another interrupt or   *)
(*            for the command to end;                                      *)
(*   Owed     the queue holds the first answers not heard, in their order; *)
(*   Ordered  the queue is in the order of the disc, behind the sector     *)
(*            shown, unless one went past it;                              *)
(*   Place    the drive is ahead of every sector it has read.              *)
(* EnqueueDataIrq, an acknowledgement and the end of a command break       *)
(* Settled, and the ServicePendingIrq that follows in the same action      *)
(* restores it: Nearly is what holds in between.                           *)
(***************************************************************************)

(* What the proofs know of the controller: it is a record of these fields. *)
Fields ==
  {"flag", "unread", "irqs", "async", "second", "busy", "since", "redeliver",
   "data", "index", "header", "request", "queue", "state", "begin", "startup",
   "timer", "lba", "target", "xa", "whole", "heard", "told", "shown", "found",
   "late", "over"}

Sector == [lba : 0..LastLba, size : Nat]
Irqs == {1, 2, 3, 5}
Entry == [irq : Irqs, wait : BOOLEAN, of : Nat]

Types(c) ==
  /\ c = [f \in Fields |-> c[f]]
  /\ c.flag \in {0, 1, 2, 3, 5} /\ c.busy \in Nat /\ c.irqs \in Seq(Entry)
  /\ c.async = None \/ c.async \in [allow : BOOLEAN, delay : 1..Retry]
  /\ c.second = None \/ c.second \in [irq : {2}, delay : Int]
  /\ c.queue \in Seq(Sector)
  /\ c.heard \in Nat /\ c.shown \in Int /\ c.shown >= -1 /\ c.lba \in 0..LastLba
  /\ c.target = None \/ c.target \in 0..LastLba

(* At most one data-ready interrupt, and for a sector of this stream. *)
One(c) ==
  /\ \A i, j \in DOMAIN c.irqs : c.irqs[i].irq = 1 /\ c.irqs[j].irq = 1 => i = j
  /\ c.flag = 1 => c.async = None
  /\ DataReadyWaits(c) => c.async = None /\ c.flag # 1 /\ c.found
  /\ c.async # None => c.found

(* A sector in the buffer is announced, and one in the queue has an interrupt *)
(* to come that it can be taken with.                                         *)
Announced(c) ==
  c.data # None => c.told \/ c.async # None \/ DataReadyWaits(c) \/ c.late \/ c.over

QueueTells(c) ==
  c.queue # <<>> => \/ c.late \/ c.over \/ DataReadyWaits(c)
                    \/ c.async # None /\ (~c.async.allow \/ c.data = None)

Sound(c) == Types(c) /\ One(c) /\ Announced(c) /\ QueueTells(c)

(* A data-ready interrupt that waits, waits for another or for the command. *)
Settled(c) == DataReadyWaits(c) => c.flag # 0 \/ c.busy > 0

(* What the functions of the interrupts leave alone ... *)
Kept == {"second", "busy", "since", "state", "begin", "startup", "timer", "lba",
         "target", "xa", "whole", "found", "late", "over"}

(* ... and that they may take the newest sector and drop the others. *)
Sectors(c, r) ==
  \/ r.queue = c.queue /\ r.shown = c.shown
  \/ c.queue # <<>> /\ r.queue = <<>> /\ r.shown = Newest(c.queue).lba

Step(c, r) == (\A f \in Kept : r[f] = c[f]) /\ Sectors(c, r)

Quiet(c, r) == Step(c, r) /\ r.irqs = c.irqs /\ r.heard = c.heard

-----------------------------------------------------------------------------
LEMMA StepTwice ==
  ASSUME NEW c, NEW m, NEW r, Step(c, m), Step(m, r)
  PROVE  Step(c, r)
BY DEF Step, Sectors

LEMMA SameWaits ==
  ASSUME NEW c, NEW r, r.irqs = c.irqs
  PROVE  DataReadyWaits(r) = DataReadyWaits(c)
BY DEF DataReadyWaits

LEMMA Up ==
  ASSUME NEW c, Types(c), NEW irq \in Irqs, NEW of \in Nat,
         NEW r, r = FireIrq(c, irq, of)
  PROVE  /\ Types(r) /\ Step(c, r) /\ r.flag = irq /\ r.irqs = c.irqs
         /\ r.async = c.async /\ r.data = c.data /\ r.queue = c.queue /\ r.shown = c.shown
<1>1. irq \in {1, 2, 3, 5}  BY DEF Irqs
<1>2. Types(r)  BY ZenonT(30), <1>1 DEF FireIrq, Types, Fields
<1>. QED  BY ZenonT(30), <1>2 DEF FireIrq, Types, Fields, Step, Kept, Sectors

LEMMA UpTold ==
  ASSUME NEW c, Types(c), NEW irq, NEW of, NEW r, r = FireIrq(c, irq, of)
  PROVE  c.told \/ irq = 1 => r.told
BY DEF FireIrq, Types, Fields

LEMMA UpHeard ==
  ASSUME NEW c, Types(c), NEW irq, NEW of, NEW r, r = FireIrq(c, irq, of)
  PROVE  r.heard = IF of = 0 THEN c.heard ELSE of
BY DEF FireIrq, Types, Fields

(* An interrupt that is no data-ready one goes up. *)
LEMMA Fired ==
  ASSUME NEW c, Sound(c), c.flag = 0, NEW irq \in Irqs, irq # 1, NEW of \in Nat,
         NEW r, r = FireIrq(c, irq, of)
  PROVE  /\ Sound(r) /\ Step(c, r) /\ r.flag = irq /\ r.irqs = c.irqs
         /\ r.queue = c.queue /\ r.shown = c.shown
         /\ of = 0 => r.heard = c.heard
         /\ of # 0 => r.heard = of
<1>1. Types(c)  BY DEF Sound
<1>2. /\ Types(r) /\ Step(c, r) /\ r.flag = irq /\ r.irqs = c.irqs
      /\ r.async = c.async /\ r.data = c.data /\ r.queue = c.queue /\ r.shown = c.shown
  BY <1>1, Up
<1>8. c.told => r.told  BY <1>1, UpTold
<1>9. r.heard = IF of = 0 THEN c.heard ELSE of  BY <1>1, UpHeard
<1>3. r.found = c.found /\ r.late = c.late /\ r.over = c.over
  BY <1>2 DEF Step, Kept
<1>4. DataReadyWaits(r) = DataReadyWaits(c)  BY <1>2, SameWaits
<1>5. One(r)  BY <1>2, <1>3, <1>4 DEF Sound, One
<1>6. Announced(r)  BY <1>2, <1>3, <1>4, <1>8 DEF Sound, Announced
<1>7. QueueTells(r)  BY <1>2, <1>3, <1>4 DEF Sound, QueueTells
<1>10. (of = 0 => r.heard = c.heard) /\ (of # 0 => r.heard = of)  BY <1>9
<1>. QED  BY <1>2, <1>5, <1>6, <1>7, <1>10 DEF Sound

LEMMA Activated ==
  ASSUME NEW c, Types(c), NEW s \in Sector, NEW r, r = ActivateDataPayload(c, s)
  PROVE  /\ Types(r) /\ r.shown = s.lba /\ r.data = s
         /\ \A f \in Fields \ {"data", "index", "header", "told", "shown"} : r[f] = c[f]
<1>1. s.lba \in Int /\ s.lba >= -1  BY CdRomAssumption DEF Sector
<1>. QED  BY ZenonT(30), <1>1 DEF ActivateDataPayload, Types, Fields

(* A sector is taken from the queue for the guest. *)
LEMMA Popped ==
  ASSUME NEW c, Types(c), c.queue # <<>>, NEW r, r = PopQueuedSector(c)
  PROVE  /\ Types(r) /\ Step(c, r) /\ r.queue = <<>> /\ r.irqs = c.irqs
         /\ r.heard = c.heard /\ r.flag = c.flag /\ r.async = c.async /\ r.unread = c.unread
<1>. DEFINE m == [c EXCEPT !.queue = <<>>]
<1>1. Newest(c.queue) \in Sector  BY DEF Types, Newest
<1>2. m = [c EXCEPT !.queue = <<>>] /\ <<>> \in Seq(Sector)  OBVIOUS
<1>3. r = ActivateDataPayload(m, Newest(c.queue))  BY DEF PopQueuedSector
<1>. HIDE DEF m
<1>6. Types(m) /\ m.queue = <<>> /\ \A f \in Fields \ {"queue"} : m[f] = c[f]
  BY <1>2 DEF Types, Fields
<1>4. /\ Types(r) /\ r.shown = Newest(c.queue).lba
      /\ \A f \in Fields \ {"data", "index", "header", "told", "shown"} : r[f] = m[f]
  BY <1>1, <1>6, <1>3, Activated
<1>. QED
  BY <1>6, <1>4 DEF Fields, Step, Kept, Sectors

LEMMA DrainedBuffer ==
  ASSUME NEW c, Types(c), NEW r, r = Drained(c)
  PROVE  /\ Types(r) /\ Quiet(c, r) /\ r.data = None /\ r.queue = c.queue
         /\ r.flag = c.flag /\ r.async = c.async /\ r.shown = c.shown /\ r.unread = c.unread
BY ZenonT(30) DEF Drained, Types, Fields, Quiet, Step, Kept, Sectors

LEMMA Selected ==
  ASSUME NEW c, Types(c), NEW r, r = SelectLatestSector(c)
  PROVE  /\ Types(r) /\ Quiet(c, r) /\ r.flag = c.flag /\ r.async = c.async
         /\ ~ShouldDefer(c) => r.queue = <<>>
<1>. DEFINE t == IF CanDiscardUnreadSectorTail(c) THEN Drained(c) ELSE c
<1>1. CASE c.queue = <<>>
  BY <1>1 DEF SelectLatestSector, Quiet, Step, Sectors
<1>2. CASE c.queue # <<>>
  <2>1. /\ Types(t) /\ Quiet(c, t) /\ t.queue = c.queue /\ t.shown = c.shown
        /\ t.flag = c.flag /\ t.async = c.async
    BY DrainedBuffer DEF Quiet, Step, Sectors
  <2>2. ~ShouldDefer(c) => ~ShouldDefer(t)
    BY DrainedBuffer DEF ShouldDefer, HasUnreadDataBuffer
  <2>3. r = IF ShouldDefer(t) THEN t ELSE PopQueuedSector(t)
    BY <1>2 DEF SelectLatestSector
  <2>. HIDE DEF t
  <2>4. CASE ShouldDefer(t)  BY <2>1, <2>2, <2>3, <2>4
  <2>5. CASE ~ShouldDefer(t)
    <3>1. /\ Types(r) /\ Step(t, r) /\ r.queue = <<>> /\ r.irqs = t.irqs
          /\ r.heard = t.heard /\ r.flag = t.flag /\ r.async = t.async
      BY <1>2, <2>1, <2>3, <2>5, Popped
    <3>. QED  BY <2>1, <3>1, StepTwice DEF Quiet
  <2>. QED  BY <2>4, <2>5
<1>. QED  BY <1>1, <1>2

(* The data-ready interrupt may go up, or wait for its gap: a sector behind   *)
(* one that the guest has not read is then late, past the queue or not its.   *)
Pending(c, allow) ==
  /\ Types(c) /\ ~DataReadyWaits(c) /\ c.flag # 1 /\ c.found
  /\ (allow \/ (c.async # None /\ c.async.allow)) /\ c.queue # <<>> =>
       c.late \/ c.over \/ c.data = None

LEMMA FiredData ==
  ASSUME NEW c, NEW allow \in BOOLEAN, Pending(c, allow), c.async = None,
         DataIrqMayGo(c, allow), NEW r, r = FireIrq(SelectLatestSector(c), 1, 0)
  PROVE  Sound(r) /\ Quiet(c, r) /\ r.flag = 1
<1>. DEFINE m == SelectLatestSector(c)
<1>1. Types(c)  BY DEF Pending
<1>2. /\ Types(m) /\ Quiet(c, m) /\ m.flag = c.flag /\ m.async = c.async
      /\ ~ShouldDefer(c) => m.queue = <<>>
  BY <1>1, Selected
<1>3. m.queue # <<>> => m.late \/ m.over
  <2>1. m.queue # <<>> => m.queue = c.queue /\ c.queue # <<>>  BY <1>2 DEF Quiet, Step, Sectors
  <2>2. m.late = c.late /\ m.over = c.over  BY <1>2 DEF Quiet, Step, Kept
  <2>3. c.data = None => ~ShouldDefer(c)  BY DEF ShouldDefer, HasUnreadDataBuffer
  <2>4. allow \/ ~ShouldDefer(c)  BY DEF DataIrqMayGo
  <2>. QED
    <3>1. CASE allow
      <4>1. m.queue # <<>> => c.late \/ c.over \/ c.data = None
        BY <2>1, <3>1 DEF Pending
      <4>. QED  BY <1>2, <2>2, <2>3, <4>1
    <3>2. CASE ~allow  BY <1>2, <2>4, <3>2
    <3>. QED  BY <3>1, <3>2
<1>4. r = FireIrq(m, 1, 0)  OBVIOUS
<1>. HIDE DEF m
<1>5. /\ Types(r) /\ r.flag = 1 /\ r.irqs = m.irqs /\ r.heard = m.heard
      /\ r.told /\ r.async = m.async /\ r.queue = m.queue /\ Step(m, r)
  <2>1. 1 \in Irqs /\ 0 \in Nat  BY DEF Irqs
  <2>2. /\ Types(r) /\ r.flag = 1 /\ r.irqs = m.irqs /\ r.async = m.async
        /\ r.queue = m.queue /\ Step(m, r)
    BY <1>2, <1>4, <2>1, Up
  <2>3. r.heard = m.heard  BY <1>2, <1>4, UpHeard
  <2>4. r.told  BY <1>2, <1>4, UpTold
  <2>. QED  BY <2>2, <2>3, <2>4
<1>6. Quiet(c, r)  BY <1>2, <1>5, StepTwice DEF Quiet
<1>7. ~DataReadyWaits(r)  BY <1>6, SameWaits DEF Quiet, Pending
<1>8. One(r)
  <2>1. r.async = None  BY <1>2, <1>5
  <2>2. \A i \in DOMAIN r.irqs : r.irqs[i].irq # 1  BY <1>7 DEF DataReadyWaits
  <2>. QED  BY <2>1, <2>2, <1>7 DEF One
<1>9. Announced(r)
  <2>1. r.told  BY <1>5
  <2>. QED  BY <2>1 DEF Announced
<1>10. QueueTells(r)
  <2>1. r.late = m.late /\ r.over = m.over  BY <1>5 DEF Step, Kept
  <2>. QED  BY <1>3, <1>5, <2>1 DEF QueueTells
<1>. QED  BY <1>5, <1>6, <1>8, <1>9, <1>10 DEF Sound

(* The data-ready interrupt waits for its gap. *)
LEMMA WaitsForGap ==
  ASSUME NEW c, NEW allow \in BOOLEAN, Pending(c, allow), c.async = None,
         NEW r, r = [c EXCEPT !.async = [allow |-> allow, delay |-> Retry]]
  PROVE  Sound(r) /\ Quiet(c, r) /\ r.flag = c.flag
<1>1. Types(c)  BY DEF Pending
<1>2. [allow |-> allow, delay |-> Retry] \in [allow : BOOLEAN, delay : 1..Retry]
  BY CdRomAssumption
<1>3. /\ Types(r) /\ r.async = [allow |-> allow, delay |-> Retry] /\ Quiet(c, r)
      /\ r.flag = c.flag /\ r.queue = c.queue /\ r.data = c.data
  BY <1>1, <1>2 DEF Types, Fields, Quiet, Step, Kept, Sectors
<1>4. r.async # None  BY <1>2, <1>3, CdRomAssumption
<1>5. r.found = c.found /\ r.late = c.late /\ r.over = c.over  BY <1>3 DEF Quiet, Step, Kept
<1>6. ~DataReadyWaits(r)  BY <1>3, SameWaits DEF Quiet, Pending
<1>7. One(r)
  <2>1. \A i \in DOMAIN r.irqs : r.irqs[i].irq # 1  BY <1>6 DEF DataReadyWaits
  <2>. QED  BY <2>1, <1>3, <1>5, <1>6 DEF One, Pending
<1>8. Announced(r)  BY <1>4 DEF Announced
<1>9. QueueTells(r)
  <2>1. ASSUME r.queue # <<>>, r.async.allow  PROVE r.late \/ r.over \/ r.data = None
    <3>1. allow  BY <1>3, <2>1
    <3>. QED  BY <1>3, <1>5, <2>1, <3>1 DEF Pending
  <2>. QED  BY <1>3, <1>4, <2>1 DEF QueueTells
<1>. QED  BY <1>3, <1>7, <1>8, <1>9 DEF Sound

LEMMA QueuedOrDelivered ==
  ASSUME NEW c, NEW allow \in BOOLEAN, Pending(c, allow),
         NEW r, r = QueueOrDeliverAsync(c, allow)
  PROVE  Sound(r) /\ Quiet(c, r) /\ (c.flag # 0 => r.flag # 0)
<1>1. c.flag # 1  BY DEF Pending
<1>2. CASE c.async # None
  <2>1. r = [c EXCEPT !.async.allow = @ \/ allow]  BY <1>1, <1>2 DEF QueueOrDeliverAsync
  <2>2. Types(c) /\ c.async \in [allow : BOOLEAN, delay : 1..Retry]  BY <1>2 DEF Pending, Types
  <2>. DEFINE a == [c.async EXCEPT !.allow = @ \/ allow]
  <2>3. /\ a \in [allow : BOOLEAN, delay : 1..Retry]
        /\ a.allow = (c.async.allow \/ allow)
    BY <2>2
  <2>4. r = [c EXCEPT !.async = a]  BY <2>1
  <2>5. a # None
    <3>1. a = [allow |-> a.allow, delay |-> a.delay] /\ a.allow \in BOOLEAN /\ a.delay \in 1..Retry
      BY <2>3
    <3>. QED  BY <3>1, CdRomAssumption
  <2>. HIDE DEF a
  <2>12. /\ r.async = a /\ r = [f \in Fields |-> r[f]]
         /\ \A f \in Fields \ {"async"} : r[f] = c[f]
    BY <2>2, <2>4 DEF Types, Fields
  <2>13. Types(r)  BY <2>2, <2>3, <2>12 DEF Types, Fields
  <2>6. /\ Types(r) /\ r.async = a /\ Quiet(c, r)
        /\ r.flag = c.flag /\ r.queue = c.queue /\ r.data = c.data
    BY <2>12, <2>13 DEF Fields, Quiet, Step, Kept, Sectors
  <2>7. r.found = c.found /\ r.late = c.late /\ r.over = c.over  BY <2>6 DEF Quiet, Step, Kept
  <2>8. ~DataReadyWaits(r)  BY <2>6, SameWaits DEF Quiet, Pending
  <2>9. One(r)
    <3>1. \A i \in DOMAIN r.irqs : r.irqs[i].irq # 1  BY <2>8 DEF DataReadyWaits
    <3>. QED  BY <3>1, <2>6, <2>7, <2>8 DEF One, Pending
  <2>10. Announced(r)  BY <2>5, <2>6 DEF Announced
  <2>11. QueueTells(r)
    <3>1. ASSUME r.queue # <<>>, r.async.allow  PROVE r.late \/ r.over \/ r.data = None
      <4>1. c.async.allow \/ allow  BY <2>3, <2>6, <3>1
      <4>. QED  BY <1>2, <2>6, <2>7, <3>1, <4>1 DEF Pending
    <3>. QED  BY <2>5, <2>6, <3>1 DEF QueueTells
  <2>. QED  BY <2>6, <2>9, <2>10, <2>11 DEF Sound
<1>3. CASE c.async = None /\ DataIrqMayGo(c, allow)
  <2>1. r = FireIrq(SelectLatestSector(c), 1, 0)  BY <1>1, <1>3 DEF QueueOrDeliverAsync
  <2>. QED  BY <2>1, <1>3, FiredData
<1>4. CASE c.async = None /\ ~DataIrqMayGo(c, allow)
  <2>1. r = [c EXCEPT !.async = [allow |-> allow, delay |-> Retry]]
    BY <1>1, <1>4 DEF QueueOrDeliverAsync
  <2>. QED  BY <2>1, <1>4, WaitsForGap
<1>. QED  BY <1>2, <1>3, <1>4

LEMMA DelaySet ==
  ASSUME NEW c, Sound(c), c.async # None, NEW d \in 1..Retry,
         NEW r, r = [c EXCEPT !.async.delay = d]
  PROVE  Sound(r) /\ Quiet(c, r) /\ r.flag = c.flag
<1>. DEFINE a == [c.async EXCEPT !.delay = d]
<1>1. Types(c) /\ c.async \in [allow : BOOLEAN, delay : 1..Retry]  BY DEF Sound, Types
<1>2. a \in [allow : BOOLEAN, delay : 1..Retry] /\ a.allow = c.async.allow  BY <1>1
<1>3. a # None
  <2>1. a = [allow |-> a.allow, delay |-> a.delay] /\ a.allow \in BOOLEAN /\ a.delay \in 1..Retry
    BY <1>2
  <2>. QED  BY <2>1, CdRomAssumption
<1>4. r = [c EXCEPT !.async = a]  OBVIOUS
<1>. HIDE DEF a
<1>11. /\ r.async = a /\ r = [f \in Fields |-> r[f]]
       /\ \A f \in Fields \ {"async"} : r[f] = c[f]
  BY <1>1, <1>4 DEF Types, Fields
<1>12. Types(r)  BY <1>1, <1>2, <1>11 DEF Types, Fields
<1>5. /\ Types(r) /\ r.async = a /\ Quiet(c, r)
      /\ r.flag = c.flag /\ r.queue = c.queue /\ r.data = c.data /\ r.told = c.told
  BY <1>11, <1>12 DEF Fields, Quiet, Step, Kept, Sectors
<1>6. r.found = c.found /\ r.late = c.late /\ r.over = c.over /\ r.irqs = c.irqs
  BY <1>5 DEF Quiet, Step, Kept
<1>7. DataReadyWaits(r) = DataReadyWaits(c)  BY <1>6, SameWaits
<1>8. One(r)  BY <1>3, <1>5, <1>6, <1>7 DEF One, Sound
<1>9. Announced(r)  BY <1>3, <1>5 DEF Announced
<1>10. QueueTells(r)  BY <1>2, <1>3, <1>5, <1>6, <1>7 DEF QueueTells, Sound
<1>. QED  BY <1>5, <1>8, <1>9, <1>10 DEF Sound

LEMMA Delivered ==
  ASSUME NEW c, Sound(c), NEW r, r = DeliverPendingAsync(c)
  PROVE  Sound(r) /\ Quiet(c, r) /\ (c.flag # 0 => r.flag # 0)
<1>1. CASE c.async = None \/ c.flag # 0 \/ c.busy > 0
  <2>1. r = c  BY <1>1 DEF DeliverPendingAsync
  <2>. QED  BY <2>1 DEF Quiet, Step, Sectors
<1>2. CASE ~(c.async = None \/ c.flag # 0 \/ c.busy > 0) /\ DataIrqMayGo(c, c.async.allow)
  <2>. DEFINE m == [c EXCEPT !.async = None]
  <2>1. Types(c) /\ c.async \in [allow : BOOLEAN, delay : 1..Retry]  BY <1>2 DEF Sound, Types
  <2>2. c.async.allow \in BOOLEAN  BY <2>1
  <2>3. r = FireIrq(SelectLatestSector(m), 1, 0)  BY <1>2 DEF DeliverPendingAsync
  <2>4. /\ Types(m) /\ Quiet(c, m) /\ m.async = None /\ m.flag = c.flag
        /\ m.queue = c.queue /\ m.data = c.data /\ m.busy = c.busy /\ m.since = c.since
    BY <2>1 DEF Types, Fields, Quiet, Step, Kept, Sectors
  <2>5. m.whole = c.whole /\ m.index = c.index /\ m.xa = c.xa /\ m.header = c.header
    BY <2>1 DEF Types, Fields
  <2>6. m.found = c.found /\ m.late = c.late /\ m.over = c.over /\ m.irqs = c.irqs
    BY <2>4 DEF Quiet, Step, Kept
  <2>. HIDE DEF m
  <2>7. ShouldDefer(m) = ShouldDefer(c)
    BY <2>4, <2>5 DEF ShouldDefer, HasUnreadDataBuffer, CanDiscardUnreadSectorTail
  <2>8. DataIrqMayGo(m, c.async.allow)  BY <1>2, <2>4, <2>7 DEF DataIrqMayGo
  <2>9. ~DataReadyWaits(c) /\ c.found  BY <1>2 DEF Sound, One
  <2>10. ~DataReadyWaits(m)  BY <2>6, <2>9, SameWaits
  <2>11. Pending(m, c.async.allow)
    <3>1. c.async.allow /\ c.queue # <<>> => c.late \/ c.over \/ c.data = None
      BY <2>9 DEF Sound, QueueTells
    <3>. QED  BY <1>2, <2>4, <2>6, <2>9, <2>10, <3>1 DEF Pending
  <2>12. Sound(r) /\ Quiet(m, r)  BY <2>2, <2>3, <2>4, <2>8, <2>11, FiredData
  <2>. QED  BY <1>2, <2>4, <2>12, StepTwice DEF Quiet
<1>3. CASE ~(c.async = None \/ c.flag # 0 \/ c.busy > 0) /\ ~DataIrqMayGo(c, c.async.allow)
  <2>1. r = [c EXCEPT !.async.delay = Retry]  BY <1>3 DEF DeliverPendingAsync
  <2>2. Retry \in 1..Retry  BY CdRomAssumption
  <2>. QED  BY <1>3, <2>1, <2>2, DelaySet
<1>. QED  BY <1>1, <1>2, <1>3

(* An interrupt that is no data-ready one joins the queue. *)
WithIrq(c, e) == [c EXCEPT !.irqs = Append(@, e)]

LEMMA Appended ==
  ASSUME NEW c, Sound(c), NEW e \in Entry, e.irq # 1, NEW r, r = WithIrq(c, e)
  PROVE  /\ Sound(r) /\ Step(c, r) /\ r.flag = c.flag /\ r.heard = c.heard
         /\ r.queue = c.queue /\ r.shown = c.shown
         /\ r.irqs = Append(c.irqs, e)
         /\ DataReadyWaits(r) = DataReadyWaits(c)
<1>1. Types(c) /\ c.irqs \in Seq(Entry)  BY DEF Sound, Types
<1>2. e \in Entry /\ e.irq # 1  OBVIOUS
<1>3. r = [c EXCEPT !.irqs = Append(c.irqs, e)]  BY DEF WithIrq
<1>4. Append(c.irqs, e) \in Seq(Entry)  BY <1>1, <1>2
<1>5. /\ Types(r) /\ r.irqs = Append(c.irqs, e) /\ Step(c, r) /\ r.flag = c.flag
      /\ r.heard = c.heard /\ r.queue = c.queue /\ r.data = c.data /\ r.told = c.told
      /\ r.async = c.async /\ r.shown = c.shown
  <2>1. Types(r) /\ r.irqs = Append(c.irqs, e)  BY ZenonT(30), <1>1, <1>3, <1>4 DEF Types, Fields
  <2>2. \A f \in Fields \ {"irqs"} : r[f] = c[f]  BY <1>1, <1>3 DEF Types, Fields
  <2>. QED  BY <2>1, <2>2 DEF Fields, Step, Kept, Sectors
<1>6. r.found = c.found /\ r.late = c.late /\ r.over = c.over  BY <1>5 DEF Step, Kept
<1>7. \A i \in DOMAIN r.irqs : r.irqs[i].irq = 1 => i \in DOMAIN c.irqs /\ r.irqs[i] = c.irqs[i]
  BY <1>1, <1>2, <1>5
<1>8. \A i \in DOMAIN c.irqs : i \in DOMAIN r.irqs /\ r.irqs[i] = c.irqs[i]
  BY <1>1, <1>2, <1>5
<1>9. DataReadyWaits(r) = DataReadyWaits(c)  BY <1>7, <1>8 DEF DataReadyWaits
<1>10. One(r)
  <2>1. \A i, j \in DOMAIN r.irqs : r.irqs[i].irq = 1 /\ r.irqs[j].irq = 1 => i = j
    BY <1>7 DEF Sound, One
  <2>. QED  BY <1>5, <1>6, <1>9, <2>1 DEF Sound, One
<1>11. Announced(r)  BY <1>5, <1>6, <1>9 DEF Sound, Announced
<1>12. QueueTells(r)  BY <1>5, <1>6, <1>9 DEF Sound, QueueTells
<1>. QED  BY <1>5, <1>9, <1>10, <1>11, <1>12 DEF Sound

-----------------------------------------------------------------------------
(* The first answers the queue q still holds when those up to h were heard. *)
OwedIn(q, h, n) ==
  /\ h \in Nat /\ n \in Nat /\ h <= n
  /\ \A i \in DOMAIN q : q[i].of # 0 => q[i].of \in h+1..n /\ q[i].irq # 1
  /\ \A i, j \in DOMAIN q : i < j /\ q[i].of # 0 /\ q[j].of # 0 => q[i].of < q[j].of
  /\ \A k \in h+1..n : \E i \in DOMAIN q : q[i].of = k

Owed(c, n) == OwedIn(c.irqs, c.heard, n)

LEMMA OwedMore ==
  ASSUME NEW q \in Seq(Entry), NEW h, NEW n, OwedIn(q, h, n), NEW e \in Entry, e.of = 0
  PROVE  OwedIn(Append(q, e), h, n)
<1>1. /\ \A i \in DOMAIN q : i \in DOMAIN Append(q, e) /\ Append(q, e)[i] = q[i]
      /\ \A i \in DOMAIN Append(q, e) : i \in DOMAIN q \/ Append(q, e)[i] = e
  OBVIOUS
<1>. DEFINE p == Append(q, e)
<1>2. \A i \in DOMAIN p : p[i].of # 0 => i \in DOMAIN q /\ p[i] = q[i]  BY <1>1
<1>. HIDE DEF p
<1>3. \A i \in DOMAIN p : p[i].of # 0 => p[i].of \in h+1..n /\ p[i].irq # 1
  BY <1>2 DEF OwedIn
<1>4. \A i, j \in DOMAIN p : i < j /\ p[i].of # 0 /\ p[j].of # 0 => p[i].of < p[j].of
  BY <1>2 DEF OwedIn
<1>5. \A k \in h+1..n : \E i \in DOMAIN p : p[i].of = k
  BY <1>1 DEF OwedIn, p
<1>. QED  BY <1>3, <1>4, <1>5 DEF OwedIn, p

LEMMA OwedNext ==
  ASSUME NEW q \in Seq(Entry), NEW h, NEW n, OwedIn(q, h, n),
         NEW e \in Entry, e.of = n + 1, e.irq # 1
  PROVE  OwedIn(Append(q, e), h, n + 1)
<1>. DEFINE p == Append(q, e)
<1>1. /\ \A i \in DOMAIN q : i \in DOMAIN p /\ p[i] = q[i] /\ i < Len(q) + 1
      /\ \A i \in DOMAIN p : (i \in DOMAIN q /\ p[i] = q[i]) \/ (i = Len(q) + 1 /\ p[i] = e)
      /\ Len(q) + 1 \in DOMAIN p /\ p[Len(q) + 1] = e /\ Len(q) \in Nat
  OBVIOUS
<1>. HIDE DEF p
<1>2. h \in Nat /\ n \in Nat /\ h <= n  BY DEF OwedIn
<1>3. \A i \in DOMAIN p : p[i].of # 0 => p[i].of \in h+1..n+1 /\ p[i].irq # 1
  BY <1>1, <1>2 DEF OwedIn
<1>4. \A i, j \in DOMAIN p : i < j /\ p[i].of # 0 /\ p[j].of # 0 => p[i].of < p[j].of
  <2>. TAKE i, j \in DOMAIN p
  <2>. HAVE i < j /\ p[i].of # 0 /\ p[j].of # 0
  <2>1. i \in DOMAIN q /\ p[i] = q[i]
    <3>1. i = Len(q) + 1 => FALSE
      <4>1. \A k \in DOMAIN q : k \in Nat  OBVIOUS
      <4>. QED  BY <1>1, <4>1
    <3>. QED  BY <1>1, <3>1
  <2>2. CASE j \in DOMAIN q /\ p[j] = q[j]  BY <2>1, <2>2 DEF OwedIn
  <2>3. CASE p[j] = e
    <3>1. q[i].of \in h+1..n  BY <2>1 DEF OwedIn
    <3>. QED  BY <1>2, <2>1, <2>3, <3>1
  <2>. QED  BY <1>1, <2>2, <2>3
<1>5. \A k \in h+1..n+1 : \E i \in DOMAIN p : p[i].of = k
  <2>. TAKE k \in h+1..n+1
  <2>1. CASE k = n + 1  BY <1>1, <2>1
  <2>2. CASE k # n + 1
    <3>1. k \in h+1..n  BY <1>2, <2>2
    <3>. QED  BY <1>1, <3>1 DEF OwedIn
  <2>. QED  BY <2>1, <2>2
<1>6. h \in Nat /\ n + 1 \in Nat /\ h <= n + 1  BY <1>2
<1>. QED  BY <1>3, <1>4, <1>5, <1>6 DEF OwedIn, p

LEMMA OwedTail ==
  ASSUME NEW q \in Seq(Entry), q # <<>>, NEW h, NEW n, OwedIn(q, h, n)
  PROVE  OwedIn(Tail(q), IF Head(q).of = 0 THEN h ELSE Head(q).of, n)
<1>. DEFINE p == Tail(q)
           g == IF Head(q).of = 0 THEN h ELSE Head(q).of
<1>1. /\ \A i \in DOMAIN p : i + 1 \in DOMAIN q /\ p[i] = q[i + 1] /\ 1 < i + 1 /\ i \in Int
      /\ \A i \in DOMAIN q : i = 1 \/ (i - 1 \in DOMAIN p /\ p[i - 1] = q[i])
      /\ 1 \in DOMAIN q /\ Head(q) = q[1] /\ \A i \in DOMAIN q : i \in Nat /\ (i # 1 => 1 < i)
  OBVIOUS
<1>2. h \in Nat /\ n \in Nat /\ h <= n  BY DEF OwedIn
<1>3. g \in Nat /\ g <= n /\ g >= h
  BY <1>1, <1>2 DEF OwedIn
<1>4. q[1].of # 0 => q[1].of = h + 1
  <2>1. ASSUME q[1].of # 0  PROVE q[1].of = h + 1
    <3>1. q[1].of \in h+1..n  BY <1>1, <2>1 DEF OwedIn
    <3>2. PICK i \in DOMAIN q : q[i].of = h + 1  BY <1>2, <3>1 DEF OwedIn
    <3>3. i # 1 => q[1].of < q[i].of  BY <1>1, <1>2, <2>1, <3>2 DEF OwedIn
    <3>. QED  BY <1>2, <3>1, <3>2, <3>3
  <2>. QED  BY <2>1
<1>5. q[1].of # 0 => g = h + 1  BY <1>1, <1>4
<1>6. q[1].of = 0 => g = h  BY <1>1
<1>. HIDE DEF p, g
<1>7. \A i \in DOMAIN p : p[i].of # 0 => p[i].of \in g+1..n /\ p[i].irq # 1
  <2>. TAKE i \in DOMAIN p
  <2>. HAVE p[i].of # 0
  <2>1. p[i].of \in h+1..n /\ p[i].irq # 1  BY <1>1 DEF OwedIn
  <2>2. q[1].of # 0 => q[1].of < p[i].of  BY <1>1 DEF OwedIn
  <2>. QED  BY <1>2, <1>4, <1>5, <1>6, <2>1, <2>2
<1>8. \A i, j \in DOMAIN p : i < j /\ p[i].of # 0 /\ p[j].of # 0 => p[i].of < p[j].of
  <2>. TAKE i, j \in DOMAIN p
  <2>. HAVE i < j /\ p[i].of # 0 /\ p[j].of # 0
  <2>1. i + 1 < j + 1  BY <1>1
  <2>. QED  BY SMTT(20), <1>1, <2>1 DEF OwedIn
<1>9. \A k \in g+1..n : \E i \in DOMAIN p : p[i].of = k
  <2>. TAKE k \in g+1..n
  <2>1. k \in h+1..n  BY <1>2, <1>3
  <2>2. PICK i \in DOMAIN q : q[i].of = k  BY <2>1 DEF OwedIn
  <2>3. i # 1  BY <1>2, <1>3, <1>4, <1>5, <2>1, <2>2
  <2>. QED  BY <1>1, <2>2, <2>3
<1>. QED  BY <1>2, <1>3, <1>7, <1>8, <1>9 DEF OwedIn, p, g

-----------------------------------------------------------------------------
(* The head of the queue leaves it. *)
LEMMA Left ==
  ASSUME NEW c, Types(c), c.irqs # <<>>, NEW r, r = [c EXCEPT !.irqs = Tail(@)]
  PROVE  /\ Types(r) /\ Step(c, r) /\ r.irqs = Tail(c.irqs) /\ r.heard = c.heard
         /\ r.flag = c.flag /\ r.async = c.async /\ r.data = c.data
         /\ r.queue = c.queue /\ r.shown = c.shown
<1>1. Tail(c.irqs) \in Seq(Entry)  BY DEF Types
<1>2. Types(r) /\ r.irqs = Tail(c.irqs)  BY <1>1 DEF Types, Fields
<1>. QED  BY <1>2 DEF Types, Fields, Step, Kept, Sectors

LEMMA LeftTold ==
  ASSUME NEW c, Types(c), NEW r, r = [c EXCEPT !.irqs = Tail(@)]
  PROVE  r.told = c.told
BY DEF Types, Fields

LEMMA LeftSound ==
  ASSUME NEW c, Sound(c), c.irqs # <<>>, Head(c.irqs).irq # 1,
         NEW r, r = [c EXCEPT !.irqs = Tail(@)]
  PROVE  Sound(r)
<1>1. Types(c) /\ c.irqs \in Seq(Entry)  BY DEF Sound, Types
<1>2. /\ Types(r) /\ Step(c, r) /\ r.irqs = Tail(c.irqs) /\ r.flag = c.flag
      /\ r.async = c.async /\ r.data = c.data /\ r.queue = c.queue
  BY <1>1, Left
<1>3. r.told = c.told  BY <1>1, LeftTold
<1>4. r.found = c.found /\ r.late = c.late /\ r.over = c.over  BY <1>2 DEF Step, Kept
<1>5. /\ \A i \in DOMAIN r.irqs : i + 1 \in DOMAIN c.irqs /\ r.irqs[i] = c.irqs[i + 1] /\ i \in Int
      /\ \A i \in DOMAIN c.irqs : i = 1 \/ (i - 1 \in DOMAIN r.irqs /\ r.irqs[i - 1] = c.irqs[i])
      /\ c.irqs[1].irq # 1
  BY <1>1, <1>2
<1>6. DataReadyWaits(r) = DataReadyWaits(c)  BY SMTT(20), <1>5 DEF DataReadyWaits
<1>7. One(r)
  <2>1. \A i, j \in DOMAIN r.irqs : r.irqs[i].irq = 1 /\ r.irqs[j].irq = 1 => i = j
    <3>. TAKE i, j \in DOMAIN r.irqs
    <3>. HAVE r.irqs[i].irq = 1 /\ r.irqs[j].irq = 1
    <3>1. i + 1 = j + 1  BY <1>5 DEF Sound, One
    <3>. QED  BY <1>5, <3>1
  <2>. QED  BY <1>2, <1>4, <1>6, <2>1 DEF Sound, One
<1>8. Announced(r)  BY <1>2, <1>3, <1>4, <1>6 DEF Sound, Announced
<1>9. QueueTells(r)  BY <1>2, <1>4, <1>6 DEF Sound, QueueTells
<1>. QED  BY <1>2, <1>7, <1>8, <1>9 DEF Sound

LEMMA Serviced ==
  ASSUME NEW c, Sound(c), NEW n, Owed(c, n), NEW r, r = ServicePendingIrq(c)
  PROVE  Sound(r) /\ Owed(r, n) /\ Step(c, r) /\ Settled(r)
<1>. DEFINE rest == [c EXCEPT !.irqs = Tail(@)]
<1>1. Types(c) /\ c.irqs \in Seq(Entry) /\ c.busy \in Nat  BY DEF Sound, Types
<1>2. CASE c.irqs = <<>> \/ c.flag # 0 \/ (Head(c.irqs).wait /\ c.busy > 0)
  <2>1. r = c  BY <1>2 DEF ServicePendingIrq
  <2>2. Settled(c)  BY <1>2 DEF Settled, DataReadyWaits
  <2>. QED  BY <2>1, <2>2 DEF Step, Sectors
<1>3. CASE /\ ~(c.irqs = <<>> \/ c.flag # 0 \/ (Head(c.irqs).wait /\ c.busy > 0))
           /\ Head(c.irqs).irq # 1
  <2>1. r = FireIrq(rest, Head(c.irqs).irq, Head(c.irqs).of)
    BY <1>3 DEF ServicePendingIrq
  <2>2. Head(c.irqs) \in Entry  BY <1>1, <1>3
  <2>3. Head(c.irqs).irq \in Irqs /\ Head(c.irqs).of \in Nat /\ Head(c.irqs).irq # 0
    BY <1>3, <2>2 DEF Entry, Irqs
  <2>4. rest = [c EXCEPT !.irqs = Tail(@)]  OBVIOUS
  <2>. HIDE DEF rest
  <2>5. /\ Step(c, rest) /\ rest.irqs = Tail(c.irqs) /\ rest.heard = c.heard
        /\ rest.flag = c.flag
    BY <1>1, <1>3, <2>4, Left
  <2>6. Sound(rest)  BY <1>3, <2>4, LeftSound
  <2>7. /\ Sound(r) /\ Step(rest, r) /\ r.irqs = rest.irqs /\ r.flag # 0
        /\ Head(c.irqs).of = 0 => r.heard = rest.heard
        /\ Head(c.irqs).of # 0 => r.heard = Head(c.irqs).of
    BY <1>3, <2>1, <2>3, <2>5, <2>6, Fired
  <2>8. Owed(r, n)  BY <1>1, <1>3, <2>5, <2>7, OwedTail DEF Owed
  <2>. QED  BY <2>5, <2>7, <2>8, StepTwice DEF Settled
<1>4. CASE /\ ~(c.irqs = <<>> \/ c.flag # 0 \/ (Head(c.irqs).wait /\ c.busy > 0))
           /\ Head(c.irqs).irq = 1
  <2>. DEFINE no == FALSE
  <2>1. r = QueueOrDeliverAsync(rest, no)  BY <1>4 DEF ServicePendingIrq
  <2>2. rest = [c EXCEPT !.irqs = Tail(@)] /\ no \in BOOLEAN /\ ~no  OBVIOUS
  <2>. HIDE DEF rest, no
  <2>3. /\ Types(rest) /\ Step(c, rest) /\ rest.irqs = Tail(c.irqs) /\ rest.heard = c.heard
        /\ rest.flag = c.flag /\ rest.async = c.async
    BY <1>1, <1>4, <2>2, Left
  <2>4. /\ 1 \in DOMAIN c.irqs /\ c.irqs[1] = Head(c.irqs)
        /\ \A i \in DOMAIN Tail(c.irqs) : /\ i + 1 \in DOMAIN c.irqs /\ i + 1 # 1
                                         /\ Tail(c.irqs)[i] = c.irqs[i + 1]
    BY <1>1, <1>4
  <2>5. DataReadyWaits(c)  BY <1>4, <2>4 DEF DataReadyWaits
  <2>6. c.async = None /\ c.found  BY <2>5 DEF Sound, One
  <2>7. ~DataReadyWaits(rest)
    <3>1. \A i \in DOMAIN c.irqs : c.irqs[i].irq = 1 => i = 1  BY <1>4, <2>4 DEF Sound, One
    <3>. QED  BY <2>3, <2>4, <3>1 DEF DataReadyWaits
  <2>8. rest.found = c.found  BY <2>3 DEF Step, Kept
  <2>9. Pending(rest, no)  BY <1>4, <2>2, <2>3, <2>6, <2>7, <2>8 DEF Pending
  <2>10. Sound(r) /\ Quiet(rest, r)  BY <2>1, <2>2, <2>9, QueuedOrDelivered
  <2>11. ~DataReadyWaits(r)  BY <2>7, <2>10, SameWaits DEF Quiet
  <2>12. Head(c.irqs).of = 0  BY <1>4, <2>4 DEF Owed, OwedIn
  <2>13. Owed(r, n)
    <3>1. OwedIn(Tail(c.irqs), IF Head(c.irqs).of = 0 THEN c.heard ELSE Head(c.irqs).of, n)
      BY <1>1, <1>4, OwedTail DEF Owed
    <3>. QED  BY <2>3, <2>10, <2>12, <3>1 DEF Owed, Quiet
  <2>. QED  BY <2>3, <2>10, <2>11, <2>13, StepTwice DEF Settled, Quiet
<1>. QED  BY <1>2, <1>3, <1>4

(* The buffer was emptied. *)
LEMMA Emptied ==
  ASSUME NEW c, Sound(c), NEW r, r = Drained(c)
  PROVE  Sound(r) /\ Quiet(c, r) /\ r.flag = c.flag /\ r.data = None /\ r.queue = c.queue
<1>1. Types(c)  BY DEF Sound
<1>2. /\ Types(r) /\ Quiet(c, r) /\ r.data = None /\ r.queue = c.queue
      /\ r.flag = c.flag /\ r.async = c.async
  BY <1>1, DrainedBuffer
<1>3. r.found = c.found /\ r.late = c.late /\ r.over = c.over /\ r.irqs = c.irqs
  BY <1>2 DEF Quiet, Step, Kept
<1>4. DataReadyWaits(r) = DataReadyWaits(c)  BY <1>3, SameWaits
<1>5. One(r)  BY <1>2, <1>3, <1>4 DEF Sound, One
<1>6. Announced(r)  BY <1>2 DEF Announced
<1>7. QueueTells(r)  BY <1>2, <1>3, <1>4 DEF Sound, QueueTells
<1>. QED  BY <1>2, <1>5, <1>6, <1>7 DEF Sound

LEMMA Completed ==
  ASSUME NEW c, Sound(c), NEW n, Owed(c, n), NEW r, r = CompleteActiveDataBuffer(c)
  PROVE  Sound(r) /\ Owed(r, n) /\ Step(c, r) /\ (Settled(c) => Settled(r))
<1>. DEFINE m == Drained(c)
<1>1. /\ Sound(m) /\ Step(c, m) /\ m.irqs = c.irqs /\ m.heard = c.heard
      /\ m.flag = c.flag /\ m.busy = c.busy
  BY Emptied DEF Quiet, Step, Kept
<1>2. Owed(m, n)  BY <1>1 DEF Owed
<1>3. r = IF c.queue # <<>> THEN m ELSE ServicePendingIrq(m)
  BY DEF CompleteActiveDataBuffer
<1>. HIDE DEF m
<1>4. CASE c.queue # <<>>
  BY <1>1, <1>2, <1>3, <1>4, SameWaits DEF Settled
<1>5. CASE c.queue = <<>>
  BY <1>1, <1>2, <1>3, <1>5, Serviced, StepTwice
<1>. QED  BY <1>4, <1>5

LEMMA TailCompleted ==
  ASSUME NEW c, Sound(c), NEW n, Owed(c, n), NEW r, r = CompleteDiscardableTail(c)
  PROVE  Sound(r) /\ Owed(r, n) /\ Step(c, r) /\ (Settled(c) => Settled(r))
<1>1. CASE CanDiscardUnreadSectorTail(c)
  BY <1>1, Completed DEF CompleteDiscardableTail
<1>2. CASE ~CanDiscardUnreadSectorTail(c)
  BY <1>2 DEF CompleteDiscardableTail, Step, Sectors
<1>. QED  BY <1>1, <1>2

-----------------------------------------------------------------------------
(* Where the sectors are: none older than m, none from m on, and in order. *)
Above(c, m) == c.shown >= m /\ \A i \in DOMAIN c.queue : c.queue[i].lba > m

Below(c, m) == c.shown < m /\ \A i \in DOMAIN c.queue : c.queue[i].lba < m

Increasing(q) == \A i, j \in DOMAIN q : i < j => q[i].lba < q[j].lba

Ordered(c) == ~c.over => Above(c, c.shown) /\ Increasing(c.queue)

LEMMA StepKeeps ==
  ASSUME NEW c, Types(c), NEW r, Step(c, r), NEW m \in Int
  PROVE  /\ Above(c, m) => Above(r, m)
         /\ Below(c, m) => Below(r, m)
         /\ Ordered(c) => Ordered(r)
<1>1. r.over = c.over  BY DEF Step, Kept
<1>2. CASE r.queue = c.queue /\ r.shown = c.shown
  BY <1>1, <1>2 DEF Above, Below, Ordered
<1>3. CASE c.queue # <<>> /\ r.queue = <<>> /\ r.shown = Newest(c.queue).lba
  <2>1. Len(c.queue) \in DOMAIN c.queue /\ c.queue[Len(c.queue)] \in Sector
    BY <1>3 DEF Types
  <2>2. r.shown = c.queue[Len(c.queue)].lba /\ r.shown \in Int
    BY <1>3, <2>1, CdRomAssumption DEF Newest, Sector
  <2>3. DOMAIN r.queue = {}  BY <1>3
  <2>. QED  BY <1>1, <2>1, <2>2, <2>3 DEF Above, Below, Ordered, Increasing
<1>. QED  BY <1>2, <1>3 DEF Step, Sectors

Grown(q, s) ==
  IF Len(Append(q, s)) > Backlog THEN Tail(Append(q, s)) ELSE Append(q, s)

(* x was in the queue before y was in it or came. *)
Before(q, s, x, y) ==
  \E k \in DOMAIN q : x = q[k] /\ (y = s \/ \E l \in DOMAIN q : k < l /\ y = q[l])

LEMMA Longer ==
  ASSUME NEW q \in Seq(Sector), NEW s \in Sector, NEW p, p = Grown(q, s)
  PROVE  /\ p \in Seq(Sector)
         /\ \A i \in DOMAIN p : p[i] = s \/ \E j \in DOMAIN q : p[i] = q[j]
         /\ \A i, j \in DOMAIN p : i < j => Before(q, s, p[i], p[j])
<1>. DEFINE a == Append(q, s)
<1>1. /\ a \in Seq(Sector) /\ Len(a) = Len(q) + 1 /\ Len(q) \in Nat
      /\ \A i \in 1..Len(q) : a[i] = q[i]
      /\ a[Len(q) + 1] = s /\ DOMAIN q = 1..Len(q) /\ DOMAIN a = 1..Len(q)+1
  OBVIOUS
<1>2. CASE p = a
  <2>. HIDE DEF a
  <2>4. DOMAIN p = 1..Len(q)+1 /\ DOMAIN q = 1..Len(q) /\ Len(q) \in Nat  BY <1>1, <1>2
  <2>5. \A n \in Nat : \A i \in 1..n+1 : i \in 1..n \/ i = n + 1  OBVIOUS
  <2>1. \A i \in DOMAIN p : i \in DOMAIN q \/ i = Len(q) + 1  BY <2>4, <2>5
  <2>2. \A i \in DOMAIN p : p[i] = s \/ \E j \in DOMAIN q : p[i] = q[j]
    BY <1>1, <1>2, <2>1
  <2>3. ASSUME NEW i \in DOMAIN p, NEW j \in DOMAIN p, i < j
        PROVE  Before(q, s, p[i], p[j])
    <3>3. i # Len(q) + 1  BY <2>3, <2>4
    <3>1. i \in DOMAIN q /\ p[i] = q[i]  BY <1>1, <1>2, <2>1, <2>3, <3>3
    <3>2. p[j] = s \/ (j \in DOMAIN q /\ p[j] = q[j])  BY <1>1, <1>2, <2>1
    <3>. QED  BY <2>3, <3>1, <3>2 DEF Before
  <2>. QED  BY <1>1, <1>2, <2>2, <2>3
<1>3. CASE p = Tail(a)
  <2>1. p \in Seq(Sector) /\ DOMAIN p = 1..Len(q) /\ \A i \in 1..Len(q) : p[i] = a[i + 1]
    BY <1>1, <1>3
  <2>. HIDE DEF a
  <2>2. \A i \in DOMAIN p : i + 1 \in 1..Len(q) \/ i + 1 = Len(q) + 1
    BY <1>1, <2>1
  <2>3. \A i \in DOMAIN p : p[i] = s \/ \E j \in DOMAIN q : p[i] = q[j]
    BY SMTT(20), <1>1, <2>1, <2>2
  <2>4. ASSUME NEW i \in DOMAIN p, NEW j \in DOMAIN p, i < j
        PROVE  Before(q, s, p[i], p[j])
    <3>1. i + 1 \in 1..Len(q) /\ i + 1 < j + 1  BY <1>1, <2>1, <2>4
    <3>2. p[i] = q[i + 1]  BY <1>1, <2>1, <3>1
    <3>3. p[j] = s \/ (j + 1 \in DOMAIN q /\ p[j] = q[j + 1])  BY <1>1, <2>1, <2>2
    <3>. QED  BY <1>1, <3>1, <3>2, <3>3 DEF Before
  <2>. QED  BY <2>1, <2>3, <2>4
<1>. QED  BY <1>2, <1>3 DEF Grown

LEMMA SectorQueued ==
  ASSUME NEW c, Types(c), NEW s \in Sector, NEW r, r = QueueSectorBuffer(c, s)
  PROVE  /\ Types(r) /\ \A f \in Fields \ {"queue", "late"} : r[f] = c[f]
         /\ c.late \/ IrqIsForPresent(c) => r.late
         /\ \A m \in Int : Above(c, m) /\ s.lba > m => Above(r, m)
         /\ Below(c, s.lba) => Below(r, s.lba + 1)
         /\ Below(c, s.lba) /\ Ordered(c) => Ordered(r)
<1>. DEFINE p == Grown(c.queue, s)
<1>1. r = [c EXCEPT !.queue = p, !.late = @ \/ IrqIsForPresent(c)]
  BY DEF QueueSectorBuffer, Grown
<1>2. c.queue \in Seq(Sector)  BY DEF Types
<1>. DEFINE From(x) == x = s \/ \E j \in DOMAIN c.queue : x = c.queue[j]
<1>3. /\ p \in Seq(Sector) /\ \A i \in DOMAIN p : From(p[i])
      /\ \A i, j \in DOMAIN p : i < j => Before(c.queue, s, p[i], p[j])
  <2>1. p = Grown(c.queue, s)  OBVIOUS
  <2>. HIDE DEF p
  <2>2. p \in Seq(Sector) /\ \A i \in DOMAIN p : From(p[i])  BY <1>2, <2>1, Longer
  <2>3. \A i, j \in DOMAIN p : i < j => Before(c.queue, s, p[i], p[j])  BY <1>2, <2>1, Longer
  <2>. QED  BY <2>2, <2>3
<1>. HIDE DEF p
<1>4. Types(r) /\ r.queue = p /\ \A f \in Fields \ {"queue", "late"} : r[f] = c[f]
  BY ZenonT(30), <1>1, <1>3 DEF Types, Fields
<1>5. c.late \/ IrqIsForPresent(c) => r.late  BY <1>1 DEF Types, Fields
<1>6. r.shown = c.shown /\ r.over = c.over  BY <1>4 DEF Fields
<1>7. s.lba \in Int /\ \A i \in DOMAIN c.queue : c.queue[i].lba \in Int
  <2>1. \A t \in Sector : t.lba \in Int  BY CdRomAssumption DEF Sector
  <2>2. \A i \in DOMAIN c.queue : c.queue[i] \in Sector  BY <1>2
  <2>. QED  BY <2>1, <2>2
<1>8. c.shown \in Int  BY DEF Types
<1>9. \A m \in Int : Above(c, m) /\ s.lba > m => Above(r, m)
  BY <1>3, <1>4, <1>6 DEF Above
<1>10. Below(c, s.lba) => Below(r, s.lba + 1)
  BY <1>3, <1>4, <1>6, <1>7, <1>8 DEF Below
<1>11. ASSUME Below(c, s.lba), Ordered(c)  PROVE Ordered(r)
  <2>1. ASSUME ~c.over  PROVE Above(r, r.shown) /\ Increasing(r.queue)
    <3>1. Above(c, c.shown) /\ Increasing(c.queue) /\ c.shown < s.lba
      BY <1>11, <2>1 DEF Ordered, Below
    <3>2. Above(r, r.shown)  BY <1>6, <1>7, <1>8, <1>9, <3>1
    <3>3. Increasing(p)
      <4>1. \A x, y : Before(c.queue, s, x, y) => x.lba < y.lba
        BY <1>7, <1>11, <3>1 DEF Increasing, Below, Before
      <4>. QED  BY <1>3, <4>1 DEF Increasing
    <3>. QED  BY <1>4, <3>2, <3>3
  <2>. QED  BY <1>6, <2>1 DEF Ordered
<1>. QED  BY <1>4, <1>5, <1>9, <1>10, <1>11

(* Behind the interrupt of another sector, or one that is to come: branch of  *)
(* EnqueueDataIrq.                                                            *)
LEMMA BehindAnother ==
  ASSUME NEW c, Sound(c), HasPendingDataReadyIrq(c), NEW s \in Sector,
         NEW r, r = QueueSectorBuffer(c, s)
  PROVE  Sound(r)
<1>1. Types(c)  BY DEF Sound
<1>2. /\ Types(r) /\ \A f \in Fields \ {"queue", "late"} : r[f] = c[f]
      /\ c.late \/ IrqIsForPresent(c) => r.late
  BY <1>1, SectorQueued
<1>3. /\ r.flag = c.flag /\ r.irqs = c.irqs /\ r.async = c.async /\ r.data = c.data
      /\ r.told = c.told /\ r.found = c.found /\ r.over = c.over
  BY <1>2 DEF Fields
<1>4. DataReadyWaits(r) = DataReadyWaits(c)  BY <1>3, SameWaits
<1>5. One(r)  BY <1>3, <1>4 DEF Sound, One
<1>6. Announced(r)  BY <1>2, <1>3, <1>4 DEF Sound, Announced
<1>7. QueueTells(r)
  <2>1. CASE c.flag = 1  BY <1>2, <2>1 DEF QueueTells, IrqIsForPresent
  <2>2. CASE c.async # None
    <3>1. CASE c.async.allow /\ c.data # None  BY <1>2, <2>2, <3>1 DEF QueueTells, IrqIsForPresent
    <3>2. CASE ~c.async.allow \/ c.data = None  BY <1>3, <2>2, <3>2 DEF QueueTells
    <3>. QED  BY <3>1, <3>2
  <2>3. CASE DataReadyWaits(c)  BY <1>4, <2>3 DEF QueueTells
  <2>. QED  BY <2>1, <2>2, <2>3 DEF HasPendingDataReadyIrq, DataReadyWaits
<1>. QED  BY <1>2, <1>5, <1>6, <1>7 DEF Sound

DataEntry == [irq |-> 1, wait |-> FALSE, of |-> 0]

LEMMA ADataEntry == DataEntry \in Entry /\ DataEntry.irq = 1 /\ DataEntry.of = 0
BY DEF DataEntry, Entry, Irqs

(* The data-ready interrupt of a sector waits for its turn. *)
LEMMA DataWaits ==
  ASSUME NEW c, Types(c), ~DataReadyWaits(c), c.async = None, c.flag # 1, c.found,
         NEW r, r = [c EXCEPT !.irqs = Append(@, [irq |-> 1, wait |-> FALSE, of |-> 0])]
  PROVE  /\ Sound(r) /\ Step(c, r) /\ r.irqs = Append(c.irqs, DataEntry)
         /\ r.heard = c.heard /\ r.queue = c.queue /\ r.shown = c.shown
<1>1. r = [c EXCEPT !.irqs = Append(c.irqs, DataEntry)]  BY DEF DataEntry
<1>2. c.irqs \in Seq(Entry) /\ Append(c.irqs, DataEntry) \in Seq(Entry)
  BY ADataEntry DEF Types
<1>3. Types(r) /\ r.irqs = Append(c.irqs, DataEntry)
  BY ZenonT(30), <1>1, <1>2 DEF Types, Fields
<1>4. /\ Step(c, r) /\ r.heard = c.heard /\ r.queue = c.queue /\ r.shown = c.shown
      /\ r.async = c.async /\ r.flag = c.flag /\ r.found = c.found
  BY <1>1 DEF Types, Fields, Step, Kept, Sectors
<1>5. /\ \A i \in DOMAIN r.irqs : i = Len(c.irqs) + 1 \/ (i \in DOMAIN c.irqs /\ r.irqs[i] = c.irqs[i])
      /\ Len(c.irqs) + 1 \in DOMAIN r.irqs /\ r.irqs[Len(c.irqs) + 1] = DataEntry
  BY <1>2, <1>3
<1>6. \A i \in DOMAIN r.irqs : r.irqs[i].irq = 1 => i = Len(c.irqs) + 1
  BY <1>5 DEF DataReadyWaits
<1>7. DataReadyWaits(r)  BY <1>5, ADataEntry DEF DataReadyWaits
<1>8. One(r)  BY <1>4, <1>6 DEF One
<1>9. Announced(r) /\ QueueTells(r)  BY <1>7 DEF Announced, QueueTells
<1>. QED  BY <1>3, <1>4, <1>8, <1>9 DEF Sound

(* The drive has read a sector the guest may want. *)
LEMMA DataEnqueued ==
  ASSUME NEW c0, Sound(c0), Settled(c0), c0.found, NEW n, Owed(c0, n), Ordered(c0),
         NEW s \in Sector, Below(c0, s.lba), NEW r, r = EnqueueDataIrq(c0, s)
  PROVE  /\ Sound(r) /\ Owed(r, n) /\ Ordered(r) /\ Below(r, s.lba + 1)
         /\ \A f \in Kept \ {"late", "over"} : r[f] = c0[f]
         /\ \A m \in Int : Above(c0, m) /\ s.lba > m => Above(r, m)
<1>. DEFINE c == CompleteDiscardableTail(c0)
            q == QueueSectorBuffer(c, s)
            w == [q EXCEPT !.irqs = Append(@, [irq |-> 1, wait |-> FALSE, of |-> 0])]
            a == [ActivateDataPayload(c, s) EXCEPT !.over = @ \/ c.queue # <<>>]
            no == FALSE
            yes == TRUE
<1>1. r = IF c.flag # 0 \/ c.unread \/ c.busy > 0
          THEN IF HasPendingDataReadyIrq(c) THEN q ELSE w
          ELSE IF ShouldDefer(c) THEN QueueOrDeliverAsync(q, no)
          ELSE QueueOrDeliverAsync(a, yes)
  BY DEF EnqueueDataIrq
<1>2. s.lba \in Int  BY CdRomAssumption DEF Sector
<1>3. Types(c0)  BY DEF Sound
<1>4. Sound(c) /\ Owed(c, n) /\ Step(c0, c) /\ Settled(c)  BY TailCompleted
<1>5. /\ Ordered(c) /\ Below(c, s.lba) /\ c.found
      /\ \A m \in Int : Above(c0, m) => Above(c, m)
  BY <1>2, <1>3, <1>4, StepKeeps DEF Step, Kept
<1>6. \A f \in Kept \ {"late", "over"} : c[f] = c0[f]  BY <1>4 DEF Step
<1>7. Types(c) /\ c.irqs \in Seq(Entry) /\ c.busy \in Nat  BY <1>4 DEF Sound, Types
<1>. HIDE DEF c
<1>8. /\ Types(q) /\ \A f \in Fields \ {"queue", "late"} : q[f] = c[f]
      /\ c.late \/ IrqIsForPresent(c) => q.late
      /\ \A m \in Int : Above(c, m) /\ s.lba > m => Above(q, m)
      /\ Below(q, s.lba + 1) /\ Ordered(q)
  BY <1>5, <1>7, SectorQueued
<1>. HIDE DEF q
<1>9. /\ q.irqs = c.irqs /\ q.heard = c.heard /\ q.flag = c.flag /\ q.async = c.async
      /\ q.found = c.found /\ q.data = c.data
      /\ \A f \in Kept \ {"late", "over"} : q[f] = c[f]
  BY <1>8 DEF Fields, Kept
<1>10. DataReadyWaits(q) = DataReadyWaits(c)  BY <1>9, SameWaits
<1>11. CASE r = q /\ HasPendingDataReadyIrq(c)
  <2>1. Sound(q)  BY <1>4, <1>11, BehindAnother DEF q
  <2>. QED  BY <1>4, <1>5, <1>6, <1>8, <1>9, <1>11, <2>1 DEF Owed
<1>12. CASE r = w /\ ~HasPendingDataReadyIrq(c)
  <2>1. ~DataReadyWaits(c) /\ c.async = None /\ c.flag # 1
    BY <1>12 DEF HasPendingDataReadyIrq, DataReadyWaits
  <2>2. /\ Sound(r) /\ Step(q, r) /\ r.irqs = Append(q.irqs, DataEntry) /\ r.heard = q.heard
    BY ZenonT(30), <1>5, <1>8, <1>9, <1>10, <1>12, <2>1, DataWaits
  <2>3. Owed(r, n)  BY <1>4, <1>7, <1>9, <2>2, OwedMore, ADataEntry DEF Owed
  <2>4. Ordered(r) /\ Below(r, s.lba + 1) /\ \A m \in Int : Above(q, m) => Above(r, m)
    BY <1>2, <1>8, <2>2, StepKeeps
  <2>. QED  BY <1>5, <1>6, <1>8, <1>9, <2>2, <2>3, <2>4 DEF Step
<1>13. ASSUME ~(c.flag # 0 \/ c.unread \/ c.busy > 0)
       PROVE  ~DataReadyWaits(c) /\ c.flag # 1
  BY <1>4, <1>7, <1>13 DEF Settled
<1>14. CASE ~(c.flag # 0 \/ c.unread \/ c.busy > 0) /\ r = QueueOrDeliverAsync(q, no)
  <2>1. no \in BOOLEAN /\ ~no  OBVIOUS
  <2>. HIDE DEF no
  <2>2. q.async # None /\ q.async.allow => q.late \/ q.over \/ q.data = None
    BY <1>8, <1>9 DEF IrqIsForPresent
  <2>3. Pending(q, no)  BY <1>5, <1>8, <1>9, <1>10, <1>13, <1>14, <2>1, <2>2 DEF Pending
  <2>4. Sound(r) /\ Step(q, r) /\ r.irqs = q.irqs /\ r.heard = q.heard
    BY <1>14, <2>1, <2>3, QueuedOrDelivered DEF Quiet
  <2>5. Owed(r, n)  BY <1>4, <1>9, <2>4 DEF Owed
  <2>6. Ordered(r) /\ Below(r, s.lba + 1) /\ \A m \in Int : Above(q, m) => Above(r, m)
    BY <1>2, <1>8, <2>4, StepKeeps
  <2>. QED  BY <1>5, <1>6, <1>8, <1>9, <2>4, <2>5, <2>6 DEF Step
<1>15. CASE ~(c.flag # 0 \/ c.unread \/ c.busy > 0) /\ r = QueueOrDeliverAsync(a, yes)
  <2>1. yes \in BOOLEAN  OBVIOUS
  <2>. HIDE DEF yes
  <2>2. /\ Types(a) /\ a.irqs = c.irqs /\ a.heard = c.heard /\ a.flag = c.flag
        /\ a.found = c.found /\ a.queue = c.queue /\ a.shown = s.lba
        /\ \A f \in Kept \ {"late", "over"} : a[f] = c[f]
    <3>. DEFINE b == ActivateDataPayload(c, s)
    <3>1. /\ Types(b) /\ b.shown = s.lba
          /\ \A f \in Fields \ {"data", "index", "header", "told", "shown"} : b[f] = c[f]
      BY <1>7, Activated
    <3>2. a = [b EXCEPT !.over = @ \/ c.queue # <<>>]  OBVIOUS
    <3>. HIDE DEF a, b
    <3>3. /\ Types(a) /\ a.shown = s.lba /\ \A f \in Fields \ {"over"} : a[f] = b[f]
      BY <3>1, <3>2 DEF Types, Fields
    <3>. QED  BY <3>1, <3>3 DEF Fields, Kept
  <2>3. c.queue # <<>> => a.over
    <3>1. Types(ActivateDataPayload(c, s))  BY <1>7, Activated
    <3>. QED  BY <3>1 DEF Types, Fields
  <2>. HIDE DEF a
  <2>4. ~DataReadyWaits(a)  BY <1>13, <1>15, <2>2, SameWaits
  <2>5. Pending(a, yes)  BY <1>5, <1>13, <1>15, <2>2, <2>3, <2>4 DEF Pending
  <2>6. Sound(r) /\ Step(a, r) /\ r.irqs = a.irqs /\ r.heard = a.heard
    BY <1>15, <2>1, <2>5, QueuedOrDelivered DEF Quiet
  <2>7. Owed(r, n)  BY <1>4, <2>2, <2>6 DEF Owed
  <2>8. Ordered(a)  BY <1>2, <2>2, <2>3 DEF Ordered, Above, Increasing
  <2>9. Below(a, s.lba + 1)
    <3>1. \A i \in DOMAIN c.queue : c.queue[i].lba \in Int
      <4>1. \A t \in Sector : t.lba \in Int  BY CdRomAssumption DEF Sector
      <4>2. \A i \in DOMAIN c.queue : c.queue[i] \in Sector  BY <1>7 DEF Types
      <4>. QED  BY <4>1, <4>2
    <3>. QED  BY <1>2, <1>5, <2>2, <3>1 DEF Below
  <2>10. \A m \in Int : Above(c, m) /\ s.lba > m => Above(a, m)  BY <1>2, <2>2 DEF Above
  <2>11. Ordered(r) /\ Below(r, s.lba + 1) /\ \A m \in Int : Above(a, m) => Above(r, m)
    BY <1>2, <2>2, <2>6, <2>8, <2>9, StepKeeps
  <2>. QED  BY <1>5, <1>6, <2>2, <2>6, <2>7, <2>10, <2>11 DEF Step
<1>. QED  BY <1>1, <1>11, <1>12, <1>14, <1>15

-----------------------------------------------------------------------------
(* With at most one data-ready interrupt waiting, the others keep their       *)
(* places, or those behind it move up by one.                                 *)
LEMMA Compacted ==
  ASSUME NEW q \in Seq(Entry), NEW d \in 1..Len(q) + 1,
         \A i \in DOMAIN q : q[i].irq = 1 <=> i = d
  PROVE  ButDataReady(q) = [k \in 1..(IF d = Len(q) + 1 THEN Len(q) ELSE Len(q) - 1) |->
                              IF k < d THEN q[k] ELSE q[k + 1]]
<1>. DEFINE kept == {i \in DOMAIN q : q[i].irq # 1}
            place(i) == Cardinality({j \in kept : j <= i})
            size == IF d = Len(q) + 1 THEN Len(q) ELSE Len(q) - 1
            from(k) == IF k < d THEN k ELSE k + 1
<1>1. DOMAIN q = 1..Len(q) /\ Len(q) \in Nat  OBVIOUS
<1>2. kept = (1..Len(q)) \ {d}  BY <1>1
<1>3. \A i \in kept : place(i) = IF i < d THEN i ELSE i - 1
  <2>. TAKE i \in kept
  <2>1. i \in 1..Len(q) /\ i # d  BY <1>2
  <2>2. IsFiniteSet(1..i) /\ Cardinality(1..i) = i  BY <2>1, FS_Interval
  <2>3. CASE i < d
    <3>1. {j \in kept : j <= i} = 1..i  BY <1>1, <1>2, <2>1, <2>3
    <3>. QED  BY <2>2, <2>3, <3>1
  <2>4. CASE d < i
    <3>1. {j \in kept : j <= i} = (1..i) \ {d}  BY <1>1, <1>2, <2>1, <2>4
    <3>2. d \in 1..i  BY <2>1, <2>4
    <3>3. Cardinality((1..i) \ {d}) = i - 1  BY <2>2, <3>2, FS_RemoveElement
    <3>4. ~(i < d)  BY <1>1, <2>1, <2>4
    <3>. QED  BY <3>1, <3>3, <3>4
  <2>. QED  BY <1>1, <2>1, <2>3, <2>4
<1>4. Cardinality(kept) = size
  <2>1. IsFiniteSet(1..Len(q)) /\ Cardinality(1..Len(q)) = Len(q)
    <3>1. CASE Len(q) = 0
      <4>1. 1..Len(q) = {}  BY <3>1
      <4>. QED  BY <3>1, <4>1, FS_EmptySet
    <3>2. CASE Len(q) # 0
      <4>. DEFINE m == Len(q)
      <4>1. m \in 1..m  BY <1>1, <3>2
      <4>. HIDE DEF m
      <4>2. IsFiniteSet(1..m) /\ Cardinality(1..m) = m  BY <4>1, FS_Interval
      <4>. QED  BY <4>2 DEF m
    <3>. QED  BY <3>1, <3>2
  <2>2. CASE d = Len(q) + 1
    <3>1. (1..Len(q)) \ {d} = 1..Len(q)  BY <1>1, <2>2
    <3>. QED  BY <1>2, <2>1, <2>2, <3>1
  <2>3. CASE d # Len(q) + 1
    <3>1. d \in 1..Len(q)  BY <1>1, <2>3
    <3>2. Cardinality((1..Len(q)) \ {d}) = Len(q) - 1  BY <2>1, <3>1, FS_RemoveElement
    <3>. QED  BY <1>2, <2>3, <3>2
  <2>. QED  BY <2>2, <2>3
<1>5. ButDataReady(q) = [k \in 1..Cardinality(kept) |-> q[CHOOSE i \in kept : place(i) = k]]
  BY DEF ButDataReady
<1>. HIDE DEF place
<1>. DEFINE chosen(k) == CHOOSE i \in kept : place(i) = k
<1>6. \A k \in 1..size : chosen(k) = from(k)
  <2>. TAKE k \in 1..size
  <2>1. from(k) \in kept  BY <1>1, <1>2
  <2>2. place(from(k)) = k  BY <1>1, <1>3, <2>1
  <2>3. \A i \in kept : place(i) = k => i = from(k)
    <3>. TAKE i \in kept
    <3>. HAVE place(i) = k
    <3>1. i \in Int /\ i # d  BY <1>1, <1>2
    <3>. QED  BY <1>1, <1>3, <3>1
  <2>. HIDE DEF kept, from
  <2>. QED  BY <2>1, <2>2, <2>3
<1>8. ButDataReady(q) = [k \in 1..Cardinality(kept) |-> q[chosen(k)]]  BY <1>5 DEF place
<1>. HIDE DEF kept, chosen, from, size
<1>7. ButDataReady(q) = [k \in 1..size |-> q[from(k)]]  BY <1>4, <1>6, <1>8
<1>. USE DEF from, size
<1>. QED  BY <1>7

LEMMA Dropped ==
  ASSUME NEW q \in Seq(Entry), NEW h, NEW n, OwedIn(q, h, n),
         \A i, j \in DOMAIN q : q[i].irq = 1 /\ q[j].irq = 1 => i = j,
         NEW p, p = ButDataReady(q)
  PROVE  /\ p \in Seq(Entry) /\ \A i \in DOMAIN p : p[i].irq # 1
         /\ OwedIn(p, h, n)
<1>1. DOMAIN q = 1..Len(q) /\ Len(q) \in Nat /\ \A i \in 1..Len(q) : q[i] \in Entry
  OBVIOUS
<1>2. PICK d \in 1..Len(q) + 1 : \A i \in DOMAIN q : q[i].irq = 1 <=> i = d
  <2>1. CASE \E i \in DOMAIN q : q[i].irq = 1
    BY <1>1, <2>1
  <2>2. CASE \A i \in DOMAIN q : q[i].irq # 1
    <3>1. Len(q) + 1 \in 1..Len(q) + 1 /\ \A i \in DOMAIN q : i # Len(q) + 1  BY <1>1
    <3>. QED  BY <2>2, <3>1
  <2>. QED  BY <2>1, <2>2
<1>. DEFINE size == IF d = Len(q) + 1 THEN Len(q) ELSE Len(q) - 1
            from(k) == IF k < d THEN k ELSE k + 1
            to(i) == IF i < d THEN i ELSE i - 1
<1>3. p = [k \in 1..size |-> IF k < d THEN q[k] ELSE q[k + 1]]
  BY <1>2, Compacted
<1>4. size \in Nat /\ \A k \in 1..size : from(k) \in 1..Len(q) /\ from(k) # d
  BY <1>1
<1>5. \A k \in 1..size : IF k < d THEN q[k] = q[from(k)] ELSE q[k + 1] = q[from(k)]
  OBVIOUS
<1>6. DOMAIN p = 1..size /\ \A k \in 1..size : p[k] = q[from(k)]
  BY <1>3, <1>5
<1>7. \A i \in 1..Len(q) : i # d => to(i) \in 1..size /\ from(to(i)) = i
  BY <1>1
<1>8. \A k, l \in 1..size : k < l => from(k) < from(l)
  BY <1>4
<1>9. p \in Seq(Entry)
  <2>1. p = [k \in 1..size |-> p[k]]  BY <1>3, <1>6
  <2>2. \A k \in 1..size : p[k] \in Entry  BY <1>1, <1>4, <1>6
  <2>. HIDE DEF size, from
  <2>. QED  BY <1>4, <2>1, <2>2
<1>. HIDE DEF size, from, to
<1>10. \A i \in DOMAIN p : p[i].irq # 1  BY <1>1, <1>2, <1>4, <1>6
<1>11. OwedIn(p, h, n)
  <2>1. \A i \in DOMAIN p : p[i].of # 0 => p[i].of \in h+1..n /\ p[i].irq # 1
    BY <1>1, <1>4, <1>6 DEF OwedIn
  <2>2. \A i, j \in DOMAIN p : i < j /\ p[i].of # 0 /\ p[j].of # 0 => p[i].of < p[j].of
    <3>. TAKE i, j \in DOMAIN p
    <3>. HAVE i < j /\ p[i].of # 0 /\ p[j].of # 0
    <3>1. from(i) < from(j) /\ from(i) \in DOMAIN q /\ from(j) \in DOMAIN q
      BY <1>1, <1>4, <1>6, <1>8
    <3>2. p[i] = q[from(i)] /\ p[j] = q[from(j)]  BY <1>6
    <3>. QED  BY <3>1, <3>2 DEF OwedIn
  <2>3. \A k \in h+1..n : \E i \in DOMAIN p : p[i].of = k
    <3>. TAKE k \in h+1..n
    <3>1. PICK i \in DOMAIN q : q[i].of = k  BY DEF OwedIn
    <3>2. k # 0  BY DEF OwedIn
    <3>3. i # d  BY <1>1, <1>2, <3>1, <3>2 DEF OwedIn
    <3>. QED  BY <1>1, <1>6, <1>7, <3>1, <3>3
  <2>. QED  BY <2>1, <2>2, <2>3 DEF OwedIn
<1>. QED  BY <1>9, <1>10, <1>11

LEMMA Cleared ==
  ASSUME NEW c, Sound(c), NEW n, Owed(c, n), NEW r, r = ClearReadBuffers(c)
  PROVE  /\ Sound(r) /\ Owed(r, n) /\ ~DataReadyWaits(r) /\ r.async = None
         /\ r.data = None /\ r.queue = <<>> /\ r.shown = c.shown
         /\ \A f \in Kept : r[f] = c[f]
<1>. DEFINE p == ButDataReady(c.irqs)
<1>1. Types(c) /\ c.irqs \in Seq(Entry)  BY DEF Sound, Types
<1>2. \A i, j \in DOMAIN c.irqs : c.irqs[i].irq = 1 /\ c.irqs[j].irq = 1 => i = j
  BY DEF Sound, One
<1>3. /\ p \in Seq(Entry) /\ \A i \in DOMAIN p : p[i].irq # 1
      /\ OwedIn(p, c.heard, n)
  BY <1>1, <1>2, Dropped DEF Owed
<1>4. r = [c EXCEPT !.data = None, !.index = 0, !.header = FALSE, !.queue = <<>>,
                    !.request = FALSE, !.redeliver = None, !.async = None, !.irqs = p]
  BY DEF ClearReadBuffers
<1>. HIDE DEF p
<1>. DEFINE b == [c EXCEPT !.data = None, !.index = 0, !.header = FALSE, !.request = FALSE]
            m == [b EXCEPT !.redeliver = None, !.async = None]
            k == [m EXCEPT !.queue = <<>>]
<1>10. /\ Types(b) /\ b.data = None
       /\ \A f \in Fields \ {"data", "index", "header", "request"} : b[f] = c[f]
  BY ZenonT(30), <1>1 DEF Types, Fields
<1>11. r = [k EXCEPT !.irqs = p]  BY <1>1, <1>4 DEF Types, Fields
<1>. HIDE DEF b
<1>12. /\ Types(m) /\ m.async = None
       /\ \A f \in Fields \ {"redeliver", "async"} : m[f] = b[f]
  BY <1>10 DEF Types, Fields
<1>. HIDE DEF m
<1>13. <<>> \in Seq(Sector)  OBVIOUS
<1>14. Types(k) /\ k.queue = <<>> /\ \A f \in Fields \ {"queue"} : k[f] = m[f]
  BY <1>12, <1>13 DEF Types, Fields
<1>. HIDE DEF k
<1>15. Types(r) /\ r.irqs = p /\ \A f \in Fields \ {"irqs"} : r[f] = k[f]
  BY ZenonT(30), <1>3, <1>11, <1>14 DEF Types, Fields
<1>5. Types(r)  BY <1>15
<1>6. /\ r.irqs = p /\ r.heard = c.heard /\ r.async = None /\ r.data = None
      /\ r.queue = <<>> /\ r.shown = c.shown /\ \A f \in Kept : r[f] = c[f]
  BY <1>10, <1>12, <1>14, <1>15 DEF Fields, Kept
<1>7. ~DataReadyWaits(r)  BY <1>3, <1>6 DEF DataReadyWaits
<1>8. One(r)
  <2>1. \A i \in DOMAIN r.irqs : r.irqs[i].irq # 1  BY <1>3, <1>6
  <2>. QED  BY <1>6, <1>7, <2>1 DEF One
<1>9. Announced(r) /\ QueueTells(r)  BY <1>6 DEF Announced, QueueTells
<1>. QED  BY <1>3, <1>5, <1>6, <1>7, <1>8, <1>9 DEF Sound, Owed

-----------------------------------------------------------------------------
(* A drive that reads has shown or queued nothing from its place on, and one  *)
(* on its way to a read command's place nothing at all.                       *)
Place(c) ==
  /\ c.state = "reading" => Below(c, c.lba)
  /\ c.state = "seeking" /\ c.begin => c.shown = -1 /\ c.queue = <<>>

Holds(c, n) == Sound(c) /\ Settled(c) /\ Owed(c, n) /\ Ordered(c) /\ Place(c)

Onward(c, r) == \A m \in Int : Above(c, m) => Above(r, m)

LEMMA OnwardTwice ==
  ASSUME NEW c, NEW m, NEW r, Onward(c, m), Onward(m, r)
  PROVE  Onward(c, r)
BY DEF Onward

LEMMA Led ==
  ASSUME NEW c, NEW n, Holds(c, n), NEW r, Step(c, r),
         NEW m, Sound(r), Settled(r), Owed(r, m)
  PROVE  Holds(r, m) /\ Onward(c, r)
<1>1. Types(c) /\ c.lba \in Int  BY SMTT(20), CdRomAssumption DEF Holds, Sound, Types
<1>2. r.state = c.state /\ r.begin = c.begin /\ r.lba = c.lba  BY DEF Step, Kept
<1>3. 0 \in Int  OBVIOUS
<1>4. Ordered(r)  BY <1>1, <1>3, StepKeeps DEF Holds
<1>5. Below(c, c.lba) => Below(r, c.lba)  BY <1>1, StepKeeps
<1>6. Onward(c, r)  BY <1>1, StepKeeps DEF Onward
<1>7. Place(r)
  <2>1. r.state = "reading" => Below(r, r.lba)  BY <1>2, <1>5 DEF Holds, Place
  <2>2. r.state = "seeking" /\ r.begin => r.shown = -1 /\ r.queue = <<>>
    BY <1>2 DEF Holds, Place, Step, Sectors
  <2>. QED  BY <2>1, <2>2 DEF Place
<1>. QED  BY <1>4, <1>6, <1>7 DEF Holds

(* Two states that differ in nothing the interrupts and sectors depend on. *)
Essential == {"flag", "irqs", "async", "data", "queue", "told", "found", "late",
              "over", "shown", "heard"}

Alike(c, r) == Types(r) /\ \A f \in Essential : r[f] = c[f]

LEMMA AlikeSound ==
  ASSUME NEW c, Sound(c), NEW r, Alike(c, r)
  PROVE  /\ Sound(r) /\ r.irqs = c.irqs /\ r.heard = c.heard /\ r.flag = c.flag
         /\ r.queue = c.queue /\ r.shown = c.shown /\ r.over = c.over
         /\ DataReadyWaits(r) = DataReadyWaits(c)
<1>1. /\ r.flag = c.flag /\ r.irqs = c.irqs /\ r.async = c.async /\ r.data = c.data
      /\ r.queue = c.queue /\ r.shown = c.shown
  BY DEF Alike, Essential
<1>2. /\ r.told = c.told /\ r.found = c.found /\ r.late = c.late /\ r.over = c.over
      /\ r.heard = c.heard
  BY DEF Alike, Essential
<1>3. DataReadyWaits(r) = DataReadyWaits(c)  BY <1>1, SameWaits
<1>4. One(r)  BY <1>1, <1>2, <1>3 DEF Sound, One
<1>5. Announced(r)  BY <1>1, <1>2, <1>3 DEF Sound, Announced
<1>6. QueueTells(r)  BY <1>1, <1>2, <1>3 DEF Sound, QueueTells
<1>. QED  BY <1>1, <1>2, <1>3, <1>4, <1>5, <1>6 DEF Sound, Alike

LEMMA AlikeHolds ==
  ASSUME NEW c, NEW n, Holds(c, n), NEW r, Alike(c, r),
         r.busy = c.busy \/ r.busy > 0, Place(r)
  PROVE  Holds(r, n) /\ Onward(c, r)
<1>1. /\ Sound(r) /\ r.irqs = c.irqs /\ r.heard = c.heard /\ r.flag = c.flag
      /\ r.queue = c.queue /\ r.shown = c.shown /\ r.over = c.over
      /\ DataReadyWaits(r) = DataReadyWaits(c)
  BY AlikeSound DEF Holds
<1>2. Settled(r)  BY <1>1 DEF Holds, Settled
<1>3. Owed(r, n)  BY <1>1 DEF Holds, Owed
<1>4. \A m : Above(r, m) = Above(c, m)  BY <1>1 DEF Above
<1>5. Ordered(r)  BY <1>1, <1>4 DEF Holds, Ordered
<1>. QED  BY <1>1, <1>2, <1>3, <1>4, <1>5 DEF Holds, Onward

LEMMA SamePlace ==
  ASSUME NEW c, Place(c), NEW r, r.queue = c.queue, r.shown = c.shown, r.lba = c.lba,
         \/ r.state = c.state /\ r.begin = c.begin
         \/ r.state = "idle"
         \/ r.state = "seeking" /\ ~r.begin
  PROVE  Place(r)
BY DEF Place, Below

-----------------------------------------------------------------------------
(* The first answer to a command waits for the command to end. *)
AnswerFirst(c, irq, n) == EnqueueIrq(c, irq, n, TRUE)

LEMMA FirstAnswer ==
  ASSUME NEW c, NEW n, Holds(c, n), c.busy > 0, NEW irq \in Irqs, irq # 1,
         NEW r, r = AnswerFirst(c, irq, n + 1)
  PROVE  Holds(r, n + 1) /\ Step(c, r) /\ r.shown = c.shown /\ r.queue = c.queue
<1>. DEFINE e == [irq |-> irq, wait |-> TRUE, of |-> n + 1]
<1>1. r = WithIrq(c, e)  BY DEF AnswerFirst, EnqueueIrq, WithIrq
<1>2. n \in Nat  BY DEF Holds, Owed, OwedIn
<1>3. e \in Entry /\ e.irq # 1 /\ e.of = n + 1  BY <1>2 DEF Entry, Irqs
<1>. HIDE DEF e
<1>5. Sound(c) /\ Settled(c) /\ c.irqs \in Seq(Entry)  BY DEF Holds, Sound, Types
<1>6. /\ Sound(r) /\ Step(c, r) /\ r.flag = c.flag /\ r.heard = c.heard
      /\ r.queue = c.queue /\ r.shown = c.shown /\ r.irqs = Append(c.irqs, e)
  BY <1>1, <1>3, <1>5, Appended
<1>7. DataReadyWaits(r) = DataReadyWaits(c)  BY <1>1, <1>3, <1>5, Appended
<1>9. Owed(r, n + 1)  BY <1>3, <1>5, <1>6, OwedNext DEF Holds, Owed
<1>10. Settled(r)  BY <1>5, <1>6, <1>7 DEF Settled, Step, Kept
<1>. QED  BY <1>6, <1>9, <1>10, Led

(* An answer that is no first one. *)
AnswerLater(c, irq) == EnqueueIrq(c, irq, 0, FALSE)

LEMMA LaterAnswer ==
  ASSUME NEW c, NEW n, Holds(c, n), NEW irq \in Irqs, irq # 1,
         NEW r, r = AnswerLater(c, irq)
  PROVE  Holds(r, n) /\ Step(c, r) /\ r.shown = c.shown /\ r.queue = c.queue
<1>2. Sound(c) /\ Settled(c) /\ c.irqs \in Seq(Entry)  BY DEF Holds, Sound, Types
<1>3. CASE c.flag # 0
  <2>. DEFINE e == [irq |-> irq, wait |-> FALSE, of |-> 0]
  <2>1. r = WithIrq(c, e)  BY <1>3 DEF AnswerLater, EnqueueIrq, WithIrq
  <2>2. e \in Entry /\ e.irq # 1 /\ e.of = 0  BY DEF Entry, Irqs
  <2>. HIDE DEF e
  <2>3. /\ Sound(r) /\ Step(c, r) /\ r.flag = c.flag /\ r.heard = c.heard
        /\ r.queue = c.queue /\ r.shown = c.shown /\ r.irqs = Append(c.irqs, e)
    BY <1>2, <2>1, <2>2, Appended
  <2>5. Owed(r, n)  BY <1>2, <2>2, <2>3, OwedMore DEF Holds, Owed
  <2>6. Settled(r)  BY <1>3, <2>3 DEF Settled
  <2>. QED  BY <2>3, <2>5, <2>6, Led
<1>4. CASE c.flag = 0
  <2>0. 0 \in Nat /\ irq # 0  BY DEF Irqs
  <2>1. r = FireIrq(c, irq, 0)  BY <1>4 DEF AnswerLater, EnqueueIrq
  <2>2. /\ Sound(r) /\ Step(c, r) /\ r.flag = irq /\ r.irqs = c.irqs
        /\ r.queue = c.queue /\ r.shown = c.shown /\ r.heard = c.heard
    BY <1>2, <1>4, <2>0, <2>1, Fired
  <2>4. Owed(r, n)  BY <2>2 DEF Holds, Owed
  <2>5. Settled(r)  BY <2>0, <2>2 DEF Settled
  <2>. QED  BY <2>2, <2>4, <2>5, Led
<1>. QED  BY <1>3, <1>4

-----------------------------------------------------------------------------
(* The commands. *)
LEMMA SecondPlanned ==
  ASSUME NEW c, NEW n, Holds(c, n), NEW r, r = ScheduleSecondResponse(c, 2)
  PROVE  Holds(r, n) /\ r.shown = c.shown /\ r.busy = c.busy
<1>1. Types(c)  BY DEF Holds, Sound
<1>2. [irq |-> 2, delay |-> SecondDelay] \in [irq : {2}, delay : Int]  BY CdRomAssumption
<1>3. r = [c EXCEPT !.second = [irq |-> 2, delay |-> SecondDelay]]
  BY DEF ScheduleSecondResponse
<1>4. /\ Alike(c, r) /\ r.busy = c.busy /\ r.queue = c.queue /\ r.shown = c.shown
      /\ r.lba = c.lba /\ r.state = c.state /\ r.begin = c.begin
  <2>1. Types(r)  BY ZenonT(30), <1>1, <1>2, <1>3 DEF Types, Fields
  <2>. QED  BY ZenonT(30), <1>1, <1>3, <2>1 DEF Types, Fields, Alike, Essential
<1>5. Place(r)  BY <1>4, SamePlace DEF Holds
<1>. QED  BY <1>4, <1>5, AlikeHolds

LEMMA StoppedHolds ==
  ASSUME NEW c, NEW n, Holds(c, n), NEW r, r = Stopped(c)
  PROVE  Holds(r, n) /\ r.shown = c.shown /\ r.busy = c.busy
<1>1. Types(c)  BY DEF Holds, Sound
<1>2. Alike(c, r) /\ r.busy = c.busy /\ r.shown = c.shown /\ r.state = "idle"
  BY ZenonT(30), <1>1 DEF Stopped, Types, Fields, Alike, Essential
<1>3. Place(r)  BY <1>2 DEF Place
<1>. QED  BY <1>2, <1>3, AlikeHolds

LEMMA ClearedHolds ==
  ASSUME NEW c, NEW n, Holds(c, n), NEW r, r = ClearReadBuffers(c)
  PROVE  /\ Holds(r, n) /\ r.shown = c.shown /\ r.busy = c.busy
         /\ ~DataReadyWaits(r) /\ r.async = None /\ r.data = None /\ r.queue = <<>>
<1>1. Sound(c) /\ Owed(c, n)  BY DEF Holds
<1>2. /\ Sound(r) /\ Owed(r, n) /\ ~DataReadyWaits(r) /\ r.async = None
      /\ r.data = None /\ r.queue = <<>> /\ r.shown = c.shown
      /\ \A f \in Kept : r[f] = c[f]
  BY <1>1, Cleared
<1>3. /\ r.busy = c.busy /\ r.over = c.over /\ r.state = c.state /\ r.begin = c.begin
      /\ r.lba = c.lba
  BY <1>2 DEF Kept
<1>4. r.shown \in Int /\ DOMAIN r.queue = {}  BY SMTT(20), <1>2 DEF Sound, Types
<1>5. Ordered(r)  BY <1>4 DEF Ordered, Above, Increasing
<1>6. Place(r)  BY <1>2, <1>3, <1>4 DEF Holds, Place, Below
<1>. QED  BY <1>2, <1>3, <1>5, <1>6 DEF Holds, Settled

LEMMA StreamStarted ==
  ASSUME NEW c, NEW n, Holds(c, n), NEW r, r = StartReadStream(c)
  PROVE  Holds(r, n) /\ r.shown = -1
<1>. DEFINE m == ClearReadBuffers(c)
            s == [m EXCEPT !.startup = TRUE, !.found = FALSE, !.shown = -1,
                           !.late = FALSE, !.over = FALSE]
<1>1. r = IF s.target # None /\ s.target # s.lba
          THEN [s EXCEPT !.state = "seeking", !.begin = TRUE, !.timer = SeekTime]
          ELSE [s EXCEPT !.state = "reading", !.begin = FALSE, !.timer = Period]
  BY DEF StartReadStream
<1>2. /\ Holds(m, n) /\ ~DataReadyWaits(m) /\ m.async = None /\ m.data = None
      /\ m.queue = <<>>
  BY ClearedHolds
<1>3. Types(m)  BY <1>2 DEF Holds, Sound
<1>. HIDE DEF m
<1>4. /\ Types(s) /\ s.shown = -1
      /\ \A f \in Fields \ {"startup", "found", "shown", "late", "over"} : s[f] = m[f]
  <2>1. s.shown = -1  BY <1>3 DEF Types, Fields
  <2>2. \A f \in Fields \ {"startup", "found", "shown", "late", "over"} : s[f] = m[f]
    BY <1>3 DEF Types, Fields
  <2>3. s = [f \in Fields |-> s[f]]  BY ZenonT(30), <1>3 DEF Types, Fields
  <2>4. s.shown \in Int /\ s.shown >= -1  BY <2>1
  <2>. HIDE DEF s
  <2>5. Types(s)  BY <1>3, <2>2, <2>3, <2>4 DEF Types, Fields
  <2>. QED  BY <2>1, <2>2, <2>5
<1>. HIDE DEF s
<1>5. /\ Types(r) /\ \A f \in Fields \ {"state", "begin", "timer"} : r[f] = s[f]
  <2>1. /\ r = [f \in Fields |-> r[f]]
        /\ \A f \in Fields \ {"state", "begin", "timer"} : r[f] = s[f]
    <3>1. CASE r = [s EXCEPT !.state = "seeking", !.begin = TRUE, !.timer = SeekTime]
      BY <1>4, <3>1 DEF Types, Fields
    <3>2. CASE r = [s EXCEPT !.state = "reading", !.begin = FALSE, !.timer = Period]
      BY <1>4, <3>2 DEF Types, Fields
    <3>. QED  BY <1>1, <3>1, <3>2
  <2>. QED  BY <1>4, <2>1 DEF Types, Fields
<1>6. /\ r.irqs = m.irqs /\ r.heard = m.heard /\ r.async = None /\ r.data = None
      /\ r.queue = <<>> /\ r.shown = -1
  BY <1>2, <1>4, <1>5 DEF Fields
<1>7. ~DataReadyWaits(r)  BY <1>2, <1>6, SameWaits
<1>8. One(r)
  <2>1. \A i \in DOMAIN r.irqs : r.irqs[i].irq # 1  BY <1>7 DEF DataReadyWaits
  <2>. QED  BY <1>6, <1>7, <2>1 DEF One
<1>9. Announced(r) /\ QueueTells(r)  BY <1>6 DEF Announced, QueueTells
<1>10. Settled(r)  BY <1>7 DEF Settled
<1>11. Owed(r, n)  BY <1>2, <1>6 DEF Holds, Owed
<1>12. DOMAIN r.queue = {}  BY <1>6
<1>13. Ordered(r)  BY <1>6, <1>12 DEF Ordered, Above, Increasing
<1>14. r.lba \in Int /\ r.lba >= 0  BY SMTT(20), <1>5, CdRomAssumption DEF Types
<1>15. Place(r)  BY <1>6, <1>12, <1>14 DEF Place, Below
<1>. QED  BY <1>5, <1>6, <1>8, <1>9, <1>10, <1>11, <1>13, <1>15 DEF Holds, Sound

WithoutData(c) == [c EXCEPT !.data = None, !.index = 0, !.header = FALSE]

LEMMA DataGone ==
  ASSUME NEW c, NEW n, Holds(c, n), NEW r, r = WithoutData(c)
  PROVE  Holds(r, n) /\ r.shown = c.shown /\ r.busy = c.busy
<1>1. Types(c)  BY DEF Holds, Sound
<1>2. /\ Types(r) /\ r.data = None
      /\ \A f \in Fields \ {"data", "index", "header"} : r[f] = c[f]
  BY <1>1 DEF WithoutData, Types, Fields
<1>3. /\ r.flag = c.flag /\ r.irqs = c.irqs /\ r.heard = c.heard /\ r.async = c.async
      /\ r.queue = c.queue /\ r.shown = c.shown /\ r.found = c.found
  BY <1>2 DEF Fields
<1>4. /\ r.busy = c.busy /\ r.late = c.late /\ r.over = c.over /\ r.state = c.state
      /\ r.begin = c.begin /\ r.lba = c.lba
  BY <1>2 DEF Fields
<1>5. DataReadyWaits(r) = DataReadyWaits(c)  BY <1>3, SameWaits
<1>6. One(r)  BY <1>3, <1>5 DEF Holds, Sound, One
<1>7. Announced(r)  BY <1>2 DEF Announced
<1>8. QueueTells(r)  BY <1>2, <1>3, <1>4, <1>5 DEF Holds, Sound, QueueTells
<1>9. Settled(r)  BY <1>3, <1>4, <1>5 DEF Holds, Settled
<1>10. Owed(r, n)  BY <1>3 DEF Holds, Owed
<1>11. Ordered(r)  BY <1>3, <1>4 DEF Holds, Ordered, Above
<1>12. Place(r)  BY <1>3, <1>4, SamePlace DEF Holds
<1>. QED  BY <1>2, <1>3, <1>4, <1>6, <1>7, <1>8, <1>9, <1>10, <1>11, <1>12 DEF Holds, Sound

(* Same, or none: what a command makes of the sector that was shown last. *)
Kind(c, r) == r.shown = c.shown \/ r.shown = -1

LEMMA TheIrqs == 2 \in Irqs /\ 3 \in Irqs /\ 5 \in Irqs /\ 2 # 1 /\ 3 # 1 /\ 5 # 1
BY DEF Irqs

LEMMA Paused ==
  ASSUME NEW c, NEW n, Holds(c, n), c.busy > 0, NEW r, r = CmdPause(c, n + 1)
  PROVE  Holds(r, n + 1) /\ r.shown = c.shown
<1>. DEFINE told == AnswerFirst(c, 3, n + 1)
<1>1. r = IF c.state = "seeking" \/ (c.state = "reading" /\ c.startup)
          THEN AnswerLater(told, 5) ELSE ScheduleSecondResponse(Stopped(told), 2)
  BY DEF CmdPause, AnswerFirst, AnswerLater
<1>2. Holds(told, n + 1) /\ told.shown = c.shown  BY TheIrqs, FirstAnswer
<1>. HIDE DEF told
<1>3. CASE r = AnswerLater(told, 5)  BY <1>2, <1>3, TheIrqs, LaterAnswer
<1>4. CASE r = ScheduleSecondResponse(Stopped(told), 2)
  <2>. DEFINE still == Stopped(told)
  <2>1. Holds(still, n + 1) /\ still.shown = c.shown  BY <1>2, StoppedHolds
  <2>. HIDE DEF still
  <2>2. r = ScheduleSecondResponse(still, 2)  BY <1>4 DEF still
  <2>. QED  BY <2>1, <2>2, SecondPlanned
<1>. QED  BY <1>1, <1>3, <1>4

LEMMA ModeSet ==
  ASSUME NEW c, NEW n, Holds(c, n), c.busy > 0, NEW xa, NEW whole,
         NEW r, r = CmdSetmode(c, n + 1, xa, whole)
  PROVE  Holds(r, n + 1) /\ r.shown = c.shown
<1>. DEFINE m == [c EXCEPT !.xa = xa, !.whole = whole]
            gone == ClearReadBuffers(m)
<1>1. r = AnswerFirst(gone, 3, n + 1) \/ r = AnswerFirst(m, 3, n + 1)
  BY DEF CmdSetmode, AnswerFirst
<1>2. Types(c)  BY DEF Holds, Sound
<1>3. /\ Alike(c, m) /\ m.busy = c.busy /\ m.queue = c.queue /\ m.shown = c.shown
      /\ m.lba = c.lba /\ m.state = c.state /\ m.begin = c.begin
  <2>1. Types(m)  BY <1>2 DEF Types, Fields
  <2>. QED  BY <1>2, <2>1 DEF Types, Fields, Alike, Essential
<1>. HIDE DEF m
<1>4. Place(m)  BY <1>3, SamePlace DEF Holds
<1>5. Holds(m, n)  BY <1>3, <1>4, AlikeHolds
<1>6. Holds(gone, n) /\ gone.shown = c.shown /\ gone.busy = c.busy  BY <1>3, <1>5, ClearedHolds
<1>. HIDE DEF gone
<1>7. CASE r = AnswerFirst(gone, 3, n + 1)  BY <1>6, <1>7, TheIrqs, FirstAnswer
<1>8. CASE r = AnswerFirst(m, 3, n + 1)  BY <1>3, <1>5, <1>8, TheIrqs, FirstAnswer
<1>. QED  BY <1>1, <1>7, <1>8

LEMMA SeekStarted ==
  ASSUME NEW c, NEW n, Holds(c, n), c.busy > 0, NEW r, r = CmdSeekl(c, n + 1)
  PROVE  Holds(r, n + 1) /\ r.shown = c.shown
<1>. DEFINE m == [c EXCEPT !.state = "seeking", !.begin = FALSE, !.startup = FALSE,
                           !.timer = SeekTime]
            told == AnswerFirst(m, 3, n + 1)
<1>1. r = IF c.target = None THEN AnswerFirst(c, 5, n + 1)
          ELSE ScheduleSecondResponse(told, 2)
  BY DEF CmdSeekl, AnswerFirst
<1>2. CASE r = AnswerFirst(c, 5, n + 1)  BY <1>2, TheIrqs, FirstAnswer
<1>3. CASE r = ScheduleSecondResponse(told, 2)
  <2>1. Types(c)  BY DEF Holds, Sound
  <2>2. /\ Alike(c, m) /\ m.busy = c.busy /\ m.queue = c.queue /\ m.shown = c.shown
        /\ m.lba = c.lba /\ m.state = "seeking" /\ ~m.begin
    <3>1. Types(m)  BY <2>1 DEF Types, Fields
    <3>. QED  BY <2>1, <3>1 DEF Types, Fields, Alike, Essential
  <2>. HIDE DEF m
  <2>3. Place(m)  BY <2>2, SamePlace DEF Holds
  <2>4. Holds(m, n)  BY <2>2, <2>3, AlikeHolds
  <2>5. Holds(told, n + 1) /\ told.shown = c.shown  BY <2>2, <2>4, TheIrqs, FirstAnswer
  <2>. HIDE DEF told
  <2>. QED  BY <1>3, <2>5, SecondPlanned
<1>. QED  BY <1>1, <1>2, <1>3

LEMMA DriveStopped ==
  ASSUME NEW c, NEW n, Holds(c, n), c.busy > 0, NEW r, r = CmdStop(c, n + 1)
  PROVE  Holds(r, n + 1) /\ r.shown = c.shown
<1>. DEFINE still == Stopped(c)
            m == WithoutData(still)
            told == AnswerFirst(m, 3, n + 1)
<1>1. r = ScheduleSecondResponse(told, 2)  BY DEF CmdStop, AnswerFirst, WithoutData
<1>2. Holds(still, n) /\ still.shown = c.shown /\ still.busy = c.busy  BY StoppedHolds
<1>. HIDE DEF still
<1>3. Holds(m, n) /\ m.shown = c.shown /\ m.busy = c.busy  BY <1>2, DataGone
<1>. HIDE DEF m
<1>4. Holds(told, n + 1) /\ told.shown = c.shown  BY <1>3, TheIrqs, FirstAnswer
<1>. HIDE DEF told
<1>. QED  BY <1>1, <1>4, SecondPlanned

LEMMA TargetSet ==
  ASSUME NEW c, NEW n, Holds(c, n), c.busy > 0, NEW target \in Targets,
         NEW r, r = CmdSetloc(c, n + 1, target)
  PROVE  Holds(r, n + 1) /\ r.shown = c.shown
<1>. DEFINE m == [c EXCEPT !.target = target]
<1>1. r = AnswerFirst(m, 3, n + 1)  BY DEF CmdSetloc, AnswerFirst
<1>2. Types(c) /\ target \in 0..LastLba  BY CdRomAssumption DEF Holds, Sound
<1>3. /\ Alike(c, m) /\ m.busy = c.busy /\ m.queue = c.queue /\ m.shown = c.shown
      /\ m.lba = c.lba /\ m.state = c.state /\ m.begin = c.begin
  <2>1. Types(m)  BY <1>2 DEF Types, Fields
  <2>. QED  BY <1>2, <2>1 DEF Types, Fields, Alike, Essential
<1>. HIDE DEF m
<1>4. Place(m)  BY <1>3, SamePlace DEF Holds
<1>5. Holds(m, n)  BY <1>3, <1>4, AlikeHolds
<1>. QED  BY <1>1, <1>3, <1>5, TheIrqs, FirstAnswer

LEMMA DriveReset ==
  ASSUME NEW c, NEW n, Holds(c, n), c.busy > 0, NEW r, r = CmdInit(c, n + 1)
  PROVE  Holds(r, n + 1) /\ r.shown = c.shown
<1>. DEFINE still == Stopped(c)
            m == [still EXCEPT !.xa = FALSE, !.whole = TRUE]
            told == AnswerFirst(m, 3, n + 1)
<1>1. r = ScheduleSecondResponse(told, 2)  BY DEF CmdInit, AnswerFirst
<1>2. Holds(still, n) /\ still.shown = c.shown /\ still.busy = c.busy  BY StoppedHolds
<1>3. Types(still)  BY <1>2 DEF Holds, Sound
<1>. HIDE DEF still
<1>4. /\ Alike(still, m) /\ m.busy = still.busy /\ m.queue = still.queue
      /\ m.shown = still.shown /\ m.lba = still.lba /\ m.state = still.state
      /\ m.begin = still.begin
  <2>1. Types(m)  BY <1>3 DEF Types, Fields
  <2>. QED  BY <1>3, <2>1 DEF Types, Fields, Alike, Essential
<1>. HIDE DEF m
<1>5. Place(m)  BY <1>2, <1>4, SamePlace DEF Holds
<1>6. Holds(m, n)  BY <1>2, <1>4, <1>5, AlikeHolds
<1>7. Holds(told, n + 1) /\ told.shown = c.shown  BY <1>2, <1>4, <1>6, TheIrqs, FirstAnswer
<1>. HIDE DEF told
<1>. QED  BY <1>1, <1>7, SecondPlanned

LEMMA Commanded ==
  ASSUME NEW c, NEW n, Holds(c, n), c.busy > 0, NEW cmd \in Commands,
         NEW r, r = ExecuteCommand(c, n + 1, cmd)
  PROVE  Holds(r, n + 1) /\ Kind(c, r)
<1>1. CASE cmd.name = "getstat" \/ cmd.name = "wrong"
  <2>1. r = AnswerFirst(c, 3, n + 1) \/ r = AnswerFirst(c, 5, n + 1)
    BY <1>1 DEF ExecuteCommand, AnswerFirst
  <2>. QED  BY <2>1, TheIrqs, FirstAnswer DEF Kind
<1>2. CASE cmd.name = "setloc"
  <2>1. cmd.target \in Targets  BY <1>2 DEF Commands
  <2>2. r = CmdSetloc(c, n + 1, cmd.target)  BY <1>2 DEF ExecuteCommand
  <2>. QED  BY <2>1, <2>2, TargetSet DEF Kind
<1>3. CASE cmd.name = "readn"
  <2>. DEFINE told == AnswerFirst(c, 3, n + 1)
  <2>1. r = StartReadStream(told)  BY <1>3 DEF ExecuteCommand, CmdReadn, AnswerFirst
  <2>2. Holds(told, n + 1)  BY TheIrqs, FirstAnswer
  <2>. HIDE DEF told
  <2>. QED  BY <2>1, <2>2, StreamStarted DEF Kind
<1>4. CASE cmd.name = "pause"
  BY <1>4, Paused DEF ExecuteCommand, Kind
<1>5. CASE cmd.name = "init"
  BY <1>5, DriveReset DEF ExecuteCommand, Kind
<1>6. CASE cmd.name = "setmode"
  BY <1>6, ModeSet DEF ExecuteCommand, Kind
<1>7. CASE cmd.name = "seekl"
  BY <1>7, SeekStarted DEF ExecuteCommand, Kind
<1>8. CASE cmd.name = "stop"
  BY <1>8, DriveStopped DEF ExecuteCommand, Kind
<1>9. CASE cmd.name = "getid"
  <2>. DEFINE told == AnswerFirst(c, 3, n + 1)
  <2>1. r = ScheduleSecondResponse(told, 2)  BY <1>9 DEF ExecuteCommand, CmdGetid, AnswerFirst
  <2>2. Holds(told, n + 1) /\ told.shown = c.shown  BY TheIrqs, FirstAnswer
  <2>. HIDE DEF told
  <2>. QED  BY <2>1, <2>2, SecondPlanned DEF Kind
<1>. QED
  <2>1. cmd.name \in {"getstat", "wrong", "readn", "pause", "init", "seekl", "stop", "getid",
                      "setloc", "setmode"}
    BY DEF Commands
  <2>. QED  BY <2>1, <1>1, <1>2, <1>3, <1>4, <1>5, <1>6, <1>7, <1>8, <1>9

-----------------------------------------------------------------------------
(* The guest's other accesses and the ticks: they keep what holds, and show   *)
(* nothing older.                                                             *)
Goes(c, n, r) == Holds(r, n) /\ Onward(c, r)

LEMMA GoesOn ==
  ASSUME NEW c, NEW n, NEW m, NEW r, Goes(c, n, m), Goes(m, n, r)
  PROVE  Goes(c, n, r)
BY OnwardTwice DEF Goes

LEMMA GoesNowhere ==
  ASSUME NEW c, NEW n, Holds(c, n)
  PROVE  Goes(c, n, c)
BY DEF Goes, Onward

LEMMA ServicedHolds ==
  ASSUME NEW c, NEW n, Holds(c, n), NEW r, r = ServicePendingIrq(c)
  PROVE  Goes(c, n, r)
<1>1. Sound(c) /\ Owed(c, n)  BY DEF Holds
<1>2. Sound(r) /\ Owed(r, n) /\ Step(c, r) /\ Settled(r)  BY <1>1, Serviced
<1>. QED  BY <1>2, Led DEF Goes

LEMMA DeliveredHolds ==
  ASSUME NEW c, NEW n, Holds(c, n), NEW r, r = DeliverPendingAsync(c)
  PROVE  Goes(c, n, r)
<1>1. Sound(c) /\ Settled(c) /\ Owed(c, n)  BY DEF Holds
<1>2. Sound(r) /\ Quiet(c, r) /\ (c.flag # 0 => r.flag # 0)  BY <1>1, Delivered
<1>3. Step(c, r) /\ r.irqs = c.irqs /\ r.heard = c.heard /\ r.busy = c.busy
  BY <1>2 DEF Quiet, Step, Kept
<1>4. DataReadyWaits(r) = DataReadyWaits(c)  BY <1>3, SameWaits
<1>5. Settled(r)  BY <1>1, <1>2, <1>3, <1>4 DEF Settled
<1>6. Owed(r, n)  BY <1>1, <1>3 DEF Owed
<1>. QED  BY <1>2, <1>3, <1>5, <1>6, Led DEF Goes

(* What holds but for Settled, between a change that can end it and the       *)
(* service that restores it.                                                  *)
Nearly(c, n) == Sound(c) /\ Owed(c, n) /\ Ordered(c) /\ Place(c)

LEMMA StepNearly ==
  ASSUME NEW c, NEW n, Nearly(c, n), NEW r, Step(c, r), Sound(r), Owed(r, n)
  PROVE  Nearly(r, n) /\ Onward(c, r)
<1>1. Types(c) /\ c.lba \in Int  BY CdRomAssumption DEF Nearly, Sound, Types
<1>2. r.state = c.state /\ r.begin = c.begin /\ r.lba = c.lba  BY DEF Step, Kept
<1>3. 0 \in Int  OBVIOUS
<1>4. Ordered(r)  BY <1>1, <1>3, StepKeeps DEF Nearly
<1>5. Below(c, c.lba) => Below(r, c.lba)  BY <1>1, StepKeeps
<1>6. Onward(c, r)  BY <1>1, StepKeeps DEF Onward
<1>7. Place(r)
  <2>1. r.state = "reading" => Below(r, r.lba)  BY <1>2, <1>5 DEF Nearly, Place
  <2>2. r.state = "seeking" /\ r.begin => r.shown = -1 /\ r.queue = <<>>
    BY <1>2 DEF Nearly, Place, Step, Sectors
  <2>. QED  BY <2>1, <2>2 DEF Place
<1>. QED  BY <1>4, <1>6, <1>7 DEF Nearly

LEMMA ServicedNearly ==
  ASSUME NEW c, NEW n, Nearly(c, n), NEW r, r = ServicePendingIrq(c)
  PROVE  Goes(c, n, r)
<1>1. Sound(c) /\ Owed(c, n)  BY DEF Nearly
<1>2. Sound(r) /\ Owed(r, n) /\ Step(c, r) /\ Settled(r)  BY <1>1, Serviced
<1>3. Nearly(r, n) /\ Onward(c, r)  BY <1>2, StepNearly
<1>. QED  BY <1>2, <1>3 DEF Goes, Holds, Nearly

LEMMA AlikeNearly ==
  ASSUME NEW c, NEW n, Nearly(c, n), NEW r, Alike(c, r), Place(r)
  PROVE  Nearly(r, n) /\ Onward(c, r)
<1>1. /\ Sound(r) /\ r.irqs = c.irqs /\ r.heard = c.heard
      /\ r.queue = c.queue /\ r.shown = c.shown /\ r.over = c.over
  BY AlikeSound DEF Nearly
<1>2. Owed(r, n)  BY <1>1 DEF Nearly, Owed
<1>3. \A m : Above(r, m) = Above(c, m)  BY <1>1 DEF Above
<1>4. Ordered(r)  BY <1>1, <1>3 DEF Nearly, Ordered
<1>. QED  BY <1>1, <1>2, <1>3, <1>4 DEF Nearly, Onward

LEMMA Acknowledgement ==
  ASSUME NEW c, NEW n, Holds(c, n), NEW clear, NEW r, r = AcknowledgedIrq(c, clear)
  PROVE  Goes(c, n, r)
<1>. DEFINE f == [c EXCEPT !.flag = 0, !.since = IF c.flag = 0 THEN @ ELSE 0,
                           !.unread = @ /\ ~clear]
            p == IF c.flag # 0 /\ c.queue # <<>> THEN CompleteDiscardableTail(f) ELSE f
            q == ServicePendingIrq(p)
<1>1. r = DeliverPendingAsync(q)  BY DEF AcknowledgedIrq
<1>2. Types(c)  BY DEF Holds, Sound
<1>3. /\ Types(f) /\ f.flag = 0
      /\ \A x \in Fields \ {"flag", "since", "unread"} : f[x] = c[x]
  BY ZenonT(30), <1>2 DEF Types, Fields
<1>. HIDE DEF f
<1>4. /\ f.irqs = c.irqs /\ f.async = c.async /\ f.data = c.data /\ f.queue = c.queue
      /\ f.heard = c.heard /\ f.shown = c.shown /\ f.found = c.found
  BY <1>3 DEF Fields
<1>5. /\ f.told = c.told /\ f.late = c.late /\ f.over = c.over /\ f.state = c.state
      /\ f.begin = c.begin /\ f.lba = c.lba
  BY <1>3 DEF Fields
<1>6. DataReadyWaits(f) = DataReadyWaits(c)  BY <1>4, SameWaits
<1>7. Nearly(f, n) /\ Onward(c, f)
  <2>1. One(f)  BY <1>3, <1>4, <1>6 DEF Holds, Sound, One
  <2>2. Announced(f)  BY <1>4, <1>5, <1>6 DEF Holds, Sound, Announced
  <2>3. QueueTells(f)  BY <1>4, <1>5, <1>6 DEF Holds, Sound, QueueTells
  <2>4. \A m : Above(f, m) = Above(c, m)  BY <1>4 DEF Above
  <2>5. Owed(f, n)  BY <1>4 DEF Holds, Owed
  <2>6. Ordered(f)  BY <1>4, <1>5, <2>4 DEF Holds, Ordered
  <2>7. Place(f)  BY <1>4, <1>5, SamePlace DEF Holds
  <2>. QED  BY <1>3, <2>1, <2>2, <2>3, <2>4, <2>5, <2>6, <2>7 DEF Nearly, Sound, Onward
<1>8. Nearly(p, n) /\ Onward(f, p)
  <2>1. CASE p = f  BY <1>7, <2>1 DEF Onward
  <2>2. CASE p = CompleteDiscardableTail(f)
    <3>1. Sound(f) /\ Owed(f, n)  BY <1>7 DEF Nearly
    <3>2. Sound(p) /\ Owed(p, n) /\ Step(f, p)  BY <2>2, <3>1, TailCompleted
    <3>. HIDE DEF p
    <3>. QED  BY <1>7, <3>2, StepNearly
  <2>. QED  BY <2>1, <2>2
<1>. HIDE DEF p
<1>9. Goes(p, n, q)  BY <1>8, ServicedNearly
<1>. HIDE DEF q
<1>10. Goes(q, n, r)  BY <1>1, <1>9, DeliveredHolds DEF Goes
<1>. QED  BY <1>7, <1>8, <1>9, <1>10, OnwardTwice DEF Goes

LEMMA ResponseRead ==
  ASSUME NEW c, NEW n, Holds(c, n), NEW r, r = ServicePendingIrq([c EXCEPT !.unread = FALSE])
  PROVE  Goes(c, n, r)
<1>. DEFINE m == [c EXCEPT !.unread = FALSE]
<1>1. Types(c)  BY DEF Holds, Sound
<1>2. /\ Alike(c, m) /\ m.busy = c.busy /\ m.queue = c.queue /\ m.shown = c.shown
      /\ m.lba = c.lba /\ m.state = c.state /\ m.begin = c.begin
  <2>1. Types(m)  BY <1>1 DEF Types, Fields
  <2>. QED  BY <1>1, <2>1 DEF Types, Fields, Alike, Essential
<1>3. r = ServicePendingIrq(m)  OBVIOUS
<1>. HIDE DEF m
<1>4. Place(m)  BY <1>2, SamePlace DEF Holds
<1>5. Goes(c, n, m)  BY <1>2, <1>4, AlikeHolds DEF Goes
<1>6. Goes(m, n, r)  BY <1>3, <1>5, ServicedHolds DEF Goes
<1>. QED  BY <1>5, <1>6, GoesOn

LEMMA DataRequested ==
  ASSUME NEW c, NEW n, Holds(c, n), NEW on, NEW r, r = [c EXCEPT !.request = on]
  PROVE  Goes(c, n, r)
<1>1. Types(c)  BY DEF Holds, Sound
<1>2. /\ Alike(c, r) /\ r.busy = c.busy /\ r.queue = c.queue /\ r.shown = c.shown
      /\ r.lba = c.lba /\ r.state = c.state /\ r.begin = c.begin
  <2>1. Types(r)  BY <1>1 DEF Types, Fields
  <2>. QED  BY <1>1, <2>1 DEF Types, Fields, Alike, Essential
<1>3. Place(r)  BY <1>2, SamePlace DEF Holds
<1>. QED  BY <1>2, <1>3, AlikeHolds DEF Goes

LEMMA WordTaken ==
  ASSUME NEW c, NEW n, Holds(c, n), NEW r, r = TakenWord(c)
  PROVE  Goes(c, n, r)
<1>. DEFINE t == [c EXCEPT !.index = @ + 1,
                    !.header = @ \/ (c.whole /\ c.xa /\ c.index + 1 >= HeaderAt)]
<1>1. r = t \/ r = CompleteActiveDataBuffer(t)  BY DEF TakenWord
<1>2. Types(c)  BY DEF Holds, Sound
<1>3. /\ Alike(c, t) /\ t.busy = c.busy /\ t.queue = c.queue /\ t.shown = c.shown
      /\ t.lba = c.lba /\ t.state = c.state /\ t.begin = c.begin
  <2>1. Types(t)  BY <1>2 DEF Types, Fields
  <2>. QED  BY <1>2, <2>1 DEF Types, Fields, Alike, Essential
<1>. HIDE DEF t
<1>4. Place(t)  BY <1>3, SamePlace DEF Holds
<1>5. Goes(c, n, t)  BY <1>3, <1>4, AlikeHolds DEF Goes
<1>6. CASE r = CompleteActiveDataBuffer(t)
  <2>1. Sound(t) /\ Owed(t, n) /\ Settled(t)  BY <1>5 DEF Goes, Holds
  <2>2. Sound(r) /\ Owed(r, n) /\ Step(t, r) /\ Settled(r)  BY <1>6, <2>1, Completed
  <2>3. Goes(t, n, r)  BY <1>5, <2>2, Led DEF Goes
  <2>. QED  BY <1>5, <2>3, GoesOn
<1>. QED  BY <1>1, <1>5, <1>6

DeliverNow(c) == QueueOrDeliverAsync(c, TRUE)

LEMMA DeliveredNow ==
  ASSUME NEW c, Types(c), ~DataReadyWaits(c), c.flag # 1, c.found, c.queue = <<>>,
         NEW r, r = DeliverNow(c)
  PROVE  Sound(r) /\ Quiet(c, r)
<1>. DEFINE yes == TRUE
<1>1. r = QueueOrDeliverAsync(c, yes) /\ yes \in BOOLEAN  BY DEF DeliverNow
<1>. HIDE DEF yes
<1>2. Pending(c, yes)  BY DEF Pending
<1>. QED  BY <1>1, <1>2, QueuedOrDelivered

(* The newest of the sectors that waited while the guest read another comes   *)
(* into the buffer, and the data-ready interrupt is due.                      *)
LEMMA PoppedAwaited ==
  ASSUME NEW c, NEW n, Holds(c, n), c.queue # <<>>, NEW p, p = PopQueuedSector(c),
         p.async # None, NEW m, m = [p EXCEPT !.async = None], NEW r, r = DeliverNow(m)
  PROVE  Goes(c, n, r)
<1>1. Types(c)  BY DEF Holds, Sound
<1>2. /\ Types(p) /\ Step(c, p) /\ p.queue = <<>> /\ p.irqs = c.irqs
      /\ p.heard = c.heard /\ p.flag = c.flag /\ p.async = c.async
  BY <1>1, Popped
<1>3. /\ Types(m) /\ Quiet(p, m) /\ m.queue = <<>> /\ m.flag = p.flag
  BY <1>2 DEF Types, Fields, Quiet, Step, Kept, Sectors
<1>4. ~DataReadyWaits(c) /\ c.flag # 1 /\ c.found  BY <1>2 DEF Holds, Sound, One
<1>5. ~DataReadyWaits(m)  BY ZenonT(30), <1>2, <1>3, <1>4, SameWaits DEF Quiet
<1>6. m.found  BY <1>2, <1>3, <1>4 DEF Quiet, Step, Kept
<1>7. Sound(r) /\ Quiet(m, r)  BY <1>2, <1>3, <1>4, <1>5, <1>6, DeliveredNow
<1>8. Step(c, r) /\ r.irqs = c.irqs /\ r.heard = c.heard
  BY <1>2, <1>3, <1>7, StepTwice DEF Quiet
<1>9. ~DataReadyWaits(r)  BY <1>4, <1>8, SameWaits
<1>10. Settled(r) /\ Owed(r, n)  BY <1>8, <1>9 DEF Settled, Holds, Owed
<1>. QED  BY <1>7, <1>8, <1>10, Led DEF Goes

(* The same without one: then it waits for its turn, or the sector was late   *)
(* or past the queue.                                                         *)
LEMMA PoppedSilent ==
  ASSUME NEW c, NEW n, Holds(c, n), c.queue # <<>>, NEW p, p = PopQueuedSector(c),
         p.async = None, NEW r, r = ServicePendingIrq(p)
  PROVE  Goes(c, n, r)
<1>1. Types(c)  BY DEF Holds, Sound
<1>2. /\ Types(p) /\ Step(c, p) /\ p.queue = <<>> /\ p.irqs = c.irqs
      /\ p.heard = c.heard /\ p.flag = c.flag /\ p.async = c.async
  BY <1>1, Popped
<1>3. p.found = c.found /\ p.late = c.late /\ p.over = c.over  BY <1>2 DEF Step, Kept
<1>4. DataReadyWaits(p) = DataReadyWaits(c)  BY <1>2, SameWaits
<1>5. One(p)  BY <1>2, <1>3, <1>4 DEF Holds, Sound, One
<1>6. Announced(p)  BY <1>2, <1>3, <1>4 DEF Holds, Sound, QueueTells, Announced
<1>7. QueueTells(p)  BY <1>2 DEF QueueTells
<1>8. Sound(p) /\ Owed(p, n)  BY <1>2, <1>5, <1>6, <1>7 DEF Sound, Holds, Owed
<1>9. Sound(r) /\ Owed(r, n) /\ Step(p, r) /\ Settled(r)  BY <1>8, Serviced
<1>10. Step(c, r)  BY <1>2, <1>9, StepTwice
<1>. QED  BY <1>9, <1>10, Led DEF Goes

LEMMA RedeliveryTicked ==
  ASSUME NEW c, NEW n, Holds(c, n), NEW r, r = TickRedelivery(c)
  PROVE  Goes(c, n, r)
<1>1. Types(c)  BY DEF Holds, Sound
<1>2. ASSUME NEW d, NEW m, m = [c EXCEPT !.redeliver = d]  PROVE Goes(c, n, m)
  <2>1. Types(m)  BY <1>1, <1>2 DEF Types, Fields
  <2>2. /\ Alike(c, m) /\ m.busy = c.busy /\ m.queue = c.queue /\ m.shown = c.shown
        /\ m.lba = c.lba /\ m.state = c.state /\ m.begin = c.begin
    BY <1>1, <1>2, <2>1 DEF Types, Fields, Alike, Essential
  <2>3. Place(m)  BY <2>2, SamePlace DEF Holds
  <2>. QED  BY <2>2, <2>3, AlikeHolds DEF Goes
<1>. DEFINE m == [c EXCEPT !.redeliver = None]
            p == PopQueuedSector(m)
            q == [p EXCEPT !.async = None]
<1>3. \/ r = c \/ r = [c EXCEPT !.redeliver = c.redeliver - 1]
      \/ r = [c EXCEPT !.redeliver = 0]
      \/ c.queue # <<>> /\ p.async # None /\ r = DeliverNow(q)
      \/ c.queue # <<>> /\ p.async = None /\ r = ServicePendingIrq(p)
  BY DEF TickRedelivery, DeliverNow
<1>4. Goes(c, n, m)  BY <1>2
<1>5. m.queue = c.queue  BY <1>1 DEF Types, Fields
<1>6. Holds(m, n)  BY <1>4 DEF Goes
<1>. HIDE DEF m
<1>7. CASE r = c  BY <1>7, GoesNowhere
<1>8. CASE r = [c EXCEPT !.redeliver = c.redeliver - 1]  BY <1>2, <1>8
<1>9. CASE r = [c EXCEPT !.redeliver = 0]  BY <1>2, <1>9
<1>10. CASE c.queue # <<>> /\ p.async # None /\ r = DeliverNow(q)
  <2>1. m.queue # <<>> /\ p.async # None  BY <1>5, <1>10
  <2>2. q = [p EXCEPT !.async = None] /\ p = PopQueuedSector(m) /\ r = DeliverNow(q)  BY <1>10
  <2>. HIDE DEF p, q
  <2>3. Goes(m, n, r)  BY <1>6, <2>1, <2>2, PoppedAwaited
  <2>. QED  BY <1>4, <2>3, GoesOn
<1>11. CASE c.queue # <<>> /\ p.async = None /\ r = ServicePendingIrq(p)
  <2>1. m.queue # <<>> /\ p.async = None  BY <1>5, <1>11
  <2>2. p = PopQueuedSector(m) /\ r = ServicePendingIrq(p)  BY <1>11
  <2>. HIDE DEF p
  <2>3. Goes(m, n, r)  BY <1>6, <2>1, <2>2, PoppedSilent
  <2>. QED  BY <1>4, <2>3, GoesOn
<1>. QED  BY <1>3, <1>7, <1>8, <1>9, <1>10, <1>11

LEMMA BusyTicked ==
  ASSUME NEW c, NEW n, Holds(c, n), NEW r, r = TickBusy(c)
  PROVE  Goes(c, n, r)
<1>1. Types(c) /\ c.busy \in Nat  BY DEF Holds, Sound, Types
<1>2. ASSUME NEW b \in Nat, NEW m, m = [c EXCEPT !.busy = b]
      PROVE  /\ Alike(c, m) /\ m.busy = b /\ Place(m)
  <2>1. Types(m)  BY <1>1, <1>2 DEF Types, Fields
  <2>2. /\ Alike(c, m) /\ m.busy = b /\ m.queue = c.queue /\ m.shown = c.shown
        /\ m.lba = c.lba /\ m.state = c.state /\ m.begin = c.begin
    BY <1>1, <1>2, <2>1 DEF Types, Fields, Alike, Essential
  <2>. QED  BY <2>2, SamePlace DEF Holds
<1>3. CASE c.busy # 1
  <2>. DEFINE b == IF c.busy = 0 THEN 0 ELSE c.busy - 1
  <2>1. r = [c EXCEPT !.busy = b]  BY <1>3 DEF TickBusy
  <2>2. b \in Nat /\ (b = c.busy \/ b > 0)  BY <1>1, <1>3
  <2>. HIDE DEF b
  <2>3. Alike(c, r) /\ r.busy = b /\ Place(r)  BY <1>2, <2>1, <2>2
  <2>. QED  BY <2>2, <2>3, AlikeHolds DEF Goes
<1>4. CASE c.busy = 1
  <2>. DEFINE m == [c EXCEPT !.busy = 0]
              q == ServicePendingIrq(m)
  <2>1. r = DeliverPendingAsync(q)  BY <1>4 DEF TickBusy
  <2>2. Alike(c, m) /\ Place(m)  BY <1>2
  <2>. HIDE DEF m
  <2>3. Nearly(c, n)  BY DEF Holds, Nearly
  <2>4. Nearly(m, n) /\ Onward(c, m)  BY <2>2, <2>3, AlikeNearly
  <2>5. Goes(m, n, q)  BY <2>4, ServicedNearly
  <2>. HIDE DEF q
  <2>6. Goes(q, n, r)  BY <2>1, <2>5, DeliveredHolds DEF Goes
  <2>. QED  BY <2>4, <2>5, <2>6, OnwardTwice DEF Goes
<1>. QED  BY <1>3, <1>4

LEMMA SecondTicked ==
  ASSUME NEW c, NEW n, Holds(c, n), NEW r, r = TickSecond(c)
  PROVE  Goes(c, n, r)
<1>1. Types(c)  BY DEF Holds, Sound
<1>2. ASSUME NEW s, s = None \/ s \in [irq : {2}, delay : Int],
             NEW m, m = [c EXCEPT !.second = s]
      PROVE  Goes(c, n, m)
  <2>1. Types(m)  BY <1>1, <1>2 DEF Types, Fields
  <2>2. /\ Alike(c, m) /\ m.busy = c.busy /\ m.queue = c.queue /\ m.shown = c.shown
        /\ m.lba = c.lba /\ m.state = c.state /\ m.begin = c.begin
    BY <1>1, <1>2, <2>1 DEF Types, Fields, Alike, Essential
  <2>3. Place(m)  BY <2>2, SamePlace DEF Holds
  <2>. QED  BY <2>2, <2>3, AlikeHolds DEF Goes
<1>3. CASE c.second = None
  BY <1>3, GoesNowhere DEF TickSecond
<1>4. CASE c.second # None /\ c.second.delay > 1
  <2>. DEFINE s == [c.second EXCEPT !.delay = @ - 1]
  <2>1. c.second \in [irq : {2}, delay : Int]  BY <1>1, <1>4 DEF Types
  <2>2. s \in [irq : {2}, delay : Int]  BY <2>1
  <2>3. r = [c EXCEPT !.second = s]  BY <1>4 DEF TickSecond
  <2>. HIDE DEF s
  <2>. QED  BY <1>2, <2>2, <2>3
<1>5. CASE c.second # None /\ ~(c.second.delay > 1)
  <2>. DEFINE m == [c EXCEPT !.second = None]
  <2>1. c.second.irq = 2  BY <1>1, <1>5 DEF Types
  <2>2. r = AnswerLater(m, c.second.irq)  BY <1>5 DEF TickSecond, AnswerLater
  <2>3. Goes(c, n, m)  BY <1>2
  <2>. HIDE DEF m
  <2>4. r = AnswerLater(m, 2)  BY <2>1, <2>2
  <2>5. Holds(m, n)  BY <2>3 DEF Goes
  <2>6. Holds(r, n) /\ Step(m, r)  BY <2>4, <2>5, TheIrqs, LaterAnswer
  <2>7. Goes(m, n, r)  BY <2>5, <2>6, Led DEF Goes, Holds
  <2>. QED  BY <2>3, <2>7, GoesOn
<1>. QED  BY <1>3, <1>4, <1>5

LEMMA AsyncTicked ==
  ASSUME NEW c, NEW n, Holds(c, n), NEW r, r = TickAsync(c)
  PROVE  Goes(c, n, r)
<1>1. Sound(c) /\ Settled(c) /\ Owed(c, n) /\ Types(c)  BY DEF Holds, Sound
<1>2. CASE c.async = None
  BY <1>2, GoesNowhere DEF TickAsync
<1>3. ASSUME c.async # None, NEW d \in 1..Retry, NEW m, m = [c EXCEPT !.async.delay = d]
      PROVE  Goes(c, n, m)
  <2>1. Sound(m) /\ Quiet(c, m) /\ m.flag = c.flag  BY <1>1, <1>3, DelaySet
  <2>2. Step(c, m) /\ m.irqs = c.irqs /\ m.heard = c.heard /\ m.busy = c.busy
    BY <2>1 DEF Quiet, Step, Kept
  <2>3. DataReadyWaits(m) = DataReadyWaits(c)  BY <2>2, SameWaits
  <2>4. Settled(m) /\ Owed(m, n)  BY <1>1, <2>1, <2>2, <2>3 DEF Settled, Owed
  <2>. QED  BY <2>1, <2>2, <2>4, Led DEF Goes
<1>4. CASE c.async # None /\ c.async.delay > 1
  <2>. DEFINE d == c.async.delay - 1
  <2>1. r = [c EXCEPT !.async.delay = d]  BY <1>4 DEF TickAsync
  <2>2. c.async.delay \in 1..Retry  BY <1>1, <1>4 DEF Types
  <2>3. d \in 1..Retry  BY <1>4, <2>2, CdRomAssumption
  <2>. HIDE DEF d
  <2>. QED  BY <1>3, <1>4, <2>1, <2>3
<1>5. CASE c.async # None /\ ~(c.async.delay > 1)
  <2>. DEFINE m == [c EXCEPT !.async.delay = Retry]
  <2>1. r = DeliverPendingAsync(m)  BY <1>5 DEF TickAsync
  <2>2. Retry \in 1..Retry  BY CdRomAssumption
  <2>3. Goes(c, n, m)  BY <1>3, <1>5, <2>2
  <2>. HIDE DEF m
  <2>4. Goes(m, n, r)  BY <2>1, <2>3, DeliveredHolds DEF Goes
  <2>. QED  BY <2>3, <2>4, GoesOn
<1>. QED  BY <1>2, <1>4, <1>5

-----------------------------------------------------------------------------
(* The drive. *)
LEMMA SeekTicked ==
  ASSUME NEW c, NEW n, Holds(c, n), c.state = "seeking", NEW r, r = TickSeek(c)
  PROVE  Goes(c, n, r)
<1>1. Types(c) /\ Place(c)  BY DEF Holds, Sound
<1>2. CASE r = [c EXCEPT !.timer = @ - 1]
  <2>1. Types(r)  BY ZenonT(30), <1>1, <1>2 DEF Types, Fields
  <2>2. /\ Alike(c, r) /\ r.busy = c.busy /\ r.queue = c.queue /\ r.shown = c.shown
        /\ r.lba = c.lba /\ r.state = c.state /\ r.begin = c.begin
    BY ZenonT(30), <1>1, <1>2, <2>1 DEF Types, Fields, Alike, Essential
  <2>3. Place(r)  BY <1>1, <2>2, SamePlace
  <2>. QED  BY <2>2, <2>3, AlikeHolds DEF Goes
<1>. DEFINE l == IF c.target = None THEN c.lba ELSE c.target
            m == [c EXCEPT !.lba = l, !.timer = Period]
<1>3. CASE \/ c.begin /\ r = [m EXCEPT !.state = "reading", !.begin = FALSE, !.startup = FALSE]
           \/ r = [m EXCEPT !.state = "idle"]
  <2>1. l \in 0..LastLba  BY <1>1 DEF Types
  <2>2. m = [c EXCEPT !.lba = l, !.timer = Period]  OBVIOUS
  <2>. HIDE DEF l, m
  <2>3. /\ Types(m) /\ m.lba = l /\ \A f \in Fields \ {"lba", "timer"} : m[f] = c[f]
    BY <1>1, <2>1, <2>2 DEF Types, Fields
  <2>4. /\ Types(r) /\ r.lba = l
        /\ \A f \in Fields \ {"state", "begin", "startup"} : r[f] = m[f]
        /\ r.state = "idle" \/ (c.begin /\ r.state = "reading")
    <3>1. CASE c.begin /\ r = [m EXCEPT !.state = "reading", !.begin = FALSE, !.startup = FALSE]
      <4>1. /\ r.state = "reading" /\ r = [f \in Fields |-> r[f]]
            /\ \A f \in Fields \ {"state", "begin", "startup"} : r[f] = m[f]
        BY <2>3, <3>1 DEF Types, Fields
      <4>2. Types(r) /\ r.lba = l  BY <2>3, <4>1 DEF Types, Fields
      <4>. QED  BY <3>1, <4>1, <4>2
    <3>2. CASE r = [m EXCEPT !.state = "idle"]
      <4>1. /\ r.state = "idle" /\ r = [f \in Fields |-> r[f]]
            /\ \A f \in Fields \ {"state", "begin", "startup"} : r[f] = m[f]
        BY <2>3, <3>2 DEF Types, Fields
      <4>2. Types(r) /\ r.lba = l  BY <2>3, <4>1 DEF Types, Fields
      <4>. QED  BY <3>2, <4>1, <4>2
    <3>. QED  BY <1>3, <3>1, <3>2
  <2>5. /\ Alike(c, r) /\ r.busy = c.busy /\ r.queue = c.queue /\ r.shown = c.shown
    BY <2>3, <2>4 DEF Alike, Essential, Fields
  <2>6. Place(r)
    <3>1. CASE r.state = "idle"  BY <3>1 DEF Place
    <3>2. CASE c.begin /\ r.state = "reading"
      <4>1. r.shown = -1 /\ r.queue = <<>>  BY <1>1, <2>5, <3>2 DEF Place
      <4>2. r.lba \in Int /\ r.lba >= 0  BY <2>1, <2>4, CdRomAssumption
      <4>3. DOMAIN r.queue = {}  BY <4>1
      <4>4. Below(r, r.lba)  BY <4>1, <4>2, <4>3 DEF Below
      <4>. QED  BY <3>2, <4>4 DEF Place
    <3>. QED  BY <2>4, <3>1, <3>2
  <2>. QED  BY <2>5, <2>6, AlikeHolds DEF Goes
<1>. QED  BY <1>2, <1>3 DEF TickSeek

(* The drive goes on to the next sector, or stops behind the last. *)
LEMMA MovedOn ==
  ASSUME NEW e, NEW n, Sound(e), Owed(e, n), Ordered(e), Below(e, e.lba + 1),
         e.state = "reading",
         NEW r, \/ r = [e EXCEPT !.state = "idle"]
                \/ e.lba < LastLba /\ r = [e EXCEPT !.lba = @ + 1]
  PROVE  Nearly(r, n) /\ Onward(e, r)
<1>1. Types(e) /\ e.lba \in 0..LastLba /\ e.lba \in Int  BY CdRomAssumption DEF Sound, Types
<1>2. /\ Alike(e, r) /\ (r.state = "idle" \/ (r.state = "reading" /\ r.lba = e.lba + 1))
  <2>1. CASE r = [e EXCEPT !.state = "idle"]
    <3>1. Types(r)  BY ZenonT(30), <1>1, <2>1 DEF Types, Fields
    <3>. QED  BY <1>1, <2>1, <3>1 DEF Types, Fields, Alike, Essential
  <2>2. CASE e.lba < LastLba /\ r = [e EXCEPT !.lba = @ + 1]
    <3>1. e.lba + 1 \in 0..LastLba  BY <1>1, <2>2, CdRomAssumption
    <3>2. Types(r)  BY <1>1, <2>2, <3>1 DEF Types, Fields
    <3>. QED  BY <1>1, <2>2, <3>2 DEF Types, Fields, Alike, Essential
  <2>. QED  BY <2>1, <2>2
<1>3. /\ Sound(r) /\ r.irqs = e.irqs /\ r.heard = e.heard
      /\ r.queue = e.queue /\ r.shown = e.shown /\ r.over = e.over
  BY <1>2, AlikeSound
<1>4. Owed(r, n)  BY <1>3 DEF Owed
<1>5. \A m : Above(r, m) = Above(e, m) /\ Below(r, m) = Below(e, m)
  BY <1>3 DEF Above, Below
<1>6. Ordered(r)  BY <1>3, <1>5 DEF Ordered
<1>7. Place(r)  BY <1>2, <1>5 DEF Place
<1>. QED  BY <1>3, <1>4, <1>5, <1>6, <1>7 DEF Nearly, Onward

Moves(c, r) ==
  \/ r = [c EXCEPT !.state = "idle"]
  \/ c.lba < LastLba /\ r = [c EXCEPT !.lba = @ + 1]

Found(c) == [c EXCEPT !.found = TRUE]

(* Between two sectors: the read, its three outcomes. *)
LEMMA NextSector ==
  ASSUME NEW c, NEW n, Holds(c, n), c.state = "reading",
         NEW r, r = [c EXCEPT !.startup = FALSE, !.timer = Period]
  PROVE  /\ Goes(c, n, r) /\ r.state = "reading" /\ r.lba = c.lba
         /\ r.shown = c.shown /\ r.queue = c.queue
<1>1. Types(c)  BY DEF Holds, Sound
<1>2. Types(r)  BY <1>1 DEF Types, Fields
<1>3. /\ Alike(c, r) /\ r.busy = c.busy /\ r.queue = c.queue /\ r.shown = c.shown
      /\ r.lba = c.lba /\ r.state = c.state /\ r.begin = c.begin
  BY <1>1, <1>2 DEF Types, Fields, Alike, Essential
<1>4. Place(r)  BY <1>3, SamePlace DEF Holds
<1>. QED  BY <1>3, <1>4, AlikeHolds DEF Goes

LEMMA SectorFound ==
  ASSUME NEW c, NEW n, Holds(c, n), c.state = "reading", NEW r, r = Found(c)
  PROVE  Goes(c, n, r) /\ r.found /\ r.state = "reading" /\ r.lba = c.lba
<1>1. Types(c)  BY DEF Holds, Sound
<1>2. /\ Types(r) /\ r.found /\ \A f \in Fields \ {"found"} : r[f] = c[f]
  BY <1>1 DEF Found, Types, Fields
<1>3. /\ r.flag = c.flag /\ r.irqs = c.irqs /\ r.heard = c.heard /\ r.async = c.async
      /\ r.queue = c.queue /\ r.shown = c.shown /\ r.data = c.data
  BY <1>2 DEF Fields
<1>4. /\ r.busy = c.busy /\ r.late = c.late /\ r.over = c.over /\ r.state = c.state
      /\ r.begin = c.begin /\ r.lba = c.lba /\ r.told = c.told
  BY <1>2 DEF Fields
<1>5. DataReadyWaits(r) = DataReadyWaits(c)  BY <1>3, SameWaits
<1>6. One(r)  BY <1>2, <1>3, <1>5 DEF Holds, Sound, One
<1>7. Announced(r)  BY <1>3, <1>4, <1>5 DEF Holds, Sound, Announced
<1>8. QueueTells(r)  BY <1>3, <1>4, <1>5 DEF Holds, Sound, QueueTells
<1>9. Settled(r)  BY <1>3, <1>4, <1>5 DEF Holds, Settled
<1>10. Owed(r, n)  BY <1>3 DEF Holds, Owed
<1>11. \A m : Above(r, m) = Above(c, m)  BY <1>3 DEF Above
<1>12. Ordered(r)  BY <1>3, <1>4, <1>11 DEF Holds, Ordered
<1>13. Place(r)  BY <1>3, <1>4, SamePlace DEF Holds
<1>. QED
  BY <1>2, <1>4, <1>6, <1>7, <1>8, <1>9, <1>10, <1>11, <1>12, <1>13
  DEF Holds, Sound, Goes, Onward

LEMMA DataSectorRead ==
  ASSUME NEW c, NEW n, Holds(c, n), c.state = "reading",
         NEW s \in Sector, s.lba = c.lba,
         NEW e, e = EnqueueDataIrq(Found(c), s), NEW r, Moves(e, r)
  PROVE  Nearly(r, n) /\ Onward(c, r)
<1>. DEFINE f == Found(c)
<1>1. Goes(c, n, f) /\ f.found /\ f.state = "reading" /\ f.lba = c.lba  BY SectorFound
<1>2. e = EnqueueDataIrq(f, s)  OBVIOUS
<1>. HIDE DEF f
<1>3. /\ Sound(f) /\ Settled(f) /\ Owed(f, n) /\ Ordered(f) /\ Below(f, s.lba)
  BY <1>1 DEF Goes, Holds, Place
<1>4. /\ Sound(e) /\ Owed(e, n) /\ Ordered(e) /\ Below(e, s.lba + 1)
      /\ \A x \in Kept \ {"late", "over"} : e[x] = f[x]
      /\ \A m \in Int : Above(f, m) /\ s.lba > m => Above(e, m)
  BY <1>1, <1>2, <1>3, DataEnqueued
<1>5. e.state = "reading" /\ e.lba = s.lba  BY <1>1, <1>4 DEF Kept
<1>6. Onward(f, e)
  <2>. SUFFICES ASSUME NEW m \in Int, Above(f, m)  PROVE Above(e, m)
    BY DEF Onward
  <2>1. f.shown \in Int /\ s.lba \in Int
    BY SMTT(20), <1>3, CdRomAssumption DEF Sound, Types, Sector
  <2>2. s.lba > m  BY <1>3, <2>1 DEF Above, Below
  <2>. QED  BY <1>4, <2>2
<1>7. Nearly(r, n) /\ Onward(e, r)  BY <1>4, <1>5, MovedOn DEF Moves
<1>. QED  BY <1>1, <1>6, <1>7, OnwardTwice DEF Goes

LEMMA SectorTicked ==
  ASSUME NEW c, NEW n, Holds(c, n), c.state = "reading", NEW found,
         NEW r, r = SectorRead(c, found)
  PROVE  Nearly(r, n) /\ Onward(c, r)
<1>1. Types(c) /\ c.lba \in 0..LastLba /\ c.lba \in Int
  BY SMTT(20), CdRomAssumption DEF Holds, Sound, Types
<1>2. CASE found = "error"
  <2>. DEFINE m == [c EXCEPT !.state = "idle", !.startup = FALSE]
  <2>1. r = AnswerLater(m, 5)  BY <1>2 DEF SectorRead, AnswerLater
  <2>2. Types(m)  BY <1>1 DEF Types, Fields
  <2>3. Alike(c, m) /\ m.busy = c.busy /\ m.state = "idle"
    BY <1>1, <2>2 DEF Types, Fields, Alike, Essential
  <2>. HIDE DEF m
  <2>4. Place(m)  BY <2>3 DEF Place
  <2>5. Holds(m, n) /\ Onward(c, m)  BY <2>3, <2>4, AlikeHolds
  <2>6. Holds(r, n) /\ Step(m, r)  BY <2>1, <2>5, TheIrqs, LaterAnswer
  <2>7. Onward(m, r)  BY <2>5, <2>6, Led DEF Holds
  <2>. QED  BY <2>5, <2>6, <2>7, OnwardTwice DEF Holds, Nearly
<1>3. CASE found # "error"
  <2>. DEFINE s == [lba |-> c.lba, size |-> IF c.whole THEN RawSize ELSE DataSize]
              t == [c EXCEPT !.startup = FALSE, !.timer = Period]
              e == EnqueueDataIrq(Found(t), s)
  <2>1. /\ Goes(c, n, t) /\ t.state = "reading" /\ t.lba = c.lba
    BY NextSector
  <2>2. s \in Sector /\ s.lba = c.lba  BY <1>1, CdRomAssumption DEF Sector
  <2>3. \/ e.lba = c.lba /\ Moves(e, r)
        \/ Moves(t, r)
        \/ e.lba # c.lba
    <3>1. CASE found = "audio"
      <4>1. r = IF c.lba >= LastLba THEN [t EXCEPT !.state = "idle"] ELSE [t EXCEPT !.lba = @ + 1]
        BY <3>1 DEF SectorRead
      <4>. HIDE DEF t
      <4>. QED  BY <1>1, <2>1, <4>1, CdRomAssumption DEF Moves
    <3>2. CASE found # "audio"
      <4>1. r = IF c.lba >= LastLba THEN [e EXCEPT !.state = "idle"] ELSE [e EXCEPT !.lba = @ + 1]
        BY <1>3, <3>2 DEF SectorRead, Found
      <4>. HIDE DEF e
      <4>. QED  BY <1>1, <4>1, CdRomAssumption DEF Moves
    <3>. QED  BY <3>1, <3>2
  <2>4. Holds(t, n)  BY <2>1 DEF Goes
  <2>. HIDE DEF s, t
  <2>5. e.lba = c.lba
    <3>. DEFINE f == Found(t)
    <3>1. Goes(t, n, f) /\ f.found /\ f.state = "reading" /\ f.lba = c.lba
      BY <2>1, <2>4, SectorFound
    <3>2. e = EnqueueDataIrq(f, s)  OBVIOUS
    <3>. HIDE DEF e, f
    <3>3. Sound(f) /\ Settled(f) /\ Owed(f, n) /\ Ordered(f) /\ Below(f, s.lba)
      BY <2>2, <3>1 DEF Goes, Holds, Place
    <3>4. \A x \in Kept \ {"late", "over"} : e[x] = f[x]
      BY <2>2, <3>1, <3>2, <3>3, DataEnqueued
    <3>. QED  BY <3>1, <3>4 DEF Kept
  <2>6. CASE Moves(e, r)
    <3>1. Nearly(r, n) /\ Onward(t, r)  BY <2>1, <2>2, <2>4, <2>6, DataSectorRead
    <3>. QED  BY <2>1, <3>1, OnwardTwice DEF Goes
  <2>7. CASE Moves(t, r)
    <3>1. Sound(t) /\ Owed(t, n) /\ Ordered(t) /\ Below(t, t.lba)
      BY <2>1, <2>4 DEF Holds, Place
    <3>2. Below(t, t.lba + 1)
      <4>1. \A i \in DOMAIN t.queue : t.queue[i].lba \in Int
        <5>1. \A x \in Sector : x.lba \in Int  BY CdRomAssumption DEF Sector
        <5>2. \A i \in DOMAIN t.queue : t.queue[i] \in Sector  BY <3>1 DEF Sound, Types
        <5>. QED  BY <5>1, <5>2
      <4>2. t.shown \in Int /\ t.lba \in Int  BY <1>1, <2>1, <3>1 DEF Sound, Types
      <4>. QED  BY <3>1, <4>1, <4>2 DEF Below
    <3>3. Nearly(r, n) /\ Onward(t, r)  BY <2>1, <2>7, <3>1, <3>2, MovedOn DEF Moves
    <3>. QED  BY <2>1, <3>3, OnwardTwice DEF Goes
  <2>. QED  BY <2>3, <2>5, <2>6, <2>7
<1>. QED  BY <1>2, <1>3

LEMMA ReadTicked ==
  ASSUME NEW c, NEW n, Holds(c, n), c.state = "reading", NEW found,
         NEW r, r = TickRead(c, found)
  PROVE  Nearly(r, n) /\ Onward(c, r)
<1>1. CASE r = SectorRead(c, found)  BY <1>1, SectorTicked
<1>2. CASE r = [c EXCEPT !.timer = @ - 1]
  <2>1. Types(c)  BY DEF Holds, Sound
  <2>2. Types(r)  BY SMTT(20), <1>2, <2>1 DEF Types, Fields
  <2>3. /\ Alike(c, r) /\ r.busy = c.busy /\ r.queue = c.queue /\ r.shown = c.shown
        /\ r.lba = c.lba /\ r.state = c.state /\ r.begin = c.begin
    BY SMTT(20), <1>2, <2>1, <2>2 DEF Types, Fields, Alike, Essential
  <2>4. Place(r)  BY <2>3, SamePlace DEF Holds
  <2>5. Holds(r, n) /\ Onward(c, r)  BY <2>3, <2>4, AlikeHolds
  <2>. QED  BY <2>5 DEF Holds, Nearly
<1>. QED  BY <1>1, <1>2 DEF TickRead

LEMMA TimePassed ==
  ASSUME NEW c, NEW n, Holds(c, n), NEW found, NEW r, r = Ticked(c, found)
  PROVE  Goes(c, n, r)
<1>. DEFINE s == [c EXCEPT !.since = IF @ < IrqGap THEN @ + 1 ELSE @]
            d == TickRedelivery(s)
            b == TickBusy(d)
            t == TickSecond(b)
            a == TickAsync(t)
            m == CASE a.state = "seeking" -> TickSeek(a)
                   [] a.state = "reading" -> TickRead(a, found)
                   [] OTHER -> a
<1>1. r = ServicePendingIrq(m)  BY DEF Ticked
<1>2. Types(c)  BY DEF Holds, Sound
<1>3. Types(s)  BY <1>2 DEF Types, Fields
<1>4. /\ Alike(c, s) /\ s.busy = c.busy /\ s.queue = c.queue /\ s.shown = c.shown
      /\ s.lba = c.lba /\ s.state = c.state /\ s.begin = c.begin
  BY <1>2, <1>3 DEF Types, Fields, Alike, Essential
<1>. HIDE DEF s
<1>5. Place(s)  BY <1>4, SamePlace DEF Holds
<1>6. Goes(c, n, s)  BY <1>4, <1>5, AlikeHolds DEF Goes
<1>7. Goes(s, n, d)  BY <1>6, RedeliveryTicked DEF Goes
<1>. HIDE DEF d
<1>8. Goes(d, n, b)  BY <1>7, BusyTicked DEF Goes
<1>. HIDE DEF b
<1>9. Goes(b, n, t)  BY <1>8, SecondTicked DEF Goes
<1>. HIDE DEF t
<1>10. Goes(t, n, a)  BY <1>9, AsyncTicked DEF Goes
<1>. HIDE DEF a
<1>11. Holds(a, n) /\ Onward(c, a)
  BY <1>6, <1>7, <1>8, <1>9, <1>10, GoesOn DEF Goes
<1>12. Nearly(m, n) /\ Onward(a, m)
  <2>1. CASE a.state = "seeking"
    <3>1. m = TickSeek(a)  BY <2>1
    <3>. HIDE DEF m
    <3>2. Goes(a, n, m)  BY <1>11, <2>1, <3>1, SeekTicked
    <3>. QED  BY <3>2 DEF Goes, Holds, Nearly
  <2>2. CASE a.state = "reading"
    <3>1. m = TickRead(a, found)  BY <2>2
    <3>. HIDE DEF m
    <3>. QED  BY <1>11, <2>2, <3>1, ReadTicked
  <2>3. CASE a.state # "seeking" /\ a.state # "reading"
    <3>1. m = a  BY <2>3
    <3>. HIDE DEF m
    <3>. QED  BY <1>11, <3>1 DEF Holds, Nearly, Onward
  <2>. QED  BY <2>1, <2>2, <2>3
<1>. HIDE DEF m
<1>13. Goes(m, n, r)  BY <1>1, <1>12, ServicedNearly
<1>. QED  BY <1>11, <1>12, <1>13, OnwardTwice DEF Goes

-----------------------------------------------------------------------------
CdInv == Holds(cd, asked)

LEMMA AtReset == CdInit => CdInv
<1>. SUFFICES ASSUME CdInit  PROVE Holds(cd, asked)
  BY DEF CdInv
<1>. DEFINE nothing == <<>>
<1>0. nothing \in Seq(Entry) /\ nothing \in Seq(Sector) /\ DOMAIN nothing = {}  OBVIOUS
<1>1. /\ cd = [f \in Fields |-> cd[f]] /\ asked = 0
      /\ cd.flag = 0 /\ cd.busy = 0 /\ cd.irqs = nothing /\ cd.async = None
      /\ cd.second = None /\ cd.queue = nothing /\ cd.heard = 0 /\ cd.shown = -1
      /\ cd.lba = 0 /\ cd.target = None /\ cd.data = None /\ cd.state = "idle"
  BY DEF CdInit, Fields
<1>. HIDE DEF nothing
<1>2. Types(cd)
  <2>1. /\ cd.flag \in {0, 1, 2, 3, 5} /\ cd.busy \in Nat /\ cd.heard \in Nat
        /\ cd.shown \in Int /\ cd.shown >= -1
    BY <1>1
  <2>2. cd.lba \in 0..LastLba  BY <1>1, CdRomAssumption
  <2>3. cd.irqs \in Seq(Entry) /\ cd.queue \in Seq(Sector)  BY <1>0, <1>1
  <2>. QED  BY <1>1, <2>1, <2>2, <2>3 DEF Types
<1>3. ~DataReadyWaits(cd)  BY <1>0, <1>1 DEF DataReadyWaits
<1>4. One(cd)
  <2>1. cd.flag # 1  BY <1>1
  <2>. QED  BY <1>0, <1>1, <1>3, <2>1 DEF One
<1>5. Announced(cd) /\ Settled(cd)  BY <1>1, <1>3 DEF Announced, Settled
<1>6. QueueTells(cd)  BY <1>1 DEF QueueTells, nothing
<1>7. Owed(cd, asked)
  <2>1. cd.heard+1..asked = {}  BY <1>1
  <2>. QED  BY <1>0, <1>1, <2>1 DEF Owed, OwedIn
<1>8. Ordered(cd)  BY <1>0, <1>1 DEF Ordered, Above, Increasing
<1>9. Place(cd)  BY <1>1 DEF Place
<1>. QED  BY <1>2, <1>4, <1>5, <1>6, <1>7, <1>8, <1>9 DEF Holds, Sound

(* A step of the guest or of the time keeps the invariant, and shows nothing  *)
(* older, or starts over.                                                     *)
LEMMA StepHolds ==
  ASSUME CdInv, CdNext
  PROVE  CdInv' /\ (Onward(cd, cd') \/ Kind(cd, cd'))
<1>0. Holds(cd, asked)  BY DEF CdInv
<1>1. CASE Tick
  <2>1. PICK found : cd' = Ticked(cd, found) /\ asked' = asked  BY <1>1 DEF Tick
  <2>. QED  BY <1>0, <2>1, TimePassed DEF Goes, CdInv
<1>2. CASE \E cmd \in Commands : WriteCommand(cmd)
  <2>. DEFINE m == [cd EXCEPT !.busy = Busy]
  <2>1. PICK cmd \in Commands : asked' = asked + 1 /\ cd' = ExecuteCommand(m, asked + 1, cmd)
    BY <1>2 DEF WriteCommand
  <2>2. Types(cd) /\ Busy \in Nat /\ Busy > 0  BY <1>0, CdRomAssumption DEF Holds, Sound
  <2>3. Types(m)  BY <2>2 DEF Types, Fields
  <2>4. /\ Alike(cd, m) /\ m.busy = Busy /\ m.queue = cd.queue /\ m.shown = cd.shown
        /\ m.lba = cd.lba /\ m.state = cd.state /\ m.begin = cd.begin
    BY <2>2, <2>3 DEF Types, Fields, Alike, Essential
  <2>. HIDE DEF m
  <2>5. Place(m)  BY <1>0, <2>4, SamePlace DEF Holds
  <2>6. Holds(m, asked) /\ m.busy > 0  BY <1>0, <2>2, <2>4, <2>5, AlikeHolds
  <2>7. Holds(cd', asked + 1) /\ Kind(m, cd')  BY <2>1, <2>6, Commanded
  <2>. QED  BY <2>1, <2>4, <2>7 DEF Kind, CdInv
<1>3. CASE \E clear \in BOOLEAN : Acknowledge(clear)
  <2>1. PICK clear \in BOOLEAN : cd' = AcknowledgedIrq(cd, clear) /\ asked' = asked
    BY <1>3 DEF Acknowledge
  <2>. QED  BY <1>0, <2>1, Acknowledgement DEF Goes, CdInv
<1>4. CASE ReadResponse
  BY <1>0, <1>4, ResponseRead DEF ReadResponse, Goes, CdInv
<1>5. CASE \E on \in BOOLEAN : RequestData(on)
  <2>1. PICK on \in BOOLEAN : cd' = [cd EXCEPT !.request = on] /\ asked' = asked
    BY <1>5 DEF RequestData
  <2>. QED  BY <1>0, <2>1, DataRequested DEF Goes, CdInv
<1>6. CASE ReadData
  BY <1>0, <1>6, WordTaken DEF ReadData, Goes, CdInv
<1>. QED  BY <1>1, <1>2, <1>3, <1>4, <1>5, <1>6 DEF CdNext, Guest

THEOREM CdInvariance == CdSpec => []CdInv
<1>1. CdInv /\ [CdNext]_cdVars => CdInv'
  <2>1. CASE UNCHANGED cdVars  BY <2>1 DEF cdVars, CdInv
  <2>. QED  BY <2>1, StepHolds
<1>. QED  BY AtReset, <1>1, PTL DEF CdSpec

(* Every command is answered first once, in the order of the commands, for    *)
(* any delays, any backlog and any number of commands.                        *)
THEOREM EveryCommandAnswered == CdSpec => []AnswersOwed
<1>1. CdInv => AnswersOwed
  <2>. SUFFICES ASSUME CdInv  PROVE AnswersOwed
    OBVIOUS
  <2>. DEFINE owed == {i \in DOMAIN cd.irqs : cd.irqs[i].of # 0}
  <2>1. OwedIn(cd.irqs, cd.heard, asked)  BY DEF CdInv, Holds, Owed
  <2>2. {cd.irqs[i].of : i \in owed} = cd.heard+1..asked
    <3>1. \A i \in owed : cd.irqs[i].of \in cd.heard+1..asked  BY <2>1 DEF OwedIn
    <3>2. \A k \in cd.heard+1..asked : \E i \in owed : cd.irqs[i].of = k
      <4>. TAKE k \in cd.heard+1..asked
      <4>1. PICK i \in DOMAIN cd.irqs : cd.irqs[i].of = k  BY <2>1 DEF OwedIn
      <4>2. k # 0  BY <2>1 DEF OwedIn
      <4>. QED  BY <4>1, <4>2
    <3>. QED  BY <3>1, <3>2
  <2>3. \A i, j \in owed : i < j => cd.irqs[i].of < cd.irqs[j].of  BY <2>1 DEF OwedIn
  <2>. QED  BY <2>2, <2>3 DEF AnswersOwed
<1>. QED  BY <1>1, CdInvariance, PTL

(* At most one data-ready interrupt at a time, up, waiting for its gap or in  *)
(* the queue, and none left over from an earlier read command.                *)
THEOREM DataReadyOnce == CdSpec => []OneDataReady
<1>1. CdInv => OneDataReady
  BY DEF CdInv, Holds, Sound, One, OneDataReady
<1>. QED  BY <1>1, CdInvariance, PTL

(* A sector in the buffer was announced or will be, unless a sector was       *)
(* queued behind another's interrupt or went past the queue.                  *)
THEOREM SectorsAnnounced == CdSpec => []AnnouncedIfPrompt
<1>1. CdInv => AnnouncedIfPrompt
  BY DEF CdInv, Holds, Sound, Announced, AnnouncedIfPrompt, HasPendingDataReadyIrq, DataReadyWaits
<1>. QED  BY <1>1, CdInvariance, PTL

(* No step shows the guest an older sector of the stream than it has seen,    *)
(* unless one went past the queue.                                            *)
THEOREM SectorsShownInOrder == CdSpec => SectorsInOrder
<1>. DEFINE Forward == cd'.shown \notin {cd.shown, -1} => cd'.shown > cd.shown \/ cd.over
<1>1. CdInv /\ [CdNext]_cdVars => [Forward]_cdVars
  <2>. SUFFICES ASSUME CdInv, CdNext  PROVE Forward
    OBVIOUS
  <2>. SUFFICES ASSUME cd'.shown # cd.shown, cd'.shown # -1, ~cd.over
                PROVE  cd'.shown > cd.shown
    OBVIOUS
  <2>1. CdInv' /\ Onward(cd, cd')  BY StepHolds DEF Kind
  <2>2. cd.shown \in Int /\ Above(cd, cd.shown)  BY DEF CdInv, Holds, Sound, Types, Ordered
  <2>3. cd'.shown \in Int  BY <2>1 DEF CdInv, Holds, Sound, Types
  <2>4. cd'.shown >= cd.shown  BY <2>1, <2>2 DEF Onward, Above
  <2>. QED  BY <2>2, <2>3, <2>4
<1>. QED  BY <1>1, CdInvariance, PTL DEF CdSpec, SectorsInOrder
=============================================================================
