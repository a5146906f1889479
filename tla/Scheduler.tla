------------------------------ MODULE Scheduler ------------------------------
(***************************************************************************)
(* The event-driven scheduler of src/core/system.cpp: run_frame() lets the *)
(* CPU run straight to the earliest deadline and advances devices lazily,  *)
(* when their event is due or the guest touches their registers.           *)
(*                                                                         *)
(* A device is its next event, the absolute cycle at which it raises an    *)
(* interrupt or moves a DMA request line.  When a device is advanced past  *)
(* the event, or written, the next one is any later cycle, or none; module *)
(* Timers shows for the root counters that the advertised cycle is exact   *)
(* and that advancing in pieces changes nothing.  The SPU has two events:  *)
(* "spu", at which a transfer mode written to SPUCNT is latched and moves  *)
(* the SPU's DMA request, and "watch", its next sample while IRQ9 is armed.*)
(***************************************************************************)
EXTENDS Integers

CONSTANTS
  Device,     (* the events: "timers", "spu", "watch" and other devices'   *)
  Feeder,     (* those whose events move a DMA request: cd, mdec, spu      *)
  Drive,      (* those brought up to date before a DMA service: cd, mdec   *)
  Lines, LineCycles,             (* scanlines per frame, cycles per line   *)
  SpuStride,                     (* spu_sync_scanline_stride               *)
  Gap,                           (* kDmaSliceGapCycles                     *)
  MaxCost, MaxStall, MaxDelay,   (* bounds: instruction, transfer, event   *)
  MaxFrames                      (* bound: frames run                      *)

ASSUME SchedulerAssumption ==
  /\ {"timers", "spu", "watch"} \subseteq Device /\ "dma" \notin Device
  /\ Feeder \subseteq Device \ {"timers", "watch"} /\ "spu" \in Feeder
  /\ Drive \subseteq Feeder \ {"spu"}
  /\ Lines \in Nat \ {0} /\ LineCycles \in Nat \ {0}
  /\ SpuStride \in Nat \ {0} /\ Gap \in Nat
  /\ MaxCost \in Nat \ {0} /\ MaxStall \in Nat /\ MaxDelay \in Nat /\ MaxFrames \in Nat

VARIABLES
  at,         (* where run_frame() is                                      *)
  clock,      (* cpu_.cycle_count()                                        *)
  timers,     (* timers_synced_cycle_                                      *)
  deadline,   (* next event of each device; of "dma", dma_service_cycle_   *)
  waiting,    (* dma_.has_waiting_channel()                                *)
  request,    (* that channel's request line                               *)
  line,       (* scanline                                                  *)
  edge,       (* scanline_edge_cycle_ = scanline_end                       *)
  runEnd,     (* run_end_cycle_                                            *)
  boundary,   (* cpu_timing_boundary_requested_                            *)
  frame,      (* frames begun                                              *)
  stalled,    (* the last DMA service moved the clock                      *)
  silent      (* the request last moved without the scheduler being told   *)

vars == <<at, clock, timers, deadline, waiting, request, line, edge, runEnd, boundary, frame,
          stalled, silent>>

Never == -1   (* kNoDeadline, ~0ull *)
Source == Device \cup {"dma"}

Least(a, b) == IF a <= b THEN a ELSE b
Greatest(a, b) == IF a >= b THEN a ELSE b
IsDue(s, t) == deadline[s] # Never /\ deadline[s] <= t
Later(t) == (t + 1 .. t + MaxDelay) \cup {Never}

Init ==
  /\ at = "between" /\ clock = 0 /\ timers = 0
  /\ deadline = [s \in Source |-> Never]
  /\ waiting = FALSE /\ request = FALSE
  /\ line = 0 /\ edge = 0 /\ runEnd = 0 /\ boundary = FALSE /\ frame = 0
  /\ stalled = FALSE /\ silent = FALSE

(* sync_timers() never passes an edge that has not been applied. *)
SyncTimers(t) == timers' = Greatest(timers, Least(t, edge))

(* These devices are now at cycle t and have their next event later. *)
Reschedule(devices, t, dma) ==
  \E next \in [devices -> Later(t)] :
    deadline' = [s \in Source |-> IF s = "dma" THEN dma
                                  ELSE IF s \in devices THEN next[s] ELSE deadline[s]]

(* sync_spu(): what bringing the SPU to cycle t moves.  Only a write arms  *)
(* the watch: a sync puts its next sample off, or ends it with the IRQ.    *)
SpuMoves(t) == {"watch"} \cup {d \in {"spu"} : IsDue(d, t)}

WatchPutOff ==
  \/ deadline'["watch"] = Never
  \/ deadline["watch"] # Never /\ deadline'["watch"] >= deadline["watch"]

(* dma_service_cycle_ = min(dma_service_cycle_, t) while a channel waits. *)
ServiceBy(t) == IF waiting' /\ ~IsDue("dma", t) THEN t ELSE deadline["dma"]

-----------------------------------------------------------------------------
(* A frame begins at the absolute edge where the last one ended. *)
BeginFrame ==
  /\ at = "between" /\ frame < MaxFrames
  /\ at' = "edge" /\ frame' = frame + 1
  /\ edge' = IF clock > edge + Lines * LineCycles THEN clock ELSE edge
  /\ UNCHANGED <<clock, timers, deadline, waiting, request, line, runEnd, boundary, stalled, silent>>

(* save_state() and restore_state(): the times travel as distances from    *)
(* the clock, and a DMA service that is overdue becomes due now.           *)
SaveAndRestore ==
  /\ at = "between"
  /\ deadline' = [deadline EXCEPT !["dma"] = IF @ = Never THEN Never ELSE Greatest(@, clock)]
  /\ runEnd' = 0 /\ boundary' = FALSE
  /\ UNCHANGED <<at, clock, timers, waiting, request, line, edge, frame, stalled, silent>>

(* The timers are brought to the start of the scanline, and the blanking   *)
(* state, which can pause or release them, is applied there.               *)
BeginLine ==
  /\ at = "edge" /\ at' = "serve"
  /\ SyncTimers(edge)
  /\ Reschedule({"timers"}, edge, deadline["dma"])
  /\ edge' = edge + LineCycles
  /\ UNCHANGED <<clock, waiting, request, line, runEnd, boundary, frame, stalled, silent>>

(* Mutant: the events of the feeders do not look at the waiting channel. *)
FireDevicesUnnoticed ==
  LET target  == Least(clock, edge)
      due     == {d \in Device : IsDue(d, target)}
      noticed == (due \cap Feeder) \ {d \in {"spu"} : "watch" \in due}
  IN  /\ at = "serve" /\ at' = "service"
      /\ boundary' = FALSE /\ stalled' = FALSE
      /\ request' \in IF due \cap Feeder # {} THEN BOOLEAN ELSE {request}
      /\ silent' = (noticed = {} /\ (silent \/ request' # request))
      /\ UNCHANGED <<clock, waiting, line, edge, runEnd, frame>>
      /\ Reschedule(due \cup {d \in {"watch"} : "spu" \in due}, target, deadline["dma"])
      /\ WatchPutOff
      /\ IF "timers" \in due THEN SyncTimers(target) ELSE UNCHANGED timers

(* service_device_events(): the devices whose event has come are advanced; *)
(* if that may have moved a request line, a waiting channel is served now. *)
(* The sync for the IRQ9 watch comes before the test of the SPU's own      *)
(* event, takes that event with it, and does not count as such a move.     *)
FireDevices ==
  LET target  == Least(clock, edge)
      due     == {d \in Device : IsDue(d, target)}
      noticed == (due \cap Feeder) \ {d \in {"spu"} : "watch" \in due}
  IN  /\ at = "serve" /\ at' = "service"
      /\ boundary' = FALSE /\ stalled' = FALSE
      /\ request' \in IF due \cap Feeder # {} THEN BOOLEAN ELSE {request}
      /\ silent' = (noticed = {} /\ (silent \/ request' # request))
      /\ UNCHANGED <<clock, waiting, line, edge, runEnd, frame>>
      /\ Reschedule(due \cup {d \in {"watch"} : "spu" \in due}, target,
                    IF noticed # {} THEN ServiceBy(target) ELSE deadline["dma"])
      /\ WatchPutOff
      /\ IF "timers" \in due THEN SyncTimers(target) ELSE UNCHANGED timers

(* service_dma(), nothing to serve or the request is not up: the drives    *)
(* are brought up to date, and their events may raise it.                  *)
ServiceNone ==
  LET due == {d \in Drive : IsDue(d, clock)}
  IN  /\ at = "service" /\ at' = "plan"
      /\ IF IsDue("dma", Least(clock, edge))
           THEN /\ request' \in IF due = {} THEN {request} ELSE BOOLEAN
                /\ ~(waiting /\ request')
                /\ Reschedule(due, clock, Never)
           ELSE UNCHANGED <<request, deadline>>
      /\ UNCHANGED <<clock, timers, waiting, line, edge, runEnd, boundary, frame, stalled, silent>>

(* service_dma() with the request up: the transfer stalls the CPU, and a   *)
(* channel that still waits is served again after a gap.                   *)
ServiceTransfer ==
  /\ at = "service" /\ at' = "plan"
  /\ IsDue("dma", Least(clock, edge))
  /\ waiting /\ (request \/ \E d \in Drive : IsDue(d, clock))
  /\ \E stall \in 1..MaxStall : clock' = clock + stall
  /\ waiting' \in BOOLEAN /\ request' \in BOOLEAN
  /\ \E devices \in {Drive, Feeder \cup {"watch"}} :
       Reschedule(devices, clock, IF waiting' THEN clock' + Gap ELSE Never)
  /\ WatchPutOff
  /\ stalled' = TRUE /\ silent' = FALSE
  /\ UNCHANGED <<timers, line, edge, runEnd, boundary, frame>>

(* Mutant: a deadline that has passed leaves no budget. *)
PlanSliceNoMinimum ==
  /\ at = "plan"
  /\ IF clock >= edge
       THEN at' = "hblank" /\ UNCHANGED runEnd
       ELSE /\ at' = "slice"
            /\ \E end \in ({edge} \cup {deadline[s] : s \in Source}) \ {Never} :
                 /\ \A s \in Source : deadline[s] # Never => end <= deadline[s]
                 /\ end <= edge
                 /\ runEnd' = end
  /\ UNCHANGED <<clock, timers, deadline, waiting, request, line, edge, boundary, frame, stalled, silent>>

(* The CPU is to run to the earliest deadline, one cycle at the least. *)
PlanSlice ==
  /\ at = "plan"
  /\ IF clock >= edge
       THEN at' = "hblank" /\ UNCHANGED runEnd
       ELSE /\ at' = "slice"
            /\ \E end \in ({edge} \cup {deadline[s] : s \in Source}) \ {Never} :
                 /\ \A s \in Source : deadline[s] # Never => end <= deadline[s]
                 /\ end <= edge
                 /\ runEnd' = Greatest(end, clock + 1)
  /\ UNCHANGED <<clock, timers, deadline, waiting, request, line, edge, boundary, frame, stalled, silent>>

-----------------------------------------------------------------------------
(* An instruction retires: the slice goes on until its end is reached or a *)
(* timing boundary was requested.                                          *)
Retire(cycles) ==
  /\ clock < runEnd
  /\ clock' = clock + cycles
  /\ at' = IF clock' >= runEnd \/ boundary' THEN "serve" ELSE "slice"
  /\ stalled' = FALSE
  /\ UNCHANGED <<line, edge, runEnd, frame>>

(* Mutant: a deadline inside the slice does not end it. *)
NoteChangeIgnored == boundary' = boundary

(* note_device_state_changed() *)
NoteChange ==
  boundary' = (boundary \/ \E s \in Source : deadline'[s] # Never /\ deadline'[s] < runEnd)

Compute ==
  /\ UNCHANGED <<timers, deadline, waiting, request, boundary, silent>>
  /\ \E cycles \in 1..MaxCost : Retire(cycles)

SyncOnAccess(d) == IF d = "timers" THEN SyncTimers(clock) ELSE UNCHANGED timers

(* A read without side effects only brings the device up to date. *)
Read(d) ==
  LET moved == IF d = "spu" THEN SpuMoves(clock) ELSE {e \in {d} : IsDue(e, clock)}
  IN  /\ SyncOnAccess(d)
      /\ request' \in IF moved \cap Feeder = {} THEN {request} ELSE BOOLEAN
      /\ silent' = (silent \/ request' # request)
      /\ Reschedule(moved, clock, deadline["dma"])
      /\ WatchPutOff
      /\ UNCHANGED <<waiting, boundary>>
      /\ \E cycles \in 1..MaxCost : Retire(cycles)

(* A write, or a read that acknowledges or pops. *)
Write(d) ==
  /\ SyncOnAccess(d)
  /\ UNCHANGED waiting
  /\ request' \in IF d \in Feeder THEN BOOLEAN ELSE {request}
  /\ silent' = FALSE
  /\ Reschedule(IF d = "spu" THEN {"spu", "watch"} ELSE {d}, clock, ServiceBy(clock))
  /\ NoteChange
  /\ \E cycles \in 1..MaxCost : Retire(cycles)

(* A DMA register write may start a transfer, whose stall is charged to    *)
(* the instruction, and leaves a channel waiting or not.                   *)
WriteDma ==
  /\ waiting' \in BOOLEAN /\ request' \in BOOLEAN
  /\ silent' = FALSE
  /\ \E devices \in {Drive, Feeder \cup {"watch"}} :
       Reschedule(devices, clock, ServiceBy(clock))
  /\ WatchPutOff
  /\ NoteChange
  /\ UNCHANGED timers
  /\ \E cycles \in 1..MaxCost, stall \in 0..MaxStall : Retire(cycles + stall)

(* GP0 and GP1 writes can raise or drop the GPU's request (the DMA         *)
(* direction, a VRAM read), and IoScope does not report them.              *)
WriteGpu ==
  /\ request' \in BOOLEAN
  /\ silent' = (silent \/ request' # request)
  /\ UNCHANGED <<timers, deadline, waiting, boundary>>
  /\ \E cycles \in 1..MaxCost : Retire(cycles)

Instruction ==
  /\ at = "slice"
  /\ \/ Compute
     \/ \E d \in Device \ {"watch"} : Read(d) \/ Write(d)
     \/ WriteDma
     \/ WriteGpu

-----------------------------------------------------------------------------
(* Mutant: the timers are not brought to the edge. *)
EndLineUnsynced ==
  /\ at = "hblank" /\ at' = "sound"
  /\ Reschedule({"timers"}, edge, deadline["dma"])
  /\ UNCHANGED <<clock, timers, waiting, request, line, edge, runEnd, boundary, frame, stalled,
                 silent>>

(* HBlank is applied to the timers exactly at the edge. *)
EndLine ==
  /\ at = "hblank" /\ at' = "sound"
  /\ SyncTimers(edge)
  /\ Reschedule({"timers"}, edge, deadline["dma"])
  /\ UNCHANGED <<clock, waiting, request, line, edge, runEnd, boundary, frame, stalled, silent>>

(* Every SpuStride lines, and at the end of the frame, the SPU is brought  *)
(* to the clock, which may be past the edge; nobody asks whether that      *)
(* moved its request.  Between frames run_end_cycle_ is 0.                 *)
SyncSound ==
  LET now   == (line + 1) % SpuStride = 0 \/ line + 1 = Lines
      moved == IF now THEN SpuMoves(clock) ELSE {}
  IN  /\ at = "sound"
      /\ request' \in IF "spu" \in moved THEN BOOLEAN ELSE {request}
      /\ silent' = (silent \/ request' # request)
      /\ Reschedule(moved, clock, deadline["dma"])
      /\ WatchPutOff
      /\ line' = (line + 1) % Lines
      /\ at' = IF line' = 0 THEN "between" ELSE "edge"
      /\ runEnd' = IF line' = 0 THEN 0 ELSE runEnd
      /\ UNCHANGED <<clock, timers, waiting, edge, boundary, frame, stalled>>

Next ==
  \/ BeginFrame \/ SaveAndRestore
  \/ BeginLine \/ FireDevices \/ ServiceNone \/ ServiceTransfer \/ PlanSlice
  \/ Instruction
  \/ EndLine \/ SyncSound

Spec == Init /\ [][Next]_vars

(* One thread runs the frame to its end. *)
FairSpec == Spec /\ WF_vars(Next)

-----------------------------------------------------------------------------
(* Every variable keeps its type. *)
TypeOK ==
  /\ at \in {"between", "edge", "serve", "service", "plan", "slice", "hblank", "sound"}
  /\ clock \in Nat /\ timers \in Nat /\ edge \in Nat /\ runEnd \in Nat
  /\ deadline \in [Source -> Nat \cup {Never}]
  /\ waiting \in BOOLEAN /\ request \in BOOLEAN /\ boundary \in BOOLEAN
  /\ stalled \in BOOLEAN /\ silent \in BOOLEAN
  /\ line \in 0 .. Lines - 1 /\ frame \in 0..MaxFrames

IsLate == \E s \in Source : IsDue(s, clock)

(* Only a DMA service, which moves the clock after the devices were        *)
(* looked at, lets an instruction start late, and only one.                *)
LateOnlyAfterStall == at = "slice" /\ IsLate => stalled /\ runEnd = clock + 1

(* The blanking edges reach the timers exactly at the cycle of the edge,   *)
(* and an access finds them exactly at the cycle its instruction starts.   *)
TimersExact ==
  [][/\ at \in {"edge", "hblank"} /\ at' # at => timers' = edge
     /\ at = "slice" /\ timers' # timers => timers' = clock]_vars

(* While a channel waits and its request is up the channel has a service   *)
(* to come, so that the transfer is not forgotten, unless the request rose *)
(* where the scheduler is not told.  These places are: an access to the    *)
(* GPU, which IoScope does not report; a read that brings a device past    *)
(* its event but has no side effects; the SPU brought up to date at the    *)
(* end of a line, and for the IRQ9 watch, past the latch of its mode.      *)
RequestServedIfTold == at = "slice" /\ waiting /\ request /\ ~silent => deadline["dma"] # Never

(* The frame ends, whatever the guest and the devices do. *)
FrameEnds == at = "edge" ~> at = "between"
=============================================================================
