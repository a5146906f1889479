-------------------------- MODULE RunControlProofs --------------------------
(***************************************************************************)
(* Type correctness and the safety invariants of RunControl, for every     *)
(* behaviour of the specification.                                         *)
(***************************************************************************)
EXTENDS RunControl, TLAPS

(* The inductive strengthening.  The invariants speak of moments at which  *)
(* the UI holds the machine; what makes them inductive is where each flag  *)
(* is known from the location of one thread alone.                         *)
IInv ==
  /\ TypeOK
  /\ frame_active <=> worker \in InFrame
  /\ system <=> worker # "none"
  /\ running => begun = 0 /\ ui \in {"idle", "resume", "resume_notify"}
  /\ worker = "begin" => begun = 0
  /\ begun <= 1
  /\ worker = "eof_playback" => stopped_at_eof
  /\ PauseDrainsFrame
  /\ MutedOnlyAfterEof

USE DEF UiAt, WorkerAt, InFrame, UiHolds

(* The initial state, before start(), satisfies the strengthening. *)
LEMMA InitIInv == Init => IInv
  <1> SUFFICES ASSUME Init PROVE IInv
    OBVIOUS
  <1>1. /\ running \in BOOLEAN /\ stop_requested \in BOOLEAN
        /\ frame_active \in BOOLEAN /\ stopped_at_eof \in BOOLEAN
        /\ system \in BOOLEAN /\ playback \in BOOLEAN
        /\ grim_watch \in BOOLEAN /\ watch_alive \in BOOLEAN
        /\ watch_in_use \in BOOLEAN
    BY Zenon DEF Init
  <1>2. QED
    BY <1>1 DEF Init, IInv, TypeOK, PauseDrainsFrame, MutedOnlyAfterEof

(* A call the UI begins preserves the strengthening. *)
LEMMA UiCallIInv == IInv /\ UiCall => IInv'
  <1> SUFFICES ASSUME IInv, UiCall PROVE IInv'
    OBVIOUS
  <1> USE DEF IInv, TypeOK, PauseDrainsFrame, MutedOnlyAfterEof,
              flags, machine, watch, StoreRunning
  <1>1. CASE Start
    <2>1. /\ system' \in BOOLEAN /\ running' \in BOOLEAN
          /\ stop_requested' \in BOOLEAN /\ frame_active' \in BOOLEAN
          /\ stopped_at_eof' \in BOOLEAN
      BY <1>1, Zenon DEF Start
    <2>2. QED
      BY <1>1, <2>1 DEF Start
  <1>2. CASE Resume
    BY <1>2 DEF Resume
  <1>3. CASE Pause
    <2>1. running' \in BOOLEAN
      BY <1>3, Zenon DEF Pause
    <2>2. QED
      BY <1>3, <2>1 DEF Pause
  <1>4. CASE Stop
    <2>1. running' \in BOOLEAN
      BY <1>4, Zenon DEF Stop
    <2>2. QED
      BY <1>4, <2>1 DEF Stop
  <1>5. CASE ClearWatch
    BY <1>5 DEF ClearWatch
  <1>6. CASE BuildWatch
    BY <1>6 DEF BuildWatch
  <1>7. QED
    BY <1>1, <1>2, <1>3, <1>4, <1>5, <1>6 DEF UiCall

(* Every later step of a UI call preserves the strengthening. *)
LEMMA UiStepIInv == IInv /\ UiStep => IInv'
  <1> SUFFICES ASSUME IInv, UiStep PROVE IInv'
    OBVIOUS
  <1> USE DEF IInv, TypeOK, PauseDrainsFrame, MutedOnlyAfterEof,
              flags, machine, watch, NotifyControl
  <1>1. CASE ResumePlayback
    BY <1>1 DEF ResumePlayback
  <1>2. CASE ResumeNotify
    BY <1>2 DEF ResumeNotify
  <1>3. CASE PausePlayback
    BY ZenonT(30), <1>3 DEF PausePlayback
  <1>4. CASE PauseNotify
    BY <1>4 DEF PauseNotify
  <1>5. CASE WaitTest
    BY <1>5 DEF WaitTest
  <1>6. CASE WaitEnter
    BY <1>6 DEF WaitEnter
  <1>7. CASE StopRequest
    BY <1>7 DEF StopRequest
  <1>8. CASE StopNotify
    BY <1>8 DEF StopNotify
  <1>9. CASE Join
    BY <1>9 DEF Join
  <1>10. CASE DestroyWatch
    BY ZenonT(30), <1>10 DEF DestroyWatch
  <1>11. CASE InstallWatch
    BY <1>11 DEF InstallWatch
  <1>12. QED
    BY <1>1, <1>2, <1>3, <1>4, <1>5, <1>6, <1>7, <1>8, <1>9, <1>10, <1>11 DEF UiStep

(* Every step of the emulator thread preserves the strengthening. *)
LEMMA WorkerStepIInv == IInv /\ WorkerStep => IInv'
  <1> SUFFICES ASSUME IInv, WorkerStep PROVE IInv'
    OBVIOUS
  <1> USE DEF IInv, TypeOK, PauseDrainsFrame, MutedOnlyAfterEof,
              flags, machine, watch, WorkerGoes, NotifyIdle
  <1>1. CASE Top
    BY <1>1 DEF Top
  <1>2. CASE ControlTest
    BY <1>2 DEF ControlTest
  <1>3. CASE ControlEnter
    BY <1>3 DEF ControlEnter
  <1>4. CASE Woken
    BY <1>4 DEF Woken
  <1>5. CASE LoopTest
    BY <1>5 DEF LoopTest
  <1>6. CASE BeginFrame
    BY <1>6 DEF BeginFrame
  <1>7. CASE RunFrame
    BY <1>7 DEF RunFrame
  <1>8. CASE RestoreFrame
    BY <1>8 DEF RestoreFrame
  <1>9. CASE OnFrame
    BY <1>9 DEF OnFrame
  <1>10. CASE Publish
    BY ZenonT(30), <1>10 DEF Publish
  <1>11. CASE FrameNotify
    BY <1>11 DEF FrameNotify
  <1>12. CASE EofRunning
    BY ZenonT(30), <1>12 DEF EofRunning
  <1>13. CASE EofFlag
    BY <1>13 DEF EofFlag
  <1>14. CASE EofPlayback
    BY <1>14 DEF EofPlayback
  <1>15. CASE EofEnd
    BY ZenonT(30), <1>15 DEF EofEnd
  <1>16. CASE ExitClear
    BY ZenonT(30), <1>16 DEF ExitClear
  <1>17. CASE ExitNotify
    BY <1>17 DEF ExitNotify
  <1>18. QED
    BY <1>1, <1>2, <1>3, <1>4, <1>5, <1>6, <1>7, <1>8, <1>9, <1>10, <1>11,
       <1>12, <1>13, <1>14, <1>15, <1>16, <1>17 DEF WorkerStep

(* The strengthening holds in every reachable state. *)
LEMMA Inductive == Spec => []IInv
  <1>1. IInv /\ [Next]_vars => IInv'
    <2>1. ASSUME IInv, SpuriousWake PROVE IInv'
      BY <2>1 DEF IInv, TypeOK, PauseDrainsFrame, MutedOnlyAfterEof,
                  flags, machine, watch, SpuriousWake
    <2>2. ASSUME IInv, UNCHANGED vars PROVE IInv'
      BY <2>2 DEF IInv, TypeOK, PauseDrainsFrame, MutedOnlyAfterEof,
                  vars, flags, machine, watch
    <2>3. QED
      BY <2>1, <2>2, UiCallIInv, UiStepIInv, WorkerStepIInv DEF Next
  <1>2. QED
    BY <1>1, InitIInv, PTL DEF Spec

(* The control protocol is type correct. *)
THEOREM TypeCorrect == Spec => []TypeOK
  <1>1. IInv => TypeOK
    BY DEF IInv
  <1>2. QED
    BY <1>1, Inductive, PTL

(* Clearing running_ is followed by at most one further frame. *)
THEOREM StrayFrameBound == Spec => []AtMostOneStrayFrame
  <1>1. IInv => AtMostOneStrayFrame
    BY DEF IInv, AtMostOneStrayFrame
  <1>2. QED
    BY <1>1, Inductive, PTL

(* pause_and_wait_idle() never returns inside the frame it interrupted. *)
THEOREM PauseDrains == Spec => []PauseDrainsFrame
  <1>1. IInv => PauseDrainsFrame
    BY DEF IInv
  <1>2. QED
    BY <1>1, Inductive, PTL

(* The emulator thread never runs a frame on a null System. *)
THEOREM SystemPresent == Spec => []NoNullSystem
  <1>1. IInv => NoNullSystem
    BY DEF IInv, NoNullSystem
  <1>2. QED
    BY <1>1, Inductive, PTL

(* Only the end of an input movie can leave a running machine muted. *)
THEOREM MuteNeedsEof == Spec => []MutedOnlyAfterEof
  <1>1. IInv => MutedOnlyAfterEof
    BY DEF IInv
  <1>2. QED
    BY <1>1, Inductive, PTL
=============================================================================
