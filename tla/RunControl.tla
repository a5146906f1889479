----------------------------- MODULE RunControl -----------------------------
(***************************************************************************)
(* The control protocol of EmuRunner (src/ui/emu_runner.cpp): the UI       *)
(* thread starts, runs, pauses and stops the emulator thread through       *)
(* atomic flags and two condition variables, and uses the emulated machine *)
(* itself once pause_and_wait_idle() has returned.                         *)
(*                                                                         *)
(* One step is one access to a shared atomic, one notify, or one phase of  *)
(* a condition-variable wait.  A wait is three phases (the predicate is    *)
(* false; the thread enters the wait set; it is woken), because the        *)
(* notifying side never takes the mutex and may run between them.          *)
(***************************************************************************)
EXTENDS Naturals

VARIABLES
  ui,             (* where the UI thread is inside the EmuRunner API        *)
  worker,         (* where worker_main() is                                 *)
  running,        (* running_                                               *)
  stop_requested, (* stop_requested_                                        *)
  frame_active,   (* frame_active_                                          *)
  stopped_at_eof, (* playback_stopped_at_eof_                               *)
  system,         (* system_ is not null                                    *)
  playback,       (* the SPU's host playback switch inside the System       *)
  grim_watch,     (* grim_watch_ is not null                                *)
  watch_alive,    (* the GrimLiveWatch object the UI owns exists            *)
  watch_in_use,   (* the pointer the worker loaded for this frame was set   *)
  begun           (* frames begun since the UI last stored running_ (0..2)  *)

flags == <<running, stop_requested, frame_active, stopped_at_eof>>
machine == <<system, playback>>
watch == <<grim_watch, watch_alive, watch_in_use>>
vars == <<ui, worker, flags, machine, watch, begun>>

(* "idle": outside the API.  "held": pause_and_wait_idle() returned and    *)
(* running_ has not been set since, so the UI may use the System.          *)
UiAt == {"idle", "held", "resume", "resume_notify",
         "pause", "pause_notify", "wait_test", "wait_enter", "wait_blocked",
         "stop", "stop_notify", "join",
         "watch_cleared", "watch_built"}

(* Locations at which worker_main() is inside run_one_frame(), or inside   *)
(* the rewind branch that replaces it, with frame_active_ set.             *)
InFrame == {"frame", "eof_flag", "eof_playback", "eof_end", "on_frame", "publish"}

WorkerAt == {"none", "top", "test", "enter", "blocked", "woken", "loop",
             "begin", "end", "exit", "exit_notify", "exited"} \cup InFrame

Init ==
  /\ ui = "idle" /\ worker = "none"
  /\ running = FALSE /\ stop_requested = FALSE /\ frame_active = FALSE
  /\ stopped_at_eof = FALSE
  /\ system = FALSE /\ playback = FALSE
  /\ grim_watch = FALSE /\ watch_alive = FALSE /\ watch_in_use = FALSE
  /\ begun = 0

-----------------------------------------------------------------------------
(* notify_all() moves a thread out of the wait set; a thread that has only *)
(* evaluated its predicate is not in the set and misses it.                *)
NotifyControl == worker' = IF worker = "blocked" THEN "test" ELSE worker
NotifyIdle == ui' = IF ui = "wait_blocked" THEN "wait_test" ELSE ui

(* A store by the UI restarts the count of frames begun since. *)
StoreRunning(b) == running' = b /\ begun' = 0

-----------------------------------------------------------------------------
(* The UI thread.                                                          *)

Start ==
  /\ ui = "idle" /\ worker = "none"
  /\ system' = TRUE
  /\ StoreRunning(FALSE)
  /\ stop_requested' = FALSE /\ frame_active' = FALSE /\ stopped_at_eof' = FALSE
  /\ worker' = "top"
  /\ UNCHANGED <<ui, playback, watch>>

(* set_running(true), from a paused machine or from F5 while not running.  *)
Resume ==
  /\ worker # "none"
  /\ \/ ui = "held"
     \/ ui = "idle" /\ ~running
  /\ StoreRunning(TRUE)
  /\ ui' = "resume"
  /\ UNCHANGED <<worker, stop_requested, frame_active, stopped_at_eof, machine, watch>>

ResumePlayback ==
  /\ ui = "resume"
  /\ playback' = TRUE
  /\ ui' = "resume_notify"
  /\ UNCHANGED <<worker, flags, system, watch, begun>>

ResumeNotify ==
  /\ ui = "resume_notify"
  /\ NotifyControl
  /\ ui' = "idle"
  /\ UNCHANGED <<flags, machine, watch, begun>>

(* pause_and_wait_idle() = set_running(false); wait_until_idle(). *)
Pause ==
  /\ ui \in {"idle", "held"} /\ worker # "none"
  /\ StoreRunning(FALSE)
  /\ ui' = "pause"
  /\ UNCHANGED <<worker, stop_requested, frame_active, stopped_at_eof, machine, watch>>

PausePlayback ==
  /\ ui = "pause"
  /\ playback' = FALSE
  /\ ui' = "pause_notify"
  /\ UNCHANGED <<worker, flags, system, watch, begun>>

PauseNotify ==
  /\ ui = "pause_notify"
  /\ NotifyControl
  /\ ui' = "wait_test"
  /\ UNCHANGED <<flags, machine, watch, begun>>

(* Mutant: the wait does not look at frame_active_. *)
WaitTestSkipped ==
  /\ ui = "wait_test"
  /\ ui' = "held"
  /\ UNCHANGED <<worker, flags, machine, watch, begun>>

WaitTest ==
  /\ ui = "wait_test"
  /\ ui' = IF frame_active THEN "wait_enter" ELSE "held"
  /\ UNCHANGED <<worker, flags, machine, watch, begun>>

WaitEnter ==
  /\ ui = "wait_enter"
  /\ ui' = "wait_blocked"
  /\ UNCHANGED <<worker, flags, machine, watch, begun>>

(* stop(); the App calls it with no grim watch installed. *)
Stop ==
  /\ ui \in {"idle", "held"} /\ worker # "none"
  /\ ~grim_watch
  /\ StoreRunning(FALSE)
  /\ ui' = "stop"
  /\ UNCHANGED <<worker, stop_requested, frame_active, stopped_at_eof, machine, watch>>

StopRequest ==
  /\ ui = "stop"
  /\ stop_requested' = TRUE
  /\ ui' = "stop_notify"
  /\ UNCHANGED <<worker, running, frame_active, stopped_at_eof, machine, watch, begun>>

(* Mutant: stop() wakes nobody. *)
StopNotifyForgotten ==
  /\ ui = "stop_notify"
  /\ ui' = "join"
  /\ UNCHANGED <<worker, flags, machine, watch, begun>>

StopNotify ==
  /\ ui = "stop_notify"
  /\ NotifyControl
  /\ ui' = "join"
  /\ UNCHANGED <<flags, machine, watch, begun>>

Join ==
  /\ ui = "join" /\ worker = "exited"
  /\ worker' = "none"
  /\ system' = FALSE
  /\ ui' = "idle"
  /\ UNCHANGED <<flags, playback, watch, begun>>

(* grim_pull_release(): clear the pointer, then destroy the watch. *)
ClearWatch ==
  /\ ui = "held" /\ grim_watch
  /\ grim_watch' = FALSE
  /\ ui' = "watch_cleared"
  /\ UNCHANGED <<worker, flags, machine, watch_alive, watch_in_use, begun>>

DestroyWatch ==
  /\ ui = "watch_cleared"
  /\ watch_alive' = FALSE
  /\ ui' = "held"
  /\ UNCHANGED <<worker, flags, machine, grim_watch, watch_in_use, begun>>

(* Booting a pull builds the watch, then publishes the pointer. *)
BuildWatch ==
  /\ ui = "held" /\ ~grim_watch /\ ~watch_alive
  /\ watch_alive' = TRUE
  /\ ui' = "watch_built"
  /\ UNCHANGED <<worker, flags, machine, grim_watch, watch_in_use, begun>>

InstallWatch ==
  /\ ui = "watch_built"
  /\ grim_watch' = TRUE
  /\ ui' = "held"
  /\ UNCHANGED <<worker, flags, machine, watch_alive, watch_in_use, begun>>

UiStep ==
  \/ ResumePlayback \/ ResumeNotify
  \/ PausePlayback \/ PauseNotify \/ WaitTest \/ WaitEnter
  \/ StopRequest \/ StopNotify \/ Join
  \/ DestroyWatch \/ InstallWatch

UiCall == Start \/ Resume \/ Pause \/ Stop \/ ClearWatch \/ BuildWatch

-----------------------------------------------------------------------------
(* The emulator thread, worker_main().                                     *)

WorkerGoes(from, to) == worker = from /\ worker' = to

Top ==
  /\ WorkerGoes("top", IF stop_requested THEN "exit" ELSE "test")
  /\ UNCHANGED <<ui, flags, machine, watch, begun>>

ControlTest ==
  /\ WorkerGoes("test", IF stop_requested \/ running THEN "woken" ELSE "enter")
  /\ UNCHANGED <<ui, flags, machine, watch, begun>>

ControlEnter ==
  /\ WorkerGoes("enter", "blocked")
  /\ UNCHANGED <<ui, flags, machine, watch, begun>>

Woken ==
  /\ WorkerGoes("woken", IF stop_requested THEN "exit"
                         ELSE IF running /\ system THEN "loop" ELSE "top")
  /\ UNCHANGED <<ui, flags, machine, watch, begun>>

(* Mutant: the frame loop only looks for a stop request. *)
LoopTestStopOnly ==
  /\ WorkerGoes("loop", IF stop_requested THEN "top" ELSE "begin")
  /\ UNCHANGED <<ui, flags, machine, watch, begun>>

(* Every path to a frame reads running_ and stop_requested_ last. *)
LoopTest ==
  /\ WorkerGoes("loop", IF running /\ ~stop_requested THEN "begin" ELSE "top")
  /\ UNCHANGED <<ui, flags, machine, watch, begun>>

BeginFrame ==
  /\ WorkerGoes("begin", "frame")
  /\ frame_active' = TRUE
  /\ begun' = IF running \/ begun = 2 THEN begun ELSE begun + 1
  /\ UNCHANGED <<ui, running, stop_requested, stopped_at_eof, machine, watch>>

(* system_->run_frame() completed; the worker loads grim_watch_. *)
RunFrame ==
  /\ WorkerGoes("frame", "on_frame")
  /\ watch_in_use' = grim_watch
  /\ UNCHANGED <<ui, flags, machine, grim_watch, watch_alive, begun>>

(* The rewind branch restores a snapshot instead of running a frame. *)
RestoreFrame ==
  /\ WorkerGoes("frame", "publish")
  /\ UNCHANGED <<ui, flags, machine, watch, begun>>

OnFrame ==
  /\ WorkerGoes("on_frame", "publish")
  /\ watch_in_use' = FALSE
  /\ UNCHANGED <<ui, flags, machine, grim_watch, watch_alive, begun>>

Publish ==
  /\ WorkerGoes("publish", "end")
  /\ frame_active' = FALSE
  /\ UNCHANGED <<ui, running, stop_requested, stopped_at_eof, machine, watch, begun>>

FrameNotify ==
  /\ WorkerGoes("end", "loop")
  /\ NotifyIdle
  /\ UNCHANGED <<flags, machine, watch, begun>>

(* The input movie ended: the worker pauses the machine by itself. *)
EofRunning ==
  /\ WorkerGoes("frame", "eof_flag")
  /\ running' = FALSE
  /\ UNCHANGED <<ui, stop_requested, frame_active, stopped_at_eof, machine, watch, begun>>

EofFlag ==
  /\ WorkerGoes("eof_flag", "eof_playback")
  /\ stopped_at_eof' = TRUE
  /\ UNCHANGED <<ui, running, stop_requested, frame_active, machine, watch, begun>>

EofPlayback ==
  /\ WorkerGoes("eof_playback", "eof_end")
  /\ playback' = FALSE
  /\ UNCHANGED <<ui, flags, system, watch, begun>>

EofEnd ==
  /\ WorkerGoes("eof_end", "end")
  /\ frame_active' = FALSE
  /\ UNCHANGED <<ui, running, stop_requested, stopped_at_eof, machine, watch, begun>>

ExitClear ==
  /\ WorkerGoes("exit", "exit_notify")
  /\ frame_active' = FALSE
  /\ UNCHANGED <<ui, running, stop_requested, stopped_at_eof, machine, watch, begun>>

ExitNotify ==
  /\ WorkerGoes("exit_notify", "exited")
  /\ NotifyIdle
  /\ UNCHANGED <<flags, machine, watch, begun>>

WorkerStep ==
  \/ Top \/ ControlTest \/ ControlEnter \/ Woken \/ LoopTest
  \/ BeginFrame \/ RunFrame \/ RestoreFrame \/ OnFrame \/ Publish \/ FrameNotify
  \/ EofRunning \/ EofFlag \/ EofPlayback \/ EofEnd
  \/ ExitClear \/ ExitNotify

(* std::condition_variable may wake a thread that nobody notified. *)
SpuriousWake ==
  /\ \/ worker = "blocked" /\ worker' = "test" /\ UNCHANGED ui
     \/ ui = "wait_blocked" /\ ui' = "wait_test" /\ UNCHANGED worker
  /\ UNCHANGED <<flags, machine, watch, begun>>

-----------------------------------------------------------------------------
Next == UiCall \/ UiStep \/ WorkerStep \/ SpuriousWake

(* Both threads keep executing.  Nothing obliges the UI to make a call, or *)
(* the implementation to wake a thread spuriously.                         *)
Fairness == WF_vars(UiStep) /\ WF_vars(WorkerStep)

Spec == Init /\ [][Next]_vars
FairSpec == Spec /\ Fairness

-----------------------------------------------------------------------------
(* Every variable keeps its type: the locations of both threads, the       *)
(* Boolean flags of EmuRunner, and the bounded frame count.                *)
TypeOK ==
  /\ ui \in UiAt /\ worker \in WorkerAt
  /\ running \in BOOLEAN /\ stop_requested \in BOOLEAN
  /\ frame_active \in BOOLEAN /\ stopped_at_eof \in BOOLEAN
  /\ system \in BOOLEAN /\ playback \in BOOLEAN
  /\ grim_watch \in BOOLEAN /\ watch_alive \in BOOLEAN /\ watch_in_use \in BOOLEAN
  /\ begun \in 0..2

UiHolds == ui \in {"held", "watch_cleared", "watch_built"}

(* After running_ is cleared the emulator thread begins at most one more   *)
(* frame (the one whose check of running_ had already passed), whoever     *)
(* cleared it.                                                             *)
AtMostOneStrayFrame == ~running => begun <= 1

(* pause_and_wait_idle() really waits: once it has returned, a frame in    *)
(* progress can only be one that began after running_ was cleared, never   *)
(* the frame the UI paused in the middle of.                               *)
PauseDrainsFrame == UiHolds /\ worker \in InFrame => begun = 1

(* The worker never dereferences system_ when it is null: stop() clears it *)
(* only after the join, and start() sets it before the thread exists.      *)
NoNullSystem == worker \in InFrame \cup {"begin"} => system

(* A machine left running with its host audio switched off means a movie   *)
(* ended while the user resumed; set_running() alone never mutes it.       *)
MutedOnlyAfterEof ==
  running /\ ui # "resume" /\ ~playback => stopped_at_eof

MissedStop == ui = "join" /\ worker = "enter"
MissedIdle == ui = "wait_enter" /\ worker = "loop"

(* stop() and pause_and_wait_idle() return, unless the one notify_all()    *)
(* that would wake the other thread fell between its predicate and its     *)
(* wait: no other interleaving can hang a join or a pause.                 *)
CallsReturnUnlessMissed ==
  /\ (ui = "stop") ~> (ui = "idle" \/ MissedStop)
  /\ (ui = "pause") ~> (UiHolds \/ MissedIdle)
=============================================================================
