------------------------------ MODULE HostAudio ------------------------------
(***************************************************************************)
(* The host end of the SPU (src/core/spu.cpp): the emulator thread enqueues*)
(* audio and starts the SDL device, the SDL callback plays or loops, and   *)
(* both the UI thread (pause, resume) and the emulator thread (disc change,*)
(* end of a movie) reset the output.                                       *)
(*                                                                         *)
(* The ring is the FIFO of AudioFifo, one entry per block of samples; an   *)
(* entry is the number of the playback session in which it was pushed.     *)
(* Each operation on the ring holds its mutex and is one step, as is each  *)
(* access to an atomic.  SDL runs the callback and SDL_PauseAudioDevice()  *)
(* under one lock, so pausing waits for a callback in progress.            *)
(***************************************************************************)
EXTENDS Naturals, Sequences

CONSTANTS
  TargetBlocks, MaxBlocks,   (* target and max latency                     *)
  EnterBlocks, ExitBlocks,   (* stutter_enter_ and stutter_exit_           *)
  MaxSession, MaxSwaps       (* bounds of the model: resumes, disc changes *)

ASSUME LatencyAssumption ==
  /\ TargetBlocks \in Nat \ {0} /\ MaxBlocks \in Nat /\ TargetBlocks <= MaxBlocks
  /\ EnterBlocks \in Nat /\ ExitBlocks \in Nat /\ EnterBlocks <= ExitBlocks
  /\ MaxSession \in Nat /\ MaxSwaps \in Nat

VARIABLES
  playback,  (* host_playback_enabled_                                     *)
  device,    (* the SDL device: "paused" or "running"                      *)
  started,   (* audio_started_                                             *)
  stutter,   (* starvation_stutter_active_                                 *)
  hint,      (* slowdown_stutter_enabled_ and lag_stutter_hint_             *)
  queue,     (* audio_ring_buffer_                                         *)
  at,        (* where the UI and the emulator thread are                   *)
  callback,  (* where the SDL callback is                                  *)
  queued,    (* queued_samples of the emulator's last push                 *)
  session,   (* playback sessions begun                                    *)
  swaps      (* disc changes so far                                        *)

hostVars == <<playback, device, started, stutter, hint, queue, at, callback, queued, session,
              swaps>>

Thread == {"ui", "emu"}
ResetAt == {"pause", "unstart", "unstutter", "clear"}

HostInit ==
  /\ playback = FALSE /\ device = "paused" /\ started = FALSE
  /\ stutter = FALSE /\ hint = FALSE
  /\ queue = <<>> /\ queued = 0
  /\ at = [t \in Thread |-> "idle"] /\ callback = "out"
  /\ session = 0 /\ swaps = 0

Goes(t, from, to) == at[t] = from /\ at' = [at EXCEPT ![t] = to]

-----------------------------------------------------------------------------
(* set_host_playback_enabled(): the exchange, then a reset if it changed.  *)
SetPlayback(t, enabled) ==
  /\ Goes(t, "idle", IF playback = enabled THEN "idle" ELSE "pause")
  /\ enabled /\ ~playback => session < MaxSession
  /\ playback' = enabled
  /\ session' = IF enabled /\ ~playback THEN session + 1 ELSE session
  /\ UNCHANGED <<device, started, stutter, hint, queue, callback, queued, swaps>>

(* Each frame the UI says, before it sets the playback, whether the core is *)
(* too slow: App::update()'s slowdown_stutter_hint.                        *)
SetHint ==
  /\ at["ui"] = "idle"
  /\ hint' = ~hint
  /\ UNCHANGED <<playback, device, started, stutter, queue, at, callback, queued, session, swaps>>

(* apply_pending_disc_insert() and _eject() reset the output, too. *)
ChangeDisc ==
  /\ Goes("emu", "idle", "pause")
  /\ swaps < MaxSwaps /\ swaps' = swaps + 1
  /\ UNCHANGED <<playback, device, started, stutter, hint, queue, callback, queued, session>>

(* reset_audio_output() *)
ResetPause(t) ==
  /\ Goes(t, "pause", "unstart")
  /\ callback = "out"
  /\ device' = "paused"
  /\ UNCHANGED <<playback, started, stutter, hint, queue, callback, queued, session, swaps>>

(* Mutant: the device is only started again if it was never started. *)
ResetUnstartForgotten(t) ==
  /\ Goes(t, "unstart", "unstutter")
  /\ UNCHANGED <<playback, device, started, stutter, hint, queue, callback, queued, session, swaps>>

ResetUnstart(t) ==
  /\ Goes(t, "unstart", "unstutter")
  /\ started' = FALSE
  /\ UNCHANGED <<playback, device, stutter, hint, queue, callback, queued, session, swaps>>

ResetUnstutter(t) ==
  /\ Goes(t, "unstutter", "clear")
  /\ stutter' = FALSE
  /\ UNCHANGED <<playback, device, started, hint, queue, callback, queued, session, swaps>>

(* Mutant: the queue survives the reset. *)
ResetClearForgotten(t) ==
  /\ Goes(t, "clear", "idle")
  /\ UNCHANGED <<playback, device, started, stutter, hint, queue, callback, queued, session, swaps>>

ResetClear(t) ==
  /\ Goes(t, "clear", "idle")
  /\ queue' = <<>>
  /\ UNCHANGED <<playback, device, started, stutter, hint, callback, queued, session, swaps>>

Reset(t) == ResetPause(t) \/ ResetUnstart(t) \/ ResetUnstutter(t) \/ ResetClear(t)

-----------------------------------------------------------------------------
(* enqueue_ring_buffer() *)
EnqueueTest ==
  /\ playback
  /\ Goes("emu", "idle", "push")
  /\ UNCHANGED <<playback, device, started, stutter, hint, queue, callback, queued, session, swaps>>

Newest(s, n) == SubSeq(s, Len(s) - n + 1, Len(s))

EnqueuePush ==
  LET grown == Append(queue, session)
  IN  /\ Goes("emu", "push", "start_test")
      /\ queue' = IF Len(grown) > MaxBlocks THEN Newest(grown, TargetBlocks) ELSE grown
      /\ queued' = Len(queue')
      /\ UNCHANGED <<playback, device, started, stutter, hint, callback, session, swaps>>

EnqueueStartTest ==
  /\ Goes("emu", "start_test", IF ~started /\ queued >= TargetBlocks THEN "start" ELSE "idle")
  /\ UNCHANGED <<playback, device, started, stutter, hint, queue, callback, queued, session, swaps>>

EnqueueStart ==
  /\ Goes("emu", "start", "unpause")
  /\ started' = TRUE
  /\ UNCHANGED <<playback, device, stutter, hint, queue, callback, queued, session, swaps>>

EnqueueUnpause ==
  /\ Goes("emu", "unpause", "idle")
  /\ callback = "out"
  /\ device' = "running"
  /\ UNCHANGED <<playback, started, stutter, hint, queue, callback, queued, session, swaps>>

Enqueue == EnqueueTest \/ EnqueuePush \/ EnqueueStartTest \/ EnqueueStart \/ EnqueueUnpause

-----------------------------------------------------------------------------
(* sdl_audio_callback() *)
CallbackBegin ==
  /\ callback = "out" /\ device = "running" /\ playback
  /\ callback' = "sense"
  /\ UNCHANGED <<playback, device, started, stutter, hint, queue, at, queued, session, swaps>>

(* Mutant: the stutter has no hysteresis exit. *)
CallbackSenseSticky ==
  /\ callback = "sense"
  /\ stutter' = (stutter \/ Len(queue) < EnterBlocks)
  /\ callback' = IF stutter' THEN "loop" ELSE "live"
  /\ UNCHANGED <<playback, device, started, hint, queue, at, queued, session, swaps>>

(* The stutter hysteresis works on the published count of samples. *)
CallbackSense ==
  /\ callback = "sense"
  /\ stutter' = IF stutter THEN Len(queue) < ExitBlocks ELSE Len(queue) < EnterBlocks
  /\ callback' = IF stutter' THEN "loop" ELSE "live"
  /\ UNCHANGED <<playback, device, started, hint, queue, at, queued, session, swaps>>

(* try_lock fails only while another thread is inside the ring. *)
Contended == at["emu"] \in {"push", "clear"} \/ at["ui"] = "clear"

TakeBlock ==
  \/ queue # <<>> /\ queue' = Tail(queue)
  \/ (queue = <<>> \/ Contended) /\ UNCHANGED queue

(* try_read_samples() *)
CallbackPlay ==
  /\ callback = "live" /\ callback' = "out"
  /\ TakeBlock
  /\ UNCHANGED <<playback, device, started, stutter, hint, at, queued, session, swaps>>

(* The history is looped.  While the core is too slow the live sound is    *)
(* moved to the history as fast as it would have been played.              *)
CallbackLoop ==
  /\ callback = "loop" /\ callback' = IF hint THEN "drain" ELSE "out"
  /\ UNCHANGED <<playback, device, started, stutter, hint, queue, at, queued, session, swaps>>

(* try_read_history_samples() with drain_live_samples *)
CallbackDrain ==
  /\ callback = "drain" /\ callback' = "out"
  /\ TakeBlock
  /\ UNCHANGED <<playback, device, started, stutter, hint, at, queued, session, swaps>>

Callback == CallbackBegin \/ CallbackSense \/ CallbackPlay \/ CallbackLoop \/ CallbackDrain

-----------------------------------------------------------------------------
HostNext ==
  \/ \E enabled \in BOOLEAN : SetPlayback("ui", enabled)
  \/ SetPlayback("emu", FALSE)
  \/ SetHint
  \/ ChangeDisc
  \/ \E t \in Thread : Reset(t)
  \/ Enqueue
  \/ Callback

(* A reset that began is finished, a running machine keeps producing, and  *)
(* SDL keeps calling a running device back.  Resets and starts wait for    *)
(* SDL's lock, which is free between two callbacks: strong fairness.       *)
Fairness ==
  /\ \A t \in Thread : SF_hostVars(Reset(t))
  /\ SF_hostVars(Enqueue)
  /\ WF_hostVars(Callback)

HostSpec == HostInit /\ [][HostNext]_hostVars
HostFairSpec == HostSpec /\ Fairness

-----------------------------------------------------------------------------
(* Every variable keeps its type; the queue never holds more than the      *)
(* maximum latency.                                                        *)
HostTypeOK ==
  /\ playback \in BOOLEAN /\ device \in {"paused", "running"}
  /\ started \in BOOLEAN /\ stutter \in BOOLEAN /\ hint \in BOOLEAN
  /\ queue \in Seq(0..MaxSession) /\ Len(queue) <= MaxBlocks
  /\ at \in [Thread -> {"idle", "push", "start_test", "start", "unpause"} \cup ResetAt]
  /\ callback \in {"out", "sense", "live", "loop", "drain"}
  /\ queued \in 0..MaxBlocks
  /\ session \in 0..MaxSession /\ swaps \in 0..MaxSwaps

Resetting == \E t \in Thread : at[t] \in ResetAt
Plays == callback \in {"live", "drain"} /\ callback' = "out" /\ Len(queue') = Len(queue) - 1

(* Once pausing has returned nothing queued is played, or moved to the     *)
(* history that is looped, although a push that raced the reset may have   *)
(* started the device again; and once resuming has returned, all that      *)
(* leaves the queue was pushed since: blocks that slipped in after the     *)
(* pause cleared it are cleared by the resume.                             *)
NothingStale == [][Plays /\ ~Resetting => playback /\ Head(queue) = session]_hostVars

(* A machine that plays and produces is heard again after any reset.       *)
PlaybackResumes == playback ~> (device = "running" \/ ~playback)

(* A starvation stutter ends while the machine keeps producing: "looped    *)
(* until enough fresh audio has accumulated to resume cleanly".  While the *)
(* core is too slow the loop is meant to last: the live sound is drained   *)
(* as it comes and need not accumulate.                                    *)
StutterEnds == stutter ~> (~stutter \/ ~playback \/ hint)
=============================================================================
