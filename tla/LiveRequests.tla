---------------------------- MODULE LiveRequests ----------------------------
(***************************************************************************)
(* Discs and memory cards changed from the UI (src/ui/app.cpp) while the   *)
(* worker thread (src/ui/emu_runner.cpp) owns the machine.                 *)
(*                                                                         *)
(* The UI changes the machine in two ways.  With the worker idle it calls  *)
(* the System itself (boot, unload, mounting cards while paused).  With a  *)
(* session alive it posts to two mailboxes, each under a mutex of its own, *)
(* which the worker empties at the start of a frame: the cards, then the   *)
(* disc to insert, then the eject flag.  Files can always be read here.    *)
(***************************************************************************)
EXTENDS Naturals

CONSTANTS
  Disc,          (* the disc images a user may pick                        *)
  None,          (* no disc, no request                                    *)
  MaxOps         (* bound: operations of the UI                            *)

ASSUME LiveRequestsAssumption ==
  None \notin Disc \cup {"generic"} /\ "generic" \notin Disc /\ MaxOps \in Nat

VARIABLES
  (* App *)
  started,       (* has_started_emulation_                                 *)
  suspended,     (* session_suspended_: paused behind the launcher         *)
  selected,      (* game_bin_path_, game_cue_path_                         *)
  mode,          (* config_memory_card_mode_                               *)
  target,        (* memory_card_target_paths_                              *)
  doing,         (* the operation in progress: waiting for the worker to   *)
                 (* be idle, or between its two mailboxes ("insert")       *)
  (* EmuRunner *)
  running,       (* running_                                               *)
  pc,            (* where the worker is in its frame                       *)
  insert,        (* the pending disc, has_pending_disc_request_            *)
  eject,         (* has_pending_disc_eject_                                *)
  cards,         (* the pending card paths, has_pending_memcard_request_   *)
  taken,         (* what the worker took from a mailbox and is applying    *)
  (* System *)
  drive,         (* the disc in the CD-ROM drive                           *)
  lastDisc,      (* last_disc_bin_path_, which boot_disc() attaches again  *)
  card,          (* the mounted card file                                  *)
  (* history *)
  want,          (* the disc the user's last disc operation asked for      *)
  stale,         (* a boot found another disc operation still pending      *)
  staleCards,    (* a direct mount found another mount still pending       *)
  late,          (* frames run since then with another disc or card        *)
  ops            (* operations of the UI so far                            *)

ui     == <<started, suspended, selected, mode, target, doing>>
box    == <<insert, eject, cards>>
system == <<drive, lastDisc, card>>
worker == <<running, pc, taken>>
vars   == <<ui, box, system, worker, want, stale, staleCards, late, ops>>

Card == Disc \cup {"generic"}

(***************************************************************************)
(* Helpers of the UI's operations.                                         *)
(***************************************************************************)
(* wait_until_idle() lets the UI go on when frame_active_ is clear; the    *)
(* worker may already have seen running_ for its next frame ("begin").     *)
WorkerIdle == pc \in {"wait", "begin"}

(* One file for all games, or one named after the game: the one selected,  *)
(* else the one in the drive.                                              *)
CardPath(m, game, disc) ==
  IF m = "generic" \/ (game = None /\ disc = None) THEN "generic"
  ELSE IF game # None THEN game ELSE disc

(* Another mount waits in the mailbox, or the worker (a frame that began   *)
(* as the UI stopped waiting) has taken it out.                            *)
MountPending(path) == cards \notin {None, path} \/ (pc = "mount" /\ taken \notin {None, path})

Operation == ops < MaxOps /\ doing = "no" /\ ops' = ops + 1 /\ late' = 0

(* apply_memory_card_settings(), for a machine that is alive: to the       *)
(* mailbox when it runs (live), straight to the slots when it does not.    *)
ApplyMemoryCardSettings(live, path) ==
  /\ target' = path
  /\ IF live THEN cards' = path /\ staleCards' = FALSE /\ UNCHANGED card
     ELSE card' = path /\ staleCards' = MountPending(path) /\ UNCHANGED cards

Init ==
  /\ started = FALSE /\ suspended = FALSE /\ selected = None /\ doing = "no"
  /\ mode = "generic" /\ target = "generic" /\ card = "generic"
  /\ running = FALSE /\ pc = "wait" /\ taken = None
  /\ insert = None /\ eject = FALSE /\ cards = None
  /\ drive = None /\ lastDisc = None /\ want = None
  /\ stale = FALSE /\ staleCards = FALSE /\ late = 0 /\ ops = 0

(***************************************************************************)
(* The UI thread.                                                          *)
(***************************************************************************)
(* Picking a game: inserted live in a session, else selected for a boot.   *)
(* A paused session mounts its cards itself, after waiting for the worker. *)
LoadDisc(d) ==
  /\ Operation
  /\ (started /\ ~running) => WorkerIdle
  /\ selected' = d
  /\ ApplyMemoryCardSettings(started /\ running, CardPath(mode, d, drive))
  /\ IF started THEN doing' = "insert" /\ UNCHANGED suspended
     ELSE suspended' = FALSE /\ UNCHANGED doing
  /\ UNCHANGED <<started, mode, worker, insert, eject, drive, lastDisc, want, stale>>

(* request_live_disc_insert(), the second half of a live pick.             *)
RequestLiveDiscInsert ==
  /\ doing = "insert"
  /\ doing' = "no"
  /\ insert' = selected /\ eject' = FALSE
  /\ want' = selected /\ stale' = FALSE /\ late' = 0
  /\ UNCHANGED <<started, suspended, selected, mode, target, cards, worker, system, staleCards, ops>>

(* The memory card panel: one file for all games, or one for each.         *)
ChangeCardMode ==
  /\ Operation
  /\ (started /\ ~running) => WorkerIdle
  /\ mode' = IF mode = "game" THEN "generic" ELSE "game"
  /\ ApplyMemoryCardSettings(started /\ running, CardPath(mode', selected, drive))
  /\ UNCHANGED <<started, suspended, selected, doing, worker, insert, eject, drive, lastDisc,
                 want, stale>>

(* boot_disc_from_ui(): the selected game, or the one already attached.    *)
BootDisc ==
  /\ Operation
  /\ ~running /\ WorkerIdle /\ (drive # None \/ selected # None)
  /\ lastDisc' = IF selected # None THEN selected ELSE lastDisc
  /\ drive' = IF lastDisc' # None THEN lastDisc' ELSE drive
  /\ want' = drive' /\ stale' = (eject \/ insert \notin {None, drive'})
  /\ ApplyMemoryCardSettings(FALSE, CardPath(mode, selected, drive'))
  /\ started' = TRUE /\ running' = TRUE
  /\ UNCHANGED <<suspended, selected, mode, doing, pc, taken, insert, eject>>

(* unload_disc_from_ui(): asks the worker to eject as well.                *)
UnloadDisc ==
  /\ Operation
  /\ ~running /\ WorkerIdle /\ (drive # None \/ selected # None)
  /\ eject' = TRUE /\ insert' = None
  /\ drive' = None /\ lastDisc' = None /\ selected' = None
  /\ want' = None /\ stale' = FALSE
  /\ started' = TRUE /\ running' = TRUE
  /\ UNCHANGED <<suspended, mode, target, doing, pc, taken, cards, card, staleCards>>

(* start_bios_from_ui(): the drive stays as it is.                         *)
StartBios ==
  /\ Operation
  /\ ~running /\ ~started /\ WorkerIdle
  /\ ApplyMemoryCardSettings(FALSE, CardPath(mode, selected, drive))
  /\ started' = TRUE /\ running' = TRUE
  /\ UNCHANGED <<suspended, selected, mode, doing, pc, taken, insert, eject, drive, lastDisc,
                 want, stale>>

(* Resume from the pause, or from the launcher after Exit.                 *)
Resume ==
  /\ Operation
  /\ ~running /\ (started \/ suspended)
  /\ started' = TRUE /\ suspended' = (suspended /\ started) /\ running' = TRUE
  /\ UNCHANGED <<selected, mode, target, doing, pc, taken, box, system, want, stale, staleCards>>

(* The operations that stop the worker first: the pause itself, Stop,      *)
(* Exit to the launcher and Restart BIOS.                                  *)
PauseFirst(op) ==
  /\ Operation
  /\ op \in {"stop", "exit"} => started
  /\ doing' = op /\ running' = FALSE
  /\ UNCHANGED <<started, suspended, selected, mode, target, pc, taken, box, system, want,
                 stale, staleCards>>

Paused ==
  /\ doing \in {"pause", "stop", "exit", "restart"} /\ WorkerIdle
  /\ doing' = "no" /\ late' = 0
  /\ CASE doing = "pause" -> UNCHANGED <<started, suspended>>
       [] doing = "stop"  -> started' = FALSE /\ suspended' = FALSE
       [] doing = "exit"  -> started' = FALSE /\ suspended' = TRUE
       [] doing = "restart" -> started' = TRUE /\ UNCHANGED suspended
  /\ running' = (running \/ doing = "restart")
  /\ IF doing = "restart" THEN ApplyMemoryCardSettings(FALSE, CardPath(mode, selected, drive))
     ELSE UNCHANGED <<target, cards, card, staleCards>>
  /\ UNCHANGED <<selected, mode, pc, taken, insert, eject, drive, lastDisc, want, stale, ops>>

(***************************************************************************)
(* The worker thread.                                                      *)
(***************************************************************************)
Step(from, to) == pc = from /\ pc' = to

(* The loop has seen running_; it sets frame_active_ with its next step.   *)
Loop ==
  /\ running /\ Step("wait", "begin")
  /\ UNCHANGED <<ui, box, system, running, taken, want, stale, staleCards, late, ops>>

(* A frame that is rewound restores a snapshot and serves no request.      *)
RewindFrame ==
  /\ Step("begin", "wait")
  /\ UNCHANGED <<ui, box, system, running, taken, want, stale, staleCards, late, ops>>

(* apply_pending_memory_card_paths(): take under the mutex, mount after.   *)
TakeCards ==
  /\ Step("begin", "mount")
  /\ taken' = cards /\ cards' = None
  /\ UNCHANGED <<ui, insert, eject, system, running, want, stale, staleCards, late, ops>>

(* Mutant: a frame that mounts a card leaves the disc for the next one.    *)
MountThenRun ==
  /\ Step("mount", IF taken # None THEN "run" ELSE "insert")
  /\ card' = IF taken # None THEN taken ELSE card
  /\ taken' = None
  /\ UNCHANGED <<ui, box, running, drive, lastDisc, want, stale, staleCards, late, ops>>

Mount ==
  /\ Step("mount", "insert")
  /\ card' = IF taken # None THEN taken ELSE card
  /\ taken' = None
  /\ UNCHANGED <<ui, box, running, drive, lastDisc, want, stale, staleCards, late, ops>>

(* apply_pending_disc_insert(); swap_disc_image() leaves lastDisc alone.   *)
TakeInsert ==
  /\ Step("insert", "swap")
  /\ taken' = insert /\ insert' = None
  /\ UNCHANGED <<ui, eject, cards, system, running, want, stale, staleCards, late, ops>>

(* Mutant: the request is cleared after the swap, with what came since.    *)
SwapDiscClearsRequest ==
  /\ Step("swap", "eject")
  /\ drive' = IF taken # None THEN taken ELSE drive
  /\ taken' = None /\ insert' = None
  /\ UNCHANGED <<ui, eject, cards, running, lastDisc, card, want, stale, staleCards, late, ops>>

SwapDisc ==
  /\ Step("swap", "eject")
  /\ drive' = IF taken # None THEN taken ELSE drive
  /\ taken' = None
  /\ UNCHANGED <<ui, box, running, lastDisc, card, want, stale, staleCards, late, ops>>

(* apply_pending_disc_eject(): the flag is cleared, then the disc unloaded.*)
TakeEject ==
  /\ Step("eject", IF eject THEN "unload" ELSE "run")
  /\ eject' = FALSE
  /\ UNCHANGED <<ui, insert, cards, system, running, taken, want, stale, staleCards, late, ops>>

Eject ==
  /\ Step("unload", "run")
  /\ drive' = None /\ lastDisc' = None
  /\ UNCHANGED <<ui, box, running, taken, card, want, stale, staleCards, late, ops>>

(* The frame itself; the recorded input may end with it (eof).             *)
RunFrame(eof) ==
  /\ Step("run", "wait")
  /\ running' = (running /\ ~eof)
  /\ late' = IF late < 3 /\ (drive # want \/ card # target) THEN late + 1 ELSE late
  /\ UNCHANGED <<ui, box, system, taken, want, stale, staleCards, ops>>

UINext ==
  \/ \E d \in Disc : LoadDisc(d)
  \/ RequestLiveDiscInsert
  \/ ChangeCardMode
  \/ BootDisc \/ UnloadDisc \/ StartBios \/ Resume
  \/ \E op \in {"pause", "stop", "exit", "restart"} : PauseFirst(op)
  \/ Paused

WorkerNext ==
  \/ Loop \/ RewindFrame \/ TakeCards \/ Mount \/ TakeInsert \/ SwapDisc
  \/ TakeEject \/ Eject
  \/ \E eof \in BOOLEAN : RunFrame(eof)

Next == UINext \/ WorkerNext

Spec == Init /\ [][Next]_vars

(***************************************************************************)
(* Properties.                                                             *)
(***************************************************************************)
(* Every variable keeps its range.                                         *)
TypeOK ==
  /\ started \in BOOLEAN /\ suspended \in BOOLEAN /\ running \in BOOLEAN
  /\ selected \in Disc \cup {None} /\ mode \in {"generic", "game"} /\ target \in Card
  /\ doing \in {"no", "insert", "pause", "stop", "exit", "restart"}
  /\ pc \in {"wait", "begin", "mount", "insert", "swap", "eject", "unload", "run"}
  /\ insert \in Disc \cup {None} /\ eject \in BOOLEAN /\ cards \in Card \cup {None}
  /\ taken \in Card \cup {None}
  /\ drive \in Disc \cup {None} /\ lastDisc \in Disc \cup {None} /\ card \in Card
  /\ want \in Disc \cup {None} /\ stale \in BOOLEAN /\ staleCards \in BOOLEAN
  /\ late \in 0..3 /\ ops \in 0..MaxOps

DiscsServed == pc \in {"wait", "begin"} /\ insert = None /\ ~eject

(* Once the mailbox is empty and the worker between frames, the disc in    *)
(* the drive is the one the last operation asked for, however inserts,     *)
(* ejects and frames interleave -- provided no boot found another request  *)
(* still waiting.                                                          *)
LastDiscWins == DiscsServed /\ ~stale => drive = want

(* The mounted card is the one the settings name once no request waits,    *)
(* whether it went through the mailbox or straight to the slot.            *)
LastCardsWin == WorkerIdle /\ cards = None /\ ~staleCards => card = target

(* Each mailbox on its own, and so both: the last request wins.            *)
LastRequestWins == LastDiscWins /\ LastCardsWin

(* A pick reaches two mailboxes that a frame empties at two moments: one   *)
(* frame may run with a disc and a card that do not belong together, or    *)
(* with the old ones, never two.                                           *)
ServedByNextFrame == ~stale /\ ~staleCards => late <= 1
=============================================================================
