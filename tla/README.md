# VibeStation in TLA+

VibeStation is a PlayStation emulator in C++: a machine core (`src/src/core`),
a desktop UI with an emulator thread (`src/src/ui`), command-line runners and
an experimental PS2 core (`src/experimental/ps2`). This directory specifies
the parts whose correctness depends on the order in which things happen. Every
definition is translated from the source; `PROJECT.json` names, for each
definition, the lines it stands for. Paths below are relative to `src/src/`.

Contents: 1 the system, 2 the modules and the code, 3 the runs, 4 fairness,
5 proofs, 6 only model-checked, 7 not modelled, 8 disagreements with the
documents, 9 plan.

## 1. The system

Three host threads meet in one session:

- the **UI thread** (`ui/app.cpp`, `ui/panels`): menus, settings, presentation;
- the **emulator thread** (`ui/emu_runner.cpp`): runs the machine a frame at a
  time. Inside a frame everything is sequential: the CPU, a scheduler of device
  events, and the devices;
- the **SDL audio callback** (`core/spu.cpp`): takes sound at its own pace.

A fourth, `ui/frame_presentation_worker.cpp`, scales finished frames.

| component | state it keeps | operations | meets the others by |
|---|---|---|---|
| EmuRunner, run control | `running_`, `stop_requested_`, `frame_active_`, `playback_stopped_at_eof_`, two condition variables | start, stop, set_running, pause_and_wait_idle; the worker's loops | atomics, notifies, and the machine itself, which the UI uses when the worker is idle |
| Live requests | mailboxes for disc, eject flag and card paths; `last_disc_bin_path_`; App's selection | insert, eject, mount; boot, stop, suspend, resume, unload | mutexed mailboxes emptied at the start of a frame, and direct calls |
| AudioRingBuffer | ring, history, loop, counters | bounded push, read, history read, clear | one mutex |
| SPU host output | `host_playback_enabled_`, `audio_started_`, `starvation_stutter_active_`, SDL device | enqueue, start, reset, callback | the ring, atomics, SDL's lock |
| System scheduler | clock, per-device synced cycle, DMA service cycle, slice end | run_frame, service devices, service DMA, notes from register access | calls to every device |
| Root counters | three counters, modes, pulses, remainders | register access, advance, pulses, blanking | interrupt lines, `cycles_until_irq` |
| DMA controller | seven channels, DPCR, DICR | register writes, tick, block transfers, completion | device request lines, the bus, the interrupt controller |
| CD-ROM drive | interrupt and sector queues, the data buffer, one pending data-ready interrupt, delays | register access, tick, DMA words | events, request line, interrupts |
| Serial port, pad, memory cards | control, one transmit byte, who is being talked to; the pad's command and modes; the card's command, image and file | register access, transfer and acknowledge events, mount, eject, save | interrupts; the UI and the mailboxes change cards and buttons; files |
| MDEC | command queue, output | register access, DMA words | request lines |
| GPU, hardware stream | VRAM, command assembly; stream of draw commands | GP0/GP1; record, append, consume | a mutexed stream to the UI thread |
| CPU, recompiler | registers, instruction cache, translated blocks, line and page generations | fetch, translate, dispatch, revalidate, invalidate | memory writes, from stores, DMA and the host |
| Rewind, movies, Grim Reaper | ring of snapshots; input log; live watch | push/pop/restore; record/play; watch frames | the emulator thread, files |

What is hard here, and what makes each component correct:

- **Run control.** A store, a notify and a wait on two threads, with the notify
  outside the mutex. Correct: at most one frame follows a pause, the UI's wait
  covers the frame in progress, no null machine, calls return.
- **Live requests.** Two routes (direct call and mailbox) to the same state,
  and two mailboxes. Correct: the user's last operation decides, one frame late
  at most.
- **Audio.** Wrap-around with an odd size, cuts at three limits, a loop over
  past sound; resets that race pushes and the callback. Correct: sound is in
  order, each sample accounted for, channels never swapped, silence while
  paused, sound after resuming.
- **Scheduling.** Devices are advanced lazily; the CPU runs ahead to the next
  deadline. Correct: no event is applied late except by the one instruction the
  design allows, no transfer is forgotten, and the frame ends.
- **Counters.** Cutting an advance anywhere changes nothing, and the advertised
  event is exact.
- **DMA.** Transfers cut by slices and by what a device has, rewritten in the
  middle, ending in an edge-triggered interrupt. Correct: words are conserved,
  every slice is bounded, no completion is lost.
- **Serial port and cards.** One-byte buffers, events, and a guest that may
  deselect, disable or switch at any byte; the image is written in place and
  saved over its file. Correct: selections do not run into each other, a reply
  is what its first byte announced, and a write the guest saw succeed is in the
  file or says that it is not.
- **CD-ROM.** Four ways for an interrupt to wait and three for a sector, each
  emptied at other moments. Correct: one answer for each command, one data-ready
  interrupt at a time, sectors in order.
- **Recompiler.** Nothing tells the cache that the guest changed its code;
  counters do, and a store does not always move them. Correct: what executes is
  what the guest would have fetched.

`PROJECT.json` lists these hazards at their lines, each with the properties
that watch it, or the reason why none does yet.

## 2. Modules and code

| module | code | what it is |
|---|---|---|
| `RunControl` | `ui/emu_runner.cpp` | the two threads, one atomic access per step |
| `AudioFifo` | - | abstract: what the ring promises |
| `AudioRing` | `core/audio_ring_buffer.cpp` | the ring, index for index; implements `AudioFifo` |
| `HostAudio` | `core/spu.cpp` | the SDL end of the SPU, three threads |
| `Scheduler` | `core/system.cpp` | one frame of the event scheduler |
| `Timers` | `core/timer.cpp` | one root counter, as functions on its record |
| `LiveRequests` | `ui/app.cpp`, `ui/emu_runner.cpp`, `core/system.cpp` | discs and cards changed while a session is alive |
| `Dma`, `MCDma` | `core/dma.cpp`, DICR access in `core/system.cpp`, `core/interrupt.cpp`, request lines of the devices | the controller; `MCDma` gives the checked commands |
| `GpuList` | `dma_linked_list` in `core/dma.cpp` | the walk of channel 2's linked list, as functions on a record |
| `SerialDevice` | `core/memory_card.cpp` | abstract: what the port relies on from a card |
| `MemoryCard` | `core/memory_card.cpp`, its resets in `core/sio.cpp` | one card slot with its files; implements `SerialDevice` |
| `Serial` | `core/sio.cpp`, `core/pad_controller.cpp` | the port, the pad, and cards as `SerialDevice`s |
| `CdRom` | `core/cdrom.cpp` | the controller as functions on one record |
| `BlockCache`, `MCBlockCache` | `core/cpu_recompiler.cpp`, fetch and notices in `core/cpu.cpp`, `core/jit_code_page_bitmap.h` | which translation runs; `MCBlockCache` gives the checked program |
| `RunControlProofs`, `AudioProofs` (`AudioRing`, `HostAudio`), `MachineProofs` (`Scheduler`, `CdRom`), `LiveRequestsProofs`, `DmaProofs`, `MemoryCardProofs`, `DeviceProofs` (`Serial`, `Timers`, `GpuList`), `BlockCacheProofs` | - | theorems |

**RunControl.** `ui` and `worker` are program locations. Each access to an
atomic is a step; a condition-variable wait is three (predicate, entering the
wait set, waking), because `control_cv_` and `idle_cv_` are notified without
their mutex. `SpuriousWake` is the standard library's. `Resume`/`Pause` store
`running_`, then the SPU's playback switch, then notify. `LoopTest` is the
check of `running_` before a frame and `BeginFrame` the store of
`frame_active_`: the window between them is the module's main subject. The
death watch of the Grim Reaper tool is loaded in `RunFrame` and used in
`OnFrame`; a rewound frame (`RestoreFrame`) uses neither. `begun`, a history,
counts frames begun since the UI last stored `running_`.

**AudioRing.** Samples carry their production number, so order, loss and
channel (odd is left) are visible. `Push` is `push_samples_bounded`: the cut of
a long batch, the cut to the target latency, the room in the ring, the copy
with its wrap. `Read` trims on request, takes whole frames and feeds the
history; `ReadHistory` loops it. `LoopStarts` allows every frame-aligned start
the search can return. Counters are the record `lost`.

**AudioFifo** is the promise: a bounded FIFO whose oldest samples give way.
`RefinesFifo` maps its queue to the ring's content from `read_pos`.

**HostAudio** takes the ring as that FIFO, one entry per block, tagged with the
playback session that pushed it (its own names begin with `Host`: `HostInit`,
`HostNext`, `HostSpec`). A reset is four steps (pause the device, two
flags, clear), an enqueue up to five; the callback holds SDL's lock, which
`SDL_PauseAudioDevice` waits for. `hint` is `lag_stutter_hint_` of a device with
the slowdown stutter, which the UI sets each frame (`SetHint`): while it is on,
the callback that loops the history also drains the live blocks into it
(`CallbackDrain`).

**Scheduler.** A device is its next event, an absolute cycle or `Never`. The SPU
has two: `"spu"`, the latch of a transfer mode written to SPUCNT, which moves its
DMA request, and `"watch"`, its next sample while IRQ9 is armed. `at` follows
`run_frame`: line edge, devices, DMA service, plan, slice, HBlank, and the SPU's
sync every `SpuStride` lines (`SyncSound`), which brings it to the clock and so
perhaps past the edge. An instruction costs cycles and may compute, read, or
write through the paths the register code has: reported by `IoScope`, to the DMA,
or to the GPU, which no `IoScope` reports. `SaveAndRestore` is a snapshot restored
between frames. `stalled` and `silent` are histories: the last service moved the
clock; a request line last moved where the scheduler is not told. There are four
such places: the GPU's registers, a read without side effects that brings a device
past its event, `SyncSound`, and the sync for the IRQ9 watch in
`service_device_events`, which takes the latch with it before the latch's own event
is tested. (In the modules `Reschedule` chooses the next event freely, but for the
watch, which a sync only puts off; `Timers` shows what a real device does with it.)

**Timers** defines the code's functions on a record (`AdvanceTimer`,
`CyclesUntilIrq`, `HandleTimerEvent`, ...) and a state machine of register
writes, advances, pulses and blanking over them. `AdvanceTimer` is the loop of
the code: a `Turn` runs the next `Piece` (up to the end of the pulse, the event
or the span) and skips whole periods (`Lap`); `loop` repeats it on the cycles
left. It is a recursive function, not a `RECURSIVE` operator, so that it can be
proved about. The names of the specification (`TimerInit`, `TimerNext`,
`TimerSpec`) keep it apart from `Serial` in the proof module they share.

**LiveRequests.** The operations of the UI are actions; where the code calls
`pause_and_wait_idle` the operation continues (`Paused`) when the worker is
idle. The worker's steps are one per mailbox and per application. `want`,
`stale`, `staleCards` and `late` are histories for the properties.

**GpuList.** `Visit` is one turn of the loop: the packet is sent, its link
followed, the new packet compared with the one Brent's algorithm keeps
(`tortoise`), which moves up after 1, 2, 4, ... packets. The walk is one step of
the machine (the processor stands still, so memory is a constant `list`), and so
it is a function of the list, `Walked`, and not a state machine. It is held against two
definitions that know nothing of the algorithm: `NeverEnds` (some packets contain
the first one and the next of each of them) and `IsWhole` (from the first packet
to the marked one, in order, none twice). Which words a packet has does not
matter for either.

**Dma.** Register writes, device changes and acknowledgements happen between
services; a service is cut at each channel and each turn of `execute_dma`'s
loop, with nothing else enabled in between, as the code runs it. `rest` is
`block_words_remaining`. `Accesses` are the parts of DICR that word, half-word
and byte writes touch. `log` remembers what a transfer was programmed to move.

**MemoryCard.** A command is a script of phases (`Script`), as the state machine
of `transfer()` is, and `at` the place in it. A payload is one value repeated,
so a frame is *torn* when its bytes differ. A save is `Put`: it succeeds, fails
to open the file, or leaves it short, as `save_raw_file` truncates first. Mount,
eject, flush, reset and the end of the program are actions; a crash drops what
is in memory. `kept` (the frames whose write the guest saw end) and `cut` (those
whose write was not finished) are histories.

**Serial.** A transfer and its acknowledgement are two events; between them the
guest writes the data and control registers, resets the port, and the other
threads change buttons and cards. The pad is a record with its command, place
and modes; its reply is counted against the ID byte it sent. A card answers as
`SerialDevice` allows, which `MemoryCard` implements.

**CdRom.** One record `cd`; each register access and each unit of time is one
composition of the code's functions, named as there (`CdInit`, `CdNext`,
`CdSpec` are the machine made of them). `asked` numbers the
commands, `heard` the answers that went up. `told`, `late` and `over` are
histories of the sector in the buffer: it was announced; it was queued behind
another's interrupt; it went past the queue.

**BlockCache.** A line of 16 bytes is one step of a block. `jit` holds the slots,
the dispatch cells, the marked lines and the epoch; `mode` says whether
`run_slice`, the resident dispatcher or a block is at work. `Translate` makes any
of the shapes the two tiers can make at the address (`V4Shapes`, `V5Shapes`) and
may promote a predecessor; `Revalidate`, `RevalidateFirst`, `DropStale` and
`DropDifferent` are the outcomes of `check_block`; `NextLine` is the check
between two lines of a block. The stores are one action per kind, since they
move different counters: V4, V5, SWC2 of V5, device, isolated, and the bus.
`unseen` remembers the uncached blocks that a V5 store changed without a new
generation, and `exits` how often a slice dropped a block since an instruction
executed.

Composition: `HostAudio` stands on `AudioFifo`'s promise, which `AudioRing`
refines; `Scheduler` stands on the exact deadlines of `Timers`, and its DMA
service is `Dma`'s `Tick`; `LiveRequests` uses the frame protocol whose window
`RunControl` examines, with the same locations (`begin`). `Serial` talks to any
`SerialDevice`, and `MemoryCard` is one; the cards that `LiveRequests` mounts are
`MemoryCard`'s `Mount`.

## 3. Runs

| run | checks | distinct states |
|---|---|---|
| `run_control` | a pause leaves at most one frame; it covers the frame it interrupts; calls return | 1,450 |
| `audio_ring` | contiguity, channel order, the loop is past, the refinement | 6,001 |
| `host_audio` | nothing stale, resuming, the stutter ends | 47,122 |
| `scheduler` | late instructions, forgotten requests, exact edges, frame ends | 204,571 |
| `timers` | additivity, exact deadlines, one shots | 218,624 |
| `live_requests` | last operation wins, one frame late at most | 125,238 |
| `dma` | conservation, addresses, slices, interrupts, progress | 224,075 |
| `memory_card` | clean means saved, frames kept, torn only when cut, the refinement | 329,485 |
| `serial` | selections apart, strays, waits, whole replies | 345,232 |
| `cdrom` | one answer per command, one data-ready interrupt, announced, in order | 2,857,032 |
| `block_cache` | runs what is fetched, runs its own code, uncached is memory, drops once | 1,945,207 |
| `unseen_store` | *violated:* uncached code sees every store | - |

What the passing runs show, and why their bounds are enough:

- `run_control` needs no bound but `begun <= 2`: the protocol is finite. One
  frame after a pause is possible and two are not; a pause covers the frame it
  interrupts; the only hangs are the two missed notifies.
- `audio_ring`: target 2, maximum 4, capacity 5 (odd, so the ring of 6 slots
  and the room of 5 disagree in parity), history 4, batches up to 6 (longer
  than the ring), 10 samples produced. Every limit is reached and the ring
  wraps; the history fills, wraps and loops.
- `host_audio`: latency 1 to 2 blocks, stutter leaves at 1 block, three
  resumes, two disc changes: enough for a reset by either thread to fall
  between any two steps of a push and to be followed by another session. The
  hint flips at will: a drain that keeps up with the pushes is among the runs, and
  `StutterEnds` asks nothing while the hint is on.
- `scheduler`: three lines of two cycles, the SPU synced after the second and the
  last, instructions of one or two cycles, stalls of one, events up to two cycles
  ahead, three kinds of device (counters; one that feeds the DMA and is synced
  before a service; the SPU, which feeds it and is not) and the sample watch.
  Instructions overrun lines, events fall in stalls, and the latch falls between
  an edge and the clock the SPU is brought to. Without the exceptions that
  `silent` makes for the syncs of the SPU the run finds both.
- `timers`: a wrap at 4, pulses of 2 cycles, a divider of 2, steps up to 5 and
  spans up to 8, so one advance crosses target, wrap, pulse and several laps.
  The sources 0 and 3 are the two a counter treats differently. The initial
  choice of `index` covers all three counters.
- `live_requests`: two discs, seven operations. Between two operations the
  worker may take any number of steps, so the bound only limits the user.
- `dma`: channels 1 (MDEC out: sliced, supplied) and 3 (CD: one sector at a
  time), a 16-bit register that wraps at 2, three words of memory, slices and
  supplies of 3 words, four register writes. Registers begin at size 0 and
  count 0, that is two blocks of two words: a slice of three ends inside the
  second block, a supply may end inside either, and both zeros are decoded. A
  written BCR is one block of one word. Five commands cover the modes, both
  directions and both address steps. With it TLC evaluates `ListsAreWalked`: the
  walk against `NeverEnds` and `IsWhole` for all 2,500 lists of four packets, tails
  and loops of every length among them. The count it gives up after is twice the
  number of packets, the proportion of the machine (0x80000 addresses, 0x100000
  packets).
- `memory_card`: two frames of two bytes, two payloads, two files, two write
  commands and two faults. A write is cut half way, saved, overwritten by the
  other payload; the second fault may hit the save that repairs the first, the
  program may end in between, and the other file may be mounted meanwhile.
- `serial`: one socket with a card beside the pad, one query command, two button
  states. Nothing else is bounded: the port's protocol is finite. Queries share
  one branch of the pad, and the sockets differ in number only.
- `cdrom`: a track of four sectors of which the second may be sought, a backlog of
  two, raw sectors of three words and data sectors of one, and two commands. The
  delays keep the order of the code's (`Retry` 1 < `IrqGap` = `Redelivery` 2 <
  `Busy` 3 < `SecondDelay` 4 < `Period` 5 < `SeekTime` 6), so every pair of them
  can expire in either order after a guest that waits. Three sectors are enough
  for one in the buffer and a full backlog; two commands for one to interrupt
  the stream the other began.
- `block_cache` and `unseen_store`: three lines of one page and two cache indexes,
  so that two lines share one; two slots, so that the cache is full; blocks of
  up to two lines; lines that hold arithmetic, a store or a jump. The guest may
  begin at the first line, cached or not, or at the third. One write, three new
  line generations, one new page generation and one reset of the translations:
  each change may come between any two lines of a block, and another after it
  that would hide it.

`CHECK_DEADLOCK FALSE` stands in the runs of `Scheduler`, `LiveRequests` and
`CdRom`, which stop when their frames, operations or sectors are used up.

Each property is paired in `PROJECT.json` with a plausible bug (a definition
`XForgotten`, `XUnsynced`, ... beside `X`, marked *Mutant*), under which the
same run finds it violated.

## 4. Fairness

- `RunControl`: weak fairness of each thread's own steps. Both are ordinary
  threads and none of the steps waits for a lock. A call of the UI and a
  spurious wake-up are never forced.
- `HostAudio`: weak fairness of the callback (SDL calls a running device);
  strong fairness of a reset and of the emulator's enqueue, which wait for
  SDL's lock. The callback frees it after each period, so they are enabled
  again and again, and the lock is not withheld from a waiter for ever. Nothing
  makes the UI set or clear the hint.
- `Scheduler`: weak fairness of `Next`: one thread runs the frame.
- `Dma`: weak fairness of `Tick` and `Service`, since `run_frame` services the
  DMA again while a channel waits; strong fairness of `Deliver` and `Raise`: a
  device that is asked for data in the end has some. A guest that keeps a gate
  closed is not such a device, and the property says nothing of it.

`AudioRing`, `Timers`, `LiveRequests`, `MemoryCard`, `Serial`, `CdRom` and
`BlockCache` claim safety only. For the last, `DropsOnce` is a bound that stands
for progress: a slice does not go round without executing.

## 5. Proofs

For all values of the constants that satisfy the named assumptions (`ASSUME` in
the modules):

| module | theorems | assumption |
|---|---|---|
| `RunControlProofs` | `TypeCorrect`, `StrayFrameBound`, `PauseDrains`, `SystemPresent`, `MuteNeedsEof` | none: no constants |
| `AudioProofs` | `LatencyBounded`, `QueueIsContiguous`, `LedgerBalances`, `ChannelsKept`, `LoopPlaysThePast`, `RingImplementsFifo` | `SizesAssumption`: even latencies, 0 < target <= maximum <= capacity; `HistoryAssumption`: an even history; `DrainAssumption`; `BoundsAssumption` |
| | `NothingStaleIsPlayed` | `LatencyAssumption`: 0 < target <= maximum, counts natural |
| `MachineProofs` | `LateInstructionBound`, `RequestNotForgotten`, `TimersAtTheirCycle` | `SchedulerAssumption` |
| | `EveryCommandAnswered`, `DataReadyOnce`, `SectorsAnnounced`, `SectorsShownInOrder` | `CdRomAssumption`: delays above zero, in any order of size; targets on the disc; a header before the end of a raw sector |
| `LiveRequestsProofs` | `TypeCorrect`, `LastDiscDecides`, `LastCardsDecide`, `LastRequestDecides`, `SecondFrame` | `LiveRequestsAssumption` |
| `DmaProofs` | `TypeCorrect`, `NothingLost`, `SliceKept`, `FlagsAreOwed`, `InterruptNotLost`, `InterruptsAreKept`, `AddressesFollow` | `DmaAssumption` |
| `MemoryCardProofs` | `TypeCorrect`, `CleanIsSaved`, `FramesAreKept`, `OnlyTheCutAreTorn`, `CardImplementsDevice` | `CardAssumption` |
| `DeviceProofs` | `SelectionsStayApart`, `OnlyTheFirstStrays`, `WaitsBehindRefused`, `RepliesAreWhole` | `SerialAssumption` |
| | `TimersTyped`, `SpansAreAdditive`, `AdvancesAreAdditive`, `WaitsAreExact`, `DeadlinesAreExact`, `OneShotsFireOnce` | `TimersAssumption`: widths above zero, a wrap above one, sources among the four of the mode |
| | `OnlyLoopsAreFlagged`, `ListsAreSentWhole`, `LoopsAreFound`, `RamIsWalked` | `GpuListAssumption`: finitely many packets, the end mark not among them; the last two also name how many packets there are |
| `BlockCacheProofs` | `RunsOwnCode`, `UncachedIsMemorys`, `RunsTheFetched`, `OneDrop` | `CacheAssumption`: sizes above zero, distinct warm lines, alphabets and addresses in range |

Each follows one argument: an inductive invariant (`IInv`, elsewhere `PlayInv`,
`HostInv`, `CdInv` and `TimerInv`), a lemma for the initial states,
lemmas for the actions, then `Spec => []IInv`, of which the theorem is a
consequence. Why the properties alone are not inductive:

- **RunControl.** `AtMostOneStrayFrame` needs to know where the one frame may
  come from: with `running_` clear and a frame begun the worker is past its
  last check of the flag. `frame_active_` must be tied to the worker's
  location, `system_` to the thread's existence, and the switch of playback to
  the steps of an ending movie.
- **AudioRing.** `Contiguous` needs every position in range (`Typed`), the
  latency bound (so that a push never overtakes the reader) and `Used` even (so
  that an odd capacity does no harm). The arithmetic of the wrap is in six
  lemmas: `Advance` adds, `Between` undoes it, and a write changes no unread
  slot. For what the callback plays, `PlayInv` adds the history and the loop: an
  even slot of the history holds a left sample that has left the queue, the
  filled slots are the first ones until the history is full, and a latched loop
  covers whole frames of filled slots. The ring's odd size may cut a drain
  between left and right, so `Follows` speaks of each part by itself, and
  `PushedSound` is applied to one part after the other. A part as long as the
  whole history would restart it at slot 0 whatever its channel; that is why
  `DrainAssumption` is there. The code grants it: one callback drains at most its
  period of 256 frames (`g_spu_desired_samples`), the history is 400 ms.
- **The refinement of AudioFifo.** The mapped queue is the interval of numbers
  `Run(Past, Used)`: this is `Contiguous`, said as one equation. Under it a push
  appends to the interval and cuts it at the old end (`PushFifo`), a read and a
  drain move its beginning by whole frames (`TakeFifo`), and a clear empties it.
- **HostAudio.** `NothingStale` is about one step; the invariant says why it is
  right. `Fresh`: all that is queued is of the current session, unless the UI is
  between turning playback and clearing the queue; the emulator's reset needs no
  exception, since it never begins a session. `Covered`: a callback that began
  before playback was turned off holds SDL's lock, so the thread that turned it
  off is still waiting to pause the device.
- **Scheduler.** `LateOnlyAfterStall` holds at a slice because of what held at
  the steps before: after `FireDevices` no device is due (`Served`), after the
  service neither is the DMA unless the clock moved (`Planned`), and a slice
  ends at the earliest deadline (`SliceBounded`), which a report inside the
  slice can only bring forward by asking for a boundary (`Consumed`); what a
  read moves without a report is put off, never brought forward (`PutOff`).
- **LiveRequests.** The disc in the drive is not yet the one wanted while a
  request travels; the invariant says that the disc *to come* is
  (`ComingDisc`): the mailbox's, else what the worker took, else the drive's.
  The same for cards, and `SecondFrameServes` says which mailbox a late frame
  has already emptied.
- **Dma.** `ChannelInv` carries the conservation equation and that a completed
  transfer is off; `IrqInv` the derived master bit with what is owed;
  `ServiceInv` ties the remaining budget to the slice's history; `DeviceInv`
  types the devices. The heart is the lemma `AfterLeft`: taking n words from a
  block, with the borrow from the block count and zero read as the full count,
  takes exactly n from what is left. `Follows` gives the address the same treatment: it
  is the programmed one plus or minus the words moved, and wrapping after each
  word or once at the end is the same (`WrapOnce`).
- **MemoryCard.** `FrameKept` speaks of two images, the card's and the file's. The
  invariant adds `MountedKept`: each kept frame of the mounted card is in memory,
  and, unless the card is dirty, in the file; and that the frame under the write
  in progress is among `cut` until its last byte. The refinement needs only the
  types and that a command in progress was acknowledged.
- **Serial.** The port's state and the devices' must agree at every location: who
  is active is in a command, and nobody is while the port is deselected. The
  reply's equation is kept by counting from the length the ID byte announced,
  not from the mode, which the reply itself may change.
- **Timers.** Additivity and the deadlines are claims about a recursive function
  for every counter and every span, not about the steps of the machine. The
  library's induction theorems take an operator and cannot be used, so
  `Induction` is derived for sets: a finite set of numbers has a least element
  because its subsets are well-founded under inclusion (`LeastNumber`). With it,
  in this order: every turn leaves fewer cycles (`TurnProgress`), so solutions
  of the recursion up to each bound exist and agree (`LoopsExist`, `LoopsAgree`)
  and `loop` obeys its equation (`LoopIs`); skipping the laps is running them
  (`LapsSkipped`), so an advance is its pieces one after the other
  (`PieceByPiece`); a piece may be cut anywhere (`PieceSplits`, where timer 2's
  remainder needs `TicksAdd`, an equation of quotients), so any span may
  (`SpansAdd`). For the deadlines, `PieceDeadline`: a piece never passes the
  announced cycle, and one that does not reach it leaves a counter that
  announces the rest. Its delicate case (`EventDeadline`) is an event that is not
  the next hit: the counter may stand on its target or start again from zero,
  and the hit must keep its distance either way, which is why an overflow that a
  reset keeps from happening must not be announced. `OneShotOnce` alone is not
  inductive: `OneShot` adds that a counter that has interrupted has `done` set.
- **GpuList.** Again a recursive function: `ChainsExist` and `ChainsAgree` give
  `walk` its equation (`WalkIs`), and `WalkInv` is kept by each turn (`VisitKeeps`):
  what was sent is linked, the tortoise is among it, and the links of the packets
  sent lead to packets sent or to the one at hand. Meeting the tortoise closes that
  set, so a flagged list never ends; an order that repeats a packet never reaches
  the mark (`NoneTwice`), so a list that ends is whole. That each loop is *found* in
  time is `Met`. Of the first `Room` + 1 packets two are the same (the pigeonhole
  theorem of the library), so from there the list runs round a lap of at most
  `Room`; the tortoise waits last, and longest, from turn `Room` - 1, which is in
  the lap. This needs `Room` to be a power of two (at least the number of packets)
  and 2 `Room` - 1 packets to be allowed: just what the code has, as `RamIsWalked`
  says with its numbers. The "safety" count is therefore never reached.
- **BlockCache.** `IInv` says of every live cell that its block is the one of its
  address and that *equal counters mean equal words*: a cached line whose
  generation is the block's is resident with the block's words (`CachedInv`), an
  uncached block whose page generation is the page's is memory's, and all its
  lines are marked (`MemoryInv`). Counters only grow, so a change of a line or
  of a page takes a block out of the premise for good (`CacheChanges`,
  `PageChanges`); `MemoryChanges` is the one that needs the marks. While a block
  runs, `BodyOf` carries what was checked on entry over the lines still to come:
  a V4 block all its lines, a V5 block the line at hand. `DropsOnce` is `ExitsInv`:
  after one drop the slice finds an empty cell, and what it then translates or
  finds under another cell is fresh where it stands, so the next step executes.
- **CdRom.** The model is functions on one record, and so is the proof: a lemma
  per function says what it keeps of `Holds(c, n)`, and the lemma of an action
  chains them in the order of the calls. `Holds` is five parts. `Sound`: types, at
  most one data-ready interrupt among the one up, the queue and the one waiting
  for its gap (`One`), and, unless a sector was late, one of them for the sector
  in the buffer (`Announced`) and for those in the queue (`QueueTells`). `Settled`: a
  data-ready interrupt waits only for another interrupt or for the end of a
  command; without it a sector may reach the buffer while the interrupt of the
  one before still waits. `Owed`: the queue holds the first answers not heard yet,
  each once and in order. `Ordered` and `Place`: the sectors queued increase beyond
  the one shown, and the drive stands beyond them. `Settled` does not hold inside
  an action: queueing an interrupt, an acknowledgement and the end of a command
  break it, and the `ServicePendingIrq` that the code calls after each of them
  restores it (`Nearly` is what holds in between). Dropping one of those calls is
  what the proof would notice.

## 6. Only model-checked

Liveness (`CallsReturnUnlessMissed`, `PlaybackResumes`, `StutterEnds`,
`FrameEnds`, `TransfersEnd`) needs fairness, which the prover does not handle.
Every other property of a passing run is a theorem.

Some definitions are proved and in no run of their own: `NoNullSystem`,
`MutedOnlyAfterEof`, `LatencyBound`, `Ledger` and the type invariants of the
proof modules. What `GpuList` says is checked as an assumption of `MCDma`, not as
a property: a function of a constant has no behaviours.

## 7. Not modelled

Instruction semantics (CPU, GTE, machine code), rasterisation, sound
synthesis, decoding: data without interleaving, tested in the repository by
comparison runners. Panels, themes, the Discord client, configuration and
command-line tools run on one thread and keep no protocol. The PS2 experiment
is built apart. Within modelled components:

- `EmuRunner`: pacing and speed. SPU: resampling, soft correction, the setting
  that turns the stutter off (`lag_stutter_enabled_` is taken as on). `Scheduler`:
  `System::step` and the export of voices, which also bring the SPU up to date
  unreported, and the delayed SPU writes of the Grim Reaper. The ring: its
  resizing. `LiveRequests`: failing files (all images are readable).
- `Dma`: the contents of transfers, the repair of corrupted commands. `GpuList`: a
  packet's words, its cost in cycles.
- `MemoryCard`: the bytes sent back and the checksum, which nothing verifies.
  `Serial`: the interrupt flag, the baud rate, what the guest reads back. The
  port's own `save_state` holds neither pad nor cards, and no property is
  stated of a restored port.
- `CdRom`: audio, the insertion probe, the interrupt enable, partial
  acknowledgements; its liveness (a pause ends) is beyond TLC at this size.
- `BlockCache`: cycle budgets, load delays and the fragments that run a pending
  delay slot, the fusion of two blocks into a loop, the prologue of directly
  linked blocks (which asks what the dispatcher asks), and the wrap of the
  counters at 2^32.

The notes of `PROJECT.json` say so per component.

## 8. Where code and documents disagree

1. **A store that uncached code does not see** (`unseen_store`, a run). A plain
   store of a V5 block advances no page generation (`core/cpu_recompiler.cpp:9114`),
   so uncached code that was translated before it is entered again unchanged,
   against `core/cpu.cpp:2705`. `UncachedIsMemory` and `RunsWhatIsFetched` show
   that nothing else goes wrong: every other writer is seen.
2. Pausing is presented as enough to change the death watch (`ui/emu_runner.h`);
   a frame that has passed its check of `running_` still uses the old one.
   `AtMostOneStrayFrame` is what does hold.
3. A stop whose notify falls between the worker's predicate and its wait never
   returns. `CallsReturnUnlessMissed` shows that a missed notify is the only way.
4. With a maximum latency below 60 ms, which the settings allow, a starved
   callback loops old sound until playback is paused. `StutterEnds` is checked
   for a latency that reaches the exit. It also asks nothing while the slowdown
   hint is on: the loop then drains the live sound (`core/spu.cpp:2520`), and the
   queue need not reach the exit before the hint is cleared.
5. After a DMA stall one instruction starts after an event that is already due,
   against the scheduler's document. `LateOnlyAfterStall` bounds it.
6. An insert requested while paused survives a stop and is applied over the next
   boot; `LastRequestWins` excepts it (`stale`).
7. A sector that is queued while another's data-ready interrupt is up or waiting
   gets none of its own (`core/cdrom.cpp:1996`). The redelivery puts it into the
   buffer in silence (1752), and the next interrupt waits for a buffer that the
   guest was never told of (1787), against the comments at 1587 and 3111. A
   sector that arrives right after an acknowledgement goes into the buffer past
   older ones of the queue, which then come after it, against 1588.
   `AnnouncedIfPrompt` and `SectorsInOrder` say that these are the only two ways.
8. A rejected Pause delivers its error before its first answer
   (`core/cdrom.cpp:2152`) when the controller is still busy.
9. A byte that waits behind one that no device acknowledged stays in the
   transmit buffer until some register is written (`core/sio.cpp:285`), while
   after an acknowledged one it is sent (311). `WaitsOnlyWhenRefused` bounds it.
10. Mounting another card ignores a failed save of the old one
    (`core/memory_card.cpp:155`): its frames are lost without a word. `FrameKept`
    lets a frame go only there, and in a save that a crash cuts
    (`core/memory_card.cpp:105`): the file was truncated, and no frame of it, of
    earlier saves either, is promised from then on.
11. The latch of SPUCNT's transfer mode "flips the DMA request line, so it is a
    scheduler event" (`core/spu.cpp:1096`), but the SPU's syncs at line ends
    (`core/system.cpp:2086`) and for the IRQ9 watch (568) apply it without the
    event: a channel that waits for the SPU is then served when something else
    asks for a service. `RequestServedIfTold` excepts these moves (`silent`), as it
    does the GPU's.

## 9. Plan

Done, in this order: `RunControl`; `AudioFifo`, `AudioRing`, `HostAudio`;
`Scheduler`; `Timers`; `LiveRequests`; `Dma`; `SerialDevice`, `MemoryCard`,
`Serial`; `CdRom`; `BlockCache`; `GpuList`; and proofs for all of them.

Next, the most important first:

1. `HwStream`: recording, append, discard and full synchronisation. Abstract:
   the UI's VRAM equals the emulator's at each consumed stream's end. To prove:
   no command is applied before the synchronisation that replaces a backlog.
2. `FramePipeline`: mailboxes of the presentation worker, recycled buffers. To
   prove: a buffer has one owner; frames are presented in order.
3. `Mdec`, `Movie`, `Rewind`; the PS2 scheduler last.

Proofs come with each of them: the safety properties of the modules there are
now are proved; what section 6 lists is liveness.
