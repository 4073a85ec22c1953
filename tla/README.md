# A TLA+ verification of rePIU

rePIU runs the original 32-bit DOS/4G executables of a dance game natively and
replaces only what surrounds them: DOS, DPMI, the sound board, the 3dfx Glide
library, the timer. The game's code is sequential; what is hard about the
program is where the *guest thread*, which runs that code, meets the threads
that stand in for the machine. This project models those meeting points in
TLA+, checks them with TLC on small instances, and proves what it can for all
values of the constants with TLAPS. Paths below are relative to the repository.

## 1. The system

Four threads matter.

* The **guest thread** runs translated or native guest code and, inside
  exception handlers, the engine's emulation of whatever the guest touches.
* The **host thread** owns the window and the OpenGL context, polls events,
  computes due timer ticks, and pumps the commands the guest hands over.
* The **decoder thread** turns the MP3 stream the guest writes to a port into
  audio.
* The **translation worker** appends to and retires from the code cache while the
  guest waits for it. (The launcher, before a game runs, has a worker of its
  own: the updater's.)

| Component | State | Operations | Interacts with | What makes it correct |
| --- | --- | --- | --- | --- |
| Glide host channel (`src/engine/glide_opengl_backend.cpp`) | one synchronous slot with two flags, a bounded FIFO, a count of pending swaps, a closed flag | `InvokeOnHostThread`, `PostToHostThread`, `PumpHostCommands`, `DrainAsyncCommands`, `Close`, `OpenWindowed` | guest calls, host pumps; one mutex, one condition variable | commands run once and in order; nobody waits for good; teardown survives a dead thread |
| Shutdown recovery (`src/engine/execution/`) | attempts made, decision | sample the guest, pump, terminate or exit | the channel, the host thread layer | the run always ends |
| Byte ring (`src/sound/spsc_byte_ring.cpp`) | bytes, two positions that wrap | `Push`, `Pop`, `Reset` | guest and decoder thread, without a lock | a FIFO queue; the plain copies do not race |
| Decoder input FIFO (`src/sound/decoder_input_fifo.cpp`) | the ring, the in-flight count | `Reserve`, `Release`, `PushByte`, `PushBatch`, `Pop`, `Consume`, `Reset` | port writes, decoder | the count is exact and bounded |
| MP3 decoder thread (`src/engine/piu10_mp3_audio_out.cpp`) | encoded bytes, stream-found flag, queued audio, ready and shutdown flags | `WriteByte`, `WriteBytes`, `Run`, `Close` | the FIFO, the audio device | the song arrives unbroken; neither side waits for the other for good |
| Timer tick delivery (`src/engine/telemetry/timer_tick_delivery.cpp`, `src/engine/boundary/timer_interrupt_boundary.cpp`) | counters, backlog, pending flag, safe-point request word | record due, inject, defer, give up, arm, clear | host records, guest injects; a spin lock and an unlocked request word | no tick vanishes; the clock never stops |
| Interrupt controller policy (`src/engine/io/pic_timer_in_service.cpp`) | in-service bit, tracked frames, `cli` hold, `sti` request, chain count | `NotePicTimerInjected`, `NoteGuestIret`, `NotePicCommand`, `PicTimerBlocksInjection`, ... | every injection attempt | bounded nesting; no unacknowledged handler is interrupted |
| Timer return pad (`src/engine/io/timer_return_pad.cpp`) | eight records matched by stack pointer | `PushTimerReturn`, `PopTimerReturn` | injections and returns | a handler goes back to what its tick interrupted |
| Input timeline (`src/engine/io/jamma_input_timeline.cpp`) | key history and its floor, due times, replay frames | `RecordKeyEdge`, `EnqueueTimerTick`, `BeginTimerInterrupt`, `EndTimerInterrupt`, `TryReplayPressedMask`, ... | host events, timer, guest's port reads; a lock | a handler reads the keys of its own tick |
| PIT (`src/hle/pit_timer.cpp`) | divisor and generation; epoch and ticks emitted | `PublishDivisor`, `Poll`, `NanosecondsUntilNextTick` | guest's port writes, host loop | each tick once, in order, on time |
| Execution trampoline | the guest context | exception dispatch | everything | |
| AOT code cache and page coherence (`src/engine/aot_page_coherence.cpp`, `aot_code_cache.cpp`, `aot/aot_runtime_dispatch.cpp`) | address map with active flags and generations, page states, write watches, one pending write, failed addresses | `BeginAotGuestWrite`, `CompleteAotGuestWrite`, `RetireAotGuestPage`, `AppendDynamicAotTranslation`, `ResolveAotTransferTarget`, ... | guest stores, emulated services, dispatcher, worker | no stale translation runs |
| Updater (`src/update/`) | snapshot, worker thread, work folder, leftover list | `StartCheck`, `StartDownload`, `Install`, `InstallStagedFiles`, `RemovePreviousInstallLeftovers` | launcher UI, file system | an install happens whole or not at all; an interrupted one can be undone |
| Selectors and memory, DOS/DPMI services, DOS file system, ISA board and port I/O, EEPROM, YMZ280B and CD audio, pads and keyboard, loader, launcher, assets, supervisor | see `PROJECT.json` | | | sequential, or input and output |

The hard behaviours, each with its line, are the hazards of `PROJECT.json`:
commands posted between two critical sections of the host, lost wake-ups, a
count kept in three places, a thread killed while it owns a mutex, stale ring
positions, a notify that falls between test and wait, a request word cleared
outside the lock, handlers that nest beyond the frames tracked, counters that
wrap, returns nobody sees, pages opened and closed by two parties, a crash
between two renames.

## 2. The modules

| Module | Models | Notes |
| --- | --- | --- |
| `GlideHostChannel` | the command channel, its two paths, open, close and teardown | one action per critical section; what a thread does after unlocking is its own action; `RunsInSubmissionOrder` is its refinement of `FifoExecution` |
| `FifoExecution` | what the channel promises: each command once, in order | abstract specification |
| `SpscByteRing` | the ring, at each load, copy and store | positions wrap at `IndexModulus` |
| `BoundedByteQueue` | what the ring promises | abstract specification |
| `DecoderInputFifo` | the FIFO over an abstract ring | |
| `Piu10Mp3AudioOut` | the guest's writes and the decoder thread, extending the FIFO's actions | composes `DecoderInputFifo` |
| `MCPiu10Mp3AudioOut` | the song for TLC | |
| `TimerInterrupt` | due ticks, injection, controller policy, the guest's stack | |
| `PitTimer` | the interval timer's divisor and schedule | |
| `JammaInputTimeline` | input replay and the return pad, driven by the timer's schedule | composes `PitTimer` |
| `AotPageCoherence` | write watches, retirement and new generations of translated code | |
| `MCAotPageCoherence` | two pages and three instructions for TLC | |
| `LauncherUpdater` | the updater's worker, the install and the launcher session around it | crashes and failing file operations |
| `DecoderInputFifo_proofs`, `Piu10Mp3AudioOut_proofs`, `SpscByteRing_proofs`, `GlideHostChannel_proofs`, `TimerInterrupt_proofs`, `JammaInputTimeline_proofs`, `AotPageCoherence_proofs`, `LauncherUpdater_proofs` | theorems about the module each is named after | section 4 |

An operator whose comment starts with "Mutant:" is a variant with a plausible
mistake; nothing refers to it in the specification. Each shows that a property
can fail.

### GlideHostChannel

`slot`, `pending` and `complete` are the synchronous half (`host_command_*`),
`queue` and `pendingSwaps` the posted half, `stopped` is
`host_stopped_pumping_`. The guest is in the game, at a post, in a swap wait, at
a publish or awaiting completion (`guestPc`); `asleep` says it is blocked on the
condition variable, where only a notify by the host gets it out. The host goes
through the pump (`hostPc`): drain, run, notify, look at the slot, run, publish,
notify. Draw batches and clears are posted alike; all other gates are calls.
`asyncPresent`, chosen at the start from `AsyncModes`, is
`REPIU_GLIDE_ASYNC_PRESENT`: without it only swaps are posted, and the gate waits
for them. `accepted`, `executed` and `overtaken` are history; the last says that a
window was opened while a swap posted earlier was still to run.

The two hint flags (`host_command_pending_hint_`, `host_command_complete_hint_`) are left
out: the threads spin on them before they take the lock, and under the lock every
wait tests its own condition again, so a hint that is wrong costs a spin and
decides nothing. What can really be missed is a notify, and that is
`NoWakeUpLost`.

`TerminateGuest` is Windows (the thread is stopped anywhere, possibly with the
mutex), `ImmediateExit` a host that cannot stop a thread. The host gives up for one
of three reasons (all attempts refused, an interrupt not answered in time, a
recovered guest that cannot be joined); they lead to the same two ends and are one
guard, `GivesUp`, which may hold after any attempt. A swap that throws is
a choice of `RunAsync`. The OpenGL work and the message string are left out.

### SpscByteRing, DecoderInputFifo, Piu10Mp3AudioOut

A call of the ring is three steps: the load of the other position with acquire,
the copy, the store with release. In `DecoderInputFifo` the ring is a sequence,
and the one thing its memory order leaves open is a choice: the producer may see
a read position that is too old by the bytes popped and not yet consumed (up to
there `Reserve` synchronises with `Consume`). `held` is what the decoder popped
and has not consumed.

`Piu10Mp3AudioOut` extends each FIFO action with what the thread around it does:
the guest's cursor and its notify, the worker's search for three compatible
frames, its skip of a byte or of a frame, its sleep and its wait. The song is a
sequence that says at which bytes a header of which format starts; bytes are
positions in it. minimp3 is external: it takes any part of a frame, or refuses
it. The device plays a frame at any time. `NeedsPcm` depends on a clock estimate,
so between half the target and the target it may answer either way. Not
modelled: the frame-sync counter (`AdvanceFrameSyncToPlayback`), gain, and
compaction of the encoded vector, which moves bytes but changes none.

### TimerInterrupt

The guest is any program with stack discipline; a larger `sp` is a lower ESP.
`frames` are the injected frames that stand, with whether each has written its
EOI; `handlers` are the frames the controller tracks. Time is two events: the
end of the interrupted code's turn and the expiry of a `cli` hold. An attempt is
made at a safe point whose request word is set (`trap`), or at any other
boundary; `site` says whether that boundary is right after a handler's return.
`seesReturn`, chosen at the start from `ReturnModes`, distinguishes hosts that
see a handler's `iret` from those where it runs natively. `HostArms` and `GuestArms` are the writes to the request word that
follow the release of the lock. `DeferredEarly` stands for the tests of EIP, IF
and the `cli` hold; `DeferredLate` for an address without a selector. An EOI is
`GuestEoi` in a handler and `StrayEoi` outside one, where it clears the in-service
bit just the same. `DueCapacity` is the limit of the input timeline's own queue,
which the delivery does not consult; it is assumed not to be below the backlog's
(both are 64 in the code, in two headers that do not mention each other). The count
`streak` and the flag `ran` are history.

### PitTimer and JammaInputTimeline

`PitTimer` has the clock, the configuration word (generation and divisor, one
store) and the schedule. The clock is monotone, as the one the code reads is, so
the branch of `Poll` for a clock behind the epoch is not there. The port writes that lead to a divisor are left out;
`PublishDivisor` is their end. `DueTime` and `PitTickCountForElapsed` keep both
roundings of the code. `JammaInputTimeline` adds `history` and `floor`, `due`,
`replay`, the `pad` and the guest's stack. Each operation of the timeline is one
action because it runs under the timeline's lock, and every one ends, as in the
code, with its pruning. `model` is the execution model: "cache" emulates each
`iret`, "direct" runs them natively and sees those that fault at the return pad.
Key changes carry the time of the event and may be recorded up to `MaxLate`
later; the guest may leave handlers without a return (`Abandon`). Whether a tick
may go in is `TimerInterrupt`'s question and is not asked again here. A pad record
holds the interrupt's serial number in place of the saved address and state.
`edges`, `overflowed` and `unseen` are history. Left out: live reads of the
keyboard, the snapshot interval, handlers that switch to a stack of their own.

### AotPageCoherence

A cell is a group of bytes written and translated as a whole; an instruction
covers cells of one or two pages. `map`, `active` and `slot` are the address map,
its active flags and the first bytes of each entry: its code, a breakpoint, or a
jump to a later generation. `watched` is the watch set and `writable` what the
processor enforces; the two are separate because the code keeps them so. A
guest store is a plain store, or a fault (`WriteFault`, again for each closed
page), the store under the single-step flag, the completion that closes the
pages, the noting of the write page by page, and the release of watches no longer
needed. `HleStore` is a service's store with its own opening and closing.
`Translate` is a whole request to the worker: the guest is blocked meanwhile, so
it is one step. How often a page was written, which decides about quarantine, is
a choice of `NotePage`. Whether an entry is long enough for a jump is a matter of
the entry (`Long`, by generation). `stale` and `exposed` are history: the entries
whose bytes were written since, and the watched pages a service's store left open.
A fault on a page nobody watches goes to the engine's other fault handlers; one that
emulates the store is `HleStore`, and without one the guest stops
(`UnwatchedFault`). Left out: the check that a jump's displacement fits 32 bits,
which it does within one cache, inline-cache guards and the
direct-return table, which retirement clears in the same step, ranges excluded
from tracking, the wrap of the generation number.

### LauncherUpdater

Files hold the number of the release they are from. `target`, `aside`, `staged` and
`archive` are the disk; `stage`, `latest`, `installable` the snapshot under its
mutex; `worker` and `pc` the two threads. Each rename and each removal is a step
that may fail, and `Crash` may come between any two. `StartDownload` is three
steps since the join comes after the stage is taken. `faulted` remembers that an
install was cut off or a rename of the back-out failed. The transfer, the JSON and
the archive are their outcomes: a download brings the release announced or
something else, and unpacking may stop after any set of files. The test whether a
file is there (`exists`) is taken to answer: the code counts an error of the test
itself as no file, and the rename that follows would then replace the file without
moving it aside.

## 3. The runs

| Run | Instance | Shows |
| --- | --- | --- |
| `glide_channel` | 4 commands, queue of 2, both present modes | posted order kept; bound on swaps; no lost wake-up; every gate returns; teardown ends; in the default mode FIFO execution of all commands and `grBufferNumPending` covering every swap |
| `glide_order` | 3 commands, asynchronous present | **violated**: see findings |
| `glide_ahead` | 3 commands, asynchronous present | **violated**: see findings |
| `byte_ring` | capacity 4, positions modulo 8, chunks of 3, two byte values | copies do not overlap; implements the queue |
| `mp3_out` | a song of 13 bytes: junk, one frame of a format, three of another; logical 9, physical 10, bytes and batches of up to 3 | the FIFO's accounting exact and bounded, grants kept; stream unbroken; progress; exit; refinement of the FIFO |
| `timer_delivery` | backlog and due queue 2, polls of up to 2 ticks, counters modulo 2, nesting 2 | ticks accounted for; the clock never stops |
| `timer_nesting` | 4 tracked frames, 5 nested, returns seen or not | nesting and acknowledgement rules |
| `timer_turn` | backlog 4, nesting 2 | **violated**: see findings |
| `updater` | 3 releases of two files | old files kept; all or nothing; threads joined; every operation settles |
| `aot_coherence` | two pages, three cells, three instructions, three generations, services that write within a page and over the boundary | no stale code; quarantine holds; one jump |
| `aot_hle` | the same | **violated**: see findings |
| `input_replay` | history and queue of 2, pad of 2, 3 interrupts, 3 key changes, both execution models | replay exact; a handler reads its own tick and returns home; ticks on time |

**Bounds.** In the channel two queue slots are enough for a full queue with one
command to wait behind and one being run; four commands are enough for
a window to be opened again while posted work stands, and for a post after it.
The ring's modulus is twice its capacity, so positions wrap while the ring is
full. In the FIFO a batch may be cut at the logical capacity and bytes go past
it to the physical one. The song makes the decoder skip junk, fail its search
over a change of format, and synchronise with the FIFO at its logical limit. In
the timer five frames stand where four are tracked, and counters wrap within a
few ticks; modulo 2 still tells any slip by one tick. In the updater two files
are enough for one to be replaced and the next to fail, and three releases for an
interrupted update to be followed by another. In the code cache one instruction
lies across the page boundary and shares its first cell with another; three
generations are enough for an entry to be linked, retired and linked again, and a
failure list of one fills. In the input timeline history, queue, frames and pad
all overflow, three clock ticks and four nanoseconds to the second make the two
roundings differ, and three interrupts pass the limit of one after which a frame
is stale. In the code the timeline keeps as many frames as the interrupts after
which one is stale (both are 64), and a full list may lose a frame just before it
is stale; the instance, which keeps more, does not get there, and the theorem of
section 4 does. Every bound is a constant named in the module that uses it.

**Fairness.** The channel: both threads run (weak fairness on the guest inside
a gate, on the host's pump and on shutdown); nothing is assumed of the game or
the user. The decoder: threads and device run, the two-millisecond wait times
out, and a guest that sees demand writes; it is *not* assumed that a notify
arrives. The timer: ticks come due, time passes, the guest runs and its handlers
write their EOI and return. Strong fairness is assumed of two things. The host's
clock is not in step with the guest: if there are, again and again, moments at which
the rules would let a tick in (`Open`), some due tick and some arming of the request
word fall in one. And the guest's loops are full of safe points: if the request word
is set at such moments again and again, a safe point comes at one of them
(`Inject(TRUE, FALSE)`, which needs the word). No boundary that does without the
word is promised, and no `sti`: a host that does not ask again for a tick whose
request was wiped out stops the clock, and the mutant of `ClockNeverStops` is that
host. The
updater: both its threads run (transfers have time limits, the window draws), and
nothing is assumed of the user or of the disk.

Two runs do not check for deadlock. An install cut off between two renames may
leave no executable, and then nothing starts until the user puts a file back by
hand, as `docs/guides/launcher-update.md` says; and a terminal failure of the
code cache stops the guest.

**Findings.** Four comments promise more than the code does.
`glide_order`: a completed synchronous command is said to prove that everything
posted before it has run; the drain and the look at the slot are two critical
sections, and what is posted between them is overtaken. It needs the
asynchronous present, which is off by default. `glide_ahead`: the swap bound is said
to keep the guest from running more than a frame ahead; a window opened again sets
the count to zero without draining the queue, and a swap overtaken in the gap of
`glide_order` is then forgotten, so that two are outstanding. `glide_channel` shows
what is left of the claim (`OutstandingSwapsBounded`): it holds until that happens,
it never happens in the default mode, and the distance at most doubles.
`timer_turn`: at most four
handlers are said to run before the interrupted code does; the count is reset by
any attempt at an ordinary site, and one at the closing `sti` of a handler is
such an attempt. `aot_hle`: a service's store is said to put back exactly the
protection that was there; it puts back the first page's on every page of the
range, so over a page boundary a watched page may stay writable, or a plain one
closed. The services of `aot_coherence` do this too, and its `NoStaleCode` says how far
the harm goes: only code that reaches into a page left open that way can be stale.
Two smaller observations are
not runs: an install cut off with the new executable and the old `VERSION` in place
is never offered an update again (`CanInstallInto` compares the two), and the
renames that back an install out are not checked, while a retry removes what is at
the aside name.

## 4. The proofs

Every safety invariant, every action property without fairness and every refinement
the runs check is also a theorem, for all values of the constants that satisfy the
module's assumption. `PROJECT.json` lists the theorems. Hardly any of the properties
is inductive; what follows is, for each module, the invariant that is, and why
it takes what it has.

**DecoderInputFifo.** The in-flight count is exact (`InflightIsExact`) and bounded
(`InflightIsBounded`), the ring never refuses a granted byte (`GrantsAreKept`),
`Consume` never fails (`ConsumeSucceeds`), and types. `FifoInv` is their conjunction
with `ReservationOpen`: outside a push nothing is reserved and inside one the
reservation is a prefix of the span. Exactness gives the bound (a grant is cut to
the limit), the bound gives whole grants even with a stale read position, whole
grants give exactness back when a push returns, and exactness makes `Consume`
succeed.

**Piu10Mp3AudioOut.** Guest and decoder refine the FIFO (`DecoderUsesFifo`: each
step is a FIFO step or leaves the FIFO alone), so the FIFO's theorems carry over
(`DecoderNeverMiscounts`); the stream is unbroken (`StreamIsUnbroken`); types
(`DecoderTypes`). `Mp3Inv` adds to `FifoInv` that the span being pushed is the song
from the guest's cursor on (`WriteMatchesPush`) and that the held bytes and the
ring are each consecutive and meet at the cursor (`PartsUnbroken`). The types need
`CursorInv`: a write in progress stays within the song.

**SpscByteRing.** The two copies never touch the same slot (`CopiesNeverOverlap`),
and the ring implements the bounded queue (`RingImplementsQueue`). The heart is
`RoomInv`: a call that has read the other side's position may rely on it until it
publishes, for the other side only makes more room or more bytes. `CopiedInv`
adds that what is copied and not published yet is still there, which is what makes
the store of a position a step of the queue. Positions wrap, so all of it is
arithmetic modulo `IndexModulus`, brought down to slots because the capacity divides
it; if it did not, two positions less than a capacity apart could share a slot
where they wrap.

**GlideHostChannel.** Order of posted commands (`PostsKeepTheirOrder`), no lost
wake-up (`WakeUpsArrive`), how far the guest gets ahead (`GuestStaysClose`,
`WaitingCoversSwaps`), types, and in the default mode the refinement of
`FifoExecution` (`DefaultModeIsFifo`). `ChannelInv` rests on two facts.
`RendezvousInv`: a published command keeps the guest where it is until the host has
run it, or the guest is gone and the host pumps no more. `SwapsInv`: the count of
pending swaps runs behind the swaps by no more than what one reopened window
forgot, by nothing until a window has overtaken a swap, and the host has caught up whenever it looks at the slot, which is where a
window is opened. `DefaultInv` says that without the asynchronous present a swap
is alone in the channel with the guest waiting for it. From it follows also
`CompletionIsProof`: the comment that `glide_order` refutes is right in the default
mode, so the asynchronous present is exactly what it needs.

**TimerInterrupt.** `NoTickVanishes`, `PendingIsExact`, `EoiBeforeNextTick`,
`OnlyStandingFramesTracked` and the action property `NestingIsBounded`. The counters
wrap at any modulus: the books balance up to a multiple of it (`BooksBalance`).
`StackInv` says how the injected frames lie on the stack; `ServiceInv` that while the
newest handler owes its EOI the controller is in service and the frame it noted is
not above the stack, without which the rules would let the next tick in;
`HandlersInv` that where returns are seen the tracked frames are in order and begin
with the two oldest that stand. That takes three tracked frames
(`TimerAssumption`; the code has more): a full list overwrites its last one, which
must not be the second.

**PitTimer and JammaInputTimeline.** `TicksComeOnTime`: the deadline rounds
up what the poll rounds down, and the lemma `TickIsDue` shows that the two meet at
every tick; that ticks are strictly apart needs at least one nanosecond to a
clock tick (`PitAssumption`, 10^9 against 1193182), and `TickInv` carries the order
over a restart of the schedule. `ReturnsHome`: `PadInv` says that the pad is in the
order of the interrupts and holds the record of each handler whose frame carries
the pad, with no newer one for the same place. `ReadsAreOfOwnTick`: `ReplayInv` says
whose each frame of the timeline is, that where an outer handler's is left so is
an inner one's, and that a young handler's is left. `ReplayIsExact`: `KeyInv` says
that the history is the end of all changes and its floor the last before it, and that
what is forgotten lies before the cutoff or, after an overflow, before the floor.
The difficulty is the late change: the history stamps it after the entries it still
has, the full record after all there ever were, so the two stamps differ; but then
both lie before the cutoff, which never goes back (`LowRises`).

The proof of `ReadsAreOfOwnTick` corrected the property. It used to promise a
handler its tick for `StaleBegins` interrupts whatever `DueCapacity` was, which holds in
the instance of the run, where a frame is stale before the list is full. In the code both are 64,
and then the full list loses a frame one interrupt before it is stale. The property now has the second
bound; TLC confirms both, the old form failing and the new one holding, on an
instance with three frames, staleness after three interrupts and six of them.

**AotPageCoherence.** `QuarantineIsKept` and `LinksAreOneJump` follow from `CacheInv`,
in which an entry starts with its own code exactly while it is active and only
earlier, retired generations are linked. `CodeIsFresh` needs `CoherenceInv`, which
follows a store: the pages of active code are watched and closed unless the store in
flight opened them (`WatchesHold`), what the store writes on a page opened for it is
noted (`StoreNoted`), and stale code is reached by the pages still to be visited
(`StaleNoted`), each but for code that reaches into an exposed page. Such code has to
be carried through the whole argument: a page stays on the watch list when a service
has left it open, and a later store to it retires nothing. The theorem assumes
nothing of what services write.

**LauncherUpdater.** `OldFilesAreKept`, `WorkersAreJoined` and the action property
`UpdateIsAllOrNothing`. `UpdaterInv` has which thread may do what at which stage
(`ThreadsInv`), what is known of the release (`ReleaseInv`), and, for each file
still to be visited, in hand, or on the list of steps, where its old and new
content stand (`OldKept`, `NewPlaced`, `BackedOut`).

**How the provers are used.** Induction over data cannot be had from the library, but its
well-founded minimum can: `LeastNatural` (every set of naturals that is not empty has
a least element) follows from it and gives quotients and remainders, the greatest
element of a bounded set, and the enumeration of a set of positions in order.
`SelectSeq` is opaque to the prover; the models therefore say what it would by a recursive
function (`Posted` of the channel) or an enumeration (`Kept` of the timeline).

**Only model-checked.** Liveness: `GateReturns`, `TeardownFinishes`, `SongKeepsMoving`,
`WorkerExits`, `ClockNeverStops` and `UpdateSettles`, since the prover does not handle
fairness. The assumption that the frames needed to synchronise fit below the logical
capacity (`Mp3Assumption`) is there for `SongKeepsMoving`; no theorem needs it. It is
false for the longest frames a header can announce: three frames of 1441 bytes
do not fit 3584.

## 5. Plan

All safety properties of the runs are proved. What is left, most important first:

1. The safety half of the liveness arguments, as invariants, as `NoWakeUpLost` is for
   the channel: in the decoder, that a sleeping worker and a guest without demand
   never coincide. (The timer has none: a request may be wiped out with its tick
   pending, and only a later tick asks again.)
2. The EEPROM's serial protocol, not modelled yet.

Not modelled, and not planned: instruction decoding and code generation, OpenGL
and pixel work, file formats, sample arithmetic, the user interface. They are
sequential transformations of data, where a model would repeat the code. They are
also most of the repository's lines: what is modelled is the small part in which
threads, faults and failures meet.
