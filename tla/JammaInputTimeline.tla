------------------------- MODULE JammaInputTimeline -------------------------
(***************************************************************************)
(* Input replay: the host records when keys change, the timer schedule     *)
(* records when ticks are due, and a port read inside a timer handler is   *)
(* answered with the keys as they were when that handler's tick was due    *)
(* (engine/io/jamma_input_timeline.cpp).  With it the records of where the *)
(* handlers return to (engine/io/timer_return_pad.cpp).  Every operation   *)
(* of the timeline runs under its lock and is one action; the ticks of one *)
(* poll are queued together, for what another operation finds in between   *)
(* is the same head of the queue.                                          *)
(*                                                                         *)
(* As in TimerInterrupt the guest keeps stack discipline, a larger sp is a *)
(* lower ESP, and a frame takes one unit.  Whether a tick may go in is     *)
(* TimerInterrupt's question; here it may whenever one is owed.  A record  *)
(* of the return pad holds the serial number of its interrupt in place of  *)
(* the interrupted address and the execution state that go with it.        *)
(***************************************************************************)
EXTENDS PitTimer, Sequences, SequencesExt, FiniteSetsExt

CONSTANTS
    Keys,             \* the JAMMA inputs
    HistoryCapacity,  \* kHistoryCapacity
    DueCapacity,      \* kDueCapacity, the tick backlog's bound too
    StaleBegins,      \* kReplayFrameStaleBegins
    PadCapacity,      \* TimerReturnPad::kCapacity
    Models,           \* the execution models: "cache" emulates iret, "direct" does not
    MaxEdges,         \* bound: key changes
    MaxLate,          \* bound: how late a key change is recorded
    MaxBegins,        \* bound: interrupts
    MaxStack          \* bound: the guest's stack

ASSUME TimelineAssumption ==
    /\ {HistoryCapacity, DueCapacity, PadCapacity} \subseteq Nat \ {0}
    /\ {StaleBegins, MaxEdges, MaxLate, MaxBegins, MaxStack} \subseteq Nat
    /\ Models \subseteq {"cache", "direct"}

VARIABLES
    history, floor,  \* history_ and the entry before it
    latest,          \* latest_pressed_mask_
    due, lastDue,    \* due_timestamps_, last_due_timestamp_ (-1: none yet)
    replay,          \* replay_frames_
    begins,          \* replay_begin_count_
    pad,             \* timer_return_pad.records
    model,           \* the execution model of the build
    hooked,          \* dpmi_interrupt_vectors[8].valid
    sp,              \* the guest's stack depth
    frames,          \* the injected frames that stand
    edges,           \* history variable: every change, none forgotten
    overflowed,      \* history variable: the history was once full
    unseen           \* history variable: handlers gone without a return anyone saw

keyVars   == <<history, floor, latest, edges, overflowed>>
tickVars  == <<due, lastDue, replay, begins>>
guestVars == <<model, hooked, sp, frames, pad, unseen>>
vars == <<pitVars, keyVars, tickVars, guestVars>>

Init ==
    /\ PitInit
    /\ history = <<>> /\ floor = [ts |-> 0, mask |-> {}] /\ latest = {}
    /\ due = <<>> /\ lastDue = -1 /\ replay = <<>> /\ begins = 0
    /\ pad = <<>> /\ model \in Models /\ hooked = FALSE
    /\ sp = 0 /\ frames = <<>>
    /\ edges = <<>> /\ overflowed = FALSE /\ unseen = {}

-----------------------------------------------------------------------------
(* The timeline's own operations. *)

(* Mutant: only the ticks not begun yet hold history back. *)
CutoffOfDue(d, r, l) == IF d # <<>> THEN Head(d) ELSE l

(* The earliest time a read can still ask for. *)
Cutoff(d, r, l) ==
    LET wanted == {Head(d) : x \in IF d = <<>> THEN {} ELSE {1}}
                    \cup {r[i].ts : i \in DOMAIN r}
    IN  IF wanted = {} THEN l ELSE Min(wanted)

(* PruneHistoryLocked: the entries up to the cutoff become the floor. *)
Removable(cutoff) ==
    Cardinality({n \in DOMAIN history : \A i \in 1..n : history[i].ts <= cutoff})

PrunedHistory(cutoff) == SubSeq(history, Removable(cutoff) + 1, Len(history))
PrunedFloor(cutoff) == IF Removable(cutoff) = 0 THEN floor ELSE history[Removable(cutoff)]

(* With what the action leaves of the ticks. *)
Prunes ==
    LET cutoff == Cutoff(due', replay', lastDue') IN
    /\ history' = PrunedHistory(cutoff) /\ floor' = PrunedFloor(cutoff)
    /\ UNCHANGED <<latest, edges, overflowed>>

(* StateAtLocked *)
StateAt(t) ==
    LET upto == {n \in DOMAIN history : \A i \in 1..n : history[i].ts <= t}
    IN  IF upto = {} THEN floor.mask ELSE history[Max(upto)].mask

(* What is left of a list when only the positions in kept stay. *)
Kept(s, kept) ==
    LET n  == Cardinality(kept)
        at == CHOOSE f \in [1..n -> kept] : \A i, j \in 1..n : i < j => f[i] < f[j]
    IN  [i \in 1..n |-> s[at[i]]]

(* RetireReplayFramesLocked: frames the stack is seen above are gone. *)
RetireReplayFrames(r, esp) ==
    SubSeq(r, 1, Max({0} \cup {n \in DOMAIN r : r[n].esp <= esp}))

(* RetireStaleReplayFramesLocked *)
RetireStale(r) == Kept(r, {n \in DOMAIN r : begins - r[n].begin <= StaleBegins})

LiveFrames(esp) == RetireStale(RetireReplayFrames(replay, esp))

-----------------------------------------------------------------------------
(* The host. *)

(* RecordKeyEdge and RecordAllReleased, by the time SDL gives the event;   *)
(* a change to what is already recorded is no change.                      *)
RecordState(t, mask) ==
    LET stamp  == IF history = <<>> THEN t ELSE Max({t, Last(history).ts})
        cutoff == Cutoff(due, replay, lastDue)
        kept   == PrunedHistory(cutoff)
        full   == Len(kept) = HistoryCapacity
    IN
    /\ mask # latest /\ Len(edges) < MaxEdges
    /\ history' = Append(IF full THEN Tail(kept) ELSE kept, [ts |-> stamp, mask |-> mask])
    /\ floor' = IF full THEN Head(kept) ELSE PrunedFloor(cutoff)
    /\ latest' = mask
    /\ edges' = Append(edges, [ts   |-> IF edges = <<>> THEN t ELSE Max({t, Last(edges).ts}),
                               mask |-> mask])
    /\ overflowed' = (overflowed \/ full)
    /\ UNCHANGED <<pitVars, tickVars, guestVars>>

RecordKeyEdge(t, key, pressed) ==
    RecordState(t, IF pressed THEN latest \cup {key} ELSE latest \ {key})

RecordAllReleased(t) == RecordState(t, {})

(* arm_due_timer_ticks: the ticks a poll finds due are queued as far as    *)
(* the backlog takes them (RecordTimerTicksDue, EnqueueTimerTick).         *)
ArmDueTimerTicks ==
    LET room     == DueCapacity - Len(due)
        accepted == IF Cardinality(DueOrdinals) <= room THEN Cardinality(DueOrdinals) ELSE room
        times    == [i \in 1..accepted |-> DueTime(schedule.emitted + i)]
    IN
    /\ PollSchedule
    /\ due' = due \o times
    /\ lastDue' = IF accepted = 0 THEN lastDue ELSE Last(times)
    /\ UNCHANGED <<replay, begins, guestVars>>
    /\ IF accepted = 0 THEN UNCHANGED keyVars ELSE Prunes

-----------------------------------------------------------------------------
(* The guest. *)

Standing == IF frames = <<>> THEN 0 ELSE Last(frames).esp

ProgramTimer(d) == PublishDivisor(d) /\ UNCHANGED <<keyVars, tickVars, guestVars>>

HookVector ==
    /\ ~hooked /\ hooked' = TRUE
    /\ UNCHANGED <<pitVars, keyVars, tickVars, model, sp, frames, pad, unseen>>

(* No vector to reach: ClearTimerTicks. *)
ClearTimerTicks ==
    /\ ~hooked /\ due # <<>>
    /\ due' = <<>> /\ replay' = <<>>
    /\ UNCHANGED <<pitVars, lastDue, begins, guestVars>>
    /\ Prunes

GuestMovesStack(depth) ==
    /\ sp # depth /\ depth <= MaxStack
    /\ sp' = depth
    /\ UNCHANGED <<pitVars, keyVars, tickVars, model, hooked, frames, pad, unseen>>

(* TryReplayPressedMask, which forgets what it finds gone. *)
ReadJammaPort8 ==
    /\ replay' = LiveFrames(sp)
    /\ UNCHANGED <<pitVars, due, lastDue, begins, guestVars>>
    /\ Prunes

(* BeginTimerInterrupt.  A full list of frames loses its oldest.  There is *)
(* a due time for every tick owed (TicksAccounted of TimerInterrupt), so   *)
(* the one that finds none is not reached.                                 *)
BegunFrames(esp) ==
    LET live == LiveFrames(esp)
        f    == [ts |-> Head(due), esp |-> esp + 1, begin |-> begins + 1]
    IN  Append(IF Len(live) = DueCapacity THEN Tail(live) ELSE live, f)

(* PushTimerReturn: the records of frames the stack stands above make room *)
(* when there is none.                                                     *)
PadRoom(esp) ==
    IF Len(pad) < PadCapacity THEN pad
    ELSE Kept(pad, {n \in DOMAIN pad : pad[n].esp <= esp})

PushTimerReturn(esp, serial) ==
    LET kept == PadRoom(esp) IN
    IF Len(kept) < PadCapacity THEN Append(kept, [esp |-> esp + 1, serial |-> serial])
    ELSE kept

(* A tick goes in.  Without a pad record the frame carries the real return *)
(* address, and the return is native.                                      *)
Inject ==
    /\ hooked /\ due # <<>> /\ begins < MaxBegins /\ sp < MaxStack
    /\ replay' = BegunFrames(sp) /\ due' = Tail(due) /\ begins' = begins + 1
    /\ pad' = IF model = "direct" THEN PushTimerReturn(sp, begins') ELSE pad
    /\ frames' = Append(frames, [esp |-> sp + 1, serial |-> begins', ts |-> Head(due),
                                 padded |-> model = "direct" /\ Len(PadRoom(sp)) < PadCapacity])
    /\ sp' = sp + 1
    /\ UNCHANGED <<pitVars, lastDue, model, hooked, unseen>>
    /\ Prunes

(* Mutant: a return ends the newest frame or none. *)
EndOfNewest(esp) ==
    IF replay # <<>> /\ Last(replay).esp = esp THEN Front(replay) ELSE replay

(* EndTimerInterrupt: the frame at esp, and what nested above it. *)
EndTimerInterrupt(esp) ==
    LET found == {n \in DOMAIN replay : replay[n].esp = esp}
    IN  IF found = {} THEN replay ELSE SubSeq(replay, 1, Max(found) - 1)

(* Mutant: the search starts at the oldest record. *)
PopFoundOldest(esp) ==
    LET found == {n \in DOMAIN pad : pad[n].esp = esp}
    IN  IF found = {} THEN Len(pad) ELSE Min(found)

(* PopTimerReturn: the newest record of the frame, or the newest of all. *)
PopFound(esp) ==
    LET found == {n \in DOMAIN pad : pad[n].esp = esp}
    IN  IF found = {} THEN Len(pad) ELSE Max(found)

(* Handlers nobody saw go, as far as the timeline still has their frames. *)
GoUnseen(serials) ==
    unseen' = (unseen \cup serials) \cap {replay[i].begin : i \in DOMAIN replay}

(* The iret of the newest frame: emulated, faulting at the return pad      *)
(* (HandleTimerReturnPad), or native and seen by nobody.                   *)
HandlerReturns ==
    LET f      == Last(frames)
        record == pad[PopFound(f.esp)]
    IN
    /\ frames # <<>>
    /\ sp' = f.esp - 1 /\ frames' = Front(frames)
    /\ UNCHANGED <<pitVars, due, lastDue, begins, model, hooked>>
    /\ CASE model = "cache" ->
              replay' = EndTimerInterrupt(f.esp) /\ UNCHANGED <<pad, unseen>>
         [] model = "direct" /\ f.padded ->
              /\ pad' = SubSeq(pad, 1, PopFound(f.esp) - 1)
              /\ replay' = EndTimerInterrupt(record.esp)
              /\ UNCHANGED unseen
         [] OTHER ->
              GoUnseen({f.serial}) /\ UNCHANGED <<replay, pad>>
    /\ IF replay' = replay THEN UNCHANGED keyVars ELSE Prunes

(* The iret of any other frame, where irets are emulated. *)
OtherIret ==
    /\ model = "cache" /\ sp > Standing
    /\ sp' = sp - 1
    /\ replay' = EndTimerInterrupt(sp)
    /\ UNCHANGED <<pitVars, due, lastDue, begins, model, hooked, frames, pad, unseen>>
    /\ IF replay' = replay THEN UNCHANGED keyVars ELSE Prunes

(* The guest leaves handlers for good, as a long jump out of them does. *)
Abandon(n) ==
    /\ n \in DOMAIN frames
    /\ frames' = SubSeq(frames, 1, n - 1) /\ sp' = frames[n].esp - 1
    /\ GoUnseen({frames[i].serial : i \in n..Len(frames)})
    /\ UNCHANGED <<pitVars, keyVars, tickVars, model, hooked, pad>>

-----------------------------------------------------------------------------
Next ==
    \/ TimePasses /\ UNCHANGED <<keyVars, tickVars, guestVars>>
    \/ \E t \in {u \in 0..now : now - u <= MaxLate} :
          \/ \E key \in Keys, pressed \in BOOLEAN : RecordKeyEdge(t, key, pressed)
          \/ RecordAllReleased(t)
    \/ ArmDueTimerTicks
    \/ \E d \in Divisors : ProgramTimer(d)
    \/ HookVector \/ ClearTimerTicks
    \/ \E depth \in Standing..(Standing + 1) : GuestMovesStack(depth)
    \/ ReadJammaPort8 \/ Inject \/ HandlerReturns \/ OtherIret
    \/ \E n \in DOMAIN frames : Abandon(n)

Spec == Init /\ [][Next]_vars

-----------------------------------------------------------------------------
(* Properties. *)

(* The keys at time t by all the changes recorded, none forgotten. *)
TrueMaskAt(t) ==
    LET upto == {n \in DOMAIN edges : edges[n].ts <= t}
    IN  IF upto = {} THEN {} ELSE edges[Max(upto)].mask

Wanted == {due[i] : i \in DOMAIN due} \cup {replay[i].ts : i \in DOMAIN replay}

(* What pruning forgets is never asked for: for each tick owed and each    *)
(* handler that runs, the kept history gives the keys as all the changes   *)
(* recorded would, in whatever order changes, ticks and returns came.      *)
(* Only an overflowing history may answer with its floor instead, for      *)
(* times before it (PruneHistoryLocked, StateAtLocked).                    *)
ReplayExact ==
    \A t \in Wanted : StateAt(t) = TrueMaskAt(t) \/ (overflowed /\ t < floor.ts)

(* A read is answered from the tick of the innermost handler that stands,  *)
(* and outside every handler it is live; a handler the engine did not see  *)
(* go may answer in its place, but not after StaleBegins later interrupts. *)
(* A handler younger than that, which the full list of frames has not lost *)
(* either, gets its own tick unless such a one is newer                    *)
(* (TryReplayPressedMask, BeginTimerInterrupt, EndTimerInterrupt).         *)
ReadsOwnTick ==
    LET live  == LiveFrames(sp)
        inner == Last(frames)
        ghost == {s \in unseen : begins - s <= StaleBegins}
        own   == IF frames = <<>> THEN {} ELSE {inner.serial}
    IN  /\ live # <<>> => Last(live).begin \in own \cup ghost
        /\ live # <<>> /\ Last(live).begin \in own => Last(live).ts = inner.ts
        /\ own # {} /\ begins - inner.serial <= StaleBegins
             /\ begins - inner.serial < DueCapacity
             /\ (\A s \in ghost : s < inner.serial)
             => live # <<>> /\ Last(live).begin = inner.serial

(* A handler whose frame carries the return pad goes back to the code its  *)
(* own tick interrupted: as often as handlers nest, are left without a     *)
(* return, or find the pad full, the record its return takes is its own    *)
(* (PushTimerReturn, PopTimerReturn).                                      *)
PadReturnsHome ==
    \A i \in DOMAIN frames :
        frames[i].padded => pad # <<>> /\ pad[PopFound(frames[i].esp)].serial = frames[i].serial

(* Ticks reach the timeline in the order they were due, none before its    *)
(* time, also across a new divisor published between polls, and the host's *)
(* deadline is the tick's own (PitIrqSchedule::Poll, EnqueueTimerTick).    *)
TicksOnTime ==
    /\ DeadlineIsTheTick
    /\ \A i, j \in DOMAIN due : i < j => due[i] < due[j]
    /\ \A t \in Wanted : t <= now /\ t <= lastDue
    /\ \A i \in DOMAIN replay : due # <<>> => replay[i].ts < Head(due)

=============================================================================
