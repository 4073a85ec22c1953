-------------------------- MODULE GlideHostChannel --------------------------
(***************************************************************************)
(* The command channel between the guest thread, which runs the game, and  *)
(* the host thread, which owns the window and the OpenGL context           *)
(* (src/src/engine/glide_opengl_backend.cpp).  The guest hands work over   *)
(* in two ways: it publishes one command in a slot and waits for it        *)
(* (InvokeOnHostThread), or it posts a command to a bounded FIFO and goes  *)
(* on (PostToHostThread).  One mutex and one condition variable serve      *)
(* both; every critical section is one action here, and what a thread does *)
(* after unlocking (a notify, the command itself) is an action of its own. *)
(* The hint flags that both threads spin on before they take the lock are  *)
(* left out: under the lock each wait tests its condition again, so a hint *)
(* changes how long a thread spins and never what it does.                 *)
(***************************************************************************)
EXTENDS Naturals, Sequences, FiniteSets

CONSTANTS
    Capacity,             \* kGlideAsyncCommandCapacity
    MaxOutstandingSwaps,  \* kGlideMaxOutstandingSwaps
    AsyncModes,           \* what asyncPresent may be
    RecoveryAttempts,     \* kShutdownRecoveryAttempts
    MaxCommands           \* bound: commands the guest submits in a behaviour

ASSUME ChannelAssumption ==
    /\ Capacity \in Nat \ {0}
    /\ MaxOutstandingSwaps \in Nat \ {0}
    /\ RecoveryAttempts \in Nat
    /\ MaxCommands \in Nat
    /\ AsyncModes \subseteq BOOLEAN

VARIABLES
    asyncPresent,  \* GlideAsyncPresentEnabled()
    guestPc,       \* where the guest thread is
    guestCommand,  \* the command it is handing over
    asleep,        \* it is blocked on host_command_cv_
    queue,         \* async_present().commands; its length is queued_command_count_
    slot,          \* host_command_
    pending,       \* host_command_pending_
    complete,      \* host_command_complete_
    pendingSwaps,  \* pending_swap_count_
    stopped,       \* host_stopped_pumping_
    hostPc,        \* where the host thread is in the pump
    hostCommand,   \* the command it runs
    phase,         \* which part of the run calls the pump
    attempts,      \* shutdown recovery attempts made
    orphaned,      \* the mutex belongs to a guest thread that was terminated
    accepted,      \* history: commands the channel took, in order
    executed,      \* history: commands that ran, in order
    overtaken      \* history: a window was opened before a swap posted earlier ran

guestVars == <<guestPc, guestCommand>>
slotVars  == <<slot, pending, complete>>
hostVars  == <<hostPc, hostCommand>>
endVars   == <<phase, attempts, orphaned>>
moving == <<guestVars, asleep, queue, slotVars, pendingSwaps, stopped,
            hostVars, endVars, accepted, executed, overtaken>>
vars == <<asyncPresent, moving>>

(***************************************************************************)
(* Commands.  A draw batch and a clear are posted alike ("draw"); every    *)
(* other gate that reaches the backend is a "call" that waits for its      *)
(* result.                                                                 *)
(***************************************************************************)
PostKinds == IF asyncPresent THEN {"draw", "swap"} ELSE {"swap"}
SyncKinds == {"call", "open", "close"}
Kinds     == {"draw", "swap"} \cup SyncKinds
Command   == [id : 1..MaxCommands, kind : Kinds]
NoCommand == [id |-> 0, kind |-> "none"]

IsPosted(c) == c.kind \in {"draw", "swap"}
IsSwap(c)   == c.kind = "swap"

Running == IF hostPc \in {"async", "sync"} THEN <<hostCommand>> ELSE <<>>

(* The swaps accepted and not presented yet. *)
OutstandingSwaps ==
    {c \in {queue[i] : i \in DOMAIN queue} \cup {Running[i] : i \in DOMAIN Running} :
        IsSwap(c)}

(* Mutant: the swap bound is forgotten, the queue bound alone stops a post. *)
HasRoomQueueOnly(c) == Len(queue) < Capacity

HasRoom(c) ==
    /\ Len(queue) < Capacity
    /\ IsSwap(c) => pendingSwaps < MaxOutstandingSwaps

-----------------------------------------------------------------------------
Init ==
    /\ asyncPresent \in AsyncModes
    /\ guestPc = "game" /\ guestCommand = NoCommand /\ asleep = FALSE
    /\ queue = <<>>
    /\ slot = NoCommand /\ pending = FALSE /\ complete = FALSE
    /\ pendingSwaps = 0 /\ stopped = FALSE
    /\ hostPc = "idle" /\ hostCommand = NoCommand
    /\ phase = "polling" /\ attempts = 0 /\ orphaned = FALSE
    /\ accepted = <<>> /\ executed = <<>> /\ overtaken = FALSE

-----------------------------------------------------------------------------
(* The guest thread. *)

(* The game reaches a Glide gate. *)
EnterGate(kind) ==
    /\ guestPc = "game"
    /\ guestCommand.id < MaxCommands
    /\ guestCommand' = [id |-> guestCommand.id + 1, kind |-> kind]
    /\ guestPc' = IF kind \in SyncKinds THEN "invoke" ELSE "post"
    /\ UNCHANGED <<asleep, queue, slotVars, pendingSwaps, stopped, hostVars,
                   endVars, accepted, executed, overtaken>>

(* PostToHostThread finds no room and the host still pumping: it waits. *)
PostBlocks ==
    /\ guestPc = "post" /\ ~asleep
    /\ ~HasRoom(guestCommand) /\ ~stopped
    /\ asleep' = TRUE
    /\ UNCHANGED <<guestVars, queue, slotVars, pendingSwaps, stopped, hostVars,
                   endVars, accepted, executed, overtaken>>

(* PostToHostThread refuses on a closed channel.  Without the asynchronous  *)
(* present the gate then swaps synchronously.                              *)
PostRefused ==
    /\ guestPc = "post" /\ ~asleep
    /\ stopped
    /\ IF asyncPresent
         THEN guestPc' = "game" /\ UNCHANGED guestCommand
         ELSE guestPc' = "invoke" /\ guestCommand' = [guestCommand EXCEPT !.kind = "call"]
    /\ UNCHANGED <<asleep, queue, slotVars, pendingSwaps, stopped, hostVars,
                   endVars, accepted, executed, overtaken>>

(* PostToHostThread queues the command. *)
PostToHostThread ==
    /\ guestPc = "post" /\ ~asleep
    /\ HasRoom(guestCommand) /\ ~stopped
    /\ queue' = Append(queue, guestCommand)
    /\ pendingSwaps' = IF IsSwap(guestCommand) THEN pendingSwaps + 1 ELSE pendingSwaps
    /\ accepted' = Append(accepted, guestCommand)
    /\ guestPc' = IF asyncPresent THEN "game" ELSE "swapWait"
    /\ UNCHANGED <<guestCommand, asleep, slotVars, stopped, hostVars, endVars,
                   executed, overtaken>>

(* Mutant: the gate returns as soon as the swap is posted. *)
WaitForPendingSwapsSkipped ==
    /\ guestPc = "swapWait"
    /\ guestPc' = "game"
    /\ UNCHANGED <<guestCommand, asleep, queue, slotVars, pendingSwaps, stopped,
                   hostVars, endVars, accepted, executed, overtaken>>

(* WaitForPendingSwaps: polled with a timeout, so it needs no wake-up. *)
WaitForPendingSwaps ==
    /\ guestPc = "swapWait"
    /\ pendingSwaps = 0 \/ stopped
    /\ guestPc' = "game"
    /\ UNCHANGED <<guestCommand, asleep, queue, slotVars, pendingSwaps, stopped,
                   hostVars, endVars, accepted, executed, overtaken>>

(* InvokeOnHostThread up to the wait: publish the command in the slot. *)
InvokePublish ==
    /\ guestPc = "invoke" /\ ~asleep
    /\ ~pending
    /\ slot' = guestCommand /\ pending' = TRUE /\ complete' = FALSE
    /\ accepted' = Append(accepted, guestCommand)
    /\ guestPc' = "await"
    /\ UNCHANGED <<guestCommand, asleep, queue, pendingSwaps, stopped, hostVars,
                   endVars, executed, overtaken>>

(* InvokeOnHostThread blocks: the command has not completed. *)
InvokeBlocks ==
    /\ guestPc = "await" /\ ~asleep
    /\ ~complete
    /\ asleep' = TRUE
    /\ UNCHANGED <<guestVars, queue, slotVars, pendingSwaps, stopped, hostVars,
                   endVars, accepted, executed, overtaken>>

InvokeReturn ==
    /\ guestPc = "await" /\ ~asleep
    /\ complete
    /\ guestPc' = "game"
    /\ UNCHANGED <<guestCommand, asleep, queue, slotVars, pendingSwaps, stopped,
                   hostVars, endVars, accepted, executed, overtaken>>

(* The program ends by itself. *)
GuestExit ==
    /\ guestPc = "game"
    /\ guestPc' = "stopped"
    /\ UNCHANGED <<guestCommand, asleep, queue, slotVars, pendingSwaps, stopped,
                   hostVars, endVars, accepted, executed, overtaken>>

-----------------------------------------------------------------------------
(* The host thread. *)

(* PumpHostCommands, entered from the poll loop, from                      *)
(* WaitAndPumpHostCommands or from the shutdown recovery loop.  The depth  *)
(* is read once, without the lock.                                         *)
StartPump == hostPc' = IF queue = <<>> THEN "slot" ELSE "drain"

PumpHostCommands ==
    /\ hostPc = "idle" /\ phase = "polling"
    /\ StartPump
    /\ UNCHANGED <<guestVars, asleep, queue, slotVars, pendingSwaps, stopped,
                   hostCommand, endVars, accepted, executed, overtaken>>

(* Mutant: the front command is copied and run, and popped only when the   *)
(* next turn of the loop finds it was the last.                            *)
DrainAsyncCommandsCopies ==
    /\ hostPc = "drain"
    /\ IF queue = <<>>
         THEN hostPc' = "slot" /\ UNCHANGED <<queue, hostCommand>>
         ELSE /\ hostCommand' = Head(queue)
              /\ queue' = IF Len(queue) > 1 THEN Tail(queue) ELSE queue
              /\ hostPc' = "async"
    /\ UNCHANGED <<guestVars, asleep, slotVars, pendingSwaps, stopped, endVars,
                   accepted, executed, overtaken>>

(* Mutant: a swap is retired when it is taken, before it is presented. *)
DrainAsyncCommandsRetires ==
    /\ hostPc = "drain"
    /\ IF queue = <<>>
         THEN hostPc' = "slot" /\ UNCHANGED <<queue, hostCommand, pendingSwaps>>
         ELSE /\ hostCommand' = Head(queue) /\ queue' = Tail(queue)
              /\ pendingSwaps' = IF IsSwap(Head(queue)) /\ pendingSwaps # 0
                                   THEN pendingSwaps - 1 ELSE pendingSwaps
              /\ hostPc' = "async"
    /\ UNCHANGED <<guestVars, asleep, slotVars, stopped, endVars, accepted,
                   executed, overtaken>>

(* DrainAsyncCommands takes the oldest posted command, or finds none. *)
DrainAsyncCommands ==
    /\ hostPc = "drain"
    /\ IF queue = <<>>
         THEN hostPc' = "slot" /\ UNCHANGED <<queue, hostCommand>>
         ELSE /\ hostCommand' = Head(queue) /\ queue' = Tail(queue)
              /\ hostPc' = "async"
    /\ UNCHANGED <<guestVars, asleep, slotVars, pendingSwaps, stopped, endVars,
                   accepted, executed, overtaken>>

(* Mutant: the count is decremented without testing it for zero. *)
RunAsyncUnderflows ==
    /\ hostPc = "async"
    /\ executed' = Append(executed, hostCommand)
    /\ pendingSwaps' = IF IsSwap(hostCommand) THEN pendingSwaps - 1 ELSE pendingSwaps
    /\ asleep' = (asleep /\ ~IsSwap(hostCommand))
    /\ hostPc' = "retired"
    /\ UNCHANGED <<guestVars, queue, slotVars, stopped, hostCommand,
                   endVars, accepted, overtaken>>

(* The posted command runs.  A swap retires itself and notifies            *)
(* (PostBufferSwap), unless it threw: then the drain swallows the          *)
(* exception and the count stays.                                          *)
RunAsync ==
    /\ hostPc = "async"
    /\ executed' = Append(executed, hostCommand)
    /\ \/ /\ IsSwap(hostCommand)
          /\ pendingSwaps' = (IF pendingSwaps # 0 THEN pendingSwaps - 1 ELSE 0)
          /\ asleep' = FALSE
       \/ UNCHANGED <<pendingSwaps, asleep>>
    /\ hostPc' = "retired"
    /\ UNCHANGED <<guestVars, queue, slotVars, stopped, hostCommand,
                   endVars, accepted, overtaken>>

(* Mutant: room is freed without waking anyone. *)
NotifyRoomForgotten ==
    /\ hostPc = "retired"
    /\ hostPc' = "drain"
    /\ UNCHANGED <<guestVars, asleep, queue, slotVars, pendingSwaps, stopped,
                   hostCommand, endVars, accepted, executed, overtaken>>

(* ... and whoever the bounds stopped is woken. *)
NotifyRoom ==
    /\ hostPc = "retired"
    /\ asleep' = FALSE
    /\ hostPc' = "drain"
    /\ UNCHANGED <<guestVars, queue, slotVars, pendingSwaps, stopped, hostCommand,
                   endVars, accepted, executed, overtaken>>

(* The pump looks at the synchronous slot. *)
CheckSlot ==
    /\ hostPc = "slot"
    /\ IF pending
         THEN hostCommand' = slot /\ hostPc' = "sync"
         ELSE hostPc' = "idle" /\ UNCHANGED hostCommand
    /\ UNCHANGED <<guestVars, asleep, queue, slotVars, pendingSwaps, stopped,
                   endVars, accepted, executed, overtaken>>

(* The published command runs.  Close marks the channel shut and forgets   *)
(* the pending swaps; OpenWindowed closes first and then reopens.          *)
RunSync ==
    /\ hostPc = "sync"
    /\ executed' = Append(executed, hostCommand)
    /\ IF hostCommand.kind \in {"open", "close"}
         THEN stopped' = (hostCommand.kind = "close") /\ pendingSwaps' = 0
         ELSE UNCHANGED <<stopped, pendingSwaps>>
    /\ overtaken' = (overtaken \/ (hostCommand.kind = "open" /\ OutstandingSwaps # {}))
    /\ hostPc' = "ran"
    /\ UNCHANGED <<guestVars, asleep, queue, slotVars, hostCommand, endVars, accepted>>

(* Mutant: the completion is published and nobody is notified. *)
PublishCompletionSilent ==
    /\ hostPc = "ran"
    /\ slot' = NoCommand /\ pending' = FALSE /\ complete' = TRUE
    /\ hostPc' = "idle"
    /\ UNCHANGED <<guestVars, asleep, queue, pendingSwaps, stopped, hostCommand,
                   endVars, accepted, executed, overtaken>>

PublishCompletion ==
    /\ hostPc = "ran"
    /\ slot' = NoCommand /\ pending' = FALSE /\ complete' = TRUE
    /\ hostPc' = "notify"
    /\ UNCHANGED <<guestVars, asleep, queue, pendingSwaps, stopped, hostCommand,
                   endVars, accepted, executed, overtaken>>

NotifyCompletion ==
    /\ hostPc = "notify"
    /\ asleep' = FALSE
    /\ hostPc' = "idle"
    /\ UNCHANGED <<guestVars, queue, slotVars, pendingSwaps, stopped, hostCommand,
                   endVars, accepted, executed, overtaken>>

-----------------------------------------------------------------------------
(* Shutdown. *)

(* The poll loop gives up: a quit event or the run's timeout. *)
RequestExit ==
    /\ hostPc = "idle" /\ phase = "polling"
    /\ phase' = "recovering"
    /\ UNCHANGED <<guestVars, asleep, queue, slotVars, pendingSwaps, stopped,
                   hostVars, attempts, orphaned, accepted, executed, overtaken>>

(* The guest thread is found in guest code and sent to its recovery entry, *)
(* or has already ended.  A swap wait runs guest code too: the handlers of *)
(* the ticks injected into it.                                             *)
RecoverGuest ==
    /\ hostPc = "idle"
    /\ \/ phase = "recovering" /\ guestPc \in {"game", "stopped", "swapWait"}
       \/ phase = "polling" /\ guestPc = "stopped"
    /\ guestPc' = "stopped"
    /\ phase' = "stopping"
    /\ UNCHANGED <<guestCommand, asleep, queue, slotVars, pendingSwaps, stopped,
                   hostVars, attempts, orphaned, accepted, executed, overtaken>>

(* It is inside the engine: refused, and the gate is pumped once more. *)
RecoveryRefused ==
    /\ hostPc = "idle" /\ phase = "recovering"
    /\ guestPc \notin {"game", "stopped"}
    /\ attempts < RecoveryAttempts
    /\ attempts' = attempts + 1
    /\ StartPump
    /\ UNCHANGED <<guestVars, asleep, queue, slotVars, pendingSwaps, stopped,
                   hostCommand, phase, orphaned, accepted, executed, overtaken>>

(* The host gives up on a guest that still runs: every attempt was         *)
(* refused, an interrupt was not answered in time, or a guest sent to its  *)
(* recovery entry could not be joined.                                     *)
GivesUp == hostPc = "idle" /\ phase = "recovering" /\ guestPc # "stopped"

(* TerminateHostThread stops the guest wherever it is, possibly inside a   *)
(* critical section.                                                       *)
TerminateGuest ==
    /\ GivesUp
    /\ guestPc' = "stopped" /\ asleep' = FALSE
    /\ orphaned' \in IF asleep \/ guestPc = "game" THEN {FALSE} ELSE BOOLEAN
    /\ phase' = "stopping"
    /\ UNCHANGED <<guestCommand, queue, slotVars, pendingSwaps, stopped, hostVars,
                   attempts, accepted, executed, overtaken>>

(* Where no thread can be stopped from outside the process leaves at once. *)
ImmediateExit ==
    /\ GivesUp
    /\ phase' = "exited"
    /\ UNCHANGED <<guestVars, asleep, queue, slotVars, pendingSwaps, stopped,
                   hostVars, attempts, orphaned, accepted, executed, overtaken>>

(* Mutant: Close takes the mutex. *)
CloseLocks ==
    /\ phase = "stopping" /\ ~orphaned
    /\ stopped' = TRUE /\ pendingSwaps' = 0
    /\ phase' = "closed"
    /\ UNCHANGED <<guestVars, asleep, queue, slotVars, hostVars, attempts, orphaned,
                   accepted, executed, overtaken>>

(* Close on the host thread: no lock, no drain, no notify. *)
Close ==
    /\ phase = "stopping"
    /\ stopped' = TRUE /\ pendingSwaps' = 0
    /\ phase' = "closed"
    /\ UNCHANGED <<guestVars, asleep, queue, slotVars, hostVars, attempts, orphaned,
                   accepted, executed, overtaken>>

Finished == phase \in {"closed", "exited"} /\ UNCHANGED vars

-----------------------------------------------------------------------------
(* What the guest thread does once it is inside a gate. *)
GuestGate ==
    /\ phase # "exited"
    /\ \/ PostBlocks \/ PostRefused \/ PostToHostThread
       \/ WaitForPendingSwaps
       \/ InvokePublish \/ InvokeBlocks \/ InvokeReturn

(* What the game is free to do. *)
Game ==
    /\ phase # "exited"
    /\ \/ \E kind \in PostKinds \cup SyncKinds : EnterGate(kind)
       \/ GuestExit

HostPump ==
    \/ PumpHostCommands \/ DrainAsyncCommands \/ RunAsync \/ NotifyRoom
    \/ CheckSlot \/ RunSync \/ PublishCompletion \/ NotifyCompletion
    \/ RecoveryRefused

Shutdown == RecoverGuest \/ TerminateGuest \/ ImmediateExit \/ Close

Next == (Game \/ GuestGate \/ HostPump \/ RequestExit \/ Shutdown \/ Finished)
        /\ UNCHANGED asyncPresent

Spec == Init /\ [][Next]_vars

(* The operating system runs both threads, and a host that is shutting     *)
(* down goes on to shut down; neither the game nor the user is obliged to  *)
(* do anything.                                                            *)
FairSpec == Spec /\ WF_moving(GuestGate) /\ WF_moving(HostPump) /\ WF_moving(Shutdown)

-----------------------------------------------------------------------------
(* Properties. *)

(* The channel's state stays well formed; above all the unsigned count of  *)
(* pending swaps never goes below zero, although Close resets it behind    *)
(* the back of swaps still queued (PostBufferSwap).                        *)
TypeOK ==
    /\ asyncPresent \in BOOLEAN
    /\ guestPc \in {"game", "post", "swapWait", "invoke", "await", "stopped"}
    /\ guestCommand \in Command \cup {NoCommand}
    /\ asleep \in BOOLEAN
    /\ queue \in Seq(Command) /\ Len(queue) <= Capacity
    /\ slot \in Command \cup {NoCommand}
    /\ pending \in BOOLEAN /\ complete \in BOOLEAN
    /\ pendingSwaps \in 0..MaxOutstandingSwaps
    /\ stopped \in BOOLEAN
    /\ hostPc \in {"idle", "drain", "async", "retired", "slot", "sync", "ran", "notify"}
    /\ hostCommand \in Command \cup {NoCommand}
    /\ phase \in {"polling", "recovering", "stopping", "closed", "exited"}
    /\ attempts \in 0..RecoveryAttempts
    /\ orphaned \in BOOLEAN
    /\ accepted \in Seq(Command) /\ executed \in Seq(Command)
    /\ overtaken \in BOOLEAN

(* The posted commands of s, in their order: SelectSeq(s, IsPosted) as a   *)
(* recursive function, which proofs can unfold.                            *)
Posted(s) ==
    LET F[i \in 0..Len(s)] ==
            IF i = 0 THEN <<>>
            ELSE IF IsPosted(s[i]) THEN Append(F[i - 1], s[i]) ELSE F[i - 1]
    IN  F[Len(s)]

(* Posted commands are neither lost, duplicated nor reordered, whatever    *)
(* synchronous commands, refusals and closes come in between: those that   *)
(* ran, the one running and those queued are the accepted ones in order    *)
(* (PostToHostThread, DrainAsyncCommands).                                 *)
PostedInOrder ==
    Posted(accepted) = Posted(executed) \o Posted(Running) \o queue

(* The back pressure "keeps the guest from running more than a frame       *)
(* ahead" (the comment in PostToHostThread).                               *)
NeverMoreThanAFrameAhead == Cardinality(OutstandingSwaps) <= MaxOutstandingSwaps

(* It does until a window opened again overtakes a posted swap and forgets *)
(* it, which takes the asynchronous present; from then on the guest may be *)
(* twice as far ahead and no further, however often windows are opened     *)
(* (PostToHostThread, OpenWindowed, Close).                                *)
OutstandingSwapsBounded ==
    /\ overtaken => asyncPresent
    /\ IF overtaken THEN Cardinality(OutstandingSwaps) <= 2 * MaxOutstandingSwaps
                    ELSE NeverMoreThanAFrameAhead

(* In the default mode what grBufferNumPending answers on an open channel  *)
(* covers every swap not presented yet, so a gate that waits for zero      *)
(* returns only when the frame is on the display (WaitForPendingSwaps).    *)
PendingSwapsCovered ==
    ~asyncPresent /\ ~stopped => pendingSwaps >= Cardinality(OutstandingSwaps)

(* No wake-up is lost.  A guest that sleeps until its command completes    *)
(* has it still pending or the notify still to come; one that the bounds   *)
(* put to sleep finds itself with room only while the host has yet to      *)
(* notify, and never on a closed channel, whose Close notifies nobody      *)
(* (InvokeOnHostThread, PostToHostThread, DrainAsyncCommands, Close).      *)
NoWakeUpLost ==
    asleep =>
        \/ guestPc = "await" /\ (pending \/ hostPc = "notify")
        \/ /\ guestPc = "post" /\ ~stopped
           /\ HasRoom(guestCommand) => hostPc \in {"async", "retired"}

(* A synchronous command that has completed proves that every command the  *)
(* channel accepted before it has run (the comment in InvokeOnHostThread). *)
CompletionProvesEarlierRan ==
    guestPc = "await" /\ complete => executed = accepted

Fifo == INSTANCE FifoExecution

(* In the default mode, where the gate waits for its swaps, the backend    *)
(* implements FIFO execution: every command, posted or published, runs     *)
(* once and in the order of submission (the comment in PumpHostCommands).  *)
RunsInSubmissionOrder ==
    Fifo!Init /\ [][asyncPresent \/ Fifo!Next]_<<accepted, executed>>

(* A swap that threw has left the count above the swaps that exist. *)
SwapLeaked == pendingSwaps > Cardinality(OutstandingSwaps)

(* A guest inside a gate always gets back to the game: nothing that could  *)
(* wake it is missed, and a host that shuts down takes it along.  The only *)
(* exception is a swap that threw and was never retired.                   *)
GateReturns ==
    guestPc \in {"post", "invoke", "await", "swapWait"} ~>
        guestPc \in {"game", "stopped"} \/ phase = "exited" \/ SwapLeaked

(* Teardown always gets past Close, also when the guest thread was         *)
(* terminated while it owned the mutex.                                    *)
TeardownFinishes == phase = "recovering" ~> phase \in {"closed", "exited"}

=============================================================================
