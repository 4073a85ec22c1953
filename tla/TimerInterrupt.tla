--------------------------- MODULE TimerInterrupt ---------------------------
(***************************************************************************)
(* How an owed timer tick reaches the guest as INT 8.  The host's poll     *)
(* loop records due ticks and arms the AOT safe points                     *)
(* (timer_tick_delivery.cpp, live_telemetry_snapshot.cpp); the guest       *)
(* thread tries to inject one whenever it is at an instruction boundary    *)
(* (InjectPendingInterrupts), under the rules of the emulated interrupt    *)
(* controller (pic_timer_in_service.cpp).                                  *)
(*                                                                         *)
(* The guest is any program that keeps stack discipline.  The stack is     *)
(* measured by its depth: a larger sp is a lower ESP.  Time is two events, *)
(* the end of the interrupted code's turn and the expiry of a cli hold.    *)
(***************************************************************************)
EXTENDS Integers, Sequences, SequencesExt

CONSTANTS
    BacklogCapacity,  \* kTimerTickBacklogCapacity
    DueCapacity,      \* kDueCapacity of the JAMMA timeline
    HandlerFrames,    \* kHandlerFrameCapacity
    ChainLimit,       \* kPostReturnChainLimit
    ReturnModes,      \* what seesReturn may be
    CounterModulus,   \* 2^32: the delivery counters wrap
    MaxDue,           \* bound: ticks due in one poll
    MaxNesting,       \* bound: injected frames that stand at once
    MaxStreak         \* bound: how far handlers in a row are counted

(* The timeline's queue has room for the backlog: two constants of two     *)
(* headers, 64 both.  Two tracked frames have to remain when the newest of *)
(* an overflowing nest returns, or the nesting rule miscounts.             *)
ASSUME TimerAssumption ==
    /\ BacklogCapacity \in Nat \ {0}
    /\ DueCapacity \in Nat /\ DueCapacity >= BacklogCapacity
    /\ HandlerFrames \in Nat /\ HandlerFrames >= 3
    /\ ChainLimit \in Nat
    /\ ReturnModes \subseteq BOOLEAN
    /\ CounterModulus \in Nat \ {0}
    /\ MaxDue \in Nat \ {0} /\ MaxNesting \in Nat \ {0} /\ MaxStreak \in Nat

VARIABLES
    due, injected, dropped,  \* due_total, injected_total, dropped_total
    backlog,       \* backlog
    dueSize,       \* due_size_ of the JAMMA timeline
    pendingTick,   \* timer_interrupt_pending
    armed,         \* the AOT safe point request word
    hostArming,    \* the host is between its critical section and the request
    guestStep,     \* the guest is between an injection and the request
    seesReturn,    \* a handler's iret is emulated or goes to the return pad
    hooked,        \* dpmi_interrupt_vectors[8].valid
    active,        \* active: IRQ0 is in service
    frameEsp,      \* frame_esp
    lastAtSti,     \* last_delivery_at_sti
    lastReturned,  \* last_delivery_returned
    stiRequest,    \* sti_request
    handlers,      \* handler_frames, as far as handler_depth
    returnSeen,    \* handler_return_seen
    chain,         \* post_return_chain
    turnOver,      \* the interrupted code has run as long as the last handler
    cliHold,       \* cli_hold
    holdExpired,   \* the hold is older than its limit
    site,          \* where the next attempt is made
    sp,            \* the guest's stack depth
    frames,        \* the injected frames that stand, and whether each wrote its EOI
    ran,           \* history: the interrupted code ran since the last injection
    streak         \* history: outermost handlers since the interrupted code ran

countVars == <<due, injected, dropped, backlog, dueSize, pendingTick>>
armVars   == <<armed, hostArming, guestStep>>
picVars   == <<active, frameEsp, lastAtSti, lastReturned, handlers, returnSeen, chain>>
holdVars  == <<turnOver, cliHold, holdExpired>>
stackVars == <<sp, frames>>
histVars  == <<ran, streak>>
moving == <<countVars, armVars, hooked, picVars, stiRequest, holdVars, site,
            stackVars, histVars>>
vars == <<seesReturn, moving>>

(* Deeper than any frame: frame_esp is zero before the first injection. *)
NoFrame == 2 * MaxNesting + 2

Least(a, b) == IF a <= b THEN a ELSE b
Plus(counter, n) == (counter + n) % CounterModulus

Init ==
    /\ due = 0 /\ injected = 0 /\ dropped = 0 /\ backlog = 0 /\ dueSize = 0
    /\ pendingTick = FALSE
    /\ armed = FALSE /\ hostArming = FALSE /\ guestStep = "run"
    /\ seesReturn \in ReturnModes /\ hooked = FALSE
    /\ active = FALSE /\ frameEsp = NoFrame /\ lastAtSti = FALSE /\ lastReturned = TRUE
    /\ handlers = <<>> /\ returnSeen = FALSE /\ chain = 0
    /\ stiRequest = FALSE
    /\ turnOver = TRUE /\ cliHold = FALSE /\ holdExpired = FALSE
    /\ site = "ordinary"
    /\ sp = 0 /\ frames = <<>>
    /\ ran = TRUE /\ streak = 0

-----------------------------------------------------------------------------
(* The host's poll loop. *)

(* Mutant: the word is set only for a tick that finds none pending. *)
TicksDueArmsOnce(n) ==
    LET accepted == Least(n, BacklogCapacity - backlog) IN
    /\ ~hostArming
    /\ due' = Plus(due, n)
    /\ dropped' = Plus(dropped, n - accepted)
    /\ backlog' = backlog + accepted
    /\ dueSize' = Least(dueSize + accepted, DueCapacity)
    /\ pendingTick' = TRUE
    /\ hostArming' = ~pendingTick
    /\ UNCHANGED <<injected, armed, guestStep, hooked, picVars, stiRequest,
                   holdVars, site, stackVars, histVars>>

(* arm_due_timer_ticks: what RecordTimerTicksDue accepts is queued for the *)
(* input timeline too, as far as EnqueueTimerTick has room.                *)
TicksDue(n) ==
    LET accepted == Least(n, BacklogCapacity - backlog) IN
    /\ ~hostArming
    /\ due' = Plus(due, n)
    /\ dropped' = Plus(dropped, n - accepted)
    /\ backlog' = backlog + accepted
    /\ dueSize' = Least(dueSize + accepted, DueCapacity)
    /\ pendingTick' = TRUE
    /\ hostArming' = TRUE
    /\ UNCHANGED <<injected, armed, guestStep, hooked, picVars, stiRequest,
                   holdVars, site, stackVars, histVars>>

(* ArmAotTimerSafePoint, after the lock is released. *)
HostArms ==
    /\ hostArming
    /\ hostArming' = FALSE /\ armed' = TRUE
    /\ UNCHANGED <<countVars, guestStep, hooked, picVars, stiRequest, holdVars,
                   site, stackVars, histVars>>

-----------------------------------------------------------------------------
(* The guest's program. *)

InHandler == frames # <<>>
Floor == IF InHandler THEN Last(frames).esp ELSE 0

(* What every step of the guest's own code does beside its effect. *)
GuestRuns == guestStep = "run" /\ site' = "ordinary" /\ ran' = (ran \/ ~InHandler)

(* DPMI 0205h or INT 21h AH=25h: the vector is set, never taken back. *)
HookVector ==
    /\ GuestRuns /\ ~hooked
    /\ hooked' = TRUE
    /\ UNCHANGED <<countVars, armVars, picVars, stiRequest, holdVars, stackVars, streak>>

(* The code returned to goes on without an attempt having delivered. *)
GuestGoesOn ==
    /\ GuestRuns /\ site = "afterReturn"
    /\ UNCHANGED <<countVars, armVars, hooked, picVars, stiRequest, holdVars,
                   stackVars, streak>>

GuestMovesStack(depth) ==
    /\ GuestRuns /\ sp # depth
    /\ sp' = depth
    /\ UNCHANGED <<countVars, armVars, hooked, picVars, stiRequest, holdVars,
                   frames, streak>>

(* An emulated cli: NoteGuestCli. *)
GuestCli ==
    /\ GuestRuns
    /\ cliHold' = TRUE /\ holdExpired' = (cliHold /\ holdExpired)
    /\ UNCHANGED <<countVars, armVars, hooked, picVars, stiRequest, turnOver,
                   stackVars, streak>>

(* An emulated sti: NoteGuestSti, and the next attempt is asked for. *)
GuestSti ==
    /\ GuestRuns
    /\ cliHold' = FALSE /\ stiRequest' = TRUE
    /\ UNCHANGED <<countVars, armVars, hooked, picVars, turnOver, holdExpired,
                   stackVars, streak>>

(* An end of interrupt written to port 0x20 by a handler: NotePicCommand. *)
GuestEoi ==
    /\ GuestRuns /\ InHandler
    /\ active' = FALSE
    /\ frames' = [frames EXCEPT ![Len(frames)].acked = TRUE]
    /\ UNCHANGED <<countVars, armVars, hooked, frameEsp, lastAtSti, lastReturned,
                   handlers, returnSeen, chain, stiRequest, holdVars, sp, streak>>

(* One written outside any handler clears the in-service bit as well. *)
StrayEoi ==
    /\ GuestRuns /\ ~InHandler
    /\ active' = FALSE
    /\ UNCHANGED <<countVars, armVars, hooked, frameEsp, lastAtSti, lastReturned,
                   handlers, returnSeen, chain, stiRequest, holdVars, stackVars, streak>>

(* Mutant: a return that is seen leaves its frame on the list. *)
NoteGuestIretKeeps(esp) ==
    LET returns == handlers # <<>> /\ Last(handlers) = esp IN
    /\ handlers' = handlers
    /\ returnSeen' = (returnSeen \/ returns)
    /\ turnOver' = (turnOver /\ ~(returns /\ Len(handlers) = 1))
    /\ cliHold' = (cliHold /\ ~returns)
    /\ lastReturned' = (lastReturned \/ esp = frameEsp)

(* Only the return of the newest tracked frame counts as a handler's. *)
NoteGuestIret(esp) ==
    LET returns == handlers # <<>> /\ Last(handlers) = esp IN
    /\ handlers' = IF returns THEN Front(handlers) ELSE handlers
    /\ returnSeen' = (returnSeen \/ returns)
    /\ turnOver' = (turnOver /\ ~(returns /\ Len(handlers) = 1))
    /\ cliHold' = (cliHold /\ ~returns)
    /\ lastReturned' = (lastReturned \/ esp = frameEsp)

(* The iret of an injected frame.  Where it runs natively nobody sees it.  *)
HandlerReturns ==
    /\ guestStep = "run" /\ InHandler
    /\ sp' = Floor - 1 /\ frames' = Front(frames)
    /\ IF seesReturn
         THEN NoteGuestIret(Floor) /\ site' = "afterReturn"
         ELSE UNCHANGED <<handlers, returnSeen, turnOver, cliHold, lastReturned>>
              /\ site' = "ordinary"
    /\ UNCHANGED <<countVars, armVars, hooked, active, frameEsp, lastAtSti, chain,
                   stiRequest, holdExpired, histVars>>

(* The iret of any other frame, a chained handler's for one. *)
OtherIret ==
    /\ seesReturn /\ guestStep = "run" /\ sp > Floor
    /\ sp' = sp - 1
    /\ NoteGuestIret(sp) /\ site' = "afterReturn"
    /\ ran' = (ran \/ ~InHandler)
    /\ UNCHANGED <<countVars, armVars, hooked, active, frameEsp, lastAtSti, chain,
                   stiRequest, holdExpired, frames, streak>>

(* Time passes. *)
TurnEnds ==
    /\ ~turnOver /\ turnOver' = TRUE
    /\ UNCHANGED <<countVars, armVars, hooked, picVars, stiRequest, cliHold,
                   holdExpired, site, stackVars, histVars>>

HoldExpires ==
    /\ cliHold /\ ~holdExpired /\ holdExpired' = TRUE
    /\ UNCHANGED <<countVars, armVars, hooked, picVars, stiRequest, turnOver,
                   cliHold, site, stackVars, histVars>>

-----------------------------------------------------------------------------
(* InjectPendingInterrupts.  An attempt is made at a safe point whose      *)
(* request word is set (trap), which clears the word first, or at a        *)
(* boundary the guest reaches anyway.  Every attempt consumes stiRequest.  *)

Attempt(trap) ==
    /\ guestStep = "run"
    /\ trap => armed
    /\ stiRequest' = FALSE /\ site' = "ordinary"

Disarms(trap) == armed' = (armed /\ ~trap) /\ UNCHANGED <<hostArming, guestStep>>

NothingOwed(trap) ==
    /\ Attempt(trap) /\ ~pendingTick
    /\ Disarms(trap)
    /\ UNCHANGED <<countVars, hooked, picVars, holdVars, stackVars, histVars>>

(* Mutant: the ticks given up are not accounted for. *)
NoVectorForgets(trap) ==
    /\ Attempt(trap) /\ pendingTick /\ ~hooked
    /\ pendingTick' = FALSE /\ armed' = FALSE
    /\ backlog' = 0 /\ dueSize' = 0
    /\ UNCHANGED <<due, injected, dropped, hostArming, guestStep, hooked, picVars,
                   holdVars, stackVars, histVars>>

(* No vector to reach: delivery is given up, the ticks count as dropped. *)
NoVector(trap) ==
    /\ Attempt(trap) /\ pendingTick /\ ~hooked
    /\ pendingTick' = FALSE /\ armed' = FALSE
    /\ dropped' = Plus(dropped, backlog)
    /\ backlog' = 0 /\ dueSize' = 0
    /\ UNCHANGED <<due, injected, hostArming, guestStep, hooked, picVars, holdVars,
                   stackVars, histVars>>

(* GuestCliBlocksInjection; a hold it finds expired is over. *)
CliBlocks == cliHold /\ ~holdExpired

(* The engine is not at a guest address, IF is clear, or the guest's cli   *)
(* holds: deferred.                                                        *)
DeferredEarly(trap) ==
    /\ Attempt(trap) /\ pendingTick /\ hooked
    /\ Disarms(trap)
    /\ UNCHANGED <<countVars, hooked, picVars, holdVars, stackVars, histVars>>

(* The tracked frames the stack does not stand above. *)
StandingHandlers ==
    LET cut == CHOOSE n \in 0..Len(handlers) :
                  /\ \A i \in (n + 1)..Len(handlers) : sp < handlers[i]
                  /\ n = 0 \/ handlers[n] <= sp
    IN  SubSeq(handlers, 1, cut)

(* Mutant: a safe point inside a handler takes a tick once the handler is  *)
(* acknowledged.                                                           *)
NestingBlocksDeep == returnSeen /\ Len(StandingHandlers) >= 2

(* The three tests of PicTimerBlocksInjection, in their order. *)
NestingBlocks ==
    /\ returnSeen
    /\ Len(StandingHandlers) >= 2 \/ (Len(StandingHandlers) = 1 /\ ~stiRequest)

(* Mutant: the in-service bit is not looked at. *)
InServiceNever == FALSE

InService      == active /\ ~(sp < frameEsp)
ReturnKnown    == lastReturned \/ sp < frameEsp
StiChainBlocks == stiRequest /\ lastAtSti /\ ~ReturnKnown
PicBlocks      == NestingBlocks \/ InService \/ StiChainBlocks

(* What PicTimerBlocksInjection records, blocked or not. *)
PicLooks ==
    /\ handlers' = StandingHandlers
    /\ lastReturned' = ReturnKnown
    /\ active' = IF NestingBlocks THEN active ELSE InService
    /\ UNCHANGED <<frameEsp, lastAtSti, returnSeen>>

DeferredByPic(trap) ==
    /\ Attempt(trap) /\ pendingTick /\ hooked
    /\ ~CliBlocks /\ cliHold' = FALSE
    /\ PicBlocks /\ PicLooks
    /\ Disarms(trap)
    /\ UNCHANGED <<countVars, hooked, chain, turnOver, holdExpired, stackVars, histVars>>

(* PostReturnChainBlocksInjection; fast says the tick period is below the  *)
(* minimum for a delivery right after a return.                            *)
ChainBlocks(fast) ==
    IF site = "ordinary"
      THEN returnSeen /\ StandingHandlers = <<>> /\ ~turnOver
      ELSE fast \/ chain >= ChainLimit

ChainCounts == chain' = IF site = "ordinary" THEN 0 ELSE chain + 1

DeferredByChain(trap, fast) ==
    /\ Attempt(trap) /\ pendingTick /\ hooked
    /\ ~CliBlocks /\ cliHold' = FALSE
    /\ ~PicBlocks /\ PicLooks
    /\ ChainBlocks(fast)
    /\ Disarms(trap)
    /\ UNCHANGED <<countVars, hooked, chain, turnOver, holdExpired, stackVars, histVars>>

(* No guest address or code selector is found for where the guest is: the  *)
(* tick is deferred although the chain has counted it.                     *)
DeferredLate(trap, fast) ==
    /\ Attempt(trap) /\ pendingTick /\ hooked
    /\ ~CliBlocks /\ cliHold' = FALSE
    /\ ~PicBlocks /\ PicLooks
    /\ ~ChainBlocks(fast) /\ ChainCounts
    /\ Disarms(trap)
    /\ UNCHANGED <<countVars, hooked, turnOver, holdExpired, stackVars, histVars>>

(* NotePicTimerInjected: the newest frame takes the last slot of a full    *)
(* list.                                                                   *)
TrackFrame(esp) ==
    IF Len(StandingHandlers) < HandlerFrames
      THEN Append(StandingHandlers, esp)
      ELSE [StandingHandlers EXCEPT ![HandlerFrames] = esp]

(* Mutant: delivery is disarmed after every injection. *)
KeepArmedNever == FALSE

(* RecordTimerTickInjected: whether a tick is still owed. *)
KeepArmed == backlog > 1

Inject(trap, fast) ==
    /\ Attempt(trap) /\ pendingTick /\ hooked
    /\ Len(frames) < MaxNesting
    /\ ~CliBlocks /\ cliHold' = FALSE
    /\ ~PicBlocks
    /\ ~ChainBlocks(fast) /\ ChainCounts
    /\ injected' = Plus(injected, 1)
    /\ backlog' = (IF backlog # 0 THEN backlog - 1 ELSE 0)
    /\ dueSize' = (IF dueSize # 0 THEN dueSize - 1 ELSE 0)
    /\ pendingTick' = KeepArmed
    /\ guestStep' = (IF KeepArmed THEN "arm" ELSE "clear")
    /\ armed' = (armed /\ ~trap)
    /\ active' = TRUE /\ frameEsp' = sp + 1
    /\ lastAtSti' = stiRequest /\ lastReturned' = FALSE
    /\ handlers' = TrackFrame(sp + 1)
    /\ sp' = sp + 1 /\ frames' = Append(frames, [esp |-> sp + 1, acked |-> FALSE])
    /\ ran' = FALSE
    /\ streak' = (IF InHandler THEN streak
                  ELSE Least(MaxStreak, IF ran \/ site = "ordinary" THEN 1 ELSE streak + 1))
    /\ UNCHANGED <<due, dropped, hostArming, hooked, returnSeen, turnOver, holdExpired>>

(* The request word is set again or cleared after the lock is released. *)
GuestArms ==
    /\ guestStep # "run"
    /\ armed' = (guestStep = "arm") /\ guestStep' = "run"
    /\ UNCHANGED <<countVars, hostArming, hooked, picVars, stiRequest, holdVars,
                   site, stackVars, histVars>>

-----------------------------------------------------------------------------
Host == HostArms \/ \E n \in 1..MaxDue : TicksDue(n)

Guest ==
    \/ HookVector \/ GuestGoesOn \/ GuestCli \/ GuestSti \/ GuestEoi \/ StrayEoi
    \/ \E depth \in Floor..(Floor + 1) : GuestMovesStack(depth)
    \/ HandlerReturns \/ OtherIret

Attempts ==
    \E trap \in BOOLEAN :
        \/ NothingOwed(trap) \/ NoVector(trap)
        \/ DeferredEarly(trap) \/ DeferredByPic(trap)
        \/ \E fast \in BOOLEAN :
              DeferredByChain(trap, fast) \/ DeferredLate(trap, fast) \/ Inject(trap, fast)

Next == (Host \/ Guest \/ Attempts \/ GuestArms \/ TurnEnds \/ HoldExpires)
        /\ UNCHANGED seesReturn

Spec == Init /\ [][Next]_vars

(* A moment when the rules would let a tick in. *)
Open ==
    /\ pendingTick /\ hooked /\ guestStep = "run"
    /\ ~CliBlocks /\ ~PicBlocks /\ ~ChainBlocks(FALSE)

(* The timer keeps ticking and time passes; the guest runs, its handlers   *)
(* write their EOI and return.  The host's clock is not in step with the   *)
(* guest: if there are open moments again and again, some tick and some    *)
(* request for one fall in them.  And the guest's loops are full of safe   *)
(* points: if the request word is set in open moments again and again, a   *)
(* safe point comes in one of them.  No boundary that does without the     *)
(* word is promised, and no sti.                                           *)
FairSpec ==
    /\ Spec
    /\ WF_moving(TicksDue(1)) /\ WF_moving(HostArms)
    /\ WF_moving(TurnEnds) /\ WF_moving(HoldExpires) /\ WF_moving(GuestArms)
    /\ WF_moving(GuestGoesOn) /\ WF_moving(GuestEoi) /\ WF_moving(HandlerReturns)
    /\ SF_moving(Open /\ TicksDue(1)) /\ SF_moving(Open /\ HostArms)
    /\ SF_moving(Inject(TRUE, FALSE))

-----------------------------------------------------------------------------
(* Properties. *)

(* The state stays well formed: neither the backlog nor the tracked frames *)
(* nor the chain outgrow their limits (RecordTimerTicksDue,                *)
(* NotePicTimerInjected, PostReturnChainBlocksInjection).                  *)
TypeOK ==
    /\ due \in 0..(CounterModulus - 1) /\ injected \in 0..(CounterModulus - 1)
    /\ dropped \in 0..(CounterModulus - 1)
    /\ backlog \in 0..BacklogCapacity /\ dueSize \in 0..DueCapacity
    /\ pendingTick \in BOOLEAN /\ armed \in BOOLEAN /\ hostArming \in BOOLEAN
    /\ guestStep \in {"run", "arm", "clear"} /\ site \in {"ordinary", "afterReturn"}
    /\ seesReturn \in BOOLEAN /\ hooked \in BOOLEAN
    /\ active \in BOOLEAN /\ lastAtSti \in BOOLEAN /\ lastReturned \in BOOLEAN
    /\ returnSeen \in BOOLEAN /\ stiRequest \in BOOLEAN
    /\ turnOver \in BOOLEAN /\ cliHold \in BOOLEAN /\ holdExpired \in BOOLEAN
    /\ sp \in 0..NoFrame /\ frameEsp \in 0..NoFrame
    /\ handlers \in Seq(0..NoFrame) /\ Len(handlers) <= HandlerFrames
    /\ frames \in Seq([esp : 0..NoFrame, acked : BOOLEAN]) /\ Len(frames) <= MaxNesting
    /\ chain \in 0..ChainLimit
    /\ ran \in BOOLEAN /\ streak \in 0..MaxStreak

(* No tick vanishes: those due are the ones injected, dropped and still    *)
(* owed, also when the counters have wrapped, and the input timeline has   *)
(* one timestamp for each tick owed (RecordTimerTicksDue,                  *)
(* RecordTimerTickInjected, RecordTimerTickBacklogCleared).                *)
TicksAccounted ==
    /\ (due - injected - dropped - backlog) % CounterModulus = 0
    /\ dueSize = backlog

(* Outside the critical sections the pending flag says exactly whether a   *)
(* tick is owed, so none is injected that was not due and none is left     *)
(* behind (InjectPendingInterrupts).                                       *)
PendingIffOwed == pendingTick <=> backlog # 0

(* Once returns are known to be seen, a tick goes only into interrupted    *)
(* code or, one level deep, in at a handler's closing sti                  *)
(* (PicTimerBlocksInjection), also after handlers nested deeper than the   *)
(* tracked frames.                                                         *)
NestingBounded ==
    [][Len(frames') > Len(frames) /\ returnSeen =>
          ~InHandler \/ (Len(frames) = 1 /\ stiRequest)]_vars

(* Where returns are seen, the frames the controller tracks are frames     *)
(* that stand, so a handler that is gone never holds a tick back           *)
(* (NoteGuestIret, NotePicTimerInjected).                                  *)
TrackedHandlersStand ==
    seesReturn =>
        \A i \in DOMAIN handlers : \E j \in DOMAIN frames : frames[j].esp = handlers[i]

(* A handler that has not written its EOI is not interrupted by the next   *)
(* tick, whatever the stack does and whichever handler wrote the last EOI  *)
(* (NotePicTimerInjected, NotePicCommand).                                 *)
UnacknowledgedOnTop == \A i \in DOMAIN frames : i < Len(frames) => frames[i].acked

(* The guest's clock never stops: while the timer ticks, tick after tick   *)
(* is injected at safe points, whatever cli sections, sti chains and turns *)
(* there are, and although a deferred attempt leaves the request word      *)
(* clear and an injection may wipe out the host's request: a later tick    *)
(* asks again.  The one exception is a handler that returned without an    *)
(* EOI into code that stays deep in the stack (InjectPendingInterrupts,    *)
(* HandleAotTimerSafePoint, ArmAotTimerSafePoint).                         *)
ClockNeverStops ==
    <>hooked => []<>(guestStep # "run") \/ <>[](active /\ ~InHandler)

(* The chain of handlers, each entered at the return of the one before,    *)
(* "leaves the interrupted code a turn after every fourth handler"         *)
(* (kPostReturnChainLimit in pic_timer_in_service.h).                      *)
TurnAfterChain == streak <= ChainLimit + 1

=============================================================================
