---------------------- MODULE GlideHostChannel_proofs ----------------------
(***************************************************************************)
(* The channel keeps its promises for every capacity, swap bound, number   *)
(* of recovery attempts and length of the run.  Two facts carry most of    *)
(* it: a command that is published keeps the guest where it is until the   *)
(* host has run it, and a window that is opened again can overtake posted  *)
(* swaps only after the host has emptied the queue once.                   *)
(***************************************************************************)
EXTENDS GlideHostChannel, FiniteSetTheorems, SequenceTheorems, WellFoundedInduction, TLAPS

(* What each place of the channel holds. *)
CommandsInv ==
    /\ guestPc \in {"post", "invoke", "await"} => guestCommand \in Command
    /\ guestPc = "post" =>
          /\ IsPosted(guestCommand)
          /\ ~asyncPresent => IsSwap(guestCommand)
    /\ guestPc = "invoke" => ~IsPosted(guestCommand)
    /\ \A i \in DOMAIN queue :
          /\ IsPosted(queue[i])
          /\ ~asyncPresent => IsSwap(queue[i])
    /\ pending => slot \in Command /\ ~IsPosted(slot)
    /\ hostPc \in {"async", "sync"} => hostCommand \in Command
    /\ hostPc = "async" =>
          /\ IsPosted(hostCommand)
          /\ ~asyncPresent => IsSwap(hostCommand)
    /\ hostPc = "sync" => ~IsPosted(hostCommand)

(* Posted commands are numbered in their order, so no two are equal. *)
IdsInv ==
    /\ \A i, j \in DOMAIN queue : i < j => queue[i].id < queue[j].id
    /\ \A i \in DOMAIN queue : queue[i].id <= guestCommand.id
    /\ guestPc = "post" => \A i \in DOMAIN queue : queue[i].id < guestCommand.id
    /\ hostPc = "async" =>
          /\ \A i \in DOMAIN queue : hostCommand.id < queue[i].id
          /\ hostCommand.id <= guestCommand.id
          /\ guestPc = "post" => hostCommand.id < guestCommand.id

(* A published command keeps the guest waiting until it has completed or   *)
(* the guest is gone, and once the guest is gone the host pumps no more.   *)
RendezvousInv ==
    /\ phase \in {"stopping", "closed"} => guestPc = "stopped"
    /\ phase \in {"stopping", "closed", "exited"} => hostPc = "idle"
    /\ pending => (guestPc = "await" \/ phase \in {"stopping", "closed"}) /\ ~complete
    /\ hostPc \in {"sync", "ran"} => pending /\ guestPc = "await"
    /\ guestPc = "await" => pending \/ complete

(* The count covers the swaps until a reopened window forgets some; it     *)
(* runs behind them by what one such window forgot, and the host has       *)
(* caught up whenever it looks at the slot.                                *)
SwapsInv ==
    /\ IsFiniteSet(OutstandingSwaps)
    /\ Cardinality(OutstandingSwaps) <= 2 * MaxOutstandingSwaps
    /\ phase # "closed" =>
          Cardinality(OutstandingSwaps) <= pendingSwaps + MaxOutstandingSwaps
    /\ hostPc \in {"slot", "sync"} => Cardinality(OutstandingSwaps) <= pendingSwaps
    /\ ~overtaken =>
          /\ Cardinality(OutstandingSwaps) <= MaxOutstandingSwaps
          /\ stopped \/ Cardinality(OutstandingSwaps) <= pendingSwaps

(* In the default mode a swap is alone in the channel, with the guest      *)
(* waiting for it.                                                         *)
DefaultInv ==
    ~asyncPresent =>
        /\ queue # <<>> \/ hostPc = "async" =>
              /\ guestPc \in {"swapWait", "stopped"} /\ ~pending
              /\ pendingSwaps # 0 \/ stopped
        /\ Len(queue) <= 1
        /\ hostPc = "async" => queue = <<>>
        /\ guestPc = "swapWait" => ~stopped
        /\ ~overtaken

(* What was accepted and has not run. *)
InFlight ==
    IF hostPc \in {"async", "sync"} THEN <<hostCommand>>
    ELSE IF queue # <<>> THEN queue
    ELSE IF pending /\ hostPc # "ran" THEN <<slot>> ELSE <<>>

OrderInv == ~asyncPresent => accepted = executed \o InFlight

(* The inductive invariant. *)
ChannelInv ==
    /\ TypeOK /\ CommandsInv /\ IdsInv /\ RendezvousInv /\ NoWakeUpLost
    /\ SwapsInv /\ DefaultInv /\ OrderInv /\ PostedInOrder

-----------------------------------------------------------------------------
(* The posted commands of a sequence. *)

(* A set of naturals that is not empty has a least element. *)
LEMMA LeastNatural ==
    ASSUME NEW T \in SUBSET Nat, T # {}
    PROVE  \E n \in T : \A m \in T : n <= m
<1>1. PICK x \in T : \A y \in T : ~ (<<y, x>> \in OpToRel(<, Nat))
  BY NatLessThanWellFounded, WFMin
<1>2. \A y \in T : ~(y < x)
  BY <1>1 DEF OpToRel
<1> QED
  BY <1>2

(* One turn of the recursion behind Posted. *)
Turn(s, f, i) ==
    IF i = 0 THEN <<>> ELSE IF IsPosted(s[i]) THEN Append(f[i - 1], s[i]) ELSE f[i - 1]

IsPostedUpTo(s, n, f) == f = [i \in 0..n |-> Turn(s, f, i)]

(* The recursion has a solution, and only one as far as it goes. *)
LEMMA SolutionExtends ==
    ASSUME NEW s, NEW n \in Nat, NEW f, IsPostedUpTo(s, n, f)
    PROVE  \E g : IsPostedUpTo(s, n + 1, g)
<1> DEFINE g == [i \in 0..(n + 1) |-> IF i <= n THEN f[i] ELSE Turn(s, f, n + 1)]
<1>1. ASSUME NEW i \in 0..(n + 1)
      PROVE  g[i] = Turn(s, g, i)
  <2>1. i # 0 => i - 1 \in 0..n /\ i - 1 \in 0..(n + 1) /\ i - 1 <= n
    OBVIOUS
  <2>2. i # 0 => g[i - 1] = f[i - 1]
    BY <2>1
  <2>3. Turn(s, g, i) = Turn(s, f, i)
    BY <2>2 DEF Turn
  <2>4. CASE i <= n
    <3>1. i \in 0..n
      BY <2>4
    <3>2. f[i] = Turn(s, f, i)
      BY <3>1, Zenon DEF IsPostedUpTo
    <3> QED
      BY <2>3, <2>4, <3>2
  <2>5. CASE i = n + 1
    BY <2>3, <2>5
  <2> QED
    BY <2>4, <2>5
<1>2. g = [i \in 0..(n + 1) |-> g[i]]
  OBVIOUS
<1> HIDE DEF g
<1>3. g = [i \in 0..(n + 1) |-> Turn(s, g, i)]
  BY <1>1, <1>2, Zenon
<1> QED
  BY <1>3, Zenon DEF IsPostedUpTo

LEMMA SolutionExists ==
    ASSUME NEW s, NEW n \in Nat
    PROVE  \E f : IsPostedUpTo(s, n, f)
<1> DEFINE T == {k \in Nat : ~\E f : IsPostedUpTo(s, k, f)}
<1> SUFFICES ASSUME T # {}
             PROVE  FALSE
  BY Zenon
<1>1. PICK k \in T : \A j \in T : k <= j
  <2>1. T \in SUBSET Nat
    OBVIOUS
  <2> HIDE DEF T
  <2> QED
    BY <2>1, LeastNatural
<1>2. CASE k = 0
  <2> DEFINE g == [i \in 0..0 |-> <<>>]
  <2>1. \A i \in 0..0 : Turn(s, g, i) = <<>>
    BY DEF Turn
  <2>2. g = [i \in 0..0 |-> Turn(s, g, i)]
    BY <2>1
  <2> HIDE DEF g
  <2>3. IsPostedUpTo(s, 0, g)
    BY <2>2, Zenon DEF IsPostedUpTo
  <2> QED
    BY <1>1, <1>2, <2>3
<1>3. CASE k # 0
  <2>1. k - 1 \in Nat /\ ~(k <= k - 1) /\ (k - 1) + 1 = k
    BY <1>1, <1>3
  <2>2. PICK f : IsPostedUpTo(s, k - 1, f)
    BY <1>1, <2>1, Zenon
  <2>3. \E g : IsPostedUpTo(s, k, g)
    BY <2>1, <2>2, SolutionExtends
  <2> QED
    BY <1>1, <2>3
<1> QED
  BY <1>2, <1>3

LEMMA SolutionUnique ==
    ASSUME NEW s, NEW t, NEW m \in Nat, NEW n \in Nat, m <= n, NEW f, NEW g,
           IsPostedUpTo(s, m, f), IsPostedUpTo(t, n, g),
           \A i \in 1..m : s[i] = t[i]
    PROVE  \A i \in 0..m : f[i] = g[i]
<1> DEFINE T == {k \in 0..m : f[k] # g[k]}
<1> SUFFICES ASSUME T # {}
             PROVE  FALSE
  BY Zenon
<1>1. PICK k \in T : \A j \in T : k <= j
  <2>1. T \in SUBSET Nat
    OBVIOUS
  <2> HIDE DEF T
  <2> QED
    BY <2>1, LeastNatural
<1>2. k \in 0..m /\ k \in 0..n
  BY <1>1
<1>3. f[k] = Turn(s, f, k) /\ g[k] = Turn(t, g, k)
  BY <1>2, Zenon DEF IsPostedUpTo
<1>4. CASE k = 0
  BY <1>1, <1>3, <1>4 DEF Turn
<1>5. CASE k # 0
  <2>1. k - 1 \in 0..m /\ ~(k <= k - 1) /\ k \in 1..m
    BY <1>2, <1>5
  <2>2. f[k - 1] = g[k - 1] /\ s[k] = t[k]
    BY <1>1, <2>1
  <2> QED
    BY <1>1, <1>3, <1>5, <2>2 DEF Turn
<1> QED
  BY <1>4, <1>5

LEMMA PostedIsSolution ==
    ASSUME NEW s, Len(s) \in Nat
    PROVE  \E f : IsPostedUpTo(s, Len(s), f) /\ Posted(s) = f[Len(s)]
<1> DEFINE F == CHOOSE f : IsPostedUpTo(s, Len(s), f)
<1>1. IsPostedUpTo(s, Len(s), F)
  BY SolutionExists, Zenon
<1>2. Posted(s) = F[Len(s)]
  BY Zenon DEF Posted, IsPostedUpTo, Turn
<1> QED
  BY <1>1, <1>2, Zenon

LEMMA PostedEmpty == Posted(<<>>) = <<>>
<1>1. Len(<<>>) = 0
  OBVIOUS
<1>2. PICK f : IsPostedUpTo(<<>>, 0, f) /\ Posted(<<>>) = f[0]
  BY <1>1, PostedIsSolution
<1>3. 0 \in 0..0
  OBVIOUS
<1>4. f[0] = Turn(<<>>, f, 0)
  BY <1>2, <1>3, Zenon DEF IsPostedUpTo
<1> QED
  BY <1>2, <1>4 DEF Turn

(* What Posted makes of one more command. *)
LEMMA PostedAppend ==
    ASSUME NEW s \in Seq(Command), NEW c \in Command
    PROVE  Posted(Append(s, c)) = IF IsPosted(c) THEN Append(Posted(s), c) ELSE Posted(s)
<1> DEFINE t == Append(s, c)
           n == Len(s)
<1>1. /\ n \in Nat /\ Len(t) = n + 1 /\ t[n + 1] = c
      /\ \A i \in 1..n : s[i] = t[i]
  BY AppendProperties, LenProperties
<1> HIDE DEF t
<1>2. PICK f : IsPostedUpTo(s, n, f) /\ Posted(s) = f[n]
  BY <1>1, PostedIsSolution, Zenon
<1>3. Len(t) \in Nat
  BY <1>1
<1>4. PICK g : IsPostedUpTo(t, Len(t), g) /\ Posted(t) = g[Len(t)]
  BY <1>3, PostedIsSolution, Zenon
<1> HIDE DEF n
<1>5. n + 1 \in 0..Len(t) /\ n <= Len(t) /\ n \in 0..n /\ n + 1 # 0 /\ (n + 1) - 1 = n
  BY <1>1
<1>6. g[n + 1] = Turn(t, g, n + 1)
  BY <1>4, <1>5, Zenon DEF IsPostedUpTo
<1>7. f[n] = g[n]
  BY <1>1, <1>2, <1>3, <1>4, <1>5, SolutionUnique
<1>8. g[n + 1] = IF IsPosted(c) THEN Append(g[n], c) ELSE g[n]
  BY <1>1, <1>5, <1>6, Zenon DEF Turn
<1>9. Posted(t) = IF IsPosted(c) THEN Append(Posted(s), c) ELSE Posted(s)
  BY <1>1, <1>2, <1>4, <1>7, <1>8
<1> QED
  BY <1>9 DEF t

-----------------------------------------------------------------------------
(* Every step is one of the actions. *)

GuestStep ==
    \/ \E kind \in PostKinds \cup SyncKinds : EnterGate(kind)
    \/ GuestExit
    \/ PostBlocks \/ PostRefused \/ PostToHostThread \/ WaitForPendingSwaps
    \/ InvokePublish \/ InvokeBlocks \/ InvokeReturn

HostStep ==
    \/ PumpHostCommands \/ RecoveryRefused
    \/ DrainAsyncCommands \/ RunAsync \/ NotifyRoom
    \/ CheckSlot \/ RunSync \/ PublishCompletion \/ NotifyCompletion

EndStep ==
    \/ RequestExit \/ RecoverGuest \/ TerminateGuest \/ ImmediateExit \/ Close

LEMMA StepCases ==
    ASSUME [Next]_vars
    PROVE  \/ /\ phase # "exited" /\ GuestStep /\ UNCHANGED asyncPresent
           \/ HostStep /\ UNCHANGED asyncPresent
           \/ EndStep /\ UNCHANGED asyncPresent
           \/ UNCHANGED vars
BY DEF Next, Game, GuestGate, HostPump, Shutdown, Finished, GuestStep, HostStep, EndStep

-----------------------------------------------------------------------------
(* Types, and what each place holds. *)

LEMMA TypeNext ==
    ASSUME TypeOK, CommandsInv, [Next]_vars
    PROVE  TypeOK'
<1> USE ChannelAssumption DEF TypeOK, guestVars, slotVars, hostVars, endVars
<1>1. CASE UNCHANGED vars
  BY <1>1 DEF vars, moving
<1>2. ASSUME GuestStep, UNCHANGED asyncPresent
      PROVE  TypeOK'
  <2>1. ASSUME NEW kind \in PostKinds \cup SyncKinds, EnterGate(kind)
        PROVE  TypeOK'
    <3>1. kind \in Kinds
      BY DEF PostKinds, Kinds
    <3>2. guestCommand.id \in 0..MaxCommands
      BY DEF Command, NoCommand
    <3>3. guestCommand' \in Command
      BY <2>1, <3>1, <3>2 DEF EnterGate, Command
    <3> QED
      BY <1>2, <2>1, <3>3 DEF EnterGate
  <2>2. CASE GuestExit \/ WaitForPendingSwaps \/ InvokeReturn
    BY <1>2, <2>2 DEF GuestExit, WaitForPendingSwaps, InvokeReturn
  <2>6. CASE PostBlocks \/ InvokeBlocks
    <3>1. asleep' \in BOOLEAN
      BY <2>6, Zenon DEF PostBlocks, InvokeBlocks
    <3>2. UNCHANGED <<asyncPresent, guestPc, guestCommand, queue, slot, pending,
                      complete, pendingSwaps, stopped,
                      hostPc, hostCommand, phase, attempts, orphaned, accepted,
                      executed, overtaken>>
      BY <1>2, <2>6 DEF PostBlocks, InvokeBlocks
    <3> QED
      BY <3>1, <3>2
  <2>3. CASE PostRefused
    <3>1. guestCommand \in Command
      BY <2>3 DEF PostRefused, CommandsInv
    <3>2. [guestCommand EXCEPT !.kind = "call"] \in Command
      BY <3>1 DEF Command, Kinds, SyncKinds
    <3>3. guestCommand' \in Command
      BY <2>3, <3>1, <3>2 DEF PostRefused
    <3> QED
      BY <1>2, <2>3, <3>3 DEF PostRefused
  <2>4. CASE PostToHostThread
    <3>1. guestCommand \in Command
      BY <2>4 DEF PostToHostThread, CommandsInv
    <3>2. queue' \in Seq(Command) /\ Len(queue') <= Capacity /\ accepted' \in Seq(Command)
      BY <2>4, <3>1 DEF PostToHostThread, HasRoom
    <3>3. pendingSwaps' \in 0..MaxOutstandingSwaps
      BY <2>4 DEF PostToHostThread, HasRoom
    <3> QED
      BY <1>2, <2>4, <3>2, <3>3 DEF PostToHostThread
  <2>5. CASE InvokePublish
    <3>1. guestCommand \in Command
      BY <2>5 DEF InvokePublish, CommandsInv
    <3>2. /\ pending' \in BOOLEAN /\ complete' \in BOOLEAN
      BY <2>5, Zenon DEF InvokePublish
    <3>3. /\ slot' \in Command /\ accepted' \in Seq(Command)
          /\ guestPc' \in {"game", "post", "swapWait", "invoke", "await", "stopped"}
      BY <2>5, <3>1 DEF InvokePublish
    <3>4. UNCHANGED <<asyncPresent, guestCommand, asleep, queue, pendingSwaps, stopped,
                      hostPc, hostCommand, phase, attempts, orphaned, executed, overtaken>>
      BY <1>2, <2>5 DEF InvokePublish
    <3> QED
      BY <3>1, <3>2, <3>3, <3>4, ZenonT(60)
  <2> QED
    BY <1>2, <2>1, <2>2, <2>3, <2>4, <2>5, <2>6 DEF GuestStep
<1>3. ASSUME HostStep, UNCHANGED asyncPresent
      PROVE  TypeOK'
  <2>1. CASE PumpHostCommands
    BY <1>3, <2>1 DEF PumpHostCommands, StartPump
  <2>7. CASE RecoveryRefused
    BY <1>3, <2>7 DEF RecoveryRefused, StartPump
  <2>8. CASE NotifyRoom
    <3>1. asleep' \in BOOLEAN
      BY <2>8, Zenon DEF NotifyRoom
    <3>2. /\ hostPc' \in {"drain", "idle"}
          /\ UNCHANGED <<asyncPresent, guestPc, guestCommand, queue, slot, pending,
                         complete, pendingSwaps, stopped,
                         hostCommand, phase, attempts, orphaned, accepted, executed, overtaken>>
      BY <1>3, <2>8 DEF NotifyRoom
    <3> QED
      BY <3>1, <3>2
  <2>9. CASE NotifyCompletion
    <3>1. asleep' \in BOOLEAN
      BY <2>9, Zenon DEF NotifyCompletion
    <3>2. /\ hostPc' \in {"drain", "idle"}
          /\ UNCHANGED <<asyncPresent, guestPc, guestCommand, queue, slot, pending,
                         complete, pendingSwaps, stopped,
                         hostCommand, phase, attempts, orphaned, accepted, executed, overtaken>>
      BY <1>3, <2>9 DEF NotifyCompletion
    <3> QED
      BY <3>1, <3>2
  <2>2. CASE DrainAsyncCommands
    <3>1. CASE queue = <<>>
      BY <1>3, <2>2, <3>1 DEF DrainAsyncCommands
    <3>2. CASE queue # <<>>
      <4>1. /\ Head(queue) \in Command /\ Tail(queue) \in Seq(Command)
            /\ Len(Tail(queue)) <= Capacity
        BY <3>2
      <4>2. hostCommand' = Head(queue) /\ queue' = Tail(queue) /\ hostPc' = "async"
        BY <2>2, <3>2 DEF DrainAsyncCommands
      <4>3. UNCHANGED <<asyncPresent, guestPc, guestCommand, asleep, slot, pending,
                        complete, pendingSwaps, stopped,
                        phase, attempts, orphaned, accepted, executed, overtaken>>
        BY <1>3, <2>2, <3>2 DEF DrainAsyncCommands
      <4> QED
        BY <4>1, <4>2, <4>3
    <3> QED
      BY <3>1, <3>2
  <2>3. CASE RunAsync
    <3>1. hostCommand \in Command
      BY <2>3 DEF RunAsync, CommandsInv
    <3>2. executed' \in Seq(Command)
      BY <2>3, <3>1 DEF RunAsync
    <3>3. pendingSwaps' \in 0..MaxOutstandingSwaps
      BY <2>3 DEF RunAsync
    <3>4. asleep' \in BOOLEAN
      BY <2>3, Zenon DEF RunAsync
    <3>5. /\ hostPc' = "retired"
          /\ UNCHANGED <<asyncPresent, guestPc, guestCommand, queue, slot, pending,
                         complete, stopped, hostCommand,
                         phase, attempts, orphaned, accepted, overtaken>>
      BY <1>3, <2>3 DEF RunAsync
    <3> QED
      BY <3>2, <3>3, <3>4, <3>5
  <2>4. CASE CheckSlot
    BY <1>3, <2>4 DEF CheckSlot
  <2>5. CASE RunSync
    <3>1. hostCommand \in Command
      BY <2>5 DEF RunSync, CommandsInv
    <3>2. executed' \in Seq(Command)
      BY <2>5, <3>1 DEF RunSync
    <3>3. pendingSwaps' \in 0..MaxOutstandingSwaps
      BY <2>5 DEF RunSync
    <3>4. stopped' \in BOOLEAN /\ overtaken' \in BOOLEAN
      BY <2>5, Zenon DEF RunSync
    <3>5. /\ hostPc' = "ran"
          /\ UNCHANGED <<asyncPresent, guestPc, guestCommand, asleep, queue, slot,
                         pending, complete, hostCommand,
                         phase, attempts, orphaned, accepted>>
      BY <1>3, <2>5 DEF RunSync
    <3> QED
      BY <3>2, <3>3, <3>4, <3>5
  <2>6. CASE PublishCompletion
    BY <1>3, <2>6, ZenonT(60) DEF PublishCompletion
  <2> QED
    BY <1>3, <2>1, <2>2, <2>3, <2>4, <2>5, <2>6, <2>7, <2>8, <2>9 DEF HostStep
<1>4. ASSUME EndStep, UNCHANGED asyncPresent
      PROVE  TypeOK'
  <2>1. CASE RequestExit
    BY <1>4, <2>1 DEF RequestExit
  <2>2. CASE RecoverGuest
    BY <1>4, <2>2 DEF RecoverGuest
  <2>3. CASE TerminateGuest
    BY <1>4, <2>3, ZenonT(60) DEF TerminateGuest, GivesUp
  <2>4. CASE ImmediateExit
    BY <1>4, <2>4 DEF ImmediateExit, GivesUp
  <2>5. CASE Close
    BY <1>4, <2>5 DEF Close
  <2> QED
    BY <1>4, <2>1, <2>2, <2>3, <2>4, <2>5 DEF EndStep
<1> QED
  BY <1>1, <1>2, <1>3, <1>4, StepCases

LEMMA CommandsNext ==
    ASSUME TypeOK, CommandsInv, [Next]_vars
    PROVE  CommandsInv'
<1> USE DEF guestVars, slotVars, hostVars, endVars
<1>0. queue \in Seq(Command)
  BY DEF TypeOK
<1>1. CASE UNCHANGED vars
  BY <1>1 DEF vars, moving, CommandsInv
<1>2. ASSUME GuestStep, UNCHANGED asyncPresent
      PROVE  CommandsInv'
  <2>1. ASSUME NEW kind \in PostKinds \cup SyncKinds, EnterGate(kind)
        PROVE  CommandsInv'
    <3>1. kind \in Kinds
      BY DEF PostKinds, Kinds
    <3>2. guestCommand.id \in 0..MaxCommands /\ MaxCommands \in Nat
      BY ChannelAssumption DEF TypeOK, Command, NoCommand
    <3>3. guestCommand' \in Command /\ guestCommand'.kind = kind
      BY <2>1, <3>1, <3>2 DEF EnterGate, Command
    <3>4. guestPc' = IF kind \in SyncKinds THEN "invoke" ELSE "post"
      BY <2>1 DEF EnterGate
    <3>5. UNCHANGED <<queue, pending, slot, hostPc, hostCommand, asyncPresent>>
      BY <1>2, <2>1 DEF EnterGate
    <3>6. guestPc' = "post" => IsPosted(guestCommand') /\ (~asyncPresent => IsSwap(guestCommand'))
      BY <3>3, <3>4 DEF PostKinds, SyncKinds, IsPosted, IsSwap
    <3>7. guestPc' = "invoke" => ~IsPosted(guestCommand')
      BY <3>3, <3>4 DEF SyncKinds, IsPosted
    <3> QED
      BY <3>3, <3>4, <3>5, <3>6, <3>7 DEF CommandsInv
  <2>2. CASE GuestExit \/ WaitForPendingSwaps \/ InvokeReturn \/ PostBlocks \/ InvokeBlocks
    BY <1>2, <2>2 DEF GuestExit, WaitForPendingSwaps, InvokeReturn, PostBlocks, InvokeBlocks,
                      CommandsInv
  <2>3. CASE PostRefused
    <3>1. guestCommand \in Command
      BY <2>3 DEF PostRefused, CommandsInv
    <3>2. /\ [guestCommand EXCEPT !.kind = "call"] \in Command
          /\ ~IsPosted([guestCommand EXCEPT !.kind = "call"])
      BY <3>1 DEF Command, Kinds, SyncKinds, IsPosted
    <3> QED
      BY <1>2, <2>3, <3>2 DEF PostRefused, CommandsInv
  <2>4. CASE PostToHostThread
    <3>1. guestCommand \in Command /\ IsPosted(guestCommand) /\ (~asyncPresent => IsSwap(guestCommand))
      BY <2>4 DEF PostToHostThread, CommandsInv
    <3>2. /\ guestPc' \in {"game", "swapWait"} /\ queue' = Append(queue, guestCommand)
          /\ UNCHANGED <<guestCommand, pending, slot, hostPc, hostCommand, asyncPresent>>
      BY <1>2, <2>4 DEF PostToHostThread
    <3>3. ASSUME NEW i \in DOMAIN queue'
          PROVE  IsPosted(queue'[i]) /\ (~asyncPresent => IsSwap(queue'[i]))
      <4>1. CASE i \in DOMAIN queue
        BY <1>0, <3>2, <4>1 DEF CommandsInv
      <4>2. CASE i \notin DOMAIN queue
        BY <1>0, <3>1, <3>2, <4>2
      <4> QED
        BY <4>1, <4>2
    <3> QED
      BY <3>2, <3>3 DEF CommandsInv
  <2>5. CASE InvokePublish
    BY <1>2, <2>5 DEF InvokePublish, CommandsInv
  <2> QED
    BY <1>2, <2>1, <2>2, <2>3, <2>4, <2>5 DEF GuestStep
<1>3. ASSUME HostStep, UNCHANGED asyncPresent
      PROVE  CommandsInv'
  <2>1. CASE PumpHostCommands \/ RecoveryRefused \/ NotifyRoom \/ NotifyCompletion
    BY <1>3, <2>1 DEF PumpHostCommands, RecoveryRefused, NotifyRoom, NotifyCompletion,
                      StartPump, CommandsInv
  <2>2. CASE DrainAsyncCommands
    <3>0. UNCHANGED <<guestPc, guestCommand, pending, slot, asyncPresent>>
      BY <1>3, <2>2 DEF DrainAsyncCommands
    <3>1. CASE queue = <<>>
      BY <2>2, <3>0, <3>1 DEF DrainAsyncCommands, CommandsInv
    <3>2. CASE queue # <<>>
      <4>1. hostCommand' = Head(queue) /\ queue' = Tail(queue) /\ hostPc' = "async"
        BY <2>2, <3>2 DEF DrainAsyncCommands
      <4>2. Head(queue) = queue[1] /\ 1 \in DOMAIN queue /\ Head(queue) \in Command
        BY <1>0, <3>2
      <4>3. \A i \in DOMAIN queue' : i + 1 \in DOMAIN queue /\ queue'[i] = queue[i + 1]
        BY <1>0, <3>2, <4>1
      <4> QED
        BY <3>0, <4>1, <4>2, <4>3 DEF CommandsInv
    <3> QED
      BY <3>1, <3>2
  <2>3. CASE RunAsync \/ CheckSlot \/ RunSync \/ PublishCompletion
    BY <1>3, <2>3 DEF RunAsync, CheckSlot, RunSync, PublishCompletion, CommandsInv
  <2> QED
    BY <1>3, <2>1, <2>2, <2>3 DEF HostStep
<1>4. ASSUME EndStep, UNCHANGED asyncPresent
      PROVE  CommandsInv'
  <2>1. CASE RequestExit \/ ImmediateExit \/ Close
    BY <1>4, <2>1 DEF RequestExit, ImmediateExit, Close, CommandsInv
  <2>2. CASE RecoverGuest \/ TerminateGuest
    <3>1. guestPc' = "stopped"
      BY <2>2 DEF RecoverGuest, TerminateGuest
    <3>2. UNCHANGED <<asyncPresent, queue, pending, slot, hostPc, hostCommand>>
      BY <1>4, <2>2 DEF RecoverGuest, TerminateGuest
    <3> QED
      BY <3>1, <3>2 DEF CommandsInv
  <2> QED
    BY <1>4, <2>1, <2>2 DEF EndStep
<1> QED
  BY <1>1, <1>2, <1>3, <1>4, StepCases

-----------------------------------------------------------------------------
(* The numbers of the posted commands. *)

LEMMA NumbersAreNatural ==
    ASSUME TypeOK
    PROVE  /\ guestCommand.id \in Nat /\ hostCommand.id \in Nat
           /\ \A i \in DOMAIN queue : queue[i] \in Command /\ queue[i].id \in Nat
<1>1. \A c \in Command : c.id \in Nat
  BY DEF Command
<1>2. NoCommand.id \in Nat
  BY DEF NoCommand
<1>3. \A i \in DOMAIN queue : queue[i] \in Command
  BY DEF TypeOK
<1> QED
  BY <1>1, <1>2, <1>3 DEF TypeOK

LEMMA IdsNext ==
    ASSUME TypeOK, CommandsInv, IdsInv, [Next]_vars
    PROVE  IdsInv'
<1> USE NumbersAreNatural DEF guestVars, slotVars, hostVars, endVars
<1>0. queue \in Seq(Command)
  BY DEF TypeOK
<1>1. ASSUME UNCHANGED <<queue, guestCommand>>,
             guestPc' = "post" => guestPc = "post",
             hostPc' = "async" => hostPc = "async" /\ hostCommand' = hostCommand
      PROVE  IdsInv'
  BY <1>1 DEF IdsInv
<1>2. CASE UNCHANGED vars
  BY <1>1, <1>2 DEF vars, moving
<1>3. CASE GuestStep
  <2>1. ASSUME NEW kind \in PostKinds \cup SyncKinds, EnterGate(kind)
        PROVE  IdsInv'
    <3>1. guestCommand'.id = guestCommand.id + 1 /\ UNCHANGED <<queue, hostPc, hostCommand>>
      BY <2>1 DEF EnterGate
    <3> QED
      BY <3>1 DEF IdsInv
  <2>2. CASE GuestExit \/ WaitForPendingSwaps \/ InvokeReturn \/ PostBlocks \/ InvokeBlocks
             \/ InvokePublish
    BY <1>1, <2>2 DEF GuestExit, WaitForPendingSwaps, InvokeReturn, PostBlocks, InvokeBlocks,
                      InvokePublish
  <2>3. CASE PostRefused
    <3>1. guestCommand'.id = guestCommand.id /\ guestPc' # "post"
      BY <2>3 DEF PostRefused, CommandsInv, Command
    <3>2. UNCHANGED <<queue, hostPc, hostCommand>>
      BY <2>3 DEF PostRefused
    <3> QED
      BY <3>1, <3>2 DEF IdsInv
  <2>4. CASE PostToHostThread
    <3>1. /\ guestPc = "post" /\ guestPc' # "post" /\ queue' = Append(queue, guestCommand)
          /\ UNCHANGED <<guestCommand, hostPc, hostCommand>>
      BY <2>4 DEF PostToHostThread
    <3>2. \A i \in DOMAIN queue' :
            IF i \in DOMAIN queue THEN queue'[i] = queue[i]
                                  ELSE i = Len(queue) + 1 /\ queue'[i] = guestCommand
      BY <1>0, <3>1
    <3>3. ASSUME NEW i \in DOMAIN queue', NEW j \in DOMAIN queue', i < j
          PROVE  queue'[i].id < queue'[j].id
      <4>1. i \in DOMAIN queue
        BY <1>0, <3>1, <3>3
      <4> QED
        BY <3>1, <3>2, <3>3, <4>1 DEF IdsInv
    <3> QED
      BY <3>1, <3>2, <3>3 DEF IdsInv
  <2> QED
    BY <1>3, <2>1, <2>2, <2>3, <2>4 DEF GuestStep
<1>4. CASE HostStep
  <2>1. CASE PumpHostCommands \/ RecoveryRefused \/ NotifyRoom \/ NotifyCompletion
    BY <1>1, <2>1 DEF PumpHostCommands, RecoveryRefused, NotifyRoom, NotifyCompletion, StartPump
  <2>2. CASE DrainAsyncCommands
    <3>1. CASE queue = <<>>
      BY <1>1, <2>2, <3>1 DEF DrainAsyncCommands
    <3>2. CASE queue # <<>>
      <4>1. /\ hostCommand' = Head(queue) /\ queue' = Tail(queue)
            /\ UNCHANGED <<guestPc, guestCommand>>
        BY <2>2, <3>2 DEF DrainAsyncCommands
      <4>2. Head(queue) = queue[1] /\ 1 \in DOMAIN queue
        BY <1>0, <3>2
      <4>3. \A i \in DOMAIN queue' :
                i \in Nat /\ i >= 1 /\ i + 1 \in DOMAIN queue /\ queue'[i] = queue[i + 1]
        BY <1>0, <3>2, <4>1
      <4> QED
        BY <4>1, <4>2, <4>3 DEF IdsInv
    <3> QED
      BY <3>1, <3>2
  <2>3. CASE RunAsync \/ CheckSlot \/ RunSync \/ PublishCompletion
    BY <1>1, <2>3 DEF RunAsync, CheckSlot, RunSync, PublishCompletion
  <2> QED
    BY <1>4, <2>1, <2>2, <2>3 DEF HostStep
<1>5. CASE EndStep
  BY <1>1, <1>5 DEF EndStep, RequestExit, RecoverGuest, TerminateGuest, ImmediateExit, Close
<1> QED
  BY <1>2, <1>3, <1>4, <1>5, StepCases

-----------------------------------------------------------------------------
(* The rendezvous. *)

LEMMA RendezvousNext ==
    ASSUME TypeOK, RendezvousInv, [Next]_vars
    PROVE  RendezvousInv'
<1> USE DEF guestVars, slotVars, hostVars, endVars, RendezvousInv
<1>1. CASE UNCHANGED vars
  BY <1>1 DEF vars, moving
<1>2. CASE GuestStep
  <2>1. ASSUME NEW kind \in PostKinds \cup SyncKinds, EnterGate(kind)
        PROVE  RendezvousInv'
    BY <2>1 DEF EnterGate
  <2>2. CASE GuestExit \/ WaitForPendingSwaps \/ InvokeReturn
    BY <2>2 DEF GuestExit, WaitForPendingSwaps, InvokeReturn
  <2>3. CASE PostBlocks \/ InvokeBlocks
    BY <2>3 DEF PostBlocks, InvokeBlocks
  <2>4. CASE PostRefused \/ PostToHostThread
    BY <2>4 DEF PostRefused, PostToHostThread
  <2>5. CASE InvokePublish
    BY <2>5 DEF InvokePublish
  <2> QED
    BY <1>2, <2>1, <2>2, <2>3, <2>4, <2>5 DEF GuestStep
<1>3. CASE HostStep
  <2>1. CASE PumpHostCommands \/ RecoveryRefused
    BY <2>1 DEF PumpHostCommands, RecoveryRefused, StartPump
  <2>2. CASE DrainAsyncCommands
    BY <2>2 DEF DrainAsyncCommands
  <2>3. CASE RunAsync \/ NotifyRoom \/ NotifyCompletion
    BY <2>3 DEF RunAsync, NotifyRoom, NotifyCompletion
  <2>4. CASE CheckSlot
    BY <2>4 DEF CheckSlot
  <2>5. CASE RunSync
    BY <2>5 DEF RunSync
  <2>6. CASE PublishCompletion
    BY <2>6 DEF PublishCompletion
  <2> QED
    BY <1>3, <2>1, <2>2, <2>3, <2>4, <2>5, <2>6 DEF HostStep
<1>4. CASE EndStep
  <2>1. CASE RequestExit \/ ImmediateExit \/ Close
    BY <2>1 DEF RequestExit, ImmediateExit, GivesUp, Close
  <2>2. CASE RecoverGuest
    BY <2>2 DEF RecoverGuest
  <2>3. CASE TerminateGuest
    BY <2>3 DEF TerminateGuest, GivesUp
  <2> QED
    BY <1>4, <2>1, <2>2, <2>3 DEF EndStep
<1> QED
  BY <1>1, <1>2, <1>3, <1>4, StepCases

LEMMA WakeNext ==
    ASSUME TypeOK, RendezvousInv, NoWakeUpLost, [Next]_vars
    PROVE  NoWakeUpLost'
<1> USE DEF guestVars, slotVars, hostVars, endVars
<1>1. ASSUME UNCHANGED <<asleep, guestPc, guestCommand, queue, pending, pendingSwaps, stopped>>,
             hostPc = "notify" => hostPc' = "notify",
             hostPc \in {"async", "retired"} => hostPc' \in {"async", "retired"}
      PROVE  NoWakeUpLost'
  BY <1>1 DEF NoWakeUpLost, HasRoom
<1>2. ASSUME ~asleep'
      PROVE  NoWakeUpLost'
  BY <1>2 DEF NoWakeUpLost
<1>3. CASE UNCHANGED vars
  BY <1>1, <1>3 DEF vars, moving
<1>4. CASE GuestStep
  <2>1. ASSUME ~asleep, UNCHANGED asleep
        PROVE  NoWakeUpLost'
    BY <1>2, <2>1
  <2>2. ASSUME guestPc \notin {"post", "await"}, UNCHANGED asleep
        PROVE  NoWakeUpLost'
    BY <2>1, <2>2 DEF NoWakeUpLost
  <2>3. ASSUME NEW kind \in PostKinds \cup SyncKinds, EnterGate(kind)
        PROVE  NoWakeUpLost'
    BY <2>2, <2>3 DEF EnterGate
  <2>4. CASE GuestExit \/ WaitForPendingSwaps
    BY <2>2, <2>4 DEF GuestExit, WaitForPendingSwaps
  <2>5. CASE InvokeReturn \/ PostRefused \/ PostToHostThread \/ InvokePublish
    BY <2>1, <2>5 DEF InvokeReturn, PostRefused, PostToHostThread, InvokePublish
  <2>6. CASE PostBlocks
    BY <2>6 DEF PostBlocks, NoWakeUpLost, HasRoom
  <2>7. CASE InvokeBlocks
    BY <2>7 DEF InvokeBlocks, NoWakeUpLost, RendezvousInv
  <2> QED
    BY <1>4, <2>3, <2>4, <2>5, <2>6, <2>7 DEF GuestStep
<1>5. CASE HostStep
  <2>1. CASE PumpHostCommands \/ RecoveryRefused \/ CheckSlot
    BY <1>1, <2>1 DEF PumpHostCommands, RecoveryRefused, CheckSlot
  <2>2. CASE NotifyRoom \/ NotifyCompletion
    BY <1>2, <2>2 DEF NotifyRoom, NotifyCompletion
  <2>3. CASE DrainAsyncCommands
    <3>1. CASE queue = <<>>
      BY <1>1, <2>3, <3>1 DEF DrainAsyncCommands
    <3>2. CASE queue # <<>>
      <4>1. /\ hostPc = "drain" /\ hostPc' = "async"
            /\ UNCHANGED <<asleep, guestPc, pending, stopped>>
        BY <2>3, <3>2 DEF DrainAsyncCommands
      <4> QED
        BY <4>1 DEF NoWakeUpLost
    <3> QED
      BY <3>1, <3>2
  <2>4. CASE RunAsync
    <3>1. /\ hostPc = "async" /\ hostPc' = "retired"
          /\ UNCHANGED <<guestPc, pending, stopped>>
          /\ ~asleep' \/ UNCHANGED asleep
      BY <2>4 DEF RunAsync
    <3> QED
      BY <1>2, <3>1 DEF NoWakeUpLost
  <2>5. CASE RunSync
    <3>1. /\ hostPc = "sync" /\ pending /\ guestPc = "await"
          /\ UNCHANGED <<asleep, guestPc, pending>>
      BY <2>5 DEF RunSync, RendezvousInv
    <3> QED
      BY <3>1 DEF NoWakeUpLost
  <2>6. CASE PublishCompletion
    <3>1. /\ hostPc' = "notify" /\ guestPc = "await" /\ UNCHANGED <<asleep, guestPc>>
      BY <2>6 DEF PublishCompletion, RendezvousInv
    <3> QED
      BY <3>1 DEF NoWakeUpLost
  <2> QED
    BY <1>5, <2>1, <2>2, <2>3, <2>4, <2>5, <2>6 DEF HostStep
<1>6. CASE EndStep
  <2>1. CASE RequestExit \/ ImmediateExit
    BY <1>1, <2>1 DEF RequestExit, ImmediateExit
  <2>2. CASE TerminateGuest
    BY <1>2, <2>2 DEF TerminateGuest
  <2>3. ASSUME guestPc \in {"game", "stopped", "swapWait"}, UNCHANGED asleep
        PROVE  NoWakeUpLost'
    BY <1>2, <2>3 DEF NoWakeUpLost
  <2>4. CASE RecoverGuest
    BY <2>3, <2>4 DEF RecoverGuest
  <2>5. CASE Close
    BY <2>3, <2>5 DEF Close, RendezvousInv
  <2> QED
    BY <1>6, <2>1, <2>2, <2>4, <2>5 DEF EndStep
<1> QED
  BY <1>3, <1>4, <1>5, <1>6, StepCases

-----------------------------------------------------------------------------
(* The swaps not presented yet. *)

(* OutstandingSwaps, of any queue and any running command. *)
SwapsOf(q, pc, command) ==
    {c \in {q[i] : i \in DOMAIN q} \cup (IF pc \in {"async", "sync"} THEN {command} ELSE {}) :
        IsSwap(c)}

LEMMA RunningIs ==
    ASSUME NEW command
    PROVE  /\ {<<command>>[i] : i \in DOMAIN <<command>>} = {command}
           /\ {<<>>[i] : i \in DOMAIN <<>>} = {}
<1>1. DOMAIN <<command>> = {1} /\ <<command>>[1] = command
  OBVIOUS
<1>2. DOMAIN <<>> = {}
  OBVIOUS
<1>3. {<<>>[i] : i \in DOMAIN <<>>} = {}
  BY <1>2
<1>4. {<<command>>[i] : i \in DOMAIN <<command>>} = {command}
  BY <1>1
<1> QED
  BY <1>3, <1>4

LEMMA OutstandingIs ==
    /\ OutstandingSwaps = SwapsOf(queue, hostPc, hostCommand)
    /\ OutstandingSwaps' = SwapsOf(queue', hostPc', hostCommand')
<1>1. CASE hostPc \in {"async", "sync"}
  BY <1>1, RunningIs DEF OutstandingSwaps, Running, SwapsOf
<1>2. CASE hostPc \notin {"async", "sync"}
  BY <1>2, RunningIs DEF OutstandingSwaps, Running, SwapsOf
<1>3. OutstandingSwaps = SwapsOf(queue, hostPc, hostCommand)
  BY <1>1, <1>2
<1>4. CASE hostPc' \in {"async", "sync"}
  BY <1>4, RunningIs DEF OutstandingSwaps, Running, SwapsOf
<1>5. CASE hostPc' \notin {"async", "sync"}
  BY <1>5, RunningIs DEF OutstandingSwaps, Running, SwapsOf
<1> QED
  BY <1>3, <1>4, <1>5

(* Only a post adds to them, by one, and only a swap that ran leaves them. *)
LEMMA OutstandingSteps ==
    ASSUME TypeOK, CommandsInv, IdsInv, [Next]_vars
    PROVE  /\ PostToHostThread =>
                OutstandingSwaps' =
                    IF IsSwap(guestCommand) THEN OutstandingSwaps \cup {guestCommand}
                                            ELSE OutstandingSwaps
           /\ RunAsync => OutstandingSwaps' = OutstandingSwaps \ {hostCommand}
           /\ ~PostToHostThread /\ ~RunAsync => OutstandingSwaps' = OutstandingSwaps
<1> USE DEF guestVars, slotVars, hostVars, endVars
<1>0. queue \in Seq(Command)
  BY DEF TypeOK
<1>1. ASSUME PostToHostThread
      PROVE  OutstandingSwaps' = IF IsSwap(guestCommand)
                                   THEN OutstandingSwaps \cup {guestCommand}
                                   ELSE OutstandingSwaps
  <2>1. queue' = Append(queue, guestCommand) /\ UNCHANGED <<hostPc, hostCommand>>
    BY <1>1 DEF PostToHostThread
  <2>2. guestCommand \in Command
    BY <1>1 DEF PostToHostThread, CommandsInv
  <2>3. {queue'[i] : i \in DOMAIN queue'} = {queue[i] : i \in DOMAIN queue} \cup {guestCommand}
    <3>1. /\ DOMAIN queue' = DOMAIN queue \cup {Len(queue) + 1}
          /\ queue'[Len(queue) + 1] = guestCommand
          /\ \A i \in DOMAIN queue : queue'[i] = queue[i]
      BY <1>0, <2>1, <2>2
    <3> QED
      BY <3>1
  <2> QED
    BY <2>1, <2>3, OutstandingIs DEF SwapsOf
<1>2. ASSUME RunAsync
      PROVE  OutstandingSwaps' = OutstandingSwaps \ {hostCommand}
  <2>1. hostPc = "async" /\ hostPc' = "retired" /\ UNCHANGED <<queue, hostCommand>>
    BY <1>2 DEF RunAsync
  <2>2. \A i \in DOMAIN queue : queue[i] # hostCommand
    BY <2>1, NumbersAreNatural DEF IdsInv
  <2> QED
    BY <2>1, <2>2, OutstandingIs DEF SwapsOf
<1>3. ASSUME ~PostToHostThread, ~RunAsync
      PROVE  OutstandingSwaps' = OutstandingSwaps
  <2>0. ASSUME UNCHANGED queue,
               \/ hostPc' \in {"async", "sync"} /\ hostPc \in {"async", "sync"}
                     /\ hostCommand' = hostCommand
               \/ /\ hostPc' \in {"async", "sync"} => ~IsSwap(hostCommand')
                  /\ hostPc \in {"async", "sync"} => ~IsSwap(hostCommand)
        PROVE  OutstandingSwaps' = OutstandingSwaps
    BY <2>0, OutstandingIs DEF SwapsOf
  <2>1. CASE UNCHANGED vars
    BY <2>0, <2>1 DEF vars, moving
  <2>2. CASE GuestStep
    <3>1. UNCHANGED <<queue, hostPc, hostCommand>>
      BY <1>3, <2>2 DEF GuestStep, EnterGate, GuestExit, PostBlocks, PostRefused,
                        WaitForPendingSwaps, InvokePublish, InvokeBlocks, InvokeReturn
    <3> QED
      BY <2>0, <3>1
  <2>3. CASE HostStep
    <3>1. CASE PumpHostCommands \/ RecoveryRefused
      BY <2>0, <3>1 DEF PumpHostCommands, RecoveryRefused, StartPump
    <3>2. CASE DrainAsyncCommands
      <4>1. CASE queue = <<>>
        BY <2>0, <3>2, <4>1 DEF DrainAsyncCommands
      <4>2. CASE queue # <<>>
        <5>1. /\ hostPc = "drain" /\ hostPc' = "async"
              /\ hostCommand' = Head(queue) /\ queue' = Tail(queue)
          BY <3>2, <4>2 DEF DrainAsyncCommands
        <5>2. Head(queue) = queue[1] /\ 1 \in DOMAIN queue
          BY <1>0, <4>2
        <5>3. \A i \in DOMAIN queue' : i + 1 \in DOMAIN queue /\ queue'[i] = queue[i + 1]
          BY <1>0, <4>2, <5>1
        <5>4. \A i \in DOMAIN queue : i # 1 => i - 1 \in DOMAIN queue' /\ queue[i] = queue'[i - 1]
          BY <1>0, <4>2, <5>1
        <5>5. {queue[i] : i \in DOMAIN queue} =
                 {queue'[i] : i \in DOMAIN queue'} \cup {hostCommand'}
          <6>1. ASSUME NEW i \in DOMAIN queue
                PROVE  queue[i] \in {queue'[j] : j \in DOMAIN queue'} \cup {hostCommand'}
            BY <5>1, <5>2, <5>4
          <6>2. ASSUME NEW j \in DOMAIN queue'
                PROVE  queue'[j] \in {queue[i] : i \in DOMAIN queue}
            BY <5>3
          <6>3. hostCommand' \in {queue[i] : i \in DOMAIN queue}
            BY <5>1, <5>2
          <6> QED
            BY <6>1, <6>2, <6>3
        <5> QED
          BY <5>1, <5>5, OutstandingIs DEF SwapsOf
      <4> QED
        BY <4>1, <4>2
    <3>3. CASE NotifyRoom \/ NotifyCompletion \/ PublishCompletion
      BY <2>0, <3>3 DEF NotifyRoom, NotifyCompletion, PublishCompletion
    <3>4. CASE CheckSlot
      <4>1. pending => ~IsSwap(slot)
        BY DEF CommandsInv, IsPosted, IsSwap
      <4> QED
        BY <2>0, <3>4, <4>1 DEF CheckSlot
    <3>5. CASE RunSync
      <4>1. ~IsSwap(hostCommand)
        BY <3>5 DEF RunSync, CommandsInv, IsPosted, IsSwap
      <4> QED
        BY <2>0, <3>5, <4>1 DEF RunSync
    <3> QED
      BY <1>3, <2>3, <3>1, <3>2, <3>3, <3>4, <3>5 DEF HostStep
  <2>4. CASE EndStep
    <3>1. UNCHANGED <<queue, hostPc, hostCommand>>
      BY <2>4 DEF EndStep, RequestExit, RecoverGuest, TerminateGuest, ImmediateExit, Close
    <3> QED
      BY <2>0, <3>1
  <2> QED
    BY <2>1, <2>2, <2>3, <2>4, StepCases
<1> QED
  BY <1>1, <1>2, <1>3, Zenon

LEMMA SwapsNext ==
    ASSUME TypeOK, CommandsInv, IdsInv, RendezvousInv, SwapsInv, [Next]_vars
    PROVE  SwapsInv'
<1> DEFINE n == Cardinality(OutstandingSwaps)
           m == Cardinality(OutstandingSwaps')
           most == MaxOutstandingSwaps
<1> USE DEF guestVars, slotVars, hostVars, endVars
<1>1. /\ IsFiniteSet(OutstandingSwaps) /\ n <= 2 * most
      /\ phase # "closed" => n <= pendingSwaps + most
      /\ hostPc \in {"slot", "sync"} => n <= pendingSwaps
      /\ ~overtaken => n <= most /\ (stopped \/ n <= pendingSwaps)
  BY DEF SwapsInv
<1>2. n \in Nat
  BY <1>1, FS_CardinalityType
<1>3. most \in Nat \ {0} /\ pendingSwaps \in Nat /\ pendingSwaps <= most
  BY ChannelAssumption DEF TypeOK
<1>4. ASSUME IsFiniteSet(OutstandingSwaps'), m <= 2 * most,
             phase' # "closed" => m <= pendingSwaps' + most,
             hostPc' \in {"slot", "sync"} => m <= pendingSwaps',
             ~overtaken' => m <= most /\ (stopped' \/ m <= pendingSwaps')
      PROVE  SwapsInv'
  BY <1>4, Zenon DEF SwapsInv
<1>5. ASSUME OutstandingSwaps' = OutstandingSwaps, UNCHANGED <<pendingSwaps, stopped, overtaken>>,
             phase' # "closed" => phase # "closed",
             hostPc' \in {"slot", "sync"} => hostPc \in {"slot", "sync"}
      PROVE  SwapsInv'
  <2>1. m = n
    BY <1>5, Zenon
  <2> QED
    BY <1>1, <1>4, <1>5, <2>1
<1> HIDE DEF n, m, most
<1>6. CASE PostToHostThread
  <2>1. /\ guestPc = "post" /\ HasRoom(guestCommand) /\ UNCHANGED <<hostPc, phase>>
        /\ ~stopped /\ UNCHANGED <<stopped, overtaken>>
        /\ pendingSwaps' = IF IsSwap(guestCommand) THEN pendingSwaps + 1 ELSE pendingSwaps
    BY <1>6 DEF PostToHostThread
  <2>2. phase # "closed"
    BY <2>1 DEF RendezvousInv
  <2>3. CASE IsSwap(guestCommand)
    <3>1. OutstandingSwaps' = OutstandingSwaps \cup {guestCommand}
      BY <1>6, <2>3, OutstandingSteps
    <3>2. IsFiniteSet(OutstandingSwaps') /\ m <= n + 1 /\ m \in Nat
      <4>1. IsFiniteSet(OutstandingSwaps)
        BY <1>1
      <4>2. IsFiniteSet(OutstandingSwaps') /\ m \in {n, n + 1}
        BY <3>1, <4>1, FS_AddElement DEF n, m
      <4> QED
        BY <1>2, <4>2
    <3>3. pendingSwaps < most /\ pendingSwaps' = pendingSwaps + 1
      BY <2>1, <2>3 DEF HasRoom, most
    <3>4. m <= 2 * most /\ m <= pendingSwaps' + most
      BY <1>1, <1>2, <1>3, <2>2, <3>2, <3>3
    <3>5. ~overtaken' => m <= most /\ m <= pendingSwaps'
      BY <1>1, <1>2, <1>3, <2>1, <3>2, <3>3
    <3>6. hostPc' \in {"slot", "sync"} => m <= pendingSwaps'
      BY <1>1, <1>2, <1>3, <2>1, <3>2, <3>3
    <3> QED
      BY <1>4, <3>2, <3>4, <3>5, <3>6, Zenon
  <2>4. CASE ~IsSwap(guestCommand)
    <3>1. OutstandingSwaps' = OutstandingSwaps
      BY <1>6, <2>4, OutstandingSteps
    <3> QED
      BY <1>5, <2>1, <2>4, <3>1
  <2> QED
    BY <2>3, <2>4
<1>7. CASE RunAsync
  <2>1. hostPc = "async" /\ hostPc' = "retired" /\ UNCHANGED <<phase, stopped, overtaken>>
    BY <1>7 DEF RunAsync
  <2>2. OutstandingSwaps' = OutstandingSwaps \ {hostCommand}
    BY <1>7, OutstandingSteps
  <2>3. IsSwap(hostCommand) => hostCommand \in OutstandingSwaps
    BY <2>1, OutstandingIs DEF SwapsOf
  <2>4. /\ IsFiniteSet(OutstandingSwaps')
        /\ m = IF hostCommand \in OutstandingSwaps THEN n - 1 ELSE n
    BY <1>1, <2>2, FS_RemoveElement DEF n, m
  <2>5. m \in Nat
    BY <2>4, FS_CardinalityType DEF m
  <2>6. phase # "closed"
    BY <2>1 DEF RendezvousInv
  <2>7. CASE IsSwap(hostCommand) /\ pendingSwaps' = (IF pendingSwaps # 0 THEN pendingSwaps - 1 ELSE 0)
    BY <1>1, <1>2, <1>3, <1>4, <2>1, <2>3, <2>4, <2>5, <2>6, <2>7
  <2>8. CASE UNCHANGED pendingSwaps
    <3>1. m <= n
      BY <1>2, <2>4
    <3> QED
      BY <1>1, <1>2, <1>3, <1>4, <2>1, <2>4, <2>5, <2>6, <2>8, <3>1
  <2> QED
    BY <1>7, <2>7, <2>8 DEF RunAsync
<1>8. CASE ~PostToHostThread /\ ~RunAsync
  <2>1. OutstandingSwaps' = OutstandingSwaps
    BY <1>8, OutstandingSteps
  <2>2. m = n
    BY <2>1 DEF m, n
  <2>3. ASSUME queue = <<>>, hostPc \notin {"async", "sync"}, UNCHANGED <<pendingSwaps, phase>>
        PROVE  SwapsInv'
    <3>1. OutstandingSwaps = {}
      BY <2>3, OutstandingIs, RunningIs DEF SwapsOf
    <3>2. n = 0
      BY <3>1, FS_EmptySet DEF n
    <3>3. 0 <= 2 * most /\ 0 <= pendingSwaps + most /\ 0 <= pendingSwaps /\ 0 <= most
      BY <1>3
    <3> QED
      BY <1>1, <1>4, <2>1, <2>2, <2>3, <3>2, <3>3
  <2>4. CASE UNCHANGED vars
    BY <1>5, <2>1, <2>4 DEF vars, moving
  <2>5. CASE GuestStep
    <3>1. UNCHANGED <<pendingSwaps, stopped, overtaken, phase, hostPc>>
      BY <1>8, <2>5 DEF GuestStep, EnterGate, GuestExit, PostBlocks, PostRefused,
                        WaitForPendingSwaps, InvokePublish, InvokeBlocks, InvokeReturn
    <3> QED
      BY <1>5, <2>1, <3>1
  <2>6. CASE HostStep
    <3>1. ASSUME StartPump, hostPc = "idle",
                 UNCHANGED <<pendingSwaps, stopped, overtaken, phase>>
          PROVE  SwapsInv'
      BY <1>5, <2>1, <2>3, <3>1 DEF StartPump
    <3>2. CASE PumpHostCommands \/ RecoveryRefused
      BY <3>1, <3>2 DEF PumpHostCommands, RecoveryRefused
    <3>3. CASE DrainAsyncCommands
      <4>1. CASE queue = <<>>
        BY <2>3, <3>3, <4>1 DEF DrainAsyncCommands
      <4>2. CASE queue # <<>>
        BY <1>5, <2>1, <3>3, <4>2 DEF DrainAsyncCommands
      <4> QED
        BY <4>1, <4>2
    <3>4. CASE NotifyRoom \/ NotifyCompletion \/ PublishCompletion \/ CheckSlot
      BY <1>5, <2>1, <3>4 DEF NotifyRoom, NotifyCompletion, PublishCompletion, CheckSlot
    <3>5. CASE RunSync
      <4>1. /\ hostPc = "sync" /\ hostPc' = "ran" /\ UNCHANGED phase
            /\ pendingSwaps' \in {0, pendingSwaps}
        BY <3>5 DEF RunSync
      <4>2. n <= most
        BY <1>1, <1>2, <1>3, <4>1
      <4>3. pendingSwaps' \in Nat
        BY <1>3, <4>1
      <4>4. n <= pendingSwaps' + most
        <5>1. \A a, b, c \in Nat : a <= b => a <= c + b
          OBVIOUS
        <5>2. most \in Nat
          BY <1>3
        <5> QED
          BY <1>2, <4>2, <4>3, <5>1, <5>2, Zenon
      <4>5. hostPc' \notin {"slot", "sync"}
        BY <4>1
      <4>6. ~overtaken' => stopped' \/ m <= pendingSwaps'
        <5>1. CASE hostCommand.kind = "open"
          <6>1. overtaken' \/ OutstandingSwaps = {}
            BY <3>5, <5>1 DEF RunSync
          <6>2. OutstandingSwaps = {} => n = 0
            BY FS_EmptySet DEF n
          <6> QED
            BY <2>2, <4>3, <6>1, <6>2
        <5>2. CASE hostCommand.kind = "close"
          BY <3>5, <5>2 DEF RunSync
        <5>3. CASE hostCommand.kind \notin {"open", "close"}
          <6>1. /\ UNCHANGED <<stopped, pendingSwaps>>
                /\ overtaken' => overtaken
                /\ overtaken => overtaken'
            BY <3>5, <5>3 DEF RunSync
          <6> QED
            BY <1>1, <2>2, <6>1
        <5> QED
          BY <5>1, <5>2, <5>3
      <4> QED
        BY <1>1, <1>4, <2>1, <2>2, <4>2, <4>4, <4>5, <4>6
    <3> QED
      BY <1>8, <2>6, <3>2, <3>3, <3>4, <3>5 DEF HostStep
  <2>7. CASE EndStep
    <3>1. CASE RequestExit \/ RecoverGuest \/ TerminateGuest \/ ImmediateExit
      BY <1>5, <2>1, <3>1 DEF RequestExit, RecoverGuest, TerminateGuest, ImmediateExit, GivesUp
    <3>2. CASE Close
      <4>1. phase' = "closed" /\ hostPc' = "idle" /\ stopped' /\ UNCHANGED overtaken
        BY <3>2 DEF Close, RendezvousInv
      <4> QED
        BY <1>1, <1>4, <2>1, <2>2, <4>1
    <3> QED
      BY <2>7, <3>1, <3>2 DEF EndStep
  <2> QED
    BY <2>4, <2>5, <2>6, <2>7, StepCases
<1> QED
  BY <1>6, <1>7, <1>8

-----------------------------------------------------------------------------
(* The default mode. *)

LEMMA DefaultNext ==
    ASSUME TypeOK, CommandsInv, RendezvousInv, DefaultInv, [Next]_vars
    PROVE  DefaultInv'
<1> USE DEF guestVars, slotVars, hostVars, endVars
<1>0. /\ queue \in Seq(Command) /\ pendingSwaps \in Nat
      /\ asyncPresent' = asyncPresent
  BY StepCases DEF TypeOK, vars
<1> SUFFICES ASSUME ~asyncPresent
             PROVE  DefaultInv'
  BY <1>0 DEF DefaultInv
<1>1. CASE UNCHANGED vars
  BY <1>1 DEF vars, moving, DefaultInv
<1>2. CASE GuestStep
  <2>1. ASSUME NEW kind \in PostKinds \cup SyncKinds, EnterGate(kind)
        PROVE  DefaultInv'
    BY <1>0, <2>1 DEF EnterGate, DefaultInv
  <2>2. CASE GuestExit \/ InvokeReturn \/ PostBlocks \/ InvokeBlocks
    BY <1>0, <2>2 DEF GuestExit, InvokeReturn, PostBlocks, InvokeBlocks, DefaultInv
  <2>3. CASE PostRefused \/ WaitForPendingSwaps
    BY <1>0, <2>3 DEF PostRefused, WaitForPendingSwaps, DefaultInv
  <2>4. CASE PostToHostThread
    <3>1. /\ guestPc = "post" /\ guestPc' = "swapWait" /\ ~stopped
          /\ queue' = Append(queue, guestCommand)
          /\ pendingSwaps' = IF IsSwap(guestCommand) THEN pendingSwaps + 1 ELSE pendingSwaps
          /\ UNCHANGED <<pending, stopped, hostPc, overtaken>>
      BY <2>4 DEF PostToHostThread
    <3>2. queue = <<>> /\ hostPc # "async" /\ ~pending
      BY <3>1 DEF DefaultInv, RendezvousInv
    <3>3. pendingSwaps' # 0
      BY <1>0, <3>1 DEF CommandsInv
    <3>4. guestCommand \in Command
      BY <3>1 DEF CommandsInv
    <3>5. Len(queue') <= 1
      BY <3>1, <3>2, <3>4
    <3> QED
      BY <3>1, <3>2, <3>3, <3>5 DEF DefaultInv
  <2>5. CASE InvokePublish
    BY <1>0, <2>5 DEF InvokePublish, DefaultInv
  <2> QED
    BY <1>2, <2>1, <2>2, <2>3, <2>4, <2>5 DEF GuestStep
<1>3. CASE HostStep
  <2>1. CASE PumpHostCommands \/ RecoveryRefused
    BY <1>0, <2>1 DEF PumpHostCommands, RecoveryRefused, StartPump, DefaultInv
  <2>2. CASE DrainAsyncCommands
    <3>1. CASE queue = <<>>
      BY <1>0, <2>2, <3>1 DEF DrainAsyncCommands, DefaultInv
    <3>2. CASE queue # <<>>
      <4>1. /\ queue' = Tail(queue) /\ hostPc' = "async"
            /\ UNCHANGED <<guestPc, pending, pendingSwaps, stopped, overtaken>>
        BY <2>2, <3>2 DEF DrainAsyncCommands
      <4>2. queue' = <<>> /\ Len(queue') = 0
        <5>1. Len(queue) <= 1
          BY DEF DefaultInv
        <5>2. Len(queue) \in Nat /\ Len(queue) # 0
          BY <1>0, <3>2, EmptySeq, LenProperties
        <5>3. Tail(queue) \in Seq(Command) /\ Len(Tail(queue)) = Len(queue) - 1
          BY <1>0, <3>2, HeadTailProperties
        <5>4. Len(Tail(queue)) = 0
          BY <5>1, <5>2, <5>3
        <5> QED
          BY <4>1, <5>3, <5>4, EmptySeq
      <4> QED
        BY <1>0, <3>2, <4>1, <4>2 DEF DefaultInv
    <3> QED
      BY <3>1, <3>2
  <2>3. CASE RunAsync
    <3>1. hostPc = "async" /\ hostPc' = "retired" /\ UNCHANGED <<queue, guestPc, stopped, overtaken>>
      BY <2>3 DEF RunAsync
    <3> QED
      BY <1>0, <3>1 DEF DefaultInv
  <2>4. CASE NotifyRoom \/ NotifyCompletion
    BY <1>0, <2>4 DEF NotifyRoom, NotifyCompletion, DefaultInv
  <2>5. CASE CheckSlot
    BY <1>0, <2>5 DEF CheckSlot, DefaultInv
  <2>6. CASE RunSync
    <3>1. /\ hostPc = "sync" /\ hostPc' = "ran" /\ guestPc = "await"
          /\ UNCHANGED <<queue, guestPc, pending>>
      BY <2>6 DEF RunSync, RendezvousInv
    <3>2. queue = <<>> /\ ~IsSwap(hostCommand)
      BY <2>6, <3>1 DEF DefaultInv, RendezvousInv, CommandsInv, IsPosted, IsSwap
    <3>3. OutstandingSwaps = {}
      BY <3>1, <3>2, OutstandingIs DEF SwapsOf
    <3>4. ~overtaken'
      BY <2>6, <3>3 DEF RunSync, DefaultInv
    <3> QED
      BY <1>0, <3>1, <3>4 DEF DefaultInv
  <2>7. CASE PublishCompletion
    BY <1>0, <2>7 DEF PublishCompletion, DefaultInv
  <2> QED
    BY <1>3, <2>1, <2>2, <2>3, <2>4, <2>5, <2>6, <2>7 DEF HostStep
<1>4. CASE EndStep
  <2>1. CASE RequestExit \/ ImmediateExit
    BY <1>0, <2>1 DEF RequestExit, ImmediateExit, DefaultInv
  <2>2. CASE RecoverGuest \/ TerminateGuest
    <3>1. /\ guestPc' = "stopped"
          /\ UNCHANGED <<queue, pending, pendingSwaps, stopped, hostPc, overtaken>>
      BY <2>2 DEF RecoverGuest, TerminateGuest
    <3> QED
      BY <1>0, <2>2, <3>1 DEF DefaultInv
  <2>3. CASE Close
    <3>1. /\ stopped' /\ guestPc = "stopped"
          /\ UNCHANGED <<queue, guestPc, pending, hostPc, overtaken>>
      BY <2>3 DEF Close, RendezvousInv
    <3> QED
      BY <1>0, <3>1 DEF DefaultInv
  <2> QED
    BY <1>4, <2>1, <2>2, <2>3 DEF EndStep
<1> QED
  BY <1>1, <1>2, <1>3, <1>4, StepCases

-----------------------------------------------------------------------------
(* The order in which commands run. *)

LEMMA OrderNext ==
    ASSUME TypeOK, CommandsInv, RendezvousInv, DefaultInv, OrderInv, [Next]_vars
    PROVE  OrderInv'
<1> USE DEF guestVars, slotVars, hostVars, endVars
<1>0. /\ queue \in Seq(Command) /\ accepted \in Seq(Command) /\ executed \in Seq(Command)
      /\ asyncPresent' = asyncPresent
  BY StepCases DEF TypeOK, vars
<1> SUFFICES ASSUME ~asyncPresent
             PROVE  accepted' = executed' \o InFlight'
  BY <1>0 DEF OrderInv
<1>1. accepted = executed \o InFlight
  BY DEF OrderInv
<1>2. ASSUME UNCHANGED <<accepted, executed>>, InFlight' = InFlight
      PROVE  accepted' = executed' \o InFlight'
  BY <1>1, <1>2
<1>3. ASSUME NEW c \in Command, InFlight = <<>>, InFlight' = <<c>>,
             accepted' = Append(accepted, c), UNCHANGED executed
      PROVE  accepted' = executed' \o InFlight'
  BY <1>0, <1>1, <1>3
<1>4. ASSUME NEW c \in Command, InFlight = <<c>>, InFlight' = <<>>,
             executed' = Append(executed, c), UNCHANGED accepted
      PROVE  accepted' = executed' \o InFlight'
  <2>1. executed \o <<c>> = Append(executed, c)
    BY <1>0, AppendIsConcat
  <2>2. Append(executed, c) \o <<>> = Append(executed, c)
    BY <1>0, AppendProperties, ConcatEmptySeq
  <2> QED
    BY <1>1, <1>4, <2>1, <2>2
<1>5. CASE UNCHANGED vars
  <2>1. UNCHANGED <<accepted, executed, hostPc, hostCommand, queue, pending, slot>>
    BY <1>5 DEF vars, moving
  <2> QED
    BY <1>2, <2>1 DEF InFlight
<1>6. CASE GuestStep
  <2>1. CASE PostToHostThread
    <3>1. /\ guestPc = "post" /\ accepted' = Append(accepted, guestCommand)
          /\ queue' = Append(queue, guestCommand)
          /\ UNCHANGED <<executed, hostPc, hostCommand, pending, slot>>
      BY <2>1 DEF PostToHostThread
    <3>2. guestCommand \in Command
      BY <3>1 DEF CommandsInv
    <3>3. queue = <<>> /\ hostPc # "async" /\ hostPc # "sync" /\ ~pending
      BY <3>1 DEF DefaultInv, RendezvousInv
    <3>4. queue' = <<guestCommand>> /\ queue' # <<>>
      BY <3>1, <3>2, <3>3
    <3>5. InFlight = <<>> /\ InFlight' = <<guestCommand>>
      BY <3>1, <3>3, <3>4 DEF InFlight
    <3> QED
      BY <1>3, <3>1, <3>2, <3>5
  <2>2. CASE InvokePublish
    <3>1. /\ guestPc = "invoke" /\ ~pending /\ pending' /\ slot' = guestCommand
          /\ accepted' = Append(accepted, guestCommand)
          /\ UNCHANGED <<executed, hostPc, hostCommand, queue>>
      BY <2>2 DEF InvokePublish
    <3>2. guestCommand \in Command
      BY <3>1 DEF CommandsInv
    <3>3. queue = <<>> /\ hostPc \notin {"async", "sync", "ran"}
      BY <3>1 DEF DefaultInv, RendezvousInv
    <3>4. InFlight = <<>> /\ InFlight' = <<guestCommand>>
      BY <3>1, <3>3 DEF InFlight
    <3> QED
      BY <1>3, <3>1, <3>2, <3>4
  <2>3. CASE ~PostToHostThread /\ ~InvokePublish
    <3>1. UNCHANGED <<accepted, executed, hostPc, hostCommand, queue, pending, slot>>
      BY <1>6, <2>3 DEF GuestStep, EnterGate, GuestExit, PostBlocks, PostRefused,
                        WaitForPendingSwaps, InvokeBlocks, InvokeReturn
    <3> QED
      BY <1>2, <3>1 DEF InFlight
  <2> QED
    BY <2>1, <2>2, <2>3
<1>7. CASE HostStep
  <2>1. CASE PumpHostCommands \/ RecoveryRefused
    <3>1. /\ UNCHANGED <<accepted, executed, hostCommand, queue, pending, slot>>
          /\ hostPc = "idle" /\ hostPc' \in {"slot", "drain"}
      BY <2>1 DEF PumpHostCommands, RecoveryRefused, StartPump
    <3> QED
      BY <1>2, <3>1 DEF InFlight
  <2>2. CASE NotifyRoom \/ NotifyCompletion
    <3>1. /\ UNCHANGED <<accepted, executed, hostCommand, queue, pending, slot>>
          /\ hostPc \in {"retired", "notify"} /\ hostPc' \in {"drain", "idle"}
      BY <2>2 DEF NotifyRoom, NotifyCompletion
    <3> QED
      BY <1>2, <3>1 DEF InFlight
  <2>3. CASE DrainAsyncCommands
    <3>1. /\ UNCHANGED <<accepted, executed, pending, slot>> /\ hostPc = "drain"
      BY <2>3 DEF DrainAsyncCommands
    <3>2. CASE queue = <<>>
      <4>1. UNCHANGED <<queue, hostCommand>> /\ hostPc' = "slot"
        BY <2>3, <3>2 DEF DrainAsyncCommands
      <4> QED
        BY <1>2, <3>1, <4>1 DEF InFlight
    <3>3. CASE queue # <<>>
      <4>1. hostCommand' = Head(queue) /\ hostPc' = "async"
        BY <2>3, <3>3 DEF DrainAsyncCommands
      <4>2. queue = <<Head(queue)>>
        <5>1. Len(queue) \in Nat /\ Len(queue) # 0 /\ Len(queue) <= 1
          BY <1>0, <3>3, EmptySeq, LenProperties DEF DefaultInv
        <5>2. Len(queue) = 1
          <6>1. \A n \in Nat : n # 0 /\ n <= 1 => n = 1
            OBVIOUS
          <6> QED
            BY <5>1, <6>1, Zenon
        <5> QED
          BY <1>0, <5>2
      <4>3. InFlight = queue /\ InFlight' = <<Head(queue)>>
        BY <3>1, <3>3, <4>1 DEF InFlight
      <4> QED
        BY <1>2, <3>1, <4>2, <4>3
    <3> QED
      BY <3>2, <3>3
  <2>4. CASE RunAsync
    <3>1. /\ hostPc = "async" /\ hostPc' = "retired"
          /\ executed' = Append(executed, hostCommand)
          /\ UNCHANGED <<accepted, queue, pending, slot>>
      BY <2>4 DEF RunAsync
    <3>2. hostCommand \in Command /\ queue = <<>> /\ ~pending
      BY <3>1 DEF CommandsInv, DefaultInv
    <3>3. InFlight = <<hostCommand>> /\ InFlight' = <<>>
      BY <3>1, <3>2 DEF InFlight
    <3> QED
      BY <1>4, <3>1, <3>2, <3>3
  <2>5. CASE CheckSlot
    <3>1. /\ hostPc = "slot" /\ UNCHANGED <<accepted, executed, queue, pending, slot>>
          /\ IF pending THEN hostCommand' = slot /\ hostPc' = "sync"
                        ELSE hostPc' = "idle" /\ UNCHANGED hostCommand
      BY <2>5 DEF CheckSlot
    <3>2. CASE pending
      <4>1. queue = <<>>
        BY <3>2 DEF DefaultInv
      <4> QED
        BY <1>2, <3>1, <3>2, <4>1 DEF InFlight
    <3>3. CASE ~pending
      BY <1>2, <3>1, <3>3 DEF InFlight
    <3> QED
      BY <3>2, <3>3
  <2>6. CASE RunSync
    <3>1. /\ hostPc = "sync" /\ hostPc' = "ran"
          /\ executed' = Append(executed, hostCommand)
          /\ UNCHANGED <<accepted, queue, pending, slot>>
      BY <2>6 DEF RunSync
    <3>2. hostCommand \in Command /\ queue = <<>>
      BY <3>1 DEF CommandsInv, RendezvousInv, DefaultInv
    <3>3. InFlight = <<hostCommand>> /\ InFlight' = <<>>
      BY <3>1, <3>2 DEF InFlight
    <3> QED
      BY <1>4, <3>1, <3>2, <3>3
  <2>7. CASE PublishCompletion
    <3>1. /\ hostPc = "ran" /\ hostPc' = "notify" /\ ~pending'
          /\ UNCHANGED <<accepted, executed, queue>>
      BY <2>7 DEF PublishCompletion
    <3>2. queue = <<>>
      BY <3>1 DEF RendezvousInv, DefaultInv
    <3> QED
      BY <1>2, <3>1, <3>2 DEF InFlight
  <2> QED
    BY <1>7, <2>1, <2>2, <2>3, <2>4, <2>5, <2>6, <2>7 DEF HostStep
<1>8. CASE EndStep
  <2>1. UNCHANGED <<accepted, executed, hostPc, hostCommand, queue, pending, slot>>
    BY <1>8 DEF EndStep, RequestExit, RecoverGuest, TerminateGuest, ImmediateExit, Close
  <2> QED
    BY <1>2, <2>1 DEF InFlight
<1> QED
  BY <1>5, <1>6, <1>7, <1>8, StepCases

(* Posted gives a sequence of commands. *)
LEMMA PostedType ==
    ASSUME NEW s \in Seq(Command)
    PROVE  Posted(s) \in Seq(Command)
<1> DEFINE n == Len(s)
<1>1. n \in Nat /\ \A i \in 1..n : s[i] \in Command
  BY LenProperties, ElementOfSeq
<1>2. PICK f : IsPostedUpTo(s, n, f) /\ Posted(s) = f[n]
  BY <1>1, PostedIsSolution, Zenon
<1> HIDE DEF n
<1> DEFINE T == {i \in 0..n : f[i] \notin Seq(Command)}
<1>3. T = {}
  <2> SUFFICES ASSUME T # {}
               PROVE  FALSE
    OBVIOUS
  <2>1. T \in SUBSET Nat
    BY <1>1
  <2>2. PICK k \in T : \A j \in T : k <= j
    <3> HIDE DEF T
    <3> QED
      BY <2>1, LeastNatural
  <2>3. k \in 0..n /\ f[k] = Turn(s, f, k)
    BY <1>2, <2>2, Zenon DEF IsPostedUpTo
  <2>4. CASE k = 0
    <3>1. f[k] = <<>>
      BY <2>3, <2>4 DEF Turn
    <3>2. <<>> \in Seq(Command)
      OBVIOUS
    <3> QED
      BY <2>2, <3>1, <3>2, Zenon
  <2>5. CASE k # 0
    <3>1. k - 1 \in 0..n /\ ~(k <= k - 1) /\ k \in 1..n
      BY <1>1, <2>3, <2>5
    <3>2. f[k - 1] \in Seq(Command) /\ s[k] \in Command
      BY <1>1, <2>2, <3>1
    <3>3. Append(f[k - 1], s[k]) \in Seq(Command)
      BY <3>2
    <3> QED
      BY <2>2, <2>3, <2>5, <3>2, <3>3 DEF Turn
  <2> QED
    BY <2>4, <2>5
<1>4. n \in 0..n
  BY <1>1
<1> QED
  BY <1>2, <1>3, <1>4

LEMMA PostedOfRunning ==
    ASSUME NEW pc, NEW c,
           pc \in {"async", "sync"} => c \in Command,
           pc = "async" => IsPosted(c), pc = "sync" => ~IsPosted(c)
    PROVE  Posted(IF pc \in {"async", "sync"} THEN <<c>> ELSE <<>>) =
              IF pc = "async" THEN <<c>> ELSE <<>>
<1>1. CASE pc \notin {"async", "sync"}
  BY <1>1, PostedEmpty
<1>2. CASE pc \in {"async", "sync"}
  <2>1. <<>> \in Seq(Command) /\ Append(<<>>, c) = <<c>>
    BY <1>2
  <2>2. Posted(Append(<<>>, c)) = IF IsPosted(c) THEN Append(<<>>, c) ELSE <<>>
    BY <1>2, <2>1, PostedAppend, PostedEmpty
  <2> QED
    BY <1>2, <2>1, <2>2
<1> QED
  BY <1>1, <1>2

LEMMA PostedNext ==
    ASSUME TypeOK, CommandsInv, CommandsInv', PostedInOrder, [Next]_vars
    PROVE  PostedInOrder'
<1> USE DEF guestVars, slotVars, hostVars, endVars
<1> DEFINE run == IF hostPc = "async" THEN <<hostCommand>> ELSE <<>>
           run2 == IF hostPc' = "async" THEN <<hostCommand'>> ELSE <<>>
           all == Posted(accepted)
           done == Posted(executed)
<1>0. /\ queue \in Seq(Command) /\ all \in Seq(Command) /\ done \in Seq(Command)
      /\ accepted \in Seq(Command) /\ executed \in Seq(Command)
  BY PostedType DEF TypeOK
<1>1. Posted(Running) = run
  BY PostedOfRunning DEF Running, CommandsInv
<1>2. Posted(Running') = run2
  BY PostedOfRunning DEF Running, CommandsInv
<1>3. all = done \o run \o queue
  BY <1>1 DEF PostedInOrder
<1>4. SUFFICES Posted(accepted') = Posted(executed') \o run2 \o queue'
  BY <1>2 DEF PostedInOrder
<1>5. run \in Seq(Command)
  BY DEF CommandsInv
<1>6. ASSUME Posted(accepted') = all, Posted(executed') = done, queue' = queue, run2 = run
      PROVE  Posted(accepted') = Posted(executed') \o run2 \o queue'
  BY <1>3, <1>6, Zenon
<1> HIDE DEF run, run2, all, done
<1>7. CASE UNCHANGED vars
  <2>1. UNCHANGED <<accepted, executed, hostPc, hostCommand, queue>>
    BY <1>7 DEF vars, moving
  <2> QED
    BY <1>6, <2>1 DEF run, run2, all, done
<1>8. CASE GuestStep
  <2>0. UNCHANGED <<executed, hostPc, hostCommand>>
    BY <1>8 DEF GuestStep, EnterGate, GuestExit, PostBlocks, PostRefused, PostToHostThread,
                WaitForPendingSwaps, InvokePublish, InvokeBlocks, InvokeReturn
  <2>1. run2 = run /\ Posted(executed') = done
    BY <2>0 DEF run, run2, done
  <2>2. CASE PostToHostThread
    <3>1. /\ guestPc = "post" /\ accepted' = Append(accepted, guestCommand)
          /\ queue' = Append(queue, guestCommand)
      BY <2>2 DEF PostToHostThread
    <3>2. guestCommand \in Command /\ IsPosted(guestCommand)
      BY <3>1 DEF CommandsInv
    <3>3. Posted(accepted') = Append(all, guestCommand)
      BY <1>0, <3>1, <3>2, PostedAppend DEF all
    <3>4. Append(done \o run \o queue, guestCommand) = done \o run \o Append(queue, guestCommand)
      <4>1. done \o run \in Seq(Command)
        BY <1>0, <1>5, ConcatProperties
      <4> DEFINE first == done \o run
      <4>2. first \in Seq(Command) /\ first \o queue \in Seq(Command) /\ <<guestCommand>> \in Seq(Command)
        BY <1>0, <3>2, <4>1, ConcatProperties
      <4> HIDE DEF first
      <4>3. Append(first \o queue, guestCommand) = (first \o queue) \o <<guestCommand>>
        BY <3>2, <4>2, AppendIsConcat
      <4>4. Append(queue, guestCommand) = queue \o <<guestCommand>>
        BY <1>0, <3>2, AppendIsConcat
      <4>5. (first \o queue) \o <<guestCommand>> = first \o (queue \o <<guestCommand>>)
        BY <1>0, <4>2, ConcatAssociative, SMTT(30)
      <4> QED
        BY <4>3, <4>4, <4>5, Zenon DEF first
    <3> QED
      BY <1>3, <2>1, <3>1, <3>3, <3>4
  <2>3. CASE InvokePublish
    <3>1. guestPc = "invoke" /\ accepted' = Append(accepted, guestCommand) /\ UNCHANGED queue
      BY <2>3 DEF InvokePublish
    <3>2. guestCommand \in Command /\ ~IsPosted(guestCommand)
      BY <3>1 DEF CommandsInv
    <3>3. Posted(accepted') = all
      BY <1>0, <3>1, <3>2, PostedAppend DEF all
    <3> QED
      BY <1>6, <2>1, <3>1, <3>3
  <2>4. CASE ~PostToHostThread /\ ~InvokePublish
    <3>1. UNCHANGED <<accepted, queue>>
      BY <1>8, <2>4 DEF GuestStep, EnterGate, GuestExit, PostBlocks, PostRefused,
                        WaitForPendingSwaps, InvokeBlocks, InvokeReturn
    <3> QED
      BY <1>6, <2>1, <3>1 DEF all
  <2> QED
    BY <2>2, <2>3, <2>4
<1>9. CASE HostStep
  <2>0. UNCHANGED accepted
    BY <1>9 DEF HostStep, PumpHostCommands, RecoveryRefused, DrainAsyncCommands, RunAsync,
                NotifyRoom, CheckSlot, RunSync, PublishCompletion, NotifyCompletion
  <2>1. Posted(accepted') = all
    BY <2>0 DEF all
  <2>2. ASSUME hostPc # "async", hostPc' # "async", UNCHANGED <<executed, queue>>
        PROVE  Posted(accepted') = Posted(executed') \o run2 \o queue'
    BY <1>6, <2>1, <2>2 DEF run, run2, done
  <2>3. CASE PumpHostCommands \/ RecoveryRefused \/ NotifyRoom \/ CheckSlot
             \/ PublishCompletion \/ NotifyCompletion
    BY <2>2, <2>3 DEF PumpHostCommands, RecoveryRefused, NotifyRoom, CheckSlot, StartPump,
                      PublishCompletion, NotifyCompletion
  <2>4. CASE DrainAsyncCommands
    <3>1. CASE queue = <<>>
      BY <2>2, <2>4, <3>1 DEF DrainAsyncCommands
    <3>2. CASE queue # <<>>
      <4>1. /\ hostPc = "drain" /\ hostPc' = "async" /\ UNCHANGED executed
            /\ hostCommand' = Head(queue) /\ queue' = Tail(queue)
        BY <2>4, <3>2 DEF DrainAsyncCommands
      <4>2. run = <<>> /\ run2 = <<Head(queue)>> /\ Posted(executed') = done
        BY <4>1 DEF run, run2, done
      <4>3. done \o <<>> \o queue = done \o <<Head(queue)>> \o Tail(queue)
        <5>1. Head(queue) \in Command /\ Tail(queue) \in Seq(Command)
          BY <1>0, <3>2
        <5>2. queue = <<Head(queue)>> \o Tail(queue)
          BY <1>0, <3>2
        <5>3. done \o <<>> = done
          BY <1>0
        <5>4. (done \o <<Head(queue)>>) \o Tail(queue) = done \o (<<Head(queue)>> \o Tail(queue))
          BY <1>0, <5>1
        <5> QED
          BY <5>2, <5>3, <5>4
      <4> QED
        BY <1>3, <2>1, <4>1, <4>2, <4>3
    <3> QED
      BY <3>1, <3>2
  <2>5. CASE RunAsync
    <3>1. /\ hostPc = "async" /\ hostPc' = "retired" /\ UNCHANGED queue
          /\ executed' = Append(executed, hostCommand)
      BY <2>5 DEF RunAsync
    <3>2. hostCommand \in Command /\ IsPosted(hostCommand)
      BY <3>1 DEF CommandsInv
    <3>3. Posted(executed') = Append(done, hostCommand)
      BY <1>0, <3>1, <3>2, PostedAppend DEF done
    <3>4. run = <<hostCommand>> /\ run2 = <<>>
      BY <3>1 DEF run, run2
    <3>5. done \o <<hostCommand>> = Append(done, hostCommand) \o <<>>
      BY <1>0, <3>2
    <3> QED
      BY <1>3, <2>1, <3>1, <3>3, <3>4, <3>5
  <2>6. CASE RunSync
    <3>1. /\ hostPc = "sync" /\ hostPc' = "ran" /\ UNCHANGED queue
          /\ executed' = Append(executed, hostCommand)
      BY <2>6 DEF RunSync
    <3>2. hostCommand \in Command /\ ~IsPosted(hostCommand)
      BY <3>1 DEF CommandsInv
    <3>3. Posted(executed') = done
      BY <1>0, <3>1, <3>2, PostedAppend DEF done
    <3>4. run2 = run
      BY <3>1 DEF run, run2
    <3> QED
      BY <1>6, <2>1, <3>1, <3>3, <3>4
  <2> QED
    BY <1>9, <2>3, <2>4, <2>5, <2>6 DEF HostStep
<1>10. CASE EndStep
  <2>1. UNCHANGED <<accepted, executed, hostPc, hostCommand, queue>>
    BY <1>10 DEF EndStep, RequestExit, RecoverGuest, TerminateGuest, ImmediateExit, Close
  <2> QED
    BY <1>6, <2>1 DEF run, run2, all, done
<1> QED
  BY <1>7, <1>8, <1>9, <1>10, StepCases

-----------------------------------------------------------------------------
(* The theorems. *)

LEMMA ChannelInit == Init => ChannelInv
<1> SUFFICES ASSUME Init
             PROVE  ChannelInv
  OBVIOUS
<1> USE ChannelAssumption DEF Init
<1>1. TypeOK
  <2>1. <<>> \in Seq(Command) /\ Len(<<>>) = 0
    OBVIOUS
  <2>2. /\ Len(queue) <= Capacity /\ pendingSwaps \in 0..MaxOutstandingSwaps
        /\ attempts \in 0..RecoveryAttempts
    BY <2>1
  <2>3. asyncPresent \in BOOLEAN
    BY Zenon
  <2>4. /\ asleep \in BOOLEAN /\ pending \in BOOLEAN /\ complete \in BOOLEAN
        /\ stopped \in BOOLEAN /\ orphaned \in BOOLEAN /\ overtaken \in BOOLEAN
    BY Zenon
  <2> QED
    BY <2>1, <2>2, <2>3, <2>4, Zenon DEF TypeOK
<1>2. CommandsInv /\ IdsInv
  <2>1. DOMAIN queue = {}
    OBVIOUS
  <2> QED
    BY <2>1 DEF CommandsInv, IdsInv
<1>3. RendezvousInv /\ NoWakeUpLost
  BY DEF RendezvousInv, NoWakeUpLost
<1>4. SwapsInv
  <2>1. OutstandingSwaps = {}
    BY OutstandingIs, RunningIs DEF SwapsOf
  <2>2. 0 <= 2 * MaxOutstandingSwaps /\ 0 <= pendingSwaps + MaxOutstandingSwaps
    OBVIOUS
  <2> QED
    BY <2>1, <2>2, FS_EmptySet DEF SwapsInv
<1>5. DefaultInv
  BY DEF DefaultInv
<1>6. OrderInv
  <2>1. InFlight = <<>>
    BY DEF InFlight
  <2>2. <<>> = <<>> \o <<>>
    OBVIOUS
  <2> QED
    BY <2>1, <2>2 DEF OrderInv
<1>7. PostedInOrder
  <2>1. Running = <<>>
    BY DEF Running
  <2>2. <<>> = <<>> \o <<>> \o <<>>
    OBVIOUS
  <2> QED
    BY <2>1, <2>2, PostedEmpty DEF PostedInOrder
<1> QED
  BY <1>1, <1>2, <1>3, <1>4, <1>5, <1>6, <1>7 DEF ChannelInv

LEMMA ChannelNext == ChannelInv /\ [Next]_vars => ChannelInv'
<1> SUFFICES ASSUME ChannelInv, [Next]_vars
             PROVE  ChannelInv'
  OBVIOUS
<1>1. TypeOK' /\ CommandsInv'
  BY TypeNext, CommandsNext DEF ChannelInv
<1>2. IdsInv' /\ RendezvousInv' /\ NoWakeUpLost'
  BY IdsNext, RendezvousNext, WakeNext DEF ChannelInv
<1>3. SwapsInv' /\ DefaultInv' /\ OrderInv'
  BY SwapsNext, DefaultNext, OrderNext DEF ChannelInv
<1>4. PostedInOrder'
  BY <1>1, PostedNext DEF ChannelInv
<1> QED
  BY <1>1, <1>2, <1>3, <1>4 DEF ChannelInv

(* The inductive invariant holds in every reachable state                  *)
(* (InvokeOnHostThread, PostToHostThread, PumpHostCommands).               *)
THEOREM ChannelInvariant == Spec => []ChannelInv
BY ChannelInit, ChannelNext, PTL DEF Spec

(* The channel's state is well formed, and the unsigned count of pending   *)
(* swaps never goes below zero (PostBufferSwap, Close).                    *)
THEOREM ChannelTypes == Spec => []TypeOK
<1>1. ChannelInv => TypeOK
  BY DEF ChannelInv
<1> QED
  BY <1>1, ChannelInvariant, PTL

(* Posted commands are neither lost, duplicated nor reordered              *)
(* (PostToHostThread, DrainAsyncCommands).                                 *)
THEOREM PostsKeepTheirOrder == Spec => []PostedInOrder
<1>1. ChannelInv => PostedInOrder
  BY DEF ChannelInv
<1> QED
  BY <1>1, ChannelInvariant, PTL

(* No wake-up is lost: a guest asleep on the condition variable whose      *)
(* condition has come true is still to be notified (InvokeOnHostThread,    *)
(* PostToHostThread, DrainAsyncCommands).                                  *)
THEOREM WakeUpsArrive == Spec => []NoWakeUpLost
<1>1. ChannelInv => NoWakeUpLost
  BY DEF ChannelInv
<1> QED
  BY <1>1, ChannelInvariant, PTL

(* In the default mode what the channel has not presented is one swap at   *)
(* most.                                                                   *)
LEMMA DefaultSwaps ==
    ASSUME ChannelInv, ~asyncPresent
    PROVE  /\ Cardinality(OutstandingSwaps) \in {0, 1}
           /\ queue = <<>> /\ hostPc # "async" => Cardinality(OutstandingSwaps) = 0
<1>0. queue \in Seq(Command)
  BY DEF ChannelInv, TypeOK
<1>1. hostPc = "sync" => ~IsSwap(hostCommand)
  BY DEF ChannelInv, CommandsInv, IsPosted, IsSwap
<1>2. CASE hostPc = "async"
  <2>1. queue = <<>>
    BY <1>2 DEF ChannelInv, DefaultInv
  <2>2. DOMAIN queue = {}
    BY <2>1
  <2>3. OutstandingSwaps = {} \/ OutstandingSwaps = {hostCommand}
    BY <1>2, <2>2, OutstandingIs DEF SwapsOf
  <2> QED
    BY <1>2, <2>3, FS_EmptySet, FS_Singleton
<1>3. CASE hostPc # "async" /\ queue = <<>>
  <2>1. DOMAIN queue = {}
    BY <1>3
  <2>2. OutstandingSwaps = {}
    BY <1>1, <1>3, <2>1, OutstandingIs DEF SwapsOf
  <2> QED
    BY <2>2, FS_EmptySet
<1>4. CASE hostPc # "async" /\ queue # <<>>
  <2>1. \A i \in DOMAIN queue : i = 1
    <3>1. Len(queue) \in Nat /\ Len(queue) <= 1 /\ DOMAIN queue = 1..Len(queue)
      BY <1>0, LenProperties DEF ChannelInv, DefaultInv
    <3>2. \A n \in Nat : n <= 1 => \A i \in 1..n : i = 1
      OBVIOUS
    <3> QED
      BY <3>1, <3>2
  <2>2. OutstandingSwaps = {} \/ OutstandingSwaps = {queue[1]}
    BY <1>1, <1>4, <2>1, OutstandingIs DEF SwapsOf
  <2> QED
    BY <1>4, <2>2, FS_EmptySet, FS_Singleton
<1> QED
  BY <1>2, <1>3, <1>4

(* The guest is never further ahead of the display than the bound until a  *)
(* reopened window overtakes a posted swap, which never happens in the     *)
(* default mode, and never further than twice the bound after that         *)
(* (PostToHostThread, OpenWindowed).                                       *)
THEOREM GuestStaysClose == Spec => []OutstandingSwapsBounded
<1>1. ASSUME ChannelInv
      PROVE  OutstandingSwapsBounded
  <2>1. overtaken => asyncPresent
    BY <1>1 DEF ChannelInv, DefaultInv
  <2> QED
    BY <1>1, <2>1 DEF ChannelInv, SwapsInv, OutstandingSwapsBounded, NeverMoreThanAFrameAhead
<1> QED
  BY <1>1, ChannelInvariant, PTL

(* In the default mode the pending count covers every swap not presented,  *)
(* so the gate that waits for it to reach zero waits for the frame         *)
(* (WaitForPendingSwaps).                                                  *)
THEOREM WaitingCoversSwaps == Spec => []PendingSwapsCovered
<1>1. ASSUME ChannelInv
      PROVE  PendingSwapsCovered
  <2> SUFFICES ASSUME ~asyncPresent, ~stopped
               PROVE  pendingSwaps >= Cardinality(OutstandingSwaps)
    BY DEF PendingSwapsCovered
  <2>0. pendingSwaps \in Nat
    BY <1>1 DEF ChannelInv, TypeOK
  <2>1. CASE queue = <<>> /\ hostPc # "async"
    BY <1>1, <2>0, <2>1, DefaultSwaps
  <2>2. CASE ~(queue = <<>> /\ hostPc # "async")
    <3>1. pendingSwaps # 0
      BY <1>1, <2>2 DEF ChannelInv, DefaultInv
    <3>2. Cardinality(OutstandingSwaps) \in {0, 1}
      BY <1>1, DefaultSwaps
    <3> QED
      BY <2>0, <3>1, <3>2
  <2> QED
    BY <2>1, <2>2
<1> QED
  BY <1>1, ChannelInvariant, PTL

(* In the default mode a synchronous command that has completed proves     *)
(* that everything submitted before it has run (InvokeOnHostThread).  With *)
(* the asynchronous present it does not.                                   *)
THEOREM CompletionIsProof == Spec => [](~asyncPresent => CompletionProvesEarlierRan)
<1>1. ASSUME ChannelInv
      PROVE  ~asyncPresent => CompletionProvesEarlierRan
  <2> SUFFICES ASSUME ~asyncPresent, guestPc = "await", complete
               PROVE  executed = accepted
    BY DEF CompletionProvesEarlierRan
  <2>1. ~pending /\ hostPc # "sync"
    BY <1>1 DEF ChannelInv, RendezvousInv
  <2>2. queue = <<>> /\ hostPc # "async"
    BY <1>1 DEF ChannelInv, DefaultInv
  <2>3. InFlight = <<>>
    BY <2>1, <2>2 DEF InFlight
  <2>4. accepted = executed \o <<>> /\ executed \in Seq(Command)
    BY <1>1, <2>3 DEF ChannelInv, OrderInv, TypeOK
  <2> QED
    BY <2>4, ConcatEmptySeq
<1> QED
  BY <1>1, ChannelInvariant, PTL

(* In the default mode the channel implements FIFO execution: every        *)
(* command, posted or published, runs once and in the order of submission  *)
(* (PumpHostCommands).                                                     *)
THEOREM DefaultModeIsFifo == Spec => RunsInSubmissionOrder
<1>1. Init => Fifo!Init
  BY DEF Init, Fifo!Init
<1>2. ASSUME ChannelInv, [Next]_vars
      PROVE  [asyncPresent \/ Fifo!Next]_<<accepted, executed>>
  <2> USE DEF guestVars, slotVars, hostVars, endVars
  <2> SUFFICES ASSUME ~asyncPresent
               PROVE  Fifo!Next \/ UNCHANGED <<accepted, executed>>
    OBVIOUS
  <2>0. /\ TypeOK /\ CommandsInv /\ RendezvousInv /\ DefaultInv
        /\ accepted = executed \o InFlight
        /\ executed \in Seq(Command)
    BY <1>2 DEF ChannelInv, OrderInv, TypeOK
  <2>1. ASSUME accepted' = Append(accepted, guestCommand), guestCommand \in Command,
               UNCHANGED executed
        PROVE  Fifo!Next
    BY <2>1 DEF Fifo!Next, Fifo!Accept
  <2>2. ASSUME executed' = Append(executed, hostCommand), UNCHANGED accepted,
               hostPc \in {"async", "sync"}
        PROVE  Fifo!Next
    <3>1. hostCommand \in Command /\ InFlight = <<hostCommand>>
      BY <2>0, <2>2 DEF CommandsInv, InFlight
    <3>2. accepted = Append(executed, hostCommand)
      BY <2>0, <3>1, AppendIsConcat
    <3>3. /\ Len(executed) \in Nat /\ Len(accepted) = Len(executed) + 1
          /\ accepted[Len(executed) + 1] = hostCommand
      BY <2>0, <3>1, <3>2, AppendProperties, LenProperties
    <3>4. Len(executed) < Len(accepted)
      BY <3>3
    <3> QED
      BY <2>2, <3>3, <3>4 DEF Fifo!Next, Fifo!Execute
  <2>3. CASE UNCHANGED vars
    BY <2>3 DEF vars, moving
  <2>4. CASE GuestStep
    <3>1. CASE PostToHostThread
      BY <2>0, <2>1, <3>1 DEF PostToHostThread, CommandsInv
    <3>2. CASE InvokePublish
      BY <2>0, <2>1, <3>2 DEF InvokePublish, CommandsInv
    <3>3. CASE ~PostToHostThread /\ ~InvokePublish
      BY <2>4, <3>3 DEF GuestStep, EnterGate, GuestExit, PostBlocks, PostRefused,
                        WaitForPendingSwaps, InvokeBlocks, InvokeReturn
    <3> QED
      BY <3>1, <3>2, <3>3
  <2>5. CASE HostStep
    <3>1. CASE RunAsync
      BY <2>2, <3>1 DEF RunAsync
    <3>2. CASE RunSync
      BY <2>2, <3>2 DEF RunSync
    <3>3. CASE ~RunAsync /\ ~RunSync
      BY <2>5, <3>3 DEF HostStep, PumpHostCommands, RecoveryRefused, DrainAsyncCommands,
                        NotifyRoom, CheckSlot, PublishCompletion, NotifyCompletion
    <3> QED
      BY <3>1, <3>2, <3>3
  <2>6. CASE EndStep
    BY <2>6 DEF EndStep, RequestExit, RecoverGuest, TerminateGuest, ImmediateExit, Close
  <2> QED
    BY <1>2, <2>3, <2>4, <2>5, <2>6, StepCases
<1> QED
  BY <1>1, <1>2, ChannelInvariant, PTL DEF Spec, RunsInSubmissionOrder

=============================================================================
