----------------------- MODULE AotPageCoherence_proofs -----------------------
(***************************************************************************)
(* Translated code stays equal to the guest's bytes for every layout of    *)
(* pages, cells and instructions, every set of translations and any number *)
(* of generations.  Two invariants carry the argument: one about the       *)
(* address map and the first bytes of its entries, one that follows a      *)
(* store from its fault to the retirement of what it hit.                  *)
(***************************************************************************)
EXTENDS AotPageCoherence, TLAPS

(* An entry starts with its own code exactly while it is active; what is   *)
(* linked is a long entry of an earlier generation that was retired.       *)
SlotsMatch ==
    /\ \A g \in Generations : active[g] \subseteq map[g]
    /\ \A g \in Generations : g >= generation => map[g] = {}
    /\ \A g \in Generations, a \in Instrs :
          /\ slot[g][a] = g <=> a \in active[g]
          /\ slot[g][a] < generation
          /\ slot[g][a] \notin {0, g} => a \in map[g] /\ a \in Long[g]

(* The inductive invariant of the address map. *)
CacheInv == TypeOK /\ SlotsMatch /\ QuarantineHolds /\ OneJump

(* Every page active code was made from is watched, and a watched page is  *)
(* closed unless a store in flight opened it or a service left it open.    *)
WatchesHold ==
    /\ \A g \in Generations : \A a \in active[g] : Spans(a) \subseteq watched
    /\ watched \cap writable \subseteq pending \cup exposed
    /\ pc \notin {"store", "trap"} => pending = {}

(* What a store writes on the pages opened for it is noted. *)
StoreNoted ==
    pc \in {"store", "trap"} => \A c \in store : PageOf[c] \in pending => c \in range

(* The stale code no page left open accounts for. *)
Unexplained(g) == {a \in stale[g] : Spans(a) \cap exposed = {}}

(* Stale code is active code.  There is some, beside what the pages left   *)
(* open account for, only between a store and the end of its note, and the *)
(* pages still to be visited reach all of it.                              *)
StaleNoted ==
    /\ \A g \in Generations : stale[g] \subseteq active[g]
    /\ pc \notin {"trap", "note"} => \A g \in Generations : Unexplained(g) = {}
    /\ pc = "trap" => \A g \in Generations : \A a \in Unexplained(g) :
                         Covers[a] \cap range # {}
    /\ pc = "note" => \A g \in Generations : \A a \in Unexplained(g) :
                         \E c \in Covers[a] \cap range : PageOf[c] \in visit

(* The inductive invariant of the stores. *)
CoherenceInv == CacheInv /\ WatchesHold /\ StoreNoted /\ StaleNoted

-----------------------------------------------------------------------------
(* The address map. *)

(* Facts about the constants that every step uses. *)
LEMMA SpansArePages == \A a \in Instrs : Spans(a) \subseteq Pages
BY AotAssumption DEF Spans, PagesOf

(* The static image satisfies the invariant. *)
LEMMA CacheInit == Init => CacheInv
<1> SUFFICES ASSUME Init
             PROVE  CacheInv
  OBVIOUS
<1>0. MaxGeneration \in Nat \ {0} /\ Images \subseteq SUBSET Instrs
  BY AotAssumption
<1> USE <1>0 DEF Generations
<1>1. PICK image \in Images :
         /\ map = [Empty EXCEPT ![1] = image] /\ active = map
         /\ slot = [g \in Generations |->
                       [a \in Instrs |-> IF g = 1 /\ a \in image THEN 1 ELSE 0]]
         /\ watched = UNION {Spans(a) : a \in image}
  BY DEF Init
<1>2. image \subseteq Instrs /\ watched \subseteq Pages
  BY <1>1, SpansArePages
<1>3. /\ map \in [Generations -> SUBSET Instrs] /\ active = map
      /\ \A g \in Generations : map[g] = IF g = 1 THEN image ELSE {}
  BY <1>1, <1>2 DEF Empty
<1>4. /\ slot \in [Generations -> [Instrs -> 0..MaxGeneration]]
      /\ \A g \in Generations, a \in Instrs :
            slot[g][a] = IF g = 1 /\ a \in image THEN 1 ELSE 0
  BY <1>1, <1>2
<1>5. /\ stale \in [Generations -> SUBSET Instrs] /\ generation = 2
      /\ writable \subseteq Pages /\ quarantined = {}
  BY DEF Init, Empty
<1>6. TypeOK
  <2>1. /\ retired = {} /\ failed = {} /\ pc = "run" /\ store = {} /\ pending = {}
        /\ range = {} /\ visit = {} /\ native = FALSE /\ terminal = FALSE /\ exposed = {}
    BY DEF Init
  <2>2. generation \in 2..(MaxGeneration + 1)
    BY <1>5
  <2>3. active \in [Generations -> SUBSET Instrs]
    BY <1>3
  <2> QED
    BY <1>2, <1>3, <1>4, <1>5, <2>1, <2>2, <2>3 DEF TypeOK
<1>7. SlotsMatch
  <2>1. ASSUME NEW g \in Generations
        PROVE  active[g] \subseteq map[g] /\ (g >= generation => map[g] = {})
    BY <1>3, <1>5
  <2>2. ASSUME NEW g \in Generations, NEW a \in Instrs
        PROVE  /\ slot[g][a] = g <=> a \in active[g]
               /\ slot[g][a] < generation
               /\ slot[g][a] \notin {0, g} => a \in map[g] /\ a \in Long[g]
    BY <1>3, <1>4, <1>5
  <2> QED
    BY <2>1, <2>2, Zenon DEF SlotsMatch
<1>8. QuarantineHolds
  BY <1>5 DEF QuarantineHolds
<1>9. OneJump
  BY <1>4 DEF OneJump
<1> QED
  BY <1>6, <1>7, <1>8, <1>9 DEF CacheInv

(* Retiring a page keeps the address map in order, and what stays active   *)
(* does not reach into the page.                                           *)
LEMMA RetireKeepsCache ==
    ASSUME TypeOK, SlotsMatch, QuarantineHolds, OneJump,
           NEW p \in Pages, NEW quarantine \in BOOLEAN, Retire(p, quarantine),
           UNCHANGED <<map, generation>>
    PROVE  /\ active' \in [Generations -> SUBSET Instrs]
           /\ stale' \in [Generations -> SUBSET Instrs]
           /\ slot' \in [Generations -> [Instrs -> 0..MaxGeneration]]
           /\ retired' \subseteq Pages /\ quarantined' \subseteq Pages
           /\ SlotsMatch' /\ QuarantineHolds' /\ OneJump'
           /\ \A g \in Generations :
                 /\ active'[g] = {a \in active[g] : p \notin Spans(a)}
                 /\ stale'[g] = {a \in stale[g] : slot'[g][a] = g}
<1>0. MaxGeneration \in Nat \ {0} /\ Images \subseteq SUBSET Instrs
  BY AotAssumption
<1> USE <1>0 DEF Generations
<1>1. /\ map \in [Generations -> SUBSET Instrs]
      /\ active \in [Generations -> SUBSET Instrs]
      /\ stale \in [Generations -> SUBSET Instrs]
      /\ slot \in [Generations -> [Instrs -> 0..MaxGeneration]]
      /\ retired \subseteq Pages /\ quarantined \subseteq Pages
      /\ generation \in 2..(MaxGeneration + 1)
  BY DEF TypeOK
<1>2. /\ active' \in [Generations -> SUBSET Instrs]
      /\ \A g \in Generations : active'[g] = {a \in active[g] : p \notin Spans(a)}
  BY <1>1 DEF Retire
<1>3. /\ slot' \in [Generations -> [Instrs -> 0..MaxGeneration]]
      /\ \A g \in Generations, a \in Instrs :
            slot'[g][a] = IF a \in active[g] /\ p \in Spans(a) THEN 0 ELSE slot[g][a]
  BY <1>1 DEF Retire
<1>4. /\ stale' \in [Generations -> SUBSET Instrs]
      /\ \A g \in Generations : stale'[g] = {a \in stale[g] : slot'[g][a] = g}
  BY <1>1 DEF Retire
<1>5. /\ retired' \subseteq Pages /\ quarantined' \subseteq Pages
      /\ quarantined' \subseteq quarantined \cup {p}
  BY <1>1 DEF Retire
<1>6. SlotsMatch'
  <2>1. \A g \in Generations : active'[g] \subseteq map'[g]
    BY <1>1, <1>2 DEF SlotsMatch
  <2>2. \A g \in Generations : g >= generation' => map'[g] = {}
    BY DEF SlotsMatch
  <2>3. ASSUME NEW g \in Generations, NEW a \in Instrs
        PROVE  /\ slot'[g][a] = g <=> a \in active'[g]
               /\ slot'[g][a] < generation'
               /\ slot'[g][a] \notin {0, g} => a \in map'[g] /\ a \in Long[g]
    BY <1>1, <1>2, <1>3 DEF SlotsMatch
  <2> QED
    BY <2>1, <2>2, <2>3, Zenon DEF SlotsMatch
<1>7. QuarantineHolds'
  BY <1>2, <1>5 DEF QuarantineHolds
<1>8. OneJump'
  <2> SUFFICES ASSUME NEW g \in Generations, NEW a \in Instrs, slot'[g][a] \notin {0, g}
               PROVE  slot'[g][a] > g /\ slot'[slot'[g][a]][a] \in {0, slot'[g][a]}
    BY DEF OneJump
  <2>1. slot'[g][a] = slot[g][a]
    BY <1>3
  <2>2. slot[g][a] > g /\ slot[slot[g][a]][a] \in {0, slot[g][a]}
    BY <2>1 DEF OneJump
  <2>3. slot[g][a] \in Generations
    BY <1>1, <2>1
  <2> QED
    BY <1>3, <2>1, <2>2, <2>3
<1> QED
  BY <1>2, <1>3, <1>4, <1>5, <1>6, <1>7, <1>8

(* A new generation keeps it in order: no entry is linked to one that is   *)
(* itself linked on.                                                       *)
LEMMA TranslateKeepsCache ==
    ASSUME CacheInv, NEW target \in Instrs, NEW image \in Images, Translate(target, image)
    PROVE  CacheInv'
<1>0. MaxGeneration \in Nat \ {0} /\ Images \subseteq SUBSET Instrs
  BY AotAssumption
<1> USE <1>0 DEF Generations
<1> DEFINE fresh == {a \in image : CanActivate(a, target)}
<1>1. /\ map \in [Generations -> SUBSET Instrs]
      /\ active \in [Generations -> SUBSET Instrs]
      /\ slot \in [Generations -> [Instrs -> 0..MaxGeneration]]
      /\ watched \subseteq Pages /\ writable \subseteq Pages
      /\ image \subseteq Instrs /\ fresh \subseteq image
      /\ generation \in Generations /\ generation >= 2
  BY DEF CacheInv, TypeOK, Translate
<1>2. /\ map' \in [Generations -> SUBSET Instrs]
      /\ \A g \in Generations : map'[g] = IF g = generation THEN image ELSE map[g]
  BY <1>1 DEF Translate
<1>3. /\ active' \in [Generations -> SUBSET Instrs]
      /\ \A g \in Generations : active'[g] = IF g = generation THEN fresh ELSE active[g]
  BY <1>1 DEF Translate
<1>4. \A g \in Generations, a \in Instrs :
         slot'[g][a] = IF a \in fresh /\ (g = generation \/ Relinks(g, a))
                         THEN generation ELSE slot[g][a]
  BY <1>1 DEF Translate
<1>5. slot' \in [Generations -> [Instrs -> 0..MaxGeneration]]
  BY <1>1 DEF Translate
<1>6. generation' = generation + 1 /\ quarantined' = quarantined
  BY DEF Translate
<1>7. \A a \in fresh : Spans(a) \cap quarantined = {}
  BY DEF CanActivate
<1> HIDE DEF fresh
<1>8. /\ map[generation] = {} /\ active[generation] = {}
      /\ \A g \in Generations, a \in Instrs :
            Relinks(g, a) => g < generation /\ a \in map[g] \ active[g] /\ a \in Long[g]
  BY <1>1 DEF CacheInv, SlotsMatch, Relinks
<1>9. TypeOK'
  <2>1. UNION {Spans(a) : a \in fresh} \subseteq Pages
    BY <1>1, SpansArePages
  <2>2. watched' \subseteq Pages /\ writable' \subseteq Pages
    BY <1>1, <2>1 DEF Translate, InstallWatches, fresh
  <2>3. /\ retired' \subseteq retired /\ quarantined' = quarantined /\ failed' = failed
        /\ pc' = pc /\ store' = store /\ pending' = pending /\ range' = range
        /\ visit' = visit /\ native' = native /\ terminal' = terminal /\ stale' = stale
        /\ exposed' = exposed
    BY DEF Translate, noteVars
  <2> QED
    BY <1>1, <1>2, <1>3, <1>5, <1>6, <2>2, <2>3 DEF CacheInv, TypeOK
<1>10. SlotsMatch'
  <2>1. ASSUME NEW g \in Generations
        PROVE  /\ active'[g] \subseteq map'[g]
               /\ g >= generation' => map'[g] = {}
    <3>1. active[g] \subseteq map[g] /\ (g >= generation => map[g] = {})
      BY DEF CacheInv, SlotsMatch
    <3>2. CASE g = generation
      BY <1>1, <1>2, <1>3, <1>6, <3>2
    <3>3. CASE g # generation
      BY <1>1, <1>2, <1>3, <1>6, <3>1, <3>3
    <3> QED
      BY <3>2, <3>3
  <2>2. ASSUME NEW g \in Generations, NEW a \in Instrs
        PROVE  /\ slot'[g][a] = g <=> a \in active'[g]
               /\ slot'[g][a] < generation'
               /\ slot'[g][a] \notin {0, g} => a \in map'[g] /\ a \in Long[g]
    <3>1. /\ slot[g][a] = g <=> a \in active[g]
          /\ slot[g][a] < generation /\ slot[g][a] \in Nat
          /\ slot[g][a] \notin {0, g} => a \in map[g] /\ a \in Long[g]
      BY <1>1 DEF CacheInv, SlotsMatch
    <3>2. CASE g = generation
      BY <1>1, <1>2, <1>3, <1>4, <1>6, <1>8, <3>1, <3>2
    <3>3. CASE g # generation
      BY <1>1, <1>2, <1>3, <1>4, <1>6, <1>8, <3>1, <3>3
    <3> QED
      BY <3>2, <3>3
  <2> QED
    BY <2>1, <2>2, Zenon DEF SlotsMatch
<1>11. QuarantineHolds'
  BY <1>3, <1>6, <1>7 DEF CacheInv, QuarantineHolds
<1>12. OneJump'
  <2> SUFFICES ASSUME NEW g \in Generations, NEW a \in Instrs, slot'[g][a] \notin {0, g}
               PROVE  slot'[g][a] > g /\ slot'[slot'[g][a]][a] \in {0, slot'[g][a]}
    BY DEF OneJump
  <2>1. CASE a \in fresh /\ (g = generation \/ Relinks(g, a))
    BY <1>1, <1>4, <1>8, <2>1
  <2>2. CASE ~(a \in fresh /\ (g = generation \/ Relinks(g, a)))
    <3>1. slot'[g][a] = slot[g][a]
      BY <1>4, <2>2
    <3> DEFINE k == slot[g][a]
    <3>2. /\ k > g /\ slot[k][a] \in {0, k} /\ k \in Generations
          /\ k < generation /\ a \in map[g] \ active[g] /\ a \in Long[g]
      BY <1>1, <3>1 DEF CacheInv, OneJump, SlotsMatch
    <3>3. a \notin fresh
      BY <2>2, <3>2 DEF Relinks
    <3>4. slot'[k][a] = slot[k][a]
      BY <1>1, <1>4, <1>8, <3>2, <3>3
    <3> QED
      BY <3>1, <3>2, <3>4
  <2> QED
    BY <2>1, <2>2
<1> QED
  BY <1>9, <1>10, <1>11, <1>12 DEF CacheInv

(* A step that leaves the entries and the quarantine alone. *)
LEMMA CacheUntouched ==
    ASSUME CacheInv, TypeOK', UNCHANGED <<cacheVars, quarantined>>
    PROVE  CacheInv'
BY DEF CacheInv, cacheVars, SlotsMatch, QuarantineHolds, OneJump

(* Every step keeps the invariant of the address map. *)
LEMMA CacheNext == CacheInv /\ [Next]_vars => CacheInv'
<1> SUFFICES ASSUME CacheInv, [Next]_vars
             PROVE  CacheInv'
  OBVIOUS
<1> USE DEF cacheVars, pageVars, noteVars
<1>0. TypeOK
  BY DEF CacheInv
<1>1. ASSUME NEW cells \in Ranges, PlainStore(cells)
      PROVE  CacheInv'
  <2>1. stale' \in [Generations -> SUBSET Instrs]
    BY <1>0, <1>1 DEF PlainStore, Written, TypeOK
  <2> QED
    BY <1>0, <1>1, <2>1, CacheUntouched DEF PlainStore, TypeOK
<1>2. ASSUME NEW cells \in Ranges, NEW p \in Pages, UnwatchedFault(cells, p)
      PROVE  CacheInv'
  BY <1>0, <1>2, CacheUntouched DEF UnwatchedFault, TypeOK
<1>3. ASSUME NEW cells \in Ranges, NEW p \in Pages, NEW conservative \in BOOLEAN,
             WriteFault(cells, p, conservative)
      PROVE  CacheInv'
  <2>1. cells \subseteq Cells
    BY AotAssumption
  <2>2. /\ range' \subseteq Cells /\ pending' \subseteq Pages /\ writable' \subseteq Pages
        /\ store' \subseteq Cells /\ pc' = "store"
    BY <1>0, <1>3, <2>1 DEF WriteFault, TypeOK, PageCells
  <2>3. UNCHANGED <<cacheVars, retired, quarantined, watched, failed, visit, native,
                    terminal, stale, exposed>>
    BY <1>3 DEF WriteFault
  <2>4. TypeOK'
    BY <1>0, <2>2, <2>3 DEF TypeOK
  <2> QED
    BY <2>3, <2>4, CacheUntouched
<1>4. CASE StoreRetried
  <2>1. stale' \in [Generations -> SUBSET Instrs]
    BY <1>0, <1>4 DEF StoreRetried, Written, TypeOK
  <2> QED
    BY <1>0, <1>4, <2>1, CacheUntouched DEF StoreRetried, TypeOK
<1>5. CASE WriteCompletion
  <2>1. visit' \subseteq Pages
    BY <1>0, <1>5, AotAssumption DEF WriteCompletion, TypeOK, PagesOf
  <2> QED
    BY <1>0, <1>5, <2>1, CacheUntouched DEF WriteCompletion, TypeOK
<1>6. ASSUME NEW cells \in HleRanges, HleStore(cells)
      PROVE  CacheInv'
  <2>1. cells \subseteq Cells /\ PagesOf(cells) \subseteq Pages
    BY AotAssumption DEF PagesOf
  <2>2. stale' \in [Generations -> SUBSET Instrs]
    BY <1>0, <1>6 DEF HleStore, Written, TypeOK
  <2>3. writable' \subseteq Pages /\ exposed' \subseteq Pages
    BY <1>0, <1>6, <2>1 DEF HleStore, TypeOK
  <2> QED
    BY <1>0, <1>6, <2>1, <2>2, <2>3, CacheUntouched DEF HleStore, TypeOK
<1>7. ASSUME NEW p \in Pages, NEW quarantine \in BOOLEAN, NotePage(p, quarantine)
      PROVE  CacheInv'
  <2>1. /\ UNCHANGED <<map, generation, watched, writable, failed, pc, store, pending,
                       range, native, terminal, exposed>>
        /\ visit' \subseteq visit
    BY <1>7 DEF NotePage
  <2>2. CASE Retire(p, quarantine)
    BY <1>0, <2>1, <2>2, RetireKeepsCache DEF CacheInv, TypeOK
  <2>3. CASE UNCHANGED <<active, slot, retired, quarantined, stale>>
    <3>1. TypeOK'
      BY <1>0, <2>1, <2>3 DEF TypeOK
    <3> QED
      BY <2>1, <2>3, <3>1, CacheUntouched
  <2> QED
    BY <1>7, <2>2, <2>3 DEF NotePage
<1>8. CASE NoteDone
  BY <1>0, <1>8, CacheUntouched DEF NoteDone, TypeOK
<1>9. ASSUME NEW opened \in SUBSET Pages, ReleaseWatches(opened)
      PROVE  CacheInv'
  <2>1. /\ UNCHANGED <<cacheVars, retired, quarantined, failed, store, pending, visit,
                       native, terminal, stale, exposed>>
        /\ watched' \subseteq watched /\ writable' = writable \cup opened
        /\ range' = {} /\ pc' = "run"
    BY <1>9 DEF ReleaseWatches
  <2>2. TypeOK'
    BY <1>0, <2>1 DEF TypeOK
  <2> QED
    BY <2>1, <2>2, CacheUntouched
<1>10. ASSUME NEW target \in Instrs, NEW image \in Images, Translate(target, image)
       PROVE  CacheInv'
  BY <1>10, TranslateKeepsCache
<1>11. ASSUME NEW target \in Instrs, NEW pages \in SUBSET Spans(target),
              TranslationFails(target, pages)
       PROVE  CacheInv'
  <2>1. /\ UNCHANGED <<map, generation, pc, store, pending, noteVars, terminal, exposed>>
        /\ Home[target] \in Pages /\ pages \subseteq Pages
        /\ failed' = failed \/ failed' = failed \cup {target}
    BY <1>11, AotAssumption, SpansArePages DEF TranslationFails
  <2>2. watched' \subseteq Pages /\ writable' \subseteq Pages
    BY <1>0, <1>11, <2>1 DEF TranslationFails, InstallWatches, TypeOK
  <2>3. CASE Retire(Home[target], TRUE)
    <3>1. failed' \subseteq Instrs
      BY <1>0, <2>1 DEF TypeOK
    <3> QED
      BY <1>0, <2>1, <2>2, <2>3, <3>1, RetireKeepsCache DEF CacheInv, TypeOK
  <2>4. CASE UNCHANGED <<active, slot, retired, quarantined, stale>>
    <3>1. TypeOK'
      BY <1>0, <2>1, <2>2, <2>4 DEF TypeOK
    <3> QED
      BY <2>1, <2>4, <3>1, CacheUntouched
  <2> QED
    BY <1>11, <2>3, <2>4 DEF TranslationFails
<1>12. CASE TerminalFailure
  BY <1>0, <1>12, CacheUntouched DEF TerminalFailure, TypeOK
<1>13. CASE UNCHANGED vars
  BY <1>0, <1>13, CacheUntouched DEF vars, TypeOK
<1> QED
  BY <1>1, <1>2, <1>3, <1>4, <1>5, <1>6, <1>7, <1>8, <1>9, <1>10, <1>11, <1>12, <1>13
     DEF Next, Stores, Notes, Transfers

(* The address map is in order in every reachable state, whatever the      *)
(* guest, its services and the translations do.                            *)
THEOREM CacheInvariant == Spec => []CacheInv
<1>1. Init => CacheInv
  BY CacheInit
<1> QED
  BY <1>1, CacheNext, PTL DEF Spec

(* A quarantined page is never executed from the cache again, not even by  *)
(* an instruction that only reaches into it: RetireAotGuestPage takes the  *)
(* active entries of the page away and CanActivateAotAddressMapEntry lets  *)
(* none come back.                                                         *)
THEOREM QuarantineIsKept == Spec => []QuarantineHolds
<1>1. CacheInv => QuarantineHolds
  BY DEF CacheInv
<1> QED
  BY <1>1, CacheInvariant, PTL

(* A retired entry leads in at most one jump to the current one of its     *)
(* address or to a breakpoint, after any number of generations             *)
(* (AppendDynamicAotTranslation).                                          *)
THEOREM LinksAreOneJump == Spec => []OneJump
<1>1. CacheInv => OneJump
  BY DEF CacheInv
<1> QED
  BY <1>1, CacheInvariant, PTL

-----------------------------------------------------------------------------
(* Stores, noted writes and stale code. *)

(* The static image, its pages closed and its code fresh. *)
LEMMA CoherenceInit == Init => CoherenceInv
<1> SUFFICES ASSUME Init
             PROVE  CoherenceInv
  OBVIOUS
<1>1. PICK image \in Images :
         /\ map = [Empty EXCEPT ![1] = image] /\ active = map
         /\ watched = UNION {Spans(a) : a \in image}
  BY DEF Init
<1>2. /\ writable = Pages \ watched /\ pending = {} /\ pc = "run" /\ stale = Empty
  BY DEF Init
<1>3. \A g \in Generations : active[g] \subseteq image
  BY <1>1 DEF Empty
<1>4. WatchesHold
  BY <1>1, <1>2, <1>3 DEF WatchesHold
<1>5. StoreNoted /\ StaleNoted
  BY <1>2 DEF StoreNoted, StaleNoted, Unexplained, Empty
<1> QED
  BY <1>4, <1>5, CacheInit DEF CoherenceInv

(* The code memory changes under is active code. *)
LEMMA WrittenStale ==
    ASSUME CacheInv, NEW cells \in SUBSET Cells, Written(cells)
    PROVE  \A g \in Generations :
              stale'[g] = stale[g] \cup {a \in active[g] : Covers[a] \cap cells # {}}
<1>1. \A g \in Generations : active[g] \subseteq Instrs
  BY DEF CacheInv, TypeOK
<1>2. \A g \in Generations, a \in Instrs : slot[g][a] = g <=> a \in active[g]
  BY DEF CacheInv, SlotsMatch
<1> QED
  BY <1>1, <1>2 DEF Written

(* Active code that has one of its cells written reaches into a watched    *)
(* page.                                                                   *)
LEMMA WrittenIsWatched ==
    ASSUME CacheInv, WatchesHold, NEW g \in Generations, NEW a \in active[g],
           NEW c \in Covers[a]
    PROVE  PageOf[c] \in watched /\ PageOf[c] \in Spans(a)
BY DEF WatchesHold, Spans, PagesOf

(* A store that goes through unnoticed hits no translated code but what    *)
(* reaches into pages left open.                                           *)
LEMMA PlainStoreCoherent ==
    ASSUME CoherenceInv, NEW cells \in SUBSET Cells, PlainStore(cells)
    PROVE  WatchesHold' /\ StoreNoted' /\ StaleNoted'
<1>1. /\ pc = "run" /\ pending = {} /\ watched \cap writable \subseteq exposed
      /\ PagesOf(cells) \subseteq writable
  BY DEF CoherenceInv, WatchesHold, PlainStore, Running
<1>2. UNCHANGED <<cacheVars, pageVars, pc, store, pending, range, visit, exposed>>
  BY DEF PlainStore, noteVars
<1>3. ASSUME NEW g \in Generations, NEW a \in active[g], Covers[a] \cap cells # {}
      PROVE  Spans(a) \cap exposed # {}
  <2>1. PICK c \in Covers[a] : c \in cells
    BY <1>3
  <2>2. PageOf[c] \in writable
    BY <1>1, <2>1 DEF PagesOf
  <2>3. PageOf[c] \in watched /\ PageOf[c] \in Spans(a)
    BY WrittenIsWatched DEF CoherenceInv
  <2> QED
    BY <1>1, <2>2, <2>3
<1>4. \A g \in Generations :
         stale'[g] = stale[g] \cup {a \in active[g] : Covers[a] \cap cells # {}}
  BY WrittenStale DEF CoherenceInv, PlainStore
<1>5. \A g \in Generations : Unexplained(g) = {} /\ stale[g] \subseteq active[g]
  BY <1>1 DEF CoherenceInv, StaleNoted
<1>6. \A g \in Generations : Unexplained(g)' = {} /\ stale'[g] \subseteq active[g]
  BY <1>2, <1>3, <1>4, <1>5 DEF Unexplained
<1>7. StaleNoted'
  BY <1>1, <1>2, <1>6 DEF StaleNoted, cacheVars
<1> QED
  BY <1>2, <1>7 DEF CoherenceInv, WatchesHold, StoreNoted, cacheVars, pageVars

(* A write fault opens only pages it notes the store's cells of. *)
LEMMA WriteFaultCoherent ==
    ASSUME CoherenceInv, NEW cells \in SUBSET Cells, NEW p \in Pages,
           NEW conservative \in BOOLEAN, WriteFault(cells, p, conservative)
    PROVE  WatchesHold' /\ StoreNoted' /\ StaleNoted'
<1> DEFINE noted == IF conservative THEN PageCells(p) ELSE {c \in cells : PageOf[c] >= p}
           opened == PagesOf(noted) \cap watched
<1>1. /\ pc' = "store" /\ store' = cells
      /\ pending' = pending \cup opened /\ writable' = writable \cup opened
      /\ range' = range \cup noted
      /\ UNCHANGED <<active, watched, stale, exposed>>
  BY DEF WriteFault, cacheVars
<1>2. \A c \in cells : PageOf[c] \in opened => c \in noted
  <2> SUFFICES ASSUME NEW c \in cells, PageOf[c] \in opened
               PROVE  c \in noted
    OBVIOUS
  <2>1. PICK d \in noted : PageOf[c] = PageOf[d]
    BY DEF PagesOf
  <2> QED
    BY <2>1 DEF PageCells
<1> HIDE DEF noted, opened
<1>3. \A c \in cells : PageOf[c] \in pending => c \in range
  BY DEF CoherenceInv, WatchesHold, StoreNoted, WriteFault, Running
<1>4. pc \in {"run", "store"}
  BY DEF WriteFault, Running
<1>5. \A g \in Generations : Unexplained(g) = {} /\ stale[g] \subseteq active[g]
  BY <1>4 DEF CoherenceInv, StaleNoted
<1>6. WatchesHold'
  BY <1>1 DEF CoherenceInv, WatchesHold
<1>7. StoreNoted'
  BY <1>1, <1>2, <1>3 DEF StoreNoted
<1>8. StaleNoted'
  BY <1>1, <1>5 DEF StaleNoted, Unexplained
<1> QED
  BY <1>6, <1>7, <1>8

(* The code a store hits is code that is noted, or that a page left open   *)
(* accounts for.                                                           *)
LEMMA StoreRetriedCoherent ==
    ASSUME CoherenceInv, StoreRetried
    PROVE  WatchesHold' /\ StoreNoted' /\ StaleNoted'
<1>1. /\ pc = "store" /\ pc' = "trap" /\ PagesOf(store) \subseteq writable
      /\ UNCHANGED <<active, watched, writable, pending, store, range, visit, exposed>>
      /\ store \subseteq Cells /\ Written(store)
  BY DEF StoreRetried, cacheVars, pageVars, noteVars, CoherenceInv, CacheInv, TypeOK
<1>2. \A g \in Generations : Unexplained(g) = {} /\ stale[g] \subseteq active[g]
  BY <1>1 DEF CoherenceInv, StaleNoted
<1>3. \A g \in Generations :
         stale'[g] = stale[g] \cup {a \in active[g] : Covers[a] \cap store # {}}
  BY <1>1, WrittenStale DEF CoherenceInv
<1>4. ASSUME NEW g \in Generations, NEW a \in Unexplained(g)'
      PROVE  Covers[a] \cap range # {}
  <2>1. Spans(a) \cap exposed = {} /\ a \in stale'[g]
    BY <1>1 DEF Unexplained
  <2>2. a \in active[g] /\ Covers[a] \cap store # {}
    BY <1>2, <1>3, <2>1 DEF Unexplained
  <2>3. PICK c \in Covers[a] : c \in store
    BY <2>2
  <2>4. PageOf[c] \in watched /\ PageOf[c] \in Spans(a)
    BY <2>2, WrittenIsWatched DEF CoherenceInv
  <2>5. PageOf[c] \in pending
    BY <1>1, <2>1, <2>3, <2>4 DEF CoherenceInv, WatchesHold, PagesOf
  <2> QED
    BY <1>1, <2>3, <2>5 DEF CoherenceInv, StoreNoted
<1>5. \A g \in Generations : stale'[g] \subseteq active'[g]
  BY <1>1, <1>2, <1>3
<1>6. StaleNoted'
  BY <1>1, <1>4, <1>5 DEF StaleNoted
<1> QED
  BY <1>1, <1>6 DEF CoherenceInv, WatchesHold, StoreNoted

(* The pages are closed before the note begins, which visits all of them. *)
LEMMA WriteCompletionCoherent ==
    ASSUME CoherenceInv, WriteCompletion
    PROVE  WatchesHold' /\ StoreNoted' /\ StaleNoted'
<1>1. /\ pc = "trap" /\ pc' = "note" /\ writable' = writable \ pending /\ pending' = {}
      /\ visit' = PagesOf(range) /\ UNCHANGED <<active, watched, range, stale, exposed>>
  BY DEF WriteCompletion, cacheVars
<1>2. \A c \in range : PageOf[c] \in visit'
  BY <1>1 DEF PagesOf
<1> QED
  BY <1>1, <1>2 DEF CoherenceInv, WatchesHold, StoreNoted, StaleNoted, Unexplained

(* A service's store notes what it wrote, and a watched page it leaves     *)
(* open is put down as exposed.                                            *)
LEMMA HleStoreCoherent ==
    ASSUME CoherenceInv, NEW cells \in HleRanges, HleStore(cells)
    PROVE  WatchesHold' /\ StoreNoted' /\ StaleNoted'
<1>1. cells \subseteq Cells
  BY AotAssumption
<1>2. /\ pc = "run" /\ pc' = "note" /\ range' = cells /\ visit' = PagesOf(cells)
      /\ UNCHANGED <<active, watched, pending>> /\ Written(cells)
      /\ exposed' = exposed \cup (PagesOf(cells) \cap watched \cap writable')
      /\ writable' \subseteq writable \cup PagesOf(cells)
  BY DEF HleStore, Running, cacheVars
<1>3. \A g \in Generations :
         stale'[g] = stale[g] \cup {a \in active[g] : Covers[a] \cap cells # {}}
  BY <1>1, <1>2, WrittenStale DEF CoherenceInv
<1>4. \A g \in Generations : Unexplained(g) = {} /\ stale[g] \subseteq active[g]
  BY <1>2 DEF CoherenceInv, StaleNoted
<1>5. ASSUME NEW g \in Generations, NEW a \in Unexplained(g)'
      PROVE  \E c \in Covers[a] \cap range' : PageOf[c] \in visit'
  <2>1. a \in stale'[g] /\ Spans(a) \cap exposed = {}
    BY <1>2 DEF Unexplained
  <2>2. Covers[a] \cap cells # {}
    BY <1>3, <1>4, <2>1 DEF Unexplained
  <2> QED
    BY <1>2, <2>2 DEF PagesOf
<1>6. StaleNoted'
  BY <1>2, <1>3, <1>4, <1>5 DEF StaleNoted
<1>7. WatchesHold'
  BY <1>2 DEF CoherenceInv, WatchesHold
<1> QED
  BY <1>2, <1>6, <1>7 DEF StoreNoted

(* A page of the note: what is stale and lies on it is retired. *)
LEMMA NotePageCoherent ==
    ASSUME CoherenceInv, NEW p \in Pages, NEW quarantine \in BOOLEAN,
           NotePage(p, quarantine)
    PROVE  WatchesHold' /\ StoreNoted' /\ StaleNoted'
<1>1. /\ pc = "note" /\ pc' = "note" /\ visit' = visit \ {p}
      /\ UNCHANGED <<map, generation, watched, writable, pending, range, exposed>>
  BY DEF NotePage
<1>2. /\ \A g \in Generations : stale[g] \subseteq active[g]
      /\ \A g \in Generations : \A a \in Unexplained(g) :
            \E c \in Covers[a] \cap range : PageOf[c] \in visit
  BY <1>1 DEF CoherenceInv, StaleNoted
<1>3. range \subseteq Cells /\ slot \in [Generations -> [Instrs -> 0..MaxGeneration]]
      /\ active \in [Generations -> SUBSET Instrs]
  BY DEF CoherenceInv, CacheInv, TypeOK
<1>4. CASE Retire(p, quarantine)
  <2>1. /\ \A g \in Generations : active'[g] = {a \in active[g] : p \notin Spans(a)}
        /\ \A g \in Generations : stale'[g] = {a \in stale[g] : slot'[g][a] = g}
        /\ SlotsMatch'
    BY <1>1, <1>4, RetireKeepsCache DEF CoherenceInv, CacheInv
  <2>2. \A g \in Generations : stale'[g] \subseteq active'[g]
    BY <1>2, <1>3, <2>1 DEF SlotsMatch
  <2>3. ASSUME NEW g \in Generations, NEW a \in Unexplained(g)'
        PROVE  \E c \in Covers[a] \cap range : PageOf[c] \in visit'
    <3>1. a \in Unexplained(g) /\ p \notin Spans(a)
      BY <1>1, <2>1, <2>2 DEF Unexplained
    <3>2. PICK c \in Covers[a] \cap range : PageOf[c] \in visit
      BY <1>2, <3>1
    <3>3. PageOf[c] # p
      BY <3>1, <3>2 DEF Spans, PagesOf
    <3> QED
      BY <1>1, <3>2, <3>3
  <2>4. StaleNoted'
    BY <1>1, <2>2, <2>3 DEF StaleNoted
  <2> QED
    BY <1>1, <2>1, <2>4 DEF CoherenceInv, WatchesHold, StoreNoted
<1>5. CASE ~HasActive(range \cap PageCells(p)) /\ UNCHANGED <<active, stale>>
  <2>1. ASSUME NEW g \in Generations, NEW a \in Unexplained(g)
        PROVE  \E c \in Covers[a] \cap range : PageOf[c] \in visit'
    <3>1. PICK c \in Covers[a] \cap range : PageOf[c] \in visit
      BY <1>2
    <3>2. c \notin PageCells(p)
      BY <1>2, <1>5, <3>1 DEF HasActive, Unexplained
    <3>3. PageOf[c] # p
      BY <1>3, <3>1, <3>2 DEF PageCells
    <3> QED
      BY <1>1, <3>1, <3>3
  <2>2. StaleNoted'
    BY <1>1, <1>2, <1>5, <2>1 DEF StaleNoted, Unexplained
  <2> QED
    BY <1>1, <1>5, <2>2 DEF CoherenceInv, WatchesHold, StoreNoted
<1> QED
  BY <1>4, <1>5 DEF NotePage

(* When the last page has been visited nothing is stale unaccounted for. *)
LEMMA NoteDoneCoherent ==
    ASSUME CoherenceInv, NoteDone
    PROVE  WatchesHold' /\ StoreNoted' /\ StaleNoted'
<1>1. /\ pc = "note" /\ visit = {} /\ pc' \in {"run", "release"}
      /\ UNCHANGED <<active, watched, writable, pending, stale, exposed>>
  BY DEF NoteDone, cacheVars, pageVars
<1>2. \A g \in Generations : Unexplained(g) = {}
  BY <1>1 DEF CoherenceInv, StaleNoted
<1> QED
  BY <1>1, <1>2 DEF CoherenceInv, WatchesHold, StoreNoted, StaleNoted, Unexplained

(* A watch is released only from pages without active code. *)
LEMMA ReleaseCoherent ==
    ASSUME CoherenceInv, NEW opened \in SUBSET Pages, ReleaseWatches(opened)
    PROVE  WatchesHold' /\ StoreNoted' /\ StaleNoted'
<1> DEFINE unneeded == {p \in PagesOf(range) \cap watched :
                           ~HasActive(PageCells(p)) /\ p \notin retired \cup quarantined}
<1>1. /\ pc = "release" /\ pc' = "run" /\ opened \subseteq unneeded
      /\ watched' = watched \ unneeded /\ writable' = writable \cup opened
      /\ UNCHANGED <<active, pending, stale, exposed>>
  BY DEF ReleaseWatches, cacheVars
<1>2. ASSUME NEW g \in Generations, NEW a \in active[g], NEW p \in Spans(a)
      PROVE  p \notin unneeded
  <2>1. a \in Instrs
    BY DEF CoherenceInv, CacheInv, TypeOK
  <2>2. PICK c \in Covers[a] : p = PageOf[c]
    BY DEF Spans, PagesOf
  <2>3. c \in PageCells(p)
    BY <2>1, <2>2, AotAssumption DEF PageCells
  <2> QED
    BY <2>2, <2>3 DEF HasActive
<1> HIDE DEF unneeded
<1>3. WatchesHold'
  BY <1>1, <1>2 DEF CoherenceInv, WatchesHold
<1> QED
  BY <1>1, <1>3 DEF CoherenceInv, StoreNoted, StaleNoted, Unexplained

(* A new generation is made of the bytes as they are, and its pages are    *)
(* watched and closed before it runs.                                      *)
LEMMA TranslateCoherent ==
    ASSUME CoherenceInv, NEW target \in Instrs, NEW image \in Images,
           Translate(target, image)
    PROVE  WatchesHold' /\ StoreNoted' /\ StaleNoted'
<1> DEFINE fresh == {a \in image : CanActivate(a, target)}
           pages == UNION {Spans(a) : a \in fresh}
<1>1. /\ pc = "run" /\ UNCHANGED <<pc, pending, stale, exposed>>
      /\ watched' = watched \cup pages /\ writable' = writable \ (pages \ watched)
  <2>1. Resolves(target) /\ UNCHANGED <<pc, pending, stale, exposed>>
    BY DEF Translate
  <2>2. InstallWatches(target, pages)
    BY Zenon DEF Translate
  <2> QED
    BY <2>1, <2>2, Zenon DEF Resolves, Running, InstallWatches
<1>2. \A g \in Generations : active[g] \subseteq active'[g]
                              /\ active'[g] \subseteq active[g] \cup fresh
  <2>1. active' = [active EXCEPT ![generation] = fresh] /\ generation \in Generations
    BY DEF Translate
  <2>2. active \in [Generations -> SUBSET Instrs] /\ active[generation] = {}
    BY <2>1 DEF CoherenceInv, CacheInv, TypeOK, SlotsMatch, Generations
  <2> QED
    BY <2>1, <2>2
<1> HIDE DEF fresh
<1>3. WatchesHold'
  <2>1. \A a \in fresh : Spans(a) \subseteq pages
    OBVIOUS
  <2> HIDE DEF pages
  <2>2. ASSUME NEW g \in Generations, NEW a \in active'[g]
        PROVE  Spans(a) \subseteq watched'
    BY <1>1, <1>2, <2>1 DEF CoherenceInv, WatchesHold
  <2> QED
    BY <1>1, <2>2 DEF CoherenceInv, WatchesHold
<1> QED
  BY <1>1, <1>2, <1>3 DEF CoherenceInv, StoreNoted, StaleNoted, Unexplained

(* A translation that fails leaves watches, and at most retires. *)
LEMMA TranslationFailsCoherent ==
    ASSUME CoherenceInv, NEW target \in Instrs, NEW pages \in SUBSET Spans(target),
           TranslationFails(target, pages)
    PROVE  WatchesHold' /\ StoreNoted' /\ StaleNoted'
<1>1. /\ pc = "run" /\ UNCHANGED <<map, generation, pc, pending, exposed>>
      /\ watched' = watched \cup pages /\ writable' = writable \ (pages \ watched)
      /\ Home[target] \in Pages
  BY AotAssumption DEF TranslationFails, Resolves, Running, InstallWatches
<1>2. \A g \in Generations : Unexplained(g) = {} /\ stale[g] \subseteq active[g]
  BY <1>1 DEF CoherenceInv, StaleNoted
<1>3. /\ \A g \in Generations : active'[g] \subseteq active[g]
      /\ \A g \in Generations : stale'[g] \subseteq stale[g]
      /\ \A g \in Generations : stale'[g] \subseteq active'[g]
  <2>1. CASE Retire(Home[target], TRUE)
    <3>1. /\ \A g \in Generations : active'[g] = {a \in active[g] : Home[target] \notin Spans(a)}
          /\ \A g \in Generations : stale'[g] = {a \in stale[g] : slot'[g][a] = g}
          /\ SlotsMatch'
      BY <1>1, <2>1, RetireKeepsCache DEF CoherenceInv, CacheInv
    <3>2. active \in [Generations -> SUBSET Instrs]
      BY DEF CoherenceInv, CacheInv, TypeOK
    <3> QED
      BY <1>2, <3>1, <3>2 DEF SlotsMatch
  <2>2. CASE UNCHANGED <<active, stale>>
    BY <1>2, <2>2
  <2> QED
    BY <2>1, <2>2 DEF TranslationFails
<1>4. WatchesHold'
  BY <1>1, <1>3 DEF CoherenceInv, WatchesHold
<1>5. StaleNoted'
  BY <1>1, <1>2, <1>3 DEF StaleNoted, Unexplained
<1> QED
  BY <1>1, <1>4, <1>5 DEF StoreNoted

(* Every step keeps the invariant of the stores. *)
LEMMA CoherenceNext == CoherenceInv /\ [Next]_vars => CoherenceInv'
<1> SUFFICES ASSUME CoherenceInv, [Next]_vars
             PROVE  WatchesHold' /\ StoreNoted' /\ StaleNoted'
  BY CacheNext DEF CoherenceInv
<1>0. \A cells \in Ranges : cells \subseteq Cells
  BY AotAssumption
<1>1. ASSUME NEW cells \in Ranges, PlainStore(cells)
      PROVE  WatchesHold' /\ StoreNoted' /\ StaleNoted'
  BY <1>0, <1>1, PlainStoreCoherent
<1>2. ASSUME NEW cells \in Ranges, NEW p \in Pages, UnwatchedFault(cells, p)
      PROVE  WatchesHold' /\ StoreNoted' /\ StaleNoted'
  BY <1>2 DEF UnwatchedFault, CoherenceInv, WatchesHold, StoreNoted, StaleNoted, Unexplained,
              cacheVars, pageVars, noteVars
<1>3. ASSUME NEW cells \in Ranges, NEW p \in Pages, NEW conservative \in BOOLEAN,
             WriteFault(cells, p, conservative)
      PROVE  WatchesHold' /\ StoreNoted' /\ StaleNoted'
  BY <1>0, <1>3, WriteFaultCoherent
<1>4. CASE StoreRetried
  BY <1>4, StoreRetriedCoherent
<1>5. CASE WriteCompletion
  BY <1>5, WriteCompletionCoherent
<1>6. ASSUME NEW cells \in HleRanges, HleStore(cells)
      PROVE  WatchesHold' /\ StoreNoted' /\ StaleNoted'
  BY <1>6, HleStoreCoherent
<1>7. ASSUME NEW p \in Pages, NEW quarantine \in BOOLEAN, NotePage(p, quarantine)
      PROVE  WatchesHold' /\ StoreNoted' /\ StaleNoted'
  BY <1>7, NotePageCoherent
<1>8. CASE NoteDone
  BY <1>8, NoteDoneCoherent
<1>9. ASSUME NEW opened \in SUBSET Pages, ReleaseWatches(opened)
      PROVE  WatchesHold' /\ StoreNoted' /\ StaleNoted'
  BY <1>9, ReleaseCoherent
<1>10. ASSUME NEW target \in Instrs, NEW image \in Images, Translate(target, image)
       PROVE  WatchesHold' /\ StoreNoted' /\ StaleNoted'
  BY <1>10, TranslateCoherent
<1>11. ASSUME NEW target \in Instrs, NEW pages \in SUBSET Spans(target),
              TranslationFails(target, pages)
       PROVE  WatchesHold' /\ StoreNoted' /\ StaleNoted'
  BY <1>11, TranslationFailsCoherent
<1>12. CASE TerminalFailure
  BY <1>12 DEF TerminalFailure, CoherenceInv, WatchesHold, StoreNoted, StaleNoted, Unexplained,
               cacheVars, pageVars, noteVars
<1>13. CASE UNCHANGED vars
  BY <1>13 DEF vars, CoherenceInv, WatchesHold, StoreNoted, StaleNoted, Unexplained,
               cacheVars, pageVars, noteVars
<1> QED
  BY <1>1, <1>2, <1>3, <1>4, <1>5, <1>6, <1>7, <1>8, <1>9, <1>10, <1>11, <1>12, <1>13
     DEF Next, Stores, Notes, Transfers

(* Whenever the guest runs, every piece of code in the cache was made from *)
(* the bytes the guest has there now, for any layout of code over pages,   *)
(* any ranges written by the guest and by services and any order of        *)
(* stores, notes, retirements and translations                             *)
(* (NoteSuccessfulAotGuestWrite, RetireAotGuestPage), except for code that *)
(* reaches into a watched page which a service's store left open.          *)
THEOREM CodeIsFresh == Spec => []NoStaleCode
<1>1. Init => CoherenceInv
  BY CoherenceInit
<1>2. CoherenceInv /\ [Next]_vars => CoherenceInv'
  BY CoherenceNext
<1>3. CoherenceInv => NoStaleCode
  BY DEF CoherenceInv, StaleNoted, Unexplained, NoStaleCode, Running
<1> QED
  BY <1>1, <1>2, <1>3, PTL DEF Spec

=============================================================================
