-------------------------- MODULE AotPageCoherence --------------------------
(***************************************************************************)
(* Keeping translated guest code equal to the guest's bytes                *)
(* (aot_page_coherence.cpp, aot_code_cache.cpp, aot_runtime_dispatch.cpp). *)
(* Every page an active translation was made from is write-protected.  A   *)
(* guest store to one faults; the page is opened for that one store, and   *)
(* after it, at the single step, closed again and the translations it hit  *)
(* are retired: a breakpoint replaces their first byte.  Emulated services *)
(* open and close pages themselves.  A transfer to an address without an   *)
(* active translation makes a new generation, on a worker the guest waits  *)
(* for, and links the retired entries of the same address to it.           *)
(*                                                                         *)
(* An entry of the address map is an address in a generation.  A cell is a *)
(* group of guest bytes that is written and translated as a whole.         *)
(***************************************************************************)
EXTENDS Integers, FiniteSets

CONSTANTS
    Pages, Cells, PageOf,   \* numbered pages, and each cell's page
    Instrs, Covers, Home,   \* instruction addresses: their cells, first page
    Long,                   \* each generation's that are at least five bytes
    Images,                 \* sets of instructions one translation may hold
    Ranges,                 \* sets of cells one store may write
    HleRanges,              \* sets of cells one emulated service may write
    MaxGeneration,          \* the code cache has room for so many generations
    FailureCapacity         \* kAotGenerationFailureAddressCapacity

Generations == 1..MaxGeneration

ASSUME AotAssumption ==
    /\ Pages \subseteq Nat /\ IsFiniteSet(Pages)
    /\ PageOf \in [Cells -> Pages]
    /\ Covers \in [Instrs -> (SUBSET Cells) \ {{}}]
    /\ Home \in [Instrs -> Pages]
    /\ \A a \in Instrs : \E c \in Covers[a] : PageOf[c] = Home[a]
    /\ Long \in [Generations -> SUBSET Instrs] /\ Images \subseteq SUBSET Instrs
    /\ Ranges \subseteq (SUBSET Cells) \ {{}} /\ HleRanges \subseteq (SUBSET Cells) \ {{}}
    /\ MaxGeneration \in Nat \ {0} /\ FailureCapacity \in Nat

PagesOf(range) == {PageOf[c] : c \in range}
PageCells(p)   == {c \in Cells : PageOf[c] = p}
Spans(a)       == PagesOf(Covers[a])
First(pages)   == CHOOSE p \in pages : \A q \in pages : p <= q

VARIABLES
    map,            \* the addresses of each generation's entries
    active,         \* those that are active
    slot,           \* an entry's first bytes: its own generation for its code,
                    \* 0 for a breakpoint, else the generation it jumps to
    generation,     \* next_generation
    retired,        \* pages
    quarantined,    \* pages
    watched,        \* AotPageWriteWatchSet.watches
    writable,       \* pages the processor lets the guest write
    failed,         \* AotGenerationFailureAddresses
    pc,             \* run, store, trap (its single step), note, release
    store,          \* the cells the store in flight writes
    pending,        \* the pages it opened
    range,          \* the cells a write is noted for
    visit,          \* the pages not yet looked at for it
    native,         \* it was a store of the guest, not of a service
    terminal,       \* aot_terminal_failure: the guest is stopped
    stale,          \* history: entries in place whose cells were written since
    exposed         \* history: watched pages that a service's store left open

cacheVars == <<map, active, slot, generation>>
pageVars  == <<retired, quarantined, watched, writable>>
noteVars  == <<range, visit, native>>
vars == <<cacheVars, pageVars, failed, pc, store, pending, noteVars, terminal, stale, exposed>>

Empty == [g \in Generations |-> {}]

(* InitializeAotPageCoherence and the first watches: the static image. *)
Init ==
    /\ \E image \in Images :
          /\ map = [Empty EXCEPT ![1] = image] /\ active = map
          /\ slot = [g \in Generations |->
                        [a \in Instrs |-> IF g = 1 /\ a \in image THEN 1 ELSE 0]]
          /\ watched = UNION {Spans(a) : a \in image}
    /\ writable = Pages \ watched
    /\ generation = 2
    /\ retired = {} /\ quarantined = {} /\ failed = {}
    /\ pc = "run" /\ store = {} /\ pending = {}
    /\ range = {} /\ visit = {} /\ native = FALSE
    /\ terminal = FALSE /\ stale = Empty /\ exposed = {}

-----------------------------------------------------------------------------
(* AotGuestRangeHasActiveTranslation. *)
HasActive(cells) == \E g \in Generations : \E a \in active[g] : Covers[a] \cap cells # {}

(* Memory changes under every translation made from it. *)
Written(cells) ==
    stale' = [g \in Generations |->
                 stale[g] \cup {a \in Instrs : slot[g][a] = g /\ Covers[a] \cap cells # {}}]

Running == pc = "run" /\ ~terminal

(* A store to pages that are open goes through and nobody sees it. *)
PlainStore(cells) ==
    /\ Running /\ PagesOf(cells) \subseteq writable
    /\ Written(cells)
    /\ UNCHANGED <<cacheVars, pageVars, failed, pc, store, pending, noteVars, terminal, exposed>>

(* HandleAotGuestCodeWriteFault and BeginAotGuestWrite.  The noted range   *)
(* is the store's from the faulting page on, or the whole page for an      *)
(* instruction whose extent is not known; a store that faults again adds   *)
(* to it.                                                                  *)
WriteFault(cells, p, conservative) ==
    LET noted == IF conservative THEN PageCells(p) ELSE {c \in cells : PageOf[c] >= p}
        opened == PagesOf(noted) \cap watched
    IN  /\ ~terminal
        /\ Running \/ (pc = "store" /\ cells = store)
        /\ p \in PagesOf(cells) \ writable /\ p \in watched
        /\ pc' = "store" /\ store' = cells
        /\ pending' = pending \cup opened /\ writable' = writable \cup opened
        /\ range' = range \cup noted
        /\ UNCHANGED <<cacheVars, retired, quarantined, watched, failed, visit, native,
                       terminal, stale, exposed>>

(* A fault on a page nobody watches is left to the other fault handlers: a *)
(* handler that emulates the instruction is a service that stores          *)
(* (HleStore), and without one the guest is stopped.                       *)
UnwatchedFault(cells, p) ==
    /\ ~terminal
    /\ Running \/ (pc = "store" /\ cells = store)
    /\ p \in PagesOf(cells) \ writable /\ p \notin watched
    /\ terminal' = TRUE
    /\ UNCHANGED <<cacheVars, pageVars, failed, pc, store, pending, noteVars, stale, exposed>>

(* The store is executed again, under the single step flag. *)
StoreRetried ==
    /\ pc = "store" /\ ~terminal /\ PagesOf(store) \subseteq writable
    /\ Written(store) /\ pc' = "trap"
    /\ UNCHANGED <<cacheVars, pageVars, failed, store, pending, noteVars, terminal, exposed>>

(* CompleteAotGuestWrite closes the pages; NoteSuccessfulAotGuestWrite     *)
(* begins.                                                                 *)
WriteCompletion ==
    /\ pc = "trap" /\ ~terminal
    /\ writable' = writable \ pending
    /\ pending' = {} /\ store' = {}
    /\ visit' = PagesOf(range) /\ native' = TRUE /\ pc' = "note"
    /\ UNCHANGED <<cacheVars, retired, quarantined, watched, failed, range, terminal, stale, exposed>>

(* RetireAotGuestPage, by the worker. *)
Retire(p, quarantine) ==
    /\ active' = [g \in Generations |-> {a \in active[g] : p \notin Spans(a)}]
    /\ slot' = [g \in Generations |-> [a \in Instrs |->
                   IF a \in active[g] /\ p \in Spans(a) THEN 0 ELSE slot[g][a]]]
    /\ retired' = retired \cup {p}
    /\ quarantined' = quarantined \cup (IF quarantine THEN {p} ELSE {})
    /\ stale' = [g \in Generations |-> {a \in stale[g] : slot'[g][a] = g}]

(* NoteSuccessfulAotGuestWrite, page by page.  A page that writes its own  *)
(* code over and over is quarantined (ShouldQuarantineWrittenPage).        *)
NotePage(p, quarantine) ==
    /\ pc = "note" /\ ~terminal
    /\ visit # {} /\ p = First(visit) /\ visit' = visit \ {p}
    /\ IF HasActive(range \cap PageCells(p))
         THEN Retire(p, quarantine)
         ELSE UNCHANGED <<active, slot, retired, quarantined, stale>>
    /\ UNCHANGED <<map, generation, watched, writable, failed, pc, store, pending, range,
                   native, terminal, exposed>>

NoteDone ==
    /\ pc = "note" /\ ~terminal /\ visit = {}
    /\ pc' = IF native THEN "release" ELSE "run"
    /\ range' = IF native THEN range ELSE {}
    /\ UNCHANGED <<cacheVars, pageVars, failed, store, pending, visit, native, terminal, stale, exposed>>

(* ReleaseUnneededAotGuestPageWatches; a page it cannot open stays closed. *)
ReleaseWatches(opened) ==
    LET unneeded == {p \in PagesOf(range) \cap watched :
                        ~HasActive(PageCells(p)) /\ p \notin retired \cup quarantined}
    IN  /\ pc = "release" /\ ~terminal
        /\ opened \subseteq unneeded
        /\ watched' = watched \ unneeded /\ writable' = writable \cup opened
        /\ range' = {} /\ pc' = "run"
        /\ UNCHANGED <<cacheVars, retired, quarantined, failed, store, pending, visit,
                       native, terminal, stale, exposed>>

(* WriteGuestUInt8, 16, 32 and WriteGuestBytes: the range is opened, and   *)
(* given the protection its first page had.                                *)
HleStore(cells) ==
    /\ Running
    /\ Written(cells)
    /\ writable' = IF First(PagesOf(cells)) \in writable
                     THEN writable \cup PagesOf(cells) ELSE writable \ PagesOf(cells)
    /\ exposed' = exposed \cup (PagesOf(cells) \cap watched \cap writable')
    /\ range' = cells /\ visit' = PagesOf(cells) /\ native' = FALSE /\ pc' = "note"
    /\ UNCHANGED <<cacheVars, retired, quarantined, watched, failed, store, pending, terminal>>

-----------------------------------------------------------------------------
(* ResolveAotTransferTarget: the guest transfers to an address that has no *)
(* active entry, or comes upon the breakpoint of a retired one.            *)

(* HasAotRetiredGuestAddress, or a retired page. *)
RetiredTarget(target) ==
    \/ Home[target] \in retired
    \/ \E g \in Generations : target \in map[g] \ active[g]

Resolves(target) ==
    /\ Running
    /\ Home[target] \notin quarantined
    /\ \A g \in Generations : target \notin active[g]
    /\ ~(RetiredTarget(target) /\ target \in failed)

(* Mutant: the target may reach into any page. *)
CanActivateTarget(a, target) ==
    a = target \/ Spans(a) \cap (quarantined \cup retired) \subseteq {Home[target]}

(* CanActivateAotAddressMapEntry, and for the target itself Task 417.      *)
CanActivate(a, target) ==
    /\ Spans(a) \cap quarantined = {}
    /\ a = target \/ Spans(a) \cap retired \subseteq {Home[target]}

(* Mutant: only the requested page is watched. *)
InstallWatchesHome(target, pages) ==
    /\ watched' = watched \cup {Home[target]}
    /\ writable' = writable \ ({Home[target]} \ watched)

(* EnsureWriteWatch: a page already watched is not protected again. *)
InstallWatches(target, pages) ==
    /\ watched' = watched \cup pages
    /\ writable' = writable \ (pages \ watched)

(* Mutant: only the last generation's entry is linked. *)
RelinksLast(g, a) == a \in Long[g] /\ g = generation - 1 /\ a \in map[g] \ active[g]

(* A retired entry long enough for a jump is linked to the new one of its  *)
(* address.  The cache is 16 MiB: no displacement is out of reach.         *)
Relinks(g, a) == a \in Long[g] /\ a \in map[g] \ active[g]

(* AppendDynamicAotTranslation: image is what the worker translated from   *)
(* the target on.                                                          *)
Translate(target, image) ==
    LET fresh == {a \in image : CanActivate(a, target)} IN
    /\ Resolves(target) /\ generation \in Generations
    /\ target \in fresh
    /\ InstallWatches(target, UNION {Spans(a) : a \in fresh})
    /\ map' = [map EXCEPT ![generation] = image]
    /\ active' = [active EXCEPT ![generation] = fresh]
    /\ slot' = [g \in Generations |-> [a \in Instrs |->
                   IF a \in fresh /\ g = generation THEN generation
                   ELSE IF a \in fresh /\ Relinks(g, a) THEN generation
                   ELSE slot[g][a]]]
    /\ generation' = generation + 1
    /\ retired' = retired \ {Home[target]}
    /\ UNCHANGED <<quarantined, failed, pc, store, pending, noteVars, terminal, stale, exposed>>

(* Nothing is appended: the bytes do not decode, the entry cannot be       *)
(* active, the cache is full, a watch cannot be installed (some may have   *)
(* been).  A retired target is not tried again; when the list of those is  *)
(* full its page is quarantined.                                           *)
TranslationFails(target, pages) ==
    /\ Resolves(target)
    /\ InstallWatches(target, pages)
    /\ IF ~RetiredTarget(target)
         THEN UNCHANGED <<failed, active, slot, retired, quarantined, stale>>
       ELSE IF Cardinality(failed) < FailureCapacity
         THEN /\ failed' = failed \cup {target}
              /\ UNCHANGED <<active, slot, retired, quarantined, stale>>
         ELSE Retire(Home[target], TRUE) /\ UNCHANGED failed
    /\ UNCHANGED <<map, generation, pc, store, pending, noteVars, terminal, exposed>>

(* A protection cannot be changed, a pending write has too many pages, the *)
(* cache cannot be made executable: the guest is stopped.                  *)
TerminalFailure ==
    /\ ~terminal /\ terminal' = TRUE
    /\ UNCHANGED <<cacheVars, pageVars, failed, pc, store, pending, noteVars, stale, exposed>>

-----------------------------------------------------------------------------
Stores ==
    \/ \E cells \in Ranges :
          \/ PlainStore(cells)
          \/ \E p \in Pages : UnwatchedFault(cells, p)
          \/ \E p \in Pages, conservative \in BOOLEAN : WriteFault(cells, p, conservative)
    \/ StoreRetried \/ WriteCompletion
    \/ \E cells \in HleRanges : HleStore(cells)

Notes ==
    \/ \E p \in Pages, quarantine \in BOOLEAN : NotePage(p, quarantine)
    \/ NoteDone \/ \E opened \in SUBSET Pages : ReleaseWatches(opened)

Transfers ==
    \E target \in Instrs :
        \/ \E image \in Images : Translate(target, image)
        \/ \E pages \in SUBSET Spans(target) : TranslationFails(target, pages)

Next == Stores \/ Notes \/ Transfers \/ TerminalFailure

Spec == Init /\ [][Next]_vars

-----------------------------------------------------------------------------
(* Properties. *)

(* The state stays well formed. *)
TypeOK ==
    /\ map \in [Generations -> SUBSET Instrs] /\ active \in [Generations -> SUBSET Instrs]
    /\ stale \in [Generations -> SUBSET Instrs]
    /\ slot \in [Generations -> [Instrs -> 0..MaxGeneration]]
    /\ generation \in 2..(MaxGeneration + 1)
    /\ retired \subseteq Pages /\ quarantined \subseteq Pages
    /\ watched \subseteq Pages /\ writable \subseteq Pages
    /\ pending \subseteq Pages /\ visit \subseteq Pages /\ failed \subseteq Instrs
    /\ pc \in {"run", "store", "trap", "note", "release"}
    /\ store \subseteq Cells /\ range \subseteq Cells /\ exposed \subseteq Pages
    /\ native \in BOOLEAN /\ terminal \in BOOLEAN

(* Whenever the guest runs, the code an entry starts with was made from    *)
(* the bytes the guest has there now, whatever page the bytes lie on,      *)
(* whether the guest or a service wrote them and in which order pages were *)
(* watched, retired and translated again (NoteSuccessfulAotGuestWrite,     *)
(* RetireAotGuestPage).  Only code that reaches into a page a service's    *)
(* store over a page boundary has left open may be stale: the harm of what *)
(* HleStoreRestores reports does not spread to other pages.                *)
NoStaleCode ==
    Running => \A g \in Generations : \A a \in Instrs :
                  slot[g][a] = g /\ a \in stale[g] => Spans(a) \cap exposed # {}

(* A quarantined page is never executed from the cache again, not even by  *)
(* an instruction that only reaches into it                                *)
(* (CanActivateAotAddressMapEntry, EntrySpansQuarantinedPage).             *)
QuarantineHolds ==
    \A g \in Generations : \A a \in active[g] : Spans(a) \cap quarantined = {}

(* A retired entry that was linked leads in one jump to a later generation *)
(* of its address, or to the breakpoint there: no chain of jumps builds up *)
(* over the generations (AppendDynamicAotTranslation).                     *)
OneJump ==
    \A g \in Generations : \A a \in Instrs :
        LET k == slot[g][a] IN
        k \notin {0, g} => k > g /\ slot[k][a] \in {0, k}

(* A service puts back "exactly what was there"                            *)
(* (guest_memory_access.cpp, WriteGuestUInt32; execution_trampoline.cpp,   *)
(* WriteGuestBytes).                                                       *)
HleStoreRestores == [][(\E cells \in HleRanges : HleStore(cells)) => writable' = writable]_vars

=============================================================================
