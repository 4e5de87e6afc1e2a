------------------------------ MODULE Surface -------------------------------
(***************************************************************************)
(* Surfaces on top of the buffer manager: create, reference, map, unmap    *)
(* and destroy of src/src/tbm_surface_internal.c, composed with BufMgr.    *)
(*                                                                         *)
(* Each function holds tbm_surface_lock and calls the buffer manager, so   *)
(* it is one step, except tbm_surface_internal_get_info with map: it drops *)
(* the lock around every tbm_bo_map, which itself drops its lock around    *)
(* the backend's bo_lock.                                                  *)
(***************************************************************************)
EXTENDS BufMgr, Sequences, SequencesExt

CONSTANTS
    MaxBos,           \* bound: bos of a surface (at most 4 in the code)
    MaxSurfRef,       \* bound: references of a thread to a surface
    SurfaceBoAlloc    \* the backend has its own surface_bo_alloc

ASSUME SurfaceAssumption ==
    /\ MaxBos \in 1 .. 4 /\ MaxSurfRef \in Nat
    /\ SurfaceBoAlloc \in BOOLEAN

VARIABLES
    surfs,      \* surf_list: the live surfaces, with their refcnt and bos
    surfMgr,    \* g_surface_bufmgr is set
    srefs,      \* the references each thread holds to each surface
    smaps,      \* how often each thread has each surface mapped
    mapping     \* the surface a thread is mapping, and its next bo

surfVars == <<surfs, surfMgr, srefs, smaps, mapping>>
vars == <<bufmgrVars, surfVars>>

LiveSurfs == DOMAIN surfs
NoSurfs == [t \in Thread |-> [s \in Surf |-> 0]]
NotMapping == [surf |-> NULL, i |-> 0]

SurfaceInit ==
    /\ BufMgrInit
    /\ surfs = <<>>
    /\ surfMgr = FALSE
    /\ srefs = NoSurfs
    /\ smaps = NoSurfs
    /\ mapping = [t \in Thread |-> NotMapping]

\* A thread that is in no call.
Ready(t) == pc[t] = "idle" /\ mapping[t] = NotMapping
-----------------------------------------------------------------------------
(* Creating surfaces.                                                      *)

\* The first surface, or the first question for formats, initialises the
\* manager.
WithManager == IF surfMgr THEN m ELSE MgrInit(m)

\* Mutant: no bo of a surface is counted.
SurfaceBoUncounted(mgr, b, p) == [mgr EXCEPT !.bos = Link(@, b, NewBo(p))]

\* One bo of a new surface: the backend's surface_bo_alloc bypasses
\* tbm_bo_alloc, which counts bos.
SurfaceBo(mgr, b, p) ==
    IF SurfaceBoAlloc THEN [mgr EXCEPT !.bos = Link(@, b, NewBo(p))]
                      ELSE BoAlloc(mgr, b, p)

SetSurface(mgr, b, s) == [mgr EXCEPT !.bos[b].surface = s]

UnrefAll(mgr, bs) == FoldLeft(BoUnref, mgr, bs)

\* The manager after bos bs with backend objects ps are allocated for s.
AllocAll(mgr, s, bs, ps) ==
    LET One(x, i) == SetSurface(SurfaceBo(x, bs[i], ps[i]), bs[i], s)
    IN  FoldLeft(One, mgr, [i \in 1 .. Len(bs) |-> i])

\* Mutant: the manager stays.
UndoKeepsManager(mgr) == mgr

\* The manager after a creation failed: it goes if it came for this surface.
Undo(mgr) == IF surfMgr THEN mgr ELSE MgrDeinit(mgr)

\* s is the address of a surface that t creates.
MayCreate(t, s) ==
    Ready(t) /\ s \notin LiveSurfs /\ Cardinality(LiveSurfs) < Bound.surfs

Distinct(seq) == \A i, j \in 1 .. Len(seq) : seq[i] = seq[j] => i = j

Fresh(bs, ps) ==
    /\ Distinct(bs) /\ Distinct(ps)
    /\ \A i \in 1 .. Len(bs) : bs[i] \notin Live /\ ps[i] \notin PrivsInUse(m)

NewSurface(t, s, bs) ==
    /\ surfs' = Link(surfs, s, [refcnt |-> 1, bos |-> bs])
    /\ surfMgr' = TRUE
    /\ srefs' = [srefs EXCEPT ![t][s] = @ + 1]
    /\ UNCHANGED <<smaps, mapping, clients, pc, arg>>

\* tbm_surface_internal_create_with_flags
CreateWithFlags(t, s, bs, ps) ==
    /\ MayCreate(t, s) /\ Fresh(bs, ps)
    /\ m' = AllocAll(WithManager, s, bs, ps)
    /\ NewSurface(t, s, bs)

\* An allocation fails after the bos bs were made.
CreateWithFlagsFails(t, s, bs, ps) ==
    /\ MayCreate(t, s) /\ Fresh(bs, ps)
    /\ m' = Undo(UnrefAll(AllocAll(WithManager, s, bs, ps), bs))
    /\ Forget(m')
    /\ UNCHANGED <<inits, pc, arg, surfVars>>

\* The manager after s has taken its references to bs.
RefAll(mgr, s, bs) ==
    LET One(x, b) == SetSurface(BoRef(x, b), b, s)
    IN  FoldLeft(One, mgr, bs)

OwnBos(t, bs) == \A i \in 1 .. Len(bs) : refs[t][bs[i]] > 0

\* tbm_surface_internal_create_with_bos
CreateWithBos(t, s, bs) ==
    /\ MayCreate(t, s) /\ OwnBos(t, bs)
    /\ m' = RefAll(WithManager, s, bs)
    /\ NewSurface(t, s, bs)

\* A NULL follows bs in the array: the references are given back, the back
\* pointers stay.
CreateWithBosFails(t, s, bs) ==
    /\ MayCreate(t, s) /\ OwnBos(t, bs) /\ Bound.null_bos
    /\ m' = Undo(UnrefAll(RefAll(WithManager, s, bs), bs))
    /\ Forget(m')
    /\ UNCHANGED <<inits, pc, arg, surfVars>>

\* tbm_surface_internal_query_supported_formats: the manager it initialises
\* stays, with or without a surface.
QueryFormats(t) ==
    /\ Ready(t)
    /\ m' = WithManager
    /\ surfMgr' = TRUE
    /\ UNCHANGED <<clients, pc, arg, surfs, srefs, smaps, mapping>>

\* The backend has no such function, or it fails.
QueryFormatsFails(t) ==
    /\ Ready(t)
    /\ m' = Undo(WithManager)
    /\ Forget(m')
    /\ UNCHANGED <<inits, pc, arg, surfVars>>
-----------------------------------------------------------------------------
SurfHolds(t, s) == Ready(t) /\ srefs[t][s] > 0

\* Mutant: the reference is not counted.
SurfRefUncounted(t, s) ==
    /\ Ready(t) /\ srefs[t][s] < MaxSurfRef
    /\ \E u \in Thread : srefs[u][s] > 0
    /\ srefs' = [srefs EXCEPT ![t][s] = @ + 1]
    /\ UNCHANGED <<bufmgrVars, surfs, surfMgr, smaps, mapping>>

\* tbm_surface_internal_ref by a thread that was handed the surface.
SurfRef(t, s) ==
    /\ Ready(t) /\ srefs[t][s] < MaxSurfRef
    /\ \E u \in Thread : srefs[u][s] > 0
    /\ surfs' = [surfs EXCEPT ![s].refcnt = @ + 1]
    /\ srefs' = [srefs EXCEPT ![t][s] = @ + 1]
    /\ UNCHANGED <<bufmgrVars, surfMgr, smaps, mapping>>

\* Mutant: the references of the surface stay.
DropBosLeaks(mgr, bs) ==
    LET One(x, b) == SetSurface(x, b, NULL)
    IN  FoldLeft(One, mgr, bs)

\* Mutant: the back pointers stay.
DropBosDangling(mgr, bs) == UnrefAll(mgr, bs)

\* The manager after _tbm_surface_internal_destroy let go of the bos.
DropBos(mgr, bs) ==
    LET One(x, b) == BoUnref(SetSurface(x, b, NULL), b)
    IN  FoldLeft(One, mgr, bs)

\* _tbm_surface_internal_destroy: the last surface lets the manager go.
DestroySurface(s) ==
    LET mgr == DropBos(m, surfs[s].bos)
    IN  /\ surfs' = Unlink(surfs, s)
        /\ surfMgr' = (LiveSurfs # {s})
        /\ m' = IF LiveSurfs = {s} THEN MgrDeinit(mgr) ELSE mgr
        /\ Forget(m')
        /\ UNCHANGED <<inits, pc, arg>>

\* tbm_surface_internal_unref and tbm_surface_internal_destroy, of a surface
\* that the thread has unmapped.
SurfUnref(t, s) ==
    /\ SurfHolds(t, s) /\ (smaps[t][s] = 0 \/ srefs[t][s] > 1)
    /\ srefs' = [srefs EXCEPT ![t][s] = @ - 1]
    /\ IF surfs[s].refcnt > 1
       THEN /\ surfs' = [surfs EXCEPT ![s].refcnt = @ - 1]
            /\ UNCHANGED <<bufmgrVars, surfMgr>>
       ELSE DestroySurface(s)
    /\ UNCHANGED <<smaps, mapping>>
-----------------------------------------------------------------------------
(* tbm_surface_internal_get_info with map = 1.                             *)

SurfMap(t, s) ==
    /\ SurfHolds(t, s) /\ smaps[t][s] < MaxMap /\ MayMap
    /\ mapping' = [mapping EXCEPT ![t] = [surf |-> s, i |-> 1]]
    /\ UNCHANGED <<bufmgrVars, surfs, surfMgr, srefs, smaps>>

MapBo(t) == surfs[mapping[t].surf].bos[mapping[t].i]

\* The bos mapped so far by the call that t is in.
MappedSoFar(t) ==
    SubSeq(surfs[mapping[t].surf].bos, 1, mapping[t].i - 1)

\* The bo at hand is mapped: go on to the next, or return 1.
Mapped(t, mgr) ==
    LET s == mapping[t].surf
        b == MapBo(t)
    IN  /\ m' = [mgr EXCEPT !.bos[b].map_cnt = @ + 1]
        /\ IF mapping[t].i = Len(surfs[s].bos)
           THEN /\ mapping' = [mapping EXCEPT ![t] = NotMapping]
                /\ smaps' = [smaps EXCEPT ![t][s] = @ + 1]
           ELSE /\ mapping' = [mapping EXCEPT ![t].i = @ + 1]
                /\ smaps' = smaps

\* Mutant: the earlier ones stay mapped.
NotMappedKeeps(t, mgr) ==
    /\ m' = mgr
    /\ mapping' = [mapping EXCEPT ![t] = NotMapping]
    /\ smaps' = smaps

\* It is not: unmap the earlier ones and return 0.
NotMapped(t, mgr) ==
    /\ m' = FoldLeft(BoUnmap, mgr, MappedSoFar(t))
    /\ mapping' = [mapping EXCEPT ![t] = NotMapping]
    /\ smaps' = smaps

\* The next bo, if no backend lock is needed for it.
SurfMapBo(t) ==
    /\ mapping[t] # NotMapping /\ pc[t] = "idle" /\ ~NeedsLock(m, MapBo(t))
    /\ Mapped(t, m) \/ NotMapped(t, BoUnlock(m, MapBo(t)))
    /\ UNCHANGED <<clients, pc, arg, surfs, surfMgr, srefs>>

SurfMapLock(t) ==
    /\ mapping[t] # NotMapping /\ pc[t] = "idle" /\ NeedsLock(m, MapBo(t))
    /\ pc' = [pc EXCEPT ![t] = "lock"]
    /\ arg' = [arg EXCEPT ![t] = MapBo(t)]
    /\ UNCHANGED <<m, clients, surfVars>>

SurfBackendLock(t) ==
    /\ mapping[t] # NotMapping /\ pc[t] = "lock"
    /\ \/ /\ pc' = [pc EXCEPT ![t] = "locked"]
          /\ m' = [m EXCEPT !.held[m.bos[arg[t]].priv] = @ + 1]
          /\ UNCHANGED <<smaps, mapping>>
       \/ pc' = [pc EXCEPT ![t] = "idle"] /\ NotMapped(t, m)
    /\ UNCHANGED <<clients, arg, surfs, surfMgr, srefs>>

SurfMapLocked(t) ==
    /\ mapping[t] # NotMapping /\ pc[t] = "locked"
    /\ LET mgr == [m EXCEPT !.bos[arg[t]].lock_cnt = @ + 1]
       IN  Mapped(t, mgr) \/ NotMapped(t, BoUnlock(mgr, arg[t]))
    /\ pc' = [pc EXCEPT ![t] = "idle"]
    /\ UNCHANGED <<clients, arg, surfs, surfMgr, srefs>>

\* tbm_surface_internal_unmap
SurfUnmap(t, s) ==
    /\ SurfHolds(t, s) /\ smaps[t][s] > 0
    /\ m' = FoldLeft(BoUnmap, m, surfs[s].bos)
    /\ smaps' = [smaps EXCEPT ![t][s] = @ - 1]
    /\ UNCHANGED <<clients, pc, arg, surfs, surfMgr, srefs, mapping>>
-----------------------------------------------------------------------------
BosOf(n) == [1 .. n -> Bo]
PrivsOf(n) == [1 .. n -> Priv]

\* The buffer manager's own API, for a thread that is not mapping a surface.
BoStep(t) ==
    /\ mapping[t] = NotMapping
    /\ BufMgrStep(t)
    /\ UNCHANGED surfVars

SurfaceNext ==
    \E t \in Thread :
        \/ BoStep(t)
        \/ \E s \in Surf, n \in 1 .. MaxBos : \E bs \in BosOf(n) :
             \/ \E ps \in PrivsOf(n) : CreateWithFlags(t, s, bs, ps)
             \/ CreateWithBos(t, s, bs)
        \/ \E s \in Surf, n \in 0 .. MaxBos - 1 : \E bs \in BosOf(n) :
             \/ \E ps \in PrivsOf(n) : CreateWithFlagsFails(t, s, bs, ps)
             \/ CreateWithBosFails(t, s, bs)
        \/ \E s \in Surf :
             SurfRef(t, s) \/ SurfUnref(t, s) \/ SurfMap(t, s) \/ SurfUnmap(t, s)
        \/ QueryFormats(t) \/ QueryFormatsFails(t)
        \/ SurfMapBo(t) \/ SurfMapLock(t)
        \/ SurfBackendLock(t) \/ SurfMapLocked(t)

SurfaceSpec == SurfaceInit /\ [][SurfaceNext]_vars
-----------------------------------------------------------------------------
\* How often b occurs in a sequence of bos.
Times(b, bs) == Cardinality({i \in 1 .. Len(bs) : bs[i] = b})

\* The references of all surfaces to b.
SurfRefsTo(b) == SumFunction([s \in LiveSurfs |-> Times(b, surfs[s].bos)])

\* ref_cnt counts the references of clients and of surfaces, through failed
\* creations and bos that several surfaces share.
SharedRefExact ==
    /\ \A b \in Live : m.bos[b].ref_cnt = RefsTo(b) + SurfRefsTo(b)
    /\ \A s \in LiveSurfs : \A i \in 1 .. Len(surfs[s].bos) :
         surfs[s].bos[i] \in Live

\* The manager is kept by its own clients and once for all surfaces, through
\* creations and questions for formats that fail.  While there is a surface
\* it is kept; after a successful question also without one, until the next
\* surface has come and gone.
SharedManagerRefs ==
    /\ LiveSurfs # {} => surfMgr
    /\ m.ref_count = SumFunction(inits) + (IF surfMgr THEN 1 ELSE 0)

\* A surface lives exactly as long as somebody holds it, and while a thread
\* maps it with no lock held.
SurfacesHeld ==
    /\ \A s \in LiveSurfs :
         surfs[s].refcnt = SumFunction([t \in Thread |-> srefs[t][s]])
    /\ \A t \in Thread : mapping[t] # NotMapping => mapping[t].surf \in LiveSurfs

\* Mappings of b through surfaces by t, the call it is in included.
SurfMapsOf(t, b) ==
    SumFunction([s \in LiveSurfs |-> smaps[t][s] * Times(b, surfs[s].bos)])
      + (IF mapping[t] = NotMapping THEN 0 ELSE Times(b, MappedSoFar(t)))

\* Mapping a surface is all or nothing: map_cnt is the number of mappings
\* that callers know of, so a failure half way leaves none behind.
MapAllOrNothing ==
    \A b \in Live :
        m.bos[b].map_cnt =
            SumFunction([t \in Thread |-> maps[t][b] + SurfMapsOf(t, b)])

\* A bo's back pointer leads nowhere or to a live surface that has the bo, if
\* no creation fails on a NULL bo: such a failure leaves the back pointers of
\* the bos before it.
BackPointers ==
    \A b \in Live : ~Bound.null_bos /\ m.bos[b].surface # NULL =>
        /\ m.bos[b].surface \in LiveSurfs
        /\ Times(b, surfs[m.bos[b].surface].bos) > 0
=============================================================================
