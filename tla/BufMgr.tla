------------------------------- MODULE BufMgr -------------------------------
(***************************************************************************)
(* The buffer manager and its buffer objects: src/src/tbm_bufmgr.c.        *)
(*                                                                         *)
(* Every function runs under tbm_bufmgr_lock (init and deinit under        *)
(* gLock), so a call is one step, with one exception: _tbm_bo_lock drops   *)
(* the mutex while it calls the backend's bo_lock, so tbm_bo_map has a     *)
(* window in the middle.                                                   *)
(*                                                                         *)
(* The manager is one record m:                                            *)
(*   ref_count  references to the manager, 0 when gBufMgr is NULL          *)
(*   bos        bo_list: the live bos, each with its ref_cnt, lock_cnt,    *)
(*              map_cnt, backend object priv and back pointer surface      *)
(*   bo_cnt     the manager's count of bos                                 *)
(*   held       the backend's locks: bo_lock calls not yet undone by       *)
(*              bo_unlock, for each backend object (external)              *)
(*   env        BUFMGR_LOCK_TYPE in the environment of the process         *)
(*                                                                         *)
(* refs, maps and inits record what clients do; the API is used as its     *)
(* documentation asks: a thread calls it between its own init and deinit,  *)
(* and passes only bos that it holds a reference to.                       *)
(***************************************************************************)
EXTENDS Integers, FiniteSets, FiniteSetsExt

CONSTANTS
    Thread,      \* threads of the process
    Bo,          \* addresses a struct _tbm_bo can have
    Priv,        \* backend objects (bo->priv)
    Surf,        \* addresses a struct _tbm_surface can have
    Envs,        \* values of the environment variable BUFMGR_LOCK_TYPE ("" if
                 \* not set) to check, each with the bounds to check it with:
                 \*   surfs      surfaces at a time
                 \*   refs       references of a thread to one bo
                 \*   maps       mappings of all bos at which none is begun
                 \*   null_bos   clients give arrays of bos that end in a NULL
    SwapBusy,    \* clients also swap bos that are locked
    MaxInit,     \* bound: init calls of a thread not yet undone
    MaxMap,      \* bound: mappings of one bo by a thread
    UIntMod,     \* stands for 2^32, where an unsigned int wraps around
    NULL         \* no surface, no bo

ASSUME BufMgrAssumption ==
    /\ SwapBusy \in BOOLEAN
    /\ MaxInit \in Nat /\ MaxMap \in Nat
    /\ \A env \in DOMAIN Envs :
         Envs[env] \in [surfs : Nat, refs : Nat, maps : Nat, null_bos : BOOLEAN]
    /\ IsFiniteSet(Thread) /\ IsFiniteSet(Bo) /\ IsFiniteSet(Surf)
    /\ UIntMod \in Nat /\ UIntMod > Cardinality(Bo)
    /\ NULL \notin Bo \cup Surf

VARIABLES
    m,       \* the manager
    inits,   \* how often each thread has initialised the manager
    refs,    \* the references each thread holds to each bo
    maps,    \* how often each thread has each bo mapped
    pc,      \* "idle", "lock": in backend bo_lock, "locked": it succeeded
    arg      \* the bo a thread is mapping

clients == <<inits, refs, maps>>
bufmgrVars == <<m, inits, refs, maps, pc, arg>>

\* The lock type that tbm_bufmgr_init reads from the environment.
LockType(mgr) ==
    CASE mgr.env = "always" -> "TRY_ALWAYS"
      [] mgr.env = "none"   -> "TRY_NEVER"
      [] mgr.env = "once"   -> "TRY_ONCE"
      [] OTHER              -> "TRY_ALWAYS"

Bound == Envs[m.env]

Live == DOMAIN m.bos
PrivsInUse(mgr) == {mgr.bos[b].priv : b \in DOMAIN mgr.bos}

NewManager(env) ==
    [ref_count |-> 0, bos |-> <<>>, bo_cnt |-> 0, held |-> [p \in Priv |-> 0],
     env |-> env]

Nobody == [t \in Thread |-> [b \in Bo |-> 0]]

BufMgrInit ==
    /\ \E env \in DOMAIN Envs : m = NewManager(env)
    /\ inits = [t \in Thread |-> 0]
    /\ refs = Nobody
    /\ maps = Nobody
    /\ pc = [t \in Thread |-> "idle"]
    /\ arg = [t \in Thread |-> NULL]
-----------------------------------------------------------------------------
(* What the functions do to a manager.                                     *)

Link(f, x, v) == [y \in DOMAIN f \cup {x} |-> IF y = x THEN v ELSE f[y]]
Unlink(f, x) == [y \in DOMAIN f \ {x} |-> f[y]]

NewBo(p) == [ref_cnt |-> 1, lock_cnt |-> 0, map_cnt |-> 0, priv |-> p,
             surface |-> NULL]

\* tbm_bo_alloc and an import that finds no known bo link a new bo.
BoAlloc(mgr, b, p) ==
    [mgr EXCEPT !.bos = Link(@, b, NewBo(p)), !.bo_cnt = (@ + 1) % UIntMod]

\* An import asks the backend first, and shares a bo with the same priv.
BoImport(mgr, b, p) ==
    IF p \in PrivsInUse(mgr)
    THEN [mgr EXCEPT !.bos =
            [c \in DOMAIN mgr.bos |->
                IF mgr.bos[c].priv = p
                THEN [mgr.bos[c] EXCEPT !.ref_cnt = @ + 1] ELSE mgr.bos[c]]]
    ELSE BoAlloc(mgr, b, p)

BoRef(mgr, b) ==
    IF b \in DOMAIN mgr.bos THEN [mgr EXCEPT !.bos[b].ref_cnt = @ + 1] ELSE mgr

\* The last reference gives up the locks that are left, frees the backend
\* object and unlinks the bo.
BoFree(mgr, b) ==
    [mgr EXCEPT !.held[mgr.bos[b].priv] = @ - mgr.bos[b].lock_cnt,
                !.bos = Unlink(@, b),
                !.bo_cnt = (@ - 1) % UIntMod]

BoUnref(mgr, b) ==
    IF b \notin DOMAIN mgr.bos \/ mgr.bos[b].ref_cnt <= 0 THEN mgr
    ELSE IF mgr.bos[b].ref_cnt = 1 THEN BoFree(mgr, b)
    ELSE [mgr EXCEPT !.bos[b].ref_cnt = @ - 1]

\* _tbm_bo_unlock
BoUnlock(mgr, b) ==
    IF LockType(mgr) = "TRY_NEVER" \/ mgr.bos[b].lock_cnt = 0 THEN mgr
    ELSE LET last == mgr.bos[b].lock_cnt = 1
         IN  [mgr EXCEPT !.bos[b].lock_cnt = @ - 1,
                         !.held[mgr.bos[b].priv] =
                             IF LockType(mgr) = "TRY_ALWAYS" \/ last
                             THEN @ - 1 ELSE @]

BoUnmap(mgr, b) == BoUnlock([mgr EXCEPT !.bos[b].map_cnt = @ - 1], b)

\* Mutant: the first deinit frees everything.
MgrDeinitAtOnce(mgr) ==
    LET Forced(b, x) == BoFree(x, b)
        freed == FoldSet(Forced, mgr, DOMAIN mgr.bos)
    IN  [freed EXCEPT !.ref_count = 0, !.bo_cnt = 0]

\* tbm_bufmgr_init, with a backend that loads.
MgrInit(mgr) == [mgr EXCEPT !.ref_count = @ + 1]

\* tbm_bufmgr_deinit: the last reference frees the bos that are left.
MgrDeinit(mgr) ==
    IF mgr.ref_count > 1 THEN [mgr EXCEPT !.ref_count = @ - 1]
    ELSE LET Forced(b, x) == BoFree(x, b)
             freed == FoldSet(Forced, mgr, DOMAIN mgr.bos)
         IN  [freed EXCEPT !.ref_count = 0, !.bo_cnt = 0]
-----------------------------------------------------------------------------
(* The API.  A thread uses the manager between its own init and deinit,    *)
(* and a bo while it holds a reference.                                    *)

Calls(t) == pc[t] = "idle" /\ inits[t] > 0
Holds(t, b) == Calls(t) /\ refs[t][b] > 0

Init(t) ==
    /\ pc[t] = "idle" /\ inits[t] < MaxInit
    /\ m' = MgrInit(m)
    /\ inits' = [inits EXCEPT ![t] = @ + 1]
    /\ UNCHANGED <<refs, maps, pc, arg>>

\* When the manager goes, so does what clients had from it.
Forget(mgr) ==
    IF mgr.ref_count = 0 THEN refs' = Nobody /\ maps' = Nobody
                         ELSE UNCHANGED <<refs, maps>>

Deinit(t) ==
    /\ Calls(t)
    /\ m' = MgrDeinit(m)
    /\ inits' = [inits EXCEPT ![t] = @ - 1]
    /\ Forget(m')
    /\ UNCHANGED <<pc, arg>>

Alloc(t, b, p) ==
    /\ Calls(t) /\ b \notin Live /\ p \notin PrivsInUse(m)
    /\ m' = BoAlloc(m, b, p)
    /\ refs' = [refs EXCEPT ![t][b] = @ + 1]
    /\ UNCHANGED <<inits, maps, pc, arg>>

\* The bo that an import of p returns, b being the address of a new one.
Imported(b, p) ==
    IF p \in PrivsInUse(m) THEN CHOOSE c \in Live : m.bos[c].priv = p ELSE b

\* tbm_bo_import and tbm_bo_import_fd
Import(t, b, p) ==
    /\ Calls(t) /\ (b \notin Live \/ p \in PrivsInUse(m))
    /\ refs[t][Imported(b, p)] < Bound.refs
    /\ m' = BoImport(m, b, p)
    /\ refs' = [refs EXCEPT ![t][Imported(b, p)] = @ + 1]
    /\ UNCHANGED <<inits, maps, pc, arg>>

\* Somebody hands t a bo.
Ref(t, b) ==
    /\ Calls(t) /\ refs[t][b] < Bound.refs
    /\ \E u \in Thread : refs[u][b] > 0
    /\ m' = BoRef(m, b)
    /\ refs' = [refs EXCEPT ![t][b] = @ + 1]
    /\ UNCHANGED <<inits, maps, pc, arg>>

\* A thread that gives up its reference has unmapped the bo, or is the last
\* to hold it.
Unref(t, b) ==
    /\ Holds(t, b)
    /\ maps[t][b] = 0 \/ m.bos[b].ref_cnt = 1
    /\ m' = BoUnref(m, b)
    /\ refs' = [refs EXCEPT ![t][b] = @ - 1]
    /\ maps' = IF b \in DOMAIN m'.bos THEN maps
               ELSE [u \in Thread |-> [maps[u] EXCEPT ![b] = 0]]
    /\ UNCHANGED <<inits, pc, arg>>

\* The end of tbm_bo_map: the backend maps the bo, or fails to.
MapTail(mgr, t, b) ==
    \/ /\ m' = [mgr EXCEPT !.bos[b].map_cnt = @ + 1]
       /\ maps' = [maps EXCEPT ![t][b] = @ + 1]
    \/ /\ m' = BoUnlock(mgr, b)
       /\ maps' = maps

\* Mutant: a bo that is locked is locked again.
NeedsLockAlways(mgr, b) == LockType(mgr) # "TRY_NEVER"

\* _tbm_bo_lock calls the backend.
NeedsLock(mgr, b) ==
    \/ LockType(mgr) = "TRY_ALWAYS"
    \/ LockType(mgr) = "TRY_ONCE" /\ mgr.bos[b].lock_cnt = 0

MayMap == SumFunction([b \in Live |-> m.bos[b].map_cnt]) < Bound.maps

\* tbm_bo_map when no backend lock is to be taken.
Map(t, b) ==
    /\ Holds(t, b) /\ maps[t][b] < MaxMap /\ MayMap
    /\ ~NeedsLock(m, b)
    /\ MapTail(m, t, b)
    /\ UNCHANGED <<inits, refs, pc, arg>>

\* Otherwise it drops the mutex ...
MapLock(t, b) ==
    /\ Holds(t, b) /\ maps[t][b] < MaxMap /\ MayMap
    /\ NeedsLock(m, b)
    /\ pc' = [pc EXCEPT ![t] = "lock"]
    /\ arg' = [arg EXCEPT ![t] = b]
    /\ UNCHANGED <<m, clients>>

\* ... calls the backend, which locks the bo or fails ...
BackendLock(t) ==
    /\ pc[t] = "lock"
    /\ \/ /\ pc' = [pc EXCEPT ![t] = "locked"]
          /\ m' = [m EXCEPT !.held[m.bos[arg[t]].priv] = @ + 1]
       \/ /\ pc' = [pc EXCEPT ![t] = "idle"]
          /\ m' = m
    /\ UNCHANGED <<clients, arg>>

\* ... and takes the mutex again.
MapLocked(t) ==
    /\ pc[t] = "locked"
    /\ MapTail([m EXCEPT !.bos[arg[t]].lock_cnt = @ + 1], t, arg[t])
    /\ pc' = [pc EXCEPT ![t] = "idle"]
    /\ UNCHANGED <<inits, refs, arg>>

Unmap(t, b) ==
    /\ Holds(t, b) /\ maps[t][b] > 0
    /\ m' = BoUnmap(m, b)
    /\ maps' = [maps EXCEPT ![t][b] = @ - 1]
    /\ UNCHANGED <<inits, refs, pc, arg>>

Busy(b) ==
    \/ m.bos[b].lock_cnt > 0
    \/ \E t \in Thread : pc[t] # "idle" /\ arg[t] = b

\* Mutant: the second assignment reads what the first wrote.
SwapHalf(t, b, c) ==
    /\ Holds(t, b) /\ Holds(t, c) /\ b # c
    /\ SwapBusy \/ ~(Busy(b) \/ Busy(c))
    /\ m' = [m EXCEPT !.bos[b].priv = m.bos[c].priv]
    /\ UNCHANGED <<clients, pc, arg>>

\* tbm_bo_swap exchanges the backend objects of two bos of the same size.
Swap(t, b, c) ==
    /\ Holds(t, b) /\ Holds(t, c) /\ b # c
    /\ SwapBusy \/ ~(Busy(b) \/ Busy(c))
    /\ m' = [m EXCEPT !.bos[b].priv = m.bos[c].priv,
                      !.bos[c].priv = m.bos[b].priv]
    /\ UNCHANGED <<clients, pc, arg>>

BufMgrStep(t) ==
    \/ Init(t) \/ Deinit(t)
    \/ \E b \in Bo, p \in Priv : Alloc(t, b, p) \/ Import(t, b, p)
    \/ \E b \in Bo : Ref(t, b) \/ Unref(t, b)
    \/ \E b \in Bo : Map(t, b) \/ MapLock(t, b) \/ Unmap(t, b)
    \/ BackendLock(t) \/ MapLocked(t)
    \/ \E b, c \in Bo : Swap(t, b, c)

BufMgrNext == \E t \in Thread : BufMgrStep(t)

BufMgrSpec == BufMgrInit /\ [][BufMgrNext]_bufmgrVars
-----------------------------------------------------------------------------
\* The references of all threads to b.
RefsTo(b) == SumFunction([t \in Thread |-> refs[t][b]])

\* bo_cnt is the number of bos in bo_list.
CountExact == m.bo_cnt = Cardinality(Live)

\* A bo is not freed while a thread is in the backend's bo_lock with it,
\* where no mutex protects it.
WindowSafe == \A t \in Thread : pc[t] # "idle" => arg[t] \in Live

\* Backend locks taken for b whose lock_cnt++ has yet to come.
InFlight(b) == Cardinality({t \in Thread : pc[t] = "locked" /\ arg[t] = b})

\* The backend locks that lock_cnt stands for.
Counted(b) ==
    CASE LockType(m) = "TRY_ALWAYS" -> m.bos[b].lock_cnt
      [] LockType(m) = "TRY_ONCE"   -> IF m.bos[b].lock_cnt > 0 THEN 1 ELSE 0
      [] LockType(m) = "TRY_NEVER"  -> 0

\* A backend object belongs to one bo, which imports and swaps keep, or it would
\* be freed twice; and every lock of it is undone: by unmap, by the error path
\* of map, or when the bo is freed.
LockBalance ==
    /\ \A b, c \in Live : m.bos[b].priv = m.bos[c].priv => b = c
    /\ \A b \in Live : m.held[m.bos[b].priv] = Counted(b) + InFlight(b)
    /\ \A p \in Priv \ PrivsInUse(m) : m.held[p] = 0
=============================================================================
