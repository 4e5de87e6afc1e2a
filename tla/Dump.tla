-------------------------------- MODULE Dump --------------------------------
(***************************************************************************)
(* The dump of buffers: tbm_surface_internal_dump_* of                     *)
(* src/src/tbm_surface_internal.c and the tbm_bufmgr_debug_*_dump calls of *)
(* src/src/tbm_bufmgr.c, composed with surfaces and the buffer manager,    *)
(* whose bos make up the ring of dump buffers.                             *)
(*                                                                         *)
(* The functions take no lock of their own; here each is one step, as for  *)
(* a process that dumps from one thread.  Every backend lock and mapping   *)
(* may fail.                                                               *)
(***************************************************************************)
EXTENDS Surface

CONSTANTS
    MaxRing,      \* bound: dump buffers
    CountMod,     \* stands for 1000, where the number in file names restarts
    MaxFrames,    \* bound: frames of one dump
    MaxHeld       \* bound: bos that a thread holds

ASSUME DumpAssumption ==
    /\ MaxRing \in Nat \ {0} /\ MaxFrames \in Nat /\ MaxHeld \in Nat
    /\ CountMod \in Nat /\ CountMod >= MaxRing

VARIABLES
    dump,     \* g_dump_info, NoDump for NULL
    frames    \* history: frames stored since the dump began

dumpVars == <<dump, frames>>
allVars == <<vars, dumpVars>>

None == -1
NoDump == [ring |-> <<>>, link |-> 0, count |-> 0]
Running == dump # NoDump

DumpInit == SurfaceInit /\ dump = NoDump /\ frames = 0
-----------------------------------------------------------------------------
(* tbm_bo_map and tbm_surface_map as one step of the dumping thread.       *)

\* _tbm_bo_lock, with a backend that locks.
BoLock(mgr, b) ==
    IF NeedsLock(mgr, b)
    THEN [mgr EXCEPT !.bos[b].lock_cnt = @ + 1, !.held[mgr.bos[b].priv] = @ + 1]
    ELSE mgr

BoMap(mgr, b) == [BoLock(mgr, b) EXCEPT !.bos[b].map_cnt = @ + 1]

\* The managers that a failed tbm_bo_map leaves: the bo is gone, the backend
\* does not lock, or does not map.
BoMapFails(mgr, b) ==
    IF b \notin DOMAIN mgr.bos THEN {mgr}
    ELSE {BoUnlock(BoLock(mgr, b), b)}
           \cup (IF NeedsLock(mgr, b) THEN {mgr} ELSE {})

MapAll(mgr, bs) == FoldLeft(BoMap, mgr, bs)
UnmapAll(mgr, bs) == FoldLeft(BoUnmap, mgr, bs)

\* The bo at some place cannot be mapped and the earlier ones are unmapped.
MapAllFails(mgr, bs) ==
    UNION {{UnmapAll(x, SubSeq(bs, 1, i - 1)) :
                x \in BoMapFails(MapAll(mgr, SubSeq(bs, 1, i - 1)), bs[i])} :
           i \in 1 .. Len(bs)}
-----------------------------------------------------------------------------
\* The manager after the dump buffers bs are allocated.
AllocRing(mgr, bs, ps) ==
    LET One(x, i) == BoAlloc(x, bs[i], ps[i])
    IN  FoldLeft(One, mgr, [i \in 1 .. Len(bs) |-> i])

\* A dump buffer: the number in its file name, and the frames, None for no or
\* another frame, whose pixels its bo and whose geometry its info holds.
NewBuffer(b) == [bo |-> b, number |-> 0, pixels |-> None, info |-> None,
                 dirty |-> FALSE, dirty_shm |-> FALSE]

\* tbm_surface_internal_dump_start, with tbm_bufmgr_debug_queue_dump's test
\* for a surface.  The surface made to learn the buffer size is gone again.
DumpStart(t, bs, ps) ==
    /\ Ready(t) /\ ~Running /\ LiveSurfs # {} /\ Fresh(bs, ps)
    /\ m' = AllocRing(m, bs, ps)
    /\ dump' = [ring |-> [i \in 1 .. Len(bs) |-> NewBuffer(bs[i])],
                link |-> 0, count |-> 0]
    /\ frames' = 0
    /\ UNCHANGED <<clients, pc, arg, surfVars>>

\* The buffer after bs cannot be had: the earlier ones go.
DumpStartFails(t, bs, ps) ==
    /\ Ready(t) /\ ~Running /\ LiveSurfs # {} /\ Fresh(bs, ps)
    /\ m' = UnrefAll(AllocRing(m, bs, ps), bs)
    /\ UNCHANGED <<clients, pc, arg, surfVars, dumpVars>>

\* The buffer after the one used last; the list head is passed over.
NextLink == (dump.link % Len(dump.ring)) + 1
NextBo == dump.ring[NextLink].bo

\* A frame that does not get as far as the next dump buffer.
Skip == UNCHANGED dumpVars

\* Mutant: a frame that is dropped uses up its buffer.
SpoilAdvances(e) ==
    /\ dump' = [dump EXCEPT !.ring[NextLink] = e, !.link = NextLink]
    /\ UNCHANGED frames

\* A frame that is dropped when the next buffer, now e, was already written
\* to: what was in it before is spoilt, and it is the next one still.
Spoil(e) ==
    /\ dump' = [dump EXCEPT !.ring[NextLink] = e]
    /\ UNCHANGED frames

\* A frame is stored under the next number.
Store(shm) ==
    /\ frames < MaxFrames
    /\ dump' = [dump EXCEPT !.ring[NextLink] =
                                [bo |-> @.bo, number |-> dump.count,
                                 pixels |-> frames,
                                 info |-> IF shm THEN None ELSE frames,
                                 dirty |-> ~shm, dirty_shm |-> shm],
                            !.count = IF @ + 1 = CountMod THEN 0 ELSE @ + 1,
                            !.link = NextLink]
    /\ frames' = frames + 1

\* The manager after a buffer has been mapped, filled and unmapped.
Filled(mgr) == BoUnmap(BoMap(mgr, NextBo), NextBo)

\* tbm_surface_internal_dump_buffer: the surface may not map, be too large,
\* the dump buffer not map, the format be unknown, or the frame is stored.
\* The info is written before the dump buffer is mapped, and the buffer is
\* cleared before the format is looked at.
DumpBuffer(t, s) ==
    /\ SurfHolds(t, s) /\ Running
    /\ LET bs == surfs[s].bos
           mapped == MapAll(m, bs)
           e == [dump.ring[NextLink] EXCEPT !.info = None]
       IN  \/ Skip /\ m' \in MapAllFails(m, bs)
           \/ Skip /\ m' = UnmapAll(mapped, bs)
           \/ /\ Spoil(e)
              /\ m' \in {UnmapAll(x, bs) : x \in BoMapFails(mapped, NextBo)}
           \/ /\ Spoil([e EXCEPT !.pixels = None]) \/ Store(FALSE)
              /\ NextBo \in Live /\ m' = UnmapAll(Filled(mapped), bs)
    /\ UNCHANGED <<clients, pc, arg, surfVars>>

\* tbm_surface_internal_dump_shm_buffer: the frame is too large, the dump
\* buffer does not map, or the frame is stored.
DumpShmBuffer(t) ==
    /\ Ready(t) /\ Running
    /\ \/ Skip /\ m' = m
       \/ Skip /\ m' \in BoMapFails(m, NextBo)
       \/ Store(TRUE) /\ NextBo \in Live /\ m' = Filled(m)
    /\ UNCHANGED <<clients, pc, arg, surfVars>>

\* Mutant: a buffer that does not map keeps its reference.
EndOneKeeps(mgr, b) ==
    BoMapFails(mgr, b)
      \cup (IF b \in DOMAIN mgr.bos
            THEN {BoUnref(BoUnmap(BoMap(mgr, b), b), b)} ELSE {})

\* What is left of the manager when a dump buffer has been written to its
\* file, or could not be mapped, and is given up.
EndOne(mgr, b) ==
    {BoUnref(x, b) : x \in BoMapFails(mgr, b)}
      \cup (IF b \in DOMAIN mgr.bos
            THEN {BoUnref(BoUnmap(BoMap(mgr, b), b), b)} ELSE {})

EndAll(ring) ==
    LET One(mgrs, entry) == UNION {EndOne(x, entry.bo) : x \in mgrs}
    IN  FoldLeft(One, {m}, ring)

\* tbm_surface_internal_dump_end, which also tbm_bufmgr_debug_dump_all calls
\* in the end, whoever started the dump.
DumpEnd(t) ==
    /\ Ready(t) /\ Running
    /\ m' \in EndAll(dump.ring)
    /\ dump' = NoDump
    /\ frames' = 0
    /\ UNCHANGED <<clients, pc, arg, surfVars>>

DumpStep(t) ==
    \/ \E n \in 1 .. MaxRing : \E bs \in BosOf(n), ps \in PrivsOf(n) :
           DumpStart(t, bs, ps)
    \/ \E n \in 0 .. MaxRing - 1 : \E bs \in BosOf(n), ps \in PrivsOf(n) :
           DumpStartFails(t, bs, ps)
    \/ \E s \in Surf : DumpBuffer(t, s)
    \/ DumpShmBuffer(t)
    \/ DumpEnd(t)
-----------------------------------------------------------------------------
\* The manager is not let go during a dump: the ring has no reference to it.
ManagerStays == Running => m'.ref_count > 0

HeldBound == \A t \in Thread : Cardinality({b \in Bo : refs'[t][b] > 0}) <= MaxHeld

DumpNext ==
    \/ SurfaceNext /\ ManagerStays /\ HeldBound /\ UNCHANGED dumpVars
    \/ \E t \in Thread : DumpStep(t)

DumpSpec == DumpInit /\ [][DumpNext]_allVars
-----------------------------------------------------------------------------
\* The references of the dump buffers to b.
RingRefs(b) == Cardinality({i \in 1 .. Len(dump.ring) : dump.ring[i].bo = b})

\* ref_cnt counts the references of clients, of surfaces and of the dump,
\* through failures on every path, and the dump buffers are alive.
RingRefExact ==
    /\ \A b \in Live :
         m.bos[b].ref_cnt = RefsTo(b) + SurfRefsTo(b) + RingRefs(b)
    /\ \A i \in 1 .. Len(dump.ring) : dump.ring[i].bo \in Live

\* Whether dump_end writes frame k, as it was, from buffer e.
Intact(e, k) ==
    /\ e.number = k % CountMod /\ e.pixels = k
    /\ e.dirty_shm \/ (e.dirty /\ e.info = k)

\* The latest frames, all that fit but the oldest, are intact in the ring,
\* under their numbers, and the oldest is at most spoilt by a frame that was
\* dropped in its place: no frame is overwritten less than a whole ring later,
\* and every buffer that holds none stays unwritten.
RingHoldsLatest ==
    Running =>
        LET n == Len(dump.ring)
            Buffer(k) == dump.ring[(k % n) + 1]
        IN  /\ \A k \in 0 .. frames - 1 : k + n > frames => Intact(Buffer(k), k)
            /\ frames >= n =>
                 /\ Buffer(frames).pixels \in {frames - n, None}
                 /\ Buffer(frames).info \in {frames - n, None}
            /\ \A i \in 1 .. n : dump.ring[i].dirty \/ dump.ring[i].dirty_shm
                 <=> i <= frames
=============================================================================
