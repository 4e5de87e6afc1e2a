------------------------------ MODULE TbmLocks ------------------------------
(***************************************************************************)
(* The functions of libtbm as LockOrder sees them.  The mutexes:           *)
(*   surf_queue   tbm_surf_queue_lock, all queues                          *)
(*   queue        surface_queue->lock, one queue                           *)
(*   surface      tbm_surface_lock, all surfaces                           *)
(*   g            gLock, life and printout of the buffer manager           *)
(*   bufmgr       tbm_bufmgr_lock, all bos                                 *)
(*   own          bufmgr->lock, which only surface creation uses           *)
(* and the lists: bo_list, surf_list, the lists of one queue, and its      *)
(* lists of callbacks.  The queue lives: what a destroy does to a call in  *)
(* progress is in QueueSync.tla.                                           *)
(*                                                                         *)
(* Where a function repeats a call for every bo or surface the program     *)
(* makes it once.  The final tbm_bufmgr_deinit walks bo_list when nobody   *)
(* else has the manager, and finds surf_list empty (SharedManagerRefs of   *)
(* Surface.tla).                                                           *)
(***************************************************************************)
EXTENDS Sequences

Lock(x) == <<[op |-> "lock", on |-> x]>>
Unlock(x) == <<[op |-> "unlock", on |-> x]>>
Use(d) == <<[op |-> "use", on |-> d]>>
Walk(d) == <<[op |-> "walk", on |-> d]>>

\* A function that locks x at its start and unlocks it on every path out.
Under(x, body) == Lock(x) \o body \o Unlock(x)

-----------------------------------------------------------------------------
(* The buffer manager and its bos.                                         *)

\* tbm_bo_ref, unref, import, unmap, swap, export, get_handle and the others.
BoCall == Under("bufmgr", Use("bo_list"))

\* tbm_bo_map drops the mutex around the backend's bo_lock.
BoMap ==
    Under("bufmgr", Use("bo_list") \o Unlock("bufmgr") \o Lock("bufmgr"))

MgrInit == Under("g", << >>)

\* The final tbm_bufmgr_deinit frees the bos that are left.
MgrDeinit == Under("g", Under("bufmgr", << >>))

\* tbm_bufmgr_debug_show walks surf_list and bo_list.
DebugShow == Under("g", Use("surf_list") \o Use("bo_list"))

\* tbm_bo_alloc and the imports when _tbm_util_check_bo_cnt finds 500, 520, ...
\* bos.
BoAllocManyBos == Under("bufmgr", DebugShow \o Use("bo_list"))
-----------------------------------------------------------------------------
(* Surfaces.                                                               *)

\* The functions that read or write a surface and call no other.
SurfaceCall == Under("surface", Use("surf_list"))

\* tbm_surface_internal_create_with_flags and _with_bos for the first surface.
SurfaceCreate ==
    Under("surface", MgrInit \o BoCall \o Use("surf_list"))

\* The same when a bo of it is the 500th, 520th, ...
SurfaceCreateManyBos ==
    Under("surface", MgrInit \o BoAllocManyBos \o Use("surf_list"))

\* A creation that fails and takes the manager it initialised down again.
SurfaceCreateFails ==
    Under("surface", MgrInit \o BoCall \o BoCall \o MgrDeinit)

\* The backend's surface_bo_alloc: bo_list is written under another mutex.
SurfaceCreateOwn ==
    Under("surface", MgrInit \o Under("own", Use("bo_list")) \o BoCall
                       \o Use("surf_list"))

\* tbm_surface_internal_unref and _destroy of the last surface.
SurfaceUnref ==
    Under("surface", Use("surf_list") \o BoCall \o MgrDeinit)

\* tbm_surface_internal_get_info with map drops the lock around tbm_bo_map.
MapBo == Unlock("surface") \o BoMap \o Lock("surface")
SurfaceMap == Under("surface", Use("surf_list") \o MapBo)

\* The second bo fails and the first is unmapped.
SurfaceMapFails ==
    Under("surface", Use("surf_list") \o MapBo \o MapBo \o BoCall)

\* tbm_surface_internal_unmap, and get_info without map.
SurfaceUnmap == Under("surface", Use("surf_list") \o BoCall)

\* tbm_surface_internal_query_supported_formats of a backend that has none.
QueryFormats == Under("surface", MgrInit \o MgrDeinit)
-----------------------------------------------------------------------------
(* Dumps.                                                                  *)

\* tbm_surface_internal_dump_buffer, with the bo of the ring.
DumpBuffer == SurfaceMap \o BoMap \o BoCall \o SurfaceUnmap

\* _tbm_util_get_max_surface_size: get_info of every surface.
MaxSurfaceSize == Use("surf_list") \o SurfaceUnmap

\* tbm_bufmgr_debug_queue_dump and _dump_all: the sizes of the surfaces, the
\* bos of the ring and, for the second, every surface.
DumpAll ==
    Under("g", MaxSurfaceSize \o BoCall \o DumpBuffer)

\* Either of them when a bo of the ring is the 500th.
QueueDumpManyBos ==
    Under("g", MaxSurfaceSize \o BoAllocManyBos)
-----------------------------------------------------------------------------
(* The surface queue.                                                      *)

\* A function of the queue between its lookup and its end.
InQueue(body) == Under("surf_queue", Under("queue", Use("queue") \o body))

\* _trace_emit and _notify_emit, which come after the unlock.
Emit == Walk("callbacks")

\* enqueue, dequeue, acquire, flush with nothing to delete.
QueueCall == InQueue(<< >>) \o Emit

\* The functions that add and remove callbacks.
QueueCallbacks == InQueue(Use("callbacks"))

\* Functions that need only the global lock: notify_reset, the first part of
\* can_dequeue, and the getters, which emit nothing.
QueueGet == Under("surf_queue", Use("queue")) \o Emit

\* tbm_surface_queue_enqueue while a queue dump is on.
EnqueueDump ==
    Under("surf_queue", DumpBuffer \o Under("queue", Use("queue"))) \o Emit

\* release, flush, reset and set_size that delete a node and its surface.
QueueDelete == InQueue(SurfaceUnref) \o Emit

\* need_attach without alloc_cb, from dequeue.
Attach(create) == InQueue(create \o SurfaceCall \o Use("queue")) \o Emit
QueueAttach == Attach(SurfaceCreate)
QueueAttachManyBos == Attach(SurfaceCreateManyBos)

\* can_dequeue through alloc_cb, which creates a surface with no lock held.
QueueAllocCb ==
    Under("surf_queue", << >>) \o Emit \o
    InQueue(Unlock("queue") \o Unlock("surf_queue") \o SurfaceCreate
              \o Lock("surf_queue") \o Lock("queue")
              \o SurfaceCall \o Use("queue"))

\* can_dequeue and can_acquire that wait: the woken thread has the queue's
\* mutex when it takes the global one.
QueueWait ==
    Lock("surf_queue") \o Lock("queue") \o Use("queue") \o Unlock("surf_queue")
      \o Unlock("queue") \o Lock("queue")        \* pthread_cond_wait
      \o Lock("surf_queue") \o Unlock("queue") \o Unlock("surf_queue")

QueueCreate == Under("surf_queue", MgrInit \o Use("queue"))

\* tbm_surface_queue_destroy of the last queue.
QueueDestroy ==
    Under("surf_queue", Use("queue") \o SurfaceUnref \o Walk("callbacks")
                          \o Use("callbacks") \o MgrDeinit)

\* A destroy callback or a free_cb that calls a function of the queue.
QueueCallback == Under("surf_queue", Use("queue") \o QueueCall)
-----------------------------------------------------------------------------
\* A function that calls others one after the other with no mutex held in
\* between, as tbm_surface_internal_dump_buffer does, is the calls it makes.
Programs ==
    [BoCall |-> BoCall, BoMap |-> BoMap, MgrInit |-> MgrInit,
     MgrDeinit |-> MgrDeinit, DebugShow |-> DebugShow,
     BoAllocManyBos |-> BoAllocManyBos, SurfaceCall |-> SurfaceCall,
     SurfaceCreate |-> SurfaceCreate,
     SurfaceCreateManyBos |-> SurfaceCreateManyBos,
     SurfaceCreateFails |-> SurfaceCreateFails,
     SurfaceCreateOwn |-> SurfaceCreateOwn, SurfaceUnref |-> SurfaceUnref,
     SurfaceMapFails |-> SurfaceMapFails, SurfaceUnmap |-> SurfaceUnmap,
     QueryFormats |-> QueryFormats, DumpAll |-> DumpAll,
     QueueDumpManyBos |-> QueueDumpManyBos, QueueCall |-> QueueCall,
     QueueCallbacks |-> QueueCallbacks, QueueAttachManyBos |-> QueueAttachManyBos,
     QueueGet |-> QueueGet, EnqueueDump |-> EnqueueDump,
     QueueDelete |-> QueueDelete, QueueAttach |-> QueueAttach,
     QueueAllocCb |-> QueueAllocCb, QueueWait |-> QueueWait,
     QueueCreate |-> QueueCreate, QueueDestroy |-> QueueDestroy,
     QueueCallback |-> QueueCallback]

\* The functions that take mutexes out of order, or a list without its mutex:
\* debugging (tbm_bufmgr.c:1452, 1588, 1620 and 183, where every tbm_bo_alloc
\* can begin to debug), the woken waiter (tbm_surface_queue.c:1211 and 1368),
\* callbacks under the global lock (1406 and 367) and the other mutex of
\* surface_bo_alloc (tbm_surface_internal.c:701).
OutOfOrder ==
    {"DebugShow", "BoAllocManyBos", "SurfaceCreateManyBos",
     "QueueAttachManyBos", "DumpAll", "QueueDumpManyBos",
     "QueueWait", "QueueCallback", "SurfaceCreateOwn"}

Order == <<"surf_queue", "queue", "surface", "g", "bufmgr", "own">>
=============================================================================
