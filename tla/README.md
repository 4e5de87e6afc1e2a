# TLA+ models of libtbm

libtbm (Tizen Buffer Manager) is a C library.  A process allocates *buffer
objects* (bos) through a backend, groups up to four of them into a *surface*,
and passes surfaces from a producer to a consumer through a *surface queue*.
This directory models the parts of the library that keep state across calls,
checks them with TLC on small instances, and proves the main results for
instances of any size with TLAPS.  Line numbers refer to the files under
`src/src/`.

## 1. Inventory

| Component | State it keeps | Operations | What makes it correct |
|---|---|---|---|
| Intrusive lists, `list.h` | `next`/`prev` of every `list_head` | inithead, add, addtail, del, forward loops | links of a list form a ring |
| Surface queue, `tbm_surface_queue.c` | `free_queue`, `dirty_queue`, a sequence queue's `dequeue_list`, the node list `list`, node types, `num_attached`, `queue_size` | create, dequeue, enqueue, acquire, release, can_dequeue, can_acquire, set_size, flush, reset, set_alloc_cb, destroy | a surface is in one place, frames arrive in order, `num_attached` is right and bounded, a held surface is not taken away |
| Queue locking, `tbm_surface_queue.c` | the global mutex, the queue's mutex, `free_cond`, `dirty_cond` | every call above; `alloc_cb` and callbacks run with locks dropped | locks are balanced, no wakeup is lost, answers of can_* are true, calls return, a destroyed queue is not touched with a lock held |
| Callback lists, `tbm_surface_queue.c` | seven lists of callbacks | add, remove, remove all, emit | an emission calls each registered callback once and reads no freed item |
| Buffer manager and bos, `tbm_bufmgr.c` | `gBufMgr` with `ref_count`, `bo_list`, `bo_cnt`; each bo's `ref_cnt`, `lock_cnt`, `map_cnt`, `priv`, `surface` | init, deinit, alloc, import, import_fd, ref, unref, map, unmap, swap | a bo lives exactly as long as it is referenced, backend objects are not shared or freed twice, backend locks are undone |
| Surfaces, `tbm_surface_internal.c`, `tbm_surface.c` | `g_surface_bufmgr`, `surf_list`, `refcnt`, the bos | create with flags, create with bos, query of formats, ref, unref, destroy, get_info with map, unmap | bos are referenced once per use, a map is all or nothing, the manager lives while a surface does |
| User data and debug data | keyed lists on bos and surfaces with a free function | add, set, get, delete | each datum is freed once |
| Dump and capture | `g_dump_info`, a ring of dump buffers | start, dump of a surface or of shared memory, end | the ring holds the latest frames, and gives back its bos on every path |
| Sync timelines and fences, `tbm_sync.c` | kernel objects behind descriptors | create, increment, wait, merge | a wait answers truly and ends with its timeout |
| Backend loader, `tbm_bufmgr.c`, `tbm_bufmgr_backend.c` | the loaded module, `bufmgr->backend`, `bufmgr->fd` | directory scan, dlopen, init of a module, dlclose | one module is open, the one in use |
| DRM authentication helpers, `tbm_drm_helper_*.c` | a wayland global, its clients' descriptors, three environment variables | server and client side of a small protocol; set, unset and get of a descriptor | a client gets an authenticated descriptor or an error, and owns what it gets |
| Format tables, `tbm_surface.h`, `tbm_surface_internal.c` | none | number of planes, bits per pixel | — |
| Locks of the whole library | six mutexes | taken by every function, nested by most | one order, and every list under its mutex |
| Unit tests, `src/ut` | static variables that inject errors | one test per call | — |
| Logging, debug printout | none | — | — |

How they interact: the queue calls `tbm_surface_internal_create_with_flags`
or the user's `alloc_cb` to attach surfaces, and holds a surface reference per
node.  A surface calls `tbm_bo_alloc`, `tbm_bo_ref`, `tbm_bo_map` and so on,
and the first and the last surface call `tbm_bufmgr_init` and
`tbm_bufmgr_deinit`.  A dump copies surfaces into bos of its own, from queue
calls or for `tbm_bufmgr_debug_dump_all`.  A bo points back to its surface.  The library has no
thread of its own; every function may be called from several threads.

What is hard here:

* two mutexes per queue call, dropped and retaken around `alloc_cb`, around
  callbacks and around `pthread_cond_wait`;
* `list_del` leaves the links of the removed cell stale, and the queue runs it
  a second time on nodes that are on no list;
* `_tbm_bo_lock` drops the manager's mutex in the middle of `tbm_bo_map`, and
  `tbm_surface_internal_get_info` drops the surface mutex around each map;
* six mutexes that calls nest three and four deep, and functions for debugging
  that take them in another order;
* descriptors that are passed around as numbers, which the kernel uses again;
* failures half way through a creation, a map, a dump, a handshake or the load of
  a module;
* sequences of legal calls: cancelled dequeues, flushes and resizes while
  surfaces are out.

`PROJECT.json` lists each of these at its line under `hazards`, with the
properties that would catch it going wrong.

## 2. Modules

| Module | Models | Checked by | Proved in |
|---|---|---|---|
| `ListHead` | `list.h` as operators on a heap of links | used by two modules below | `ListHeadProofs` |
| `SurfaceQueueAbs` | what a queue promises: two first-in first-out lines, surfaces out in clients' hands, a limit | `sq_queue`, as the property `Implements` | `SurfaceQueueAbsProofs` |
| `SurfaceQueue` | the queue's lists and nodes with the default and the sequence implementation, its producer and its consumer | `sq_*` | `SurfaceQueueProofs`, with the refinement of `SurfaceQueueAbs` |
| `QueueSync` | mutexes and condition variables of the queue calls, with nodes reduced to counts | `qs_*` | `QueueSyncProofs` |
| `NotifyList` | one callback list, with loops that are interrupted by additions and removals | `nl_*` | `SurfaceQueueProofs` |
| `BufMgr` | the manager, its bos and their backend locks | `surf_*`, which take all its steps | `BufMgrProofs`, `SurfaceProofs` |
| `Surface` | surfaces, composed with `BufMgr` (EXTENDS) | `surf_*` | `SurfaceProofs` |
| `UserData` | user data of bos and surfaces, composed with `Surface` | `surf_data` | `SurfaceProofs` |
| `DebugData` | debug data of surfaces, composed with `UserData` | `surf_data` | `SurfaceProofs` |
| `Dump` | the ring of dump buffers, composed with `Surface` | `surf_dump` | `SurfaceProofs` |
| `LockOrder` | threads that run sequences of lock, unlock and use | `locks` | `LockOrderProofs` |
| `TbmLocks` | those sequences for the functions of the library | `locks` | — |
| `Fds` | the descriptors of a process, the environment variables of the DRM helpers | `fds` | `StartupProofs` |
| `DrmAuth` | server and client of the authentication protocol, on `Fds` | `fds` | `StartupProofs` |
| `Loader` | how a backend module is found, on `Fds` | `fds` | `StartupProofs` |
| `Sync` | timelines, fences and the wait, on `Fds` | `fds` | `StartupProofs` |
| `Startup` | `DrmAuth`, `Loader` and `Sync` in one process | `fds` | `StartupProofs` |

`MC*.tla` give the constants their small values.  `PROJECT.json` maps every
definition to the lines it translates.

### How state and actions correspond to the code

**ListHead.** A heap is a pair of functions `next` and `prev`.  An operator
gives the heap after the last assignment of the C function, also when cells
coincide or links are stale.

**SurfaceQueue.** `q` is the `struct _tbm_surface_queue`: `heap` holds the
links of the three list heads and of every node's `item_link`, `list` is the
node list, `type` and `priv_flags` are the node's fields.  A node and the
surface it carries come and go together and are one value.  `uaf` records a
write through a link into a node that has been freed.  A call is one action,
since it holds both locks from its first to its last access; the exception is
`need_attach` with an `alloc_cb` (1657-1662), which splits dequeue and
can_dequeue into two.  `Enqueue` and `Release` take any surface, as the API
does, and return the error the code returns.  `prod`, `cons` and `order` are
history: what clients hold, and the order in which frames are due.
`manner` says how the clients of the process behave, and its `liberties` what they do
beyond the plain cycle.

**QueueSync.** `G` and `L` are the holders of the global and the queue's
mutex, `pc[t]` the place between two lock operations at which thread `t` is.
The labels are grouped into `HoldsG` and `HoldsL` by the code's lock and unlock
calls.  The nodes are reduced to the number in each state.  `stale` records a
dereference of a destroyed queue by the place it happened at, and `overbooked` is
history: threads were in `alloc_cb` together for more surfaces than there was room
for, or the size went below what was attached.  Destroy takes the global mutex only
and may come at any moment; what freed memory holds is undefined, and the model
goes on as if it were intact.  The queue is looked up where the code does it
(`Precheck`, `LockG`, `AttachBody` of can_dequeue, `Woken`) and nowhere else.

**NotifyList.** `walk[w]` holds the loop of an emitting thread: `pos` and
`storage` are the two variables of `LIST_FOR_EACH_ENTRY_SAFE`.  `stay` and
`count` are history.

**BufMgr.** `m` is the manager, with the record of each live bo.  `held` is
the backend's side: how many `bo_lock` calls on an object are not undone.
`refs`, `maps` and `inits` record what clients hold.  `Map` is the part of
`tbm_bo_map` that needs no backend lock; otherwise `MapLock`, `BackendLock` and
`MapLocked` are the three parts around the dropped mutex.

**Surface.** adds `surf_list`, `g_surface_bufmgr` (`surfMgr`) and the walk of
`tbm_surface_internal_get_info` over the bos of a surface.  `QueryFormats` is
`tbm_surface_internal_query_supported_formats`, which on success keeps the manager
it initialised although there is no surface.

**UserData.** `user_data_list` is the list of each bo and surface, newest entry
first.  `given` is the set of data that clients handed to an entry with a free
function and that were not freed since.  Every step of `Surface` that ends the
life of an object also deletes the entries of its list (`DestroyLists`).

**Dump.** `dump` is `g_dump_info`: the ring in the order of `surface_list`, the
place of `link` (0 for the list head) and `count`.  A buffer records the number
in its file name and the frames its pixels and its `info` came from, so that a
frame that is dropped half way shows.  `frames` is history.  Calls are one step
each, and map surfaces and bos through operators that give every outcome of
`tbm_bo_map`.

**DebugData.** `debug_data_list` is the list of each surface, `debug_key_list`
the keys of the manager; `latest` is history.  Values are sequences, because
`set_debug_data` compares prefixes (`tbm_surface_internal.c:1384`).

**LockOrder, TbmLocks.** A function is the sequence of its lock and unlock calls
and its uses of shared lists, with the functions it calls put in; where it
repeats a call for every bo or surface, the sequence has it once.  A "walk" is the
emission of callbacks, which comes after the unlock.  A `Suspect` function is one
that is known to break the discipline.

**Fds, DrmAuth, Loader, Sync, Startup.** `fds[p]` is the table of a process,
`held[p][u]` the numbers the application or the backend believes to have, with
the kind of file.  A wayland connection is two queues; an error, which ends a
connection, also stands for a cut.  `auth[c]` is the call of `get_auth_info` with
the fields of its structure, `load[p]` the manager being loaded, `wait[p]` the
call of `fence_wait`.  A module is open from `dlopen` on and closed on each of the six
ways in which it can fail after that.  `Magic` is what `drmAuthMagic` was given for a
descriptor: the server goes on with 0 when `drmGetMagic` fails with EACCES
(`tbm_drm_helper_server.c:80-88`).  A module's init function takes many steps, since it calls
`tbm_backend_init` and the helpers.

## 3. Runs

Every run ends within seconds or a few minutes.  Deadlock is checked except
where threads may wait for good (`qs_*`, `locks`) and where a process may have
nothing left to do (`fds`).

| Run | Instance | Shows |
|---|---|---|
| `sq_queue` | default and sequence queue, 3 surfaces, sizes 1 to 3, cancelled surfaces (default queue), flushes while surfaces are out, `alloc_cb` window; and a queue shrunk below what is attached with one surface out | lists stay sound, no surface is handed out twice, what the waits test is right, frames come in the order of enqueue (default) or dequeue (sequence) calls, no held surface is taken away by `set_size`, and both implement `SurfaceQueueAbs` |
| `sq_shrink_busy` | shrinking with two surfaces out | *violation*, finding 1 |
| `qs_race` | two producers and a thread that acquires, releases, flushes, resets, resizes (1 and 2) and destroys, 2 calls each, `alloc_cb`, waits, spurious wakeups; 1.06 million states | mutexes are given back on every path but one; every surface is counted whatever happens in the `alloc_cb` window; `queue_size` is exceeded only by threads in the window together or by shrinking; a destroyed queue is used only in the stretches without a lock, after `alloc_cb` and around a wait |
| `qs_poll` | three threads, no waits, `alloc_cb` | every call returns |
| `qs_handoff` | a producer and a consumer that wait for each other, 6 calls each | answers are true, no wakeup is lost, and calls end except in the lock cycle described below |
| `nl_self` | 3 items, two emitting threads, additions at any time, a callback of a thread that emits alone removes itself | no freed item is read, each callback is called once, and an emission goes on for ever only while callbacks are added for ever |
| `nl_any` | callbacks that remove any item | *violation*, finding 2 |
| `surf` | 2 threads, in several environments: 2 surfaces that share 2 bos with lock type never; one surface of two bos mapped by both threads, arrays with a NULL bo, maps that fail half way | reference counts, unique backend objects, back pointers and the manager's life through failed creations and queries of formats; nothing stays mapped or locked; no bo is freed in the window of `_tbm_bo_lock` |
| `surf_data` | 1 thread; 2 bos and a surface with 2 keys and 2 data and a backend with `surface_bo_alloc`, or surfaces with debug data | a datum given away has one owner until it is freed, and goes with its object; the printout shows the value set last or a beginning of it, under keys listed once |
| `surf_dump` | 1 thread, lock type once, a ring of up to 2 buffers, 3 frames, arrays with a NULL bo, every map may fail | the ring keeps the latest frames, reference counts include the ring's, the backend lock is taken and undone once also in nested maps |
| `locks` | 3 threads, 29 functions, 6 mutexes, 4 lists; 1.3 million states | threads block each other for ever, or are in one list at once, only if one of them is in one of nine named functions; or, for the lists of callbacks, if one changes what the other is calling |
| `fds` | one process that is server and client, 3 numbers, 2 modules, 2 calls of `get_auth_info`, one timeline, timeouts 1 and none, one signal | a number its user has not closed is the file it got; each DRM descriptor has one owner; the module that is open is the one in use; `fence_wait` answers truly; calls return unless the server never answers or goes down |

Why the bounds are enough.  Three surfaces give a queue with one surface in
each of free, dirty and out, or two in a line whose order matters; a fourth
is needed only where a shrunk queue has to be over its size with a surface
still in each place.  One producer in `SurfaceQueue` is enough because calls
are atomic and the threads meet in `QueueSync`.  In `qs_handoff` six calls are
two full rounds of can_dequeue, dequeue, enqueue against can_acquire, acquire,
release.  Two calls of each thread of `qs_race` let both producers be in `alloc_cb`
while the third thread changes the size and destroys or empties the queue; a size
of one and of two make one of them too many or not.  Three items give a callback
with a neighbour on both sides; additions have no bound, and an item that was
removed and freed can be added again at its address.  Two bos and two backend objects are
enough for sharing, swapping and half-way failures; `UIntMod` stands for 2^32
and only has to exceed the number of bos.  The field `maps` of an environment
limits how many mappings there are when another one is begun: with two, a
surface and a bo are mapped by two threads at once.  Two keys and two data let an entry
be replaced and a list have two; three entries reach over several objects.  A
ring of two and three frames wrap once, with a frame dropped before and after;
`CountMod` stands for the 1000 at which file numbers restart, and `MaxHeld` keeps
one bo in the client's hands next to the surface's and the ring's.  Three threads are enough for a cycle of any two
functions with a third in between; `LockOrderProofs` has any number.  Three
numbers let a descriptor be received, duplicated and used again for another
file, and run out; two modules let one fail after `tbm_backend_init` before the
other is tried.  The combinations in `Processes` pair the parts that share
descriptors.  Symmetry is used over surfaces,
threads, bos and backend objects, in runs without liveness properties, where no
definition tells the members apart.

### Fairness

`QueueSync` assumes weak fairness of `Step(t)`: a thread that is inside an API
function and can go on eventually does.  Nothing is assumed of clients (they
may stop between calls), of the order in which a mutex is granted, or of
spurious wakeups.  Weak fairness on a mutex is justified here because the
number of calls is finite, so a mutex is eventually left free to its waiters.
`EveryCallReturns` gives up on a call once a destroyed queue was used.
`NotifyList` assumes that callbacks return, not that additions come to an end:
the loop runs on to what a callback appends, so `EmissionEnds` says that an emission
ends or infinitely many callbacks are added.  `Startup` assumes that a client
dispatches what has arrived, that time passes and that the kernel ends an ioctl
whose reason to wait is over.  Nothing is assumed of the server, of the application,
of when a connection is cut, or of signals, of which a wait sees at most
`MaxInterrupt`: a roundtrip has no timeout, so `CallsReturn` names a server that
leaves a request unanswered for ever, and one that goes down and aborts its client.

### What the violations show (findings)

1. A release on a shrunk queue (1258) detaches the node with `LIST_DEL` on
   stale links.  When the consumer holds s2, the producer enqueues s1, the
   queue is shrunk and s2 is released, `dirty_queue` becomes empty and the
   frame s1 is lost.
2. `_notify_emit` (443) is safe for a callback that removes itself, but not for
   one that removes the callback after it, which the comment at 440 allows: with
   two callbacks the first removes the second, and the loop goes on to freed memory.

### Observations the models make explicit

These are stated as parts of properties or as assumptions.

* `can_dequeue` and `can_acquire`, once woken, hold the queue's mutex and take
  the global one (1211, 1368), every other call takes them in the opposite
  order: a woken thread and a caller can block each other.  `Settles` names this
  state (`LockCycle`) as one of the ways in which calls end.
* `need_attach` compares with `==` (1654) and does not look again after
  `alloc_cb`: two producers in the window exceed `queue_size`, and then nothing
  stops further attaches.  `AttachBound` excepts this and a queue that was shrunk
  below what is attached (`overbooked`), until the queue is emptied.
* A woken waiter answers 1 without another look at the queue: with a spurious
  wakeup, a flush or a second consumer the answer can be wrong.
  `AnswerHonest` is stated for one thread on either side.
* `flush`, `reset` and `set_size` signal `free_cond` only, the detaching branch
  of release and `destroy` signal nothing: a thread that sleeps on `dirty_cond`
  through a flush is not woken.
* With lock type once, two threads that see `lock_cnt` 0 both lock the backend,
  and map, map, unmap of one bo unlocks the backend while a mapping is left.
  `LockBalance` for this lock type is checked with one thread (`surf_dump`).
* After a failed `create_with_bos` the bos it was given keep a `surface` pointer
  to the freed surface.  `BackPointers` is checked without such failures.
* The `surface_bo_alloc` path (`tbm_surface_internal.c:717`) links a bo without
  `bo_cnt++`, and `tbm_bo_unref` uncounts it: `bo_cnt`, documented as "number of
  bos" (`tbm_bufmgr_int.h:242`), wraps below zero.  `CountExact` is checked for
  backends without this function.
* A frame whose dump buffer does not map, or whose format is unknown, has
  already replaced the buffer's `info`, or cleared its pixels
  (`tbm_surface_internal.c:1811`, 1821): the oldest frame in the ring is spoilt
  although nothing takes its place.  `RingHoldsLatest` says that it is the only
  one.
* `tbm_bufmgr_debug_dump_all` ends a queue dump that is running, since
  `dump_start` only warns and `dump_end` does not know who started.
* Setting a datum that the entry already owns frees it and keeps the pointer
  (`tbm_bufmgr.c:1331`); clients are assumed to pass data they have not given
  away.
* The order of the mutexes is queue list, queue, surface, `gLock`,
  `tbm_bufmgr_lock`.  Against it go `tbm_bo_alloc` from 500 bos on, which prints
  (`tbm_bufmgr.c:877`) with `tbm_bufmgr_lock` and takes `gLock`; the dumps (1607,
  1621), which hold `gLock` and take the surface lock; a woken waiter of a queue
  (`tbm_surface_queue.c:1211`); and a destroy callback or `free_cb` that calls the
  queue (1406, 367).  `debug_show` walks `surf_list` and `bo_list` with `gLock`
  only, and `surface_bo_alloc` (`tbm_surface_internal.c:701`) writes `bo_list` under
  `bufmgr->lock`, which nothing else takes.  These are the `OutOfOrder` functions;
  the two properties of `locks` are about all others.  The lists of callbacks are
  walked after both mutexes are dropped, so a walk meets the additions and removals
  of other threads; `OnlySuspectsRace` names this too, and `NotifyList` has what
  comes of it.
* `tbm_bufmgr_init` warns that it does not use its argument (`tbm_bufmgr.c:626`),
  but the last `deinit` closes it (761).  An application that closed it itself
  closes another file's number then; `HeldIsRight` excepts such processes.
* `get_auth_info` whose connection fails after the descriptor was received loses
  it (`tbm_drm_helper_client.c:140-147`); `FdsAccounted` excepts this path.
* `registry_listener` has no function for `global_remove`
  (`tbm_drm_helper_client.c:87`): a server that goes down while a client asks ends
  the client.  The server's resources keep a pointer to the freed structure
  (`tbm_drm_helper_server.c:190`), and since its socket stays, a later init fails.
* `get_master_fd` reads `TDM_DRM_MASTER_FD`, `set_tbm_master_fd` and
  `unset_tbm_master_fd` write `TBM_DRM_MASTER_FD`.
* `fence_wait` restarts with the whole timeout after a signal
  (`tbm_sync.c:156`); `WaitAnswers` gives the exact bound.
* A module whose init function returns 1 without `tbm_backend_init`, after one that
  failed behind it, is taken for the owner of the other's backend, whose code is
  closed (`tbm_bufmgr.c:530`).  The model does the same, and no property says that the
  backend is that of the open module.
* A debug value that begins with the old one is not stored, and every other change
  adds a second entry with the key (`tbm_surface_internal.c:1384`, 1410).
* `get_surfaces` writes `*num` before it tests `num` (`tbm_surface_queue.c:1615`,
  1619).
* `tbm_bufmgr.h:186-189` describes the lock types otherwise than the code has
  them: the default is always, not once; with once a second bo can be locked
  while the first is (`tbm_bufmgr.c:356`); and `never` has no effect, because
  the code compares with `none` (`tbm_bufmgr.c:676`).
* A bo imported twice has two references (`tbm_bufmgr.c:953`);
  `tbm_bufmgr.h:542` says one.
* `can_dequeue` returns with the queue's mutex locked if the queue turns invalid
  during `alloc_cb` (1194-1198); that mutex was destroyed with the queue.
  `LockOwnership` allows it on a destroyed queue only.
* Callbacks before and after the locked part (1118, 1180), the return from
  `alloc_cb` (1660) and the waits (1210) use a queue that a destroy of another
  thread may have freed: `StaleOnlyUnlocked` lists these places.
* `drmGetMagic` that fails with EACCES is tolerated and `drmAuthMagic` is called
  with 0 (`tbm_drm_helper_server.c:80-88`); `HeldIsRight` says no more than that
  `drmAuthMagic` accepted what it was given.

## 4. Proofs

All proofs are for every value of the constants, from the assumptions named in
the modules (`SurfaceQueueAssumption`, `QueueSyncAssumption`,
`NotifyListAssumption`, `BufMgrAssumption` and the ones of the modules over
`BufMgr`, `LockOrderAssumption`, `FdsAssumption` and the ones of the modules over
`Fds`).

* `ListHeadProofs`: `list_inithead`, `list_add` and `list_addtail` of a cell from
  outside, and `list_del` of a linked cell, keep the rest of a set of cells
  well linked, for any number of cells.  `Chain` says that the links lead from a
  head along a given sequence of cells and back, `Linked` that several heads have
  disjoint chains; the lemmas give the sequences after each list operation
  (`LinkedAddTail` appends, `LinkedDelFirst` takes the tail), and `WalkChain` says
  that a `LIST_FOR_EACH_ENTRY` visits exactly the chain.
* `SurfaceQueueAbsProofs`: `OnePlaceTheorem` and `BoundedTheorem`.  The inductive
  invariant is `TypeOK /\ OnePlace /\ Bounded`: the bound alone is not inductive,
  because `NumAttached` adds lengths and a cardinality, and a surface that moves
  is counted once only if it was in one place.  Lemmas say what appending,
  dropping and concatenating do to the elements of a line.
* `SurfaceQueueProofs`: `ListsStaySound`, `AttachCountExact`, `WaitsAreJustified`,
  `DeliveredInOrder`, `NeverUsesFreedNode`, `HeldSurfacesStay` and `Refinement`
  (`Spec => Implements`), for any set of surfaces, any sizes, any number of
  surfaces in flight and both implementations; see below.
* `StartupProofs`: `ManagerHasOneModule`, `FenceWaitAnswers`,
  `HeldDescriptorsRight`, `DescriptorsAccounted`, for any number of processes,
  descriptor numbers, modules and timelines; see below.
* `QueueSyncProofs`: `TypeTheorem`, `LockOwnershipTheorem`,
  `ConservationTheorem`, `AttachBoundTheorem`, `StaleOnlyUnlockedTheorem`, for any
  number of threads, calls and any sizes, with a destroy at any moment.  `IInv` adds
  to the properties which calls are in the `alloc_cb` window (`WindowOK`) and that a
  thread between its look-up and the unlock of the global mutex has a live queue
  (`LookedUp`).  `AttachBound` is not inductive: `Booked` counts the threads in the
  window with what is attached.
* `QueueSyncProofs` also has, with one producer, one consumer, nobody who flushes
  and no spurious wakeup, `NoLostWakeupTheorem` and `AnswerHonestTheorem` for any
  number of calls and any queue size.  `HInv` follows a sleeper through its life:
  what it decided on stays true until it sleeps (`Sleepy`), a signal under way
  comes after its surface (`Coming`), the surface is still there when it wakes
  (`Woke`) and when it answers (`Answered`).
* `SurfaceQueueProofs` also has the callback lists of a queue: `LinksSoundTheorem`
  for any list length and any mix of additions, removals and emissions, and, for
  any number of emitting threads and any `Removal` but "any" (finding 2 is what
  happens with it), `NoFreedReadTheorem` and `CalledOnceTheorem`.  `LInv` adds to
  the links that a list is not emitted while it is torn down.  `NInv` places every
  loop in a list that changes under it, at addresses that are used again: there is
  an order of the items, the numbers of the additions that linked them, in which
  the links run (`Ordered`), and a rank for every loop up to which it has called
  each item that stays once and beyond which none (`WalkOK`); its two pointers are
  the next items after it (`NextUp`).
* `BufMgrProofs` and `SurfaceProofs`: threads, bos, surfaces, the dump and client
  data, for any number of each; see below.
* `LockOrderProofs`: `NoDeadlock` and `NoRace`, for any number of threads, any
  functions, mutexes and lists, from `Discipline`, which says of each function
  alone that it unlocks what it locks and, unless it is a suspect, takes mutexes
  in order and uses lists, which is more than to walk them, under their guard.  TLC evaluates `Discipline` for the
  functions of libtbm (`ProgramsKeepDiscipline` in `MCLocks`).  The inductive
  invariant says that a thread owns exactly the mutexes that its function has
  locked so far, and owes nothing between calls.  A circle of waiting threads
  then has one whose mutex is of the highest rank in it, and the thread that has
  this mutex waits for one of a higher rank.

### The proof of the surface queue

The hypothesis of the theorems is `TameClients`, on the constant `Manners`: no
client shrinks a queue by more surfaces than are free, and if clients set an
`alloc_cb` there is one producer.  Both are needed.  With the first dropped,
`release` detaches nodes through stale links and loses a frame (finding 1,
`sq_shrink_busy`); with the second dropped, two producers inside `alloc_cb` both
attach and exceed `queue_size` (section 3), after which `need_attach`, which
tests for equality, attaches without end.  Everything else is allowed: cancelled
dequeues, flush, reset, resize and destroy while surfaces are out, failing
allocations, and surfaces passed to the wrong function.  `sq_queue` also covers a
queue that is shrunk while one surface is out, which the theorems do not.

The properties are not inductive, since they see the links only through walks.
`IInv` has these parts.

* `QueueOK(q, QueueLines)`: the links of the three heads form chains along
  `QueueLines`, which share no node; their nodes are in the node list, which has
  no node twice and whose length is `num_attached`.  Of a node on no list it says
  nothing, because its links are stale.
* `Custody`: every node is either on a list or with a client, and its type and
  `priv_flags` tell which.  This is what `list_del` on a node relies on: a node
  that dequeue or acquire pops is on the list it is popped from, and one that
  enqueue or release pushes is on none.
* `FirstOut`: the head of a sequence queue's `dequeue_list` is still with its
  producer, or enqueue would have moved it on.  `WaitJustified` needs it.
* `InOrder`: the history `order` is the concatenation of the lines.
* `Room`: a producer inside `alloc_cb` has a place kept.  `num_attached <=
  queue_size` alone is not inductive, since the attach after the window does not
  look at the size again.
* `Clients` (types, and that a destroyed queue has no nodes) and
  `NoUseAfterFree` itself.

Each action has a lemma that gives `IInv'` and `Step`, which says what the
call did to the two waiting lines: attached one surface, moved one or a batch, dropped
the oldest free ones, or emptied the queue.  `HeldSurfacesStay` and
`Refinement` follow from `Step`.  The loops over lists (`SequenceEnqueue`,
`set_size`, flush) are folds; `FoldExists` gives the sequence of queues a fold
goes through, and the proofs go along it by induction on a set of naturals
(`Induct`), which needs no operator parameter.  The deletion of all nodes by
flush is the delicate loop: nodes that are out have stale links, so what it
writes may spoil any link of a node, and the lemma only keeps that the heap is
well typed and, if nothing was out, that no freed node was touched; the heads
are initialised after it.

### The proof of bos and surfaces

`Meets(mgr, w, u, k, P)` says of a manager alone that it is what is expected of
it: `w[b]` references and `u[b]` mappings of every bo `b`, which lives as long as
`w[b]` is not 0; `k[b]` locks that the backend has given and `lock_cnt` does not
count yet; back pointers only among the pairs `P`; a backend object for each bo of
its own; and `bo_cnt`.  `BufMgrProofs` has a lemma for each function of
`tbm_bufmgr.c` and each loop of a surface over its bos, which gives the numbers
that are met afterwards: `BoUnrefMeets` has one reference less and, if it was the
last, no mapping; a loop has one less for each time that a bo occurs in it.

`SurfaceProofs` puts in the numbers that the variables of the specification stand
for.  `SurfInv(x)` says that the manager meets the references of threads and
surfaces and those of others, `x`; the mappings of threads, of surfaces and of the
calls of `tbm_surface_map` that are half way; and the locks of threads that are
between `bo_lock` and the mutex.  It also says that who maps something or is in a
call holds a reference to it, which is what keeps a bo alive in the window, and
that a surface lives as long as it is held.  None of the properties is inductive
alone: `ref_cnt` could not be exact without the surfaces' lists, nor these without
`SurfacesHeld`, nor this without who is in a call.

* `WindowIsSafe`, `SharedRefsAreExact`, `ManagerRefsAreShared`, `SurfacesAreHeld`,
  `MappingIsAllOrNothing` and `BackPointersLead` have no hypothesis.
* `BoCountIsExact` has `~SurfaceBoAlloc`: a backend that allocates the bos of
  surfaces itself has them outside `bo_cnt` (`tbm_surface_internal.c:717`).
* `LocksAreBalanced` and `DumpLocksAreBalanced` have `LocksKept`: clients swap no
  locked bos, and with lock type once there is one thread.  Both are needed: a swap
  takes the locks along without their count, and of two threads that find
  `lock_cnt` 0 each takes the lock, where one unlock gives it back.
* `RingIsKept`: the invariant `DumpInv` adds to `RingHoldsLatest` that `link` is the
  buffer of the frame before and `count` its number modulo `CountMod`, for rings of
  any size.
* `RingRefsAreExact`: the invariant is `RingInv`, `SurfInv` with the references of
  the ring for `x`.  Start, frames, failures and end map, unmap and give up the
  buffers one by one, so the lemmas go along the same loops.
* `DataIsOwnedOnce`: `DataInv` has the owner of a datum as one pair of object and
  place, which an addition at the front and a deletion in the middle move.  The
  destruction of an object by any step of a thread, in whatever module, empties
  its list.
* `DebugDataIsShown`: `DebugInv` says of each list that its first entry with a key is
  the value shown, and of the keys that each that is in use is listed once.

### The proof of start-up

`IInv` of `StartupProofs` adds to the types: `ModuleInv`, a module is open from
`dlopen` until it fails and no other is; `WaitInv`, what a wait has spent
of its timeouts before it returns, and that a fence's points stay signalled;
`HandshakeInv`, at most one request and one answer of a handshake is under way,
and none once the descriptor is received; `OwnersInv`, no number has two owners
and a variable names a descriptor of somebody; `NoLeak`, every device has an
owner.  `HandshakeInv` is needed because an answer that could come twice would
overwrite the descriptor of the first.

### What has no proof

Only proved: `SurfaceQueue` with several producers, which no run has.

Only model-checked: liveness (`EveryCallReturns`, `Settles`, `EmissionEnds`,
`CallsReturn`), since the prover handles neither fairness nor ENABLED.  All other
properties of the passing runs have a theorem.

## 5. Assumptions and what is left out

* Callbacks of destroy and `free_cb` run with the global mutex held and are
  assumed not to call the queue, except in `locks`, where they are a suspect.
* A surface or bo that a client still holds a handle to is not reallocated at
  the same address.
* A thread uses the manager between its own init and deinit, passes bos and
  surfaces it holds a reference to, and unmaps before it gives up a reference
  that is not the last.  Bos that are locked are not swapped (`SwapBusy`).
* A process dumps from one thread, and the manager is not let go during a dump
  (`ManagerStays`): the ring has no reference to it, and `g_dump_info` no lock.
* Free functions of user data do not call the library, which holds the mutex of
  the object.
* `bo_unmap` of a mapped bo succeeds; an allocation or an import that fails
  changes nothing.  `tbm_bufmgr_init` succeeds in `BufMgr`: after a
  failure, which `Loader` has, `tbm_surface_internal.c:632` would dereference NULL.
* A user closes no number that an environment variable still names, and sets a
  variable to a DRM descriptor of its own.
* Surfaces of a sequence queue are not cancelled: its release of a dequeued
  surface leaves the node on `dequeue_list`.
* Calls that only read have no action in the modules of state; `TbmLocks` has the
  mutexes they take.
* `release` has an error path for a `free_queue` that is empty right after a push
  (`tbm_surface_queue.c:1277-1283`), which cannot be reached and is left out.

Not modelled, and why: plane geometry (`query_plane_data` and the sizes it gives
are the backend's); PNG and raw files of dumps and captures, logging and the
printout (output only); the names of formats and fences; `tbm_bo_export` and the
other calls that hand on what the backend answers; the capabilities of a backend;
libwayland, the kernel and modules themselves, which are external; the two constant
tables of formats; the unit tests, which are read as a description of what single
calls do.

## 6. Plan

Done, in this order: `ListHead`, `SurfaceQueueAbs`, `SurfaceQueue` and its
refinement, `QueueSync`, `NotifyList`, `BufMgr`, `Surface`, `UserData`, `Dump`,
`DebugData`, `LockOrder`, `TbmLocks`, `Fds`, `Sync`, `DrmAuth`, `Loader`, `Startup`,
and the proofs of section 4.

Next models: a queue shared by several consumers that wait, and dumps from several
threads.
