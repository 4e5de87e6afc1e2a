---------------------------- MODULE StartupProofs ---------------------------
(***************************************************************************)
(* The descriptors of a process, its loader, its handshakes with the       *)
(* display server and its waits for fences, for any number of processes,   *)
(* users, numbers, modules, timelines, calls and interrupts.               *)
(***************************************************************************)
EXTENDS Startup, FiniteSetTheorems, WellFoundedInduction, TLAPS

File ==
    {Free} \cup [kind : {"drm"}, auth : Magic]
           \cup [kind : {"timeline"}, id : Timeline]
           \cup [kind : {"fence"}, pts : SUBSET (Timeline \X Nat)]

Handle == [fd : Num, is : {"drm", "timeline", "fence"}]

FdsType ==
    /\ fds \in [Process -> [Num -> File]]
    /\ held \in [Process -> [User -> SUBSET Handle]]
    /\ env \in [Process -> [EnvVar -> Num \cup {NoFd}]]

Request == {"registry", "sync", "bind", "get"}

Info == [ev : {"info"}, auth : Magic]

Event == [ev : {"global", "global_remove", "done", "error"}] \cup Info

Idle ==
    [pc : {"none", "aborted"}, calls : Nat, cut : BOOLEAN]
      \cup [pc : {"none"}, calls : Nat, ret : {0, 1}, cut : BOOLEAN]

Calling ==
    [pc : {"globals", "info"}, calls : Nat, cut : BOOLEAN, user : User,
     want : BOOLEAN, wl_auth : BOOLEAN, auth_fd : Num \cup {NoFd}]

AuthType ==
    /\ auth \in [Client -> Idle \cup Calling]
    /\ requests \in [Client -> Seq(Request)]
    /\ events \in [Client -> Seq(Event)]

Manager ==
    [pc : {"down", "try", "open", "init", "up"}, inits : Nat, fd : Num \cup {NoFd},
     at : Nat, open : SUBSET Nat, backend : BOOLEAN, priv : BOOLEAN,
     closed : BOOLEAN]

LoadType == load \in [Process -> Manager]

Waiting ==
    [pc : {"ioctl"}, fd : Num, pts : SUBSET (Timeline \X Nat), timeout : Int,
     left : Int, ticks : Nat, interrupts : Nat]

Returned ==
    [pc : {"returned"}, ret : {1, 0, -1}, pts : SUBSET (Timeline \X Nat),
     timeout : Int, ticks : Nat, interrupts : Nat]

Wait == {NoWait} \cup Waiting \cup Returned

SyncType ==
    /\ value \in [Timeline -> Nat]
    /\ wait \in [Process -> Wait]

\* The descriptors, the handshakes, the loader and the waits have their types;
\* in particular drmAuthMagic has refused no device that an event carries or a
\* table holds.
TypeOK == FdsType /\ AuthType /\ LoadType /\ SyncType
-----------------------------------------------------------------------------
\* A module is open from dlopen until it fails; all before it are closed.
OpenIsRight(r) ==
    /\ r.pc \in {"down", "try"} => r.open = {}
    /\ r.pc \in {"open", "init", "up"} => r.open = {r.at}

ModuleInv == \A p \in Process : OpenIsRight(load[p])

\* What a wait that has not returned has spent of its timeouts.
TicksRight(w) ==
    w.pc = "ioctl" =>
        \/ w.timeout < 0 /\ w.left < 0
        \/ /\ w.left \in 0 .. w.timeout
           /\ w.timeout - w.left <= w.ticks
           /\ w.ticks + w.left <= w.timeout * (w.interrupts + 1)

\* What a wait that has returned says, with these values of the timelines.
AnswerRight(val, w) ==
    w.pc = "returned" =>
        /\ w.ret = 1 => \A pt \in w.pts : val[pt[1]] >= pt[2]
        /\ w.ret = -1 =>
             w.timeout >= 0 /\ w.ticks \in w.timeout .. w.timeout * (w.interrupts + 1)

WaitInv == \A p \in Process : TicksRight(wait[p]) /\ AnswerRight(value, wait[p])

\* Where the members of S are in a sequence, and that there is one at most.
Places(s, S) == {i \in 1 .. Len(s) : s[i] \in S}
Once(s, S) == \A i, j \in Places(s, S) : i = j

\* At most one descriptor is asked for, under way or received on a connection.
ShakesRight(call, reqs, evs) ==
    LET gets == Places(reqs, {"get"})
        infos == Places(evs, Info)
    IN  IF call.pc \in {"globals", "info"}
        THEN /\ Once(reqs, {"get"}) /\ Once(evs, Info)
             /\ gets = {} \/ (infos = {} /\ call.auth_fd = NoFd)
             /\ infos = {} \/ call.auth_fd = NoFd
             /\ call.pc = "globals" => gets = {} /\ infos = {} /\ call.auth_fd = NoFd
        ELSE reqs = << >> /\ evs = << >>

HandshakeInv == \A c \in Client : ShakesRight(auth[c], requests[c], events[c])

\* The call of get_auth_info in p has received the number n.
Received(p, n) == p \in Client /\ Connected(p) /\ auth[p].auth_fd = n

\* A step that leaves the descriptors alone takes a received one away from a
\* call only when the connection is cut, and forgets no cut and no close.
CallsKeep ==
    /\ \A p \in Process : load[p].closed => load'[p].closed
    /\ \A c \in Client :
         /\ auth[c].cut => auth'[c].cut
         /\ \A n \in Num :
              /\ Received(c, n)' => Received(c, n)
              /\ Received(c, n) => Received(c, n)' \/ auth'[c].cut

Rcv(p) == {n \in Num : Received(p, n)}

\* A number has one owner, a user or a call, and the file is what its owner
\* believes.  A number in a variable has an owner as well.
OwnersRight(table, has, vars, rcv) ==
    /\ \A u \in User : \A h \in has[u] : table[h.fd].kind = h.is /\ h.fd \notin rcv
    /\ \A u1, u2 \in User : \A h1 \in has[u1], h2 \in has[u2] :
         h1.fd = h2.fd => u1 = u2 /\ h1 = h2
    /\ \A n \in rcv : table[n].kind = "drm"
    /\ \A v \in EnvVar : vars[v] # NoFd =>
         \E u \in User : [fd |-> vars[v], is |-> "drm"] \in has[u]

OwnersInv ==
    \A p \in Process : load[p].closed \/ OwnersRight(fds[p], held[p], env[p], Rcv(p))

\* No device is without an owner, unless a cut has cost it its own.
AllOwned(table, has, rcv) ==
    \A n \in Num : table[n].kind = "drm" =>
        n \in rcv \/ \E u \in User : \E h \in has[u] : h.fd = n

NoLeak ==
    \A c \in Client : load[c].closed \/ auth[c].cut \/ AllOwned(fds[c], held[c], Rcv(c))

IInv == TypeOK /\ ModuleInv /\ WaitInv /\ HandshakeInv /\ OwnersInv /\ NoLeak
-----------------------------------------------------------------------------
(* The loader.                                                             *)

LEMMA UnloadedIsManager == Unloaded \in Manager /\ OpenIsRight(Unloaded)
  BY DEF Unloaded, Manager, OpenIsRight

LEMMA LoadInitial == StartupInit => LoadType /\ ModuleInv
  BY UnloadedIsManager DEF StartupInit, LoaderInit, LoadType, ModuleInv

\* A step of the program changes the manager of one process by one of these.
LEMMA LoadSteps ==
    ASSUME [StartupNext]_startupVars
    PROVE  \/ UNCHANGED load
           \/ \E c \in Client : load' = [load EXCEPT ![c] = Unloaded]
           \/ \E p \in Process : Loads(p)
  BY DEF StartupNext, startupVars, Auth, Dies

\* The manager goes on with another module, or there is none.
LEMMA TryNextIsManager ==
    ASSUME NEW r \in Manager, r.open = {}
    PROVE  TryNext(r) \in Manager /\ OpenIsRight(TryNext(r))
  <1>1. [r EXCEPT !.at = @ + 1, !.pc = "try"] \in Manager
    <2>1. r.at + 1 \in Nat
      BY DEF Manager
    <2> QED BY <2>1, Zenon DEF Manager
  <1>2. [Unloaded EXCEPT !.inits = r.inits, !.open = r.open, !.closed = r.closed]
          \in Manager
    <2>1. r.inits \in Nat /\ r.open \in SUBSET Nat /\ r.closed \in BOOLEAN
      BY DEF Manager
    <2> QED BY <2>1, UnloadedIsManager, Zenon DEF Manager
  <1>3. OpenIsRight(TryNext(r))
    BY <1>1, <1>2 DEF TryNext, OpenIsRight, Manager, Unloaded
  <1> QED BY <1>1, <1>2, <1>3 DEF TryNext

\* The manager has its type after every step, and what is open follows the
\* steps of the module that is tried.
LEMMA LoadStep ==
    ASSUME LoadType, ModuleInv, [StartupNext]_startupVars
    PROVE  LoadType' /\ ModuleInv'
  <1> USE DrmAuthAssumption
  <1>1. CASE UNCHANGED load
    BY <1>1 DEF LoadType, ModuleInv
  <1>2. ASSUME NEW p \in Process, NEW r \in Manager, OpenIsRight(r),
               load' = [load EXCEPT ![p] = r]
        PROVE  LoadType' /\ ModuleInv'
    BY <1>2 DEF LoadType, ModuleInv
  <1>3. ASSUME NEW p \in Process, Loads(p)
        PROVE  \E r \in Manager : OpenIsRight(r) /\ load' = [load EXCEPT ![p] = r]
    <2> DEFINE m == load[p]
    <2>0. m \in Manager /\ OpenIsRight(m)
      BY DEF LoadType, ModuleInv
    <2>1. ASSUME NEW fd \in Num \cup {NoFd}, BufmgrInit(p, fd)
          PROVE  \E r \in Manager : OpenIsRight(r) /\ load' = [load EXCEPT ![p] = r]
      <3> DEFINE r == [Unloaded EXCEPT !.pc = "try", !.inits = m.inits + 1,
                                       !.fd = fd, !.at = 1, !.open = m.open,
                                       !.closed = m.closed]
      <3>1. m.inits + 1 \in Nat /\ m.closed \in BOOLEAN /\ m.open = {}
        BY <2>0, <2>1 DEF Manager, OpenIsRight, BufmgrInit
      <3>2. r \in Manager
        BY <3>1, UnloadedIsManager, Zenon DEF Manager
      <3>3. OpenIsRight(r)
        BY <3>1 DEF OpenIsRight, Unloaded
      <3>4. load' = [load EXCEPT ![p] = r]
        BY <2>1 DEF BufmgrInit
      <3> QED BY <3>2, <3>3, <3>4
    <2>2. CASE DlOpenFails(p)
      <3>1. m.open = {}
        BY <2>0, <2>2 DEF DlOpenFails, OpenIsRight
      <3> QED BY <2>0, <2>2, <3>1, TryNextIsManager DEF DlOpenFails
    <2>9. CASE DlOpen(p)
      <3> DEFINE r == [m EXCEPT !.pc = "open", !.open = @ \cup {m.at}]
      <3>1. r \in Manager
        BY <2>0 DEF Manager
      <3>2. OpenIsRight(r)
        BY <2>0, <2>9 DEF OpenIsRight, DlOpen, Manager
      <3>3. load' = [load EXCEPT ![p] = r]
        BY <2>9 DEF DlOpen, LoadType
      <3> QED BY <3>1, <3>2, <3>3
    <2>3. CASE ModuleInit(p)
      <3> DEFINE r == [m EXCEPT !.pc = "init"]
      <3>1. r \in Manager
        BY <2>0 DEF Manager
      <3>2. OpenIsRight(r)
        BY <2>0, <2>3 DEF OpenIsRight, ModuleInit, Manager
      <3>3. load' = [load EXCEPT ![p] = r]
        BY <2>3 DEF ModuleInit, LoadType
      <3> QED BY <3>1, <3>2, <3>3
    <2>4. ASSUME NEW priv \in BOOLEAN, BackendInit(p, priv)
          PROVE  \E r \in Manager : OpenIsRight(r) /\ load' = [load EXCEPT ![p] = r]
      <3> DEFINE r == [m EXCEPT !.backend = TRUE, !.priv = priv]
      <3>1. r \in Manager
        BY <2>0 DEF Manager
      <3>2. OpenIsRight(r)
        BY <2>0, <2>4 DEF OpenIsRight, BackendInit, Manager
      <3>3. load' = [load EXCEPT ![p] = r]
        BY <2>4 DEF BackendInit, LoadType
      <3> QED BY <3>1, <3>2, <3>3
    <2>5. ASSUME m.pc \in {"open", "init"}, load' = [load EXCEPT ![p] = TryNext(DlClose(@))]
          PROVE  \E r \in Manager : OpenIsRight(r) /\ load' = [load EXCEPT ![p] = r]
      <3>1. DlClose(m) \in Manager /\ DlClose(m).open = {}
        BY <2>0, <2>5 DEF OpenIsRight, Manager, DlClose
      <3>2. TryNext(DlClose(m)) \in Manager /\ OpenIsRight(TryNext(DlClose(m)))
        BY <3>1, TryNextIsManager
      <3>3. load' = [load EXCEPT ![p] = TryNext(DlClose(m))]
        BY <2>5
      <3> QED BY <3>2, <3>3
    <2>6. CASE ModuleRejected(p) \/ ModuleInitFails(p)
      BY <2>5, <2>6 DEF ModuleRejected, ModuleInitFails
    <2>7. CASE ModuleInitReturns(p)
      <3>1. CASE load' = [load EXCEPT ![p].pc = "up"]
        <4> DEFINE r == [m EXCEPT !.pc = "up"]
        <4>1. r \in Manager /\ OpenIsRight(r)
          BY <2>0, <2>7 DEF OpenIsRight, Manager, ModuleInitReturns
        <4> QED BY <3>1, <4>1
      <3> QED BY <2>5, <2>7, <3>1 DEF ModuleInitReturns
    <2>8. CASE BufmgrDeinit(p)
      <3> DEFINE r == [Unloaded EXCEPT !.inits = m.inits, !.open = m.open \ {m.at},
                                       !.closed = m.closed \/ m.fd > 0]
      <3>1. m.inits \in Nat /\ m.open = {m.at} /\ (m.closed \/ m.fd > 0) \in BOOLEAN
        BY <2>0, <2>8 DEF Manager, OpenIsRight, BufmgrDeinit
      <3>2. r \in Manager
        BY <3>1, UnloadedIsManager, Zenon DEF Manager
      <3>3. OpenIsRight(r)
        BY <3>1 DEF OpenIsRight, Unloaded
      <3>4. load' = [load EXCEPT ![p] = r]
        BY <2>8 DEF BufmgrDeinit
      <3> QED BY <3>2, <3>3, <3>4
    <2> QED BY <1>3, <2>1, <2>2, <2>3, <2>4, <2>6, <2>7, <2>8, <2>9 DEF Loads
  <1> QED BY <1>1, <1>2, <1>3, LoadSteps, UnloadedIsManager

\* A manager has one module open and without a manager none is: what dlopen
\* opened is closed on every way out of _tbm_bufmgr_load_module that fails, for
\* any list of modules, however many of them fail and at which step.
THEOREM ManagerHasOneModule == StartupSpec => []OneModule
  <1>1. LoadType /\ ModuleInv => OneModule
    BY DEF LoadType, ModuleInv, OpenIsRight, OneModule
  <1> QED BY <1>1, LoadInitial, LoadStep, PTL DEF StartupSpec
-----------------------------------------------------------------------------
(* The table of descriptors.                                               *)

\* What Lowest gives is a number, and it is free.
LEMMA LowestIsFree ==
    ASSUME NEW table, Lowest(table) # NoFd
    PROVE  Lowest(table) \in Num /\ table[Lowest(table)] = Free
  <1> DEFINE S == {n \in Num : table[n] = Free}
  <1>1. S \subseteq Nat /\ S # {} /\ Lowest(table) = Min(S)
    BY FdsAssumption DEF Lowest, Num
  <1>2. \E x \in S : \A y \in S : ~(<<y, x>> \in OpToRel(<, Nat))
    <2> HIDE DEF S
    <2> QED BY <1>1, NatLessThanWellFounded, WFMin
  <1>3. \E x \in S : \A y \in S : x <= y
    <2>1. PICK x \in S : \A y \in S : ~(y < x)
      <3> HIDE DEF S
      <3> QED BY <1>1, <1>2 DEF OpToRel
    <2>2. ASSUME NEW y \in S PROVE x <= y
      <3>1. x \in Nat /\ y \in Nat /\ ~(y < x)
        BY <1>1, <2>1
      <3> QED BY <3>1
    <2> QED BY <2>2
  <1>4. Min(S) \in S
    <2> HIDE DEF S
    <2> QED BY <1>3, Zenon DEF Min
  <1> QED BY <1>1, <1>4

\* What a file holds follows from its kind.
LEMMA FileFields ==
    ASSUME NEW file \in File
    PROVE  /\ file.kind = "timeline" => file.id \in Timeline
           /\ file.kind = "fence" => file.pts \in SUBSET (Timeline \X Nat)
           /\ file.kind = "drm" => file.auth \in Magic
           /\ file.kind \in {"drm", "timeline", "fence"} \/ file = Free
  <1>1. CASE file = Free
    BY <1>1 DEF Free
  <1>2. CASE file \in [kind : {"drm"}, auth : Magic]
    BY <1>2
  <1>3. CASE file \in [kind : {"timeline"}, id : Timeline]
    BY <1>3
  <1>4. CASE file \in [kind : {"fence"}, pts : SUBSET (Timeline \X Nat)]
    BY <1>4
  <1> QED BY <1>1, <1>2, <1>3, <1>4 DEF File

\* The steps that open a file of the application.
LEMMA OpenSteps ==
    ASSUME FdsType, NEW p \in Process, Syncs(p)
    PROVE  \/ UNCHANGED fdsVars
           \/ \E file \in File \ {Free} : OpenAs(p, file)
  <1> USE DEF FdsType
  <1>1. "app" \in User
    BY FdsAssumption
  <1>2. ASSUME NEW i \in Timeline, TimelineCreate(p, i)
        PROVE  \E file \in File \ {Free} : OpenAs(p, file)
    <2>1. [kind |-> "timeline", id |-> i] \in File \ {Free}
      BY DEF File, Free
    <2> QED BY <1>2, <2>1 DEF TimelineCreate
  <1>3. ASSUME NEW n \in Num PROVE fds[p][n] \in File
    BY <1>3
  <1>4. ASSUME NEW h \in held[p]["app"], NEW v \in 1 .. MaxValue,
               FenceCreate(p, h, v)
        PROVE  \E file \in File \ {Free} : OpenAs(p, file)
    <2>1. h.fd \in Num /\ fds[p][h.fd].kind = "timeline"
      BY <1>4 DEF FenceCreate, Is
    <2>2. fds[p][h.fd].id \in Timeline
      BY <1>3, <2>1, FileFields
    <2>3. [kind |-> "fence", pts |-> {<<fds[p][h.fd].id, v>>}] \in File \ {Free}
      BY <2>2, SyncAssumption DEF File, Free
    <2> QED BY <1>4, <2>3 DEF FenceCreate
  <1>5. ASSUME NEW h \in held[p]["app"], NEW h2 \in held[p]["app"],
               FenceMerge(p, h, h2)
        PROVE  \E file \in File \ {Free} : OpenAs(p, file)
    <2>1. /\ h.fd \in Num /\ fds[p][h.fd].kind = "fence"
          /\ h2.fd \in Num /\ fds[p][h2.fd].kind = "fence"
      BY <1>5 DEF FenceMerge, Is
    <2>2. /\ fds[p][h.fd].pts \in SUBSET (Timeline \X Nat)
          /\ fds[p][h2.fd].pts \in SUBSET (Timeline \X Nat)
      BY <1>3, <2>1, FileFields
    <2>3. [kind |-> "fence", pts |-> fds[p][h.fd].pts \cup fds[p][h2.fd].pts]
            \in File \ {Free}
      BY <2>2 DEF File, Free
    <2> QED BY <1>5, <2>3 DEF FenceMerge
  <1> QED BY <1>2, <1>4, <1>5
         DEF Syncs, TimelineInc, FenceWait, WaitStep, WaitDone, WaitTimeout,
             WaitFails, Tick, WaitInterrupted

\* The oldest event of a client, and a call that is under way.
LEMMA EventFields ==
    ASSUME AuthType, NEW c \in Client
    PROVE  /\ events[c] \in Seq(Event) /\ requests[c] \in Seq(Request)
           /\ events[c] # << >> => Head(events[c]) \in Event
           /\ Arrives(c, "info") => Head(events[c]).auth \in Magic
           /\ Connected(c) => auth[c] \in Calling
           /\ ~Connected(c) => auth[c] \in Idle
           /\ auth[c].cut \in BOOLEAN
  <1>1. events[c] \in Seq(Event) /\ requests[c] \in Seq(Request)
    BY DEF AuthType
  <1>2. events[c] # << >> => Head(events[c]) \in Event
    BY <1>1
  <1>3. \A e \in Event : e.ev = "info" => e.auth \in Magic
    BY DEF Event, Info
  <1>4. auth[c] \in Idle \/ auth[c] \in Calling
    BY DEF AuthType
  <1>5. \A a \in Idle : a.pc \notin {"globals", "info"} /\ a.cut \in BOOLEAN
    BY DEF Idle
  <1>6. \A a \in Calling : a.pc \in {"globals", "info"} /\ a.cut \in BOOLEAN
    BY DEF Calling
  <1> QED BY <1>1, <1>2, <1>3, <1>4, <1>5, <1>6 DEF Arrives, Connected

\* The loader forgets no close.
LEMMA ClosedStays ==
    ASSUME LoadType, NEW p \in Process, Loads(p)
    PROVE  \A x \in Process : load[x].closed => load'[x].closed
  <1>1. load \in [Process -> Manager]
    BY DEF LoadType
  <1>3. \A r \in Manager : TryNext(r).closed = r.closed /\ DlClose(r) \in Manager
                             /\ DlClose(r).closed = r.closed
    BY DEF Manager, TryNext, DlClose, Unloaded
  <1>4. ASSUME NEW fd, BufmgrInit(p, fd)
        PROVE  \A x \in Process : load[x].closed => load'[x].closed
    BY <1>1, <1>4 DEF BufmgrInit, Unloaded
  <1>5. CASE DlOpenFails(p) \/ ModuleRejected(p)
    BY <1>1, <1>3, <1>5 DEF DlOpenFails, ModuleRejected
  <1>6. CASE DlOpen(p) \/ ModuleInit(p)
    BY <1>1, <1>6 DEF DlOpen, ModuleInit, Manager
  <1>7. ASSUME NEW priv, BackendInit(p, priv)
        PROVE  \A x \in Process : load[x].closed => load'[x].closed
    BY <1>1, <1>7 DEF BackendInit, Manager
  <1>8. CASE ModuleInitFails(p)
    BY <1>1, <1>3, <1>8 DEF ModuleInitFails
  <1>9. CASE ModuleInitReturns(p)
    BY <1>1, <1>3, <1>9 DEF ModuleInitReturns, Manager
  <1>10. CASE BufmgrDeinit(p)
    BY <1>1, <1>10 DEF BufmgrDeinit, Unloaded
  <1> QED BY <1>4, <1>5, <1>6, <1>7, <1>8, <1>9, <1>10 DEF Loads

\* A call that ends without a descriptor, or with the connection cut.
LEMMA LeaveKeeps ==
    ASSUME AuthType, UNCHANGED load, NEW c \in Client, NEW ret, NEW cut,
           Leave(c, ret, cut), ~cut /\ Connected(c) => auth[c].auth_fd = NoFd
    PROVE  CallsKeep
  <1>1. auth' = [auth EXCEPT ![c] = [pc |-> "none", calls |-> auth[c].calls,
                                     ret |-> ret, cut |-> auth[c].cut \/ cut]]
    BY DEF Leave
  <1>2. auth'[c].pc = "none" /\ auth'[c].cut = (auth[c].cut \/ cut)
    BY <1>1 DEF AuthType
  <1>3. ASSUME NEW x \in Client, x # c PROVE auth'[x] = auth[x]
    BY <1>1, <1>3 DEF AuthType
  <1>4. NoFd \notin Num
    BY FdsAssumption DEF NoFd, Num
  <1> QED BY <1>2, <1>3, <1>4 DEF CallsKeep, Received, Connected

\* The steps that change the descriptors or the variables, and what they leave
\* alone of the rest.
LEMMA FdsSteps ==
    ASSUME FdsType, AuthType, HandshakeInv, LoadType, [StartupNext]_startupVars
    PROVE  \/ UNCHANGED fdsVars /\ CallsKeep
           \/ UNCHANGED <<auth, load>> /\ \E p \in Process :
                \/ \E file \in File \ {Free} : OpenAs(p, file)
                \/ \E u \in User, v \in EnvVar : GetFd(p, u, v)
                \/ \E u \in User : \E h \in held[p][u] : Close(p, u, h)
                \/ \E u \in User, v \in EnvVar : \E h \in held[p][u] :
                     SetFd(p, u, v, h)
                \/ \E v \in EnvVar : UnsetFd(p, v)
           \/ UNCHANGED load /\ \E c \in Client :
                \/ HandleAuthenticationInfo(c) /\ Lowest(fds[c]) # NoFd
                \/ InfoDone(c) /\ auth[c].auth_fd # NoFd
           \/ \E c \in Client : Dies(c)
           \/ UNCHANGED auth /\ \E p \in Process : BufmgrDeinit(p)
  <1>0. UNCHANGED <<auth, load>> => CallsKeep
    BY DEF CallsKeep, Received, Connected
  <1>1. ASSUME NEW c \in Client, Auth(c)
        PROVE  \/ UNCHANGED fdsVars /\ CallsKeep
               \/ HandleAuthenticationInfo(c) /\ Lowest(fds[c]) # NoFd
               \/ InfoDone(c) /\ auth[c].auth_fd # NoFd
    <2>0. UNCHANGED load
      BY <1>1 DEF Auth
    <2>1. events[c] # << >> => Connected(c) /\ auth[c] \in Calling
      BY EventFields DEF HandshakeInv, ShakesRight, Connected
    <2>2. NoFd \notin Num
      BY FdsAssumption DEF NoFd, Num
    <2>3. ASSUME NEW a, auth' = [auth EXCEPT ![c] = a], a.cut = auth[c].cut,
                 \A n \in Num :
                   /\ a.pc \in {"globals", "info"} /\ a.auth_fd = n => Received(c, n)
                   /\ Received(c, n) => a.pc \in {"globals", "info"} /\ a.auth_fd = n
          PROVE  CallsKeep
      <3>1. auth'[c] = a
        BY <2>3 DEF AuthType
      <3>2. ASSUME NEW x \in Client, x # c PROVE auth'[x] = auth[x]
        BY <2>3, <3>2 DEF AuthType
      <3> QED BY <2>0, <2>3, <3>1, <3>2 DEF CallsKeep, Received, Connected
    <2>4. CASE ServerInit \/ ServerDeinit \/ ServerHandle(c) \/ Cut(c)
      BY <1>0, <2>0, <2>4 DEF ServerInit, ServerDeinit, ServerHandle, Cut
    <2>5. CASE Asks(c)
      <3>1. PICK u \in User, want \in BOOLEAN : GetAuthInfo(c, u, want)
        BY <2>5 DEF Asks
      <3> DEFINE a == [pc |-> "globals", calls |-> auth[c].calls + 1,
                       cut |-> auth[c].cut, user |-> u, want |-> want,
                       wl_auth |-> FALSE, auth_fd |-> NoFd]
      <3>2. auth' = [auth EXCEPT ![c] = a] /\ ~Connected(c) /\ UNCHANGED fdsVars
        BY <3>1 DEF GetAuthInfo, Connected
      <3>3. a.cut = auth[c].cut /\ a.auth_fd = NoFd
        OBVIOUS
      <3> HIDE DEF a
      <3> QED BY <2>2, <2>3, <3>2, <3>3 DEF Received
    <2>6. CASE HandleGlobal(c)
      <3>1. auth[c] \in Calling /\ UNCHANGED fdsVars
        BY <2>1, <2>6 DEF HandleGlobal, Arrives
      <3>2. CASE UNCHANGED auth
        BY <1>0, <2>0, <3>1, <3>2
      <3>3. CASE auth' = [auth EXCEPT ![c].wl_auth = TRUE]
        <4> DEFINE a == [auth[c] EXCEPT !.wl_auth = TRUE]
        <4>1. auth' = [auth EXCEPT ![c] = a]
          BY <3>3 DEF AuthType
        <4>2. a.cut = auth[c].cut /\ a.pc = auth[c].pc /\ a.auth_fd = auth[c].auth_fd
          BY <3>1 DEF Calling
        <4> HIDE DEF a
        <4> QED BY <2>3, <3>1, <4>1, <4>2 DEF Received, Connected
      <3> QED BY <2>6, <3>2, <3>3 DEF HandleGlobal
    <2>7. CASE GlobalsDone(c)
      <3>1. auth[c] \in Calling /\ UNCHANGED fdsVars /\ auth[c].pc = "globals"
        BY <2>1, <2>7 DEF GlobalsDone, Arrives
      <3>2. auth[c].auth_fd = NoFd
        BY <3>1 DEF HandshakeInv, ShakesRight
      <3>3. CASE Leave(c, 0, FALSE)
        BY <2>0, <3>1, <3>2, <3>3, LeaveKeeps
      <3>4. CASE auth' = [auth EXCEPT ![c].pc = "info"]
        <4> DEFINE a == [auth[c] EXCEPT !.pc = "info"]
        <4>1. auth' = [auth EXCEPT ![c] = a]
          BY <3>4 DEF AuthType
        <4>2. a.cut = auth[c].cut /\ a.auth_fd = auth[c].auth_fd
          BY <3>1 DEF Calling
        <4> HIDE DEF a
        <4> QED BY <2>2, <2>3, <3>1, <3>2, <4>1, <4>2, ZenonT(30) DEF Received
      <3> QED BY <2>7, <3>3, <3>4 DEF GlobalsDone
    <2>8. CASE HandleAuthenticationInfo(c)
      <3>1. CASE Lowest(fds[c]) = NoFd
        <4>1. UNCHANGED fdsVars /\ Leave(c, 0, FALSE) /\ events[c] # << >>
                /\ Head(events[c]).ev = "info"
          BY <2>8, <3>1 DEF HandleAuthenticationInfo, Arrives
        <4>2. Head(events[c]) \in Info /\ events[c] \in Seq(Event)
          BY <4>1, EventFields DEF Event
        <4>3. 1 \in Places(events[c], Info)
          BY <4>1, <4>2 DEF Places
        <4>4. auth[c].auth_fd = NoFd
          BY <2>1, <4>1, <4>3 DEF HandshakeInv, ShakesRight, Connected
        <4> QED BY <2>0, <4>1, <4>4, LeaveKeeps
      <3> QED BY <2>8, <3>1
    <2>9. CASE InfoDone(c)
      <3>1. CASE auth[c].auth_fd = NoFd
        BY <2>0, <2>9, <3>1, LeaveKeeps DEF InfoDone, fdsVars
      <3> QED BY <2>9, <3>1
    <2>10. CASE RoundtripFails(c)
      BY <2>0, <2>10, LeaveKeeps DEF RoundtripFails
    <2> QED BY <1>1, <2>4, <2>5, <2>6, <2>7, <2>8, <2>9, <2>10 DEF Auth, Dispatches
  <1>2. ASSUME NEW p \in Process, Loads(p), UNCHANGED auth
        PROVE  (UNCHANGED fdsVars /\ CallsKeep) \/ BufmgrDeinit(p)
    <2>1. CallsKeep
      BY <1>2, ClosedStays DEF CallsKeep, Received, Connected
    <2> QED BY <1>2, <2>1
           DEF Loads, BufmgrInit, DlOpen, DlOpenFails, ModuleRejected, ModuleInit, BackendInit,
               ModuleInitFails, ModuleInitReturns
  <1>3. ASSUME NEW c \in Client, Auth(c) PROVE UNCHANGED load
    BY <1>3 DEF Auth
  <1>4. ASSUME NEW p \in Process,
               \/ Loads(p) /\ UNCHANGED <<authVars, syncVars, uses>>
               \/ PassesOn(p) /\ UNCHANGED <<authVars, load, syncVars, uses>>
               \/ \E u \in User : \E h \in held[p][u] :
                    Close(p, u, h) /\ UNCHANGED <<authVars, load, syncVars, uses>>
               \/ Syncs(p) /\ UNCHANGED <<authVars, load, uses>>
        PROVE  \/ UNCHANGED fdsVars /\ CallsKeep
               \/ UNCHANGED <<auth, load>> /\
                    \/ \E file \in File \ {Free} : OpenAs(p, file)
                    \/ \E u \in User, v \in EnvVar : GetFd(p, u, v)
                    \/ \E u \in User : \E h \in held[p][u] : Close(p, u, h)
                    \/ \E u \in User, v \in EnvVar : \E h \in held[p][u] :
                         SetFd(p, u, v, h)
                    \/ \E v \in EnvVar : UnsetFd(p, v)
               \/ UNCHANGED auth /\ BufmgrDeinit(p)
    BY <1>0, <1>2, <1>4, OpenSteps DEF PassesOn, authVars
  <1>5. CASE UNCHANGED startupVars
    BY <1>0, <1>5 DEF startupVars, authVars
  <1> QED BY <1>1, <1>3, <1>4, <1>5 DEF StartupNext

\* The table, what the users believe and the variables keep their types.
LEMMA FdsTypeStep ==
    ASSUME FdsType, AuthType, HandshakeInv, LoadType, [StartupNext]_startupVars
    PROVE  FdsType'
  <1> USE DrmAuthAssumption, FdsAssumption
  <1>1. \A p \in Process : /\ fds[p] \in [Num -> File]
                           /\ held[p] \in [User -> SUBSET Handle]
                           /\ env[p] \in [EnvVar -> Num \cup {NoFd}]
    BY DEF FdsType
  <1>2. ASSUME NEW p \in Process, NEW n \in Num, NEW file \in File,
               fds' = [fds EXCEPT ![p] = Opened(p, n, file)]
        PROVE  fds' \in [Process -> [Num -> File]]
    <2>1. Opened(p, n, file) \in [Num -> File]
      BY <1>1, <1>2 DEF Opened
    <2> QED BY <1>2, <2>1 DEF FdsType
  <1>3. ASSUME NEW p \in Process, NEW n \in Num \cup {NoFd}
        PROVE  Closed(p, n) \in [Num -> File]
    <2>1. Free \in File
      BY DEF File
    <2> QED BY <1>1, <2>1 DEF Closed
  <1>4. ASSUME NEW p \in Process, NEW u \in User, NEW n \in Num,
               NEW kind \in {"drm", "timeline", "fence"}, Hold(p, u, n, kind)
        PROVE  held' \in [Process -> [User -> SUBSET Handle]]
    <2>1. [fd |-> n, is |-> kind] \in Handle
      BY DEF Handle
    <2>2. held[p][u] \cup {[fd |-> n, is |-> kind]} \in SUBSET Handle
      BY <1>1, <2>1
    <2> QED BY <1>4, <2>2 DEF Hold, FdsType
  <1>5. CASE UNCHANGED fdsVars
    BY <1>5 DEF FdsType, fdsVars
  <1>6. ASSUME NEW p \in Process, NEW file \in File \ {Free}, OpenAs(p, file)
        PROVE  FdsType'
    <2>1. Lowest(fds[p]) \in Num
      BY <1>6, LowestIsFree DEF OpenAs
    <2>2. file.kind \in {"drm", "timeline", "fence"}
      BY FileFields
    <2>3. fds' \in [Process -> [Num -> File]]
      BY <1>2, <1>6, <2>1 DEF OpenAs
    <2>4. held' \in [Process -> [User -> SUBSET Handle]]
      <3>1. "app" \in User
        OBVIOUS
      <3> QED BY <1>4, <1>6, <2>1, <2>2, <3>1 DEF OpenAs
    <2> QED BY <1>6, <2>3, <2>4 DEF OpenAs, FdsType
  <1>7. ASSUME NEW p \in Process, NEW u \in User, NEW v \in EnvVar, GetFd(p, u, v)
        PROVE  FdsType'
    <2>1. Lowest(fds[p]) \in Num
      BY <1>7, LowestIsFree DEF GetFd
    <2>2. fds[p][env[p][v]] \in File
      BY <1>1, <1>7 DEF GetFd
    <2> QED BY <1>2, <1>4, <1>7, <2>1, <2>2 DEF GetFd, FdsType
  <1>8. ASSUME NEW p \in Process, NEW u \in User, NEW h \in held[p][u],
               Close(p, u, h)
        PROVE  FdsType'
    <2>1. h.fd \in Num
      BY <1>1 DEF Handle
    <2>2. Closed(p, h.fd) \in [Num -> File]
      BY <1>3, <2>1
    <2> QED BY <1>8, <2>2 DEF Close, FdsType
  <1>9. ASSUME NEW p \in Process, NEW u \in User, NEW v \in EnvVar,
               NEW h \in held[p][u], SetFd(p, u, v, h)
        PROVE  FdsType'
    <2>1. h.fd \in Num
      BY <1>1 DEF Handle
    <2> QED BY <1>9, <2>1 DEF SetFd, FdsType
  <1>10. ASSUME NEW p \in Process, NEW v \in EnvVar, UnsetFd(p, v)
         PROVE  FdsType'
    BY <1>10 DEF UnsetFd, FdsType
  <1>11. ASSUME NEW c \in Client, HandleAuthenticationInfo(c)
         PROVE  FdsType'
    <2>1. CASE UNCHANGED fdsVars
      BY <1>5, <2>1
    <2>2. CASE Lowest(fds[c]) # NoFd
      <3> DEFINE file == [kind |-> "drm", auth |-> Head(events[c]).auth]
      <3>1. Lowest(fds[c]) \in Num
        BY <2>2, LowestIsFree
      <3>2. Head(events[c]).auth \in Magic
        BY <1>11, EventFields DEF HandleAuthenticationInfo
      <3>3. file \in File
        BY <3>2 DEF File
      <3>4. fds' = [fds EXCEPT ![c] = Opened(c, Lowest(fds[c]), file)]
              /\ UNCHANGED <<held, env>>
        BY <1>11, <2>2 DEF HandleAuthenticationInfo
      <3> HIDE DEF file
      <3> QED BY <1>2, <3>1, <3>3, <3>4 DEF FdsType
    <2> QED BY <1>11, <2>1, <2>2 DEF HandleAuthenticationInfo
  <1>12. ASSUME NEW c \in Client, InfoDone(c)
         PROVE  FdsType'
    <2>1. auth[c].auth_fd \in Num \cup {NoFd} /\ auth[c].user \in User
      BY <1>12, EventFields DEF InfoDone, Calling, Connected
    <2>2. CASE UNCHANGED <<fds, held>>
      BY <1>12, <2>2 DEF InfoDone, FdsType
    <2>3. CASE /\ auth[c].auth_fd # NoFd
               /\ Hold(c, auth[c].user, auth[c].auth_fd, "drm")
               /\ UNCHANGED fds
      BY <1>4, <1>12, <2>1, <2>3 DEF InfoDone, FdsType
    <2>4. CASE /\ fds' = [fds EXCEPT ![c] = Closed(c, auth[c].auth_fd)]
               /\ UNCHANGED held
      <3>1. Closed(c, auth[c].auth_fd) \in [Num -> File]
        BY <1>3, <2>1
      <3> QED BY <1>12, <2>4, <3>1 DEF InfoDone, FdsType
    <2> QED BY <1>12, <2>2, <2>3, <2>4 DEF InfoDone
  <1>13. ASSUME NEW c \in Client, Dies(c)
         PROVE  FdsType'
    <2>1. [n \in Num |-> Free] \in [Num -> File]
      BY DEF File
    <2>2. [u \in User |-> {}] \in [User -> SUBSET Handle]
      OBVIOUS
    <2>3. [v \in EnvVar |-> NoFd] \in [EnvVar -> Num \cup {NoFd}]
      OBVIOUS
    <2> QED BY <1>13, <2>1, <2>2, <2>3 DEF Dies, GlobalRemoved, FdsType
  <1>14. ASSUME NEW p \in Process, BufmgrDeinit(p)
         PROVE  FdsType'
    <2>1. load[p].fd \in Num \cup {NoFd}
      BY DEF LoadType, Manager
    <2>2. Closed(p, load[p].fd) \in [Num -> File]
      BY <1>3, <2>1
    <2> QED BY <1>14, <2>2 DEF BufmgrDeinit, FdsType
  <1> QED BY <1>5, <1>6, <1>7, <1>8, <1>9, <1>10, <1>11, <1>12, <1>13, <1>14,
             FdsSteps
-----------------------------------------------------------------------------
(* Waiting for a fence.                                                    *)

\* The steps that change a timeline or a wait.
LEMMA SyncSteps ==
    ASSUME [StartupNext]_startupVars
    PROVE  \/ UNCHANGED syncVars
           \/ \E c \in Client : UNCHANGED value /\ wait' = [wait EXCEPT ![c] = NoWait]
           \/ \E p \in Process :
                \/ \E h \in held[p]["app"], count \in 1 .. MaxValue :
                     TimelineInc(p, h, count)
                \/ \E h \in held[p]["app"], timeout \in Timeout :
                     FenceWait(p, h, timeout)
                \/ WaitStep(p)
                \/ WaitInterrupted(p)
  BY DEF StartupNext, startupVars, Auth, Dies, Syncs, TimelineCreate, FenceCreate,
         FenceMerge

\* Timelines only go up.
LEMMA ValueGrows ==
    ASSUME FdsType, SyncType, [StartupNext]_startupVars
    PROVE  value' \in [Timeline -> Nat] /\ \A i \in Timeline : value'[i] >= value[i]
  <1>1. value \in [Timeline -> Nat]
    BY DEF SyncType
  <1>2. CASE UNCHANGED value
    BY <1>1, <1>2
  <1>3. ASSUME NEW p \in Process, NEW h \in held[p]["app"],
               NEW count \in 1 .. MaxValue, TimelineInc(p, h, count)
        PROVE  /\ value' \in [Timeline -> Nat]
               /\ \A i \in Timeline : value'[i] >= value[i]
    <2>1. h.fd \in Num /\ fds[p][h.fd].kind = "timeline"
      BY <1>3 DEF TimelineInc, Is
    <2>2. fds[p][h.fd] \in File
      BY <2>1 DEF FdsType
    <2>3. fds[p][h.fd].id \in Timeline
      BY <2>1, <2>2, FileFields
    <2>4. count \in Nat
      BY SyncAssumption
    <2> QED BY <1>1, <1>3, <2>3, <2>4 DEF TimelineInc
  <1> QED BY <1>2, <1>3, SyncSteps
         DEF syncVars, FenceWait, WaitStep, WaitDone, WaitTimeout, WaitFails, Tick,
             WaitInterrupted

\* A wait that has not returned, after it has taken a step.
LEMMA WaitSteps ==
    ASSUME FdsType, SyncType, WaitInv, NEW p \in Process, UNCHANGED value,
           \/ \E h \in held[p]["app"], timeout \in Timeout : FenceWait(p, h, timeout)
           \/ WaitStep(p)
           \/ WaitInterrupted(p)
    PROVE  \E r \in Wait : /\ TicksRight(r) /\ AnswerRight(value', r)
                           /\ wait' = [wait EXCEPT ![p] = r]
  <1> DEFINE w == wait[p]
  <1>1. w \in Wait /\ TicksRight(w)
    BY DEF SyncType, WaitInv
  <1>2. ASSUME NEW h \in held[p]["app"], NEW timeout \in Timeout,
               FenceWait(p, h, timeout)
        PROVE  \E r \in Wait : /\ TicksRight(r) /\ AnswerRight(value', r)
                               /\ wait' = [wait EXCEPT ![p] = r]
    <2>1. h.fd \in Num /\ fds[p][h.fd].kind = "fence"
      BY <1>2 DEF FenceWait, Is
    <2>2. fds[p][h.fd] \in File
      BY <2>1 DEF FdsType
    <2>3. fds[p][h.fd].pts \in SUBSET (Timeline \X Nat)
      BY <2>1, <2>2, FileFields
    <2> DEFINE r == [pc |-> "ioctl", fd |-> h.fd, pts |-> fds[p][h.fd].pts,
                     timeout |-> timeout, left |-> timeout,
                     ticks |-> 0, interrupts |-> 0]
    <2>4. timeout \in Int
      BY SyncAssumption
    <2>5. r \in Wait
      BY <2>1, <2>3, <2>4 DEF Wait, Waiting
    <2>6. TicksRight(r) /\ AnswerRight(value', r)
      BY <2>4 DEF TicksRight, AnswerRight
    <2> QED BY <1>2, <2>5, <2>6 DEF FenceWait
  <1>3. ASSUME w.pc = "ioctl"
        PROVE  /\ w \in Waiting
               /\ \A ret : Return(p, ret) =>
                    wait' = [wait EXCEPT ![p] =
                               [pc |-> "returned", ret |-> ret, pts |-> w.pts,
                                timeout |-> w.timeout, ticks |-> w.ticks,
                                interrupts |-> w.interrupts]]
    BY <1>1, <1>3 DEF Wait, NoWait, Returned, Return
  <1>4. ASSUME NEW ret \in {1, 0, -1}, w.pc = "ioctl", Return(p, ret),
               ret = 1 => Signalled(w.pts),
               ret = -1 => w.left = 0
        PROVE  \E r \in Wait : /\ TicksRight(r) /\ AnswerRight(value', r)
                               /\ wait' = [wait EXCEPT ![p] = r]
    <2> DEFINE r == [pc |-> "returned", ret |-> ret, pts |-> w.pts,
                     timeout |-> w.timeout, ticks |-> w.ticks,
                     interrupts |-> w.interrupts]
    <2>1. w \in Waiting
      BY <1>3, <1>4
    <2>2. r \in Returned
      BY <2>1 DEF Waiting, Returned
    <2>3. TicksRight(r)
      BY DEF TicksRight
    <2>4. ret = -1 =>
            w.timeout >= 0 /\ w.ticks \in w.timeout .. w.timeout * (w.interrupts + 1)
      <3>1. /\ w.timeout \in Int /\ w.left \in Int /\ w.ticks \in Nat
            /\ w.interrupts \in Nat
        BY <2>1 DEF Waiting
      <3>2. w.timeout * (w.interrupts + 1) \in Int
        BY <3>1
      <3> QED BY <1>1, <1>4, <3>1, <3>2 DEF TicksRight
    <2>5. AnswerRight(value', r)
      BY <1>4, <2>4 DEF AnswerRight, Signalled
    <2> QED BY <1>3, <1>4, <2>2, <2>3, <2>5 DEF Wait
  <1>5. CASE WaitDone(p) \/ WaitTimeout(p) \/ WaitFails(p)
    BY <1>4, <1>5 DEF WaitDone, WaitTimeout, WaitFails
  <1>6. CASE Tick(p)
    <2> DEFINE r == [w EXCEPT !.left = @ - 1, !.ticks = @ + 1]
    <2>1. w \in Waiting /\ w.left > 0
      BY <1>3, <1>6 DEF Tick
    <2>2. /\ w.timeout \in Int /\ w.left \in Int /\ w.ticks \in Nat
          /\ w.interrupts \in Nat /\ w.timeout * (w.interrupts + 1) \in Int
      BY <2>1 DEF Waiting
    <2>3. r \in Waiting
      <3>1. w.left - 1 \in Int /\ w.ticks + 1 \in Nat
        BY <2>2
      <3> QED BY <2>1, <3>1, Zenon DEF Waiting
    <2>4. /\ r.pc = "ioctl" /\ r.left = w.left - 1 /\ r.ticks = w.ticks + 1
          /\ r.timeout = w.timeout /\ r.interrupts = w.interrupts
      BY <2>1 DEF Waiting
    <2>5. TicksRight(r)
      <3> HIDE DEF r
      <3> QED BY <1>1, <2>1, <2>2, <2>4 DEF TicksRight, Waiting
    <2>6. AnswerRight(value', r)
      BY <2>4 DEF AnswerRight
    <2>7. wait' = [wait EXCEPT ![p] = r]
      BY <1>6 DEF Tick, SyncType
    <2> QED BY <2>3, <2>5, <2>6, <2>7 DEF Wait
  <1>7. CASE WaitInterrupted(p)
    <2>1. w.pc = "ioctl" /\ w \in Waiting
      BY <1>3, <1>7 DEF WaitInterrupted
    <2>2. CASE Return(p, 0)
      BY <1>4, <2>1, <2>2
    <2>3. CASE Is(p, w.fd, "fence")
      <3> DEFINE pts == fds[p][w.fd].pts
                 r == [w EXCEPT !.left = w.timeout, !.interrupts = @ + 1,
                                !.pts = pts]
      <3>1. fds[p][w.fd] \in File /\ fds[p][w.fd].kind = "fence"
        BY <2>3 DEF Is, FdsType
      <3>2. pts \in SUBSET (Timeline \X Nat)
        BY <3>1, FileFields
      <3>3. /\ w.timeout \in Int /\ w.left \in Int /\ w.ticks \in Nat
            /\ w.interrupts \in Nat /\ w.interrupts + 1 \in Nat
        BY <2>1 DEF Waiting
      <3>4. r \in Waiting
        BY <2>1, <3>2, <3>3, Zenon DEF Waiting
      <3>5. /\ r.pc = "ioctl" /\ r.left = w.timeout /\ r.ticks = w.ticks
            /\ r.timeout = w.timeout /\ r.interrupts = w.interrupts + 1
        BY <2>1 DEF Waiting
      <3>6. TicksRight(r)
        <4>1. /\ w.timeout * (w.interrupts + 1) \in Int
              /\ w.timeout * ((w.interrupts + 1) + 1)
                   = w.timeout * (w.interrupts + 1) + w.timeout
          BY <3>3
        <4> HIDE DEF r
        <4> QED BY <1>1, <2>1, <3>3, <3>5, <4>1 DEF TicksRight
      <3>7. AnswerRight(value', r)
        BY <3>5 DEF AnswerRight
      <3>8. wait' = [wait EXCEPT ![p] = r]
        BY <1>7, <2>3 DEF WaitInterrupted, SyncType
      <3> QED BY <3>4, <3>6, <3>7, <3>8 DEF Wait
    <2> QED BY <1>7, <2>2, <2>3 DEF WaitInterrupted
  <1> QED BY <1>2, <1>5, <1>6, <1>7 DEF WaitStep

\* The timelines and the waits keep their types, and the waits their promises.
LEMMA SyncStep ==
    ASSUME FdsType, SyncType, WaitInv, [StartupNext]_startupVars
    PROVE  SyncType' /\ WaitInv'
  <1>1. ASSUME NEW p \in Process PROVE TicksRight(wait[p]) /\ AnswerRight(value, wait[p])
    BY DEF WaitInv
  <1>2. ASSUME NEW w \in Wait, AnswerRight(value, w) PROVE AnswerRight(value', w)
    <2>1. CASE w.pc = "returned"
      <3>1. w.pts \in SUBSET (Timeline \X Nat)
        BY <2>1 DEF Wait, Waiting, Returned, NoWait
      <3>2. ASSUME w.ret = 1, NEW pt \in w.pts PROVE value'[pt[1]] >= pt[2]
        <4>1. pt[1] \in Timeline /\ pt[2] \in Nat
          BY <3>1
        <4>2. value[pt[1]] >= pt[2]
          BY <1>2, <2>1, <3>2 DEF AnswerRight
        <4>3. /\ value[pt[1]] \in Nat /\ value'[pt[1]] \in Nat
              /\ value'[pt[1]] >= value[pt[1]]
          BY <4>1, ValueGrows DEF SyncType
        <4> QED BY <4>1, <4>2, <4>3
      <3> QED BY <1>2, <3>2 DEF AnswerRight
    <2> QED BY <2>1 DEF AnswerRight
  <1>3. wait \in [Process -> Wait]
    BY DEF SyncType
  <1>4. CASE UNCHANGED wait
    BY <1>1, <1>2, <1>3, <1>4, ValueGrows DEF SyncType, WaitInv
  <1>5. ASSUME NEW p \in Process, NEW r \in Wait, TicksRight(r),
               AnswerRight(value', r), wait' = [wait EXCEPT ![p] = r]
        PROVE  SyncType' /\ WaitInv'
    <2>1. SyncType'
      BY <1>3, <1>5, ValueGrows DEF SyncType
    <2>2. ASSUME NEW x \in Process
          PROVE  TicksRight(wait'[x]) /\ AnswerRight(value', wait'[x])
      <3>1. wait'[x] = r \/ wait'[x] = wait[x]
        BY <1>3, <1>5
      <3> QED BY <1>1, <1>2, <1>3, <1>5, <3>1
    <2> QED BY <2>1, <2>2 DEF WaitInv
  <1>6. NoWait \in Wait /\ TicksRight(NoWait) /\ AnswerRight(value', NoWait)
    BY DEF Wait, NoWait, TicksRight, AnswerRight
  <1> QED BY <1>4, <1>5, <1>6, SyncSteps, WaitSteps, DrmAuthAssumption
         DEF syncVars, TimelineInc, FenceWait, WaitStep, WaitDone, WaitTimeout,
             WaitFails, Tick, WaitInterrupted

-----------------------------------------------------------------------------
(* The handshake with the display server.                                  *)

\* The first of a sequence is taken.
LEMMA PlacesTail ==
    ASSUME NEW E, NEW S, NEW s \in Seq(E), s # << >>, Once(s, S)
    PROVE  /\ Once(Tail(s), S)
           /\ Head(s) \in S \/ Places(s, S) = {} => Places(Tail(s), S) = {}
  <1>1. ASSUME NEW i \in Places(Tail(s), S) PROVE i \in Nat /\ i + 1 \in Places(s, S)
    BY DEF Places
  <1>2. Head(s) \in S => 1 \in Places(s, S)
    BY DEF Places
  <1>3. Once(Tail(s), S)
    <2>1. SUFFICES ASSUME NEW i \in Places(Tail(s), S), NEW j \in Places(Tail(s), S)
                   PROVE  i = j
      BY DEF Once
    <2>2. i \in Nat /\ j \in Nat /\ i + 1 = j + 1
      BY <1>1 DEF Once
    <2> QED BY <2>2
  <1>4. ASSUME Head(s) \in S, NEW i \in Places(Tail(s), S) PROVE FALSE
    <2>1. i \in 1 .. Len(Tail(s)) /\ i + 1 = 1
      BY <1>1, <1>2, <1>4 DEF Once, Places
    <2> QED BY <2>1
  <1> QED BY <1>1, <1>3, <1>4

\* A sequence is put at the end of another.
LEMMA PlacesConcat ==
    ASSUME NEW E, NEW S, NEW s \in Seq(E), NEW t \in Seq(E)
    PROVE  /\ s \o t \in Seq(E)
           /\ Places(s, S) = {} /\ Once(t, S) => Once(s \o t, S)
           /\ Once(s, S) /\ Places(t, S) = {} => Once(s \o t, S)
           /\ Places(s, S) = {} /\ Places(t, S) = {} => Places(s \o t, S) = {}
  <1>1. ASSUME NEW i \in Places(s \o t, S)
        PROVE  /\ i \in Nat
               /\ i \in Places(s, S) \/ i - Len(s) \in Places(t, S)
    BY DEF Places
  <1>2. Len(s) \in Nat /\ s \o t \in Seq(E)
    OBVIOUS
  <1> QED BY <1>1, <1>2 DEF Once

\* A sequence of one.
LEMMA PlacesOne ==
    ASSUME NEW S, NEW x
    PROVE  Once(<<x>>, S) /\ (x \notin S => Places(<<x>>, S) = {})
  <1>1. ASSUME NEW i \in Places(<<x>>, S) PROVE i = 1 /\ x \in S
    <2>1. i = 1 /\ <<x>>[i] \in S
      BY DEF Places
    <2> QED BY <2>1
  <1> QED BY <1>1 DEF Once

\* A step that concerns one client.
LEMMA OneClient ==
    ASSUME AuthType, HandshakeInv, NEW c \in Client, NEW a \in Idle \cup Calling,
           NEW reqs \in Seq(Request), NEW evs \in Seq(Event),
           ShakesRight(a, reqs, evs),
           auth' = [auth EXCEPT ![c] = a],
           requests' = [requests EXCEPT ![c] = reqs],
           events' = [events EXCEPT ![c] = evs]
    PROVE  AuthType' /\ HandshakeInv'
  <1>1. AuthType'
    BY DEF AuthType
  <1>2. ASSUME NEW x \in Client PROVE ShakesRight(auth'[x], requests'[x], events'[x])
    <2>1. CASE x = c
      <3>1. auth'[x] = a /\ requests'[x] = reqs /\ events'[x] = evs
        BY <2>1 DEF AuthType
      <3> QED BY <3>1
    <2>2. CASE x # c
      <3>1. auth'[x] = auth[x] /\ requests'[x] = requests[x] /\ events'[x] = events[x]
        BY <2>2 DEF AuthType
      <3> QED BY <3>1 DEF HandshakeInv
    <2> QED BY <2>1, <2>2
  <1> QED BY <1>1, <1>2 DEF HandshakeInv

\* What the display server does keeps the handshake in order: it answers the
\* request for a descriptor once, in the place of the request.
LEMMA ServerStep ==
    ASSUME AuthType, HandshakeInv, NEW c \in Client,
           ServerDeinit \/ ServerHandle(c) \/ Cut(c)
    PROVE  AuthType' /\ HandshakeInv'
  <1> DEFINE a == auth[c]
             reqs == requests[c]
             evs == events[c]
  <1>1. /\ a \in Idle \cup Calling /\ reqs \in Seq(Request) /\ evs \in Seq(Event)
        /\ ShakesRight(a, reqs, evs)
        /\ [auth EXCEPT ![c] = a] = auth
        /\ [requests EXCEPT ![c] = reqs] = requests
        /\ [events EXCEPT ![c] = evs] = events
    BY DEF AuthType, HandshakeInv
  <1>2. ASSUME NEW ev \in {"global", "global_remove", "done", "error"},
               NEW q \in Seq(Event)
        PROVE  /\ q \o <<[ev |-> ev]>> \in Seq(Event)
               /\ Once(q, Info) => Once(q \o <<[ev |-> ev]>>, Info)
               /\ Places(q, Info) = {} => Places(q \o <<[ev |-> ev]>>, Info) = {}
    <2>1. <<[ev |-> ev]>> \in Seq(Event)
      BY DEF Event
    <2>2. Places(<<[ev |-> ev]>>, Info) = {}
      <3>1. [ev |-> ev] \notin Info
        BY DEF Info
      <3> QED BY <3>1, PlacesOne
    <2> QED BY <2>1, <2>2, PlacesConcat
  <1>3. ASSUME NEW call, NEW r, NEW q \in Seq(Event),
               NEW ev \in {"global", "global_remove", "done", "error"},
               ShakesRight(call, r, q), call.pc \in {"globals", "info"}
        PROVE  ShakesRight(call, r, q \o <<[ev |-> ev]>>)
    BY <1>2, <1>3 DEF ShakesRight
  <1>4. ASSUME reqs # << >>
        PROVE  /\ a.pc \in {"globals", "info"} /\ Tail(reqs) \in Seq(Request)
               /\ ShakesRight(a, Tail(reqs), evs)
    <2>1. a.pc \in {"globals", "info"}
      BY <1>1, <1>4 DEF ShakesRight
    <2>2. Once(Tail(reqs), {"get"})
      BY <1>1, <1>4, <2>1, PlacesTail DEF ShakesRight
    <2>3. Places(reqs, {"get"}) = {} => Places(Tail(reqs), {"get"}) = {}
      BY <1>1, <1>4, <2>1, PlacesTail DEF ShakesRight
    <2> QED BY <1>1, <1>4, <2>1, <2>2, <2>3 DEF ShakesRight
  <1>5. ASSUME a.pc \in {"globals", "info"}, Fail(c), UNCHANGED auth
        PROVE  AuthType' /\ HandshakeInv'
    <2>1. << >> \in Seq(Request) /\ evs \o <<Error>> \in Seq(Event)
      BY <1>1, <1>2 DEF Error
    <2>2. ShakesRight(a, << >>, evs)
      <3>1. Once(<< >>, {"get"}) /\ Places(<< >>, {"get"}) = {}
        BY DEF Once, Places
      <3> QED BY <1>1, <1>5, <3>1 DEF ShakesRight
    <2>3. ShakesRight(a, << >>, evs \o <<Error>>)
      BY <1>1, <1>3, <1>5, <2>2 DEF Error
    <2> QED BY <1>1, <1>5, <2>1, <2>3, OneClient DEF Fail, Send
  <1>6. CASE Cut(c)
    BY <1>5, <1>6 DEF Cut, Connected
  <1>7. CASE ServerDeinit
    <2>1. ASSUME NEW x \in Client
          PROVE  /\ events'[x] \in Seq(Event)
                 /\ ShakesRight(auth[x], requests[x], events'[x])
      <3>1. events[x] \in Seq(Event) /\ ShakesRight(auth[x], requests[x], events[x])
        BY DEF AuthType, HandshakeInv
      <3>2. CASE events'[x] = events[x]
        BY <3>1, <3>2
      <3>3. CASE /\ Connected(x)
                 /\ events'[x] = Append(events[x], [ev |-> "global_remove"])
        <4>1. events'[x] = events[x] \o <<[ev |-> "global_remove"]>>
          BY <3>1, <3>3
        <4>2. auth[x].pc \in {"globals", "info"}
          BY <3>3 DEF Connected
        <4>3. ShakesRight(auth[x], requests[x],
                          events[x] \o <<[ev |-> "global_remove"]>>)
          BY <1>3, <3>1, <4>2
        <4>4. events[x] \o <<[ev |-> "global_remove"]>> \in Seq(Event)
          BY <1>2, <3>1
        <4> QED BY <4>1, <4>3, <4>4
      <3> QED BY <1>7, <3>2, <3>3 DEF ServerDeinit
    <2>2. events' \in [Client -> Seq(Event)]
      <3>1. events' = [x \in Client |-> events'[x]]
        BY <1>7 DEF ServerDeinit
      <3> QED BY <2>1, <3>1
    <2> QED BY <1>7, <2>1, <2>2 DEF ServerDeinit, AuthType, HandshakeInv
  <1>8. CASE ServerHandle(c)
    <2>0. reqs # << >> /\ UNCHANGED auth
      BY <1>8 DEF ServerHandle
    <2>1. CASE Fail(c)
      BY <1>4, <1>5, <2>0, <2>1
    <2>2. ASSUME requests' = [requests EXCEPT ![c] = Tail(@)],
                 NEW ev \in {"global", "done"}, Send(c, <<[ev |-> ev]>>)
          PROVE  AuthType' /\ HandshakeInv'
      <3>1. evs \o <<[ev |-> ev]>> \in Seq(Event)
        BY <1>1, <1>2
      <3>2. ShakesRight(a, Tail(reqs), evs \o <<[ev |-> ev]>>)
        BY <1>1, <1>3, <1>4, <2>0
      <3> QED BY <1>1, <1>4, <2>0, <2>2, <3>1, <3>2, OneClient DEF Send
    <2>3. CASE /\ requests' = [requests EXCEPT ![c] = Tail(@)]
               /\ events' = events
      BY <1>1, <1>4, <2>0, <2>3, OneClient
    <2>4. CASE /\ requests' = [requests EXCEPT ![c] = Tail(@)]
               /\ Send(c, << >>)
      <3>1. evs \o << >> = evs
        BY <1>1
      <3> QED BY <1>1, <2>3, <2>4, <3>1 DEF Send
    <2>5. CASE /\ Head(reqs) = "get"
               /\ requests' = [requests EXCEPT ![c] = Tail(@)]
               /\ \E by \in Magic : Send(c, <<[ev |-> "info", auth |-> by]>>)
      <3>0. PICK by \in Magic : Send(c, <<[ev |-> "info", auth |-> by]>>)
        BY <2>5
      <3> DEFINE info == <<[ev |-> "info", auth |-> by]>>
      <3>1. info \in Seq(Event) /\ Once(info, Info)
        <4>1. info \in Seq(Event)
          BY DEF Event, Info
        <4> QED BY <4>1, PlacesOne
      <3>2. a.pc \in {"globals", "info"} /\ Tail(reqs) \in Seq(Request)
        BY <1>4, <2>0
      <3>3. Once(reqs, {"get"}) /\ 1 \in Places(reqs, {"get"})
        BY <1>1, <2>0, <2>5, <3>2 DEF ShakesRight, Places
      <3>4. Places(Tail(reqs), {"get"}) = {} /\ Once(Tail(reqs), {"get"})
        BY <1>1, <2>0, <2>5, <3>3, PlacesTail
      <3>5. a.pc # "globals" /\ Places(evs, Info) = {} /\ a.auth_fd = NoFd
        BY <1>1, <3>2, <3>3 DEF ShakesRight
      <3>6. Once(evs \o info, Info) /\ evs \o info \in Seq(Event)
        <4> HIDE DEF info
        <4> QED BY <1>1, <3>1, <3>5, PlacesConcat
      <3>7. ShakesRight(a, Tail(reqs), evs \o info)
        BY <3>2, <3>4, <3>5, <3>6 DEF ShakesRight
      <3> QED BY <1>1, <2>0, <2>5, <3>0, <3>2, <3>6, <3>7, OneClient DEF Send
    <2>6. CASE /\ Head(reqs) \in {"registry", "sync"}
               /\ Send(c, CASE Head(reqs) = "sync" -> <<[ev |-> "done"]>>
                            [] srv                 -> <<[ev |-> "global"]>>
                            [] OTHER               -> << >>)
               /\ requests' = [requests EXCEPT ![c] = Tail(@)]
      <3>1. \/ Send(c, <<[ev |-> "done"]>>)
            \/ Send(c, <<[ev |-> "global"]>>)
            \/ Send(c, << >>)
        BY <2>6
      <3> QED BY <2>2, <2>4, <2>6, <3>1
    <2> QED BY <1>8, <2>1, <2>3, <2>5, <2>6 DEF ServerHandle, SendServerAuthInfo
  <1> QED BY <1>6, <1>7, <1>8

\* A call that ends leaves nothing behind.
LEMMA LeaveStep ==
    ASSUME AuthType, HandshakeInv, NEW c \in Client, NEW ret \in {0, 1},
           NEW cut \in BOOLEAN, Leave(c, ret, cut)
    PROVE  AuthType' /\ HandshakeInv'
  <1> DEFINE a == [pc |-> "none", calls |-> auth[c].calls, ret |-> ret,
                   cut |-> auth[c].cut \/ cut]
  <1>1. auth[c].calls \in Nat /\ (auth[c].cut \/ cut) \in BOOLEAN
    BY DEF AuthType, Idle, Calling
  <1>2. a \in Idle \cup Calling
    BY <1>1, Zenon DEF Idle
  <1>3. ShakesRight(a, << >>, << >>)
    BY DEF ShakesRight
  <1>4. auth' = [auth EXCEPT ![c] = a]
    BY DEF Leave
  <1>5. << >> \in Seq(Request) /\ << >> \in Seq(Event)
    OBVIOUS
  <1> HIDE DEF a
  <1> QED BY <1>2, <1>3, <1>4, <1>5, OneClient DEF Leave

\* What a client does keeps the handshake in order.
LEMMA ClientStep ==
    ASSUME AuthType, HandshakeInv, NEW c \in Client,
           \/ \E u \in User, want \in BOOLEAN : GetAuthInfo(c, u, want)
           \/ HandleGlobal(c)
           \/ GlobalsDone(c)
           \/ HandleAuthenticationInfo(c)
           \/ InfoDone(c)
           \/ RoundtripFails(c)
           \/ GlobalRemoved(c)
    PROVE  AuthType' /\ HandshakeInv'
  <1> DEFINE a == auth[c]
             reqs == requests[c]
             evs == events[c]
             G(s) == Places(s, {"get"})
  <1>1. /\ a \in Idle \cup Calling /\ reqs \in Seq(Request) /\ evs \in Seq(Event)
        /\ ShakesRight(a, reqs, evs)
        /\ [auth EXCEPT ![c] = a] = auth
        /\ [requests EXCEPT ![c] = reqs] = requests
        /\ [events EXCEPT ![c] = evs] = events
    BY DEF AuthType, HandshakeInv
  <1>2. ASSUME evs # << >>
        PROVE  /\ a \in Calling /\ Tail(evs) \in Seq(Event)
               /\ ShakesRight(a, reqs, Tail(evs))
    <2>1. a.pc \in {"globals", "info"}
      BY <1>1, <1>2 DEF ShakesRight
    <2>2. a \in Calling
      BY <2>1, EventFields DEF Connected
    <2>3. Once(Tail(evs), Info)
      BY <1>1, <1>2, <2>1, PlacesTail DEF ShakesRight
    <2>4. Places(evs, Info) = {} => Places(Tail(evs), Info) = {}
      BY <1>1, <1>2, <2>1, PlacesTail DEF ShakesRight
    <2> QED BY <1>1, <1>2, <2>1, <2>2, <2>3, <2>4 DEF ShakesRight
  <1>3. ASSUME NEW t \in Seq(Request), Places(t, {"get"}) = {}
        PROVE  /\ reqs \o t \in Seq(Request)
               /\ Once(reqs, {"get"}) => Once(reqs \o t, {"get"})
               /\ G(reqs) = {} => G(reqs \o t) = {}
    BY <1>1, <1>3, PlacesConcat
  <1>4. ASSUME NEW u \in User, NEW want \in BOOLEAN, GetAuthInfo(c, u, want)
        PROVE  AuthType' /\ HandshakeInv'
    <2> DEFINE b == [pc |-> "globals", calls |-> a.calls + 1, cut |-> a.cut,
                     user |-> u, want |-> want, wl_auth |-> FALSE, auth_fd |-> NoFd]
               t == <<"registry", "sync">>
    <2>1. a.pc = "none" /\ reqs = << >> /\ evs = << >>
      BY <1>1, <1>4 DEF GetAuthInfo, ShakesRight
    <2>2. b \in Calling
      <3>1. a.calls + 1 \in Nat /\ a.cut \in BOOLEAN
        BY <1>1 DEF Idle, Calling
      <3> QED BY <3>1, Zenon DEF Calling
    <2>3. t \in Seq(Request) /\ reqs \o t = t
      BY <2>1 DEF Request
    <2>4. Places(t, {"get"}) = {}
      <3>1. ASSUME NEW i \in 1 .. Len(t) PROVE t[i] # "get"
        <4>1. i = 1 \/ i = 2
          OBVIOUS
        <4> QED BY <4>1
      <3> QED BY <3>1 DEF Places
    <2>5. ShakesRight(b, t, << >>)
      <3>1. Places(<< >>, Info) = {}
        BY DEF Places
      <3> QED BY <2>4, <3>1 DEF ShakesRight, Once
    <2>6. auth' = [auth EXCEPT ![c] = b] /\ requests' = [requests EXCEPT ![c] = t]
      BY <1>4, <2>3 DEF GetAuthInfo, Ask
    <2>7. events' = [events EXCEPT ![c] = << >>]
      BY <1>1, <1>4, <2>1 DEF GetAuthInfo
    <2>8. << >> \in Seq(Event)
      OBVIOUS
    <2> HIDE DEF b, t
    <2> QED BY <2>2, <2>3, <2>5, <2>6, <2>7, <2>8, OneClient
  <1>5. CASE HandleGlobal(c)
    <2>1. evs # << >> /\ events' = [events EXCEPT ![c] = Tail(evs)]
      BY <1>5 DEF HandleGlobal, Arrives, Drop
    <2>2. CASE UNCHANGED <<auth, requests>>
      BY <1>1, <1>2, <2>1, <2>2, OneClient
    <2>3. CASE auth' = [auth EXCEPT ![c].wl_auth = TRUE] /\ Ask(c, <<"bind">>)
      <3> DEFINE b == [a EXCEPT !.wl_auth = TRUE]
      <3>1. a \in Calling /\ ShakesRight(a, reqs, Tail(evs)) /\ Tail(evs) \in Seq(Event)
        BY <1>2, <2>1
      <3>2. /\ b \in Calling /\ b.pc = a.pc /\ b.auth_fd = a.auth_fd
            /\ a.pc \in {"globals", "info"}
        BY <3>1 DEF Calling
      <3>3. <<"bind">> \in Seq(Request) /\ Places(<<"bind">>, {"get"}) = {}
        <4>1. "bind" \notin {"get"} /\ "bind" \in Request
          BY DEF Request
        <4>2. <<"bind">> \in Seq(Request)
          BY <4>1
        <4> QED BY <4>1, <4>2, PlacesOne
      <3>4. ShakesRight(b, reqs \o <<"bind">>, Tail(evs))
        <4> HIDE DEF b
        <4> QED BY <1>3, <3>1, <3>2, <3>3 DEF ShakesRight
      <3>5. /\ auth' = [auth EXCEPT ![c] = b]
            /\ requests' = [requests EXCEPT ![c] = reqs \o <<"bind">>]
        BY <2>3 DEF Ask, AuthType
      <3> HIDE DEF b
      <3> QED BY <1>3, <2>1, <3>1, <3>2, <3>3, <3>4, <3>5, OneClient
    <2> QED BY <1>5, <2>2, <2>3 DEF HandleGlobal
  <1>6. CASE GlobalsDone(c)
    <2>1. CASE Leave(c, 0, FALSE)
      BY <2>1, LeaveStep
    <2>2. CASE /\ auth' = [auth EXCEPT ![c].pc = "info"]
               /\ Ask(c, <<"get", "sync">>) /\ Drop(c)
      <3> DEFINE b == [a EXCEPT !.pc = "info"]
                 t == <<"get", "sync">>
      <3>1. evs # << >> /\ a.pc = "globals"
        BY <1>6 DEF GlobalsDone, Arrives
      <3>2. a \in Calling /\ ShakesRight(a, reqs, Tail(evs)) /\ Tail(evs) \in Seq(Event)
        BY <1>2, <3>1
      <3>3. b \in Calling /\ b.pc = "info" /\ b.auth_fd = a.auth_fd
        BY <3>2 DEF Calling
      <3>4. t \in Seq(Request) /\ Once(t, {"get"})
        <4>1. t \in Seq(Request)
          BY DEF Request
        <4>2. ASSUME NEW i \in 1 .. Len(t), t[i] = "get" PROVE i = 1
          <5>1. i = 1 \/ i = 2
            OBVIOUS
          <5> QED BY <4>2, <5>1
        <4> QED BY <4>1, <4>2 DEF Once, Places
      <3>5. G(reqs) = {} /\ a.auth_fd = NoFd /\ Places(Tail(evs), Info) = {}
        BY <3>1, <3>2 DEF ShakesRight
      <3>6. reqs \o t \in Seq(Request) /\ Once(reqs \o t, {"get"})
        <4> HIDE DEF t
        <4> QED BY <1>1, <3>4, <3>5, PlacesConcat
      <3>7. ShakesRight(b, reqs \o t, Tail(evs))
        <4> HIDE DEF b, t
        <4> QED BY <3>3, <3>5, <3>6 DEF ShakesRight, Once
      <3>8. /\ auth' = [auth EXCEPT ![c] = b]
            /\ requests' = [requests EXCEPT ![c] = reqs \o t]
            /\ events' = [events EXCEPT ![c] = Tail(evs)]
        BY <2>2 DEF Ask, Drop, AuthType
      <3> HIDE DEF b, t
      <3> QED BY <3>2, <3>3, <3>6, <3>7, <3>8, OneClient
    <2> QED BY <1>6, <2>1, <2>2 DEF GlobalsDone
  <1>7. CASE HandleAuthenticationInfo(c)
    <2>1. CASE Leave(c, 0, FALSE)
      BY <2>1, LeaveStep
    <2>2. CASE Lowest(fds[c]) # NoFd
      <3> DEFINE n == Lowest(fds[c])
                 b == [a EXCEPT !.auth_fd = n]
      <3>1. n \in Num
        BY <2>2, LowestIsFree
      <3>2. evs # << >> /\ Head(evs).ev = "info" /\ Head(evs) \in Event
        BY <1>7, EventFields DEF HandleAuthenticationInfo, Arrives
      <3>3. Head(evs) \in Info
        BY <3>2 DEF Event
      <3>4. a \in Calling /\ Tail(evs) \in Seq(Event)
        BY <1>2, <3>2
      <3>5. b \in Calling /\ b.pc = a.pc /\ a.pc \in {"globals", "info"}
        BY <3>1, <3>4 DEF Calling
      <3>6. 1 \in Places(evs, Info) /\ Once(evs, Info)
        BY <1>1, <3>2, <3>3, <3>5 DEF Places, ShakesRight
      <3>7. Places(Tail(evs), Info) = {} /\ Once(Tail(evs), Info)
        BY <1>1, <3>2, <3>3, <3>6, PlacesTail
      <3>8. a.pc = "info" /\ G(reqs) = {} /\ Once(reqs, {"get"})
        BY <1>1, <3>5, <3>6 DEF ShakesRight
      <3>9. ShakesRight(b, reqs, Tail(evs))
        <4> HIDE DEF b
        <4> QED BY <3>5, <3>7, <3>8 DEF ShakesRight
      <3>10. /\ auth' = [auth EXCEPT ![c] = b]
             /\ events' = [events EXCEPT ![c] = Tail(evs)]
             /\ requests' = requests
        BY <1>7, <2>2 DEF HandleAuthenticationInfo, Drop, AuthType
      <3> HIDE DEF b
      <3> QED BY <1>1, <3>4, <3>5, <3>9, <3>10, OneClient
    <2> QED BY <1>7, <2>1, <2>2 DEF HandleAuthenticationInfo
  <1>8. CASE InfoDone(c)
    BY <1>8, LeaveStep DEF InfoDone
  <1>9. CASE RoundtripFails(c)
    <2>1. (a.auth_fd # NoFd) \in BOOLEAN
      OBVIOUS
    <2> QED BY <1>9, <2>1, LeaveStep DEF RoundtripFails
  <1>10. CASE GlobalRemoved(c)
    <2> DEFINE b == [pc |-> "aborted", calls |-> a.calls, cut |-> FALSE]
    <2>1. a.calls \in Nat
      BY <1>1 DEF Idle, Calling
    <2>2. b \in Idle
      BY <2>1 DEF Idle
    <2>3. ShakesRight(b, << >>, << >>)
      BY DEF ShakesRight
    <2>4. /\ auth' = [auth EXCEPT ![c] = b]
          /\ requests' = [requests EXCEPT ![c] = << >>]
          /\ events' = [events EXCEPT ![c] = << >>]
      BY <1>10 DEF GlobalRemoved
    <2>5. << >> \in Seq(Request) /\ << >> \in Seq(Event)
      OBVIOUS
    <2> HIDE DEF b
    <2> QED BY <2>2, <2>3, <2>4, <2>5, OneClient
  <1> QED BY <1>4, <1>5, <1>6, <1>7, <1>8, <1>9, <1>10

\* The handshakes keep their types and their order.
LEMMA AuthStep ==
    ASSUME AuthType, HandshakeInv, [StartupNext]_startupVars
    PROVE  AuthType' /\ HandshakeInv'
  <1>1. CASE UNCHANGED authVars
    BY <1>1 DEF authVars, AuthType, HandshakeInv
  <1>2. ASSUME NEW c \in Client, Auth(c) PROVE AuthType' /\ HandshakeInv'
    <2>1. CASE ServerInit
      BY <2>1 DEF ServerInit, AuthType, HandshakeInv
    <2> QED BY <1>2, <2>1, ServerStep, ClientStep DEF Auth, Asks, Dispatches
  <1>3. ASSUME NEW c \in Client, Dies(c) PROVE AuthType' /\ HandshakeInv'
    BY <1>3, ClientStep DEF Dies
  <1> QED BY <1>1, <1>2, <1>3 DEF StartupNext, startupVars

-----------------------------------------------------------------------------
(* Who has which descriptor.                                               *)

\* u takes a free number for a new file.
LEMMA TakeOwns ==
    ASSUME NEW table \in [Num -> File], NEW has \in [User -> SUBSET Handle],
           NEW vars, NEW rcv \in SUBSET Num, NEW u \in User, NEW n \in Num,
           table[n] = Free, NEW file \in File
    PROVE  LET t == [table EXCEPT ![n] = file]
               b == [has EXCEPT ![u] = @ \cup {[fd |-> n, is |-> file.kind]}]
           IN  /\ OwnersRight(table, has, vars, rcv) => OwnersRight(t, b, vars, rcv)
               /\ AllOwned(table, has, rcv) => AllOwned(t, b, rcv)
  <1> DEFINE t == [table EXCEPT ![n] = file]
             x == [fd |-> n, is |-> file.kind]
             b == [has EXCEPT ![u] = @ \cup {x}]
  <1>1. \A w \in User : \A h \in b[w] : h \in has[w] \/ (h = x /\ w = u)
    OBVIOUS
  <1>2. \A w \in User : has[w] \subseteq b[w]
    OBVIOUS
  <1>3. x \in b[u] /\ x.fd = n /\ x.is = file.kind /\ t[n] = file
    OBVIOUS
  <1>4. \A m \in Num : m # n => t[m] = table[m]
    OBVIOUS
  <1>5. \A w \in User : \A h \in has[w] :
          h.fd \in Num /\ h.is \in {"drm", "timeline", "fence"}
    BY DEF Handle
  <1>6. table[n].kind = "free"
    BY DEF Free
  <1> HIDE DEF t, b, x
  <1>7. ASSUME OwnersRight(table, has, vars, rcv)
        PROVE  OwnersRight(t, b, vars, rcv)
    <2>1. \A w \in User : \A h \in has[w] : h.fd # n
      BY <1>5, <1>6, <1>7 DEF OwnersRight
    <2>2. n \notin rcv
      BY <1>6, <1>7 DEF OwnersRight
    <2>3. \A w \in User : \A h \in b[w] : t[h.fd].kind = h.is /\ h.fd \notin rcv
      BY <1>1, <1>3, <1>4, <1>5, <1>7, <2>1, <2>2 DEF OwnersRight
    <2>4. \A u1, u2 \in User : \A h1 \in b[u1], h2 \in b[u2] :
            h1.fd = h2.fd => u1 = u2 /\ h1 = h2
      BY <1>1, <1>3, <1>7, <2>1 DEF OwnersRight
    <2>5. \A m \in rcv : t[m].kind = "drm"
      BY <1>4, <1>7, <2>2 DEF OwnersRight
    <2>6. \A v \in EnvVar : vars[v] # NoFd =>
            \E w \in User : [fd |-> vars[v], is |-> "drm"] \in b[w]
      BY <1>2, <1>7 DEF OwnersRight
    <2> QED BY <2>3, <2>4, <2>5, <2>6 DEF OwnersRight
  <1>8. ASSUME AllOwned(table, has, rcv) PROVE AllOwned(t, b, rcv)
    BY <1>2, <1>3, <1>4, <1>8 DEF AllOwned
  <1> QED BY <1>7, <1>8 DEF t, b, x

\* A call takes a free number for a device that it receives.
LEMMA ReceiveOwns ==
    ASSUME NEW table \in [Num -> File], NEW has \in [User -> SUBSET Handle],
           NEW vars, NEW n \in Num, table[n] = Free,
           NEW file \in File, file.kind = "drm"
    PROVE  LET t == [table EXCEPT ![n] = file]
           IN  /\ OwnersRight(table, has, vars, {}) => OwnersRight(t, has, vars, {n})
               /\ AllOwned(table, has, {}) => AllOwned(t, has, {n})
  <1> DEFINE t == [table EXCEPT ![n] = file]
  <1>1. t[n] = file /\ \A m \in Num : m # n => t[m] = table[m]
    OBVIOUS
  <1>2. \A w \in User : \A h \in has[w] :
          h.fd \in Num /\ h.is \in {"drm", "timeline", "fence"}
    BY DEF Handle
  <1>3. table[n].kind = "free"
    BY DEF Free
  <1> HIDE DEF t
  <1>4. ASSUME OwnersRight(table, has, vars, {}) PROVE OwnersRight(t, has, vars, {n})
    <2>1. \A w \in User : \A h \in has[w] : h.fd # n
      BY <1>2, <1>3, <1>4 DEF OwnersRight
    <2> QED BY <1>1, <1>2, <1>4, <2>1 DEF OwnersRight
  <1>5. ASSUME AllOwned(table, has, {}) PROVE AllOwned(t, has, {n})
    BY <1>1, <1>5 DEF AllOwned
  <1> QED BY <1>4, <1>5 DEF t

\* A call hands what it received to u.
LEMMA DeliverOwns ==
    ASSUME NEW table, NEW has \in [User -> SUBSET Handle], NEW vars,
           NEW u \in User, NEW n \in Num
    PROVE  LET b == [has EXCEPT ![u] = @ \cup {[fd |-> n, is |-> "drm"]}]
           IN  /\ OwnersRight(table, has, vars, {n}) => OwnersRight(table, b, vars, {})
               /\ AllOwned(table, has, {n}) => AllOwned(table, b, {})
  <1> DEFINE x == [fd |-> n, is |-> "drm"]
             b == [has EXCEPT ![u] = @ \cup {x}]
  <1>1. \A w \in User : \A h \in b[w] : h \in has[w] \/ (h = x /\ w = u)
    OBVIOUS
  <1>2. \A w \in User : has[w] \subseteq b[w]
    OBVIOUS
  <1>3. x \in b[u] /\ x.fd = n /\ x.is = "drm"
    OBVIOUS
  <1> HIDE DEF b, x
  <1>4. ASSUME OwnersRight(table, has, vars, {n}) PROVE OwnersRight(table, b, vars, {})
    <2>1. \A w \in User : \A h \in has[w] : h.fd # n
      BY <1>4 DEF OwnersRight
    <2>2. \A u1, u2 \in User : \A h1 \in b[u1], h2 \in b[u2] :
            h1.fd = h2.fd => u1 = u2 /\ h1 = h2
      BY <1>1, <1>3, <1>4, <2>1 DEF OwnersRight
    <2> QED BY <1>1, <1>2, <1>3, <1>4, <2>2 DEF OwnersRight
  <1>5. ASSUME AllOwned(table, has, {n}) PROVE AllOwned(table, b, {})
    BY <1>2, <1>3, <1>5 DEF AllOwned
  <1> QED BY <1>4, <1>5 DEF b, x

\* A call closes what it received.
LEMMA DropOwns ==
    ASSUME NEW table \in [Num -> File], NEW has \in [User -> SUBSET Handle],
           NEW vars, NEW n \in Num
    PROVE  LET t == [table EXCEPT ![n] = Free]
           IN  /\ OwnersRight(table, has, vars, {n}) => OwnersRight(t, has, vars, {})
               /\ AllOwned(table, has, {n}) => AllOwned(t, has, {})
  <1> DEFINE t == [table EXCEPT ![n] = Free]
  <1>1. t[n].kind = "free" /\ \A m \in Num : m # n => t[m] = table[m]
    BY DEF Free
  <1>2. \A w \in User : \A h \in has[w] : h.fd \in Num
    BY DEF Handle
  <1> HIDE DEF t
  <1>3. ASSUME OwnersRight(table, has, vars, {n}) PROVE OwnersRight(t, has, vars, {})
    BY <1>1, <1>2, <1>3 DEF OwnersRight
  <1>4. ASSUME AllOwned(table, has, {n}) PROVE AllOwned(t, has, {})
    BY <1>1, <1>4 DEF AllOwned
  <1> QED BY <1>3, <1>4 DEF t

\* u closes a number that no variable names.
LEMMA CloseOwns ==
    ASSUME NEW table \in [Num -> File], NEW has \in [User -> SUBSET Handle],
           NEW vars, NEW rcv \in SUBSET Num, NEW u \in User, NEW x \in has[u],
           x.fd \notin {vars[v] : v \in EnvVar},
           OwnersRight(table, has, vars, rcv)
    PROVE  LET t == [table EXCEPT ![x.fd] = Free]
               b == [has EXCEPT ![u] = @ \ {x}]
           IN  /\ OwnersRight(t, b, vars, rcv)
               /\ AllOwned(table, has, rcv) => AllOwned(t, b, rcv)
  <1> DEFINE t == [table EXCEPT ![x.fd] = Free]
             b == [has EXCEPT ![u] = @ \ {x}]
  <1>1. x.fd \in Num
    BY DEF Handle
  <1>2. t[x.fd].kind = "free" /\ \A m \in Num : m # x.fd => t[m] = table[m]
    BY <1>1 DEF Free
  <1>3. \A w \in User : \A h \in has[w] : h.fd \in Num
    BY DEF Handle
  <1>4. \A w \in User : b[w] \subseteq has[w]
    OBVIOUS
  <1>5. \A w \in User : \A h \in has[w] : h.fd # x.fd => h \in b[w]
    OBVIOUS
  <1>6. \A w \in User : \A h \in b[w] : h.fd # x.fd
    <2>1. \A w \in User : \A h \in b[w] : w = u => h # x
      OBVIOUS
    <2> HIDE DEF b
    <2> QED BY <1>4, <2>1 DEF OwnersRight
  <1> HIDE DEF t, b
  <1>7. \A v \in EnvVar : vars[v] # NoFd =>
          \E w \in User : [fd |-> vars[v], is |-> "drm"] \in b[w]
    <2>1. SUFFICES ASSUME NEW v \in EnvVar, vars[v] # NoFd
                   PROVE  \E w \in User : [fd |-> vars[v], is |-> "drm"] \in b[w]
      OBVIOUS
    <2>2. PICK w \in User : [fd |-> vars[v], is |-> "drm"] \in has[w]
      BY <2>1 DEF OwnersRight
    <2>3. [fd |-> vars[v], is |-> "drm"].fd # x.fd
      OBVIOUS
    <2> QED BY <1>5, <2>2, <2>3
  <1>8. OwnersRight(t, b, vars, rcv)
    BY <1>2, <1>3, <1>4, <1>6, <1>7 DEF OwnersRight
  <1>9. AllOwned(table, has, rcv) => AllOwned(t, b, rcv)
    BY <1>2, <1>5 DEF AllOwned
  <1> QED BY <1>8, <1>9 DEF t, b

\* A step that concerns one process.
LEMMA OneProcess ==
    ASSUME FdsType, OwnersInv, NoLeak, NEW p \in Process,
           NEW t, NEW b, NEW e,
           fds' = [fds EXCEPT ![p] = t],
           held' = [held EXCEPT ![p] = b],
           env' = [env EXCEPT ![p] = e],
           \A x \in Process \ {p} :
             /\ load'[x].closed = load[x].closed
             /\ Rcv(x)' = Rcv(x)
             /\ x \in Client => auth'[x].cut = auth[x].cut,
           load'[p].closed \/ OwnersRight(t, b, e, Rcv(p)'),
           p \in Client => load'[p].closed \/ auth'[p].cut \/ AllOwned(t, b, Rcv(p)')
    PROVE  OwnersInv' /\ NoLeak'
  <1> USE DrmAuthAssumption
  <1>1. fds'[p] = t /\ held'[p] = b /\ env'[p] = e
    BY DEF FdsType
  <1>2. ASSUME NEW x \in Process, x # p
        PROVE  fds'[x] = fds[x] /\ held'[x] = held[x] /\ env'[x] = env[x]
    BY <1>2 DEF FdsType
  <1>3. ASSUME NEW x \in Process
        PROVE  load'[x].closed \/ OwnersRight(fds'[x], held'[x], env'[x], Rcv(x)')
    <2>1. CASE x = p
      BY <1>1, <2>1
    <2>2. CASE x # p
      BY <1>2, <2>2 DEF OwnersInv
    <2> QED BY <2>1, <2>2
  <1>4. ASSUME NEW x \in Client
        PROVE  load'[x].closed \/ auth'[x].cut \/ AllOwned(fds'[x], held'[x], Rcv(x)')
    <2>1. CASE x = p
      BY <1>1, <2>1
    <2>2. CASE x # p
      BY <1>2, <2>2 DEF NoLeak
    <2> QED BY <2>1, <2>2
  <1> QED BY <1>3, <1>4 DEF OwnersInv, NoLeak

\* Every step leaves each number with one owner.
LEMMA OwnersStep ==
    ASSUME TypeOK, HandshakeInv, OwnersInv, NoLeak, [StartupNext]_startupVars
    PROVE  OwnersInv' /\ NoLeak'
  <1> USE DrmAuthAssumption
  <1>1. FdsType /\ AuthType /\ LoadType
    BY DEF TypeOK
  <1>2. ASSUME NEW x \in Process
        PROVE  /\ fds[x] \in [Num -> File] /\ held[x] \in [User -> SUBSET Handle]
               /\ env[x] \in [EnvVar -> Num \cup {NoFd}] /\ Rcv(x) \in SUBSET Num
               /\ [fds EXCEPT ![x] = fds[x]] = fds
               /\ [held EXCEPT ![x] = held[x]] = held
               /\ [env EXCEPT ![x] = env[x]] = env
               /\ load[x].closed \/ OwnersRight(fds[x], held[x], env[x], Rcv(x))
               /\ x \in Client =>
                    load[x].closed \/ auth[x].cut \/ AllOwned(fds[x], held[x], Rcv(x))
    BY <1>1 DEF FdsType, Rcv, OwnersInv, NoLeak
  <1>3. ASSUME UNCHANGED auth, NEW x \in Process PROVE Rcv(x)' = Rcv(x)
    BY <1>3 DEF Rcv, Received, Connected
  <1>4. ASSUME UNCHANGED fdsVars, CallsKeep PROVE OwnersInv' /\ NoLeak'
    <2>1. ASSUME NEW p \in Process
          PROVE  load'[p].closed \/ OwnersRight(fds'[p], held'[p], env'[p], Rcv(p)')
      <3>1. Rcv(p)' \subseteq Rcv(p)
        BY <1>4 DEF CallsKeep, Rcv, Received
      <3>2. OwnersRight(fds[p], held[p], env[p], Rcv(p))
              => OwnersRight(fds[p], held[p], env[p], Rcv(p)')
        BY <3>1 DEF OwnersRight
      <3> QED BY <1>2, <1>4, <3>2 DEF CallsKeep, fdsVars
    <2>2. ASSUME NEW c \in Client
          PROVE  load'[c].closed \/ auth'[c].cut \/ AllOwned(fds'[c], held'[c], Rcv(c)')
      <3>1. ~auth'[c].cut => Rcv(c) \subseteq Rcv(c)'
        BY <1>4 DEF CallsKeep, Rcv
      <3>2. ~auth'[c].cut /\ AllOwned(fds[c], held[c], Rcv(c))
              => AllOwned(fds[c], held[c], Rcv(c)')
        BY <3>1 DEF AllOwned
      <3> QED BY <1>2, <1>4, <3>2 DEF CallsKeep, fdsVars
    <2> QED BY <2>1, <2>2 DEF OwnersInv, NoLeak
  <1>5. ASSUME NEW p \in Process, NEW file \in File, NEW u \in User,
               Lowest(fds[p]) # NoFd, UNCHANGED <<env, auth, load>>,
               fds' = [fds EXCEPT ![p] = Opened(p, Lowest(fds[p]), file)],
               Hold(p, u, Lowest(fds[p]), file.kind)
        PROVE  OwnersInv' /\ NoLeak'
    <2> DEFINE n == Lowest(fds[p])
               t == [fds[p] EXCEPT ![n] = file]
               b == [held[p] EXCEPT ![u] = @ \cup {[fd |-> n, is |-> file.kind]}]
    <2>1. n \in Num /\ fds[p][n] = Free
      BY <1>5, LowestIsFree
    <2>2. /\ OwnersRight(fds[p], held[p], env[p], Rcv(p))
               => OwnersRight(t, b, env[p], Rcv(p))
          /\ AllOwned(fds[p], held[p], Rcv(p)) => AllOwned(t, b, Rcv(p))
      BY <1>2, <2>1, TakeOwns
    <2>3. fds' = [fds EXCEPT ![p] = t] /\ held' = [held EXCEPT ![p] = b]
            /\ env' = [env EXCEPT ![p] = env[p]]
      BY <1>1, <1>2, <1>5 DEF Opened, Hold, FdsType
    <2> HIDE DEF t, b, n
    <2>4. load'[p].closed \/ OwnersRight(t, b, env[p], Rcv(p)')
      BY <1>2, <1>3, <1>5, <2>2
    <2>5. p \in Client => load'[p].closed \/ auth'[p].cut \/ AllOwned(t, b, Rcv(p)')
      BY <1>2, <1>3, <1>5, <2>2
    <2> QED BY <1>1, <1>3, <1>5, <2>3, <2>4, <2>5, OneProcess
  <1>6. ASSUME NEW p \in Process, NEW file \in File \ {Free}, OpenAs(p, file),
               UNCHANGED <<auth, load>>
        PROVE  OwnersInv' /\ NoLeak'
    <2>1. "app" \in User
      BY FdsAssumption
    <2> QED BY <1>5, <1>6, <2>1 DEF OpenAs
  <1>7. ASSUME NEW p \in Process, NEW u \in User, NEW v \in EnvVar,
               GetFd(p, u, v), UNCHANGED <<auth, load>>
        PROVE  OwnersInv' /\ NoLeak'
    <2>1. env[p][v] \in Num /\ fds[p][env[p][v]] \in File
      BY <1>2, <1>7 DEF GetFd
    <2>2. CASE fds[p][env[p][v]].kind = "drm"
      BY <1>5, <1>7, <2>1, <2>2 DEF GetFd
    <2>3. CASE load[p].closed
      <3> DEFINE n == Lowest(fds[p])
                 t == [fds[p] EXCEPT ![n] = fds[p][env[p][v]]]
                 b == [held[p] EXCEPT ![u] = @ \cup {[fd |-> n, is |-> "drm"]}]
      <3>1. fds' = [fds EXCEPT ![p] = t] /\ held' = [held EXCEPT ![p] = b]
              /\ env' = [env EXCEPT ![p] = env[p]]
        BY <1>1, <1>2, <1>7 DEF GetFd, Opened, Hold, FdsType
      <3> HIDE DEF n, t, b
      <3> QED BY <1>1, <1>3, <1>7, <2>3, <3>1, OneProcess
    <2>4. CASE ~load[p].closed
      <3>1. PICK w \in User : [fd |-> env[p][v], is |-> "drm"] \in held[p][w]
        BY <1>2, <1>7, <2>4 DEF OwnersRight, GetFd
      <3>2. fds[p][env[p][v]].kind = "drm"
        BY <1>2, <2>4, <3>1 DEF OwnersRight
      <3> QED BY <2>2, <3>2
    <2> QED BY <2>3, <2>4
  <1>8. ASSUME NEW p \in Process, NEW u \in User, NEW h \in held[p][u],
               Close(p, u, h), UNCHANGED <<auth, load>>
        PROVE  OwnersInv' /\ NoLeak'
    <2> DEFINE t == [fds[p] EXCEPT ![h.fd] = Free]
               b == [held[p] EXCEPT ![u] = @ \ {h}]
    <2>1. h.fd \in Num /\ h.fd # NoFd
      BY <1>2, FdsAssumption DEF Handle, Num, NoFd
    <2>2. fds' = [fds EXCEPT ![p] = t] /\ held' = [held EXCEPT ![p] = b]
            /\ env' = [env EXCEPT ![p] = env[p]]
      BY <1>1, <1>2, <1>8, <2>1 DEF Close, Closed, FdsType
    <2>3. OwnersRight(fds[p], held[p], env[p], Rcv(p)) =>
            /\ OwnersRight(t, b, env[p], Rcv(p))
            /\ AllOwned(fds[p], held[p], Rcv(p)) => AllOwned(t, b, Rcv(p))
      <3>1. h.fd \notin {env[p][v] : v \in EnvVar}
        BY <1>8 DEF Close
      <3>2. /\ fds[p] \in [Num -> File] /\ held[p] \in [User -> SUBSET Handle]
            /\ Rcv(p) \in SUBSET Num
        BY <1>2
      <3> QED BY <3>1, <3>2, CloseOwns
    <2> HIDE DEF t, b
    <2> QED BY <1>1, <1>2, <1>3, <1>8, <2>2, <2>3, OneProcess
  <1>9. ASSUME NEW p \in Process, NEW v \in EnvVar, NEW n \in Num \cup {NoFd},
               env' = [env EXCEPT ![p][v] = n], UNCHANGED <<fds, held, auth, load>>,
               n # NoFd => \E u \in User : [fd |-> n, is |-> "drm"] \in held[p][u]
        PROVE  OwnersInv' /\ NoLeak'
    <2> DEFINE e == [env[p] EXCEPT ![v] = n]
    <2>1. /\ fds' = [fds EXCEPT ![p] = fds[p]] /\ held' = [held EXCEPT ![p] = held[p]]
          /\ env' = [env EXCEPT ![p] = e]
      BY <1>1, <1>2, <1>9 DEF FdsType
    <2>2. \A w \in EnvVar : e[w] = n \/ e[w] = env[p][w]
      BY <1>2
    <2>3. OwnersRight(fds[p], held[p], env[p], Rcv(p))
            => OwnersRight(fds[p], held[p], e, Rcv(p))
      <3> HIDE DEF e
      <3> QED BY <1>9, <2>2 DEF OwnersRight
    <2> HIDE DEF e
    <2>4. load'[p].closed \/ OwnersRight(fds[p], held[p], e, Rcv(p)')
      BY <1>2, <1>3, <1>9, <2>3
    <2>5. p \in Client =>
            load'[p].closed \/ auth'[p].cut \/ AllOwned(fds[p], held[p], Rcv(p)')
      BY <1>2, <1>3, <1>9
    <2>6. \A x \in Process \ {p} :
            /\ load'[x].closed = load[x].closed /\ Rcv(x)' = Rcv(x)
            /\ x \in Client => auth'[x].cut = auth[x].cut
      BY <1>3, <1>9
    <2> QED BY <1>1, <2>1, <2>4, <2>5, <2>6, OneProcess
  <1>10. ASSUME NEW p \in Process, NEW u \in User, NEW v \in EnvVar,
                NEW h \in held[p][u], SetFd(p, u, v, h), UNCHANGED <<auth, load>>
         PROVE  OwnersInv' /\ NoLeak'
    <2>1. h.fd \in Num /\ h = [fd |-> h.fd, is |-> "drm"]
      BY <1>2, <1>10 DEF Handle, SetFd
    <2>2. [fd |-> h.fd, is |-> "drm"] \in held[p][u]
      BY <2>1
    <2> QED BY <1>9, <1>10, <2>1, <2>2 DEF SetFd
  <1>11. ASSUME NEW p \in Process, NEW v \in EnvVar, UnsetFd(p, v),
                UNCHANGED <<auth, load>>
         PROVE  OwnersInv' /\ NoLeak'
    BY <1>9, <1>11 DEF UnsetFd
  <1>12. ASSUME NEW c \in Client, NEW a, auth' = [auth EXCEPT ![c] = a]
         PROVE  /\ auth'[c] = a
                /\ \A x \in Process \ {c} :
                     /\ Rcv(x)' = Rcv(x)
                     /\ x \in Client => auth'[x].cut = auth[x].cut
    <2>1. auth'[c] = a
      BY <1>1, <1>12 DEF AuthType
    <2>2. \A x \in Client : x # c => auth'[x] = auth[x]
      BY <1>1, <1>12 DEF AuthType
    <2> QED BY <2>1, <2>2 DEF Rcv, Received, Connected
  <1>13. ASSUME NEW c \in Client, HandleAuthenticationInfo(c), UNCHANGED load,
                Lowest(fds[c]) # NoFd
         PROVE  OwnersInv' /\ NoLeak'
    <2> DEFINE n == Lowest(fds[c])
               file == [kind |-> "drm", auth |-> Head(events[c]).auth]
               t == [fds[c] EXCEPT ![n] = file]
               a == [auth[c] EXCEPT !.auth_fd = n]
    <2>1. n \in Num /\ fds[c][n] = Free
      BY <1>13, LowestIsFree
    <2>2. /\ events[c] # << >> /\ Head(events[c]).ev = "info"
          /\ Head(events[c]).auth \in Magic /\ Head(events[c]) \in Event
          /\ events[c] \in Seq(Event)
      BY <1>1, <1>13, EventFields DEF HandleAuthenticationInfo, Arrives
    <2>3. file \in File /\ file.kind = "drm"
      BY <2>2 DEF File
    <2>4. Connected(c) /\ auth[c] \in Calling
      BY <1>1, <2>2, EventFields DEF HandshakeInv, ShakesRight, Connected
    <2>5. 1 \in Places(events[c], Info)
      BY <2>2 DEF Places, Event
    <2>6. auth[c].auth_fd = NoFd /\ NoFd \notin Num
      BY <2>4, <2>5, FdsAssumption DEF HandshakeInv, ShakesRight, Connected, Num, NoFd
    <2>7. Rcv(c) = {}
      BY <2>6 DEF Rcv, Received
    <2>8. /\ fds' = [fds EXCEPT ![c] = t] /\ auth' = [auth EXCEPT ![c] = a]
          /\ held' = [held EXCEPT ![c] = held[c]] /\ env' = [env EXCEPT ![c] = env[c]]
      BY <1>1, <1>2, <1>13 DEF HandleAuthenticationInfo, Opened, AuthType
    <2>9. a.auth_fd = n /\ a.pc = auth[c].pc /\ a.cut = auth[c].cut
      BY <2>4 DEF Calling
    <2>10. /\ OwnersRight(fds[c], held[c], env[c], {}) => OwnersRight(t, held[c], env[c], {n})
           /\ AllOwned(fds[c], held[c], {}) => AllOwned(t, held[c], {n})
      <3> HIDE DEF n, file
      <3> QED BY <1>2, <2>1, <2>3, ReceiveOwns
    <2> HIDE DEF n, t, a, file
    <2>11. Rcv(c)' = {n} /\ auth'[c].cut = auth[c].cut
      BY <1>12, <2>1, <2>4, <2>8, <2>9 DEF Rcv, Received, Connected
    <2>12. \A x \in Process \ {c} : /\ Rcv(x)' = Rcv(x)
                                    /\ x \in Client => auth'[x].cut = auth[x].cut
      BY <1>12, <2>8
    <2>13. load'[c].closed \/ OwnersRight(t, held[c], env[c], Rcv(c)')
      BY <1>2, <1>13, <2>7, <2>10, <2>11, ZenonT(30)
    <2>14. load'[c].closed \/ auth'[c].cut \/ AllOwned(t, held[c], Rcv(c)')
      BY <1>2, <1>13, <2>7, <2>10, <2>11, ZenonT(30)
    <2> QED BY <1>1, <1>13, <2>8, <2>12, <2>13, <2>14, OneProcess
  <1>14. ASSUME NEW c \in Client, InfoDone(c), UNCHANGED load, auth[c].auth_fd # NoFd
         PROVE  OwnersInv' /\ NoLeak'
    <2> DEFINE n == auth[c].auth_fd
               a == [pc |-> "none", calls |-> auth[c].calls, ret |-> 1,
                     cut |-> auth[c].cut \/ FALSE]
               b == [held[c] EXCEPT ![auth[c].user] = @ \cup {[fd |-> n, is |-> "drm"]}]
               t == [fds[c] EXCEPT ![n] = Free]
    <2>1. Connected(c) /\ auth[c] \in Calling
      BY <1>1, <1>14, EventFields DEF InfoDone, Connected
    <2>2. n \in Num /\ auth[c].user \in User
      BY <1>14, <2>1 DEF Calling
    <2>3. Rcv(c) = {n}
      BY <2>1, <2>2 DEF Rcv, Received
    <2>4. auth' = [auth EXCEPT ![c] = a] /\ env' = [env EXCEPT ![c] = env[c]]
      BY <1>2, <1>14 DEF InfoDone, Leave
    <2>5. a.pc = "none" /\ a.cut = (auth[c].cut \/ FALSE)
      OBVIOUS
    <2>6. /\ OwnersRight(fds[c], held[c], env[c], {n}) =>
               OwnersRight(fds[c], b, env[c], {}) /\ OwnersRight(t, held[c], env[c], {})
          /\ AllOwned(fds[c], held[c], {n}) =>
               AllOwned(fds[c], b, {}) /\ AllOwned(t, held[c], {})
      <3> HIDE DEF n
      <3> QED BY <1>2, <2>2, DeliverOwns, DropOwns
    <2>7. \/ fds' = [fds EXCEPT ![c] = fds[c]] /\ held' = [held EXCEPT ![c] = b]
          \/ fds' = [fds EXCEPT ![c] = t] /\ held' = [held EXCEPT ![c] = held[c]]
      BY <1>1, <1>2, <1>14 DEF InfoDone, Hold, Closed, FdsType
    <2> HIDE DEF n, t, a, b
    <2>8. Rcv(c)' = {} /\ (auth[c].cut => auth'[c].cut)
      BY <1>12, <2>4, <2>5 DEF Rcv, Received, Connected
    <2>9. \A x \in Process \ {c} : /\ Rcv(x)' = Rcv(x)
                                   /\ x \in Client => auth'[x].cut = auth[x].cut
      BY <1>12, <2>4
    <2>10. load[c].closed \/ OwnersRight(fds[c], held[c], env[c], {n})
      BY <1>2, <2>3
    <2>11. load[c].closed \/ auth[c].cut \/ AllOwned(fds[c], held[c], {n})
      BY <1>2, <2>3
    <2>12. /\ load'[c].closed \/ OwnersRight(fds[c], b, env[c], Rcv(c)')
           /\ load'[c].closed \/ auth'[c].cut \/ AllOwned(fds[c], b, Rcv(c)')
           /\ load'[c].closed \/ OwnersRight(t, held[c], env[c], Rcv(c)')
           /\ load'[c].closed \/ auth'[c].cut \/ AllOwned(t, held[c], Rcv(c)')
      BY <1>14, <2>6, <2>8, <2>10, <2>11
    <2>13. CASE fds' = [fds EXCEPT ![c] = fds[c]] /\ held' = [held EXCEPT ![c] = b]
      BY <1>1, <1>14, <2>4, <2>9, <2>12, <2>13, OneProcess
    <2>14. CASE fds' = [fds EXCEPT ![c] = t] /\ held' = [held EXCEPT ![c] = held[c]]
      BY <1>1, <1>14, <2>4, <2>9, <2>12, <2>14, OneProcess
    <2> QED BY <2>7, <2>13, <2>14
  <1>15. ASSUME NEW c \in Client, Dies(c) PROVE OwnersInv' /\ NoLeak'
    <2> DEFINE t == [n \in Num |-> Free]
               b == [u \in User |-> {}]
               e == [v \in EnvVar |-> NoFd]
               a == [pc |-> "aborted", calls |-> auth[c].calls, cut |-> FALSE]
    <2>1. /\ fds' = [fds EXCEPT ![c] = t] /\ held' = [held EXCEPT ![c] = b]
          /\ env' = [env EXCEPT ![c] = e] /\ auth' = [auth EXCEPT ![c] = a]
          /\ load' = [load EXCEPT ![c] = Unloaded]
      BY <1>15 DEF Dies, GlobalRemoved
    <2>2. OwnersRight(t, b, e, {}) /\ AllOwned(t, b, {})
      BY DEF OwnersRight, AllOwned, Free
    <2>3. a.pc = "aborted"
      OBVIOUS
    <2> HIDE DEF t, b, e, a
    <2>4. Rcv(c)' = {}
      BY <1>12, <2>1, <2>3 DEF Rcv, Received, Connected
    <2>5. \A x \in Process \ {c} : load'[x].closed = load[x].closed
      BY <1>1, <2>1 DEF LoadType
    <2>6. \A x \in Process \ {c} : /\ Rcv(x)' = Rcv(x)
                                   /\ x \in Client => auth'[x].cut = auth[x].cut
      BY <1>12, <2>1
    <2> QED BY <1>1, <2>1, <2>2, <2>4, <2>5, <2>6, OneProcess
  <1>16. ASSUME NEW p \in Process, BufmgrDeinit(p), UNCHANGED auth
         PROVE  OwnersInv' /\ NoLeak'
    <2>1. /\ held' = [held EXCEPT ![p] = held[p]] /\ env' = [env EXCEPT ![p] = env[p]]
      BY <1>2, <1>16 DEF BufmgrDeinit
    <2>2. \A x \in Process \ {p} : load'[x].closed = load[x].closed
      BY <1>1, <1>16 DEF BufmgrDeinit, LoadType
    <2>3. load'[p].closed = (load[p].closed \/ load[p].fd > 0)
      BY <1>1, <1>16 DEF BufmgrDeinit, LoadType, Unloaded
    <2>4. CASE load[p].fd > 0
      <3>1. fds' = [fds EXCEPT ![p] = Closed(p, load[p].fd)]
        BY <1>16, <2>4 DEF BufmgrDeinit
      <3> QED BY <1>1, <1>3, <1>16, <2>1, <2>2, <2>3, <2>4, <3>1, OneProcess
    <2>5. CASE ~(load[p].fd > 0)
      <3>1. fds' = [fds EXCEPT ![p] = fds[p]]
        BY <1>16, <2>5 DEF BufmgrDeinit
      <3>2. load'[p].closed \/ OwnersRight(fds[p], held[p], env[p], Rcv(p)')
        BY <1>2, <1>3, <1>16, <2>3, <2>5
      <3>3. p \in Client =>
              load'[p].closed \/ auth'[p].cut \/ AllOwned(fds[p], held[p], Rcv(p)')
        BY <1>2, <1>3, <1>16, <2>3, <2>5
      <3> QED BY <1>1, <1>3, <1>16, <2>1, <2>2, <3>1, <3>2, <3>3, OneProcess
    <2> QED BY <2>4, <2>5
  <1> QED BY <1>1, <1>4, <1>6, <1>7, <1>8, <1>10, <1>11, <1>13, <1>14, <1>15, <1>16,
             FdsSteps

-----------------------------------------------------------------------------
(* The theorems.                                                           *)

LEMMA InitIInv == StartupInit => IInv
  <1> SUFFICES ASSUME StartupInit PROVE IInv
    OBVIOUS
  <1> USE DEF StartupInit
  <1>1. FdsType
    BY DEF FdsInit, FdsType, File
  <1>2. AuthType /\ HandshakeInv
    <2>1. NotCalling \in Idle /\ NotCalling.pc = "none"
      BY DEF NotCalling, Idle
    <2>2. ShakesRight(NotCalling, << >>, << >>)
      BY <2>1 DEF ShakesRight
    <2>3. << >> \in Seq(Request) /\ << >> \in Seq(Event)
      OBVIOUS
    <2> QED BY <2>1, <2>2, <2>3 DEF AuthInit, AuthType, HandshakeInv
  <1>3. SyncType /\ WaitInv
    BY DEF SyncInit, SyncType, Wait, NoWait, WaitInv, TicksRight, AnswerRight
  <1>4. OwnersInv /\ NoLeak
    <2>1. \A p \in Process : Rcv(p) = {}
      BY DEF Rcv, Received, Connected, AuthInit, NotCalling
    <2>2. ASSUME NEW p \in Process
          PROVE  /\ OwnersRight(fds[p], held[p], env[p], Rcv(p))
                 /\ AllOwned(fds[p], held[p], Rcv(p))
      BY <2>1 DEF FdsInit, OwnersRight, AllOwned, Free
    <2> QED BY <2>2, DrmAuthAssumption DEF OwnersInv, NoLeak
  <1> QED BY <1>1, <1>2, <1>3, <1>4, LoadInitial DEF IInv, TypeOK

LEMMA NextIInv == IInv /\ [StartupNext]_startupVars => IInv'
  <1> SUFFICES ASSUME IInv, [StartupNext]_startupVars PROVE IInv'
    OBVIOUS
  <1>1. /\ FdsType /\ AuthType /\ LoadType /\ SyncType /\ ModuleInv /\ WaitInv
        /\ HandshakeInv /\ OwnersInv /\ NoLeak /\ TypeOK
    BY DEF IInv, TypeOK
  <1>2. FdsType'
    BY <1>1, FdsTypeStep
  <1>3. LoadType' /\ ModuleInv'
    BY <1>1, LoadStep
  <1>4. SyncType' /\ WaitInv'
    BY <1>1, SyncStep
  <1>5. AuthType' /\ HandshakeInv'
    BY <1>1, AuthStep
  <1>6. OwnersInv' /\ NoLeak'
    BY <1>1, OwnersStep
  <1> QED BY <1>2, <1>3, <1>4, <1>5, <1>6 DEF IInv, TypeOK

\* The inductive invariant holds in every state.
THEOREM Invariance == StartupSpec => []IInv
  BY InitIInv, NextIInv, PTL DEF StartupSpec

\* tbm_sync_fence_wait answers 1 only for a fence that is signalled, and still
\* is, and -1 only after a whole timeout, and at most one more for each
\* interrupt: for any fence, timeout and number of interrupts, also when the
\* number is closed and used again between two ioctls.
THEOREM FenceWaitAnswers == StartupSpec => []WaitAnswers
  <1>1. IInv => WaitAnswers
    <2> SUFFICES ASSUME IInv, NEW p \in Process, wait[p].pc = "returned"
                 PROVE  /\ wait[p].ret = 1 => Signalled(wait[p].pts)
                        /\ wait[p].ret = -1 =>
                             /\ wait[p].timeout >= 0
                             /\ wait[p].ticks \in wait[p].timeout ..
                                  wait[p].timeout * (wait[p].interrupts + 1)
      BY DEF WaitAnswers
    <2>1. AnswerRight(value, wait[p])
      BY DEF IInv, WaitInv
    <2> QED BY <2>1 DEF AnswerRight, Signalled
  <1> QED BY <1>1, Invariance, PTL

\* What a user got from get_auth_info, get_fd, timeline_create, fence_create or
\* fence_merge and has not closed is open and is the file it got, and no device
\* that drmAuthMagic refused, for any number of users and numbers.
THEOREM HeldDescriptorsRight == StartupSpec => []HeldIsRight
  <1>1. IInv => HeldIsRight
    <2> SUFFICES ASSUME IInv, NEW p \in Process, NEW u \in User,
                        NEW h \in held[p][u], ~load[p].closed
                 PROVE  /\ fds[p][h.fd].kind = h.is
                        /\ h.is = "drm" => fds[p][h.fd].auth \in Magic
      BY DEF HeldIsRight
    <2>1. fds[p][h.fd].kind = h.is
      BY DEF IInv, OwnersInv, OwnersRight
    <2>2. fds[p][h.fd] \in File
      BY DEF IInv, TypeOK, FdsType, Handle
    <2> QED BY <2>1, <2>2, FileFields
  <1> QED BY <1>1, Invariance, PTL

\* Every DRM descriptor of a client has exactly one owner through all
\* handshakes, duplicates and closes, unless a connection was cut between the
\* answer and the end of the roundtrip: no descriptor leaks and none is closed
\* twice.
THEOREM DescriptorsAccounted == StartupSpec => []FdsAccounted
  <1>1. IInv => FdsAccounted
    <2> SUFFICES ASSUME IInv, NEW c \in Client, ~auth[c].cut, ~load[c].closed,
                        NEW n \in Num, fds[c][n].kind = "drm"
                 PROVE  Cardinality({u \in User : \E h \in held[c][u] : h.fd = n}
                                      \cup (IF Connected(c) /\ auth[c].auth_fd = n
                                            THEN {"get_auth_info"} ELSE {})) = 1
      BY DEF FdsAccounted
    <2> DEFINE users == {u \in User : \E h \in held[c][u] : h.fd = n}
               call == IF Connected(c) /\ auth[c].auth_fd = n
                       THEN {"get_auth_info"} ELSE {}
    <2>1. c \in Process
      BY DrmAuthAssumption
    <2>2. OwnersRight(fds[c], held[c], env[c], Rcv(c)) /\ AllOwned(fds[c], held[c], Rcv(c))
      BY <2>1 DEF IInv, OwnersInv, NoLeak
    <2>3. n \in Rcv(c) <=> Connected(c) /\ auth[c].auth_fd = n
      BY DEF Rcv, Received
    <2>4. n \in Rcv(c) => users = {} /\ call = {"get_auth_info"}
      BY <2>2, <2>3 DEF OwnersRight
    <2>5. n \notin Rcv(c) => call = {} /\ \E u \in User : users = {u}
      <3> SUFFICES ASSUME n \notin Rcv(c) PROVE call = {} /\ \E u \in User : users = {u}
        OBVIOUS
      <3>1. PICK u \in User : \E h \in held[c][u] : h.fd = n
        BY <2>2 DEF AllOwned
      <3>2. \A w \in users : w = u
        BY <2>2, <3>1 DEF OwnersRight
      <3> QED BY <2>3, <3>1, <3>2
    <2>6. \E x : users \cup call = {x}
      BY <2>4, <2>5
    <2> HIDE DEF users, call
    <2>7. Cardinality(users \cup call) = 1
      BY <2>6, FS_Singleton
    <2> QED BY <2>7 DEF users, call
  <1> QED BY <1>1, Invariance, PTL

=============================================================================
