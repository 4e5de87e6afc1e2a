--------------------------- MODULE SurfaceProofs ---------------------------
(***************************************************************************)
(* Threads in the calls of tbm_bufmgr.c and tbm_surface_internal.c, proved *)
(* for any number of threads, bos and surfaces: the references, mappings   *)
(* and locks of bos (Surface.tla), the dump (Dump.tla), and the data that  *)
(* clients attach (UserData.tla, DebugData.tla).                           *)
(***************************************************************************)
EXTENDS Dump, DebugData, BufMgrProofs

\* The clients' side of the invariant.
HeldOK(sf, sr) ==
    \A s \in Surf : IF s \in DOMAIN sf
                    THEN /\ sf[s].refcnt = RefsIn(sr, s) /\ sf[s].refcnt > 0
                         /\ sf[s].bos # <<>>
                    ELSE \A t \in Thread : sr[t][s] = 0

\* Who maps something holds it, who is in a call holds its argument.
UsersOf(X, M, R) == \A t \in Thread, z \in X : M[t][z] > 0 => R[t][z] > 0
MappersOK(sr, mg) == \A t \in Thread : mg[t] # NotMapping => sr[t][mg[t].surf] > 0
CallersOK(ini, R, pp, ag, sf, mg) ==
    \A t \in Thread : pp[t] # "idle" =>
        IF mg[t] = NotMapping THEN ag[t] \in Bo /\ ini[t] > 0 /\ R[t][ag[t]] > 0
                              ELSE ag[t] = sf[mg[t].surf].bos[mg[t].i]

\* All of the clients' side, and all surfaces with it.
Clients(ini, R, mp, pp, ag, sf, sr, sm, mg) ==
    /\ ini \in [Thread -> Nat] /\ R \in Table(Bo) /\ sr \in Table(Surf)
    /\ pp \in [Thread -> {"idle", "lock", "locked"}] /\ ag \in [Thread -> Bo \cup {NULL}]
    /\ MapState(mp, sf, sm, mg)
    /\ HeldOK(sf, sr) /\ UsersOf(Bo, mp, R) /\ UsersOf(Surf, sm, sr)
    /\ MappersOK(sr, mg) /\ CallersOK(ini, R, pp, ag, sf, mg)

\* The manager's side.
RefCountOK(n, ini, sf, smg) ==
    /\ DOMAIN sf # {} => smg
    /\ n = SumFunction(ini) + (IF smg THEN 1 ELSE 0)

\* The locks of the manager, as LockBalance means them.
LockOK(mgr, pp, ag) ==
    LocksKept(mgr.env) => \A t \in Thread : pp[t] # "idle" =>
        /\ LockType(mgr) # "TRY_NEVER"
        /\ LockType(mgr) = "TRY_ONCE" => mgr.bos[ag[t]].lock_cnt = 0

\* The manager meets what clients, surfaces and x want of it.
MgrOK(x, mgr, R, mp, pp, ag, sf, sm, mg) ==
    /\ Meets(mgr, WantOf(x, R, sf), MapsOf(mp, sf, sm, mg), FlyingOf(pp, ag),
             PointersOf(mgr.env, sf))
    /\ LockOK(mgr, pp, ag)

\* The invariant as a formula of the state, and of the variables.
Whole(x, mgr, ini, R, mp, pp, ag, sf, smg, sr, sm, mg) ==
    /\ Clients(ini, R, mp, pp, ag, sf, sr, sm, mg)
    /\ smg \in BOOLEAN /\ RefCountOK(mgr.ref_count, ini, sf, smg)
    /\ MgrOK(x, mgr, R, mp, pp, ag, sf, sm, mg)
SurfInv(x) ==
    Whole(x, m, inits, refs, maps, pc, arg, surfs, surfMgr, srefs, smaps, mapping)

\* What the clients' side says of one thread.
LEMMA ClientsHave ==
    ASSUME NEW ini, NEW R, NEW mp, NEW pp, NEW ag, NEW sf, NEW sr, NEW sm, NEW mg,
           Clients(ini, R, mp, pp, ag, sf, sr, sm, mg)
    PROVE  /\ ini \in [Thread -> Nat] /\ R \in Table(Bo) /\ sr \in Table(Surf)
           /\ mp \in Table(Bo) /\ sf \in SurfTable /\ sm \in Table(Surf) /\ Calls0(sf, mg)
           /\ pp \in [Thread -> {"idle", "lock", "locked"}]
           /\ ag \in [Thread -> Bo \cup {NULL}]
           /\ MapState(mp, sf, sm, mg)
           /\ HeldOK(sf, sr) /\ UsersOf(Bo, mp, R) /\ UsersOf(Surf, sm, sr)
           /\ MappersOK(sr, mg) /\ CallersOK(ini, R, pp, ag, sf, mg)
           /\ FlyingOf(pp, ag) \in Counts /\ MapsOf(mp, sf, sm, mg) \in Counts
  <1>1. MapState(mp, sf, sm, mg)
    BY DEF Clients
  <1>2. FlyingOf(pp, ag) \in Counts /\ MapsOf(mp, sf, sm, mg) \in Counts
    BY <1>1, FlyCounts, MapsIn
  <1> QED BY <1>1, <1>2 DEF Clients, MapState

\* The call that a thread is in.
CallIs(pp, ag, sf, sr, mg, t) ==
    /\ mg[t].surf \in DOMAIN sf /\ mg[t].surf \in Surf
    /\ mg[t].i \in 1 .. Len(sf[mg[t].surf].bos) /\ mg[t].i \in Nat
    /\ mg[t] = [surf |-> mg[t].surf, i |-> mg[t].i]
    /\ sr[t][mg[t].surf] > 0
    /\ sf[mg[t].surf].bos[mg[t].i] \in Bo
    /\ Times(sf[mg[t].surf].bos[mg[t].i], sf[mg[t].surf].bos) > 0
    /\ pp[t] # "idle" => ag[t] = sf[mg[t].surf].bos[mg[t].i]

\* What is known of the arguments of the call that a thread is in.
LEMMA CallAt ==
    ASSUME NEW ini, NEW R, NEW mp, NEW pp, NEW ag, NEW sf, NEW sr, NEW sm, NEW mg,
           Clients(ini, R, mp, pp, ag, sf, sr, sm, mg), NEW t \in Thread, mg[t] # NotMapping
    PROVE  CallIs(pp, ag, sf, sr, mg, t)
  <1> DEFINE s == mg[t].surf
             i == mg[t].i
             bs == sf[s].bos
  <1>1. /\ sf \in SurfTable /\ mg \in Mappings /\ GoodCall(sf, mg[t])
        /\ MappersOK(sr, mg) /\ CallersOK(ini, R, pp, ag, sf, mg)
    BY ClientsHave DEF Calls0
  <1>2. s \in DOMAIN sf /\ i \in 1 .. Len(bs)
    BY <1>1 DEF GoodCall
  <1>3. bs \in Seq(Bo) /\ s \in Surf /\ Len(bs) \in Nat
    BY <1>1, <1>2, SurfFields
  <1>4. mg[t] = [surf |-> s, i |-> i]
    BY <1>1 DEF Mappings
  <1>5. sr[t][s] > 0
    BY <1>1 DEF MappersOK
  <1>6. pp[t] # "idle" => ag[t] = bs[i]
    BY <1>1 DEF CallersOK
  <1> HIDE DEF s, i, bs
  <1>7. bs[i] \in Bo /\ i \in Nat /\ 0 \in 0 .. Len(bs)
    BY <1>2, <1>3
  <1>8. Times(bs[i], bs) > 0
    BY <1>2, <1>3, <1>7, OfFirstTimes
  <1> QED BY <1>2, <1>3, <1>4, <1>5, <1>6, <1>7, <1>8 DEF s, i, bs, CallIs

\* Two threads that hold something.
LEMMA TwoHold ==
    ASSUME NEW X, NEW R \in Table(X), NEW z \in X, NEW t \in Thread, NEW u \in Thread, t # u
    PROVE  R[t][z] + R[u][z] <= RefsIn(R, z)
  <1> DEFINE S == Put(R, t, z, 0)
  <1>1. S \in Table(X) /\ S[u][z] = R[u][z] /\ R[t][z] \in Nat
    <2>1. 0 \in Nat
      OBVIOUS
    <2> QED BY <2>1, TableChanged
  <1>2. RefsIn(S, z) = RefsIn(R, z) + 0 - R[t][z]
    BY RefsInChanged
  <1> HIDE DEF S
  <1>3. S[u][z] <= RefsIn(S, z) /\ S[u][z] \in Nat /\ RefsIn(S, z) \in Nat
    BY <1>1, RefsInNat
  <1>4. RefsIn(R, z) \in Nat
    BY RefsInNat
  <1> QED BY <1>1, <1>2, <1>3, <1>4

\* A bo that nobody refers to is not mapped, and nobody is locking it.
LEMMA Unused ==
    ASSUME NEW x \in Counts, NEW ini, NEW R, NEW mp, NEW pp, NEW ag, NEW sf, NEW sr, NEW sm, NEW mg,
           Clients(ini, R, mp, pp, ag, sf, sr, sm, mg), NEW b \in Bo, WantOf(x, R, sf)[b] = 0
    PROVE  MapsOf(mp, sf, sm, mg)[b] = 0 /\ FlyingOf(pp, ag)[b] = 0
  <1>1. /\ R \in Table(Bo) /\ mp \in Table(Bo) /\ sf \in SurfTable /\ sm \in Table(Surf)
        /\ Calls0(sf, mg) /\ UsersOf(Bo, mp, R) /\ CallersOK(ini, R, pp, ag, sf, mg)
    BY ClientsHave
  <1>2. /\ \A t \in Thread : ~(R[t][b] > 0)
        /\ \A s \in DOMAIN sf : ~(Times(b, sf[s].bos) > 0)
    <2>1. /\ x[b] \in Nat
          /\ \A t \in Thread : R[t][b] \in Nat /\ R[t][b] + x[b] <= 0
          /\ \A s \in DOMAIN sf : Times(b, sf[s].bos) \in Nat /\ Times(b, sf[s].bos) + x[b] <= 0
      BY <1>1, WantCounts
    <2> QED BY <2>1
  <1>3. MapsOf(mp, sf, sm, mg)[b] = 0
    <2>1. \A t \in Thread : ~(mp[t][b] > 0)
      BY <1>1, <1>2 DEF UsersOf
    <2> QED BY <1>1, <1>2, <2>1, MapsSome
  <1>4. ASSUME NEW t \in Thread, pp[t] = "locked", ag[t] = b PROVE FALSE
    <2>1. CASE mg[t] = NotMapping
      BY <1>1, <1>2, <1>4, <2>1 DEF CallersOK
    <2>2. CASE mg[t] # NotMapping
      <3>1. /\ mg[t].surf \in DOMAIN sf
            /\ Times(sf[mg[t].surf].bos[mg[t].i], sf[mg[t].surf].bos) > 0
            /\ pp[t] # "idle" => ag[t] = sf[mg[t].surf].bos[mg[t].i]
        <4>1. CallIs(pp, ag, sf, sr, mg, t)
          BY <2>2, CallAt
        <4> QED BY <4>1 DEF CallIs
      <3> QED BY <1>2, <1>4, <3>1
    <2> QED BY <2>1, <2>2
  <1>5. FlyingOf(pp, ag)[b] = 0
    BY <1>4, FlyCounts
  <1> QED BY <1>3, <1>5

\* What somebody refers to is live.
LEMMA LiveBos ==
    ASSUME NEW x \in Counts, NEW mgr, NEW ini, NEW R, NEW mp, NEW pp, NEW ag, NEW sf, NEW sr, NEW sm, NEW mg,
           Clients(ini, R, mp, pp, ag, sf, sr, sm, mg),
           MgrOK(x, mgr, R, mp, pp, ag, sf, sm, mg), NEW b \in Bo
    PROVE  /\ \A t \in Thread : R[t][b] > 0 => b \in DOMAIN mgr.bos
           /\ \A s \in DOMAIN sf : Times(b, sf[s].bos) > 0 => b \in DOMAIN mgr.bos
           /\ x[b] > 0 => b \in DOMAIN mgr.bos
           /\ \A t \in Thread : pp[t] # "idle" /\ ag[t] = b => b \in DOMAIN mgr.bos
  <1>1. /\ R \in Table(Bo) /\ sf \in SurfTable /\ CallersOK(ini, R, pp, ag, sf, mg)
        /\ FlyingOf(pp, ag) \in Counts /\ MapsOf(mp, sf, sm, mg) \in Counts
    BY ClientsHave
  <1> DEFINE w == WantOf(x, R, sf)
  <1>2. /\ w \in Counts
        /\ x[b] <= w[b] /\ x[b] \in Nat /\ w[b] \in Nat
        /\ \A t \in Thread : R[t][b] \in Nat /\ R[t][b] + x[b] <= w[b]
        /\ \A s \in DOMAIN sf : Times(b, sf[s].bos) \in Nat /\ Times(b, sf[s].bos) + x[b] <= w[b]
    <2>1. /\ w \in Counts /\ x[b] \in Nat /\ w[b] \in Nat
          /\ w[b] = x[b] + RefsIn(R, b) + SurfRefsIn(sf, b)
          /\ RefsIn(R, b) \in Nat /\ SurfRefsIn(sf, b) \in Nat
      BY <1>1, WantCounts
    <2>2. /\ \A t \in Thread : R[t][b] \in Nat /\ R[t][b] + x[b] <= w[b]
          /\ \A s \in DOMAIN sf : Times(b, sf[s].bos) \in Nat /\ Times(b, sf[s].bos) + x[b] <= w[b]
      BY <1>1, WantCounts
    <2> HIDE DEF w
    <2>3. x[b] <= w[b]
      BY <2>1
    <2> QED BY <2>1, <2>2, <2>3
  <1>3. b \in DOMAIN mgr.bos <=> w[b] > 0
    BY <1>1, <1>2, MeetsLive DEF MgrOK
  <1> HIDE DEF w
  <1>4. /\ \A t \in Thread : R[t][b] > 0 => b \in DOMAIN mgr.bos
        /\ \A s \in DOMAIN sf : Times(b, sf[s].bos) > 0 => b \in DOMAIN mgr.bos
        /\ x[b] > 0 => b \in DOMAIN mgr.bos
    <2>1. x[b] > 0 => b \in DOMAIN mgr.bos
      BY <1>2, <1>3
    <2>2. ASSUME NEW t \in Thread, R[t][b] > 0 PROVE b \in DOMAIN mgr.bos
      <3>1. R[t][b] \in Nat /\ R[t][b] + x[b] <= w[b] /\ x[b] \in Nat /\ w[b] \in Nat
        BY <1>2
      <3> QED BY <1>3, <2>2, <3>1
    <2>3. ASSUME NEW s \in DOMAIN sf, Times(b, sf[s].bos) > 0 PROVE b \in DOMAIN mgr.bos
      <3>1. Times(b, sf[s].bos) \in Nat /\ Times(b, sf[s].bos) + x[b] <= w[b]
            /\ x[b] \in Nat /\ w[b] \in Nat
        BY <1>2
      <3> QED BY <1>3, <2>3, <3>1
    <2> QED BY <2>1, <2>2, <2>3
  <1>5. ASSUME NEW t \in Thread, pp[t] # "idle", ag[t] = b PROVE b \in DOMAIN mgr.bos
    <2>1. CASE mg[t] = NotMapping
      BY <1>1, <1>4, <1>5, <2>1 DEF CallersOK
    <2>2. CASE mg[t] # NotMapping
      <3>1. /\ mg[t].surf \in DOMAIN sf
            /\ Times(sf[mg[t].surf].bos[mg[t].i], sf[mg[t].surf].bos) > 0
            /\ pp[t] # "idle" => ag[t] = sf[mg[t].surf].bos[mg[t].i]
        <4>1. CallIs(pp, ag, sf, sr, mg, t)
          BY <2>2, CallAt
        <4> QED BY <4>1 DEF CallIs
      <3> QED BY <1>4, <1>5, <3>1
    <2> QED BY <2>1, <2>2
  <1> QED BY <1>4, <1>5

\* The lock type depends on the environment alone.
LEMMA SameLockType ==
    ASSUME NEW mgr, NEW y, y.env = mgr.env
    PROVE  LockType(y) = LockType(mgr)
BY DEF LockType

\* Where locks are taken once and balanced, there is one thread.
LEMMA OnceOnly ==
    ASSUME NEW mgr, LockType(mgr) = "TRY_ONCE", LocksKept(mgr.env)
    PROVE  \A t, u \in Thread : t = u
  <1>1. mgr.env = "once"
    BY DEF LockType
  <1> QED BY <1>1 DEF LocksKept

\* A thread that is in no call changes no lock that another one waits for.
LEMMA LockOKKept ==
    ASSUME NEW mgr, NEW pp, NEW ag, LockOK(mgr, pp, ag), NEW y, y.env = mgr.env,
           NEW t \in Thread, NEW pq, NEW ah, pq[t] = "idle",
           \A u \in Thread : u # t => pq[u] = pp[u]
    PROVE  LockOK(y, pq, ah)
  <1>1. SUFFICES ASSUME LocksKept(mgr.env), NEW u \in Thread, pq[u] # "idle"
                 PROVE  LockType(mgr) # "TRY_NEVER" /\ LockType(mgr) # "TRY_ONCE"
    BY SameLockType DEF LockOK
  <1>2. u # t /\ pp[u] # "idle"
    BY <1>1
  <1>3. LockType(mgr) # "TRY_NEVER"
    BY <1>1, <1>2 DEF LockOK
  <1>4. LockType(mgr) # "TRY_ONCE"
    BY <1>1, <1>2, OnceOnly
  <1> QED BY <1>3, <1>4

\* With no initialisation and no surface left, no thread is in a call.
LEMMA Emptied ==
    ASSUME NEW ini, NEW R, NEW mp, NEW pp, NEW ag, NEW sf, NEW sr, NEW sm, NEW mg,
           Clients(ini, R, mp, pp, ag, sf, sr, sm, mg), SumFunction(ini) = 0, DOMAIN sf = {}
    PROVE  /\ \A t \in Thread : pp[t] = "idle" /\ mg[t] = NotMapping
           /\ Clients(ini, Nobody, Nobody, pp, ag, sf, sr, sm, mg)
           /\ FlyingOf(pp, ag) = [b \in Bo |-> 0]
  <1>1. /\ ini \in [Thread -> Nat] /\ CallersOK(ini, R, pp, ag, sf, mg) /\ sf \in SurfTable
        /\ sm \in Table(Surf) /\ Calls0(sf, mg)
    BY ClientsHave
  <1>2. \A t \in Thread : ~(ini[t] > 0)
    <2>1. \A t \in Thread : ini[t] <= SumFunction(ini)
      BY <1>1, ThreadsFinite, SumNat
    <2> QED BY <1>1, <2>1
  <1>3. \A t \in Thread : mg[t] = NotMapping
    BY <1>1 DEF Calls0, GoodCall
  <1>4. \A t \in Thread : pp[t] = "idle"
    BY <1>1, <1>2, <1>3 DEF CallersOK
  <1>5. Nobody \in Table(Bo) /\ \A t \in Thread, b \in Bo : Nobody[t][b] = 0
    BY DEF Nobody, Table
  <1>6. MapState(Nobody, sf, sm, mg)
    BY <1>1, <1>5 DEF MapState
  <1>7. UsersOf(Bo, Nobody, Nobody)
    BY <1>5 DEF UsersOf
  <1>8. CallersOK(ini, Nobody, pp, ag, sf, mg)
    BY <1>4 DEF CallersOK
  <1>9. Clients(ini, Nobody, Nobody, pp, ag, sf, sr, sm, mg)
    BY <1>5, <1>6, <1>7, <1>8 DEF Clients
  <1>10. FlyingOf(pp, ag) = [b \in Bo |-> 0]
    <2>1. FlyingOf(pp, ag) \in Counts /\ \A b \in Bo : FlyingOf(pp, ag)[b] = 0
      BY <1>4, FlyCounts
    <2> QED BY <2>1 DEF Counts
  <1> QED BY <1>3, <1>4, <1>9, <1>10

\* The manager is let go: by a deinit, by the last surface, or after a creation failed.
LEMMA LetGo ==
    ASSUME NEW x \in Counts, NEW mgr, NEW ini, NEW R, NEW mp, NEW pp, NEW ag, NEW sf, NEW smg,
           NEW sr, NEW sm, NEW mg,
           Clients(ini, R, mp, pp, ag, sf, sr, sm, mg), smg \in BOOLEAN,
           RefCountOK(mgr.ref_count - 1, ini, sf, smg),
           MgrOK(x, mgr, R, mp, pp, ag, sf, sm, mg),
           NEW S, NEW mq,
           IF MgrDeinit(mgr).ref_count = 0 THEN S = Nobody /\ mq = Nobody
                                           ELSE S = R /\ mq = mp,
           (\A b \in Bo : x[b] = 0) \/ MgrDeinit(mgr).ref_count > 0
    PROVE  Whole(x, MgrDeinit(mgr), ini, S, mq, pp, ag, sf, smg, sr, sm, mg)
  <1> DEFINE w == WantOf(x, R, sf)
             u == MapsOf(mp, sf, sm, mg)
             k == FlyingOf(pp, ag)
             P == PointersOf(mgr.env, sf)
             y == MgrDeinit(mgr)
  <1>1. /\ ini \in [Thread -> Nat] /\ R \in Table(Bo) /\ sf \in SurfTable
        /\ k \in Counts /\ u \in Counts
    BY ClientsHave
  <1>2. w \in Counts
    BY <1>1, WantCounts
  <1>3. Meets(mgr, w, u, k, P) /\ LockOK(mgr, pp, ag) /\ mgr \in Mgr
    BY DEF MgrOK, Meets
  <1>4. mgr.ref_count \in Nat /\ SumFunction(ini) \in Nat
        /\ mgr.ref_count - 1 = SumFunction(ini) + (IF smg THEN 1 ELSE 0)
        /\ (DOMAIN sf # {} => smg)
    BY <1>1, <1>3, ThreadsFinite, SumNat, MgrFields DEF RefCountOK
  <1>5. CASE mgr.ref_count > 1
    <2>1. y = [mgr EXCEPT !.ref_count = mgr.ref_count - 1]
      BY <1>3, <1>5 DEF MgrDeinit, Mgr
    <2>2. mgr.ref_count - 1 \in Nat /\ mgr.ref_count - 1 # 0
      BY <1>4, <1>5
    <2> HIDE DEF w, u, k, P, y
    <2>3. Meets(y, w, u, k, P) /\ y.ref_count = mgr.ref_count - 1 /\ y.bos = mgr.bos
          /\ y.env = mgr.env
      <3> DEFINE n == mgr.ref_count - 1
                 z == [mgr EXCEPT !.ref_count = n]
      <3> HIDE DEF n
      <3>1. n \in Nat
        BY <2>2 DEF n
      <3>2. Meets(z, w, u, k, P) /\ z.ref_count = n /\ z.bos = mgr.bos /\ z.env = mgr.env
        BY <1>3, <3>1, RefCountMeets
      <3>3. y = z
        BY <2>1 DEF n
      <3> QED BY <3>2, <3>3 DEF n
    <2>4. S = R /\ mq = mp
      BY <2>2, <2>3 DEF y
    <2>5. LockOK(y, pp, ag)
      BY <1>3, <2>3, SameLockType DEF LockOK
    <2>6. PointersOf(y.env, sf) = P
      BY <2>3 DEF P
    <2>7. MgrOK(x, y, S, mq, pp, ag, sf, sm, mg)
      BY <2>3, <2>4, <2>5, <2>6 DEF MgrOK, w, u, k
    <2>8. RefCountOK(y.ref_count, ini, sf, smg)
      BY <2>3
    <2> QED BY <2>4, <2>7, <2>8 DEF Whole, y
  <1>6. CASE ~(mgr.ref_count > 1)
    <2>1. ~smg /\ SumFunction(ini) = 0 /\ DOMAIN sf = {} /\ mgr.ref_count = 1
      <3>1. CASE smg
        BY <1>4, <1>6, <3>1
      <3>2. CASE ~smg
        <4>1. mgr.ref_count - 1 = SumFunction(ini) + 0
          BY <1>4, <3>2
        <4>2. SumFunction(ini) = 0
          BY <1>4, <1>6, <4>1
        <4>3. mgr.ref_count = 1
          BY <1>4, <4>1, <4>2
        <4> QED BY <1>4, <3>2, <4>2, <4>3
      <3> QED BY <3>1, <3>2
    <2>2. /\ \A t \in Thread : pp[t] = "idle"
          /\ Clients(ini, Nobody, Nobody, pp, ag, sf, sr, sm, mg)
          /\ k = [b \in Bo |-> 0]
      BY <2>1, Emptied
    <2> DEFINE z == [b \in Bo |-> 0]
    <2>3. LocksKept(mgr.env) => \A b \in Bo : k[b] = 0
      <3> HIDE DEF k
      <3> QED BY <2>2
    <2> HIDE DEF w, u, k, P, y
    <2>4. Meets(y, z, z, k, P) /\ y.ref_count = 0 /\ y.env = mgr.env
      <3>1. z = [b \in Bo |-> 0]
        OBVIOUS
      <3> HIDE DEF z
      <3> QED BY <1>1, <1>2, <1>3, <1>6, <2>3, <3>1, LastDeinitMeets DEF y
    <2>5. S = Nobody /\ mq = Nobody
      BY <2>4 DEF y
    <2>6. \A b \in Bo : x[b] = 0
      <3>1. ~(y.ref_count > 0)
        BY <2>4
      <3> QED BY <3>1 DEF y
    <2>7. x = z
      BY <2>6 DEF Counts
    <2>8. WantOf(x, Nobody, sf) = z
      BY <1>1, <2>1, <2>7, NothingWanted
    <2>9. MapsOf(Nobody, sf, sm, mg) = z
      <3>1. \A b \in Bo : WantOf(x, Nobody, sf)[b] = 0
        BY <2>8
      <3>2. \A b \in Bo : MapsOf(Nobody, sf, sm, mg)[b] = 0
        BY <2>2, <3>1, Unused
      <3>3. MapsOf(Nobody, sf, sm, mg) \in Counts
        BY <2>2, ClientsHave
      <3> QED BY <3>2, <3>3 DEF Counts
    <2>10. LockOK(y, pp, ag)
      BY <2>2 DEF LockOK
    <2>11. MgrOK(x, y, S, mq, pp, ag, sf, sm, mg)
      <3>1. PointersOf(y.env, sf) = P
        BY <2>4 DEF P
      <3> QED BY <2>4, <2>5, <2>8, <2>9, <2>10, <3>1 DEF MgrOK, k
    <2>12. RefCountOK(y.ref_count, ini, sf, smg)
      BY <2>1, <2>4 DEF RefCountOK
    <2> QED BY <2>2, <2>5, <2>11, <2>12 DEF Whole, y
  <1> QED BY <1>5, <1>6

\* What the invariant says, in parts.
LEMMA InvHas ==
    ASSUME NEW x \in Counts, SurfInv(x)
    PROVE  /\ Clients(inits, refs, maps, pc, arg, surfs, srefs, smaps, mapping)
           /\ surfMgr \in BOOLEAN /\ RefCountOK(m.ref_count, inits, surfs, surfMgr)
           /\ MgrOK(x, m, refs, maps, pc, arg, surfs, smaps, mapping)
           /\ Meets(m, WantOf(x, refs, surfs), MapsOf(maps, surfs, smaps, mapping),
                    FlyingOf(pc, arg), PointersOf(m.env, surfs))
           /\ LockOK(m, pc, arg)
           /\ WantOf(x, refs, surfs) \in Counts
           /\ MapsOf(maps, surfs, smaps, mapping) \in Counts
           /\ FlyingOf(pc, arg) \in Counts
           /\ m \in Mgr
           /\ MapState(maps, surfs, smaps, mapping)
  <1>1. /\ Clients(inits, refs, maps, pc, arg, surfs, srefs, smaps, mapping)
        /\ surfMgr \in BOOLEAN /\ RefCountOK(m.ref_count, inits, surfs, surfMgr)
        /\ MgrOK(x, m, refs, maps, pc, arg, surfs, smaps, mapping)
    BY DEF SurfInv, Whole
  <1>2. /\ Meets(m, WantOf(x, refs, surfs), MapsOf(maps, surfs, smaps, mapping),
                    FlyingOf(pc, arg), PointersOf(m.env, surfs))
        /\ LockOK(m, pc, arg)
    BY <1>1 DEF MgrOK
  <1>3. m \in Mgr
    BY <1>2 DEF Meets
  <1>4. /\ refs \in Table(Bo) /\ surfs \in SurfTable /\ MapState(maps, surfs, smaps, mapping)
        /\ MapsOf(maps, surfs, smaps, mapping) \in Counts
        /\ FlyingOf(pc, arg) \in Counts
    BY <1>1, ClientsHave
  <1>5. WantOf(x, refs, surfs) \in Counts
    BY <1>4, WantCounts
  <1> QED BY <1>1, <1>2, <1>3, <1>4, <1>5

\* A thread initialises the manager, or deinitialises it.
LEMMA InitsChanged ==
    ASSUME NEW ini, NEW R, NEW mp, NEW pp, NEW ag, NEW sf, NEW sr, NEW sm, NEW mg,
           Clients(ini, R, mp, pp, ag, sf, sr, sm, mg),
           NEW t \in Thread, pp[t] = "idle", NEW n \in Nat
    PROVE  /\ Clients(SetAt(ini, t, n), R, mp, pp, ag, sf, sr, sm, mg)
           /\ SumFunction(SetAt(ini, t, n)) = SumFunction(ini) + n - ini[t]
           /\ SumFunction(ini) \in Nat /\ ini[t] \in Nat /\ ini[t] <= SumFunction(ini)
  <1> DEFINE jni == SetAt(ini, t, n)
  <1>1. ini \in [Thread -> Nat] /\ CallersOK(ini, R, pp, ag, sf, mg)
    BY ClientsHave
  <1>2. jni \in [Thread -> Nat] /\ jni[t] = n /\ \A u \in Thread \ {t} : jni[u] = ini[u]
    BY <1>1 DEF SetAt
  <1> HIDE DEF jni
  <1>3. CallersOK(jni, R, pp, ag, sf, mg)
    BY <1>1, <1>2 DEF CallersOK
  <1>4. Clients(jni, R, mp, pp, ag, sf, sr, sm, mg)
    BY <1>2, <1>3 DEF Clients
  <1>5. SumFunction(ini) \in Nat /\ ini[t] \in Nat /\ ini[t] <= SumFunction(ini)
    BY <1>1, ThreadsFinite, SumNat
  <1>6. SumFunction(jni) = SumFunction(ini) + jni[t] - ini[t]
    <2>1. ini \in [Thread -> Int] /\ jni \in [Thread -> Int]
      BY <1>1, <1>2
    <2>2. \A u \in Thread \ {t} : ini[u] = jni[u]
      BY <1>2
    <2> QED BY <2>1, <2>2, ThreadsFinite, SumChange
  <1> QED BY <1>2, <1>4, <1>5, <1>6 DEF jni

\* tbm_bufmgr_init
LEMMA InitKeeps ==
    ASSUME NEW x \in Counts, SurfInv(x), NEW t \in Thread, Init(t), UNCHANGED surfVars
    PROVE  SurfInv(x)'
  <1>1. /\ Clients(inits, refs, maps, pc, arg, surfs, srefs, smaps, mapping)
        /\ surfMgr \in BOOLEAN /\ RefCountOK(m.ref_count, inits, surfs, surfMgr)
        /\ Meets(m, WantOf(x, refs, surfs), MapsOf(maps, surfs, smaps, mapping),
                    FlyingOf(pc, arg), PointersOf(m.env, surfs))
        /\ LockOK(m, pc, arg) /\ m \in Mgr
    BY InvHas
  <1>2. /\ pc[t] = "idle" /\ m' = MgrInit(m) /\ inits' = SetAt(inits, t, inits[t] + 1)
        /\ UNCHANGED <<refs, maps, pc, arg>> /\ UNCHANGED <<surfs, surfMgr, srefs, smaps, mapping>>
    BY DEF Init, surfVars, SetAt
  <1>3. inits[t] \in Nat /\ inits[t] + 1 \in Nat
    BY <1>1, ClientsHave
  <1>4. /\ Clients(inits', refs, maps, pc, arg, surfs, srefs, smaps, mapping)
        /\ SumFunction(inits') = SumFunction(inits) + (inits[t] + 1) - inits[t]
        /\ SumFunction(inits) \in Nat
    BY <1>1, <1>2, <1>3, InitsChanged
  <1>5. SumFunction(inits') = SumFunction(inits) + 1
    BY <1>3, <1>4
  <1>6. m' = [m EXCEPT !.ref_count = m.ref_count + 1] /\ m.ref_count \in Nat
    BY <1>1, <1>2, MgrFields DEF MgrInit
  <1> DEFINE w == WantOf(x, refs, surfs)
             u == MapsOf(maps, surfs, smaps, mapping)
             k == FlyingOf(pc, arg)
             P == PointersOf(m.env, surfs)
  <1>7. Meets(m', w, u, k, P) /\ m'.ref_count = m.ref_count + 1 /\ m'.env = m.env /\ m'.bos = m.bos
    <2> DEFINE n == m.ref_count + 1
    <2>1. n \in Nat
      BY <1>6
    <2> HIDE DEF n, w, u, k, P
    <2>2. m' = [m EXCEPT !.ref_count = n]
      BY <1>6 DEF n
    <2>3. Meets(m, w, u, k, P)
      BY <1>1 DEF w, u, k, P
    <2>4. Meets(m', w, u, k, P) /\ m'.ref_count = n /\ m'.env = m.env /\ m'.bos = m.bos
      BY <2>1, <2>2, <2>3, RefCountMeets
    <2> QED BY <2>4 DEF n
  <1>8. LockOK(m', pc, arg)
    BY <1>1, <1>7, SameLockType DEF LockOK
  <1>9. MgrOK(x, m', refs, maps, pc, arg, surfs, smaps, mapping)
    BY <1>7, <1>8 DEF MgrOK
  <1>10. RefCountOK(m'.ref_count, inits', surfs, surfMgr)
    <2>1. CASE surfMgr
      BY <1>1, <1>4, <1>5, <1>7, <2>1 DEF RefCountOK
    <2>2. CASE ~surfMgr
      BY <1>1, <1>4, <1>5, <1>7, <2>2 DEF RefCountOK
    <2> QED BY <2>1, <2>2
  <1>11. Whole(x, m', inits', refs', maps', pc', arg', surfs', surfMgr', srefs', smaps', mapping')
    BY <1>1, <1>2, <1>4, <1>9, <1>10 DEF Whole
  <1> QED BY <1>11 DEF SurfInv

\* A step of a thread that is not in the backend after it.
LEMMA IdleStep ==
    ASSUME NEW x \in Counts, SurfInv(x), NEW t \in Thread, pc'[t] = "idle",
           \A v \in Thread : v # t => pc'[v] = pc[v], m'.env = m.env,
           Clients(inits', refs', maps', pc', arg', surfs', srefs', smaps', mapping'),
           surfMgr' \in BOOLEAN, RefCountOK(m'.ref_count, inits', surfs', surfMgr'),
           Meets(m', WantOf(x, refs', surfs'), MapsOf(maps', surfs', smaps', mapping'),
                 FlyingOf(pc', arg'), PointersOf(m.env, surfs'))
    PROVE  SurfInv(x)'
  <1>1. LockOK(m, pc, arg)
    BY InvHas
  <1>2. LockOK(m', pc', arg')
    BY <1>1, LockOKKept
  <1>3. MgrOK(x, m', refs', maps', pc', arg', surfs', smaps', mapping')
    BY <1>2 DEF MgrOK
  <1>4. Whole(x, m', inits', refs', maps', pc', arg', surfs', surfMgr', srefs', smaps', mapping')
    BY <1>3 DEF Whole
  <1> QED BY <1>4 DEF SurfInv

\* tbm_bufmgr_deinit
LEMMA DeinitKeeps ==
    ASSUME NEW x \in Counts, SurfInv(x), NEW t \in Thread, Deinit(t), UNCHANGED surfVars,
           (\A b \in Bo : x[b] = 0) \/ m'.ref_count > 0
    PROVE  SurfInv(x)'
  <1>1. /\ Clients(inits, refs, maps, pc, arg, surfs, srefs, smaps, mapping)
        /\ surfMgr \in BOOLEAN /\ RefCountOK(m.ref_count, inits, surfs, surfMgr)
        /\ MgrOK(x, m, refs, maps, pc, arg, surfs, smaps, mapping) /\ m \in Mgr
    BY InvHas
  <1>2. /\ pc[t] = "idle" /\ inits[t] > 0 /\ m' = MgrDeinit(m)
        /\ inits' = SetAt(inits, t, inits[t] - 1)
        /\ IF MgrDeinit(m).ref_count = 0 THEN refs' = Nobody /\ maps' = Nobody
                                         ELSE refs' = refs /\ maps' = maps
        /\ UNCHANGED <<pc, arg>> /\ UNCHANGED <<surfs, surfMgr, srefs, smaps, mapping>>
    BY DEF Deinit, Calls, Forget, surfVars, SetAt
  <1>3. inits[t] \in Nat /\ inits[t] - 1 \in Nat
    <2>1. inits[t] \in Nat
      BY <1>1, ClientsHave
    <2> QED BY <1>2, <2>1
  <1>4. /\ Clients(inits', refs, maps, pc, arg, surfs, srefs, smaps, mapping)
        /\ SumFunction(inits') = SumFunction(inits) + (inits[t] - 1) - inits[t]
        /\ SumFunction(inits) \in Nat
    BY <1>1, <1>2, <1>3, InitsChanged
  <1>5. SumFunction(inits') = SumFunction(inits) - 1 /\ m.ref_count \in Nat
    BY <1>1, <1>3, <1>4, MgrFields
  <1>6. RefCountOK(m.ref_count - 1, inits', surfs, surfMgr)
    <2>1. CASE surfMgr
      BY <1>1, <1>4, <1>5, <2>1 DEF RefCountOK
    <2>2. CASE ~surfMgr
      BY <1>1, <1>4, <1>5, <2>2 DEF RefCountOK
    <2> QED BY <2>1, <2>2
  <1>7. Whole(x, MgrDeinit(m), inits', refs', maps', pc, arg, surfs, surfMgr, srefs, smaps, mapping)
    BY <1>1, <1>2, <1>4, <1>6, LetGo
  <1>8. Whole(x, m', inits', refs', maps', pc', arg', surfs', surfMgr', srefs', smaps', mapping')
    BY <1>2, <1>7
  <1> QED BY <1>8 DEF SurfInv
-----------------------------------------------------------------------------
\* A thread in no call has another number of references to a bo.
LEMMA RefsClients ==
    ASSUME NEW ini, NEW R, NEW mp, NEW pp, NEW ag, NEW sf, NEW sr, NEW sm, NEW mg,
           Clients(ini, R, mp, pp, ag, sf, sr, sm, mg),
           NEW t \in Thread, pp[t] = "idle", NEW b \in Bo, NEW n \in Nat, mp[t][b] > 0 => n > 0
    PROVE  Clients(ini, Put(R, t, b, n), mp, pp, ag, sf, sr, sm, mg)
  <1> DEFINE S == Put(R, t, b, n)
  <1>1. R \in Table(Bo) /\ UsersOf(Bo, mp, R) /\ CallersOK(ini, R, pp, ag, sf, mg)
    BY ClientsHave
  <1>2. /\ S \in Table(Bo) /\ S[t][b] = n
        /\ \A u \in Thread, y \in Bo : <<u, y>> # <<t, b>> => S[u][y] = R[u][y]
    BY <1>1, TableChanged
  <1> HIDE DEF S
  <1>3. UsersOf(Bo, mp, S)
    <2>1. ASSUME NEW u \in Thread, NEW z \in Bo, mp[u][z] > 0 PROVE S[u][z] > 0
      <3>1. CASE u = t /\ z = b
        BY <1>2, <2>1, <3>1
      <3>2. CASE ~(u = t /\ z = b)
        BY <1>1, <1>2, <2>1, <3>2 DEF UsersOf
      <3> QED BY <3>1, <3>2
    <2> QED BY <2>1 DEF UsersOf
  <1>4. CallersOK(ini, S, pp, ag, sf, mg)
    <2>1. \A u \in Thread, z \in Bo : u # t => S[u][z] = R[u][z]
      BY <1>2
    <2> QED BY <1>1, <2>1 DEF CallersOK
  <1>5. Clients(ini, S, mp, pp, ag, sf, sr, sm, mg)
    BY <1>2, <1>3, <1>4 DEF Clients
  <1> QED BY <1>5 DEF S

\* A step that changes the references of one thread to one bo.
LEMMA RefsStep ==
    ASSUME NEW x \in Counts, SurfInv(x), NEW t \in Thread, pc[t] = "idle",
           NEW b \in Bo, NEW n \in Nat, maps[t][b] > 0 => n > 0,
           refs' = Put(refs, t, b, n),
           UNCHANGED <<inits, maps, pc, arg>>, UNCHANGED surfVars, Same(m, m'),
           Meets(m', [WantOf(x, refs, surfs) EXCEPT ![b] = @ + n - refs[t][b]],
                 MapsOf(maps, surfs, smaps, mapping), FlyingOf(pc, arg),
                 PointersOf(m.env, surfs))
    PROVE  SurfInv(x)'
  <1>1. /\ Clients(inits, refs, maps, pc, arg, surfs, srefs, smaps, mapping)
        /\ surfMgr \in BOOLEAN /\ RefCountOK(m.ref_count, inits, surfs, surfMgr)
    BY InvHas
  <1>2. Clients(inits, Put(refs, t, b, n), maps, pc, arg, surfs, srefs, smaps, mapping)
    BY <1>1, RefsClients
  <1>3. refs \in Table(Bo) /\ surfs \in SurfTable
    BY <1>1, ClientsHave
  <1>4. WantOf(x, refs', surfs) = [WantOf(x, refs, surfs) EXCEPT ![b] = @ + n - refs[t][b]]
    BY <1>3, WantRefs
  <1>5. /\ inits' = inits /\ maps' = maps /\ pc' = pc /\ arg' = arg /\ surfs' = surfs
        /\ surfMgr' = surfMgr /\ srefs' = srefs /\ smaps' = smaps /\ mapping' = mapping
        /\ m'.env = m.env /\ m'.ref_count = m.ref_count
    BY DEF surfVars, Same
  <1>6. /\ Clients(inits', refs', maps', pc', arg', surfs', srefs', smaps', mapping')
        /\ surfMgr' \in BOOLEAN /\ RefCountOK(m'.ref_count, inits', surfs', surfMgr')
    BY <1>1, <1>2, <1>5
  <1>7. Meets(m', WantOf(x, refs', surfs'), MapsOf(maps', surfs', smaps', mapping'),
                 FlyingOf(pc', arg'), PointersOf(m.env, surfs'))
    BY <1>4, <1>5
  <1> QED BY <1>5, <1>6, <1>7, IdleStep

\* A thread gets one reference more.
LEMMA RefStep ==
    ASSUME NEW x \in Counts, SurfInv(x), NEW t \in Thread, pc[t] = "idle", NEW b \in Bo,
           refs' = [refs EXCEPT ![t][b] = @ + 1],
           UNCHANGED <<inits, maps, pc, arg>>, UNCHANGED surfVars, Same(m, m'),
           Meets(m', [WantOf(x, refs, surfs) EXCEPT ![b] = @ + 1],
                 MapsOf(maps, surfs, smaps, mapping), FlyingOf(pc, arg),
                 PointersOf(m.env, surfs))
    PROVE  SurfInv(x)'
  <1>1. refs \in Table(Bo) /\ WantOf(x, refs, surfs) \in Counts
    BY InvHas, ClientsHave
  <1>2. refs[t][b] \in Nat
    BY <1>1 DEF Table
  <1> DEFINE n == refs[t][b] + 1
  <1>3. n \in Nat /\ n > 0
    BY <1>2
  <1>4. [WantOf(x, refs, surfs) EXCEPT ![b] = @ + n - refs[t][b]]
          = [WantOf(x, refs, surfs) EXCEPT ![b] = @ + 1]
    <2> DEFINE w == WantOf(x, refs, surfs)
               r == refs[t][b]
    <2>1. w \in Counts /\ r \in Nat
      BY <1>1, <1>2
    <2> HIDE DEF w, r
    <2>2. w[b] + (r + 1) - r = w[b] + 1
      BY <2>1 DEF Counts
    <2>3. [w EXCEPT ![b] = @ + (r + 1) - r] = [w EXCEPT ![b] = @ + 1]
      BY <2>2
    <2> QED BY <2>3 DEF w, r
  <1>5. refs' = Put(refs, t, b, n)
    BY <1>1 DEF Put, Table
  <1> HIDE DEF n
  <1> QED BY <1>3, <1>4, <1>5, RefsStep

\* A new bo: tbm_bo_alloc, or an import of what is not known.
LEMMA NewBoStep ==
    ASSUME NEW x \in Counts, SurfInv(x), NEW t \in Thread, pc[t] = "idle", NEW b \in Bo,
           NEW p \in Priv, b \notin Live, p \notin PrivsInUse(m), m' = BoAlloc(m, b, p),
           refs' = [refs EXCEPT ![t][b] = @ + 1],
           UNCHANGED <<inits, maps, pc, arg>>, UNCHANGED surfVars
    PROVE  SurfInv(x)'
  <1> DEFINE w == WantOf(x, refs, surfs)
             u == MapsOf(maps, surfs, smaps, mapping)
             k == FlyingOf(pc, arg)
             P == PointersOf(m.env, surfs)
             n == (m.bo_cnt + 1) % UIntMod
             y == LinkedBo(m, b, p, n)
  <1>1. Meets(m, w, u, k, P) /\ w \in Counts /\ u \in Counts /\ k \in Counts /\ m \in Mgr
    BY InvHas
  <1>2. m' = y
    BY DEF BoAlloc, LinkedBo
  <1>3. n \in Nat
    BY <1>1, MgrFields, Counting
  <1> HIDE DEF w, u, k, P, n
  <1>4. Same(m, y)
    BY <1>1, <1>3, LinkMgr
  <1>5. Meets(y, [w EXCEPT ![b] = 1], u, k, P)
    <2>1. b \notin DOMAIN m.bos
      BY DEF Live
    <2>2. ~SurfaceBoAlloc => n = (m.bo_cnt + 1) % UIntMod
      BY DEF n
    <2> QED BY <1>1, <1>3, <2>1, <2>2, AllocMeets DEF LinkedBo
  <1>6. [w EXCEPT ![b] = 1] = [w EXCEPT ![b] = @ + 1]
    <2>1. w[b] = 0
      BY <1>1, MeetsLive DEF Live
    <2> QED BY <2>1
  <1>7. Meets(m', [w EXCEPT ![b] = @ + 1], u, k, P)
    BY <1>2, <1>5, <1>6
  <1> QED BY <1>2, <1>4, <1>7, RefStep DEF w, u, k, P

\* tbm_bo_alloc
LEMMA AllocKeeps ==
    ASSUME NEW x \in Counts, SurfInv(x), NEW t \in Thread, NEW b \in Bo, NEW p \in Priv,
           Alloc(t, b, p), UNCHANGED surfVars
    PROVE  SurfInv(x)'
BY NewBoStep DEF Alloc, Calls

\* tbm_bo_ref
LEMMA RefKeeps ==
    ASSUME NEW x \in Counts, SurfInv(x), NEW t \in Thread, NEW b \in Bo,
           Ref(t, b), UNCHANGED surfVars
    PROVE  SurfInv(x)'
  <1> DEFINE w == WantOf(x, refs, surfs)
             u == MapsOf(maps, surfs, smaps, mapping)
             k == FlyingOf(pc, arg)
             P == PointersOf(m.env, surfs)
  <1>1. /\ Meets(m, w, u, k, P) /\ w \in Counts /\ u \in Counts /\ k \in Counts /\ m \in Mgr
        /\ Clients(inits, refs, maps, pc, arg, surfs, srefs, smaps, mapping)
        /\ MgrOK(x, m, refs, maps, pc, arg, surfs, smaps, mapping)
    BY InvHas
  <1>2. /\ pc[t] = "idle" /\ m' = BoRef(m, b) /\ refs' = [refs EXCEPT ![t][b] = @ + 1]
        /\ UNCHANGED <<inits, maps, pc, arg>> /\ \E v \in Thread : refs[v][b] > 0
    BY DEF Ref, Calls
  <1>3. b \in DOMAIN m.bos
    BY <1>1, <1>2, LiveBos
  <1> HIDE DEF w, u, k, P
  <1>4. Meets(m', [w EXCEPT ![b] = @ + 1], u, k, P) /\ Same(m, m')
    BY <1>1, <1>2, <1>3, BoRefMeets, BoRefMgr
  <1> QED BY <1>2, <1>4, RefStep DEF w, u, k, P

\* tbm_bo_import and tbm_bo_import_fd
LEMMA ImportKeeps ==
    ASSUME NEW x \in Counts, SurfInv(x), NEW t \in Thread, NEW b \in Bo, NEW p \in Priv,
           Import(t, b, p), UNCHANGED surfVars
    PROVE  SurfInv(x)'
  <1> DEFINE c == Imported(b, p)
             w == WantOf(x, refs, surfs)
             u == MapsOf(maps, surfs, smaps, mapping)
             k == FlyingOf(pc, arg)
             P == PointersOf(m.env, surfs)
  <1>1. Meets(m, w, u, k, P) /\ w \in Counts /\ u \in Counts /\ k \in Counts /\ m \in Mgr
    BY InvHas
  <1>2. /\ pc[t] = "idle" /\ (b \notin Live \/ p \in PrivsInUse(m))
        /\ m' = BoImport(m, b, p) /\ refs' = [refs EXCEPT ![t][c] = @ + 1]
        /\ UNCHANGED <<inits, maps, pc, arg>>
    BY DEF Import, Calls
  <1>3. CASE p \in PrivsInUse(m)
    <2>1. c = CHOOSE d \in Live : m.bos[d].priv = p
      BY <1>3 DEF Imported
    <2>2. \E d \in Live : m.bos[d].priv = p
      BY <1>3 DEF PrivsInUse, Live
    <2>3. c \in Live /\ m.bos[c].priv = p
      <3> HIDE DEF c
      <3> QED BY <2>1, <2>2, Zenon
    <2> HIDE DEF c, w, u, k, P
    <2>4. c \in DOMAIN m.bos /\ c \in Bo
      BY <1>1, <2>3, MgrFields DEF Live
    <2>5. /\ Meets(BoImport(m, b, p), [w EXCEPT ![c] = @ + 1], u, k, P)
          /\ BoImport(m, b, p).env = m.env /\ BoImport(m, b, p).ref_count = m.ref_count
      <3> DEFINE y == BoImport(m, b, p)
      <3>1. m.bos[c].priv = p
        BY <2>3
      <3>2. Meets(y, [w EXCEPT ![c] = @ + 1], u, k, P)
        BY <1>1, <2>4, <3>1, ImportMeets
      <3>3. y.env = m.env /\ y.ref_count = m.ref_count
        BY <1>1 DEF BoImport, BoAlloc, Mgr
      <3> QED BY <3>2, <3>3
    <2>6. Same(m, m')
      BY <1>2, <2>5 DEF Same
    <2> QED BY <1>2, <2>4, <2>5, <2>6, RefStep DEF w, u, k, P
  <1>4. CASE p \notin PrivsInUse(m)
    <2>1. c = b /\ b \notin Live /\ m' = BoAlloc(m, b, p)
      BY <1>2, <1>4 DEF Imported, BoImport
    <2> QED BY <1>2, <1>4, <2>1, NewBoStep
  <1> QED BY <1>3, <1>4

\* The mappings of a bo that is freed go with it.
Unmapped(mp, b) == [u \in Thread |-> [mp[u] EXCEPT ![b] = 0]]

\* The clients when a bo is gone and with it its mappings.
LEMMA UnmappedClients ==
    ASSUME NEW ini, NEW R, NEW mp, NEW pp, NEW ag, NEW sf, NEW sr, NEW sm, NEW mg,
           Clients(ini, R, mp, pp, ag, sf, sr, sm, mg),
           NEW t \in Thread, pp[t] = "idle", NEW b \in Bo, NEW n \in Nat
    PROVE  /\ Clients(ini, Put(R, t, b, n), Unmapped(mp, b), pp, ag, sf, sr, sm, mg)
           /\ \A c \in Bo : c # b => MapsOf(Unmapped(mp, b), sf, sm, mg)[c] = MapsOf(mp, sf, sm, mg)[c]
  <1> DEFINE mq == Unmapped(mp, b)
  <1>1. /\ R \in Table(Bo) /\ mp \in Table(Bo) /\ sf \in SurfTable /\ sm \in Table(Surf)
        /\ Calls0(sf, mg) /\ MapState(mp, sf, sm, mg)
        /\ UsersOf(Bo, mp, R) /\ CallersOK(ini, R, pp, ag, sf, mg)
    BY ClientsHave
  <1>2. /\ mq \in Table(Bo) /\ \A u \in Thread : mq[u][b] = 0
        /\ \A u \in Thread, c \in Bo : c # b => mq[u][c] = mp[u][c]
    BY <1>1 DEF Unmapped, Table
  <1> HIDE DEF mq
  <1>3. MapState(mq, sf, sm, mg)
    BY <1>1, <1>2 DEF MapState
  <1>4. UsersOf(Bo, mq, R)
    <2>1. ASSUME NEW u \in Thread, NEW z \in Bo, mq[u][z] > 0 PROVE R[u][z] > 0
      <3>1. z # b
        BY <1>2, <2>1
      <3> QED BY <1>1, <1>2, <2>1, <3>1 DEF UsersOf
    <2> QED BY <2>1 DEF UsersOf
  <1>5. Clients(ini, R, mq, pp, ag, sf, sr, sm, mg)
    BY <1>3, <1>4 DEF Clients
  <1>6. ~(mq[t][b] > 0)
    BY <1>2
  <1>7. Clients(ini, Put(R, t, b, n), mq, pp, ag, sf, sr, sm, mg)
    BY <1>5, <1>6, RefsClients
  <1>8. ASSUME NEW c \in Bo, c # b
        PROVE  MapsOf(mq, sf, sm, mg)[c] = MapsOf(mp, sf, sm, mg)[c]
    <2>1. \A u \in Thread : TermOf(mq, sf, sm, mg, u, c) = TermOf(mp, sf, sm, mg, u, c)
      BY <1>2, <1>8 DEF TermOf
    <2> QED BY <1>1, <1>3, <2>1, MapsNoRow
  <1> QED BY <1>7, <1>8 DEF mq

\* tbm_bo_unref
LEMMA UnrefKeeps ==
    ASSUME NEW x \in Counts, SurfInv(x), NEW t \in Thread, NEW b \in Bo,
           Unref(t, b), UNCHANGED surfVars
    PROVE  SurfInv(x)'
  <1> DEFINE w == WantOf(x, refs, surfs)
             u == MapsOf(maps, surfs, smaps, mapping)
             k == FlyingOf(pc, arg)
             P == PointersOf(m.env, surfs)
             n == refs[t][b] - 1
             S == Put(refs, t, b, n)
             v == [w EXCEPT ![b] = @ - 1]
  <1>1. /\ Meets(m, w, u, k, P) /\ w \in Counts /\ u \in Counts /\ k \in Counts /\ m \in Mgr
        /\ Clients(inits, refs, maps, pc, arg, surfs, srefs, smaps, mapping)
        /\ surfMgr \in BOOLEAN /\ RefCountOK(m.ref_count, inits, surfs, surfMgr)
        /\ MgrOK(x, m, refs, maps, pc, arg, surfs, smaps, mapping)
    BY InvHas
  <1>2. refs \in Table(Bo) /\ surfs \in SurfTable /\ refs[t][b] \in Nat
    <2>1. refs \in Table(Bo) /\ surfs \in SurfTable
      BY <1>1, ClientsHave
    <2> QED BY <2>1 DEF Table
  <1>3. /\ pc[t] = "idle" /\ refs[t][b] > 0 /\ (maps[t][b] = 0 \/ m.bos[b].ref_cnt = 1)
        /\ m' = BoUnref(m, b) /\ refs' = S
        /\ maps' = IF b \in DOMAIN m'.bos THEN maps ELSE Unmapped(maps, b)
        /\ UNCHANGED <<inits, pc, arg>>
    BY DEF Unref, Holds, Calls, Put, Unmapped
  <1>4. n \in Nat
    BY <1>2, <1>3
  <1>5. b \in DOMAIN m.bos
    BY <1>1, <1>3, LiveBos
  <1>6. WantOf(x, S, surfs) = [w EXCEPT ![b] = @ + n - refs[t][b]]
    <2> HIDE DEF n
    <2> QED BY <1>2, <1>4, WantRefs
  <1>7. [w EXCEPT ![b] = @ + n - refs[t][b]] = v
    <2> HIDE DEF w
    <2>1. w[b] \in Nat
      BY <1>1 DEF Counts
    <2>2. w[b] + n - refs[t][b] = w[b] - 1
      BY <1>2, <2>1
    <2> QED BY <2>2
  <1>8. m.bos[b].ref_cnt = w[b] /\ w[b] > 0 /\ w[b] \in Nat
    <2> HIDE DEF w, u, k, P
    <2>1. RefsMeet(m, w)
      BY <1>1 DEF Meets
    <2> QED BY <1>1, <1>5, <2>1 DEF RefsMeet, Counts
  <1>9. v \in Counts /\ v[b] = w[b] - 1
    <2> HIDE DEF w
    <2> QED BY <1>1, <1>8 DEF Counts
  <1>10. Same(m, m')
    BY <1>1, <1>3, BoUnrefMgr
  <1>11. /\ inits' = inits /\ pc' = pc /\ arg' = arg /\ surfs' = surfs
         /\ surfMgr' = surfMgr /\ srefs' = srefs /\ smaps' = smaps /\ mapping' = mapping
         /\ m'.env = m.env /\ m'.ref_count = m.ref_count
    BY <1>3, <1>10 DEF surfVars, Same
  <1>12. CASE w[b] = 1
    <2> DEFINE mq == Unmapped(maps, b)
    <2>1. /\ Clients(inits, S, mq, pc, arg, surfs, srefs, smaps, mapping)
          /\ \A c \in Bo : c # b => MapsOf(mq, surfs, smaps, mapping)[c] = u[c]
      <3> HIDE DEF n
      <3> QED BY <1>1, <1>3, <1>4, UnmappedClients
    <2>2. WantOf(x, S, surfs)[b] = 0
      <3> HIDE DEF w, S, v, n
      <3>1. WantOf(x, S, surfs) = v
        BY <1>6, <1>7
      <3>2. v[b] = 0
        BY <1>9, <1>12
      <3> QED BY <3>1, <3>2
    <2>3. MapsOf(mq, surfs, smaps, mapping)[b] = 0 /\ k[b] = 0
      <3> HIDE DEF S, mq
      <3> QED BY <2>1, <2>2, Unused
    <2>4. MapsOf(mq, surfs, smaps, mapping) \in Counts
      BY <2>1, ClientsHave
    <2> HIDE DEF w, u, k, P, S, n, v, mq
    <2>5. MapsOf(mq, surfs, smaps, mapping) = [u EXCEPT ![b] = 0]
      BY <1>1, <2>1, <2>3, <2>4 DEF Counts
    <2>6. Meets(BoUnref(m, b), [w EXCEPT ![b] = @ - 1], IF w[b] = 1 THEN [u EXCEPT ![b] = 0] ELSE u, k, P)
      BY <1>1, <1>5, <2>3, BoUnrefMeets
    <2>7. Meets(m', v, [u EXCEPT ![b] = 0], k, P)
      BY <1>3, <1>12, <2>6 DEF v
    <2>8. b \notin DOMAIN m'.bos
      <3>1. ~(v[b] > 0)
        BY <1>9, <1>12
      <3>2. [u EXCEPT ![b] = 0] \in Counts
        BY <1>1 DEF Counts
      <3> QED BY <1>1, <1>9, <2>7, <3>1, <3>2, MeetsLive
    <2>9. maps' = mq
      BY <1>3, <2>8 DEF mq
    <2>10. /\ Clients(inits', refs', maps', pc', arg', surfs', srefs', smaps', mapping')
           /\ surfMgr' \in BOOLEAN /\ RefCountOK(m'.ref_count, inits', surfs', surfMgr')
      BY <1>1, <1>3, <1>11, <2>1, <2>9
    <2>11. Meets(m', WantOf(x, refs', surfs'), MapsOf(maps', surfs', smaps', mapping'),
                 FlyingOf(pc', arg'), PointersOf(m.env, surfs'))
      BY <1>3, <1>6, <1>7, <1>11, <2>5, <2>7, <2>9 DEF k, P
    <2> QED BY <1>3, <1>11, <2>10, <2>11, IdleStep
  <1>13. CASE w[b] # 1
    <2> HIDE DEF w, u, k, P, v
    <2>1. Meets(BoUnref(m, b), [w EXCEPT ![b] = @ - 1], IF w[b] = 1 THEN [u EXCEPT ![b] = 0] ELSE u, k, P)
      BY <1>1, <1>5, <1>13, BoUnrefMeets
    <2>2. Meets(m', v, u, k, P)
      BY <1>3, <1>13, <2>1 DEF v
    <2>3. b \in DOMAIN m'.bos
      <3>1. v[b] > 0
        BY <1>8, <1>9, <1>13
      <3> QED BY <1>1, <1>9, <2>2, <3>1, MeetsLive
    <2>4. maps' = maps /\ maps[t][b] = 0
      BY <1>3, <1>8, <1>13, <2>3
    <2>5. Meets(m', [w EXCEPT ![b] = @ + n - refs[t][b]], u, k, P)
      BY <1>7, <2>2
    <2>6. UNCHANGED <<inits, maps, pc, arg>>
      BY <1>3, <2>4
    <2> HIDE DEF n
    <2> QED BY <1>3, <1>4, <1>10, <2>4, <2>5, <2>6, RefsStep DEF w, u, k, P
  <1> QED BY <1>12, <1>13

\* Where a thread is in tbm_bo_map and tbm_surface_map.
PC == {"idle", "lock", "locked"}

\* A thread goes on in the call that it is in.
LEMMA PcClients ==
    ASSUME NEW ini, NEW R, NEW mp, NEW pp, NEW ag, NEW sf, NEW sr, NEW sm, NEW mg,
           Clients(ini, R, mp, pp, ag, sf, sr, sm, mg), NEW t \in Thread,
           NEW pq \in [Thread -> PC], NEW ah \in [Thread -> Bo \cup {NULL}],
           \A v \in Thread : v # t => pq[v] = pp[v] /\ ah[v] = ag[v],
           pq[t] # "idle" =>
             IF mg[t] = NotMapping THEN ah[t] \in Bo /\ ini[t] > 0 /\ R[t][ah[t]] > 0
                                   ELSE ah[t] = sf[mg[t].surf].bos[mg[t].i]
    PROVE  Clients(ini, R, mp, pq, ah, sf, sr, sm, mg)
  <1>1. CallersOK(ini, R, pp, ag, sf, mg)
    BY ClientsHave
  <1>2. CallersOK(ini, R, pq, ah, sf, mg)
    <2>1. ASSUME NEW v \in Thread, pq[v] # "idle"
          PROVE  IF mg[v] = NotMapping THEN ah[v] \in Bo /\ ini[v] > 0 /\ R[v][ah[v]] > 0
                                       ELSE ah[v] = sf[mg[v].surf].bos[mg[v].i]
      <3>1. CASE v = t
        BY <2>1, <3>1
      <3>2. CASE v # t
        BY <1>1, <2>1, <3>2 DEF CallersOK
      <3> QED BY <3>1, <3>2
    <2> QED BY <2>1 DEF CallersOK
  <1> QED BY <1>2 DEF Clients, PC

\* The clients when a thread has mapped b or unmapped it.
LEMMA MapsClients ==
    ASSUME NEW ini, NEW R, NEW mp, NEW pp, NEW ag, NEW sf, NEW sr, NEW sm, NEW mg,
           Clients(ini, R, mp, pp, ag, sf, sr, sm, mg), NEW t \in Thread,
           NEW b \in Bo, NEW n \in Nat, n > 0 => R[t][b] > 0
    PROVE  Clients(ini, R, Put(mp, t, b, n), pp, ag, sf, sr, sm, mg)
  <1> DEFINE mq == Put(mp, t, b, n)
  <1>1. mp \in Table(Bo) /\ MapState(mp, sf, sm, mg) /\ UsersOf(Bo, mp, R)
    BY ClientsHave
  <1>2. /\ mq \in Table(Bo) /\ mq[t][b] = n
        /\ \A u \in Thread, y \in Bo : <<u, y>> # <<t, b>> => mq[u][y] = mp[u][y]
    BY <1>1, TableChanged
  <1>3. MapState(mq, sf, sm, mg)
    BY <1>1, MapsPut
  <1> HIDE DEF mq
  <1>4. UsersOf(Bo, mq, R)
    <2>1. ASSUME NEW u \in Thread, NEW z \in Bo, mq[u][z] > 0 PROVE R[u][z] > 0
      <3>1. CASE u = t /\ z = b
        BY <1>2, <2>1, <3>1
      <3>2. CASE ~(u = t /\ z = b)
        BY <1>1, <1>2, <2>1, <3>2 DEF UsersOf
      <3> QED BY <3>1, <3>2
    <2> QED BY <2>1 DEF UsersOf
  <1>5. Clients(ini, R, mq, pp, ag, sf, sr, sm, mg)
    BY <1>3, <1>4 DEF Clients
  <1> QED BY <1>5 DEF mq

\* The end of tbm_bo_map and tbm_bo_unmap.
LEMMA MapsStep ==
    ASSUME NEW x \in Counts, SurfInv(x), NEW t \in Thread,
           pc' \in [Thread -> PC], pc'[t] = "idle", \A v \in Thread : v # t => pc'[v] = pc[v],
           NEW b \in Bo, NEW n \in Nat, n > 0 => refs[t][b] > 0,
           maps' = Put(maps, t, b, n),
           UNCHANGED <<inits, refs, arg>>, UNCHANGED surfVars, Same(m, m'),
           Meets(m', WantOf(x, refs, surfs),
                 [MapsOf(maps, surfs, smaps, mapping) EXCEPT ![b] = @ + n - maps[t][b]],
                 FlyingOf(pc', arg), PointersOf(m.env, surfs))
    PROVE  SurfInv(x)'
  <1>1. /\ Clients(inits, refs, maps, pc, arg, surfs, srefs, smaps, mapping)
        /\ surfMgr \in BOOLEAN /\ RefCountOK(m.ref_count, inits, surfs, surfMgr)
        /\ MapState(maps, surfs, smaps, mapping)
    BY InvHas
  <1>2. Clients(inits, refs, Put(maps, t, b, n), pc, arg, surfs, srefs, smaps, mapping)
    BY <1>1, MapsClients
  <1>3. Clients(inits, refs, Put(maps, t, b, n), pc', arg, surfs, srefs, smaps, mapping)
    <2>1. arg \in [Thread -> Bo \cup {NULL}]
      BY <1>1, ClientsHave
    <2>2. \A v \in Thread : v # t => pc'[v] = pc[v] /\ arg[v] = arg[v]
      OBVIOUS
    <2> QED BY <1>2, <2>1, <2>2, PcClients
  <1>4. MapsOf(maps', surfs, smaps, mapping)
          = [MapsOf(maps, surfs, smaps, mapping) EXCEPT ![b] = @ + n - maps[t][b]]
    BY <1>1, MapsPut
  <1>5. /\ inits' = inits /\ refs' = refs /\ arg' = arg /\ surfs' = surfs
        /\ surfMgr' = surfMgr /\ srefs' = srefs /\ smaps' = smaps /\ mapping' = mapping
        /\ m'.env = m.env /\ m'.ref_count = m.ref_count
    BY DEF surfVars, Same
  <1>6. /\ Clients(inits', refs', maps', pc', arg', surfs', srefs', smaps', mapping')
        /\ surfMgr' \in BOOLEAN /\ RefCountOK(m'.ref_count, inits', surfs', surfMgr')
    BY <1>1, <1>3, <1>5
  <1>7. Meets(m', WantOf(x, refs', surfs'), MapsOf(maps', surfs', smaps', mapping'),
                 FlyingOf(pc', arg'), PointersOf(m.env, surfs'))
    BY <1>4, <1>5
  <1> QED BY <1>5, <1>6, <1>7, IdleStep

\* tbm_bo_map fails.
LEMMA FailStep ==
    ASSUME NEW x \in Counts, SurfInv(x), NEW t \in Thread,
           pc' \in [Thread -> PC], pc'[t] = "idle", \A v \in Thread : v # t => pc'[v] = pc[v],
           UNCHANGED <<inits, refs, maps, arg>>, UNCHANGED surfVars, Same(m, m'),
           Meets(m', WantOf(x, refs, surfs), MapsOf(maps, surfs, smaps, mapping),
                 FlyingOf(pc', arg), PointersOf(m.env, surfs))
    PROVE  SurfInv(x)'
  <1>1. /\ Clients(inits, refs, maps, pc, arg, surfs, srefs, smaps, mapping)
        /\ surfMgr \in BOOLEAN /\ RefCountOK(m.ref_count, inits, surfs, surfMgr)
    BY InvHas
  <1>2. Clients(inits, refs, maps, pc', arg, surfs, srefs, smaps, mapping)
    <2>1. arg \in [Thread -> Bo \cup {NULL}]
      BY <1>1, ClientsHave
    <2>2. \A v \in Thread : v # t => pc'[v] = pc[v] /\ arg[v] = arg[v]
      OBVIOUS
    <2> QED BY <1>1, <2>1, <2>2, PcClients
  <1>3. /\ inits' = inits /\ refs' = refs /\ maps' = maps /\ arg' = arg /\ surfs' = surfs
        /\ surfMgr' = surfMgr /\ srefs' = srefs /\ smaps' = smaps /\ mapping' = mapping
        /\ m'.env = m.env /\ m'.ref_count = m.ref_count
    BY DEF surfVars, Same
  <1>4. /\ Clients(inits', refs', maps', pc', arg', surfs', srefs', smaps', mapping')
        /\ surfMgr' \in BOOLEAN /\ RefCountOK(m'.ref_count, inits', surfs', surfMgr')
    BY <1>1, <1>2, <1>3
  <1>5. Meets(m', WantOf(x, refs', surfs'), MapsOf(maps', surfs', smaps', mapping'),
                 FlyingOf(pc', arg'), PointersOf(m.env, surfs'))
    BY <1>3
  <1> QED BY <1>3, <1>4, <1>5, IdleStep

\* A thread has mapped a bo.
LEMMA MapMoreStep ==
    ASSUME NEW x \in Counts, SurfInv(x), NEW t \in Thread,
           pc' \in [Thread -> PC], pc'[t] = "idle", \A v \in Thread : v # t => pc'[v] = pc[v],
           NEW b \in Bo, refs[t][b] > 0,
           maps' = [maps EXCEPT ![t][b] = @ + 1],
           UNCHANGED <<inits, refs, arg>>, UNCHANGED surfVars, Same(m, m'),
           Meets(m', WantOf(x, refs, surfs),
                 [MapsOf(maps, surfs, smaps, mapping) EXCEPT ![b] = @ + 1],
                 FlyingOf(pc', arg), PointersOf(m.env, surfs))
    PROVE  SurfInv(x)'
  <1> DEFINE u == MapsOf(maps, surfs, smaps, mapping)
             n == maps[t][b] + 1
  <1>1. maps \in Table(Bo) /\ u \in Counts
    BY InvHas, ClientsHave
  <1>2. maps[t][b] \in Nat /\ n \in Nat
    BY <1>1 DEF Table
  <1> HIDE DEF u
  <1>3. [u EXCEPT ![b] = @ + n - maps[t][b]] = [u EXCEPT ![b] = @ + 1]
    <2>1. u[b] + n - maps[t][b] = u[b] + 1
      BY <1>1, <1>2 DEF Counts
    <2> QED BY <2>1
  <1>4. maps' = Put(maps, t, b, n)
    BY <1>1 DEF Put, Table
  <1>5. Meets(m', WantOf(x, refs, surfs), [u EXCEPT ![b] = @ + n - maps[t][b]],
              FlyingOf(pc', arg), PointersOf(m.env, surfs))
    BY <1>3 DEF u
  <1> HIDE DEF n
  <1> QED BY <1>2, <1>4, <1>5, MapsStep DEF u

\* tbm_bo_map where no lock has to be taken.
LEMMA MapKeeps ==
    ASSUME NEW x \in Counts, SurfInv(x), NEW t \in Thread, NEW b \in Bo,
           Map(t, b), UNCHANGED surfVars
    PROVE  SurfInv(x)'
  <1> DEFINE w == WantOf(x, refs, surfs)
             u == MapsOf(maps, surfs, smaps, mapping)
             k == FlyingOf(pc, arg)
             P == PointersOf(m.env, surfs)
  <1>1. /\ Meets(m, w, u, k, P) /\ w \in Counts /\ u \in Counts /\ k \in Counts /\ m \in Mgr
        /\ Clients(inits, refs, maps, pc, arg, surfs, srefs, smaps, mapping)
        /\ MgrOK(x, m, refs, maps, pc, arg, surfs, smaps, mapping)
    BY InvHas
  <1>2. /\ pc[t] = "idle" /\ refs[t][b] > 0 /\ ~NeedsLock(m, b) /\ MapTail(m, t, b)
        /\ UNCHANGED <<inits, refs, pc, arg>>
    BY DEF Map, Holds, Calls
  <1>3. /\ pc' \in [Thread -> PC] /\ pc'[t] = "idle" /\ (\A v \in Thread : v # t => pc'[v] = pc[v])
        /\ UNCHANGED <<inits, refs, arg>> /\ FlyingOf(pc', arg) = k
    BY <1>1, <1>2, ClientsHave DEF PC
  <1>4. b \in DOMAIN m.bos
    BY <1>1, <1>2, LiveBos
  <1>5. CASE m' = [m EXCEPT !.bos[b].map_cnt = @ + 1] /\ maps' = [maps EXCEPT ![t][b] = @ + 1]
    <2> HIDE DEF w, u, k, P
    <2>1. Meets(m', w, [u EXCEPT ![b] = @ + 1], k, P)
      BY <1>1, <1>2, <1>4, <1>5, MapPlainMeets
    <2>2. Same(m, m')
      BY <1>1, <1>5 DEF Same, Mgr
    <2> QED BY <1>2, <1>3, <1>5, <2>1, <2>2, MapMoreStep DEF w, u, P
  <1>6. CASE m' = BoUnlock(m, b) /\ maps' = maps
    <2> HIDE DEF w, u, k, P
    <2>1. Meets(m', w, u, k, P)
      BY <1>1, <1>2, <1>4, <1>6, FailPlainMeets
    <2>2. Same(m, m')
      BY <1>1, <1>6, BoUnlockSame
    <2>3. UNCHANGED <<inits, refs, maps, arg>>
      BY <1>3, <1>6
    <2> QED BY <1>2, <1>3, <1>6, <2>1, <2>2, <2>3, FailStep DEF w, u, P
  <1> QED BY <1>2, <1>5, <1>6 DEF MapTail

\* tbm_bo_unmap
LEMMA UnmapKeeps ==
    ASSUME NEW x \in Counts, SurfInv(x), NEW t \in Thread, NEW b \in Bo,
           Unmap(t, b), UNCHANGED surfVars
    PROVE  SurfInv(x)'
  <1> DEFINE w == WantOf(x, refs, surfs)
             u == MapsOf(maps, surfs, smaps, mapping)
             k == FlyingOf(pc, arg)
             P == PointersOf(m.env, surfs)
             n == maps[t][b] - 1
  <1>1. /\ Meets(m, w, u, k, P) /\ w \in Counts /\ u \in Counts /\ k \in Counts /\ m \in Mgr
        /\ Clients(inits, refs, maps, pc, arg, surfs, srefs, smaps, mapping)
        /\ MgrOK(x, m, refs, maps, pc, arg, surfs, smaps, mapping)
        /\ MapState(maps, surfs, smaps, mapping)
    BY InvHas
  <1>2. /\ pc[t] = "idle" /\ refs[t][b] > 0 /\ maps[t][b] > 0 /\ m' = BoUnmap(m, b)
        /\ maps' = Put(maps, t, b, n)
        /\ UNCHANGED <<inits, refs, pc, arg>>
    BY DEF Unmap, Holds, Calls, Put
  <1>3. /\ pc' \in [Thread -> PC] /\ pc'[t] = "idle" /\ (\A v \in Thread : v # t => pc'[v] = pc[v])
        /\ UNCHANGED <<inits, refs, arg>> /\ FlyingOf(pc', arg) = k
    BY <1>1, <1>2, ClientsHave DEF PC
  <1>4. b \in DOMAIN m.bos
    BY <1>1, <1>2, LiveBos
  <1>5. maps[t][b] \in Nat /\ n \in Nat
    <2>1. maps \in Table(Bo)
      BY <1>1, ClientsHave
    <2>2. maps[t][b] \in Nat
      BY <2>1 DEF Table
    <2> QED BY <1>2, <2>2
  <1>6. maps[t][b] <= u[b]
    BY <1>1, <1>5, MapsPut
  <1> HIDE DEF w, u, k, P
  <1>7. u[b] \in Nat /\ u[b] > 0 /\ u[b] + n - maps[t][b] = u[b] - 1
    <2>1. u[b] \in Nat
      BY <1>1 DEF Counts
    <2> QED BY <1>2, <1>5, <1>6, <2>1
  <1>8. Meets(m', w, [u EXCEPT ![b] = @ - 1], k, P)
    BY <1>1, <1>2, <1>4, <1>7, BoUnmapMeets
  <1>9. Same(m, m')
    BY <1>1, <1>2, <1>4, BoUnmapMgr
  <1>10. [u EXCEPT ![b] = @ + n - maps[t][b]] = [u EXCEPT ![b] = @ - 1]
    BY <1>7
  <1>11. Meets(m', w, [u EXCEPT ![b] = @ + n - maps[t][b]], FlyingOf(pc', arg), P)
    BY <1>3, <1>8, <1>10
  <1> HIDE DEF n
  <1> QED BY <1>2, <1>3, <1>5, <1>9, <1>11, MapsStep DEF w, u, P

\* tbm_bo_map goes to the backend for a lock.
Enters(t, b) == pc' = [pc EXCEPT ![t] = "lock"] /\ arg' = [arg EXCEPT ![t] = b]

\* A thread leaves the manager's mutex to lock a bo.
LEMMA EnterLock ==
    ASSUME NEW x \in Counts, SurfInv(x), NEW t \in Thread, pc[t] = "idle", NEW b \in Bo,
           IF mapping[t] = NotMapping THEN inits[t] > 0 /\ refs[t][b] > 0
                                      ELSE b = surfs[mapping[t].surf].bos[mapping[t].i],
           NeedsLock(m, b), Enters(t, b), UNCHANGED <<m, clients, surfVars>>
    PROVE  SurfInv(x)'
  <1>1. /\ Clients(inits, refs, maps, pc, arg, surfs, srefs, smaps, mapping)
        /\ surfMgr \in BOOLEAN /\ RefCountOK(m.ref_count, inits, surfs, surfMgr)
        /\ MgrOK(x, m, refs, maps, pc, arg, surfs, smaps, mapping)
    BY InvHas
  <1>2. /\ m' = m /\ inits' = inits /\ refs' = refs /\ maps' = maps
        /\ UNCHANGED <<surfs, surfMgr, srefs, smaps, mapping>>
    BY DEF clients, surfVars
  <1>3. /\ pc' \in [Thread -> PC] /\ pc'[t] = "lock" /\ (\A v \in Thread : v # t => pc'[v] = pc[v])
        /\ arg' \in [Thread -> Bo \cup {NULL}] /\ arg'[t] = b
        /\ (\A v \in Thread : v # t => arg'[v] = arg[v])
    <2>1. pc' = [pc EXCEPT ![t] = "lock"] /\ arg' = [arg EXCEPT ![t] = b]
      BY DEF Enters
    <2> QED BY <1>1, <2>1, ClientsHave DEF PC
  <1>4. Clients(inits, refs, maps, pc', arg', surfs, srefs, smaps, mapping)
    <2>1. \A v \in Thread : v # t => pc'[v] = pc[v] /\ arg'[v] = arg[v]
      BY <1>3
    <2>2. IF mapping[t] = NotMapping THEN arg'[t] \in Bo /\ inits[t] > 0 /\ refs[t][arg'[t]] > 0
                                     ELSE arg'[t] = surfs[mapping[t].surf].bos[mapping[t].i]
      BY <1>2, <1>3
    <2> QED BY <1>1, <1>3, <2>1, <2>2, PcClients
  <1>5. FlyingOf(pc', arg') = FlyingOf(pc, arg)
    <2>1. \A v \in Thread : /\ pc'[v] = "locked" <=> pc[v] = "locked"
                            /\ pc[v] = "locked" => arg'[v] = arg[v]
      BY <1>2, <1>3
    <2> QED BY <2>1, FlySame
  <1>6. LockOK(m, pc', arg')
    <2>1. ASSUME LocksKept(m.env), NEW v \in Thread, pc'[v] # "idle"
          PROVE  LockType(m) # "TRY_NEVER" /\ (LockType(m) = "TRY_ONCE" => m.bos[arg'[v]].lock_cnt = 0)
      <3>1. CASE v = t
        BY <1>2, <1>3, <3>1 DEF NeedsLock
      <3>2. CASE v # t
        BY <1>1, <1>3, <2>1, <3>2 DEF MgrOK, LockOK
      <3> QED BY <3>1, <3>2
    <2> QED BY <2>1 DEF LockOK
  <1>7. MgrOK(x, m', refs', maps', pc', arg', surfs', smaps', mapping')
    BY <1>1, <1>2, <1>5, <1>6 DEF MgrOK
  <1>8. Whole(x, m', inits', refs', maps', pc', arg', surfs', surfMgr', srefs', smaps', mapping')
    BY <1>1, <1>2, <1>4, <1>7 DEF Whole
  <1> QED BY <1>8 DEF SurfInv

\* tbm_bo_map up to the lock.
LEMMA MapLockKeeps ==
    ASSUME NEW x \in Counts, SurfInv(x), NEW t \in Thread, mapping[t] = NotMapping, NEW b \in Bo,
           MapLock(t, b), UNCHANGED surfVars
    PROVE  SurfInv(x)'
BY EnterLock DEF MapLock, Holds, Calls, Enters

\* The backend has locked the bo.
LEMMA LockedStep ==
    ASSUME NEW x \in Counts, SurfInv(x), NEW t \in Thread, pc[t] = "lock",
           pc' = [pc EXCEPT ![t] = "locked"],
           m' = [m EXCEPT !.held[m.bos[arg[t]].priv] = @ + 1],
           UNCHANGED <<inits, refs, maps, arg>>, UNCHANGED surfVars
    PROVE  SurfInv(x)'
  <1> DEFINE w == WantOf(x, refs, surfs)
             u == MapsOf(maps, surfs, smaps, mapping)
             k == FlyingOf(pc, arg)
             P == PointersOf(m.env, surfs)
             b == arg[t]
  <1>1. /\ Meets(m, w, u, k, P) /\ w \in Counts /\ u \in Counts /\ k \in Counts /\ m \in Mgr
        /\ Clients(inits, refs, maps, pc, arg, surfs, srefs, smaps, mapping)
        /\ MgrOK(x, m, refs, maps, pc, arg, surfs, smaps, mapping) /\ LockOK(m, pc, arg)
        /\ surfMgr \in BOOLEAN /\ RefCountOK(m.ref_count, inits, surfs, surfMgr)
    BY InvHas
  <1>2. /\ pc \in [Thread -> PC] /\ arg \in [Thread -> Bo \cup {NULL}]
        /\ CallersOK(inits, refs, pc, arg, surfs, mapping)
    BY <1>1, ClientsHave DEF PC
  <1>3. /\ pc' \in [Thread -> PC] /\ pc'[t] = "locked" /\ (\A v \in Thread : v # t => pc'[v] = pc[v])
    BY <1>2 DEF PC
  <1>4. b \in Bo
    <2>1. CASE mapping[t] = NotMapping
      BY <1>2, <2>1 DEF CallersOK
    <2>2. CASE mapping[t] # NotMapping
      <3>1. CallIs(pc, arg, surfs, srefs, mapping, t)
        BY <1>1, <2>2, CallAt
      <3> QED BY <3>1 DEF CallIs
    <2> QED BY <2>1, <2>2
  <1>5. b \in DOMAIN m.bos
    BY <1>1, <1>4, LiveBos
  <1>6. ASSUME LocksKept(m.env) PROVE Lockable(m, b, k[b])
    <2>1. /\ LockType(m) # "TRY_NEVER"
          /\ LockType(m) = "TRY_ONCE" => m.bos[b].lock_cnt = 0
      BY <1>1, <1>6 DEF LockOK
    <2>2. ASSUME LockType(m) = "TRY_ONCE" PROVE k[b] = 0
      <3>1. \A v \in Thread : v = t
        BY <1>6, <2>2, OnceOnly
      <3>2. \A v \in Thread : ~(pc[v] = "locked" /\ arg[v] = b)
        BY <3>1
      <3> HIDE DEF b
      <3> QED BY <1>4, <3>2, FlyCounts
    <2> QED BY <2>1, <2>2 DEF Lockable
  <1>7. FlyingOf(pc', arg) = [k EXCEPT ![b] = @ + 1]
    <2>1. Flies(pc, pc', arg, t, b)
      BY <1>3, <1>4 DEF Flies
    <2> HIDE DEF b
    <2> QED BY <2>1, FlyMore
  <1>8. m'.env = m.env /\ m'.ref_count = m.ref_count /\ m'.bos = m.bos
    BY <1>1 DEF Mgr
  <1> HIDE DEF w, u, k, P
  <1>9. Meets(m', w, u, [k EXCEPT ![b] = @ + 1], P)
    <2>1. m' = [m EXCEPT !.held[m.bos[b].priv] = @ + 1]
      OBVIOUS
    <2> HIDE DEF b
    <2> QED BY <1>1, <1>5, <1>6, <2>1, BackendLockMeets
  <1>10. Clients(inits, refs, maps, pc', arg, surfs, srefs, smaps, mapping)
    <2>1. \A v \in Thread : v # t => pc'[v] = pc[v] /\ arg[v] = arg[v]
      BY <1>3
    <2>2. IF mapping[t] = NotMapping THEN arg[t] \in Bo /\ inits[t] > 0 /\ refs[t][arg[t]] > 0
                                     ELSE arg[t] = surfs[mapping[t].surf].bos[mapping[t].i]
      BY <1>2 DEF CallersOK
    <2> QED BY <1>1, <1>2, <1>3, <2>1, <2>2, PcClients
  <1>11. LockOK(m', pc', arg)
    <2>1. LockType(m') = LockType(m)
      BY <1>8, SameLockType
    <2>2. \A v \in Thread : pc'[v] # "idle" => pc[v] # "idle"
      BY <1>3
    <2> QED BY <1>1, <1>8, <2>1, <2>2 DEF LockOK
  <1>12. MgrOK(x, m', refs, maps, pc', arg, surfs, smaps, mapping)
    BY <1>7, <1>8, <1>9, <1>11 DEF MgrOK, w, u, P
  <1>13. UNCHANGED <<inits, refs, maps, arg, surfs, surfMgr, srefs, smaps, mapping>>
    BY DEF surfVars
  <1>14. Whole(x, m', inits', refs', maps', pc', arg', surfs', surfMgr', srefs', smaps', mapping')
    BY <1>1, <1>8, <1>10, <1>12, <1>13 DEF Whole
  <1> QED BY <1>14 DEF SurfInv

\* The backend gives the lock, or the call fails.
LEMMA BackendLockKeeps ==
    ASSUME NEW x \in Counts, SurfInv(x), NEW t \in Thread, BackendLock(t), UNCHANGED surfVars
    PROVE  SurfInv(x)'
  <1>1. /\ pc[t] = "lock" /\ UNCHANGED <<inits, refs, maps, arg>>
        /\ \/ /\ pc' = [pc EXCEPT ![t] = "locked"]
              /\ m' = [m EXCEPT !.held[m.bos[arg[t]].priv] = @ + 1]
           \/ /\ pc' = [pc EXCEPT ![t] = "idle"]
              /\ m' = m
    BY DEF BackendLock, clients
  <1>2. CASE pc' = [pc EXCEPT ![t] = "locked"] /\ m' = [m EXCEPT !.held[m.bos[arg[t]].priv] = @ + 1]
    BY <1>1, <1>2, LockedStep
  <1>3. CASE pc' = [pc EXCEPT ![t] = "idle"] /\ m' = m
    <2>1. /\ Clients(inits, refs, maps, pc, arg, surfs, srefs, smaps, mapping)
          /\ Meets(m, WantOf(x, refs, surfs), MapsOf(maps, surfs, smaps, mapping),
                 FlyingOf(pc, arg), PointersOf(m.env, surfs))
      BY InvHas
    <2>2. pc' \in [Thread -> PC] /\ pc'[t] = "idle" /\ \A v \in Thread : v # t => pc'[v] = pc[v]
      BY <1>3, <2>1, ClientsHave DEF PC
    <2>3. FlyingOf(pc', arg) = FlyingOf(pc, arg)
      <3>1. \A v \in Thread : /\ pc'[v] = "locked" <=> pc[v] = "locked"
                              /\ pc[v] = "locked" => arg[v] = arg[v]
        BY <1>1, <2>2
      <3> QED BY <3>1, FlySame
    <2>4. Same(m, m')
      BY <1>3 DEF Same
    <2>5. Meets(m', WantOf(x, refs, surfs), MapsOf(maps, surfs, smaps, mapping),
                 FlyingOf(pc', arg), PointersOf(m.env, surfs))
      BY <1>3, <2>1, <2>3
    <2> QED BY <1>1, <2>2, <2>4, <2>5, FailStep
  <1> QED BY <1>1, <1>2, <1>3

\* The bo of a thread that the backend has locked it for.
LEMMA LockedBo ==
    ASSUME NEW x \in Counts, SurfInv(x), NEW t \in Thread, pc[t] = "locked",
           pc' = [pc EXCEPT ![t] = "idle"]
    PROVE  /\ arg[t] \in Bo /\ arg[t] \in DOMAIN m.bos
           /\ FlyingOf(pc, arg)[arg[t]] > 0
           /\ FlyingOf(pc', arg) = [FlyingOf(pc, arg) EXCEPT ![arg[t]] = @ - 1]
           /\ LocksKept(m.env) /\ LockType(m) = "TRY_ONCE" => m.bos[arg[t]].lock_cnt = 0
           /\ pc' \in [Thread -> PC] /\ pc'[t] = "idle"
           /\ \A v \in Thread : v # t => pc'[v] = pc[v]
           /\ mapping[t] = NotMapping => refs[t][arg[t]] > 0
  <1> DEFINE b == arg[t]
  <1>1. /\ Clients(inits, refs, maps, pc, arg, surfs, srefs, smaps, mapping)
        /\ MgrOK(x, m, refs, maps, pc, arg, surfs, smaps, mapping) /\ LockOK(m, pc, arg)
    BY InvHas
  <1>2. /\ pc \in [Thread -> PC] /\ CallersOK(inits, refs, pc, arg, surfs, mapping)
    BY <1>1, ClientsHave DEF PC
  <1>3. /\ pc' \in [Thread -> PC] /\ pc'[t] = "idle" /\ (\A v \in Thread : v # t => pc'[v] = pc[v])
    BY <1>2 DEF PC
  <1>4. b \in Bo /\ (mapping[t] = NotMapping => refs[t][b] > 0)
    <2>1. CASE mapping[t] = NotMapping
      BY <1>2, <2>1 DEF CallersOK
    <2>2. CASE mapping[t] # NotMapping
      <3>1. CallIs(pc, arg, surfs, srefs, mapping, t)
        BY <1>1, <2>2, CallAt
      <3> QED BY <2>2, <3>1 DEF CallIs
    <2> QED BY <2>1, <2>2
  <1>5. b \in DOMAIN m.bos
    BY <1>1, <1>4, LiveBos
  <1>6. FlyingOf(pc', arg) = [FlyingOf(pc, arg) EXCEPT ![b] = @ - 1] /\ FlyingOf(pc, arg)[b] > 0
    <2>1. Flies(pc', pc, arg, t, b)
      BY <1>3, <1>4 DEF Flies
    <2> HIDE DEF b
    <2> QED BY <2>1, FlyMore
  <1>7. LocksKept(m.env) /\ LockType(m) = "TRY_ONCE" => m.bos[b].lock_cnt = 0
    BY <1>1 DEF LockOK
  <1> QED BY <1>3, <1>4, <1>5, <1>6, <1>7

\* tbm_bo_map after the lock.
LEMMA MapLockedKeeps ==
    ASSUME NEW x \in Counts, SurfInv(x), NEW t \in Thread, mapping[t] = NotMapping,
           MapLocked(t), UNCHANGED surfVars
    PROVE  SurfInv(x)'
  <1> DEFINE w == WantOf(x, refs, surfs)
             u == MapsOf(maps, surfs, smaps, mapping)
             k == FlyingOf(pc, arg)
             P == PointersOf(m.env, surfs)
             b == arg[t]
  <1>1. /\ Meets(m, w, u, k, P) /\ w \in Counts /\ u \in Counts /\ k \in Counts /\ m \in Mgr
    BY InvHas
  <1>2. /\ pc[t] = "locked" /\ pc' = [pc EXCEPT ![t] = "idle"]
        /\ UNCHANGED <<inits, refs, arg>> /\ MapTail(Relocked(m, b), t, b)
    BY DEF MapLocked, Relocked
  <1>3. /\ b \in Bo /\ b \in DOMAIN m.bos /\ k[b] > 0
        /\ FlyingOf(pc', arg) = [k EXCEPT ![b] = @ - 1]
        /\ LocksKept(m.env) /\ LockType(m) = "TRY_ONCE" => m.bos[b].lock_cnt = 0
    BY <1>2, LockedBo
  <1>4. /\ pc' \in [Thread -> PC] /\ pc'[t] = "idle" /\ (\A v \in Thread : v # t => pc'[v] = pc[v])
        /\ refs[t][b] > 0
    BY <1>2, LockedBo
  <1>5. Relocked(m, b) \in Mgr /\ Same(m, Relocked(m, b))
    <2>1. m.bos[b].lock_cnt + 1 \in Int
      BY <1>1, <1>3, BoOf
    <2> DEFINE i == m.bos[b].lock_cnt + 1
    <2>2. Relocked(m, b) = [m EXCEPT !.bos[b].lock_cnt = i]
      BY DEF Relocked
    <2> HIDE DEF i, b
    <2>3. NULL \in Surf \cup {NULL} /\ i \in Int
      BY <2>1 DEF i, b
    <2>4. [m EXCEPT !.bos[b].lock_cnt = i] \in Mgr
      BY <1>1, <1>3, <2>3, BoFieldChanged
    <2>5. Same(m, [m EXCEPT !.bos[b].lock_cnt = i])
      BY <1>1 DEF Same, Mgr
    <2> QED BY <2>2, <2>4, <2>5
  <1> HIDE DEF w, u, k, P
  <1>6. CASE m' = [Relocked(m, b) EXCEPT !.bos[b].map_cnt = @ + 1] /\ maps' = [maps EXCEPT ![t][b] = @ + 1]
    <2>1. Meets(m', w, [u EXCEPT ![b] = @ + 1], [k EXCEPT ![b] = @ - 1], P)
      <3> HIDE DEF b
      <3> QED BY <1>1, <1>3, <1>6, MapLockedMeets
    <2>2. Same(m, m')
      <3> DEFINE y == Relocked(m, b)
      <3>1. y \in Mgr /\ Same(m, y) /\ m' = [y EXCEPT !.bos[b].map_cnt = @ + 1]
        BY <1>5, <1>6
      <3> HIDE DEF y
      <3>2. m'.env = y.env /\ m'.ref_count = y.ref_count
        BY <3>1 DEF Mgr
      <3> QED BY <3>1, <3>2 DEF Same
    <2>3. Meets(m', w, [u EXCEPT ![b] = @ + 1], FlyingOf(pc', arg), P)
      BY <1>3, <2>1
    <2> HIDE DEF b
    <2> QED BY <1>2, <1>3, <1>4, <1>6, <2>2, <2>3, MapMoreStep DEF w, u, P
  <1>7. CASE m' = BoUnlock(Relocked(m, b), b) /\ maps' = maps
    <2>1. Meets(m', w, u, [k EXCEPT ![b] = @ - 1], P)
      <3> HIDE DEF b
      <3> QED BY <1>1, <1>3, <1>7, FailLockedMeets
    <2>2. Same(m, m')
      <3>1. Same(Relocked(m, b), m')
        BY <1>3, <1>5, <1>7, BoUnlockSame
      <3> QED BY <1>5, <3>1, SameSame
    <2>3. Meets(m', w, u, FlyingOf(pc', arg), P)
      BY <1>3, <2>1
    <2>4. UNCHANGED <<inits, refs, maps, arg>>
      BY <1>2, <1>7
    <2> QED BY <1>4, <2>2, <2>3, <2>4, FailStep DEF w, u, P
  <1> QED BY <1>2, <1>6, <1>7 DEF MapTail

\* tbm_bo_swap
LEMMA SwapKeeps ==
    ASSUME NEW x \in Counts, SurfInv(x), NEW t \in Thread, NEW b \in Bo, NEW c \in Bo,
           Swap(t, b, c), UNCHANGED surfVars
    PROVE  SurfInv(x)'
  <1> DEFINE w == WantOf(x, refs, surfs)
             u == MapsOf(maps, surfs, smaps, mapping)
             k == FlyingOf(pc, arg)
             P == PointersOf(m.env, surfs)
             y == Swapped(m, b, c)
  <1>1. /\ Meets(m, w, u, k, P) /\ w \in Counts /\ u \in Counts /\ k \in Counts /\ m \in Mgr
        /\ Clients(inits, refs, maps, pc, arg, surfs, srefs, smaps, mapping)
        /\ MgrOK(x, m, refs, maps, pc, arg, surfs, smaps, mapping)
    BY InvHas
  <1>2. /\ pc[t] = "idle" /\ refs[t][b] > 0 /\ refs[t][c] > 0 /\ b # c
        /\ SwapBusy \/ ~(Busy(b) \/ Busy(c))
        /\ m' = y /\ UNCHANGED <<inits, refs, maps, pc, arg>>
    BY DEF Swap, Holds, Calls, clients, Swapped
  <1>3. b \in DOMAIN m.bos /\ c \in DOMAIN m.bos
    BY <1>1, <1>2, LiveBos
  <1>4. ASSUME NEW d \in DOMAIN m.bos, ~Busy(d) PROVE m.bos[d].lock_cnt <= 0 /\ k[d] = 0
    <2>1. d \in Bo /\ m.bos[d].lock_cnt \in Int
      BY <1>1, BoOf
    <2>2. /\ ~(m.bos[d].lock_cnt > 0)
          /\ \A v \in Thread : ~(pc[v] = "locked" /\ arg[v] = d)
      BY <1>4 DEF Busy
    <2>3. k[d] = 0
      BY <2>1, <2>2, FlyCounts
    <2> QED BY <2>1, <2>2, <2>3
  <1>5. LocksKept(m.env) =>
          /\ m.bos[b].lock_cnt <= 0 /\ k[b] = 0
          /\ m.bos[c].lock_cnt <= 0 /\ k[c] = 0
    BY <1>2, <1>3, <1>4 DEF LocksKept
  <1>6. Meets(y, w, u, k, P) /\ y.env = m.env /\ y.ref_count = m.ref_count
    <2> HIDE DEF w, u, k, P
    <2>1. b # c
      BY <1>2
    <2> QED BY <1>1, <1>3, <1>5, <2>1, SwapMeets
  <1> HIDE DEF y
  <1>7. Same(m, m')
    BY <1>2, <1>6 DEF Same
  <1>8. /\ pc' \in [Thread -> PC] /\ pc'[t] = "idle" /\ (\A v \in Thread : v # t => pc'[v] = pc[v])
    BY <1>1, <1>2, ClientsHave DEF PC
  <1>9. Meets(m', w, u, FlyingOf(pc', arg), P) /\ UNCHANGED <<inits, refs, maps, arg>>
    BY <1>2, <1>6
  <1> QED BY <1>7, <1>8, <1>9, FailStep

\* The buffer manager's own calls.
LEMMA BoStepKeeps ==
    ASSUME NEW x \in Counts, SurfInv(x), NEW t \in Thread, BoStep(t),
           (\A b \in Bo : x[b] = 0) \/ m'.ref_count > 0
    PROVE  SurfInv(x)'
  <1>1. mapping[t] = NotMapping /\ BufMgrStep(t) /\ UNCHANGED surfVars
    BY DEF BoStep
  <1>2. CASE Init(t)
    BY <1>1, <1>2, InitKeeps
  <1>3. CASE Deinit(t)
    BY <1>1, <1>3, DeinitKeeps
  <1>4. ASSUME NEW b \in Bo, NEW p \in Priv, Alloc(t, b, p) PROVE SurfInv(x)'
    BY <1>1, <1>4, AllocKeeps
  <1>5. ASSUME NEW b \in Bo, NEW p \in Priv, Import(t, b, p) PROVE SurfInv(x)'
    BY <1>1, <1>5, ImportKeeps
  <1>6. ASSUME NEW b \in Bo, Ref(t, b) PROVE SurfInv(x)'
    BY <1>1, <1>6, RefKeeps
  <1>7. ASSUME NEW b \in Bo, Unref(t, b) PROVE SurfInv(x)'
    BY <1>1, <1>7, UnrefKeeps
  <1>8. ASSUME NEW b \in Bo, Map(t, b) PROVE SurfInv(x)'
    BY <1>1, <1>8, MapKeeps
  <1>9. ASSUME NEW b \in Bo, MapLock(t, b) PROVE SurfInv(x)'
    BY <1>1, <1>9, MapLockKeeps
  <1>10. ASSUME NEW b \in Bo, Unmap(t, b) PROVE SurfInv(x)'
    BY <1>1, <1>10, UnmapKeeps
  <1>11. CASE BackendLock(t)
    BY <1>1, <1>11, BackendLockKeeps
  <1>12. CASE MapLocked(t)
    BY <1>1, <1>12, MapLockedKeeps
  <1>13. ASSUME NEW b \in Bo, NEW c \in Bo, Swap(t, b, c) PROVE SurfInv(x)'
    BY <1>1, <1>13, SwapKeeps
  <1> QED BY <1>1, <1>2, <1>3, <1>4, <1>5, <1>6, <1>7, <1>8, <1>9, <1>10, <1>11, <1>12, <1>13
          DEF BufMgrStep
-----------------------------------------------------------------------------
\* Another reference to a surface.
LEMMA SurfClients ==
    ASSUME NEW ini, NEW R, NEW mp, NEW pp, NEW ag, NEW sf, NEW sr, NEW sm, NEW mg,
           Clients(ini, R, mp, pp, ag, sf, sr, sm, mg), NEW t \in Thread,
           NEW s \in DOMAIN sf, NEW n \in Nat, sm[t][s] > 0 => n > 0,
           mg[t] # NotMapping => mg[t].surf # s,
           NEW sg \in SurfTable, SameBos(sf, sg), \A q \in DOMAIN sf : q # s => sg[q] = sf[q],
           sg[s].refcnt = sf[s].refcnt + n - sr[t][s], sg[s].refcnt > 0
    PROVE  Clients(ini, R, mp, pp, ag, sg, Put(sr, t, s, n), sm, mg)
  <1> DEFINE sq == Put(sr, t, s, n)
  <1>1. /\ sr \in Table(Surf) /\ sf \in SurfTable /\ MapState(mp, sf, sm, mg) /\ HeldOK(sf, sr)
        /\ UsersOf(Surf, sm, sr) /\ MappersOK(sr, mg) /\ CallersOK(ini, R, pp, ag, sf, mg)
        /\ Calls0(sf, mg)
    BY ClientsHave
  <1>2. s \in Surf
    BY <1>1, SurfFields
  <1>3. /\ sq \in Table(Surf) /\ sq[t][s] = n
        /\ \A u \in Thread, y \in Surf : <<u, y>> # <<t, s>> => sq[u][y] = sr[u][y]
    BY <1>1, <1>2, TableChanged, SMTT(30)
  <1>4. /\ RefsIn(sq, s) = RefsIn(sr, s) + n - sr[t][s]
        /\ \A y \in Surf : y # s => RefsIn(sq, y) = RefsIn(sr, y)
    BY <1>1, <1>2, RefsInChanged
  <1> HIDE DEF sq
  <1>5. MapState(mp, sg, sm, mg)
    BY <1>1, MapsSameBos
  <1>6. HeldOK(sg, sq)
    <2>1. ASSUME NEW q \in Surf
          PROVE  IF q \in DOMAIN sg
                 THEN sg[q].refcnt = RefsIn(sq, q) /\ sg[q].refcnt > 0 /\ sg[q].bos # <<>>
                 ELSE \A v \in Thread : sq[v][q] = 0
      <3>1. CASE q = s
        <4>1. sf[s].refcnt = RefsIn(sr, s) /\ sf[s].bos # <<>>
          BY <1>1, <1>2 DEF HeldOK
        <4>2. sg[s].refcnt = RefsIn(sq, s) /\ sg[s].bos # <<>> /\ s \in DOMAIN sg
          BY <1>4, <4>1 DEF SameBos
        <4> QED BY <3>1, <4>2
      <3>2. CASE q # s /\ q \in DOMAIN sf
        <4>1. sf[q].refcnt = RefsIn(sr, q) /\ sf[q].refcnt > 0 /\ sf[q].bos # <<>>
          BY <1>1, <3>2 DEF HeldOK
        <4> QED BY <1>4, <3>2, <4>1 DEF SameBos
      <3>3. CASE q # s /\ q \notin DOMAIN sf
        <4>1. \A v \in Thread : sr[v][q] = 0
          BY <1>1, <3>3 DEF HeldOK
        <4> QED BY <1>3, <3>3, <4>1 DEF SameBos
      <3> QED BY <3>1, <3>2, <3>3
    <2> QED BY <2>1 DEF HeldOK
  <1>7. UsersOf(Surf, sm, sq)
    <2>1. ASSUME NEW u \in Thread, NEW z \in Surf, sm[u][z] > 0 PROVE sq[u][z] > 0
      <3>1. CASE u = t /\ z = s
        BY <1>3, <2>1, <3>1
      <3>2. CASE ~(u = t /\ z = s)
        BY <1>1, <1>3, <2>1, <3>2 DEF UsersOf
      <3> QED BY <3>1, <3>2
    <2> QED BY <2>1 DEF UsersOf
  <1>8. MappersOK(sq, mg)
    <2>1. ASSUME NEW u \in Thread, mg[u] # NotMapping PROVE sq[u][mg[u].surf] > 0
      <3>1. sr[u][mg[u].surf] > 0
        BY <1>1, <2>1 DEF MappersOK
      <3>2. mg[u].surf \in Surf
        BY <1>1, <2>1, SurfFields DEF Calls0, GoodCall
      <3> QED BY <1>3, <2>1, <3>1, <3>2
    <2> QED BY <2>1 DEF MappersOK
  <1>9. CallersOK(ini, R, pp, ag, sg, mg)
    <2>1. \A u \in Thread : mg[u] # NotMapping => sg[mg[u].surf].bos = sf[mg[u].surf].bos
      BY <1>1 DEF SameBos, Calls0, GoodCall
    <2> QED BY <1>1, <2>1 DEF CallersOK
  <1>10. Clients(ini, R, mp, pp, ag, sg, sq, sm, mg)
    BY <1>3, <1>5, <1>6, <1>7, <1>8, <1>9 DEF Clients
  <1> QED BY <1>10 DEF sq

\* What a thread holds is there.
LEMMA HeldLive ==
    ASSUME NEW x \in Counts, SurfInv(x), NEW s \in Surf, NEW t \in Thread, srefs[t][s] > 0
    PROVE  /\ s \in DOMAIN surfs /\ surfs[s].bos # <<>> /\ surfs[s].bos \in Seq(Bo)
           /\ surfs[s].refcnt = RefsIn(srefs, s) /\ surfs[s].refcnt > 0
           /\ surfs[s].refcnt \in Nat /\ srefs[t][s] \in Nat /\ srefs[t][s] <= surfs[s].refcnt
  <1>1. /\ HeldOK(surfs, srefs) /\ srefs \in Table(Surf) /\ surfs \in SurfTable
    BY InvHas, ClientsHave
  <1>2. srefs[t][s] \in Nat /\ srefs[t][s] <= RefsIn(srefs, s)
    BY <1>1, RefsInNat
  <1>3. s \in DOMAIN surfs
    <2>1. srefs[t][s] # 0
      BY <1>2
    <2> QED BY <1>1, <2>1 DEF HeldOK
  <1>4. surfs[s].refcnt = RefsIn(srefs, s) /\ surfs[s].refcnt > 0 /\ surfs[s].bos # <<>>
    BY <1>1, <1>3 DEF HeldOK
  <1>5. surfs[s].bos \in Seq(Bo) /\ surfs[s].refcnt \in Nat
    BY <1>1, <1>3, SurfFields
  <1> QED BY <1>2, <1>3, <1>4, <1>5

\* A thread in no call has another number of references to a surface.
LEMMA SurfStep ==
    ASSUME NEW x \in Counts, SurfInv(x), NEW t \in Thread, Ready(t), NEW s \in DOMAIN surfs,
           NEW n \in Nat, smaps[t][s] > 0 => n > 0,
           NEW j \in Nat, j > 0, j = surfs[s].refcnt + n - srefs[t][s],
           surfs' = Recount(surfs, s, j), srefs' = Put(srefs, t, s, n),
           UNCHANGED <<bufmgrVars, surfMgr, smaps, mapping>>
    PROVE  SurfInv(x)'
  <1>1. /\ Clients(inits, refs, maps, pc, arg, surfs, srefs, smaps, mapping)
        /\ surfMgr \in BOOLEAN /\ RefCountOK(m.ref_count, inits, surfs, surfMgr)
        /\ MgrOK(x, m, refs, maps, pc, arg, surfs, smaps, mapping)
        /\ MapState(maps, surfs, smaps, mapping)
    BY InvHas
  <1>2. surfs \in SurfTable
    BY <1>1, ClientsHave
  <1>3. /\ surfs' \in SurfTable /\ SameBos(surfs, surfs') /\ surfs'[s].refcnt = j
        /\ \A q \in DOMAIN surfs : q # s => surfs'[q] = surfs[q]
    BY <1>2, SurfCounted
  <1>4. mapping[t] # NotMapping => mapping[t].surf # s
    BY DEF Ready
  <1>5. Clients(inits, refs, maps, pc, arg, surfs', Put(srefs, t, s, n), smaps, mapping)
    BY <1>1, <1>3, <1>4, SurfClients
  <1>6. /\ WantOf(x, refs, surfs') = WantOf(x, refs, surfs)
        /\ MapsOf(maps, surfs', smaps, mapping) = MapsOf(maps, surfs, smaps, mapping)
        /\ PointersOf(m.env, surfs') = PointersOf(m.env, surfs)
    BY <1>1, <1>3, WantSame, MapsSameBos, PointersSame
  <1>7. MgrOK(x, m, refs, maps, pc, arg, surfs', smaps, mapping)
    BY <1>1, <1>6 DEF MgrOK
  <1>8. RefCountOK(m.ref_count, inits, surfs', surfMgr)
    BY <1>1, <1>3 DEF RefCountOK, SameBos
  <1>9. UNCHANGED <<m, inits, refs, maps, pc, arg, surfMgr, smaps, mapping>>
    BY DEF bufmgrVars
  <1>10. Whole(x, m', inits', refs', maps', pc', arg', surfs', surfMgr', srefs', smaps', mapping')
    BY <1>1, <1>5, <1>7, <1>8, <1>9 DEF Whole
  <1> QED BY <1>10 DEF SurfInv

\* tbm_surface_internal_ref
LEMMA SurfRefKeeps ==
    ASSUME NEW x \in Counts, SurfInv(x), NEW t \in Thread, NEW s \in Surf, SurfRef(t, s)
    PROVE  SurfInv(x)'
  <1> DEFINE n == srefs[t][s] + 1
             j == surfs[s].refcnt + 1
  <1>1. PICK u \in Thread : srefs[u][s] > 0
    BY DEF SurfRef
  <1>2. s \in DOMAIN surfs /\ surfs[s].refcnt \in Nat
    BY <1>1, HeldLive
  <1>3. srefs \in Table(Surf)
    BY InvHas, ClientsHave
  <1>4. srefs[t][s] \in Nat
    BY <1>3 DEF Table
  <1>5. n \in Nat /\ n > 0 /\ j \in Nat /\ j > 0 /\ j = surfs[s].refcnt + n - srefs[t][s]
    BY <1>2, <1>4
  <1>6. /\ Ready(t) /\ surfs' = Recount(surfs, s, j)
        /\ srefs' = Put(srefs, t, s, n) /\ UNCHANGED <<bufmgrVars, surfMgr, smaps, mapping>>
    BY DEF SurfRef, Put, Recount
  <1> HIDE DEF n, j
  <1> QED BY <1>2, <1>5, <1>6, SurfStep

\* tbm_surface_internal_unref of a surface that others hold.
LEMMA SurfUnrefKeeps ==
    ASSUME NEW x \in Counts, SurfInv(x), NEW t \in Thread, NEW s \in Surf, SurfUnref(t, s),
           surfs[s].refcnt > 1
    PROVE  SurfInv(x)'
  <1> DEFINE n == srefs[t][s] - 1
             j == surfs[s].refcnt - 1
  <1>1. /\ Ready(t) /\ srefs[t][s] > 0 /\ (smaps[t][s] = 0 \/ srefs[t][s] > 1)
        /\ surfs' = Recount(surfs, s, j)
        /\ srefs' = Put(srefs, t, s, n) /\ UNCHANGED <<bufmgrVars, surfMgr, smaps, mapping>>
    BY DEF SurfUnref, SurfHolds, Put, Recount
  <1>2. s \in DOMAIN surfs /\ surfs[s].refcnt \in Nat /\ srefs[t][s] \in Nat
    BY <1>1, HeldLive
  <1>3. n \in Nat /\ j \in Nat /\ j > 0 /\ j = surfs[s].refcnt + n - srefs[t][s]
    BY <1>1, <1>2
  <1>4. smaps[t][s] > 0 => n > 0
    BY <1>1, <1>2
  <1> HIDE DEF n, j
  <1> QED BY <1>1, <1>2, <1>3, <1>4, SurfStep

\* The one thread that holds a surface, which it has not mapped, gives it up.
LEMMA GoneClients ==
    ASSUME NEW ini, NEW R, NEW mp, NEW pp, NEW ag, NEW sf, NEW sr, NEW sm, NEW mg,
           Clients(ini, R, mp, pp, ag, sf, sr, sm, mg), NEW t \in Thread,
           NEW s \in DOMAIN sf, sf[s].refcnt = sr[t][s], sm[t][s] = 0, mg[t] = NotMapping
    PROVE  /\ Clients(ini, R, mp, pp, ag, Unlink(sf, s), Put(sr, t, s, 0), sm, mg)
           /\ MapsOf(mp, Unlink(sf, s), sm, mg) = MapsOf(mp, sf, sm, mg)
  <1> DEFINE sq == Put(sr, t, s, 0)
             sg == Unlink(sf, s)
  <1>1. /\ sr \in Table(Surf) /\ sf \in SurfTable /\ MapState(mp, sf, sm, mg) /\ HeldOK(sf, sr)
        /\ UsersOf(Surf, sm, sr) /\ MappersOK(sr, mg) /\ CallersOK(ini, R, pp, ag, sf, mg)
        /\ Calls0(sf, mg) /\ sm \in Table(Surf)
    BY ClientsHave
  <1>2. s \in Surf
    BY <1>1, SurfFields
  <1>3. \A u \in Thread : u # t => sr[u][s] = 0
    <2>1. RefsIn(sr, s) = sr[t][s]
      BY <1>1, <1>2 DEF HeldOK
    <2>2. ASSUME NEW u \in Thread, u # t PROVE sr[u][s] = 0
      <3>1. sr[t][s] + sr[u][s] <= RefsIn(sr, s)
        BY <1>1, <1>2, <2>2, TwoHold
      <3>2. sr[t][s] \in Nat /\ sr[u][s] \in Nat
        BY <1>1, <1>2 DEF Table
      <3> QED BY <2>1, <3>1, <3>2
    <2> QED BY <2>2
  <1>4. \A u \in Thread : sm[u][s] = 0 /\ (mg[u] # NotMapping => mg[u].surf # s)
    <2>1. ASSUME NEW u \in Thread, u # t PROVE sm[u][s] = 0 /\ (mg[u] # NotMapping => mg[u].surf # s)
      <3>1. ~(sr[u][s] > 0)
        BY <1>3, <2>1
      <3>2. ~(sm[u][s] > 0) /\ sm[u][s] \in Nat
        BY <1>1, <1>2, <3>1 DEF UsersOf, Table
      <3>3. mg[u] # NotMapping => mg[u].surf # s
        BY <1>1, <3>1 DEF MappersOK
      <3> QED BY <3>2, <3>3
    <2> QED BY <2>1
  <1>5. /\ MapState(mp, sg, sm, mg) /\ MapsOf(mp, sg, sm, mg) = MapsOf(mp, sf, sm, mg)
    BY <1>1, <1>4, MapsUnlinked
  <1>6. /\ sg \in SurfTable /\ DOMAIN sg = DOMAIN sf \ {s} /\ \A q \in DOMAIN sg : sg[q] = sf[q]
    BY <1>1, SurfUnlinked
  <1>7. /\ sq \in Table(Surf) /\ sq[t][s] = 0
        /\ \A u \in Thread, y \in Surf : <<u, y>> # <<t, s>> => sq[u][y] = sr[u][y]
    <2>1. 0 \in Nat
      OBVIOUS
    <2> QED BY <1>1, <1>2, <2>1, TableChanged
  <1>8. \A y \in Surf : y # s => RefsIn(sq, y) = RefsIn(sr, y)
    <2>1. 0 \in Nat
      OBVIOUS
    <2> QED BY <1>1, <1>2, <2>1, RefsInChanged
  <1> HIDE DEF sq, sg
  <1>9. HeldOK(sg, sq)
    <2>1. ASSUME NEW q \in Surf
          PROVE  IF q \in DOMAIN sg
                 THEN sg[q].refcnt = RefsIn(sq, q) /\ sg[q].refcnt > 0 /\ sg[q].bos # <<>>
                 ELSE \A v \in Thread : sq[v][q] = 0
      <3>1. CASE q = s
        <4>1. \A v \in Thread : sq[v][s] = 0
          BY <1>2, <1>3, <1>7
        <4> QED BY <1>6, <3>1, <4>1
      <3>2. CASE q # s /\ q \in DOMAIN sf
        <4>1. sf[q].refcnt = RefsIn(sr, q) /\ sf[q].refcnt > 0 /\ sf[q].bos # <<>>
          BY <1>1, <3>2 DEF HeldOK
        <4> QED BY <1>6, <1>8, <3>2, <4>1
      <3>3. CASE q # s /\ q \notin DOMAIN sf
        <4>1. \A v \in Thread : sr[v][q] = 0
          BY <1>1, <3>3 DEF HeldOK
        <4> QED BY <1>6, <1>7, <3>3, <4>1
      <3> QED BY <3>1, <3>2, <3>3
    <2> QED BY <2>1 DEF HeldOK
  <1>10. UsersOf(Surf, sm, sq)
    <2>1. ASSUME NEW u \in Thread, NEW z \in Surf, sm[u][z] > 0 PROVE sq[u][z] > 0
      <3>1. z # s
        BY <1>4, <2>1
      <3>2. sr[u][z] > 0
        BY <1>1, <2>1 DEF UsersOf
      <3> QED BY <1>7, <3>1, <3>2
    <2> QED BY <2>1 DEF UsersOf
  <1>11. MappersOK(sq, mg)
    <2>1. ASSUME NEW u \in Thread, mg[u] # NotMapping PROVE sq[u][mg[u].surf] > 0
      <3>1. sr[u][mg[u].surf] > 0 /\ mg[u].surf # s
        BY <1>1, <1>4, <2>1 DEF MappersOK
      <3>2. mg[u].surf \in Surf
        BY <1>1, <2>1, SurfFields DEF Calls0, GoodCall
      <3> QED BY <1>7, <3>1, <3>2
    <2> QED BY <2>1 DEF MappersOK
  <1>12. CallersOK(ini, R, pp, ag, sg, mg)
    <2>1. \A u \in Thread : mg[u] # NotMapping => sg[mg[u].surf] = sf[mg[u].surf]
      BY <1>1, <1>4, <1>6 DEF Calls0, GoodCall
    <2> QED BY <1>1, <2>1 DEF CallersOK
  <1>13. Clients(ini, R, mp, pp, ag, sg, sq, sm, mg)
    BY <1>5, <1>7, <1>9, <1>10, <1>11, <1>12 DEF Clients
  <1> QED BY <1>5, <1>13 DEF sq, sg

\* The manager lets go of the bos of a surface that nobody holds any more.
LEMMA GoneMeets ==
    ASSUME NEW x \in Counts, NEW mgr, NEW ini, NEW R, NEW mp, NEW pp, NEW ag, NEW sf,
           NEW sm, NEW mg, R \in Table(Bo), sf \in SurfTable, FlyingOf(pp, ag) \in Counts,
           MapState(mp, sf, sm, mg),
           Meets(mgr, WantOf(x, R, sf), MapsOf(mp, sf, sm, mg), FlyingOf(pp, ag),
                 PointersOf(mgr.env, sf)),
           NEW s \in DOMAIN sf, NEW sq,
           Clients(ini, R, mp, pp, ag, Unlink(sf, s), sq, sm, mg),
           MapsOf(mp, Unlink(sf, s), sm, mg) = MapsOf(mp, sf, sm, mg)
    PROVE  /\ Meets(DropBos(mgr, sf[s].bos), WantOf(x, R, Unlink(sf, s)),
                    MapsOf(mp, sf, sm, mg), FlyingOf(pp, ag), PointersOf(mgr.env, Unlink(sf, s)))
           /\ Same(mgr, DropBos(mgr, sf[s].bos))
  <1> DEFINE bs == sf[s].bos
             sg == Unlink(sf, s)
             w == WantOf(x, R, sf)
             v == WantOf(x, R, sg)
             u == MapsOf(mp, sf, sm, mg)
             k == FlyingOf(pp, ag)
             P == PointersOf(mgr.env, sf)
             Q == PointersOf(mgr.env, sg)
  <1>1. bs \in Seq(Bo) /\ Len(bs) \in Nat
    BY SurfFields
  <1>2. w \in Counts /\ u \in Counts /\ \A b \in Bo : Times(b, bs) \in Nat /\ Times(b, bs) + x[b] <= w[b]
    BY WantCounts, MapsIn
  <1>3. v = LessRefs(w, bs, Len(bs))
    BY WantUnlinked
  <1>4. \A b \in Bo : v[b] = 0 => u[b] = 0 /\ k[b] = 0
    <2>1. ASSUME NEW b \in Bo, v[b] = 0 PROVE MapsOf(mp, sg, sm, mg)[b] = 0 /\ k[b] = 0
      BY <2>1, Unused
    <2>2. MapsOf(mp, sg, sm, mg) = u
      OBVIOUS
    <2> HIDE DEF u, v, k, sg
    <2> QED BY <2>1, <2>2
  <1>5. \A c \in Bo, q \in Surf : <<c, q>> \in P /\ Times(c, bs) = 0 => <<c, q>> \in Q
    <2>1. ASSUME NEW c \in Bo, NEW q \in Surf, <<c, q>> \in P, Times(c, bs) = 0 PROVE <<c, q>> \in Q
      BY <2>1, PointersUnlinked
    <2> QED BY <2>1
  <1>6. Meets(mgr, w, u, k, P) /\ k \in Counts
    OBVIOUS
  <1> HIDE DEF bs, sg, w, v, u, k, P, Q
  <1>7. ASSUME NEW b \in Bo
        PROVE  /\ OfFirst(b, bs, Len(bs)) = Times(b, bs) /\ v[b] = w[b] - Times(b, bs)
               /\ w[b] \in Nat /\ Times(b, bs) \in Nat /\ Times(b, bs) <= w[b]
    <2>1. Len(bs) \in 0 .. Len(bs)
      BY <1>1
    <2>2. OfFirst(b, bs, Len(bs)) = Times(b, bs)
      BY <1>1, <2>1, OfFirstTimes
    <2>3. v[b] = w[b] - OfFirst(b, bs, Len(bs))
      BY <1>3 DEF LessRefs
    <2>4. w[b] \in Nat /\ x[b] \in Nat
      BY <1>2 DEF Counts
    <2> QED BY <1>2, <2>2, <2>3, <2>4
  <1>8. Unrefable(mgr.env, w, k, bs)
    <2>1. ASSUME NEW b \in Bo
          PROVE  Times(b, bs) <= w[b] /\ (Times(b, bs) = w[b] => k[b] = 0)
      <3>1. Times(b, bs) = w[b] => v[b] = 0
        BY <1>7
      <3> QED BY <1>4, <1>7, <3>1
    <2> QED BY <2>1 DEF Unrefable
  <1>9. LeftMaps(w, u, bs, Len(bs)) = u
    <2>1. ASSUME NEW b \in Bo, w[b] = OfFirst(b, bs, Len(bs)) PROVE u[b] = 0
      <3>1. v[b] = 0
        BY <1>7, <2>1
      <3> QED BY <1>4, <3>1
    <2> QED BY <1>2, <2>1 DEF LeftMaps, Counts
  <1>10. /\ Meets(DropBos(mgr, bs), LessRefs(w, bs, Len(bs)), LeftMaps(w, u, bs, Len(bs)), k, Q)
         /\ Same(mgr, DropBos(mgr, bs))
    BY <1>1, <1>2, <1>5, <1>6, <1>8, DropBosMeets
  <1>11. Meets(DropBos(mgr, bs), v, u, k, Q)
    BY <1>3, <1>9, <1>10
  <1> QED BY <1>10, <1>11 DEF bs, sg, v, u, k, Q

\* The last reference to a surface: _tbm_surface_internal_destroy.
LEMMA SurfDestroyKeeps ==
    ASSUME NEW x \in Counts, SurfInv(x), NEW t \in Thread, NEW s \in Surf, SurfUnref(t, s),
           ~(surfs[s].refcnt > 1), (\A b \in Bo : x[b] = 0) \/ m'.ref_count > 0
    PROVE  SurfInv(x)'
  <1> DEFINE w == WantOf(x, refs, surfs)
             u == MapsOf(maps, surfs, smaps, mapping)
             k == FlyingOf(pc, arg)
             P == PointersOf(m.env, surfs)
             y == DropBos(m, surfs[s].bos)
             sg == Unlink(surfs, s)
  <1>1. /\ Clients(inits, refs, maps, pc, arg, surfs, srefs, smaps, mapping)
        /\ surfMgr \in BOOLEAN /\ RefCountOK(m.ref_count, inits, surfs, surfMgr)
        /\ Meets(m, w, u, k, P) /\ k \in Counts /\ MapState(maps, surfs, smaps, mapping)
        /\ LockOK(m, pc, arg) /\ m \in Mgr
    BY InvHas
  <1>2. /\ Ready(t) /\ srefs[t][s] > 0 /\ (smaps[t][s] = 0 \/ srefs[t][s] > 1)
        /\ srefs' = Put(srefs, t, s, srefs[t][s] - 1)
        /\ surfs' = sg /\ surfMgr' = (DOMAIN surfs # {s})
        /\ m' = IF DOMAIN surfs = {s} THEN MgrDeinit(y) ELSE y
        /\ IF m'.ref_count = 0 THEN refs' = Nobody /\ maps' = Nobody
                               ELSE refs' = refs /\ maps' = maps
        /\ UNCHANGED <<inits, pc, arg, smaps, mapping>>
    BY DEF SurfUnref, SurfHolds, Put, DestroySurface, Forget, LiveSurfs
  <1>3. s \in DOMAIN surfs /\ surfs[s].refcnt = srefs[t][s] /\ srefs[t][s] = 1
    <2>1. s \in DOMAIN surfs /\ surfs[s].refcnt \in Nat /\ srefs[t][s] \in Nat /\ srefs[t][s] <= surfs[s].refcnt
      BY <1>2, HeldLive
    <2> QED BY <1>2, <2>1
  <1>4. smaps[t][s] = 0 /\ mapping[t] = NotMapping /\ pc[t] = "idle" /\ srefs' = Put(srefs, t, s, 0)
    BY <1>2, <1>3 DEF Ready
  <1>5. /\ Clients(inits, refs, maps, pc, arg, sg, srefs', smaps, mapping)
        /\ MapsOf(maps, sg, smaps, mapping) = u
    BY <1>1, <1>3, <1>4, GoneClients
  <1>6. refs \in Table(Bo) /\ surfs \in SurfTable /\ inits \in [Thread -> Nat]
    BY <1>1, ClientsHave
  <1>7. /\ Meets(y, WantOf(x, refs, sg), u, k, PointersOf(m.env, sg)) /\ Same(m, y)
    BY <1>1, <1>3, <1>5, <1>6, GoneMeets
  <1>8. y.env = m.env /\ y.ref_count = m.ref_count
    BY <1>7 DEF Same
  <1>9. DOMAIN sg = DOMAIN surfs \ {s}
    BY <1>3, <1>6, SurfUnlinked
  <1>10. surfMgr /\ SumFunction(inits) \in Nat /\ m.ref_count = SumFunction(inits) + 1
    <2>1. surfMgr
      BY <1>1, <1>3 DEF RefCountOK
    <2>2. SumFunction(inits) \in Nat
      BY <1>6, ThreadsFinite, SumNat
    <2> QED BY <1>1, <2>1, <2>2 DEF RefCountOK
  <1>11. CASE DOMAIN surfs # {s}
    <2>1. m' = y /\ surfMgr' = TRUE /\ m'.ref_count = m.ref_count /\ m'.env = m.env
      BY <1>2, <1>8, <1>11
    <2>2. refs' = refs /\ maps' = maps
      BY <1>2, <1>10, <2>1
    <2>3. RefCountOK(m'.ref_count, inits, sg, TRUE)
      <3>1. DOMAIN sg # {}
        BY <1>3, <1>9, <1>11
      <3> QED BY <1>10, <2>1, <3>1 DEF RefCountOK
    <2>4. /\ Clients(inits', refs', maps', pc', arg', surfs', srefs', smaps', mapping')
          /\ surfMgr' \in BOOLEAN /\ RefCountOK(m'.ref_count, inits', surfs', surfMgr')
          /\ pc'[t] = "idle" /\ \A v \in Thread : v # t => pc'[v] = pc[v]
      BY <1>2, <1>4, <1>5, <2>1, <2>2, <2>3
    <2>5. Meets(m', WantOf(x, refs', surfs'), MapsOf(maps', surfs', smaps', mapping'),
                FlyingOf(pc', arg'), PointersOf(m.env, surfs'))
      BY <1>2, <1>5, <1>7, <2>1, <2>2
    <2> QED BY <2>1, <2>4, <2>5, IdleStep
  <1>12. CASE DOMAIN surfs = {s}
    <2>1. m' = MgrDeinit(y) /\ surfMgr' = FALSE
      BY <1>2, <1>12
    <2>2. RefCountOK(y.ref_count - 1, inits, sg, FALSE)
      <3>1. DOMAIN sg = {}
        BY <1>9, <1>12
      <3> QED BY <1>8, <1>10, <3>1 DEF RefCountOK
    <2>3. MgrOK(x, y, refs, maps, pc, arg, sg, smaps, mapping)
      <3>1. LockOK(y, pc, arg)
        BY <1>1, <1>4, <1>8, LockOKKept
      <3>2. PointersOf(y.env, sg) = PointersOf(m.env, sg)
        BY <1>8
      <3> QED BY <1>5, <1>7, <3>1, <3>2 DEF MgrOK
    <2>4. FALSE \in BOOLEAN
      OBVIOUS
    <2>5. IF MgrDeinit(y).ref_count = 0 THEN refs' = Nobody /\ maps' = Nobody
                                        ELSE refs' = refs /\ maps' = maps
      BY <1>2, <2>1
    <2>6. (\A b \in Bo : x[b] = 0) \/ MgrDeinit(y).ref_count > 0
      BY <2>1
    <2> HIDE DEF y, sg
    <2>7. Whole(x, MgrDeinit(y), inits, refs', maps', pc, arg, sg, FALSE, srefs', smaps, mapping)
      BY <1>5, <2>2, <2>3, <2>4, <2>5, <2>6, LetGo
    <2>8. Whole(x, m', inits', refs', maps', pc', arg', surfs', surfMgr', srefs', smaps', mapping')
      BY <1>2, <2>1, <2>7
    <2> QED BY <2>8 DEF SurfInv
  <1> QED BY <1>11, <1>12

\* The manager that a surface is created with.
LEMMA WithManagerMeets ==
    ASSUME NEW x \in Counts, SurfInv(x)
    PROVE  /\ Meets(WithManager, WantOf(x, refs, surfs), MapsOf(maps, surfs, smaps, mapping),
                    FlyingOf(pc, arg), PointersOf(m.env, surfs))
           /\ WithManager \in Mgr /\ WithManager.env = m.env /\ WithManager.bos = m.bos
           /\ SumFunction(inits) \in Nat /\ WithManager.ref_count = SumFunction(inits) + 1
  <1> DEFINE w == WantOf(x, refs, surfs)
             u == MapsOf(maps, surfs, smaps, mapping)
             k == FlyingOf(pc, arg)
             P == PointersOf(m.env, surfs)
  <1>1. /\ Meets(m, w, u, k, P) /\ m \in Mgr /\ surfMgr \in BOOLEAN
        /\ RefCountOK(m.ref_count, inits, surfs, surfMgr)
        /\ Clients(inits, refs, maps, pc, arg, surfs, srefs, smaps, mapping)
    BY InvHas
  <1>2. SumFunction(inits) \in Nat
    <2>1. inits \in [Thread -> Nat]
      BY <1>1, ClientsHave
    <2> QED BY <2>1, ThreadsFinite, SumNat
  <1> HIDE DEF w, u, k, P
  <1>3. CASE surfMgr
    <2>1. WithManager = m /\ m.ref_count = SumFunction(inits) + 1
      BY <1>1, <1>2, <1>3 DEF WithManager, RefCountOK
    <2> QED BY <1>1, <1>2, <2>1 DEF w, u, k, P
  <1>4. CASE ~surfMgr
    <2> DEFINE n == m.ref_count + 1
    <2>1. WithManager = [m EXCEPT !.ref_count = n] /\ n = SumFunction(inits) + 1 /\ n \in Nat
      <3>1. m.ref_count = SumFunction(inits) + 0
        BY <1>1, <1>4 DEF RefCountOK
      <3> QED BY <1>2, <1>4, <3>1 DEF WithManager, MgrInit
    <2> HIDE DEF n
    <2>2. /\ Meets(WithManager, w, u, k, P) /\ WithManager.ref_count = n
          /\ WithManager.env = m.env /\ WithManager.bos = m.bos
      BY <1>1, <2>1, RefCountMeets
    <2>3. WithManager \in Mgr
      BY <2>2 DEF Meets
    <2> QED BY <1>2, <2>1, <2>2, <2>3 DEF w, u, k, P
  <1> QED BY <1>1, <1>3, <1>4

\* The table with a new surface.
LEMMA LinkedSurf ==
    ASSUME NEW sf \in SurfTable, NEW s \in Surf, s \notin DOMAIN sf, NEW r \in SurfRec
    PROVE  /\ Link(sf, s, r) \in SurfTable
           /\ DOMAIN Link(sf, s, r) = DOMAIN sf \cup {s}
           /\ Link(sf, s, r)[s] = r
           /\ \A q \in DOMAIN sf : Link(sf, s, r)[q] = sf[q]
BY SurfLinked, ZenonT(30)

\* A new surface, with one reference.
NewSurf(bs) == [refcnt |-> 1, bos |-> bs]

\* A new surface is a record.
LEMMA NewSurfRec ==
    ASSUME NEW bs \in Seq(Bo)
    PROVE  NewSurf(bs) \in SurfRec /\ NewSurf(bs).bos = bs /\ NewSurf(bs).refcnt = 1
BY DEF NewSurf, SurfRec

\* The clients when one has made a surface.
LEMMA CameClients ==
    ASSUME NEW ini, NEW R, NEW mp, NEW pp, NEW ag, NEW sf, NEW sr, NEW sm, NEW mg,
           Clients(ini, R, mp, pp, ag, sf, sr, sm, mg), NEW t \in Thread,
           NEW s \in Surf, s \notin DOMAIN sf, NEW bs \in Seq(Bo), bs # <<>>
    PROVE  /\ Clients(ini, R, mp, pp, ag, Link(sf, s, NewSurf(bs)), Put(sr, t, s, 1), sm, mg)
           /\ MapsOf(mp, Link(sf, s, NewSurf(bs)), sm, mg) = MapsOf(mp, sf, sm, mg)
           /\ sr[t][s] = 0
  <1> DEFINE sq == Put(sr, t, s, 1)
             r == NewSurf(bs)
             sg == Link(sf, s, r)
  <1>1. /\ sr \in Table(Surf) /\ sf \in SurfTable /\ MapState(mp, sf, sm, mg) /\ HeldOK(sf, sr)
        /\ UsersOf(Surf, sm, sr) /\ MappersOK(sr, mg) /\ CallersOK(ini, R, pp, ag, sf, mg)
        /\ Calls0(sf, mg) /\ sm \in Table(Surf)
    BY ClientsHave
  <1>2. r \in SurfRec /\ r.bos = bs /\ r.refcnt = 1
    BY NewSurfRec
  <1>3. \A u \in Thread : sr[u][s] = 0
    BY <1>1 DEF HeldOK
  <1>4. \A u \in Thread : sm[u][s] = 0
    <2>1. ASSUME NEW u \in Thread PROVE sm[u][s] = 0
      <3>1. sm[u][s] \in Nat
        BY <1>1 DEF Table
      <3>2. ~(sm[u][s] > 0)
        BY <1>1, <1>3 DEF UsersOf
      <3> QED BY <3>1, <3>2
    <2> QED BY <2>1
  <1> HIDE DEF r
  <1>5. /\ MapState(mp, sg, sm, mg) /\ MapsOf(mp, sg, sm, mg) = MapsOf(mp, sf, sm, mg)
    BY <1>1, <1>2, <1>4, MapsLinked
  <1>6. /\ sg \in SurfTable /\ DOMAIN sg = DOMAIN sf \cup {s} /\ sg[s] = r
        /\ \A q \in DOMAIN sf : sg[q] = sf[q]
    <2>1. sf \in SurfTable /\ r \in SurfRec
      BY <1>1, <1>2
    <2> QED BY <2>1, LinkedSurf, ZenonT(30)
  <1>7. /\ sq \in Table(Surf) /\ sq[t][s] = 1
        /\ \A u \in Thread, y \in Surf : <<u, y>> # <<t, s>> => sq[u][y] = sr[u][y]
    <2>1. 1 \in Nat
      OBVIOUS
    <2> QED BY <1>1, <2>1, TableChanged
  <1>8. /\ RefsIn(sq, s) = RefsIn(sr, s) + 1 - sr[t][s]
        /\ \A y \in Surf : y # s => RefsIn(sq, y) = RefsIn(sr, y)
    <2>1. 1 \in Nat
      OBVIOUS
    <2> QED BY <1>1, <2>1, RefsInChanged
  <1>9. RefsIn(sr, s) = 0
    <2>1. ~\E u \in Thread : sr[u][s] > 0
      BY <1>3
    <2> QED BY <1>1, <2>1, RefsInSome
  <1> HIDE DEF sq, sg
  <1>10. HeldOK(sg, sq)
    <2>1. ASSUME NEW q \in Surf
          PROVE  IF q \in DOMAIN sg
                 THEN sg[q].refcnt = RefsIn(sq, q) /\ sg[q].refcnt > 0 /\ sg[q].bos # <<>>
                 ELSE \A v \in Thread : sq[v][q] = 0
      <3>1. CASE q = s
        <4>1. RefsIn(sq, s) = 1
          BY <1>3, <1>8, <1>9
        <4> QED BY <1>2, <1>6, <3>1, <4>1
      <3>2. CASE q # s /\ q \in DOMAIN sf
        <4>1. sf[q].refcnt = RefsIn(sr, q) /\ sf[q].refcnt > 0 /\ sf[q].bos # <<>>
          BY <1>1, <3>2 DEF HeldOK
        <4> QED BY <1>6, <1>8, <3>2, <4>1
      <3>3. CASE q # s /\ q \notin DOMAIN sf
        <4>1. \A v \in Thread : sr[v][q] = 0
          BY <1>1, <3>3 DEF HeldOK
        <4> QED BY <1>6, <1>7, <3>3, <4>1
      <3> QED BY <3>1, <3>2, <3>3
    <2> QED BY <2>1 DEF HeldOK
  <1>11. UsersOf(Surf, sm, sq)
    <2>1. ASSUME NEW u \in Thread, NEW z \in Surf, sm[u][z] > 0 PROVE sq[u][z] > 0
      <3>1. z # s
        BY <1>4, <2>1
      <3>2. sr[u][z] > 0
        BY <1>1, <2>1 DEF UsersOf
      <3> QED BY <1>7, <3>1, <3>2
    <2> QED BY <2>1 DEF UsersOf
  <1>12. \A u \in Thread : mg[u] # NotMapping =>
           mg[u].surf \in DOMAIN sf /\ mg[u].surf # s /\ mg[u].surf \in Surf
    BY <1>1, SurfFields DEF Calls0, GoodCall
  <1>13. MappersOK(sq, mg)
    BY <1>1, <1>7, <1>12 DEF MappersOK
  <1>14. CallersOK(ini, R, pp, ag, sg, mg)
    BY <1>1, <1>6, <1>12 DEF CallersOK
  <1>15. Clients(ini, R, mp, pp, ag, sg, sq, sm, mg)
    BY <1>5, <1>7, <1>10, <1>11, <1>13, <1>14 DEF Clients
  <1> QED BY <1>3, <1>5, <1>15 DEF sq, sg, r

\* A surface is created.
LEMMA CreateStep ==
    ASSUME NEW x \in Counts, SurfInv(x), NEW t \in Thread, NEW s \in Surf,
           NEW bs \in Seq(Bo), bs # <<>>, MayCreate(t, s), NewSurface(t, s, bs),
           Same(WithManager, m'),
           Meets(m', MoreRefs(WantOf(x, refs, surfs), bs, Len(bs)),
                 MapsOf(maps, surfs, smaps, mapping), FlyingOf(pc, arg),
                 PointersOf(m.env, Link(surfs, s, NewSurf(bs))))
    PROVE  SurfInv(x)'
  <1> DEFINE sg == Link(surfs, s, NewSurf(bs))
  <1>1. /\ Clients(inits, refs, maps, pc, arg, surfs, srefs, smaps, mapping)
        /\ refs \in Table(Bo) /\ surfs \in SurfTable
    BY InvHas, ClientsHave
  <1>2. /\ pc[t] = "idle" /\ s \notin DOMAIN surfs
        /\ surfs' = sg /\ surfMgr' = TRUE /\ srefs' = [srefs EXCEPT ![t][s] = @ + 1]
        /\ UNCHANGED <<smaps, mapping, inits, refs, maps, pc, arg>>
    BY DEF MayCreate, NewSurface, Ready, LiveSurfs, clients, NewSurf
  <1>3. /\ Clients(inits, refs, maps, pc, arg, sg, Put(srefs, t, s, 1), smaps, mapping)
        /\ MapsOf(maps, sg, smaps, mapping) = MapsOf(maps, surfs, smaps, mapping)
        /\ srefs[t][s] = 0
    BY <1>1, <1>2, CameClients
  <1>4. srefs' = Put(srefs, t, s, 1)
    BY <1>2, <1>3 DEF Put
  <1>5. NewSurf(bs) \in SurfRec /\ NewSurf(bs).bos = bs
    BY NewSurfRec
  <1>6. WantOf(x, refs, sg) = MoreRefs(WantOf(x, refs, surfs), bs, Len(bs))
    BY <1>1, <1>2, <1>5, WantLinked
  <1>7. DOMAIN sg # {}
    <2>1. surfs \in SurfTable /\ NewSurf(bs) \in SurfRec /\ s \notin DOMAIN surfs
      BY <1>1, <1>2, <1>5
    <2>2. s \in DOMAIN sg
      BY <2>1, LinkedSurf, ZenonT(30)
    <2> QED BY <2>2
  <1> HIDE DEF sg
  <1>8. /\ m'.env = m.env /\ RefCountOK(m'.ref_count, inits, sg, TRUE)
    BY <1>7, WithManagerMeets DEF Same, RefCountOK
  <1>9. /\ Clients(inits', refs', maps', pc', arg', surfs', srefs', smaps', mapping')
        /\ surfMgr' \in BOOLEAN /\ RefCountOK(m'.ref_count, inits', surfs', surfMgr')
        /\ pc'[t] = "idle" /\ \A v \in Thread : v # t => pc'[v] = pc[v]
    BY <1>2, <1>3, <1>4, <1>8
  <1>10. Meets(m', WantOf(x, refs', surfs'), MapsOf(maps', surfs', smaps', mapping'),
               FlyingOf(pc', arg'), PointersOf(m.env, surfs'))
    BY <1>2, <1>3, <1>6 DEF sg
  <1> QED BY <1>8, <1>9, <1>10, IdleStep

\* The bos chosen for a surface.
LEMMA BosSeq ==
    ASSUME NEW n \in Nat, NEW bs \in BosOf(n)
    PROVE  bs \in Seq(Bo) /\ Len(bs) = n /\ (n > 0 => bs # <<>>)
  <1>1. bs \in Seq(Bo) /\ Len(bs) = n
    BY DEF BosOf
  <1> QED BY <1>1

\* What the new surface s may be pointed at from.
LEMMA CamePointers ==
    ASSUME NEW x \in Counts, SurfInv(x), NEW s \in Surf, s \notin DOMAIN surfs, NEW bs \in Seq(Bo)
    PROVE  /\ \A c \in Bo, q \in Surf : <<c, q>> \in PointersOf(m.env, surfs)
                => <<c, q>> \in PointersOf(m.env, Link(surfs, s, NewSurf(bs)))
           /\ \A i \in 1 .. Len(bs) : <<bs[i], s>> \in PointersOf(m.env, Link(surfs, s, NewSurf(bs)))
  <1>1. surfs \in SurfTable
    BY InvHas, ClientsHave
  <1>2. NewSurf(bs) \in SurfRec /\ NewSurf(bs).bos = bs
    BY NewSurfRec
  <1> DEFINE r == NewSurf(bs)
  <1> HIDE DEF r
  <1>3. /\ \A c \in Bo, q \in Surf : <<c, q>> \in PointersOf(m.env, surfs)
             => <<c, q>> \in PointersOf(m.env, Link(surfs, s, r))
        /\ \A i \in 1 .. Len(r.bos) : <<r.bos[i], s>> \in PointersOf(m.env, Link(surfs, s, r))
    <2>1. r \in SurfRec
      BY <1>2 DEF r
    <2> QED BY <1>1, <2>1, PointersLinked
  <1> QED BY <1>2, <1>3 DEF r

\* The bos of a new surface are made, with a reference each.
LEMMA AllocatedMeets ==
    ASSUME NEW x \in Counts, SurfInv(x), NEW s \in Surf, NEW n \in Nat, NEW bs \in BosOf(n),
           NEW ps \in PrivsOf(n), Fresh(bs, ps),
           NEW Q, \A c \in Bo, q \in Surf : <<c, q>> \in PointersOf(m.env, surfs) => <<c, q>> \in Q,
           \A i \in 1 .. Len(bs) : <<bs[i], s>> \in Q
    PROVE  /\ Meets(AllocAll(WithManager, s, bs, ps),
                    MoreRefs(WantOf(x, refs, surfs), bs, Len(bs)),
                    MapsOf(maps, surfs, smaps, mapping), FlyingOf(pc, arg), Q)
           /\ Same(WithManager, AllocAll(WithManager, s, bs, ps))
  <1> DEFINE w == WantOf(x, refs, surfs)
             u == MapsOf(maps, surfs, smaps, mapping)
             k == FlyingOf(pc, arg)
             P == PointersOf(m.env, surfs)
             mgr == WithManager
  <1>1. w \in Counts /\ u \in Counts /\ k \in Counts
    BY InvHas
  <1>2. Meets(mgr, w, u, k, P) /\ mgr.bos = m.bos
    BY WithManagerMeets
  <1>3. bs \in Seq(Bo) /\ ps \in [1 .. Len(bs) -> Priv]
    BY BosSeq DEF PrivsOf
  <1>4. /\ \A i, j \in 1 .. Len(bs) : bs[i] = bs[j] => i = j
        /\ \A i \in 1 .. Len(bs) : bs[i] \notin DOMAIN m.bos /\ ps[i] \notin PrivsInUse(m)
    BY DEF Fresh, Distinct, Live
  <1>5. \A i, j \in 1 .. Len(bs) : ps[i] = ps[j] => i = j
    <2>1. ps \in [1 .. n -> Priv] /\ Len(bs) = n
      BY BosSeq DEF PrivsOf
    <2>2. ps \in Seq(Priv) /\ Len(ps) = Len(bs)
      BY <2>1
    <2>3. Distinct(ps)
      BY DEF Fresh
    <2> QED BY <2>2, <2>3 DEF Distinct
  <1>6. PrivsInUse(mgr) = PrivsInUse(m)
    BY <1>2 DEF PrivsInUse
  <1> HIDE DEF w, u, k, P, mgr
  <1>7. \A i \in 1 .. Len(bs) : bs[i] \notin DOMAIN mgr.bos /\ ps[i] \notin PrivsInUse(mgr)
    BY <1>2, <1>4, <1>6
  <1>8. \A c \in Bo, q \in Surf : <<c, q>> \in P => <<c, q>> \in Q
    BY DEF P
  <1>9. /\ Meets(AllocAll(mgr, s, bs, ps), MoreRefs(w, bs, Len(bs)), u, k, Q)
        /\ Same(mgr, AllocAll(mgr, s, bs, ps))
    BY <1>1, <1>2, <1>3, <1>4, <1>5, <1>7, <1>8, AllocAllMeets
  <1> QED BY <1>9 DEF w, u, k, mgr

\* tbm_surface_internal_create_with_flags
LEMMA CreateWithFlagsKeeps ==
    ASSUME NEW x \in Counts, SurfInv(x), NEW t \in Thread, NEW s \in Surf, NEW n \in Nat, n > 0,
           NEW bs \in BosOf(n), NEW ps \in PrivsOf(n), CreateWithFlags(t, s, bs, ps)
    PROVE  SurfInv(x)'
  <1> DEFINE Q == PointersOf(m.env, Link(surfs, s, NewSurf(bs)))
  <1>1. /\ MayCreate(t, s) /\ Fresh(bs, ps) /\ NewSurface(t, s, bs)
        /\ m' = AllocAll(WithManager, s, bs, ps) /\ s \notin DOMAIN surfs
    BY DEF CreateWithFlags, MayCreate, LiveSurfs
  <1>2. bs \in Seq(Bo) /\ bs # <<>>
    BY BosSeq
  <1>3. /\ \A c \in Bo, q \in Surf : <<c, q>> \in PointersOf(m.env, surfs) => <<c, q>> \in Q
        /\ \A i \in 1 .. Len(bs) : <<bs[i], s>> \in Q
    BY <1>1, <1>2, CamePointers
  <1> HIDE DEF Q
  <1>4. /\ Meets(m', MoreRefs(WantOf(x, refs, surfs), bs, Len(bs)),
                    MapsOf(maps, surfs, smaps, mapping), FlyingOf(pc, arg), Q)
        /\ Same(WithManager, m')
    BY <1>1, <1>3, AllocatedMeets
  <1> QED BY <1>1, <1>2, <1>4, CreateStep DEF Q

\* The surface takes references to bos that its creator has.
LEMMA ReferencedMeets ==
    ASSUME NEW x \in Counts, SurfInv(x), NEW t \in Thread, NEW s \in Surf, NEW bs \in Seq(Bo),
           OwnBos(t, bs),
           NEW Q, \A c \in Bo, q \in Surf : <<c, q>> \in PointersOf(m.env, surfs) => <<c, q>> \in Q,
           \A i \in 1 .. Len(bs) : <<bs[i], s>> \in Q
    PROVE  /\ Meets(RefAll(WithManager, s, bs), MoreRefs(WantOf(x, refs, surfs), bs, Len(bs)),
                    MapsOf(maps, surfs, smaps, mapping), FlyingOf(pc, arg), Q)
           /\ Same(WithManager, RefAll(WithManager, s, bs))
  <1> DEFINE w == WantOf(x, refs, surfs)
             u == MapsOf(maps, surfs, smaps, mapping)
             k == FlyingOf(pc, arg)
             P == PointersOf(m.env, surfs)
             mgr == WithManager
  <1>1. /\ w \in Counts /\ u \in Counts /\ k \in Counts
        /\ Clients(inits, refs, maps, pc, arg, surfs, srefs, smaps, mapping)
        /\ MgrOK(x, m, refs, maps, pc, arg, surfs, smaps, mapping)
    BY InvHas
  <1>2. Meets(mgr, w, u, k, P) /\ mgr.bos = m.bos
    BY WithManagerMeets
  <1>3. \A i \in 1 .. Len(bs) : bs[i] \in DOMAIN m.bos
    <2>1. ASSUME NEW i \in 1 .. Len(bs) PROVE bs[i] \in DOMAIN m.bos
      <3>1. bs[i] \in Bo /\ refs[t][bs[i]] > 0
        BY DEF OwnBos
      <3> QED BY <1>1, <3>1, LiveBos
    <2> QED BY <2>1
  <1> HIDE DEF w, u, k, P, mgr
  <1>4. bs \in Seq(DOMAIN mgr.bos)
    BY <1>2, <1>3
  <1>5. \A c \in Bo, q \in Surf : <<c, q>> \in P => <<c, q>> \in Q
    BY DEF P
  <1>6. /\ Meets(RefAll(mgr, s, bs), MoreRefs(w, bs, Len(bs)), u, k, Q)
        /\ Same(mgr, RefAll(mgr, s, bs))
    BY <1>1, <1>2, <1>4, <1>5, RefAllMeets
  <1> QED BY <1>6 DEF w, u, k, mgr

\* tbm_surface_internal_create_with_bos
LEMMA CreateWithBosKeeps ==
    ASSUME NEW x \in Counts, SurfInv(x), NEW t \in Thread, NEW s \in Surf, NEW n \in Nat, n > 0,
           NEW bs \in BosOf(n), CreateWithBos(t, s, bs)
    PROVE  SurfInv(x)'
  <1> DEFINE Q == PointersOf(m.env, Link(surfs, s, NewSurf(bs)))
  <1>1. /\ MayCreate(t, s) /\ OwnBos(t, bs) /\ NewSurface(t, s, bs)
        /\ m' = RefAll(WithManager, s, bs) /\ s \notin DOMAIN surfs
    BY DEF CreateWithBos, MayCreate, LiveSurfs
  <1>2. bs \in Seq(Bo) /\ bs # <<>>
    BY BosSeq
  <1>3. /\ \A c \in Bo, q \in Surf : <<c, q>> \in PointersOf(m.env, surfs) => <<c, q>> \in Q
        /\ \A i \in 1 .. Len(bs) : <<bs[i], s>> \in Q
    BY <1>1, <1>2, CamePointers
  <1> HIDE DEF Q
  <1>4. /\ Meets(m', MoreRefs(WantOf(x, refs, surfs), bs, Len(bs)),
                    MapsOf(maps, surfs, smaps, mapping), FlyingOf(pc, arg), Q)
        /\ Same(WithManager, m')
    BY <1>1, <1>2, <1>3, ReferencedMeets
  <1> QED BY <1>1, <1>2, <1>4, CreateStep DEF Q

\* A creation fails, and what it did is undone.
LEMMA UndoneStep ==
    ASSUME NEW x \in Counts, SurfInv(x), NEW t \in Thread, pc[t] = "idle",
           NEW y, Same(WithManager, y),
           Meets(y, WantOf(x, refs, surfs), MapsOf(maps, surfs, smaps, mapping),
                 FlyingOf(pc, arg), PointersOf(m.env, surfs)),
           m' = Undo(y), Forget(m'), UNCHANGED <<inits, pc, arg, surfVars>>,
           (\A b \in Bo : x[b] = 0) \/ m'.ref_count > 0
    PROVE  SurfInv(x)'
  <1> DEFINE w == WantOf(x, refs, surfs)
             u == MapsOf(maps, surfs, smaps, mapping)
             k == FlyingOf(pc, arg)
             P == PointersOf(m.env, surfs)
  <1>1. /\ Clients(inits, refs, maps, pc, arg, surfs, srefs, smaps, mapping)
        /\ surfMgr \in BOOLEAN /\ RefCountOK(m.ref_count, inits, surfs, surfMgr)
        /\ LockOK(m, pc, arg) /\ Meets(y, w, u, k, P)
    BY InvHas
  <1>2. /\ y.env = m.env /\ SumFunction(inits) \in Nat /\ y.ref_count = SumFunction(inits) + 1
    BY WithManagerMeets DEF Same
  <1>3. /\ UNCHANGED <<inits, pc, arg, surfs, surfMgr, srefs, smaps, mapping>>
        /\ IF m'.ref_count = 0 THEN refs' = Nobody /\ maps' = Nobody
                               ELSE refs' = refs /\ maps' = maps
    BY DEF surfVars, Forget
  <1>4. CASE surfMgr
    <2>1. m' = y
      BY <1>4 DEF Undo
    <2>2. m'.ref_count # 0 /\ m'.env = m.env
      BY <1>2, <2>1
    <2>3. refs' = refs /\ maps' = maps
      BY <1>3, <2>2
    <2>4. RefCountOK(m'.ref_count, inits, surfs, surfMgr)
      BY <1>1, <1>2, <1>4, <2>1 DEF RefCountOK
    <2>5. /\ Clients(inits', refs', maps', pc', arg', surfs', srefs', smaps', mapping')
          /\ surfMgr' \in BOOLEAN /\ RefCountOK(m'.ref_count, inits', surfs', surfMgr')
          /\ pc'[t] = "idle" /\ \A v \in Thread : v # t => pc'[v] = pc[v]
      BY <1>1, <1>3, <2>3, <2>4
    <2>6. Meets(m', WantOf(x, refs', surfs'), MapsOf(maps', surfs', smaps', mapping'),
                FlyingOf(pc', arg'), PointersOf(m.env, surfs'))
      BY <1>1, <1>3, <2>1, <2>3
    <2> QED BY <2>2, <2>5, <2>6, IdleStep
  <1>5. CASE ~surfMgr
    <2>1. m' = MgrDeinit(y)
      BY <1>5 DEF Undo
    <2>2. RefCountOK(y.ref_count - 1, inits, surfs, surfMgr)
      BY <1>1, <1>2, <1>5 DEF RefCountOK
    <2>3. MgrOK(x, y, refs, maps, pc, arg, surfs, smaps, mapping)
      <3>1. LockOK(y, pc, arg)
        BY <1>1, <1>2, LockOKKept
      <3>2. PointersOf(y.env, surfs) = P
        BY <1>2
      <3> QED BY <1>1, <3>1, <3>2 DEF MgrOK
    <2>4. IF MgrDeinit(y).ref_count = 0 THEN refs' = Nobody /\ maps' = Nobody
                                        ELSE refs' = refs /\ maps' = maps
      BY <1>3, <2>1
    <2>5. (\A b \in Bo : x[b] = 0) \/ MgrDeinit(y).ref_count > 0
      BY <2>1
    <2>6. Whole(x, MgrDeinit(y), inits, refs', maps', pc, arg, surfs, surfMgr, srefs, smaps, mapping)
      BY <1>1, <2>2, <2>3, <2>4, <2>5, LetGo
    <2>7. Whole(x, m', inits', refs', maps', pc', arg', surfs', surfMgr', srefs', smaps', mapping')
      BY <1>3, <2>1, <2>6
    <2> QED BY <2>7 DEF SurfInv
  <1> QED BY <1>4, <1>5

\* A question for formats is answered, and the manager stays.
LEMMA QueryFormatsKeeps ==
    ASSUME NEW x \in Counts, SurfInv(x), NEW t \in Thread, QueryFormats(t)
    PROVE  SurfInv(x)'
  <1>1. /\ pc[t] = "idle" /\ m' = WithManager /\ surfMgr' = TRUE
        /\ UNCHANGED <<inits, refs, maps, pc, arg, surfs, srefs, smaps, mapping>>
    BY DEF QueryFormats, Ready, clients
  <1>2. Clients(inits, refs, maps, pc, arg, surfs, srefs, smaps, mapping)
    BY InvHas
  <1>3. /\ Meets(m', WantOf(x, refs, surfs), MapsOf(maps, surfs, smaps, mapping),
                 FlyingOf(pc, arg), PointersOf(m.env, surfs))
        /\ m'.env = m.env /\ m'.ref_count = SumFunction(inits) + 1
    BY <1>1, WithManagerMeets
  <1>4. RefCountOK(m'.ref_count, inits, surfs, TRUE)
    BY <1>3 DEF RefCountOK
  <1>5. /\ Clients(inits', refs', maps', pc', arg', surfs', srefs', smaps', mapping')
        /\ surfMgr' \in BOOLEAN /\ RefCountOK(m'.ref_count, inits', surfs', surfMgr')
        /\ pc'[t] = "idle" /\ \A v \in Thread : v # t => pc'[v] = pc[v]
    BY <1>1, <1>2, <1>4
  <1>6. Meets(m', WantOf(x, refs', surfs'), MapsOf(maps', surfs', smaps', mapping'),
              FlyingOf(pc', arg'), PointersOf(m.env, surfs'))
    BY <1>1, <1>3
  <1> QED BY <1>3, <1>5, <1>6, IdleStep

\* It is not, and the manager goes if it came for the question.
LEMMA QueryFormatsFailsKeeps ==
    ASSUME NEW x \in Counts, SurfInv(x), NEW t \in Thread, QueryFormatsFails(t),
           (\A b \in Bo : x[b] = 0) \/ m'.ref_count > 0
    PROVE  SurfInv(x)'
  <1>1. /\ pc[t] = "idle" /\ m' = Undo(WithManager) /\ Forget(m')
        /\ UNCHANGED <<inits, pc, arg, surfVars>>
    BY DEF QueryFormatsFails, Ready
  <1>2. /\ Same(WithManager, WithManager)
        /\ Meets(WithManager, WantOf(x, refs, surfs), MapsOf(maps, surfs, smaps, mapping),
                 FlyingOf(pc, arg), PointersOf(m.env, surfs))
    BY WithManagerMeets DEF Same
  <1> QED BY <1>1, <1>2, UndoneStep

\* The references that a failed creation took are given back.
LEMMA GivenBack ==
    ASSUME NEW x \in Counts, SurfInv(x), NEW mgr, NEW bs \in Seq(Bo), NEW Q,
           Meets(mgr, MoreRefs(WantOf(x, refs, surfs), bs, Len(bs)),
                 MapsOf(maps, surfs, smaps, mapping), FlyingOf(pc, arg), Q),
           Same(WithManager, mgr)
    PROVE  /\ Meets(UnrefAll(mgr, bs), WantOf(x, refs, surfs),
                    MapsOf(maps, surfs, smaps, mapping), FlyingOf(pc, arg), Q)
           /\ Same(WithManager, UnrefAll(mgr, bs))
  <1> DEFINE w == WantOf(x, refs, surfs)
             u == MapsOf(maps, surfs, smaps, mapping)
             k == FlyingOf(pc, arg)
             P == PointersOf(m.env, surfs)
             v == MoreRefs(w, bs, Len(bs))
  <1>1. Meets(m, w, u, k, P) /\ w \in Counts /\ u \in Counts /\ k \in Counts
    BY InvHas
  <1>2. mgr.env = m.env
    BY WithManagerMeets DEF Same
  <1>3. Meets(mgr, v, u, k, Q)
    OBVIOUS
  <1> HIDE DEF w, u, k, P
  <1>4. /\ v \in Counts /\ Unrefable(m.env, v, k, bs)
        /\ LessRefs(v, bs, Len(bs)) = w /\ LeftMaps(v, u, bs, Len(bs)) = u
    BY <1>1, MoreAndLess
  <1> HIDE DEF v
  <1>5. /\ Meets(UnrefAll(mgr, bs), LessRefs(v, bs, Len(bs)), LeftMaps(v, u, bs, Len(bs)), k, Q)
        /\ Same(mgr, UnrefAll(mgr, bs))
    <2>1. Unrefable(mgr.env, v, k, bs)
      BY <1>2, <1>4
    <2>2. v \in Counts
      BY <1>4
    <2> QED BY <1>1, <1>3, <2>1, <2>2, UnrefAllMeets
  <1>6. Meets(UnrefAll(mgr, bs), w, u, k, Q)
    BY <1>4, <1>5
  <1>7. Same(WithManager, UnrefAll(mgr, bs))
    BY <1>5, SameSame
  <1> QED BY <1>6, <1>7 DEF w, u, k

\* The same calls when they fail: what they took is given back.
LEMMA CreateWithFlagsFailsKeeps ==
    ASSUME NEW x \in Counts, SurfInv(x), NEW t \in Thread, NEW s \in Surf, NEW n \in Nat,
           NEW bs \in BosOf(n), NEW ps \in PrivsOf(n), CreateWithFlagsFails(t, s, bs, ps),
           (\A b \in Bo : x[b] = 0) \/ m'.ref_count > 0
    PROVE  SurfInv(x)'
  <1> DEFINE w == WantOf(x, refs, surfs)
             u == MapsOf(maps, surfs, smaps, mapping)
             k == FlyingOf(pc, arg)
             P == PointersOf(m.env, surfs)
             Q == P \cup {<<bs[i], s>> : i \in 1 .. Len(bs)}
             y == UnrefAll(AllocAll(WithManager, s, bs, ps), bs)
  <1>1. /\ pc[t] = "idle" /\ Fresh(bs, ps) /\ m' = Undo(y) /\ Forget(m')
        /\ UNCHANGED <<inits, pc, arg, surfVars>>
    BY DEF CreateWithFlagsFails, MayCreate, Ready
  <1>2. bs \in Seq(Bo)
    BY BosSeq
  <1>3. /\ \A c \in Bo, q \in Surf : <<c, q>> \in P => <<c, q>> \in Q
        /\ \A i \in 1 .. Len(bs) : <<bs[i], s>> \in Q
    OBVIOUS
  <1>4. /\ Meets(AllocAll(WithManager, s, bs, ps), MoreRefs(w, bs, Len(bs)), u, k, Q)
        /\ Same(WithManager, AllocAll(WithManager, s, bs, ps))
    <2> HIDE DEF Q
    <2> QED BY <1>1, <1>3, AllocatedMeets
  <1>5. Meets(y, w, u, k, Q) /\ Same(WithManager, y)
    <2> HIDE DEF Q
    <2> QED BY <1>2, <1>4, GivenBack
  <1>6. Meets(m, w, u, k, P) /\ w \in Counts /\ u \in Counts /\ k \in Counts
    BY InvHas
  <1> HIDE DEF y, w, u, k, P
  <1>7. \A c \in Bo, q \in Surf : w[c] > 0 /\ <<c, q>> \in Q => <<c, q>> \in P
    <2>1. ASSUME NEW c \in Bo, NEW q \in Surf, w[c] > 0, <<c, q>> \in Q, <<c, q>> \notin P PROVE FALSE
      <3>1. PICK i \in 1 .. Len(bs) : c = bs[i]
        BY <2>1
      <3>2. c \notin DOMAIN m.bos
        BY <1>1, <3>1 DEF Fresh, Live
      <3>3. c \in DOMAIN m.bos
        BY <1>6, <2>1, MeetsLive
      <3> QED BY <3>2, <3>3
    <2> QED BY <2>1
  <1> HIDE DEF Q
  <1>8. Meets(y, w, u, k, P)
    BY <1>5, <1>7, LivePairsMeet
  <1> QED BY <1>1, <1>5, <1>8, UndoneStep DEF w, u, k, P

LEMMA CreateWithBosFailsKeeps ==
    ASSUME NEW x \in Counts, SurfInv(x), NEW t \in Thread, NEW s \in Surf, NEW n \in Nat,
           NEW bs \in BosOf(n), CreateWithBosFails(t, s, bs),
           (\A b \in Bo : x[b] = 0) \/ m'.ref_count > 0
    PROVE  SurfInv(x)'
  <1> DEFINE w == WantOf(x, refs, surfs)
             u == MapsOf(maps, surfs, smaps, mapping)
             k == FlyingOf(pc, arg)
             P == PointersOf(m.env, surfs)
             y == UnrefAll(RefAll(WithManager, s, bs), bs)
  <1>1. /\ pc[t] = "idle" /\ OwnBos(t, bs) /\ Envs[m.env].null_bos /\ m' = Undo(y) /\ Forget(m')
        /\ UNCHANGED <<inits, pc, arg, surfVars>>
    BY DEF CreateWithBosFails, MayCreate, Ready, Bound
  <1>2. bs \in Seq(Bo)
    BY BosSeq
  <1>3. /\ \A c \in Bo, q \in Surf : <<c, q>> \in P => <<c, q>> \in P
        /\ \A i \in 1 .. Len(bs) : <<bs[i], s>> \in P
    BY <1>1, <1>2 DEF PointersOf
  <1>4. /\ Meets(RefAll(WithManager, s, bs), MoreRefs(w, bs, Len(bs)), u, k, P)
        /\ Same(WithManager, RefAll(WithManager, s, bs))
    <2>1. OwnBos(t, bs)
      BY <1>1
    <2> QED BY <1>2, <1>3, <2>1, ReferencedMeets
  <1>5. Meets(y, w, u, k, P) /\ Same(WithManager, y)
    BY <1>2, <1>4, GivenBack
  <1> HIDE DEF y
  <1> QED BY <1>1, <1>5, UndoneStep

\* The call that a thread is in changes, and the surfaces that are mapped.
LEMMA CallClients ==
    ASSUME NEW ini, NEW R, NEW mp, NEW pp, NEW ag, NEW sf, NEW sr, NEW sm, NEW mg,
           Clients(ini, R, mp, pp, ag, sf, sr, sm, mg), NEW t \in Thread,
           NEW sn, NEW mh, MapState(mp, sf, sn, mh), UsersOf(Surf, sn, sr),
           \A v \in Thread : v # t => mh[v] = mg[v],
           mh[t] # NotMapping => sr[t][mh[t].surf] > 0,
           NEW pq \in [Thread -> PC], pq[t] = "idle", \A v \in Thread : v # t => pq[v] = pp[v]
    PROVE  Clients(ini, R, mp, pq, ag, sf, sr, sn, mh)
  <1>1. /\ ini \in [Thread -> Nat] /\ R \in Table(Bo) /\ sr \in Table(Surf)
        /\ ag \in [Thread -> Bo \cup {NULL}] /\ HeldOK(sf, sr) /\ UsersOf(Bo, mp, R)
        /\ MappersOK(sr, mg) /\ CallersOK(ini, R, pp, ag, sf, mg)
    BY ClientsHave
  <1>2. MappersOK(sr, mh)
    <2>1. ASSUME NEW v \in Thread, mh[v] # NotMapping PROVE sr[v][mh[v].surf] > 0
      <3>1. CASE v = t
        BY <2>1, <3>1
      <3>2. CASE v # t
        BY <1>1, <2>1, <3>2 DEF MappersOK
      <3> QED BY <3>1, <3>2
    <2> QED BY <2>1 DEF MappersOK
  <1>3. CallersOK(ini, R, pq, ag, sf, mh)
    <2>1. \A v \in Thread : pq[v] # "idle" => v # t /\ pq[v] = pp[v] /\ mh[v] = mg[v]
      OBVIOUS
    <2> QED BY <1>1, <2>1 DEF CallersOK
  <1>4. pq \in [Thread -> {"idle", "lock", "locked"}]
    BY DEF PC
  <1> QED BY <1>1, <1>2, <1>3, <1>4 DEF Clients

\* A step that changes only where a thread is.
LEMMA CallStep ==
    ASSUME NEW x \in Counts, SurfInv(x), NEW t \in Thread,
           pc' \in [Thread -> PC], pc'[t] = "idle", \A v \in Thread : v # t => pc'[v] = pc[v],
           UNCHANGED <<inits, refs, maps, arg, surfs, surfMgr, srefs>>,
           MapState(maps, surfs, smaps', mapping'), UsersOf(Surf, smaps', srefs),
           \A v \in Thread : v # t => mapping'[v] = mapping[v],
           mapping'[t] # NotMapping => srefs[t][mapping'[t].surf] > 0, Same(m, m'),
           Meets(m', WantOf(x, refs, surfs), MapsOf(maps, surfs, smaps', mapping'),
                 FlyingOf(pc', arg), PointersOf(m.env, surfs))
    PROVE  SurfInv(x)'
  <1>1. /\ Clients(inits, refs, maps, pc, arg, surfs, srefs, smaps, mapping)
        /\ surfMgr \in BOOLEAN /\ RefCountOK(m.ref_count, inits, surfs, surfMgr)
    BY InvHas
  <1>2. Clients(inits, refs, maps, pc', arg, surfs, srefs, smaps', mapping')
    BY <1>1, CallClients
  <1>3. m'.env = m.env /\ m'.ref_count = m.ref_count
    BY DEF Same
  <1>4. /\ inits' = inits /\ refs' = refs /\ maps' = maps /\ arg' = arg /\ surfs' = surfs
        /\ surfMgr' = surfMgr /\ srefs' = srefs
    OBVIOUS
  <1>5. /\ Clients(inits', refs', maps', pc', arg', surfs', srefs', smaps', mapping')
        /\ surfMgr' \in BOOLEAN /\ RefCountOK(m'.ref_count, inits', surfs', surfMgr')
    BY <1>1, <1>2, <1>3, <1>4
  <1>6. Meets(m', WantOf(x, refs', surfs'), MapsOf(maps', surfs', smaps', mapping'),
              FlyingOf(pc', arg'), PointersOf(m.env, surfs'))
    BY <1>4
  <1> QED BY <1>3, <1>5, <1>6, IdleStep

\* tbm_surface_map begins.
LEMMA SurfMapKeeps ==
    ASSUME NEW x \in Counts, SurfInv(x), NEW t \in Thread, NEW s \in Surf, SurfMap(t, s)
    PROVE  SurfInv(x)'
  <1> DEFINE g == [surf |-> s, i |-> 1]
  <1>1. /\ pc[t] = "idle" /\ mapping[t] = NotMapping /\ srefs[t][s] > 0
        /\ mapping' = SetAt(mapping, t, g)
        /\ UNCHANGED <<m, inits, refs, maps, pc, arg, surfs, surfMgr, srefs, smaps>>
    BY DEF SurfMap, SurfHolds, Ready, SetAt, bufmgrVars
  <1>2. /\ Clients(inits, refs, maps, pc, arg, surfs, srefs, smaps, mapping)
        /\ MapState(maps, surfs, smaps, mapping)
        /\ Meets(m, WantOf(x, refs, surfs), MapsOf(maps, surfs, smaps, mapping),
                 FlyingOf(pc, arg), PointersOf(m.env, surfs))
    BY InvHas
  <1>3. s \in DOMAIN surfs /\ surfs[s].bos # <<>>
    BY <1>1, HeldLive
  <1>4. /\ MapState(maps, surfs, smaps, mapping')
        /\ MapsOf(maps, surfs, smaps, mapping') = MapsOf(maps, surfs, smaps, mapping)
    BY <1>1, <1>2, <1>3, MapsBegun
  <1>5. mapping'[t] = g /\ \A v \in Thread : v # t => mapping'[v] = mapping[v]
    <2>1. mapping \in [Thread -> [surf : Surf \cup {NULL}, i : Nat]]
      BY <1>2 DEF MapState, Calls0, Mappings
    <2> QED BY <1>1, <2>1 DEF SetAt
  <1>6. mapping'[t] # NotMapping => srefs[t][mapping'[t].surf] > 0
    BY <1>1, <1>5
  <1>7. /\ pc' \in [Thread -> PC] /\ pc'[t] = "idle" /\ (\A v \in Thread : v # t => pc'[v] = pc[v])
        /\ UsersOf(Surf, smaps', srefs)
    BY <1>1, <1>2, ClientsHave DEF PC
  <1>8. Same(m, m') /\ MapState(maps, surfs, smaps', mapping')
    BY <1>1, <1>4 DEF Same
  <1>9. Meets(m', WantOf(x, refs, surfs), MapsOf(maps, surfs, smaps', mapping'),
              FlyingOf(pc', arg), PointersOf(m.env, surfs))
    BY <1>1, <1>2, <1>4
  <1>10. UNCHANGED <<inits, refs, maps, arg, surfs, surfMgr, srefs>>
    BY <1>1
  <1> QED BY <1>5, <1>6, <1>7, <1>8, <1>9, <1>10, CallStep

\* The bo that a thread has come to.
LEMMA MapBoIs ==
    ASSUME NEW x \in Counts, SurfInv(x), NEW t \in Thread, mapping[t] # NotMapping
    PROVE  /\ mapping[t].surf \in DOMAIN surfs /\ mapping[t].surf \in Surf
           /\ mapping[t].i \in 1 .. Len(surfs[mapping[t].surf].bos)
           /\ mapping[t] = [surf |-> mapping[t].surf, i |-> mapping[t].i]
           /\ srefs[t][mapping[t].surf] > 0
           /\ MapBo(t) = surfs[mapping[t].surf].bos[mapping[t].i]
           /\ MapBo(t) \in Bo /\ MapBo(t) \in DOMAIN m.bos
           /\ pc[t] # "idle" => arg[t] = MapBo(t)
  <1>1. /\ Clients(inits, refs, maps, pc, arg, surfs, srefs, smaps, mapping)
        /\ MgrOK(x, m, refs, maps, pc, arg, surfs, smaps, mapping)
    BY InvHas
  <1>2. CallIs(pc, arg, surfs, srefs, mapping, t)
    BY <1>1, CallAt
  <1>3. /\ mapping[t].surf \in DOMAIN surfs /\ mapping[t].surf \in Surf
        /\ mapping[t].i \in 1 .. Len(surfs[mapping[t].surf].bos)
        /\ mapping[t] = [surf |-> mapping[t].surf, i |-> mapping[t].i]
        /\ srefs[t][mapping[t].surf] > 0
        /\ MapBo(t) = surfs[mapping[t].surf].bos[mapping[t].i]
        /\ MapBo(t) \in Bo /\ Times(MapBo(t), surfs[mapping[t].surf].bos) > 0
        /\ pc[t] # "idle" => arg[t] = MapBo(t)
    BY <1>2 DEF CallIs, MapBo
  <1>4. MapBo(t) \in DOMAIN m.bos
    BY <1>1, <1>3, LiveBos
  <1> QED BY <1>3, <1>4

\* The bo at hand is mapped.
LEMMA MappedStep ==
    ASSUME NEW x \in Counts, SurfInv(x), NEW t \in Thread, mapping[t] # NotMapping,
           NEW mgr, Mapped(t, mgr),
           pc' \in [Thread -> PC], pc'[t] = "idle", \A v \in Thread : v # t => pc'[v] = pc[v],
           UNCHANGED <<inits, refs, maps, arg, surfs, surfMgr, srefs>>, Same(m, m'),
           Meets(m', WantOf(x, refs, surfs),
                 [MapsOf(maps, surfs, smaps, mapping) EXCEPT ![MapBo(t)] = @ + 1],
                 FlyingOf(pc', arg), PointersOf(m.env, surfs))
    PROVE  SurfInv(x)'
  <1> DEFINE s == mapping[t].surf
             i == mapping[t].i
  <1>1. /\ s \in DOMAIN surfs /\ s \in Surf /\ i \in 1 .. Len(surfs[s].bos)
        /\ mapping[t] = [surf |-> s, i |-> i] /\ srefs[t][s] > 0 /\ MapBo(t) = surfs[s].bos[i]
    BY MapBoIs
  <1>2. /\ MapState(maps, surfs, smaps, mapping)
        /\ Clients(inits, refs, maps, pc, arg, surfs, srefs, smaps, mapping)
    BY InvHas
  <1>3. UsersOf(Surf, smaps, srefs) /\ smaps \in Table(Surf)
        /\ mapping \in [Thread -> [surf : Surf \cup {NULL}, i : Nat]]
    BY <1>2, ClientsHave DEF Calls0, Mappings
  <1>4. CASE i = Len(surfs[s].bos)
    <2>1. mapping' = SetAt(mapping, t, NotMapping) /\ smaps' = Put(smaps, t, s, smaps[t][s] + 1)
      BY <1>4 DEF Mapped, SetAt, Put
    <2>2. /\ MapState(maps, surfs, smaps', mapping')
          /\ MapsOf(maps, surfs, smaps', mapping')
               = [MapsOf(maps, surfs, smaps, mapping) EXCEPT ![surfs[s].bos[i]] = @ + 1]
      <3> HIDE DEF s, i
      <3> QED BY <1>1, <1>2, <1>4, <2>1, MapsDone
    <2>3. mapping'[t] = NotMapping /\ \A v \in Thread : v # t => mapping'[v] = mapping[v]
      BY <1>3, <2>1 DEF SetAt
    <2>4. UsersOf(Surf, smaps', srefs)
      <3> HIDE DEF s
      <3>1. smaps[t][s] + 1 \in Nat
        BY <1>1, <1>3 DEF Table
      <3>2. \A v \in Thread, y \in Surf : <<v, y>> # <<t, s>> => smaps'[v][y] = smaps[v][y]
        BY <1>1, <1>3, <2>1, <3>1 DEF Table, Put
      <3>3. ASSUME NEW v \in Thread, NEW y \in Surf, smaps'[v][y] > 0 PROVE srefs[v][y] > 0
        <4>1. CASE v = t /\ y = s
          BY <1>1, <4>1
        <4>2. CASE ~(v = t /\ y = s)
          BY <1>3, <3>2, <3>3, <4>2 DEF UsersOf
        <4> QED BY <4>1, <4>2
      <3> QED BY <3>3 DEF UsersOf
    <2>5. Meets(m', WantOf(x, refs, surfs), MapsOf(maps, surfs, smaps', mapping'),
                FlyingOf(pc', arg), PointersOf(m.env, surfs))
      BY <1>1, <2>2
    <2> QED BY <2>2, <2>3, <2>4, <2>5, CallStep
  <1>5. CASE i # Len(surfs[s].bos)
    <2>1. mapping' = SetAt(mapping, t, [surf |-> s, i |-> i + 1]) /\ smaps' = smaps
      <3>1. mapping' = [mapping EXCEPT ![t].i = @ + 1] /\ smaps' = smaps
        BY <1>5 DEF Mapped
      <3>2. [mapping[t] EXCEPT !.i = @ + 1] = [surf |-> s, i |-> i + 1]
        BY <1>3
      <3> QED BY <3>1, <3>2 DEF SetAt
    <2>2. /\ MapState(maps, surfs, smaps', mapping')
          /\ MapsOf(maps, surfs, smaps', mapping')
               = [MapsOf(maps, surfs, smaps, mapping) EXCEPT ![surfs[s].bos[i]] = @ + 1]
      <3> HIDE DEF s, i
      <3> QED BY <1>1, <1>2, <1>5, <2>1, MapsAdvanced
    <2>3. mapping'[t].surf = s /\ \A v \in Thread : v # t => mapping'[v] = mapping[v]
      <3> HIDE DEF s, i
      <3> QED BY <1>3, <2>1 DEF SetAt
    <2>4. UsersOf(Surf, smaps', srefs) /\ (mapping'[t] # NotMapping => srefs[t][mapping'[t].surf] > 0)
      BY <1>1, <1>3, <2>1, <2>3
    <2>5. Meets(m', WantOf(x, refs, surfs), MapsOf(maps, surfs, smaps', mapping'),
                FlyingOf(pc', arg), PointersOf(m.env, surfs))
      BY <1>1, <2>2
    <2> QED BY <2>2, <2>3, <2>4, <2>5, CallStep
  <1> QED BY <1>4, <1>5

\* It is not: the bos before it are unmapped.
LEMMA NotMappedStep ==
    ASSUME NEW x \in Counts, SurfInv(x), NEW t \in Thread, mapping[t] # NotMapping,
           NEW mgr, NotMapped(t, mgr),
           pc' \in [Thread -> PC], pc'[t] = "idle", \A v \in Thread : v # t => pc'[v] = pc[v],
           UNCHANGED <<inits, refs, maps, arg, surfs, surfMgr, srefs>>, Same(m, mgr),
           Meets(mgr, WantOf(x, refs, surfs), MapsOf(maps, surfs, smaps, mapping),
                 FlyingOf(pc', arg), PointersOf(m.env, surfs))
    PROVE  SurfInv(x)'
  <1> DEFINE s == mapping[t].surf
             i == mapping[t].i
             bs == Before(surfs[s].bos, i)
             w == WantOf(x, refs, surfs)
             u == MapsOf(maps, surfs, smaps, mapping)
             k == FlyingOf(pc', arg)
             P == PointersOf(m.env, surfs)
  <1>1. /\ s \in DOMAIN surfs /\ s \in Surf /\ i \in 1 .. Len(surfs[s].bos)
        /\ mapping[t] = [surf |-> s, i |-> i] /\ srefs[t][s] > 0 /\ MapBo(t) = surfs[s].bos[i]
    BY MapBoIs
  <1>2. /\ MapState(maps, surfs, smaps, mapping)
        /\ Clients(inits, refs, maps, pc, arg, surfs, srefs, smaps, mapping)
        /\ w \in Counts /\ u \in Counts
    BY InvHas
  <1>3. UsersOf(Surf, smaps, srefs) /\ smaps \in Table(Surf) /\ surfs \in SurfTable
        /\ mapping \in [Thread -> [surf : Surf \cup {NULL}, i : Nat]] /\ refs \in Table(Bo)
    BY <1>2, ClientsHave DEF Calls0, Mappings
  <1>4. /\ m' = FoldLeft(BoUnmap, mgr, bs) /\ mapping' = SetAt(mapping, t, NotMapping) /\ smaps' = smaps
    BY DEF NotMapped, MappedSoFar, SetAt, Before
  <1>5. /\ MapState(maps, surfs, smaps, mapping') /\ bs \in Seq(Bo)
        /\ \A b \in Bo : Times(b, bs) > 0 => Times(b, surfs[s].bos) > 0
        /\ MapsOf(maps, surfs, smaps, mapping') = LessRefs(u, bs, Len(bs))
        /\ \A b \in Bo : Times(b, bs) <= u[b]
    <2> DEFINE mh == SetAt(mapping, t, NotMapping)
    <2>1. /\ MapState(maps, surfs, smaps, mh) /\ bs \in Seq(Bo)
          /\ \A b \in Bo : Times(b, bs) > 0 => Times(b, surfs[s].bos) > 0
          /\ MapsOf(maps, surfs, smaps, mh) = LessRefs(u, bs, Len(bs))
          /\ \A b \in Bo : Times(b, bs) <= u[b]
      <3> HIDE DEF s, i
      <3> QED BY <1>1, <1>2, MapsFailed
    <2> HIDE DEF u, bs, s
    <2> QED BY <1>4, <2>1
  <1>6. k \in Counts
    BY FlyCounts
  <1>7. Meets(mgr, w, u, k, P)
    OBVIOUS
  <1>8. bs \in Seq(DOMAIN mgr.bos)
    <2>1. ASSUME NEW j \in 1 .. Len(bs) PROVE bs[j] \in DOMAIN mgr.bos
      <3> HIDE DEF bs, u, k, P
      <3>1. bs[j] \in Bo /\ Len(bs) \in Nat /\ Len(bs) \in 0 .. Len(bs)
        BY <1>5
      <3>2. Times(bs[j], bs) > 0
        BY <1>5, <3>1, OfFirstTimes
      <3>3. Times(bs[j], surfs[s].bos) > 0
        BY <1>5, <3>2
      <3>4. /\ Times(bs[j], surfs[s].bos) \in Nat /\ x[bs[j]] \in Nat /\ w[bs[j]] \in Nat
            /\ Times(bs[j], surfs[s].bos) + x[bs[j]] <= w[bs[j]]
        BY <1>1, <1>3, <3>1, WantCounts
      <3> HIDE DEF w
      <3>5. w[bs[j]] > 0
        BY <3>3, <3>4
      <3> QED BY <1>2, <1>6, <1>7, <3>1, <3>5, MeetsLive
    <2> HIDE DEF bs
    <2> QED BY <1>5, <2>1
  <1> HIDE DEF bs, w, u, k, P, s, i
  <1>9. Meets(m', w, LessRefs(u, bs, Len(bs)), k, P) /\ Same(mgr, m')
    BY <1>2, <1>4, <1>5, <1>6, <1>7, <1>8, UnmapAllMeets
  <1>10. Same(m, m')
    BY <1>9, SameSame
  <1>11. mapping'[t] = NotMapping /\ \A v \in Thread : v # t => mapping'[v] = mapping[v]
    BY <1>3, <1>4 DEF SetAt
  <1>12. MapState(maps, surfs, smaps', mapping') /\ UsersOf(Surf, smaps', srefs)
    BY <1>3, <1>4, <1>5
  <1>13. Meets(m', WantOf(x, refs, surfs), MapsOf(maps, surfs, smaps', mapping'),
               FlyingOf(pc', arg), PointersOf(m.env, surfs))
    BY <1>4, <1>5, <1>9 DEF w, k, P
  <1> QED BY <1>10, <1>11, <1>12, <1>13, CallStep

\* tbm_surface_map, bo by bo: up to the lock, without a lock, the lock, and
\* after it; and tbm_surface_unmap.
LEMMA SurfMapLockKeeps ==
    ASSUME NEW x \in Counts, SurfInv(x), NEW t \in Thread, SurfMapLock(t)
    PROVE  SurfInv(x)'
  <1>1. /\ mapping[t] # NotMapping /\ pc[t] = "idle" /\ NeedsLock(m, MapBo(t))
        /\ Enters(t, MapBo(t)) /\ UNCHANGED <<m, clients, surfVars>>
    BY DEF SurfMapLock, Enters
  <1>2. MapBo(t) \in Bo /\ MapBo(t) = surfs[mapping[t].surf].bos[mapping[t].i]
    BY <1>1, MapBoIs
  <1> QED BY <1>1, <1>2, EnterLock

LEMMA SurfMapBoKeeps ==
    ASSUME NEW x \in Counts, SurfInv(x), NEW t \in Thread, SurfMapBo(t)
    PROVE  SurfInv(x)'
  <1> DEFINE w == WantOf(x, refs, surfs)
             u == MapsOf(maps, surfs, smaps, mapping)
             k == FlyingOf(pc, arg)
             P == PointersOf(m.env, surfs)
             b == MapBo(t)
  <1>1. /\ Meets(m, w, u, k, P) /\ w \in Counts /\ u \in Counts /\ k \in Counts /\ m \in Mgr
        /\ Clients(inits, refs, maps, pc, arg, surfs, srefs, smaps, mapping)
    BY InvHas
  <1>2. /\ mapping[t] # NotMapping /\ pc[t] = "idle" /\ ~NeedsLock(m, b)
        /\ Mapped(t, m) \/ NotMapped(t, BoUnlock(m, b))
        /\ UNCHANGED <<inits, refs, maps, pc, arg, surfs, surfMgr, srefs>>
    BY DEF SurfMapBo, clients
  <1>3. /\ pc' \in [Thread -> PC] /\ pc'[t] = "idle" /\ (\A v \in Thread : v # t => pc'[v] = pc[v])
        /\ FlyingOf(pc', arg) = k
    BY <1>1, <1>2, ClientsHave DEF PC
  <1>4. b \in DOMAIN m.bos /\ b \in Bo
    BY <1>2, MapBoIs
  <1>5. UNCHANGED <<inits, refs, maps, arg, surfs, surfMgr, srefs>>
    BY <1>2
  <1>6. CASE Mapped(t, m)
    <2>1. m' = [m EXCEPT !.bos[b].map_cnt = @ + 1]
      BY <1>6 DEF Mapped
    <2> HIDE DEF w, u, k, P, b
    <2>2. Meets(m', w, [u EXCEPT ![b] = @ + 1], k, P)
      BY <1>1, <1>2, <1>4, <2>1, MapPlainMeets
    <2>3. Same(m, m')
      BY <1>1, <2>1 DEF Same, Mgr
    <2> QED BY <1>2, <1>3, <1>5, <1>6, <2>2, <2>3, MappedStep DEF w, u, P, b
  <1>7. CASE NotMapped(t, BoUnlock(m, b))
    <2> HIDE DEF w, u, k, P, b
    <2>1. Meets(BoUnlock(m, b), w, u, k, P)
      BY <1>1, <1>2, <1>4, FailPlainMeets
    <2>2. Same(m, BoUnlock(m, b))
      BY <1>1, <1>4, BoUnlockSame
    <2> DEFINE y == BoUnlock(m, b)
    <2>3. Meets(y, w, u, FlyingOf(pc', arg), P) /\ Same(m, y) /\ NotMapped(t, y)
      BY <1>3, <1>7, <2>1, <2>2
    <2> HIDE DEF y
    <2> QED BY <1>2, <1>3, <1>5, <2>3, NotMappedStep DEF w, u, P
  <1> QED BY <1>2, <1>6, <1>7

LEMMA SurfBackendLockKeeps ==
    ASSUME NEW x \in Counts, SurfInv(x), NEW t \in Thread, SurfBackendLock(t)
    PROVE  SurfInv(x)'
  <1>1. /\ mapping[t] # NotMapping /\ pc[t] = "lock"
        /\ UNCHANGED <<inits, refs, maps, arg, surfs, surfMgr, srefs>>
    BY DEF SurfBackendLock, clients
  <1>2. CASE /\ pc' = [pc EXCEPT ![t] = "locked"]
             /\ m' = [m EXCEPT !.held[m.bos[arg[t]].priv] = @ + 1]
             /\ UNCHANGED <<smaps, mapping>>
    <2>1. UNCHANGED surfVars /\ UNCHANGED <<inits, refs, maps, arg>>
      BY <1>1, <1>2 DEF surfVars
    <2> QED BY <1>1, <1>2, <2>1, LockedStep
  <1>3. CASE pc' = [pc EXCEPT ![t] = "idle"] /\ NotMapped(t, m)
    <2>1. /\ Clients(inits, refs, maps, pc, arg, surfs, srefs, smaps, mapping)
          /\ Meets(m, WantOf(x, refs, surfs), MapsOf(maps, surfs, smaps, mapping),
                   FlyingOf(pc, arg), PointersOf(m.env, surfs))
      BY InvHas
    <2>2. /\ pc' \in [Thread -> PC] /\ pc'[t] = "idle" /\ (\A v \in Thread : v # t => pc'[v] = pc[v])
      BY <1>3, <2>1, ClientsHave DEF PC
    <2>3. FlyingOf(pc', arg) = FlyingOf(pc, arg)
      <3>1. \A v \in Thread : /\ pc'[v] = "locked" <=> pc[v] = "locked"
                              /\ pc[v] = "locked" => arg[v] = arg[v]
        BY <1>1, <2>2
      <3> QED BY <3>1, FlySame
    <2>4. Meets(m, WantOf(x, refs, surfs), MapsOf(maps, surfs, smaps, mapping),
                FlyingOf(pc', arg), PointersOf(m.env, surfs)) /\ Same(m, m)
      BY <2>1, <2>3 DEF Same
    <2> QED BY <1>1, <1>3, <2>2, <2>4, NotMappedStep
  <1> QED BY <1>2, <1>3 DEF SurfBackendLock

LEMMA SurfMapLockedKeeps ==
    ASSUME NEW x \in Counts, SurfInv(x), NEW t \in Thread, SurfMapLocked(t)
    PROVE  SurfInv(x)'
  <1> DEFINE w == WantOf(x, refs, surfs)
             u == MapsOf(maps, surfs, smaps, mapping)
             k == FlyingOf(pc, arg)
             P == PointersOf(m.env, surfs)
             b == arg[t]
             r == Relocked(m, b)
  <1>1. /\ Meets(m, w, u, k, P) /\ w \in Counts /\ u \in Counts /\ k \in Counts /\ m \in Mgr
    BY InvHas
  <1>2. /\ mapping[t] # NotMapping /\ pc[t] = "locked" /\ pc' = [pc EXCEPT ![t] = "idle"]
        /\ UNCHANGED <<inits, refs, maps, arg, surfs, surfMgr, srefs>>
        /\ Mapped(t, r) \/ NotMapped(t, BoUnlock(r, b))
    BY DEF SurfMapLocked, Relocked, clients
  <1>3. /\ b \in Bo /\ b \in DOMAIN m.bos /\ k[b] > 0
        /\ FlyingOf(pc', arg) = [k EXCEPT ![b] = @ - 1]
        /\ LocksKept(m.env) /\ LockType(m) = "TRY_ONCE" => m.bos[b].lock_cnt = 0
    BY <1>2, LockedBo
  <1>4. /\ pc' \in [Thread -> PC] /\ pc'[t] = "idle" /\ (\A v \in Thread : v # t => pc'[v] = pc[v])
    BY <1>2, LockedBo
  <1>5. MapBo(t) = b
    BY <1>2, MapBoIs
  <1>6. r \in Mgr /\ Same(m, r)
    <2>1. m.bos[b].lock_cnt + 1 \in Int
      BY <1>1, <1>3, BoOf
    <2> DEFINE i == m.bos[b].lock_cnt + 1
    <2>2. r = [m EXCEPT !.bos[b].lock_cnt = i]
      BY DEF Relocked
    <2> HIDE DEF i, b, r
    <2>3. NULL \in Surf \cup {NULL} /\ i \in Int
      BY <2>1 DEF i, b
    <2>4. [m EXCEPT !.bos[b].lock_cnt = i] \in Mgr
      BY <1>1, <1>3, <2>3, BoFieldChanged
    <2>5. Same(m, [m EXCEPT !.bos[b].lock_cnt = i])
      BY <1>1 DEF Same, Mgr
    <2> QED BY <2>2, <2>4, <2>5
  <1> HIDE DEF w, u, k, P, b
  <1>7. CASE Mapped(t, r)
    <2>1. m' = [r EXCEPT !.bos[b].map_cnt = @ + 1]
      <3> HIDE DEF r
      <3> QED BY <1>5, <1>7 DEF Mapped
    <2>2. Meets(m', w, [u EXCEPT ![b] = @ + 1], [k EXCEPT ![b] = @ - 1], P)
      BY <1>1, <1>3, <2>1, MapLockedMeets
    <2> HIDE DEF r
    <2>3. Same(m, m')
      <3>1. m'.env = r.env /\ m'.ref_count = r.ref_count
        BY <1>6, <2>1 DEF Mgr
      <3> QED BY <1>6, <3>1 DEF Same
    <2>4. Meets(m', w, [u EXCEPT ![MapBo(t)] = @ + 1], FlyingOf(pc', arg), P)
      BY <1>3, <1>5, <2>2
    <2> QED BY <1>2, <1>4, <1>7, <2>3, <2>4, MappedStep DEF w, u, P
  <1>8. CASE NotMapped(t, BoUnlock(r, b))
    <2> DEFINE y == BoUnlock(r, b)
    <2>1. Meets(y, w, u, [k EXCEPT ![b] = @ - 1], P)
      BY <1>1, <1>3, FailLockedMeets
    <2>2. Same(m, y)
      <3> HIDE DEF r
      <3>1. Same(r, y)
        BY <1>3, <1>6, BoUnlockSame
      <3> QED BY <1>6, <3>1, SameSame
    <2> HIDE DEF r
    <2>3. Meets(y, w, u, FlyingOf(pc', arg), P) /\ NotMapped(t, y)
      BY <1>3, <1>8, <2>1
    <2> HIDE DEF y
    <2> QED BY <1>2, <1>4, <2>2, <2>3, NotMappedStep DEF w, u, P
  <1> QED BY <1>2, <1>7, <1>8

LEMMA SurfUnmapKeeps ==
    ASSUME NEW x \in Counts, SurfInv(x), NEW t \in Thread, NEW s \in Surf, SurfUnmap(t, s)
    PROVE  SurfInv(x)'
  <1> DEFINE w == WantOf(x, refs, surfs)
             u == MapsOf(maps, surfs, smaps, mapping)
             k == FlyingOf(pc, arg)
             P == PointersOf(m.env, surfs)
             bs == surfs[s].bos
             sn == Put(smaps, t, s, smaps[t][s] - 1)
  <1>1. /\ Meets(m, w, u, k, P) /\ w \in Counts /\ u \in Counts /\ k \in Counts /\ m \in Mgr
        /\ Clients(inits, refs, maps, pc, arg, surfs, srefs, smaps, mapping)
        /\ MgrOK(x, m, refs, maps, pc, arg, surfs, smaps, mapping)
        /\ MapState(maps, surfs, smaps, mapping)
    BY InvHas
  <1>2. /\ pc[t] = "idle" /\ mapping[t] = NotMapping /\ srefs[t][s] > 0 /\ smaps[t][s] > 0
        /\ m' = FoldLeft(BoUnmap, m, bs) /\ smaps' = sn
        /\ UNCHANGED <<inits, refs, maps, pc, arg, surfs, surfMgr, srefs, mapping>>
    BY DEF SurfUnmap, SurfHolds, Ready, clients, Put
  <1>3. s \in DOMAIN surfs /\ bs \in Seq(Bo)
    BY <1>2, HeldLive
  <1>4. /\ MapState(maps, surfs, sn, mapping)
        /\ MapsOf(maps, surfs, sn, mapping) = LessRefs(u, bs, Len(bs))
        /\ \A b \in Bo : Times(b, bs) <= u[b]
    BY <1>1, <1>2, <1>3, MapsSurfLess
  <1>5. bs \in Seq(DOMAIN m.bos)
    <2>1. ASSUME NEW j \in 1 .. Len(bs) PROVE bs[j] \in DOMAIN m.bos
      <3>1. bs[j] \in Bo /\ Len(bs) \in Nat /\ Len(bs) \in 0 .. Len(bs)
        BY <1>3
      <3>2. Times(bs[j], bs) > 0
        BY <1>3, <3>1, OfFirstTimes
      <3> QED BY <1>1, <1>3, <3>1, <3>2, LiveBos
    <2> QED BY <1>3, <2>1
  <1>6. Meets(m', w, LessRefs(u, bs, Len(bs)), k, P) /\ Same(m, m')
    <2> HIDE DEF w, u, k, P, bs
    <2> QED BY <1>1, <1>2, <1>4, <1>5, UnmapAllMeets
  <1>7. UsersOf(Surf, sn, srefs)
    <2>1. UsersOf(Surf, smaps, srefs) /\ smaps \in Table(Surf)
      BY <1>1, ClientsHave
    <2>2. ASSUME NEW v \in Thread, NEW y \in Surf, sn[v][y] > 0 PROVE srefs[v][y] > 0
      <3>1. CASE v = t /\ y = s
        BY <1>2, <3>1
      <3>2. CASE ~(v = t /\ y = s)
        <4>1. sn[v][y] = smaps[v][y]
          BY <2>1, <3>2 DEF Table, Put
        <4> QED BY <2>1, <2>2, <4>1 DEF UsersOf
      <3> QED BY <3>1, <3>2
    <2> QED BY <2>2 DEF UsersOf
  <1> HIDE DEF w, u, k, P, bs, sn
  <1>8. /\ pc' \in [Thread -> PC] /\ pc'[t] = "idle" /\ (\A v \in Thread : v # t => pc'[v] = pc[v])
    BY <1>1, <1>2, ClientsHave DEF PC
  <1>9. /\ MapState(maps, surfs, smaps', mapping') /\ UsersOf(Surf, smaps', srefs)
        /\ (\A v \in Thread : v # t => mapping'[v] = mapping[v]) /\ mapping'[t] = NotMapping
        /\ UNCHANGED <<inits, refs, maps, arg, surfs, surfMgr, srefs>>
    BY <1>2, <1>4, <1>7
  <1>10. Meets(m', WantOf(x, refs, surfs), MapsOf(maps, surfs, smaps', mapping'),
               FlyingOf(pc', arg), PointersOf(m.env, surfs))
    BY <1>2, <1>4, <1>6 DEF w, k, P
  <1> QED BY <1>6, <1>8, <1>9, <1>10, CallStep

\* Every step keeps the invariant, whatever references x others have: only the
\* last tbm_bufmgr_deinit must not come while there are any.
LEMMA StepKeeps ==
    ASSUME NEW x \in Counts, SurfInv(x), SurfaceNext,
           (\A b \in Bo : x[b] = 0) \/ m'.ref_count > 0
    PROVE  SurfInv(x)'
  <1>1. PICK t \in Thread :
          \/ BoStep(t)
          \/ \E s \in Surf, n \in 1 .. MaxBos : \E bs \in BosOf(n) :
               \/ \E ps \in PrivsOf(n) : CreateWithFlags(t, s, bs, ps)
               \/ CreateWithBos(t, s, bs)
          \/ \E s \in Surf, n \in 0 .. MaxBos - 1 : \E bs \in BosOf(n) :
               \/ \E ps \in PrivsOf(n) : CreateWithFlagsFails(t, s, bs, ps)
               \/ CreateWithBosFails(t, s, bs)
          \/ \E s \in Surf :
               SurfRef(t, s) \/ SurfUnref(t, s) \/ SurfMap(t, s) \/ SurfUnmap(t, s)
          \/ QueryFormats(t) \/ QueryFormatsFails(t)
          \/ SurfMapBo(t) \/ SurfMapLock(t)
          \/ SurfBackendLock(t) \/ SurfMapLocked(t)
    BY Zenon DEF SurfaceNext
  <1>2. (\A n \in 1 .. MaxBos : n \in Nat /\ n > 0) /\ (\A n \in 0 .. MaxBos - 1 : n \in Nat)
    BY SurfaceAssumption
  <1>3. CASE BoStep(t)
    BY <1>3, BoStepKeeps
  <1>4. ASSUME NEW s \in Surf, NEW n \in 1 .. MaxBos, NEW bs \in BosOf(n), NEW ps \in PrivsOf(n),
               CreateWithFlags(t, s, bs, ps)
        PROVE  SurfInv(x)'
    BY <1>2, <1>4, CreateWithFlagsKeeps
  <1>5. ASSUME NEW s \in Surf, NEW n \in 1 .. MaxBos, NEW bs \in BosOf(n), CreateWithBos(t, s, bs)
        PROVE  SurfInv(x)'
    BY <1>2, <1>5, CreateWithBosKeeps
  <1>6. ASSUME NEW s \in Surf, NEW n \in 0 .. MaxBos - 1, NEW bs \in BosOf(n), NEW ps \in PrivsOf(n),
               CreateWithFlagsFails(t, s, bs, ps)
        PROVE  SurfInv(x)'
    BY <1>2, <1>6, CreateWithFlagsFailsKeeps
  <1>7. ASSUME NEW s \in Surf, NEW n \in 0 .. MaxBos - 1, NEW bs \in BosOf(n),
               CreateWithBosFails(t, s, bs)
        PROVE  SurfInv(x)'
    BY <1>2, <1>7, CreateWithBosFailsKeeps
  <1>8. ASSUME NEW s \in Surf, SurfRef(t, s) PROVE SurfInv(x)'
    BY <1>8, SurfRefKeeps
  <1>9. ASSUME NEW s \in Surf, SurfUnref(t, s) PROVE SurfInv(x)'
    BY <1>9, SurfUnrefKeeps, SurfDestroyKeeps
  <1>10. ASSUME NEW s \in Surf, SurfMap(t, s) PROVE SurfInv(x)'
    BY <1>10, SurfMapKeeps
  <1>11. ASSUME NEW s \in Surf, SurfUnmap(t, s) PROVE SurfInv(x)'
    BY <1>11, SurfUnmapKeeps
  <1>12. CASE SurfMapBo(t)
    BY <1>12, SurfMapBoKeeps
  <1>13. CASE SurfMapLock(t)
    BY <1>13, SurfMapLockKeeps
  <1>14. CASE SurfBackendLock(t)
    BY <1>14, SurfBackendLockKeeps
  <1>15. CASE SurfMapLocked(t)
    BY <1>15, SurfMapLockedKeeps
  <1>16. CASE QueryFormats(t)
    BY <1>16, QueryFormatsKeeps
  <1>17. CASE QueryFormatsFails(t)
    BY <1>17, QueryFormatsFailsKeeps
  <1> QED BY <1>1, <1>3, <1>4, <1>5, <1>6, <1>7, <1>8, <1>9, <1>10, <1>11, <1>12, <1>13, <1>14,
             <1>15, <1>16, <1>17, Zenon

\* So does a step of something else.
LEMMA StutterKeeps ==
    ASSUME NEW x \in Counts, SurfInv(x), UNCHANGED vars
    PROVE  SurfInv(x)'
  <1>1. UNCHANGED <<m, inits, refs, maps, pc, arg, surfs, surfMgr, srefs, smaps, mapping>>
    BY DEF vars, bufmgrVars, surfVars
  <1>2. Whole(x, m', inits', refs', maps', pc', arg', surfs', surfMgr', srefs', smaps', mapping')
    BY <1>1 DEF SurfInv
  <1> QED BY <1>2 DEF SurfInv

\* Nobody else has references.
NoRefs == [b \in Bo |-> 0]

\* It holds at first.
LEMMA InitHolds ==
    ASSUME SurfaceInit
    PROVE  SurfInv(NoRefs) /\ NoRefs \in Counts
  <1> DEFINE zs == [t \in Thread |-> [s \in Surf |-> 0]]
             zt == [t \in Thread |-> 0]
  <1>1. PICK env \in DOMAIN Envs : m = NewManager(env)
    BY DEF SurfaceInit, BufMgrInit
  <1>2. /\ inits = zt /\ refs = Nobody /\ maps = Nobody
        /\ pc = [t \in Thread |-> "idle"] /\ arg = [t \in Thread |-> NULL]
        /\ surfs = <<>> /\ surfMgr = FALSE /\ srefs = zs /\ smaps = zs
        /\ mapping = [t \in Thread |-> NotMapping]
    BY DEF SurfaceInit, BufMgrInit, NoSurfs
  <1>3. NoRefs \in Counts /\ \A b \in Bo : NoRefs[b] = 0
    BY DEF NoRefs, Counts
  <1>4. /\ inits \in [Thread -> Nat] /\ Nobody \in Table(Bo) /\ zs \in Table(Surf)
        /\ \A t \in Thread, b \in Bo : Nobody[t][b] = 0
    BY <1>2 DEF Nobody, Table
  <1>5. DOMAIN surfs = {} /\ surfs \in SurfTable
    <2>1. DOMAIN surfs = {}
      BY <1>2
    <2>2. surfs \in [{} -> SurfRec]
      BY <1>2, <2>1
    <2> QED BY <2>1, <2>2 DEF SurfTable
  <1>6. Calls0(surfs, mapping) /\ \A t \in Thread : mapping[t] = NotMapping
    BY <1>2 DEF Calls0, Mappings, NotMapping, GoodCall
  <1>7. MapState(maps, surfs, smaps, mapping)
    BY <1>2, <1>4, <1>5, <1>6 DEF MapState
  <1>8. HeldOK(surfs, srefs)
    BY <1>2, <1>5 DEF HeldOK
  <1>9. UsersOf(Bo, maps, refs) /\ UsersOf(Surf, smaps, srefs)
    BY <1>2, <1>4 DEF UsersOf
  <1>10. MappersOK(srefs, mapping) /\ CallersOK(inits, refs, pc, arg, surfs, mapping)
    BY <1>2, <1>6 DEF MappersOK, CallersOK
  <1>11. Clients(inits, refs, maps, pc, arg, surfs, srefs, smaps, mapping)
    <2>1. pc \in [Thread -> {"idle", "lock", "locked"}] /\ arg \in [Thread -> Bo \cup {NULL}]
      BY <1>2
    <2> QED BY <1>2, <1>4, <1>7, <1>8, <1>9, <1>10, <2>1 DEF Clients
  <1>12. m \in Mgr /\ DOMAIN m.bos = {} /\ m.ref_count = 0 /\ m.bo_cnt = 0
         /\ \A p \in Priv : m.held[p] = 0
    <2>1. m.bos = <<>> /\ m.ref_count = 0 /\ m.bo_cnt = 0 /\ m.env = env /\ m.held = [p \in Priv |-> 0]
      BY <1>1 DEF NewManager
    <2>2. m.bos \in BoTable /\ DOMAIN m.bos = {}
      <3>1. m.bos \in [{} -> BoRec]
        BY <2>1
      <3> QED BY <2>1, <3>1 DEF BoTable
    <2>3. m = [ref_count |-> m.ref_count, bos |-> m.bos, bo_cnt |-> m.bo_cnt, held |-> m.held, env |-> m.env]
      BY <1>1 DEF NewManager
    <2>4. m.ref_count \in Nat /\ m.bo_cnt \in Nat /\ m.held \in [Priv -> Int] /\ m.env \in DOMAIN Envs
      BY <2>1
    <2>5. m \in Mgr
      BY <2>2, <2>3, <2>4 DEF Mgr
    <2> QED BY <2>1, <2>2, <2>5
  <1>13. FlyingOf(pc, arg) \in Counts /\ \A b \in Bo : FlyingOf(pc, arg)[b] = 0
    BY <1>2, FlyCounts
  <1>14. \A b \in Bo : WantOf(NoRefs, refs, surfs)[b] = 0
    <2>1. WantOf(NoRefs, Nobody, surfs) = NoRefs
      BY <1>3, <1>5, NothingWanted
    <2> QED BY <1>2, <1>3, <2>1
  <1>15. \A b \in Bo : MapsOf(maps, surfs, smaps, mapping)[b] = 0
    BY <1>3, <1>11, <1>14, Unused
  <1>16. Meets(m, WantOf(NoRefs, refs, surfs), MapsOf(maps, surfs, smaps, mapping),
               FlyingOf(pc, arg), PointersOf(m.env, surfs))
    <2>1. RefsMeet(m, WantOf(NoRefs, refs, surfs)) /\ MapsMeet(m, MapsOf(maps, surfs, smaps, mapping))
      BY <1>12, <1>14, <1>15 DEF RefsMeet, MapsMeet
    <2>2. PrivsMeet(m) /\ BackMeet(m, PointersOf(m.env, surfs))
      BY <1>12 DEF PrivsMeet, BackMeet
    <2>3. CountMeets(m)
      BY <1>12, FS_EmptySet DEF CountMeets
    <2>4. LocksMeet(m, FlyingOf(pc, arg))
      BY <1>12, <1>13 DEF LocksMeet
    <2> QED BY <1>12, <2>1, <2>2, <2>3, <2>4 DEF Meets
  <1>17. LockOK(m, pc, arg)
    BY <1>2 DEF LockOK
  <1>18. RefCountOK(m.ref_count, inits, surfs, surfMgr)
    <2>1. SumFunction(inits) = 0
      <3>1. inits \in [Thread -> {0}]
        BY <1>2
      <3> QED BY <3>1, ThreadsFinite, SumZero
    <2> QED BY <1>2, <1>5, <1>12, <2>1 DEF RefCountOK
  <1> QED BY <1>2, <1>3, <1>11, <1>16, <1>17, <1>18 DEF SurfInv, Whole, MgrOK

\* What the invariant says of each property.
LEMMA InvSays ==
    ASSUME NEW x \in Counts, SurfInv(x)
    PROVE  /\ Clients(inits, refs, maps, pc, arg, surfs, srefs, smaps, mapping)
           /\ RefCountOK(m.ref_count, inits, surfs, surfMgr)
           /\ MgrOK(x, m, refs, maps, pc, arg, surfs, smaps, mapping)
           /\ Meets(m, WantOf(x, refs, surfs), MapsOf(maps, surfs, smaps, mapping),
                    FlyingOf(pc, arg), PointersOf(m.env, surfs))
           /\ Live \in SUBSET Bo
           /\ refs \in Table(Bo) /\ maps \in Table(Bo)
           /\ surfs \in SurfTable /\ smaps \in Table(Surf) /\ Calls0(surfs, mapping)
           /\ HeldOK(surfs, srefs)
           /\ MappersOK(srefs, mapping) /\ CallersOK(inits, refs, pc, arg, surfs, mapping)
  <1>1. /\ Clients(inits, refs, maps, pc, arg, surfs, srefs, smaps, mapping)
        /\ RefCountOK(m.ref_count, inits, surfs, surfMgr)
        /\ MgrOK(x, m, refs, maps, pc, arg, surfs, smaps, mapping)
    BY DEF SurfInv, Whole
  <1>2. Meets(m, WantOf(x, refs, surfs), MapsOf(maps, surfs, smaps, mapping),
              FlyingOf(pc, arg), PointersOf(m.env, surfs))
    BY <1>1 DEF MgrOK
  <1>3. m \in Mgr
    BY <1>2 DEF Meets
  <1>4. Live \in SUBSET Bo
    BY <1>3, MgrFields DEF Live
  <1> QED BY <1>1, <1>2, <1>4, ClientsHave

LEMMA InvWindowSafe ==
    ASSUME NEW x \in Counts, SurfInv(x)
    PROVE  WindowSafe
  <1> SUFFICES ASSUME NEW t \in Thread, pc[t] # "idle" PROVE arg[t] \in DOMAIN m.bos
    BY DEF WindowSafe, Live
  <1>1. /\ Clients(inits, refs, maps, pc, arg, surfs, srefs, smaps, mapping)
        /\ MgrOK(x, m, refs, maps, pc, arg, surfs, smaps, mapping)
        /\ Calls0(surfs, mapping) /\ surfs \in SurfTable
        /\ CallersOK(inits, refs, pc, arg, surfs, mapping)
    BY InvSays
  <1>2. arg[t] \in Bo
    <2>1. CASE mapping[t] = NotMapping
      BY <1>1, <2>1 DEF CallersOK
    <2>2. CASE mapping[t] # NotMapping
      <3> DEFINE s == mapping[t].surf
                 i == mapping[t].i
      <3>1. s \in DOMAIN surfs /\ i \in 1 .. Len(surfs[s].bos)
        BY <1>1, <2>2 DEF Calls0, GoodCall
      <3>2. surfs[s].bos \in Seq(Bo)
        BY <1>1, <3>1, SurfFields
      <3>3. arg[t] = surfs[s].bos[i]
        BY <1>1, <2>2 DEF CallersOK
      <3> HIDE DEF s, i
      <3> QED BY <3>1, <3>2, <3>3
    <2> QED BY <2>1, <2>2
  <1> QED BY <1>1, <1>2, LiveBos

LEMMA InvSurfBosLive ==
    ASSUME NEW x \in Counts, SurfInv(x), NEW s \in LiveSurfs, NEW i \in 1 .. Len(surfs[s].bos)
    PROVE  surfs[s].bos[i] \in Live
  <1>1. /\ Clients(inits, refs, maps, pc, arg, surfs, srefs, smaps, mapping)
        /\ MgrOK(x, m, refs, maps, pc, arg, surfs, smaps, mapping)
        /\ surfs \in SurfTable /\ s \in DOMAIN surfs
    BY InvSays DEF LiveSurfs
  <1> DEFINE bs == surfs[s].bos
             b == bs[i]
  <1>2. bs \in Seq(Bo)
    BY <1>1, SurfFields
  <1>3. b \in Bo /\ 0 \in 0 .. Len(bs)
    <2> HIDE DEF bs
    <2> QED BY <1>2 DEF bs
  <1>4. Times(b, bs) > 0
    <2>1. \E j \in 1 .. Len(bs) : bs[j] = b
      OBVIOUS
    <2> HIDE DEF b, bs
    <2> QED BY <1>2, <1>3, <2>1, OfFirstTimes
  <1>5. \A q \in DOMAIN surfs : Times(b, surfs[q].bos) > 0 => b \in DOMAIN m.bos
    <2> HIDE DEF b, bs
    <2> QED BY <1>1, <1>3, LiveBos
  <1> QED BY <1>1, <1>4, <1>5 DEF Live

LEMMA InvRefCounts ==
    ASSUME NEW x \in Counts, SurfInv(x), NEW b \in Live
    PROVE  /\ m.bos[b].ref_cnt = x[b] + RefsTo(b) + SurfRefsTo(b)
           /\ b \in Bo /\ x[b] \in Nat /\ RefsTo(b) \in Nat /\ SurfRefsTo(b) \in Nat
  <1>1. /\ Meets(m, WantOf(x, refs, surfs), MapsOf(maps, surfs, smaps, mapping),
                 FlyingOf(pc, arg), PointersOf(m.env, surfs))
        /\ refs \in Table(Bo) /\ surfs \in SurfTable /\ b \in Bo
    BY InvSays
  <1>2. m.bos[b].ref_cnt = WantOf(x, refs, surfs)[b]
    BY <1>1 DEF Meets, RefsMeet, Live
  <1>3. /\ WantOf(x, refs, surfs)[b] = x[b] + RefsIn(refs, b) + SurfRefsIn(surfs, b)
        /\ x[b] \in Nat /\ RefsIn(refs, b) \in Nat /\ SurfRefsIn(surfs, b) \in Nat
    BY <1>1, WantCounts
  <1>4. RefsTo(b) = RefsIn(refs, b)
    BY DEF RefsTo, RefsIn
  <1>5. SurfRefsTo(b) = SurfRefsIn(surfs, b)
    BY DEF SurfRefsTo, SurfRefsIn, LiveSurfs
  <1> QED BY <1>1, <1>2, <1>3, <1>4, <1>5

LEMMA InvManagerRefs ==
    ASSUME NEW x \in Counts, SurfInv(x)
    PROVE  SharedManagerRefs
  <1>1. RefCountOK(m.ref_count, inits, surfs, surfMgr)
    BY InvSays
  <1> QED BY <1>1 DEF RefCountOK, SharedManagerRefs, LiveSurfs

LEMMA InvSurfacesHeld ==
    ASSUME NEW x \in Counts, SurfInv(x)
    PROVE  SurfacesHeld
  <1>1. HeldOK(surfs, srefs) /\ Calls0(surfs, mapping) /\ surfs \in SurfTable
    BY InvSays
  <1>2. ASSUME NEW s \in LiveSurfs
        PROVE  surfs[s].refcnt = SumFunction([t \in Thread |-> srefs[t][s]])
    <2>1. s \in DOMAIN surfs /\ s \in Surf
      BY <1>1, SurfFields DEF LiveSurfs
    <2>2. surfs[s].refcnt = RefsIn(srefs, s)
      BY <1>1, <2>1 DEF HeldOK
    <2> QED BY <2>2 DEF RefsIn
  <1>3. ASSUME NEW t \in Thread, mapping[t] # NotMapping PROVE mapping[t].surf \in LiveSurfs
    BY <1>1, <1>3 DEF Calls0, GoodCall, LiveSurfs
  <1> QED BY <1>2, <1>3 DEF SurfacesHeld

LEMMA InvMapCounts ==
    ASSUME NEW x \in Counts, SurfInv(x)
    PROVE  MapAllOrNothing
  <1> SUFFICES ASSUME NEW b \in Live
               PROVE  m.bos[b].map_cnt =
                        SumFunction([t \in Thread |-> maps[t][b] + SurfMapsOf(t, b)])
    BY DEF MapAllOrNothing
  <1>1. /\ Meets(m, WantOf(x, refs, surfs), MapsOf(maps, surfs, smaps, mapping),
                 FlyingOf(pc, arg), PointersOf(m.env, surfs))
        /\ b \in Bo /\ maps \in Table(Bo) /\ surfs \in SurfTable /\ smaps \in Table(Surf)
        /\ Calls0(surfs, mapping)
    BY InvSays
  <1> DEFINE T == Terms(maps, surfs, smaps, mapping)
  <1>2. m.bos[b].map_cnt = MapsOf(maps, surfs, smaps, mapping)[b]
    BY <1>1 DEF Meets, MapsMeet, Live
  <1>3. MapsOf(maps, surfs, smaps, mapping)[b] = RefsIn(T, b)
    BY <1>1 DEF MapsOf
  <1>4. ASSUME NEW t \in Thread PROVE T[t][b] = maps[t][b] + SurfMapsOf(t, b)
    <2>1. T[t][b] = TermOf(maps, surfs, smaps, mapping, t, b)
      BY <1>1 DEF Terms
    <2>2. SurfMapsIn(surfs, smaps[t], b)
            = SumFunction([s \in LiveSurfs |-> smaps[t][s] * Times(b, surfs[s].bos)])
      BY DEF SurfMapsIn, LiveSurfs
    <2>3. CallMaps(surfs, mapping[t], b)
            = IF mapping[t] = NotMapping THEN 0 ELSE Times(b, MappedSoFar(t))
      BY DEF CallMaps, MappedSoFar
    <2>4. SurfMapsOf(t, b) = SurfMapsIn(surfs, smaps[t], b) + CallMaps(surfs, mapping[t], b)
      BY <2>2, <2>3 DEF SurfMapsOf
    <2> QED BY <2>1, <2>4 DEF TermOf
  <1> HIDE DEF T
  <1>5. [t \in Thread |-> T[t][b]] = [t \in Thread |-> maps[t][b] + SurfMapsOf(t, b)]
    BY <1>4
  <1> QED BY <1>2, <1>3, <1>5 DEF RefsIn

LEMMA InvBackPointers ==
    ASSUME NEW x \in Counts, SurfInv(x)
    PROVE  BackPointers
  <1> SUFFICES ASSUME NEW b \in Live, ~Bound.null_bos, m.bos[b].surface # NULL
               PROVE  /\ m.bos[b].surface \in LiveSurfs
                      /\ Times(b, surfs[m.bos[b].surface].bos) > 0
    BY DEF BackPointers
  <1>1. /\ Meets(m, WantOf(x, refs, surfs), MapsOf(maps, surfs, smaps, mapping),
                 FlyingOf(pc, arg), PointersOf(m.env, surfs))
        /\ b \in Bo
    BY InvSays
  <1> DEFINE s == m.bos[b].surface
  <1>2. m \in Mgr /\ <<b, s>> \in PointersOf(m.env, surfs)
    BY <1>1 DEF Meets, BackMeet, Live
  <1>3. s \in Surf
    BY <1>2 DEF PointersOf
  <1>4. ~Envs[m.env].null_bos
    BY DEF Bound
  <1> HIDE DEF s
  <1>5. s \in DOMAIN surfs /\ Times(b, surfs[s].bos) > 0
    BY <1>1, <1>2, <1>3, <1>4, PointerIn
  <1> QED BY <1>5 DEF s, LiveSurfs

LEMMA InvCount ==
    ASSUME NEW x \in Counts, SurfInv(x), ~SurfaceBoAlloc
    PROVE  CountExact
  <1>1. CountMeets(m)
    BY InvSays DEF Meets
  <1> QED BY <1>1 DEF CountMeets, CountExact, Live

LEMMA InvLocks ==
    ASSUME NEW x \in Counts, SurfInv(x), \A env \in DOMAIN Envs : LocksKept(env)
    PROVE  LockBalance
  <1> DEFINE k == FlyingOf(pc, arg)
  <1>1. Meets(m, WantOf(x, refs, surfs), MapsOf(maps, surfs, smaps, mapping), k,
              PointersOf(m.env, surfs))
    BY InvSays
  <1>2. m \in Mgr /\ PrivsMeet(m) /\ LocksMeet(m, k)
    BY <1>1 DEF Meets
  <1>3. LocksKept(m.env) /\ Live \in SUBSET Bo
    <2>1. Live \in SUBSET Bo
      BY InvSays
    <2>2. m.env \in DOMAIN Envs
      BY <1>2 DEF Mgr
    <2> QED BY <2>1, <2>2
  <1>4. ASSUME NEW b \in Live
        PROVE  m.held[m.bos[b].priv] = Counted(b) + InFlight(b)
    <2>1. b \in Bo /\ b \in DOMAIN m.bos
      BY <1>3 DEF Live
    <2>2. LockMeets(m, b, k[b])
      <3> HIDE DEF k
      <3> QED BY <1>2, <1>3, <2>1 DEF LocksMeet
    <2>3. k[b] = InFlight(b) /\ k[b] \in Nat
      <3>1. k[b] = Cardinality(FlyersOf(pc, arg, b)) /\ k[b] \in Nat
        BY <2>1, FlyCounts
      <3> QED BY <3>1 DEF FlyersOf, InFlight
    <2>4. m.bos[b].lock_cnt \in Int
      BY <1>2, <2>1, MgrFields DEF BoRec
    <2> DEFINE l == m.bos[b].lock_cnt
               n == k[b]
    <2>5. m.held[m.bos[b].priv] = l + n
      BY <2>2 DEF LockMeets
    <2>6. /\ LockType(m) = "TRY_ONCE" => l >= 0 /\ l + n <= 1
          /\ LockType(m) = "TRY_NEVER" => l = 0 /\ n = 0
      BY <2>2 DEF LockMeets
    <2>7. LockType(m) \in {"TRY_ALWAYS", "TRY_ONCE", "TRY_NEVER"}
      BY DEF LockType
    <2>8. Counted(b) = l
      <3>1. l \in Int /\ n \in Nat
        BY <2>3, <2>4
      <3>2. CASE LockType(m) = "TRY_ALWAYS"
        BY <3>2 DEF Counted
      <3>3. CASE LockType(m) = "TRY_NEVER"
        BY <2>6, <3>3 DEF Counted
      <3>4. CASE LockType(m) = "TRY_ONCE"
        <4>1. Counted(b) = IF l > 0 THEN 1 ELSE 0
          BY <3>4 DEF Counted
        <4> HIDE DEF l, n, k
        <4>2. l = 0 \/ l = 1
          BY <2>6, <3>1, <3>4
        <4> QED BY <4>1, <4>2
      <3> QED BY <2>7, <3>2, <3>3, <3>4
    <2> HIDE DEF l, n
    <2> QED BY <2>3, <2>5, <2>8 DEF n
  <1>5. \A b, c \in Live : m.bos[b].priv = m.bos[c].priv => b = c
    BY <1>2 DEF PrivsMeet, Live
  <1>6. \A p \in Priv \ PrivsInUse(m) : m.held[p] = 0
    BY <1>2, <1>3 DEF LocksMeet
  <1> QED BY <1>4, <1>5, <1>6 DEF LockBalance

\* The inductive invariant holds: the manager meets what clients and surfaces
\* want of it, in every state of threads in the calls of tbm_bufmgr.c and
\* tbm_surface_internal.c.
THEOREM SurfaceInvariant == SurfaceSpec => []SurfInv(NoRefs)
  <1>1. SurfaceInit => SurfInv(NoRefs)
    BY InitHolds
  <1>2. NoRefs \in Counts /\ \A b \in Bo : NoRefs[b] = 0
    BY DEF NoRefs, Counts
  <1>3. SurfInv(NoRefs) /\ [SurfaceNext]_vars => SurfInv(NoRefs)'
    BY <1>2, StepKeeps, StutterKeeps
  <1> QED BY <1>1, <1>3, PTL DEF SurfaceSpec

\* A bo is alive while a thread is in the backend's bo_lock with it, where
\* tbm_bo_map and tbm_surface_map have left the mutex: no unref of another
\* thread frees it, for the caller, or the surface it holds, has a reference.
THEOREM WindowIsSafe == SurfaceSpec => []WindowSafe
  <1>1. SurfInv(NoRefs) => WindowSafe
    BY InvWindowSafe DEF NoRefs, Counts
  <1> QED BY <1>1, SurfaceInvariant, PTL

\* ref_cnt of a bo is the number of references that threads and surfaces hold,
\* through tbm_bo_ref and tbm_bo_unref, the creation and destruction of
\* surfaces and their failures halfway, and no bo of a surface is freed.
THEOREM SharedRefsAreExact == SurfaceSpec => []SharedRefExact
  <1>1. ASSUME SurfInv(NoRefs) PROVE SharedRefExact
    <2>1. NoRefs \in Counts /\ \A b \in Bo : NoRefs[b] = 0
      BY DEF NoRefs, Counts
    <2>2. ASSUME NEW b \in Live PROVE m.bos[b].ref_cnt = RefsTo(b) + SurfRefsTo(b)
      <3>1. /\ m.bos[b].ref_cnt = NoRefs[b] + RefsTo(b) + SurfRefsTo(b)
            /\ b \in Bo /\ RefsTo(b) \in Nat /\ SurfRefsTo(b) \in Nat
        BY <1>1, <2>1, InvRefCounts
      <3> QED BY <2>1, <3>1
    <2>3. ASSUME NEW s \in LiveSurfs, NEW i \in 1 .. Len(surfs[s].bos)
          PROVE  surfs[s].bos[i] \in Live
      BY <1>1, <2>1, InvSurfBosLive
    <2> QED BY <2>2, <2>3 DEF SharedRefExact
  <1> QED BY <1>1, SurfaceInvariant, PTL

\* ref_count of the manager is the number of tbm_bufmgr_init calls not yet
\* undone and, where surfaces initialised it, one for all of these.
THEOREM ManagerRefsAreShared == SurfaceSpec => []SharedManagerRefs
  <1>1. SurfInv(NoRefs) => SharedManagerRefs
    BY InvManagerRefs DEF NoRefs, Counts
  <1> QED BY <1>1, SurfaceInvariant, PTL

\* A surface lives exactly as long as threads hold it: refcnt is the number of
\* their references, and a surface that tbm_surface_map is at with no lock held
\* is not freed by tbm_surface_internal_unref in another thread.
THEOREM SurfacesAreHeld == SurfaceSpec => []SurfacesHeld
  <1>1. SurfInv(NoRefs) => SurfacesHeld
    BY InvSurfacesHeld DEF NoRefs, Counts
  <1> QED BY <1>1, SurfaceInvariant, PTL

\* map_cnt of a bo is the number of mappings that are in use: a failure of
\* tbm_surface_map at one bo undoes the earlier ones, whatever other threads
\* map meanwhile.
THEOREM MappingIsAllOrNothing == SurfaceSpec => []MapAllOrNothing
  <1>1. SurfInv(NoRefs) => MapAllOrNothing
    BY InvMapCounts DEF NoRefs, Counts
  <1> QED BY <1>1, SurfaceInvariant, PTL

\* The surface that a bo points back to is alive and has the bo, unless a
\* creation failed on a NULL bo.
THEOREM BackPointersLead == SurfaceSpec => []BackPointers
  <1>1. SurfInv(NoRefs) => BackPointers
    BY InvBackPointers DEF NoRefs, Counts
  <1> QED BY <1>1, SurfaceInvariant, PTL

\* bo_cnt is the number of live bos where tbm_bo_alloc makes the bos of
\* surfaces; a backend that allocates them itself has them uncounted.
THEOREM BoCountIsExact ==
    ASSUME ~SurfaceBoAlloc
    PROVE  SurfaceSpec => []CountExact
  <1>1. SurfInv(NoRefs) => CountExact
    BY InvCount DEF NoRefs, Counts
  <1> QED BY <1>1, SurfaceInvariant, PTL

\* Each backend lock is one that lock_cnt counts or that a thread has just
\* taken, where clients swap no locked bos and, for locks taken once for all
\* mappings, there is one thread: two of them can take the lock twice.
THEOREM LocksAreBalanced ==
    ASSUME \A env \in DOMAIN Envs : LocksKept(env)
    PROVE  SurfaceSpec => []LockBalance
  <1>1. SurfInv(NoRefs) => LockBalance
    BY InvLocks DEF NoRefs, Counts
  <1> QED BY <1>1, SurfaceInvariant, PTL
-----------------------------------------------------------------------------
(* The ring of dump buffers.                                               *)

\* The remainder of a division.
LEMMA Divided ==
    ASSUME NEW a \in Nat, NEW n \in Nat \ {0}
    PROVE  /\ a % n \in Nat /\ a % n < n /\ a \div n \in Int
           /\ a = n * (a \div n) + (a % n)
           /\ n * ((a \div n) + 1) = n * (a \div n) + n
           /\ n * (a \div n) \in Int
OBVIOUS

LEMMA Remainder ==
    ASSUME NEW q \in Int, NEW r \in Nat, NEW n \in Nat \ {0}, r < n
    PROVE  (n * q + r) % n = r
OBVIOUS

LEMMA ModAhead ==
    ASSUME NEW a \in Nat, NEW d \in Nat, NEW n \in Nat \ {0}, d <= n
    PROVE  (a + d) % n = IF (a % n) + d < n THEN (a % n) + d ELSE (a % n) + d - n
  <1> DEFINE q == a \div n
             r == a % n
  <1>1. /\ r \in Nat /\ r < n /\ q \in Int /\ a = n * q + r
        /\ n * (q + 1) = n * q + n /\ n * q \in Int
    BY Divided
  <1> HIDE DEF q, r
  <1>2. CASE r + d < n
    <2>1. a + d = n * q + (r + d) /\ r + d \in Nat
      BY <1>1
    <2>2. (n * q + (r + d)) % n = r + d
      BY <1>1, <1>2, <2>1, Remainder
    <2>3. (a + d) % n = r + d
      BY <2>1, <2>2, Zenon
    <2> QED BY <1>2, <2>3 DEF r
  <1>3. CASE ~(r + d < n)
    <2> DEFINE e == r + d - n
    <2>1. a + d = n * (q + 1) + e /\ e \in Nat /\ e < n /\ q + 1 \in Int
      BY <1>1, <1>3
    <2> HIDE DEF e
    <2>2. (n * (q + 1) + e) % n = e
      BY <2>1, Remainder
    <2>3. (a + d) % n = e
      BY <2>1, <2>2, Zenon
    <2> QED BY <1>3, <2>3 DEF r, e
  <1> QED BY <1>2, <1>3

\* The dump buffers, and the place of frame k in a ring.
Buffer == [bo : Bo, number : Nat, pixels : Int, info : Int, dirty : BOOLEAN, dirty_shm : BOOLEAN]
Slot(r, k) == (k % Len(r)) + 1

\* What a ring r holds after f frames: the one that is next in turn may be
\* spoilt, the others are intact.
Latest(r, f) ==
    /\ r \in Seq(Buffer) /\ Len(r) > 0
    /\ \A k \in 0 .. f - 1 : k + Len(r) > f =>
         Intact(r[Slot(r, k)], k) /\ r[Slot(r, k)].info \in {k, None}
    /\ f >= Len(r) => /\ r[Slot(r, f)].pixels \in {f - Len(r), None}
                      /\ r[Slot(r, f)].info \in {f - Len(r), None}
    /\ \A i \in 1 .. Len(r) : r[i].dirty \/ r[i].dirty_shm <=> i <= f

\* The invariant of the dump: the ring holds the latest frames, link and count
\* follow their number.
DumpInv ==
    /\ frames \in Nat
    /\ Running =>
         /\ dump \in [ring : Seq(Buffer), link : Nat, count : Nat]
         /\ Latest(dump.ring, frames)
         /\ dump.link = IF frames = 0 THEN 0 ELSE Slot(dump.ring, frames - 1)
         /\ dump.count = frames % CountMod

\* The places of frames in a ring.
LEMMA Slots ==
    ASSUME NEW r, r \in Seq(Buffer), Len(r) > 0, NEW f \in Nat
    PROVE  /\ Slot(r, f) \in 1 .. Len(r) /\ Len(r) \in Nat \ {0}
           /\ f < Len(r) => Slot(r, f) = f + 1
           /\ Slot(r, f + 1) = (Slot(r, f) % Len(r)) + 1
           /\ \A k \in Nat : k < f /\ f - k < Len(r) => Slot(r, k) # Slot(r, f)
           /\ f >= Len(r) => Slot(r, f - Len(r)) = Slot(r, f)
  <1> DEFINE n == Len(r)
  <1>1. n \in Nat \ {0}
    OBVIOUS
  <1> HIDE DEF n
  <1>2. f % n \in Nat /\ f % n < n
    BY <1>1, Divided
  <1>3. f < n => f % n = f
    BY <1>1
  <1>4. ((f + 1) % n) = ((f % n) + 1) % n
    <2>1. (f + 1) % n = IF (f % n) + 1 < n THEN (f % n) + 1 ELSE (f % n) + 1 - n
      BY <1>1, ModAhead, 1 \in Nat, 1 <= n
    <2>2. CASE (f % n) + 1 < n
      <3>1. ((f % n) + 1) % n = (f % n) + 1
        <4> DEFINE z == (f % n) + 1
        <4>1. z \in Nat /\ z < n
          BY <1>2, <2>2
        <4> HIDE DEF z
        <4> QED BY <1>1, <4>1 DEF z
      <3> QED BY <2>1, <2>2, <3>1
    <2>3. CASE ~((f % n) + 1 < n)
      <3>1. (f % n) + 1 = n
        BY <1>1, <1>2, <2>3
      <3>2. n % n = 0
        BY <1>1
      <3> QED BY <1>1, <2>1, <2>3, <3>1, <3>2
    <2> QED BY <2>2, <2>3
  <1>5. ASSUME NEW k \in Nat, k < f, f - k < n PROVE k % n # f % n
    <2> DEFINE d == f - k
    <2>1. d \in Nat /\ d <= n /\ 0 < d /\ d < n /\ f = k + d
      BY <1>1, <1>5
    <2> HIDE DEF d
    <2>2. (k + d) % n = IF (k % n) + d < n THEN (k % n) + d ELSE (k % n) + d - n
      BY <1>1, <2>1, ModAhead
    <2>3. k % n \in Nat
      BY <1>1, Divided
    <2>4. f % n = IF (k % n) + d < n THEN (k % n) + d ELSE (k % n) + d - n
      BY <2>1, <2>2, Zenon
    <2> QED BY <1>1, <2>1, <2>3, <2>4
  <1>6. ASSUME f >= n PROVE (f - n) % n = f % n
    <2> DEFINE k == f - n
    <2>1. k \in Nat /\ f = k + n /\ n <= n
      BY <1>1, <1>6
    <2> HIDE DEF k
    <2>2. (k + n) % n = IF (k % n) + n < n THEN (k % n) + n ELSE (k % n) + n - n
      BY <1>1, <2>1, ModAhead
    <2>3. k % n \in Nat
      BY <1>1, <2>1, Divided
    <2>4. f % n = IF (k % n) + n < n THEN (k % n) + n ELSE (k % n) + n - n
      BY <2>1, <2>2, Zenon
    <2> QED BY <1>1, <2>3, <2>4 DEF k
  <1>7. \A k : Slot(r, k) = (k % n) + 1
    BY DEF Slot, n
  <1>8. \A k \in Nat : k % n \in Nat
    BY <1>1, Divided
  <1>9. Slot(r, f) \in 1 .. n /\ (f < n => Slot(r, f) = f + 1)
    BY <1>1, <1>2, <1>3, <1>7
  <1>10. Slot(r, f + 1) = (Slot(r, f) % n) + 1
    BY <1>4, <1>7
  <1>11. ASSUME NEW k \in Nat, k < f, f - k < n PROVE Slot(r, k) # Slot(r, f)
    BY <1>2, <1>5, <1>7, <1>8, <1>11
  <1>12. f >= n => Slot(r, f - n) = Slot(r, f)
    BY <1>6, <1>7
  <1> QED BY <1>1, <1>9, <1>10, <1>11, <1>12 DEF n

\* The ring with another entry.
Replaced(r, i, e) == [r EXCEPT ![i] = e]

LEMMA ReplacedIs ==
    ASSUME NEW r, r \in Seq(Buffer), NEW i \in 1 .. Len(r), NEW e \in Buffer
    PROVE  /\ Replaced(r, i, e) \in Seq(Buffer) /\ Len(Replaced(r, i, e)) = Len(r)
           /\ Replaced(r, i, e)[i] = e
           /\ \A j \in 1 .. Len(r) : j # i => Replaced(r, i, e)[j] = r[j]
           /\ \A k : Slot(Replaced(r, i, e), k) = Slot(r, k)
  <1>1. Replaced(r, i, e) \in Seq(Buffer) /\ Len(Replaced(r, i, e)) = Len(r)
    BY DEF Replaced
  <1>2. Replaced(r, i, e)[i] = e /\ \A j \in 1 .. Len(r) : j # i => Replaced(r, i, e)[j] = r[j]
    BY DEF Replaced
  <1> QED BY <1>1, <1>2 DEF Slot

\* A frame that is dropped at the next buffer.
LEMMA SpoilLatest ==
    ASSUME NEW r, NEW f \in Nat, Latest(r, f), NEW e \in Buffer,
           e.pixels \in {r[Slot(r, f)].pixels, None}, e.info = None,
           e.dirty = r[Slot(r, f)].dirty, e.dirty_shm = r[Slot(r, f)].dirty_shm
    PROVE  Latest(Replaced(r, Slot(r, f), e), f)
  <1> DEFINE i == Slot(r, f)
             q == Replaced(r, i, e)
             n == Len(r)
  <1>1. r \in Seq(Buffer) /\ n > 0
    BY DEF Latest
  <1>2. i \in 1 .. n /\ n \in Nat /\ \A k \in Nat : Slot(r, k) \in 1 .. n
    BY <1>1, Slots
  <1>3. /\ q \in Seq(Buffer) /\ Len(q) = n /\ q[i] = e
        /\ \A j \in 1 .. n : j # i => q[j] = r[j]
        /\ \A k : Slot(q, k) = Slot(r, k)
    <2> HIDE DEF i
    <2> QED BY <1>1, <1>2, ReplacedIs, ZenonT(30)
  <1>4. \A k \in Nat : k < f /\ f - k < n => Slot(r, k) # i
    BY <1>1, Slots
  <1>5. ASSUME NEW k \in 0 .. f - 1, k + n > f
        PROVE  Intact(q[Slot(q, k)], k) /\ q[Slot(q, k)].info \in {k, None}
    <2>1. k \in Nat /\ k < f /\ f - k < n
      <3> HIDE DEF i, q, n
      <3> QED BY <1>2, <1>5
    <2>2. q[Slot(q, k)] = r[Slot(r, k)]
      <3> HIDE DEF i, q, n
      <3> QED BY <1>2, <1>3, <1>4, <2>1
    <2>3. Intact(r[Slot(r, k)], k) /\ r[Slot(r, k)].info \in {k, None}
      BY <1>5 DEF Latest
    <2> HIDE DEF q
    <2> QED BY <2>2, <2>3
  <1>6. f >= n => q[Slot(q, f)].pixels \in {f - n, None} /\ q[Slot(q, f)].info \in {f - n, None}
    <2>1. f >= n => r[i].pixels \in {f - n, None}
      BY DEF Latest
    <2>2. q[Slot(q, f)] = e
      BY <1>3
    <2> HIDE DEF q, n, i
    <2>3. e.pixels \in {r[i].pixels, None}
      BY DEF i
    <2> QED BY <2>1, <2>2, <2>3
  <1>7. ASSUME NEW j \in 1 .. n PROVE q[j].dirty \/ q[j].dirty_shm <=> j <= f
    <2>1. r[j].dirty \/ r[j].dirty_shm <=> j <= f
      BY DEF Latest
    <2>2. e.dirty = r[i].dirty /\ e.dirty_shm = r[i].dirty_shm
      OBVIOUS
    <2> HIDE DEF q, i, n
    <2> QED BY <1>2, <1>3, <2>1, <2>2
  <1>8. Latest(q, f)
    <2> HIDE DEF q, i
    <2> QED BY <1>1, <1>3, <1>5, <1>6, <1>7 DEF Latest
  <1> QED BY <1>8

\* A frame that is stored.
LEMMA StoreLatest ==
    ASSUME NEW r, NEW f \in Nat, Latest(r, f), NEW e \in Buffer, Intact(e, f), e.info \in {f, None}
    PROVE  Latest(Replaced(r, Slot(r, f), e), f + 1)
  <1> DEFINE i == Slot(r, f)
             q == Replaced(r, i, e)
             n == Len(r)
  <1>1. r \in Seq(Buffer) /\ n > 0
    BY DEF Latest
  <1>2. i \in 1 .. n /\ n \in Nat /\ \A k \in Nat : Slot(r, k) \in 1 .. n
    BY <1>1, Slots
  <1>3. /\ q \in Seq(Buffer) /\ Len(q) = n /\ q[i] = e
        /\ \A j \in 1 .. n : j # i => q[j] = r[j]
        /\ \A k : Slot(q, k) = Slot(r, k)
    <2> HIDE DEF i
    <2> QED BY <1>1, <1>2, ReplacedIs, ZenonT(30)
  <1>4. \A k \in Nat : k < f /\ f - k < n => Slot(r, k) # i
    BY <1>1, Slots
  <1>5. ASSUME NEW k \in Nat, k <= f, k + n > f
        PROVE  Intact(q[Slot(q, k)], k) /\ q[Slot(q, k)].info \in {k, None}
    <2>1. CASE k = f
      <3>1. q[Slot(q, k)] = e
        BY <1>3, <2>1
      <3> HIDE DEF q
      <3> QED BY <2>1, <3>1
    <2>2. CASE k # f
      <3>1. k \in 0 .. f - 1 /\ k < f /\ f - k < n
        BY <1>2, <1>5, <2>2
      <3>2. q[Slot(q, k)] = r[Slot(r, k)]
        <4> HIDE DEF i, q, n
        <4> QED BY <1>2, <1>3, <1>4, <3>1
      <3>3. Intact(r[Slot(r, k)], k) /\ r[Slot(r, k)].info \in {k, None}
        BY <1>5, <3>1 DEF Latest
      <3> HIDE DEF q
      <3> QED BY <3>2, <3>3
    <2> QED BY <2>1, <2>2
  <1>6. ASSUME f + 1 >= n
        PROVE  /\ q[Slot(q, f + 1)].pixels \in {f + 1 - n, None}
               /\ q[Slot(q, f + 1)].info \in {f + 1 - n, None}
    <2> DEFINE k == f + 1 - n
    <2>1. k \in Nat /\ k <= f /\ k + n > f /\ f + 1 \in Nat
      BY <1>1, <1>2, <1>6
    <2>2. Slot(q, k) = Slot(q, f + 1)
      <3>1. Slot(r, f + 1 - n) = Slot(r, f + 1)
        BY <1>1, <1>6, <2>1, Slots
      <3> HIDE DEF q
      <3> QED BY <1>3, <3>1
    <2>3. Intact(q[Slot(q, k)], k) /\ q[Slot(q, k)].info \in {k, None}
      <3> HIDE DEF q, k
      <3> QED BY <1>5, <2>1
    <2>4. q[Slot(q, k)].pixels = k
      BY <2>3 DEF Intact
    <2> HIDE DEF q
    <2> QED BY <2>2, <2>3, <2>4
  <1>7. ASSUME NEW j \in 1 .. n PROVE q[j].dirty \/ q[j].dirty_shm <=> j <= f + 1
    <2>1. r[j].dirty \/ r[j].dirty_shm <=> j <= f
      BY DEF Latest
    <2>2. e.dirty \/ e.dirty_shm
      BY DEF Intact
    <2>3. f < n => i = f + 1
      BY <1>1, Slots
    <2> HIDE DEF q, i, n
    <2>4. j \in Nat /\ j <= n
      BY <1>2
    <2>5. CASE j = i
      BY <1>2, <1>3, <2>2, <2>3, <2>4, <2>5
    <2>6. CASE j # i
      <3>1. q[j] = r[j]
        BY <1>3, <2>6
      <3>2. j <= f <=> j <= f + 1
        BY <1>2, <2>3, <2>4, <2>6
      <3> QED BY <2>1, <3>1, <3>2
    <2> QED BY <2>5, <2>6
  <1>8. Latest(q, f + 1)
    <2>1. \A k \in 0 .. (f + 1) - 1 : k \in Nat /\ k <= f
      OBVIOUS
    <2>2. \A k \in 0 .. (f + 1) - 1 : k + Len(q) > f + 1 =>
              Intact(q[Slot(q, k)], k) /\ q[Slot(q, k)].info \in {k, None}
      <3> HIDE DEF q, i, n
      <3>1. \A k \in 0 .. (f + 1) - 1 : k + Len(q) > f + 1 => k + n > f
        BY <1>2, <1>3
      <3> QED BY <1>5, <2>1, <3>1
    <2> HIDE DEF q, i
    <2> QED BY <1>1, <1>3, <1>6, <1>7, <2>2 DEF Latest
  <1> QED BY <1>8

\* What is known of the next buffer.
LEMMA RingNow ==
    ASSUME DumpInv, Running
    PROVE  /\ dump \in [ring : Seq(Buffer), link : Nat, count : Nat]
           /\ dump.ring \in Seq(Buffer) /\ Len(dump.ring) > 0 /\ dump.link \in Nat /\ dump.count \in Nat
           /\ Latest(dump.ring, frames) /\ frames \in Nat
           /\ NextLink = Slot(dump.ring, frames) /\ NextLink \in 1 .. Len(dump.ring)
           /\ dump.ring[NextLink] \in Buffer
           /\ dump.link = IF frames = 0 THEN 0 ELSE Slot(dump.ring, frames - 1)
           /\ dump.count = frames % CountMod
  <1> DEFINE r == dump.ring
  <1>1. /\ dump \in [ring : Seq(Buffer), link : Nat, count : Nat]
        /\ Latest(r, frames) /\ frames \in Nat
        /\ dump.link = IF frames = 0 THEN 0 ELSE Slot(r, frames - 1)
        /\ dump.count = frames % CountMod
    BY DEF DumpInv
  <1>2. r \in Seq(Buffer) /\ dump.link \in Nat /\ dump.count \in Nat
    BY <1>1
  <1>3. Len(r) > 0 /\ Len(r) \in Nat
    BY <1>1, <1>2 DEF Latest
  <1> HIDE DEF r
  <1>4. NextLink = (dump.link % Len(r)) + 1
    BY DEF NextLink, r
  <1>5. NextLink = Slot(r, frames)
    <2>1. CASE frames = 0
      <3>1. 0 % Len(r) = 0
        BY <1>3
      <3> QED BY <1>1, <1>4, <2>1, <3>1 DEF Slot
    <2>2. CASE frames # 0
      <3>1. frames - 1 \in Nat /\ (frames - 1) + 1 = frames
        BY <1>1, <2>2
      <3>2. Slot(r, (frames - 1) + 1) = (Slot(r, frames - 1) % Len(r)) + 1
        BY <1>2, <1>3, <3>1, Slots
      <3> QED BY <1>1, <1>4, <2>2, <3>1, <3>2
    <2> QED BY <2>1, <2>2
  <1>6. NextLink \in 1 .. Len(r)
    BY <1>1, <1>2, <1>3, <1>5, Slots
  <1>7. r[NextLink] \in Buffer
    BY <1>2, <1>6
  <1> QED BY <1>1, <1>2, <1>3, <1>5, <1>6, <1>7 DEF r

\* tbm_surface_internal_dump_buffer up to an error, to the end, and
\* tbm_surface_internal_dump_start.
LEMMA SpoilKeeps ==
    ASSUME DumpInv, Running, NEW e \in Buffer, Spoil(e),
           e.pixels \in {dump.ring[NextLink].pixels, None}, e.info = None,
           e.dirty = dump.ring[NextLink].dirty, e.dirty_shm = dump.ring[NextLink].dirty_shm
    PROVE  DumpInv'
  <1> DEFINE r == dump.ring
             i == NextLink
             q == Replaced(r, i, e)
  <1>1. /\ dump \in [ring : Seq(Buffer), link : Nat, count : Nat]
        /\ Latest(r, frames) /\ frames \in Nat /\ i = Slot(r, frames)
        /\ r \in Seq(Buffer) /\ i \in 1 .. Len(r)
        /\ dump.link = IF frames = 0 THEN 0 ELSE Slot(r, frames - 1)
        /\ dump.count = frames % CountMod
    BY RingNow
  <1>2. dump' = [dump EXCEPT !.ring[i] = e] /\ frames' = frames
    BY DEF Spoil
  <1>3. dump' = [ring |-> q, link |-> dump.link, count |-> dump.count]
    BY <1>1, <1>2 DEF Replaced
  <1>4. e.pixels \in {r[Slot(r, frames)].pixels, None} /\ e.dirty = r[Slot(r, frames)].dirty
        /\ e.dirty_shm = r[Slot(r, frames)].dirty_shm
    BY <1>1
  <1> HIDE DEF r, i
  <1>5. Latest(q, frames)
    <2>1. Latest(Replaced(r, Slot(r, frames), e), frames)
      BY <1>1, <1>4, SpoilLatest
    <2> QED BY <1>1, <2>1
  <1>6. q \in Seq(Buffer) /\ \A k : Slot(q, k) = Slot(r, k)
    BY <1>1, ReplacedIs
  <1> HIDE DEF q
  <1>7. dump' \in [ring : Seq(Buffer), link : Nat, count : Nat]
        /\ dump'.ring = q /\ dump'.link = dump.link /\ dump'.count = dump.count
    BY <1>1, <1>3, <1>6
  <1>8. dump'.link = IF frames' = 0 THEN 0 ELSE Slot(dump'.ring, frames' - 1)
    BY <1>1, <1>2, <1>6, <1>7
  <1>9. Latest(dump'.ring, frames') /\ dump'.count = frames' % CountMod /\ frames' \in Nat
    BY <1>1, <1>2, <1>5, <1>7
  <1> QED BY <1>7, <1>8, <1>9 DEF DumpInv

LEMMA StoreKeeps ==
    ASSUME DumpInv, Running, NEW shm \in BOOLEAN, Store(shm)
    PROVE  DumpInv'
  <1> DEFINE r == dump.ring
             i == NextLink
             e == [bo |-> r[i].bo, number |-> dump.count, pixels |-> frames,
                   info |-> IF shm THEN None ELSE frames, dirty |-> ~shm, dirty_shm |-> shm]
             c == IF dump.count + 1 = CountMod THEN 0 ELSE dump.count + 1
             q == Replaced(r, i, e)
  <1>1. /\ dump \in [ring : Seq(Buffer), link : Nat, count : Nat]
        /\ Latest(r, frames) /\ frames \in Nat /\ i = Slot(r, frames)
        /\ r \in Seq(Buffer) /\ i \in 1 .. Len(r) /\ r[i] \in Buffer
        /\ dump.count = frames % CountMod /\ dump.count \in Nat
    BY RingNow
  <1>2. dump' = [ring |-> q, link |-> i, count |-> c] /\ frames' = frames + 1
    BY <1>1 DEF Store, Replaced
  <1>3. e \in Buffer /\ Intact(e, frames) /\ e.info \in {frames, None}
    <2>1. r[i].bo \in Bo /\ None \in Int
      BY <1>1 DEF Buffer, None
    <2>2. e \in Buffer
      BY <1>1, <2>1 DEF Buffer
    <2>3. e.number = frames % CountMod /\ e.pixels = frames /\ (shm => e.dirty_shm)
          /\ (~shm => e.dirty /\ e.info = frames) /\ (shm => e.info = None)
      BY <1>1
    <2> HIDE DEF e
    <2> QED BY <2>2, <2>3 DEF Intact
  <1> HIDE DEF e, r, i
  <1>4. c = (frames + 1) % CountMod /\ c \in Nat
    <2>1. CountMod \in Nat \ {0}
      BY DumpAssumption
    <2>2. (frames + 1) % CountMod = IF (frames % CountMod) + 1 < CountMod
                                    THEN (frames % CountMod) + 1 ELSE (frames % CountMod) + 1 - CountMod
      BY <1>1, <2>1, ModAhead, 1 \in Nat, 1 <= CountMod
    <2>3. frames % CountMod \in Nat /\ frames % CountMod < CountMod
      BY <1>1, <2>1, Divided
    <2> QED BY <1>1, <2>1, <2>2, <2>3
  <1>5. Latest(q, frames + 1)
    <2>1. Latest(Replaced(r, Slot(r, frames), e), frames + 1)
      BY <1>1, <1>3, StoreLatest
    <2> QED BY <1>1, <2>1
  <1>6. q \in Seq(Buffer) /\ \A k : Slot(q, k) = Slot(r, k)
    BY <1>1, <1>3, ReplacedIs
  <1> HIDE DEF q, c
  <1>7. dump' \in [ring : Seq(Buffer), link : Nat, count : Nat]
        /\ dump'.ring = q /\ dump'.link = i /\ dump'.count = c
    BY <1>1, <1>2, <1>4, <1>6
  <1>8. dump'.link = IF frames' = 0 THEN 0 ELSE Slot(dump'.ring, frames' - 1)
    <2>1. frames' # 0 /\ frames' - 1 = frames
      BY <1>1, <1>2
    <2> QED BY <1>1, <1>6, <1>7, <2>1
  <1>9. Latest(dump'.ring, frames') /\ dump'.count = frames' % CountMod /\ frames' \in Nat
    BY <1>1, <1>2, <1>4, <1>5, <1>7
  <1> QED BY <1>7, <1>8, <1>9 DEF DumpInv

LEMMA StartKeeps ==
    ASSUME NEW t, NEW n \in 1 .. MaxRing, NEW bs \in BosOf(n), NEW ps, DumpStart(t, bs, ps)
    PROVE  DumpInv'
  <1> DEFINE r == [i \in 1 .. Len(bs) |-> NewBuffer(bs[i])]
  <1>1. bs \in Seq(Bo) /\ Len(bs) = n /\ n \in Nat /\ n > 0
    BY DumpAssumption DEF BosOf
  <1>2. dump' = [ring |-> r, link |-> 0, count |-> 0] /\ frames' = 0
    BY DEF DumpStart
  <1>3. ASSUME NEW i \in 1 .. n PROVE /\ r[i] \in Buffer /\ ~r[i].dirty /\ ~r[i].dirty_shm
    <2>1. r[i] = NewBuffer(bs[i]) /\ bs[i] \in Bo
      BY <1>1
    <2>2. NewBuffer(bs[i]) \in Buffer /\ ~NewBuffer(bs[i]).dirty /\ ~NewBuffer(bs[i]).dirty_shm
      BY <2>1 DEF NewBuffer, Buffer, None
    <2> HIDE DEF r
    <2> QED BY <2>1, <2>2
  <1>4. r \in Seq(Buffer) /\ Len(r) = n
    <2>1. r = [i \in 1 .. n |-> r[i]]
      BY <1>1
    <2> HIDE DEF r
    <2>2. r \in [1 .. n -> Buffer]
      BY <1>3, <2>1
    <2> QED BY <1>1, <2>2
  <1> HIDE DEF r
  <1>5. Latest(r, 0)
    BY <1>1, <1>3, <1>4 DEF Latest
  <1>6. 0 % CountMod = 0
    BY DumpAssumption
  <1>7. /\ dump' \in [ring : Seq(Buffer), link : Nat, count : Nat]
        /\ dump'.ring = r /\ dump'.link = 0 /\ dump'.count = 0
    BY <1>2, <1>4
  <1> QED BY <1>2, <1>5, <1>6, <1>7 DEF DumpInv

\* tbm_surface_internal_dump_buffer
LEMMA DumpBufferKeeps ==
    ASSUME DumpInv, NEW t, NEW s, DumpBuffer(t, s)
    PROVE  DumpInv'
  <1> DEFINE b == dump.ring[NextLink]
             e == [b EXCEPT !.info = None]
             d == [e EXCEPT !.pixels = None]
  <1>1. Running
    BY DEF DumpBuffer
  <1>2. b \in Buffer
    BY <1>1, RingNow
  <1>3. e \in Buffer /\ e.pixels = b.pixels /\ e.info = None /\ e.dirty = b.dirty /\ e.dirty_shm = b.dirty_shm
    <2> HIDE DEF b
    <2> QED BY <1>2 DEF Buffer, None
  <1>4. d \in Buffer /\ d.pixels = None /\ d.info = None /\ d.dirty = b.dirty /\ d.dirty_shm = b.dirty_shm
    <2> HIDE DEF b, e
    <2> QED BY <1>3 DEF Buffer, None
  <1>5. Skip \/ Spoil(e) \/ Spoil(d) \/ Store(FALSE)
    BY Zenon DEF DumpBuffer
  <1> HIDE DEF d, e
  <1>6. CASE Skip
    BY <1>6 DEF Skip, dumpVars, DumpInv, Running
  <1>7. CASE Spoil(e)
    BY <1>1, <1>3, <1>7, SpoilKeeps
  <1>8. CASE Spoil(d)
    BY <1>1, <1>4, <1>8, SpoilKeeps
  <1>9. CASE Store(FALSE)
    BY <1>1, <1>9, StoreKeeps
  <1> QED BY <1>5, <1>6, <1>7, <1>8, <1>9

\* Every step keeps the ring.
LEMMA RingStep ==
    ASSUME DumpInv, [DumpNext]_allVars
    PROVE  DumpInv'
  <1>1. ASSUME UNCHANGED dumpVars PROVE DumpInv'
    BY <1>1 DEF dumpVars, DumpInv, Running
  <1>2. CASE UNCHANGED allVars
    BY <1>1, <1>2 DEF allVars
  <1>3. CASE DumpNext
    <2>1. CASE UNCHANGED dumpVars
      BY <1>1, <2>1
    <2>2. ASSUME NEW t \in Thread, DumpStep(t) PROVE DumpInv'
      <3>1. ASSUME NEW n \in 1 .. MaxRing, NEW bs \in BosOf(n), NEW ps \in PrivsOf(n),
                   DumpStart(t, bs, ps)
            PROVE  DumpInv'
        BY <3>1, StartKeeps
      <3>2. ASSUME NEW n \in 0 .. MaxRing - 1, NEW bs \in BosOf(n), NEW ps \in PrivsOf(n),
                   DumpStartFails(t, bs, ps)
            PROVE  DumpInv'
        BY <1>1, <3>2 DEF DumpStartFails
      <3>3. ASSUME NEW s \in Surf, DumpBuffer(t, s) PROVE DumpInv'
        BY <3>3, DumpBufferKeeps
      <3>4. CASE DumpShmBuffer(t)
        <4>1. Running /\ (Skip \/ Store(TRUE))
          BY <3>4 DEF DumpShmBuffer
        <4>2. CASE Skip
          BY <1>1, <4>2 DEF Skip
        <4>3. CASE Store(TRUE)
          BY <4>1, <4>3, StoreKeeps
        <4> QED BY <4>1, <4>2, <4>3
      <3>5. CASE DumpEnd(t)
        BY <3>5 DEF DumpEnd, DumpInv, Running
      <3> QED BY <2>2, <3>1, <3>2, <3>3, <3>4, <3>5 DEF DumpStep
    <2> QED BY <1>3, <2>1, <2>2 DEF DumpNext
  <1> QED BY <1>2, <1>3

\* There is no dump at first.
LEMMA DumpBegins ==
    ASSUME DumpInit PROVE DumpInv
BY DEF DumpInit, DumpInv, Running

\* The ring of dump buffers holds the latest frames, whatever frames are
\* dropped for errors and however often numbers restart.
THEOREM RingIsKept == DumpSpec => []RingHoldsLatest
  <1>1. DumpInv => RingHoldsLatest
    <2> SUFFICES ASSUME DumpInv, Running PROVE RingHoldsLatest
      BY DEF RingHoldsLatest
    <2>1. Latest(dump.ring, frames)
      BY DEF DumpInv
    <2> QED BY <2>1, Zenon DEF Latest, Slot, RingHoldsLatest
  <1> QED BY <1>1, RingStep, DumpBegins, PTL DEF DumpSpec
-----------------------------------------------------------------------------
(* Debug data.                                                             *)

\* i is the place of the first entry of L that is in S, 0 if there is none.
FirstIn(L, S, i) ==
    IF \E j \in 1 .. Len(L) : L[j] \in S
    THEN i \in 1 .. Len(L) /\ L[i] \in S /\ \A j \in 1 .. Len(L) : L[j] \in S => i <= j
    ELSE i = 0

\* The smallest number of a set.
LEMMA MinOfSome ==
    ASSUME NEW S \in SUBSET Nat, S # {}
    PROVE  Min(S) \in S /\ \A j \in S : Min(S) <= j
  <1>1. \E x \in S : \A y \in S : x =< y
    BY SmallestNat
  <1> QED BY <1>1 DEF Min

\* The entries of debug data lists, and the places that searches find.
DebugEntry == [key : DebugKey, value : DebugValue \cup {NULL}]
WithKey(k) == {e \in DebugEntry : e.key = k}
TakenFor(k, v) == {e \in DebugEntry : e.key = k /\ AlreadyExists(e, v)}

KeyPlace(L, k) == SelectInSeq(L, LAMBDA e : e.key = k)
TakenPlace(L, k, v) == SelectInSeq(L, LAMBDA e : e.key = k /\ AlreadyExists(e, v))

\* The searches find the first entry.
LEMMA FirstEntries ==
    ASSUME NEW L, L \in Seq(DebugEntry), NEW k, NEW v
    PROVE  /\ FirstIn(L, WithKey(k), KeyPlace(L, k))
           /\ FirstIn(L, TakenFor(k, v), TakenPlace(L, k, v))
  <1>1. \A j \in 1 .. Len(L) : L[j] \in DebugEntry
    OBVIOUS
  <1>2. FirstIn(L, WithKey(k), KeyPlace(L, k))
    <2> DEFINE I == {i \in 1 .. Len(L) : L[i].key = k}
    <2>1. KeyPlace(L, k) = IF I # {} THEN Min(I) ELSE 0
      BY DEF KeyPlace, SelectInSeq
    <2>2. I \in SUBSET Nat /\ \A j \in 1 .. Len(L) : j \in I <=> L[j] \in WithKey(k)
      BY <1>1 DEF WithKey
    <2>3. I # {} => Min(I) \in I /\ \A j \in I : Min(I) <= j
      <3> HIDE DEF I
      <3> QED BY <2>2, MinOfSome
    <2>4. I \in SUBSET (1 .. Len(L))
      OBVIOUS
    <2> HIDE DEF I
    <2> QED BY <2>1, <2>2, <2>3, <2>4 DEF FirstIn
  <1>3. FirstIn(L, TakenFor(k, v), TakenPlace(L, k, v))
    <2> DEFINE I == {i \in 1 .. Len(L) : L[i].key = k /\ AlreadyExists(L[i], v)}
    <2>1. TakenPlace(L, k, v) = IF I # {} THEN Min(I) ELSE 0
      BY DEF TakenPlace, SelectInSeq
    <2>2. I \in SUBSET Nat /\ \A j \in 1 .. Len(L) : j \in I <=> L[j] \in TakenFor(k, v)
      BY <1>1 DEF TakenFor
    <2>3. I # {} => Min(I) \in I /\ \A j \in I : Min(I) <= j
      <3> HIDE DEF I
      <3> QED BY <2>2, MinOfSome
    <2>4. I \in SUBSET (1 .. Len(L))
      OBVIOUS
    <2> HIDE DEF I
    <2> QED BY <2>1, <2>2, <2>3, <2>4 DEF FirstIn
  <1> QED BY <1>2, <1>3

\* What is shown is what was last set, f.
ShownOK(L, f) ==
    \A k \in DebugKey : \A i : FirstIn(L, WithKey(k), i) =>
        IF f[k] = NULL THEN i = 0 \/ L[i].value = NULL
        ELSE i # 0 /\ L[i].value # NULL /\ IsPrefix(L[i].value, f[k])

\* The list after a value is set for a key that is there, or may not be.
Changed(L, k, v, same) ==
    [i \in 1 .. Len(L) |-> IF L[i].key = k /\ (same = 0 \/ i < same)
                           THEN [L[i] EXCEPT !.value = v] ELSE L[i]]
Entered(L, k, v, same) ==
    IF same # 0 THEN Changed(L, k, v, same)
    ELSE <<[key |-> k, value |-> v]>> \o Changed(L, k, v, same)
Told(f, k, v) == [f EXCEPT ![k] = v]

\* The entry that changes.
LEMMA ChangedIs ==
    ASSUME NEW L, L \in Seq(DebugEntry), NEW k \in DebugKey, NEW v \in DebugValue \cup {NULL},
           NEW same \in Nat
    PROVE  LET C == Changed(L, k, v, same)
           IN  /\ C \in Seq(DebugEntry) /\ Len(C) = Len(L) /\ Len(L) \in Nat
               /\ \A i \in 1 .. Len(L) :
                    /\ C[i].key = L[i].key /\ C[i] \in DebugEntry /\ L[i] \in DebugEntry
                    /\ L[i].key # k => C[i] = L[i]
                    /\ L[i].key = k /\ i < same => C[i].value = v
                    /\ same # 0 /\ ~(i < same) => C[i] = L[i]
  <1> DEFINE C == Changed(L, k, v, same)
  <1>1. Len(L) \in Nat /\ \A i \in 1 .. Len(L) : L[i] \in DebugEntry
    OBVIOUS
  <1>2. ASSUME NEW i \in 1 .. Len(L)
        PROVE  /\ C[i].key = L[i].key /\ C[i] \in DebugEntry /\ L[i] \in DebugEntry
               /\ L[i].key # k => C[i] = L[i]
               /\ L[i].key = k /\ i < same => C[i].value = v
               /\ same # 0 /\ ~(i < same) => C[i] = L[i]
    <2> DEFINE e == L[i]
               d == [e EXCEPT !.value = v]
    <2>1. C[i] = IF e.key = k /\ (same = 0 \/ i < same) THEN d ELSE e
      BY DEF Changed
    <2>2. e \in DebugEntry
      BY <1>1
    <2> HIDE DEF e
    <2>3. d \in DebugEntry /\ d.key = e.key /\ d.value = v
      BY <2>2 DEF DebugEntry
    <2> HIDE DEF d, C
    <2>4. CASE e.key = k /\ (same = 0 \/ i < same)
      BY <2>1, <2>2, <2>3, <2>4 DEF e
    <2>5. CASE ~(e.key = k /\ (same = 0 \/ i < same))
      BY <2>1, <2>2, <2>3, <2>5 DEF e
    <2> QED BY <2>4, <2>5
  <1>3. C \in Seq(DebugEntry) /\ Len(C) = Len(L)
    <2>1. C = [i \in 1 .. Len(L) |-> C[i]]
      BY DEF Changed
    <2> HIDE DEF C
    <2>2. C \in [1 .. Len(L) -> DebugEntry]
      BY <1>2, <2>1
    <2> QED BY <1>1, <2>2
  <1> HIDE DEF C
  <1> QED BY <1>1, <1>2, <1>3 DEF C

\* Setting a value shows it.
LEMMA EnteredShown ==
    ASSUME NEW L, L \in Seq(DebugEntry), NEW f \in [DebugKey -> DebugValue \cup {NULL}], ShownOK(L, f),
           NEW k \in DebugKey, NEW v \in DebugValue \cup {NULL},
           NEW same, FirstIn(L, TakenFor(k, v), same)
    PROVE  /\ Entered(L, k, v, same) \in Seq(DebugEntry)
           /\ ShownOK(Entered(L, k, v, same), Told(f, k, v))
           /\ \A i \in 1 .. Len(Entered(L, k, v, same)) :
                \/ Entered(L, k, v, same)[i].key = k
                \/ \E j \in 1 .. Len(L) : L[j].key = Entered(L, k, v, same)[i].key
  <1> DEFINE C == Changed(L, k, v, same)
             g == Told(f, k, v)
  <1>1. g[k] = v /\ \A c \in DebugKey : c # k => g[c] = f[c]
    BY DEF Told
  <1>2. same \in Nat /\ same <= Len(L) /\ Len(L) \in Nat
    BY DEF FirstIn
  <1>3. /\ C \in Seq(DebugEntry) /\ Len(C) = Len(L)
        /\ \A i \in 1 .. Len(L) :
             /\ C[i].key = L[i].key /\ C[i] \in DebugEntry /\ L[i] \in DebugEntry
             /\ L[i].key # k => C[i] = L[i]
             /\ L[i].key = k /\ i < same => C[i].value = v
             /\ same # 0 /\ ~(i < same) => C[i] = L[i]
    BY <1>2, ChangedIs
  <1>4. v # NULL => IsPrefix(v, v)
    BY DebugDataAssumption DEF IsPrefix
  <1> HIDE DEF C, g
  <1>5. CASE same # 0
    <2>1. Entered(L, k, v, same) = C
      BY <1>5 DEF Entered, C
    <2>2. /\ same \in 1 .. Len(L) /\ L[same] \in TakenFor(k, v)
      BY <1>5 DEF FirstIn
    <2>3. /\ L[same] \in WithKey(k) /\ L[same].value # NULL /\ v # NULL /\ IsPrefix(L[same].value, v)
          /\ L[same].key = k
      BY <2>2 DEF TakenFor, WithKey, AlreadyExists
    <2>4. ASSUME NEW c \in DebugKey, NEW i, FirstIn(C, WithKey(c), i)
          PROVE  IF g[c] = NULL THEN i = 0 \/ C[i].value = NULL
                 ELSE i # 0 /\ C[i].value # NULL /\ IsPrefix(C[i].value, g[c])
      <3>1. \A j \in 1 .. Len(L) : C[j] \in WithKey(c) <=> L[j] \in WithKey(c)
        BY <1>3 DEF WithKey
      <3>2. FirstIn(L, WithKey(c), i)
        BY <1>3, <2>4, <3>1 DEF FirstIn
      <3>3. CASE c # k
        <4>1. i # 0 => C[i] = L[i]
          <5>1. i # 0 => i \in 1 .. Len(L) /\ L[i].key = c
            BY <3>2 DEF FirstIn, WithKey
          <5> QED BY <1>3, <3>3, <5>1
        <4>2. IF f[c] = NULL THEN i = 0 \/ L[i].value = NULL
              ELSE i # 0 /\ L[i].value # NULL /\ IsPrefix(L[i].value, f[c])
          BY <3>2 DEF ShownOK
        <4> QED BY <1>1, <3>3, <4>1, <4>2
      <3>4. CASE c = k
        <4>1. i \in 1 .. Len(L) /\ i <= same /\ L[i].key = k
          BY <2>2, <2>3, <3>2, <3>4 DEF FirstIn, WithKey
        <4>2. CASE i = same
          <5>1. C[i] = L[same]
            BY <1>2, <1>3, <1>5, <4>1, <4>2
          <5> QED BY <1>1, <1>5, <2>3, <3>4, <4>2, <5>1
        <4>3. CASE i # same
          <5>1. C[i].value = v
            BY <1>2, <1>3, <4>1, <4>3
          <5>2. i # 0
            BY <4>1
          <5> QED BY <1>1, <1>4, <2>3, <3>4, <5>1, <5>2
        <4> QED BY <4>2, <4>3
      <3> QED BY <3>3, <3>4
    <2>5. ShownOK(C, g)
      BY <2>4 DEF ShownOK
    <2> QED BY <1>3, <2>1, <2>5 DEF g
  <1>6. CASE same = 0
    <2> DEFINE e == [key |-> k, value |-> v]
               N == <<e>> \o C
    <2>1. Entered(L, k, v, same) = N
      BY <1>6 DEF Entered, C
    <2>2. e \in DebugEntry /\ e.key = k /\ e.value = v
      BY DEF DebugEntry
    <2> HIDE DEF e
    <2>3. /\ N \in Seq(DebugEntry) /\ Len(N) = Len(L) + 1 /\ N[1] = e
          /\ \A j \in 1 .. Len(L) : N[j + 1] = C[j]
          /\ \A i \in 2 .. Len(N) : N[i] = C[i - 1]
      BY <1>2, <1>3, <2>2
    <2> HIDE DEF N
    <2>4. ASSUME NEW c \in DebugKey, NEW i, FirstIn(N, WithKey(c), i)
          PROVE  IF g[c] = NULL THEN i = 0 \/ N[i].value = NULL
                 ELSE i # 0 /\ N[i].value # NULL /\ IsPrefix(N[i].value, g[c])
      <3>1. CASE c = k
        <4>1. N[1] \in WithKey(c) /\ 1 \in 1 .. Len(N)
          BY <1>2, <2>2, <2>3, <3>1 DEF WithKey
        <4>2. i = 1
          <5>1. i \in 1 .. Len(N) /\ i <= 1
            BY <2>4, <4>1 DEF FirstIn
          <5> QED BY <5>1
        <4> QED BY <1>1, <1>4, <2>2, <2>3, <3>1, <4>2
      <3>2. CASE c # k
        <4>1. N[1] \notin WithKey(c)
          BY <2>2, <2>3, <3>2 DEF WithKey
        <4>2. \A j \in 1 .. Len(L) : N[j + 1] \in WithKey(c) <=> L[j] \in WithKey(c)
          BY <1>3, <2>3 DEF WithKey
        <4>3. CASE i = 0
          <5>1. \A j \in 1 .. Len(N) : N[j] \notin WithKey(c)
            BY <2>4, <4>3 DEF FirstIn
          <5>2. \A j \in 1 .. Len(L) : j + 1 \in 1 .. Len(N)
            BY <1>2, <2>3
          <5>3. FirstIn(L, WithKey(c), 0)
            BY <4>2, <5>1, <5>2 DEF FirstIn
          <5> QED BY <1>1, <3>2, <4>3, <5>3 DEF ShownOK
        <4>4. CASE i # 0
          <5>1. /\ i \in 1 .. Len(N) /\ N[i] \in WithKey(c)
                /\ \A j \in 1 .. Len(N) : N[j] \in WithKey(c) => i <= j
            BY <2>4, <4>4 DEF FirstIn
          <5> DEFINE h == i - 1
          <5>2. h \in 1 .. Len(L) /\ h + 1 = i /\ h # 0
            BY <1>2, <2>3, <4>1, <5>1
          <5>3. \A j \in 1 .. Len(L) : j + 1 \in 1 .. Len(N) /\ (i <= j + 1 => h <= j)
            BY <1>2, <2>3, <5>1
          <5> HIDE DEF h
          <5>4. L[h] \in WithKey(c)
            BY <4>2, <5>1, <5>2
          <5>5. FirstIn(L, WithKey(c), h)
            BY <4>2, <5>1, <5>2, <5>3, <5>4 DEF FirstIn
          <5>6. N[i] = L[h]
            <6>1. L[h].key # k
              BY <3>2, <5>4 DEF WithKey
            <6> QED BY <1>3, <2>3, <5>2, <6>1
          <5>7. IF f[c] = NULL THEN h = 0 \/ L[h].value = NULL
                ELSE h # 0 /\ L[h].value # NULL /\ IsPrefix(L[h].value, f[c])
            BY <5>5 DEF ShownOK
          <5> QED BY <1>1, <3>2, <4>4, <5>2, <5>6, <5>7
        <4> QED BY <4>3, <4>4
      <3> QED BY <3>1, <3>2
    <2>5. ShownOK(N, g)
      BY <2>4 DEF ShownOK
    <2>6. ASSUME NEW i \in 1 .. Len(N)
          PROVE  N[i].key = k \/ \E j \in 1 .. Len(L) : L[j].key = N[i].key
      <3>1. CASE i = 1
        BY <2>2, <2>3, <3>1
      <3>2. CASE i # 1
        <4>1. i - 1 \in 1 .. Len(L) /\ i \in 2 .. Len(N)
          BY <1>2, <2>3, <3>2
        <4>2. N[i] = C[i - 1]
          BY <2>3, <4>1
        <4> QED BY <1>3, <4>1, <4>2
      <3> QED BY <3>1, <3>2
    <2> QED BY <2>1, <2>3, <2>5, <2>6 DEF g
  <1> QED BY <1>5, <1>6

\* Every key of a surface is one of the manager's, which are all different.
KeysOK(K, D) ==
    /\ K \in Seq(DebugKey) /\ Distinct(K)
    /\ \A s \in Surf : \A i \in 1 .. Len(D[s]) : \E j \in 1 .. Len(K) : K[j] = D[s][i].key

\* The invariant of debug data.
DebugInv ==
    /\ debug_data_list \in [Surf -> Seq(DebugEntry)]
    /\ latest \in [Surf -> [DebugKey -> DebugValue \cup {NULL}]]
    /\ \A s \in Surf : ShownOK(debug_data_list[s], latest[s])
    /\ \A s \in Surf : s \notin LiveSurfs => debug_data_list[s] = <<>>
    /\ KeysOK(debug_key_list, debug_data_list)

\* Live surfaces are surfaces.
LEMMA SurfacesLive ==
    ASSUME NEW x \in Counts, SurfInv(x)
    PROVE  /\ LiveSurfs \in SUBSET Surf
           /\ \A t \in Thread, s \in Surf : SurfHolds(t, s) => s \in LiveSurfs
  <1>1. HeldOK(surfs, srefs) /\ surfs \in SurfTable
    BY InvSays
  <1>2. LiveSurfs \in SUBSET Surf
    BY <1>1, SurfFields DEF LiveSurfs
  <1>3. ASSUME NEW t \in Thread, NEW s \in Surf, SurfHolds(t, s), s \notin DOMAIN surfs PROVE FALSE
    <2>1. srefs[t][s] = 0
      BY <1>1, <1>3 DEF HeldOK
    <2> QED BY <1>3, <2>1 DEF SurfHolds
  <1> QED BY <1>2, <1>3 DEF LiveSurfs

\* A new surface shows nothing.
LEMMA NothingShown ==
    ASSUME NEW f, \A k \in DebugKey : f[k] = NULL
    PROVE  ShownOK(<<>>, f)
BY DEF ShownOK, FirstIn

\* The list of keys with k.
Listed(K, k) == IF k \in Range(K) THEN K ELSE <<k>> \o K

\* A key is listed once.
LEMMA KeyListed ==
    ASSUME NEW K, NEW D, KeysOK(K, D), NEW k \in DebugKey, NEW s \in Surf, NEW E,
           \A i \in 1 .. Len(E[s]) :
             E[s][i].key = k \/ \E j \in 1 .. Len(D[s]) : D[s][j].key = E[s][i].key,
           \A q \in Surf : q # s => E[q] = D[q]
    PROVE  KeysOK(Listed(K, k), E)
  <1> DEFINE J == Listed(K, k)
  <1>1. K \in Seq(DebugKey) /\ Distinct(K) /\ Len(K) \in Nat
    BY DEF KeysOK
  <1>2. k \in Range(K) <=> \E j \in 1 .. Len(K) : K[j] = k
    BY <1>1 DEF Range
  <1>3. /\ J \in Seq(DebugKey) /\ Distinct(J)
        /\ \E j \in 1 .. Len(J) : J[j] = k
        /\ \A i \in 1 .. Len(K) : \E j \in 1 .. Len(J) : J[j] = K[i]
    <2>1. CASE k \in Range(K)
      <3>1. J = K
        BY <2>1 DEF Listed
      <3> HIDE DEF J
      <3> QED BY <1>1, <1>2, <2>1, <3>1
    <2>2. CASE k \notin Range(K)
      <3>1. /\ J \in Seq(DebugKey) /\ Len(J) = Len(K) + 1 /\ J[1] = k
            /\ \A i \in 1 .. Len(K) : J[i + 1] = K[i]
            /\ \A i \in 2 .. Len(J) : J[i] = K[i - 1]
        BY <1>1, <2>2 DEF Listed
      <3> HIDE DEF J
      <3>2. ASSUME NEW i \in 1 .. Len(J), NEW j \in 1 .. Len(J), J[i] = J[j] PROVE i = j
        <4>1. \A h \in 2 .. Len(J) : J[h] # k /\ h - 1 \in 1 .. Len(K)
          <5>1. \A h \in 2 .. Len(J) : h - 1 \in 1 .. Len(K)
            BY <1>1, <3>1
          <5>2. ASSUME NEW h \in 2 .. Len(J) PROVE J[h] # k
            <6>1. K[h - 1] # k
              BY <1>2, <2>2, <5>1
            <6> QED BY <3>1, <6>1
          <5> QED BY <5>1, <5>2
        <4>2. CASE i = 1 \/ j = 1
          BY <3>1, <3>2, <4>1, <4>2
        <4>3. CASE i # 1 /\ j # 1
          <5>1. i \in 2 .. Len(J) /\ j \in 2 .. Len(J)
            BY <4>3
          <5>2. K[i - 1] = K[j - 1]
            BY <3>1, <3>2, <5>1
          <5>3. i - 1 = j - 1
            BY <1>1, <4>1, <5>1, <5>2 DEF Distinct
          <5> QED BY <5>3
        <4> QED BY <4>2, <4>3
      <3>3. Distinct(J)
        BY <3>2 DEF Distinct
      <3>4. 1 \in 1 .. Len(J) /\ \A i \in 1 .. Len(K) : i + 1 \in 1 .. Len(J)
        BY <1>1, <3>1
      <3> QED BY <3>1, <3>3, <3>4
    <2> QED BY <2>1, <2>2
  <1> HIDE DEF J
  <1>4. ASSUME NEW q \in Surf, NEW i \in 1 .. Len(E[q]) PROVE \E j \in 1 .. Len(J) : J[j] = E[q][i].key
    <2>1. \A p \in Surf : \A h \in 1 .. Len(D[p]) : \E j \in 1 .. Len(K) : K[j] = D[p][h].key
      BY DEF KeysOK
    <2>2. CASE q # s
      BY <1>3, <1>4, <2>1, <2>2, SMTT(30)
    <2>3. CASE q = s
      <3>1. E[q][i].key = k \/ \E j \in 1 .. Len(D[s]) : D[s][j].key = E[q][i].key
        BY <1>4, <2>3
      <3> QED BY <1>3, <2>1, <3>1
    <2> QED BY <2>2, <2>3
  <1> QED BY <1>3, <1>4 DEF KeysOK, J

\* tbm_surface_internal_set_debug_data
LEMMA SetDebugKeeps ==
    ASSUME NEW x \in Counts, SurfInv(x), DebugInv, NEW t \in Thread, NEW s \in Surf,
           NEW k \in DebugKey, NEW v \in DebugValue \cup {NULL}, SetDebugData(t, s, k, v)
    PROVE  DebugInv'
  <1> DEFINE L == debug_data_list[s]
             same == TakenPlace(L, k, v)
             N == Entered(L, k, v, same)
             f == latest[s]
  <1>1. /\ debug_data_list \in [Surf -> Seq(DebugEntry)]
        /\ latest \in [Surf -> [DebugKey -> DebugValue \cup {NULL}]]
        /\ ShownOK(L, f) /\ L \in Seq(DebugEntry) /\ f \in [DebugKey -> DebugValue \cup {NULL}]
        /\ KeysOK(debug_key_list, debug_data_list)
    BY DEF DebugInv
  <1>2. FirstIn(L, TakenFor(k, v), same)
    BY <1>1, FirstEntries
  <1>3. /\ debug_data_list' = [debug_data_list EXCEPT ![s] = N]
        /\ debug_key_list' = Listed(debug_key_list, k)
        /\ latest' = [latest EXCEPT ![s] = Told(f, k, v)]
    BY Zenon DEF SetDebugData, Entered, Changed, Told, TakenPlace, Listed
  <1>4. s \in LiveSurfs /\ LiveSurfs' = LiveSurfs
    <2>1. SurfHolds(t, s) /\ surfs' = surfs
      BY DEF SetDebugData, userDataVars, vars, surfVars
    <2> QED BY <2>1, SurfacesLive DEF LiveSurfs
  <1> HIDE DEF same, L, f
  <1>5. /\ N \in Seq(DebugEntry) /\ ShownOK(N, Told(f, k, v))
        /\ \A i \in 1 .. Len(N) : N[i].key = k \/ \E j \in 1 .. Len(L) : L[j].key = N[i].key
    BY <1>1, <1>2, EnteredShown
  <1> HIDE DEF N
  <1>6. /\ debug_data_list' \in [Surf -> Seq(DebugEntry)] /\ debug_data_list'[s] = N
        /\ \A q \in Surf : q # s => debug_data_list'[q] = debug_data_list[q]
    BY <1>1, <1>3, <1>5
  <1>7. Told(f, k, v) \in [DebugKey -> DebugValue \cup {NULL}]
    BY <1>1 DEF Told
  <1>8. /\ latest' \in [Surf -> [DebugKey -> DebugValue \cup {NULL}]] /\ latest'[s] = Told(f, k, v)
        /\ \A q \in Surf : q # s => latest'[q] = latest[q]
    BY <1>1, <1>3, <1>7
  <1>9. KeysOK(debug_key_list', debug_data_list')
    <2>1. \A i \in 1 .. Len(N) : \/ N[i].key = k
            \/ \E j \in 1 .. Len(debug_data_list[s]) : debug_data_list[s][j].key = N[i].key
      BY <1>5 DEF L
    <2> DEFINE E == debug_data_list'
    <2>2. E[s] = N /\ \A q \in Surf : q # s => E[q] = debug_data_list[q]
      BY <1>6
    <2> HIDE DEF E
    <2>3. \A i \in 1 .. Len(E[s]) : \/ E[s][i].key = k
            \/ \E j \in 1 .. Len(debug_data_list[s]) : debug_data_list[s][j].key = E[s][i].key
      BY <2>1, <2>2
    <2>4. KeysOK(Listed(debug_key_list, k), E)
      <3>1. KeysOK(debug_key_list, debug_data_list) /\ \A q \in Surf : q # s => E[q] = debug_data_list[q]
        BY <1>1, <2>2
      <3> QED BY <2>3, <3>1, KeyListed
    <2> QED BY <1>3, <2>4 DEF E
  <1>10. \A q \in Surf : ShownOK(debug_data_list'[q], latest'[q])
    BY <1>5, <1>6, <1>8 DEF DebugInv
  <1>11. \A q \in Surf : q \notin LiveSurfs' => debug_data_list'[q] = <<>>
    BY <1>4, <1>6 DEF DebugInv
  <1> QED BY <1>6, <1>8, <1>9, <1>10, <1>11 DEF DebugInv

\* The debug data of a surface go with it.
LEMMA DestroyDebugKeeps ==
    ASSUME DebugInv, DestroyDebugData
    PROVE  DebugInv'
  <1> DEFINE dead == LiveSurfs \ LiveSurfs'
             D == debug_data_list
             E == debug_data_list'
  <1>1. /\ D \in [Surf -> Seq(DebugEntry)]
        /\ latest \in [Surf -> [DebugKey -> DebugValue \cup {NULL}]]
        /\ \A s \in Surf : ShownOK(D[s], latest[s])
        /\ \A s \in Surf : s \notin LiveSurfs => D[s] = <<>>
        /\ KeysOK(debug_key_list, D)
    BY DEF DebugInv
  <1>2. /\ E = [s \in Surf |-> IF s \in dead THEN << >> ELSE D[s]]
        /\ debug_key_list' = (IF dead # {} /\ LiveSurfs' = {} THEN << >> ELSE debug_key_list)
        /\ latest' = [s \in Surf |-> IF s \in dead THEN [k \in DebugKey |-> NULL] ELSE latest[s]]
    BY DEF DestroyDebugData
  <1>3. << >> \in Seq(DebugEntry) /\ [k \in DebugKey |-> NULL] \in [DebugKey -> DebugValue \cup {NULL}]
    OBVIOUS
  <1>4. ShownOK(<<>>, [k \in DebugKey |-> NULL])
    BY NothingShown
  <1>5. ASSUME NEW s \in Surf PROVE s \notin LiveSurfs' => E[s] = <<>>
    BY <1>1, <1>2
  <1>6. ASSUME NEW s \in Surf PROVE E[s] = <<>> \/ E[s] = D[s]
    BY <1>2
  <1>7. ASSUME NEW s \in Surf PROVE ShownOK(E[s], latest'[s])
    <2>1. CASE s \in dead
      <3>1. E[s] = <<>> /\ latest'[s] = [k \in DebugKey |-> NULL]
        BY <1>2, <2>1
      <3> QED BY <1>4, <3>1
    <2>2. CASE s \notin dead
      <3>1. E[s] = D[s] /\ latest'[s] = latest[s]
        BY <1>2, <2>2
      <3> QED BY <1>1, <3>1
    <2> QED BY <2>1, <2>2
  <1>8. E \in [Surf -> Seq(DebugEntry)] /\ latest' \in [Surf -> [DebugKey -> DebugValue \cup {NULL}]]
    BY <1>1, <1>2, <1>3
  <1> HIDE DEF E, D, dead
  <1>9. KeysOK(debug_key_list', E)
    <2>1. CASE dead # {} /\ LiveSurfs' = {}
      <3>1. debug_key_list' = <<>> /\ \A s \in Surf : E[s] = <<>>
        BY <1>2, <1>5, <2>1
      <3> QED BY <3>1 DEF KeysOK, Distinct
    <2>2. CASE ~(dead # {} /\ LiveSurfs' = {})
      <3>1. debug_key_list' = debug_key_list
        BY <1>2, <2>2
      <3>2. ASSUME NEW s \in Surf, NEW i \in 1 .. Len(E[s])
            PROVE  \E j \in 1 .. Len(debug_key_list) : debug_key_list[j] = E[s][i].key
        <4>1. E[s] = D[s]
          BY <1>6, <3>2
        <4> QED BY <1>1, <3>2, <4>1 DEF KeysOK
      <3> QED BY <1>1, <3>1, <3>2 DEF KeysOK
    <2> QED BY <2>1, <2>2
  <1> QED BY <1>5, <1>7, <1>8, <1>9 DEF DebugInv, E

\* What the invariant says of the property.
LEMMA DebugShows ==
    ASSUME NEW x \in Counts, SurfInv(x), DebugInv
    PROVE  DebugDataShown
  <1>1. LiveSurfs \in SUBSET Surf
    BY SurfacesLive
  <1>2. ASSUME NEW s \in LiveSurfs, NEW k \in DebugKey
        PROVE  IF latest[s][k] = NULL THEN GetDebugData(s, k) = NULL
               ELSE GetDebugData(s, k) # NULL /\ IsPrefix(GetDebugData(s, k), latest[s][k])
    <2> DEFINE L == debug_data_list[s]
               i == KeyPlace(L, k)
    <2>1. L \in Seq(DebugEntry) /\ ShownOK(L, latest[s])
      BY <1>1 DEF DebugInv
    <2>2. GetDebugData(s, k) = IF i = 0 THEN NULL ELSE L[i].value
      BY Zenon DEF GetDebugData, KeyPlace
    <2> HIDE DEF L
    <2>3. FirstIn(L, WithKey(k), i)
      BY <2>1, FirstEntries
    <2> HIDE DEF i
    <2>4. IF latest[s][k] = NULL THEN i = 0 \/ L[i].value = NULL
          ELSE i # 0 /\ L[i].value # NULL /\ IsPrefix(L[i].value, latest[s][k])
      BY <2>1, <2>3 DEF ShownOK
    <2> QED BY <2>2, <2>4
  <1>3. ASSUME NEW s \in LiveSurfs, NEW i \in 1 .. Len(debug_data_list[s])
        PROVE  Cardinality({j \in 1 .. Len(debug_key_list) :
                              debug_key_list[j] = debug_data_list[s][i].key}) = 1
    <2> DEFINE K == debug_key_list
               c == debug_data_list[s][i].key
    <2>1. KeysOK(K, debug_data_list)
      BY DEF DebugInv
    <2>2. PICK j \in 1 .. Len(K) : K[j] = c
      BY <1>1, <1>3, <2>1 DEF KeysOK
    <2>3. Distinct(K)
      BY <2>1 DEF KeysOK
    <2> HIDE DEF K, c
    <2>4. {h \in 1 .. Len(K) : K[h] = c} = {j}
      BY <2>2, <2>3 DEF Distinct
    <2>5. Cardinality({h \in 1 .. Len(K) : K[h] = c}) = 1
      BY <2>4, FS_Singleton
    <2> QED BY <2>5 DEF K, c
  <1> QED BY <1>2, <1>3, Zenon DEF DebugDataShown
-----------------------------------------------------------------------------
(* User data.                                                              *)

\* The entries of user data lists.
UserEntry == [key : Key, data : Data \cup {NULL}, free_func : BOOLEAN]
Lists == [Object -> Seq(UserEntry)]

\* Entry i of list L owns d.
Owns(L, i, d) == i \in 1 .. Len(L) /\ d \in FreedBy(L[i])

\* The data of g, and no others, are owned in the lists U, by one entry each.
Owned(U, g) ==
    \A d \in Data :
        /\ d \in g <=> \E o \in Object : \E i \in Nat : Owns(U[o], i, d)
        /\ \A o, p \in Object : \A i, j \in Nat :
             Owns(U[o], i, d) /\ Owns(U[p], j, d) => o = p /\ i = j

\* The invariant of user data.
DataInv ==
    /\ user_data_list \in Lists /\ given \in SUBSET Data
    /\ \A o \in Object : Len(user_data_list[o]) <= MaxUserData
    /\ Owned(user_data_list, given)
    /\ \A o \in Object : o \notin LiveObjects => user_data_list[o] = <<>>

\* One list changes: entry h[i] becomes entry i, the data of F are let go.
LEMMA OwnedMoved ==
    ASSUME NEW U, NEW V, NEW g, Owned(U, g), NEW o \in Object, NEW F,
           \A q \in Object : q # o => V[q] = U[q],
           NEW h \in [Nat -> Nat],
           \A i, j \in Nat \ {0} : h[i] = h[j] => i = j,
           \A i \in Nat, d \in Data : Owns(V[o], i, d) => Owns(U[o], h[i], d) /\ d \notin F,
           \A i \in Nat, d \in Data : Owns(U[o], i, d) /\ d \notin F =>
              \E j \in Nat : Owns(V[o], j, d),
           \A d \in Data : d \in F => \E i \in Nat : Owns(U[o], i, d)
    PROVE  Owned(V, g \ F)
  <1> SUFFICES ASSUME NEW d \in Data
               PROVE  /\ d \in g \ F <=> \E q \in Object : \E i \in Nat : Owns(V[q], i, d)
                      /\ \A q, p \in Object : \A i, j \in Nat :
                           Owns(V[q], i, d) /\ Owns(V[p], j, d) => q = p /\ i = j
    BY DEF Owned
  <1>1. d \in g <=> \E q \in Object : \E i \in Nat : Owns(U[q], i, d)
    BY DEF Owned
  <1>2. \A q, p \in Object : \A i, j \in Nat :
          Owns(U[q], i, d) /\ Owns(U[p], j, d) => q = p /\ i = j
    BY DEF Owned
  <1>3. ASSUME NEW q \in Object, NEW i \in Nat, Owns(V[q], i, d)
        PROVE  /\ IF q = o THEN Owns(U[o], h[i], d) ELSE Owns(U[q], i, d)
               /\ d \in g \ F /\ h[i] \in Nat
    <2>1. h[i] \in Nat
      OBVIOUS
    <2>2. CASE q = o
      BY <1>1, <1>3, <2>1, <2>2
    <2>3. CASE q # o
      <3>1. Owns(U[q], i, d)
        BY <1>3, <2>3
      <3>2. d \notin F
        BY <1>2, <2>3, <3>1
      <3> QED BY <1>1, <2>1, <2>3, <3>1, <3>2
    <2> QED BY <2>2, <2>3
  <1>4. ASSUME d \in g, d \notin F PROVE \E q \in Object : \E i \in Nat : Owns(V[q], i, d)
    <2>1. PICK q \in Object, i \in Nat : Owns(U[q], i, d)
      BY <1>1, <1>4
    <2>2. CASE q = o
      BY <1>4, <2>1, <2>2
    <2>3. CASE q # o
      BY <2>1, <2>3
    <2> QED BY <2>2, <2>3
  <1>5. ASSUME NEW q \in Object, NEW p \in Object, NEW i \in Nat, NEW j \in Nat,
               Owns(V[q], i, d), Owns(V[p], j, d)
        PROVE  q = p /\ i = j
    <2>1. /\ IF q = o THEN Owns(U[o], h[i], d) ELSE Owns(U[q], i, d)
          /\ IF p = o THEN Owns(U[o], h[j], d) ELSE Owns(U[p], j, d)
          /\ h[i] \in Nat /\ h[j] \in Nat
      BY <1>3, <1>5
    <2>2. q = p
      BY <1>2, <2>1
    <2>3. CASE q = o
      <3>1. h[i] = h[j]
        BY <1>2, <2>1, <2>2, <2>3
      <3>2. i # 0 /\ j # 0
        BY <1>5, SMTT(30) DEF Owns
      <3> QED BY <2>2, <3>1, <3>2
    <2>4. CASE q # o
      BY <1>2, <2>1, <2>2, <2>4
    <2> QED BY <2>3, <2>4
  <1> QED BY <1>3, <1>4, <1>5

\* One entry is set to d0, which nobody has.
LEMMA OwnedSet ==
    ASSUME NEW U, NEW V, NEW g, Owned(U, g), NEW o \in Object,
           \A q \in Object : q # o => V[q] = U[q], NEW n \in Nat,
           \A i \in Nat, d \in Data : i # n => (Owns(V[o], i, d) <=> Owns(U[o], i, d)),
           NEW F, \A d \in Data : d \in F <=> Owns(U[o], n, d),
           NEW G, \A d \in Data : d \in G <=> Owns(V[o], n, d),
           \A d \in Data : d \in G => d \notin g
    PROVE  Owned(V, (g \ F) \cup G)
  <1> SUFFICES ASSUME NEW d \in Data
               PROVE  /\ d \in (g \ F) \cup G <=> \E q \in Object : \E i \in Nat : Owns(V[q], i, d)
                      /\ \A q, p \in Object : \A i, j \in Nat :
                           Owns(V[q], i, d) /\ Owns(V[p], j, d) => q = p /\ i = j
    BY DEF Owned
  <1>1. d \in g <=> \E q \in Object : \E i \in Nat : Owns(U[q], i, d)
    BY DEF Owned
  <1>2. \A q, p \in Object : \A i, j \in Nat :
          Owns(U[q], i, d) /\ Owns(U[p], j, d) => q = p /\ i = j
    BY DEF Owned
  <1>3. ASSUME NEW q \in Object, NEW i \in Nat
        PROVE  Owns(V[q], i, d) <=> IF q = o /\ i = n THEN d \in G ELSE Owns(U[q], i, d)
    <2>1. CASE q = o
      BY <2>1
    <2>2. CASE q # o
      BY <2>2
    <2> QED BY <2>1, <2>2
  <1>4. ASSUME d \in G
        PROVE  \A q \in Object, i \in Nat : Owns(V[q], i, d) <=> (q = o /\ i = n)
    BY <1>1, <1>3, <1>4
  <1>5. ASSUME d \notin G
        PROVE  \A q \in Object, i \in Nat : Owns(V[q], i, d) <=> Owns(U[q], i, d) /\ ~(q = o /\ i = n)
    BY <1>3, <1>5
  <1>6. CASE d \in G
    BY <1>4, <1>6
  <1>7. CASE d \notin G
    <2>1. ASSUME NEW q \in Object, NEW i \in Nat, Owns(V[q], i, d) PROVE d \in g \ F
      <3>1. Owns(U[q], i, d) /\ ~(q = o /\ i = n)
        BY <1>5, <1>7, <2>1
      <3>2. d \notin F
        BY <1>2, <3>1
      <3> QED BY <1>1, <3>1, <3>2
    <2>2. ASSUME d \in g \ F PROVE \E q \in Object : \E i \in Nat : Owns(V[q], i, d)
      <3>1. PICK q \in Object, i \in Nat : Owns(U[q], i, d)
        BY <1>1, <2>2
      <3>2. ~(q = o /\ i = n)
        BY <2>2, <3>1
      <3> QED BY <1>5, <1>7, <3>1, <3>2
    <2>3. \A q, p \in Object : \A i, j \in Nat :
            Owns(V[q], i, d) /\ Owns(V[p], j, d) => q = p /\ i = j
      BY <1>2, <1>5, <1>7
    <2> QED BY <1>7, <2>1, <2>2, <2>3
  <1> QED BY <1>6, <1>7

\* The entry that a search finds.
LEMMA EntryFound ==
    ASSUME NEW L, L \in Seq(UserEntry), NEW k, Lookup(L, k) # 0
    PROVE  Lookup(L, k) \in 1 .. Len(L)
  <1> DEFINE I == {i \in 1 .. Len(L) : L[i].key = k}
  <1>1. Lookup(L, k) = IF I # {} THEN Min(I) ELSE 0
    BY DEF Lookup, SelectInSeq
  <1>2. I \in SUBSET Nat /\ I \in SUBSET (1 .. Len(L))
    OBVIOUS
  <1> HIDE DEF I
  <1> QED BY <1>1, <1>2, MinOfSome

\* A call of user data is for an object that is alive.
LEMMA PassesLive ==
    ASSUME NEW x \in Counts, SurfInv(x), NEW t \in Thread, NEW o \in Object, Passes(t, o)
    PROVE  o \in LiveObjects
  <1>1. CASE o \in Bo
    <2>1. refs[t][o] > 0
      BY <1>1 DEF Passes, Holds
    <2>2. /\ Clients(inits, refs, maps, pc, arg, surfs, srefs, smaps, mapping)
          /\ MgrOK(x, m, refs, maps, pc, arg, surfs, smaps, mapping)
      BY InvSays
    <2>3. o \in DOMAIN m.bos
      BY <1>1, <2>1, <2>2, LiveBos
    <2> QED BY <2>3 DEF Live, LiveObjects
  <1>2. CASE o \notin Bo
    <2>1. o \in Surf /\ SurfHolds(t, o)
      BY <1>2 DEF Passes, Object
    <2> QED BY <2>1, SurfacesLive DEF LiveObjects
  <1> QED BY <1>1, <1>2

\* The data that an entry frees.
LEMMA FreedIs ==
    ASSUME NEW e \in UserEntry
    PROVE  FreedBy(e) \in SUBSET Data
BY DEF UserEntry, FreedBy

\* The entries of all lists.
LEMMA SumLens ==
    ASSUME user_data_list \in Lists
    PROVE  \A o \in Object : Len(user_data_list[o]) \in Nat /\ Len(user_data_list[o]) <= Entries /\ Entries \in Nat
  <1> DEFINE f == [o \in Object |-> Len(user_data_list[o])]
  <1>1. IsFiniteSet(Object)
    BY BufMgrAssumption, SurfaceAssumption, FS_Union DEF Object
  <1>2. f \in [Object -> Nat]
    BY DEF Lists
  <1>3. SumFunction(f) = Entries
    BY DEF Entries
  <1>4. \A o \in Object : f[o] = Len(user_data_list[o])
    OBVIOUS
  <1> HIDE DEF f
  <1>5. SumFunction(f) \in Nat /\ \A o \in Object : f[o] <= SumFunction(f)
    BY <1>1, <1>2, SumNat
  <1> QED BY <1>2, <1>3, <1>4, <1>5

\* A new entry has no data.
LEMMA NewOwnsNothing ==
    ASSUME NEW k \in Key, NEW ff \in BOOLEAN
    PROVE  NewEntry(k, ff) \in UserEntry /\ FreedBy(NewEntry(k, ff)) = {}
BY DEF NewEntry, UserEntry, FreedBy

\* A step that changes one list.
LEMMA DataKeeps ==
    ASSUME DataInv, NEW o \in LiveObjects, o \in Object, NEW N \in Seq(UserEntry),
           Len(N) <= MaxUserData, user_data_list' = [user_data_list EXCEPT ![o] = N],
           given' \in SUBSET Data, Owned(user_data_list', given'), UNCHANGED vars
    PROVE  DataInv'
  <1>1. /\ user_data_list \in Lists
        /\ \A q \in Object : Len(user_data_list[q]) <= MaxUserData
        /\ \A q \in Object : q \notin LiveObjects => user_data_list[q] = <<>>
    BY DEF DataInv
  <1>2. LiveObjects' = LiveObjects
    BY DEF LiveObjects, Live, LiveSurfs, vars, bufmgrVars, surfVars
  <1>3. user_data_list' \in Lists /\ user_data_list'[o] = N
        /\ \A q \in Object : q # o => user_data_list'[q] = user_data_list[q]
    BY <1>1 DEF Lists
  <1>4. \A q \in Object : Len(user_data_list'[q]) <= MaxUserData
    BY <1>1, <1>3
  <1>5. \A q \in Object : q \notin LiveObjects => user_data_list'[q] = <<>>
    BY <1>1, <1>3
  <1> QED BY <1>2, <1>3, <1>4, <1>5 DEF DataInv

\* tbm_bo_add_user_data and tbm_surface_internal_add_user_data
LEMMA AddDataKeeps ==
    ASSUME NEW x \in Counts, SurfInv(x), DataInv, NEW t \in Thread, NEW o \in Object,
           NEW k \in Key, NEW ff \in BOOLEAN, AddUserData(t, o, k, ff)
    PROVE  DataInv'
  <1> DEFINE U == user_data_list
             V == user_data_list'
             L == user_data_list[o]
             e == NewEntry(k, ff)
             N == <<e>> \o L
             h == [i \in Nat |-> IF i = 0 THEN 0 ELSE i - 1]
  <1>1. /\ user_data_list \in Lists /\ L \in Seq(UserEntry) /\ given \in SUBSET Data
        /\ Owned(U, given)
    BY DEF DataInv, Lists
  <1>2. e \in UserEntry /\ FreedBy(e) = {}
    BY NewOwnsNothing
  <1>3. /\ Passes(t, o) /\ Entries < MaxUserData /\ UNCHANGED vars /\ given' = given
        /\ user_data_list' = [user_data_list EXCEPT ![o] = N]
    BY DEF AddUserData
  <1>4. o \in LiveObjects
    BY <1>3, PassesLive
  <1>5. Len(L) \in Nat /\ Len(L) + 1 <= MaxUserData
    <2>1. Len(L) \in Nat /\ Len(L) <= Entries /\ Entries \in Nat
      BY <1>1, SumLens
    <2> HIDE DEF L
    <2> QED BY <1>3, <2>1, UserDataAssumption
  <1>6. V[o] = N /\ \A q \in Object : q # o => V[q] = U[q]
    BY <1>1, <1>3 DEF Lists
  <1> HIDE DEF e, L
  <1>7. /\ N \in Seq(UserEntry) /\ Len(N) = Len(L) + 1 /\ N[1] = e
        /\ \A i \in 2 .. Len(L) + 1 : N[i] = L[i - 1]
        /\ \A i \in 1 .. Len(L) : i + 1 \in 2 .. Len(L) + 1 /\ N[i + 1] = L[i]
    BY <1>1, <1>2, <1>5
  <1> HIDE DEF N
  <1>8. h \in [Nat -> Nat] /\ \A i, j \in Nat \ {0} : h[i] = h[j] => i = j
    OBVIOUS
  <1>9. ASSUME NEW i \in Nat, NEW d \in Data, Owns(N, i, d)
        PROVE  Owns(L, h[i], d)
    <2>1. i \in 1 .. Len(L) + 1 /\ d \in FreedBy(N[i])
      BY <1>7, <1>9 DEF Owns
    <2>2. i # 1
      BY <1>2, <1>7, <2>1
    <2>3. h[i] = i - 1 /\ i \in 2 .. Len(L) + 1 /\ i - 1 \in 1 .. Len(L)
      BY <1>5, <2>1, <2>2
    <2> QED BY <1>7, <2>1, <2>3 DEF Owns
  <1>10. ASSUME NEW i \in Nat, NEW d \in Data, Owns(L, i, d)
         PROVE  \E j \in Nat : Owns(N, j, d)
    <2>1. i + 1 \in 1 .. Len(L) + 1 /\ N[i + 1] = L[i] /\ i + 1 \in Nat
      BY <1>5, <1>7, <1>10 DEF Owns
    <2>2. Owns(N, i + 1, d)
      BY <1>7, <1>10, <2>1 DEF Owns
    <2> QED BY <2>1, <2>2
  <1> HIDE DEF h
  <1>11. Owned(V, given \ {})
    <2> DEFINE F == {}
    <2>1. \A i \in Nat, d \in Data : Owns(V[o], i, d) => Owns(U[o], h[i], d) /\ d \notin F
      BY <1>6, <1>9 DEF L
    <2>2. \A i \in Nat, d \in Data : Owns(U[o], i, d) /\ d \notin F => \E j \in Nat : Owns(V[o], j, d)
      BY <1>6, <1>10 DEF L
    <2>3. \A d \in Data : d \in F => \E i \in Nat : Owns(U[o], i, d)
      OBVIOUS
    <2> HIDE DEF F, U, V
    <2>4. Owned(V, given \ F)
      BY <1>1, <1>6, <1>8, <2>1, <2>2, <2>3, OwnedMoved
    <2> QED BY <2>4 DEF F
  <1>12. Owned(user_data_list', given')
    <2>1. given \ {} = given'
      BY <1>3
    <2> QED BY <1>11, <2>1
  <1>13. given' \in SUBSET Data /\ Len(N) <= MaxUserData
    BY <1>1, <1>3, <1>5, <1>7
  <1> QED BY <1>3, <1>4, <1>7, <1>12, <1>13, DataKeeps

\* tbm_bo_delete_user_data and tbm_surface_internal_delete_user_data
LEMMA DeleteDataKeeps ==
    ASSUME NEW x \in Counts, SurfInv(x), DataInv, NEW t \in Thread, NEW o \in Object,
           NEW k \in Key, DeleteUserData(t, o, k)
    PROVE  DataInv'
  <1> DEFINE U == user_data_list
             V == user_data_list'
             L == user_data_list[o]
             n == Lookup(L, k)
             N == RemoveAt(L, n)
             F == FreedBy(L[n])
             h == [i \in Nat |-> IF i < n THEN i ELSE i + 1]
  <1>1. /\ user_data_list \in Lists /\ L \in Seq(UserEntry) /\ given \in SUBSET Data
        /\ Owned(U, given) /\ Len(L) \in Nat /\ Len(L) <= MaxUserData
    BY DEF DataInv, Lists
  <1>2. /\ Passes(t, o) /\ UNCHANGED vars /\ given' = given \ F /\ n # 0
        /\ user_data_list' = [user_data_list EXCEPT ![o] = N]
    BY DEF DeleteUserData
  <1>3. o \in LiveObjects
    BY <1>2, PassesLive
  <1>4. n \in 1 .. Len(L)
    <2> HIDE DEF L
    <2> QED BY <1>1, <1>2, EntryFound
  <1>5. V[o] = N /\ \A q \in Object : q # o => V[q] = U[q]
    BY <1>1, <1>2 DEF Lists
  <1> HIDE DEF n, L
  <1>6. /\ N \in Seq(UserEntry) /\ Len(N) = Len(L) - 1
        /\ \A i \in 1 .. Len(L) - 1 : N[i] = L[IF i < n THEN i ELSE i + 1]
    <2> DEFINE A == SubSeq(L, 1, n - 1)
               B == SubSeq(L, n + 1, Len(L))
    <2>1. A \in Seq(UserEntry) /\ Len(A) = n - 1 /\ \A i \in 1 .. n - 1 : A[i] = L[i]
      BY <1>1, <1>4
    <2>2. B \in Seq(UserEntry) /\ Len(B) = Len(L) - n /\ \A i \in 1 .. Len(L) - n : B[i] = L[n + i]
      BY <1>1, <1>4
    <2>3. N = A \o B
      BY DEF RemoveAt
    <2> HIDE DEF A, B, N
    <2>4. N \in Seq(UserEntry) /\ Len(N) = (n - 1) + (Len(L) - n)
      <3>1. Len(A \o B) = Len(A) + Len(B) /\ A \o B \in Seq(UserEntry)
        BY <2>1, <2>2
      <3> QED BY <2>1, <2>2, <2>3, <3>1
    <2>5. ASSUME NEW i \in 1 .. Len(L) - 1
          PROVE  N[i] = L[IF i < n THEN i ELSE i + 1]
      <3>1. CASE i < n
        BY <1>1, <1>4, <2>1, <2>2, <2>3, <3>1
      <3>2. CASE ~(i < n)
        <4>1. i - (n - 1) \in 1 .. Len(L) - n /\ n + (i - (n - 1)) = i + 1
          BY <1>1, <1>4, <3>2
        <4>2. N[i] = B[i - (n - 1)]
          BY <1>1, <1>4, <2>1, <2>2, <2>3, <3>2
        <4>3. N[i] = L[n + (i - (n - 1))]
          BY <2>2, <4>1, <4>2
        <4> QED BY <3>2, <4>1, <4>3
      <3> QED BY <3>1, <3>2
    <2>6. (n - 1) + (Len(L) - n) = Len(L) - 1
      BY <1>1, <1>4
    <2> QED BY <2>4, <2>5, <2>6
  <1>7. h \in [Nat -> Nat] /\ \A i, j \in Nat \ {0} : h[i] = h[j] => i = j
    BY <1>4
  <1>8. \A i \in Nat : h[i] = IF i < n THEN i ELSE i + 1
    OBVIOUS
  <1> HIDE DEF N, h
  <1>9. ASSUME NEW i \in Nat, NEW d \in Data, Owns(L, i, d), d \notin F
        PROVE  \E j \in Nat : Owns(N, j, d)
    <2>1. i \in 1 .. Len(L) /\ d \in FreedBy(L[i]) /\ i # n
      BY <1>9 DEF Owns
    <2>2. CASE i < n
      <3>1. i \in 1 .. Len(L) - 1 /\ N[i] = L[i]
        BY <1>1, <1>4, <1>6, <2>1, <2>2
      <3> QED BY <1>6, <2>1, <3>1 DEF Owns
    <2>3. CASE ~(i < n)
      <3>1. i - 1 \in 1 .. Len(L) - 1 /\ ~(i - 1 < n) /\ (i - 1) + 1 = i /\ i - 1 \in Nat
        BY <1>1, <1>4, <2>1, <2>3
      <3>2. N[i - 1] = L[i]
        BY <1>6, <3>1
      <3>3. Owns(N, i - 1, d)
        BY <1>6, <2>1, <3>1, <3>2 DEF Owns
      <3> QED BY <3>1, <3>3
    <2> QED BY <2>2, <2>3
  <1>10. ASSUME NEW i \in Nat, NEW d \in Data, Owns(N, i, d)
         PROVE  Owns(L, h[i], d) /\ d \notin F
    <2>1. i \in 1 .. Len(L) - 1 /\ d \in FreedBy(N[i])
      BY <1>6, <1>10 DEF Owns
    <2>2. N[i] = L[h[i]] /\ h[i] \in 1 .. Len(L) /\ h[i] # n /\ h[i] \in Nat
      <3>1. h[i] = (IF i < n THEN i ELSE i + 1) /\ i \in Nat
        BY <1>8
      <3>2. N[i] = L[h[i]]
        BY <1>6, <2>1, <3>1
      <3>3. h[i] \in 1 .. Len(L) /\ h[i] # n /\ h[i] \in Nat
        BY <1>1, <1>4, <2>1, <3>1
      <3> QED BY <3>2, <3>3
    <2>3. Owns(L, h[i], d)
      BY <2>1, <2>2 DEF Owns
    <2>4. d \in F => Owns(L, n, d)
      BY <1>4 DEF Owns
    <2>5. ASSUME d \in F PROVE FALSE
      <3>1. Owns(U[o], h[i], d) /\ Owns(U[o], n, d)
        BY <2>3, <2>4, <2>5 DEF L
      <3>2. n \in Nat
        BY <1>4
      <3> HIDE DEF F
      <3>3. h[i] = n
        BY <1>1, <2>2, <3>1, <3>2 DEF Owned
      <3> QED BY <2>2, <3>3
    <2> QED BY <2>3, <2>5
  <1>11. \A d \in Data : d \in F => Owns(L, n, d) /\ n \in Nat
    BY <1>4 DEF Owns
  <1> HIDE DEF F
  <1>12. Owned(V, given \ F)
    <2>1. \A i \in Nat, d \in Data : Owns(V[o], i, d) => Owns(U[o], h[i], d) /\ d \notin F
      BY <1>5, <1>10 DEF L
    <2>2. \A i \in Nat, d \in Data : Owns(U[o], i, d) /\ d \notin F => \E j \in Nat : Owns(V[o], j, d)
      BY <1>5, <1>9 DEF L
    <2>3. \A d \in Data : d \in F => \E i \in Nat : Owns(U[o], i, d)
      BY <1>11 DEF L
    <2> HIDE DEF U, V
    <2> QED BY <1>1, <1>5, <1>7, <2>1, <2>2, <2>3, OwnedMoved, ZenonT(40)
  <1>13. Owned(user_data_list', given')
    BY <1>2, <1>12
  <1>14. given' \in SUBSET Data /\ Len(N) <= MaxUserData
    <2>1. Len(N) = Len(L) - 1 /\ Len(L) \in Nat /\ Len(L) <= MaxUserData /\ MaxUserData \in Nat
      BY <1>1, <1>6, UserDataAssumption
    <2> QED BY <1>1, <1>2, <2>1
  <1> QED BY <1>2, <1>3, <1>6, <1>13, <1>14, DataKeeps

\* tbm_bo_set_user_data and tbm_surface_internal_set_user_data
LEMMA SetDataKeeps ==
    ASSUME NEW x \in Counts, SurfInv(x), DataInv, NEW t \in Thread, NEW o \in Object,
           NEW k \in Key, NEW d \in (Data \ given) \cup {NULL}, SetUserData(t, o, k, d)
    PROVE  DataInv'
  <1> DEFINE U == user_data_list
             V == user_data_list'
             L == user_data_list[o]
             n == Lookup(L, k)
             e == [L[n] EXCEPT !.data = d]
             N == [L EXCEPT ![n] = e]
             F == FreedBy(L[n])
             G == FreedBy(e)
  <1>1. /\ user_data_list \in Lists /\ L \in Seq(UserEntry) /\ given \in SUBSET Data
        /\ Owned(U, given) /\ Len(L) \in Nat /\ Len(L) <= MaxUserData
    BY DEF DataInv, Lists
  <1>2. /\ Passes(t, o) /\ UNCHANGED vars /\ given' = (given \ F) \cup G /\ n # 0
        /\ user_data_list' = [user_data_list EXCEPT ![o][n].data = d]
    BY DEF SetUserData
  <1>3. o \in LiveObjects
    BY <1>2, PassesLive
  <1>4. n \in 1 .. Len(L) /\ n \in Nat
    <2> HIDE DEF L
    <2> QED BY <1>1, <1>2, EntryFound
  <1>5. user_data_list' = [user_data_list EXCEPT ![o] = N]
    BY <1>2
  <1>6. V[o] = N /\ \A q \in Object : q # o => V[q] = U[q]
    BY <1>1, <1>5 DEF Lists
  <1>7. e \in UserEntry /\ e.data = d /\ L[n] \in UserEntry
    <2> HIDE DEF n, L
    <2>1. L[n] \in UserEntry
      BY <1>1, <1>4
    <2> QED BY <2>1 DEF UserEntry
  <1>8. G \in SUBSET Data /\ \A c \in G : c \notin given
    <2>1. G \in SUBSET Data /\ \A c \in G : c = d /\ c # NULL
      <3> HIDE DEF e
      <3> QED BY <1>7, FreedIs DEF FreedBy
    <2> QED BY <2>1
  <1> HIDE DEF e, n, L
  <1>9. /\ N \in Seq(UserEntry) /\ Len(N) = Len(L) /\ N[n] = e
        /\ \A i \in 1 .. Len(L) : i # n => N[i] = L[i]
    BY <1>1, <1>4, <1>7
  <1> HIDE DEF N
  <1>10. Owned(V, (given \ F) \cup G)
    <2>1. \A i \in Nat, c \in Data : i # n => (Owns(V[o], i, c) <=> Owns(U[o], i, c))
      BY <1>6, <1>9 DEF Owns, L
    <2>2. \A c \in Data : c \in F <=> Owns(U[o], n, c)
      BY <1>4 DEF Owns, L
    <2>3. \A c \in Data : c \in G <=> Owns(V[o], n, c)
      BY <1>4, <1>6, <1>9 DEF Owns
    <2>4. \A c \in Data : c \in G => c \notin given
      BY <1>8
    <2> HIDE DEF U, V, F, G
    <2> QED BY <1>1, <1>4, <1>6, <2>1, <2>2, <2>3, <2>4, OwnedSet
  <1>11. Owned(user_data_list', given')
    BY <1>2, <1>10
  <1>12. given' \in SUBSET Data /\ Len(N) <= MaxUserData
    BY <1>1, <1>2, <1>8, <1>9
  <1> QED BY <1>3, <1>2, <1>5, <1>9, <1>11, <1>12, DataKeeps

\* What is destroyed lets its data go, everything else keeps what it owns.
LEMMA DestroyDataKeeps ==
    ASSUME DataInv, DestroyLists, LiveObjects \in SUBSET Object
    PROVE  DataInv'
  <1> DEFINE dead == LiveObjects \ LiveObjects'
             U == user_data_list
             V == user_data_list'
             F == UNION {FreedByAll(U[o]) : o \in dead}
  <1>1. /\ U \in Lists /\ given \in SUBSET Data /\ Owned(U, given)
        /\ \A o \in Object : Len(U[o]) <= MaxUserData
        /\ \A o \in Object : o \notin LiveObjects => U[o] = <<>>
    BY DEF DataInv
  <1>2. /\ V = [o \in Object |-> IF o \in dead THEN <<>> ELSE U[o]]
        /\ given' = given \ F /\ dead \in SUBSET Object
    BY DEF DestroyLists
  <1>3. /\ V \in Lists /\ given' \in SUBSET Data
        /\ \A o \in Object : V[o] = IF o \in dead THEN <<>> ELSE U[o]
    <2>1. <<>> \in Seq(UserEntry)
      OBVIOUS
    <2> QED BY <1>1, <1>2, <2>1 DEF Lists
  <1>4. \A o \in Object : Len(V[o]) <= MaxUserData
    <2>1. Len(<<>>) <= MaxUserData
      BY UserDataAssumption
    <2> QED BY <1>1, <1>3, <2>1
  <1>5. \A o \in Object : o \notin LiveObjects' => V[o] = <<>>
    BY <1>1, <1>3
  <1>6. ASSUME NEW d \in Data
        PROVE  d \in F <=> \E o \in dead : \E i \in Nat : Owns(U[o], i, d)
    <2>1. \A o \in dead : d \in FreedByAll(U[o]) <=> \E i \in Nat : Owns(U[o], i, d)
      BY DEF FreedByAll, Owns
    <2>2. d \in F <=> \E o \in dead : d \in FreedByAll(U[o])
      OBVIOUS
    <2> QED BY <2>1, <2>2
  <1> HIDE DEF F
  <1>7. ASSUME NEW o \in Object, NEW i \in Nat, NEW d \in Data
        PROVE  Owns(V[o], i, d) <=> Owns(U[o], i, d) /\ o \notin dead
    <2>1. CASE o \in dead
      <3>1. V[o] = <<>>
        BY <1>3, <2>1
      <3> QED BY <2>1, <3>1 DEF Owns
    <2>2. CASE o \notin dead
      BY <1>3, <2>2
    <2> QED BY <2>1, <2>2
  <1> HIDE DEF dead, U, V
  <1>8. Owned(V, given \ F)
    <2> SUFFICES ASSUME NEW d \in Data
                 PROVE  /\ d \in given \ F <=> \E q \in Object : \E i \in Nat : Owns(V[q], i, d)
                        /\ \A q, p \in Object : \A i, j \in Nat :
                             Owns(V[q], i, d) /\ Owns(V[p], j, d) => q = p /\ i = j
      BY DEF Owned
    <2>1. d \in given <=> \E q \in Object : \E i \in Nat : Owns(U[q], i, d)
      BY <1>1 DEF Owned
    <2>2. \A q, p \in Object : \A i, j \in Nat :
            Owns(U[q], i, d) /\ Owns(U[p], j, d) => q = p /\ i = j
      BY <1>1 DEF Owned
    <2>3. ASSUME d \in given \ F PROVE \E q \in Object : \E i \in Nat : Owns(V[q], i, d)
      <3>1. PICK q \in Object, i \in Nat : Owns(U[q], i, d)
        BY <2>1, <2>3
      <3>2. q \notin dead
        BY <1>6, <2>3, <3>1
      <3> QED BY <1>7, <3>1, <3>2
    <2>4. ASSUME NEW q \in Object, NEW i \in Nat, Owns(V[q], i, d) PROVE d \in given \ F
      <3>1. Owns(U[q], i, d) /\ q \notin dead
        BY <1>7, <2>4
      <3>2. d \notin F
        BY <1>2, <1>6, <2>2, <3>1
      <3> QED BY <2>1, <3>1, <3>2
    <2>5. \A q, p \in Object : \A i, j \in Nat :
            Owns(V[q], i, d) /\ Owns(V[p], j, d) => q = p /\ i = j
      BY <1>7, <2>2
    <2> QED BY <2>3, <2>4, <2>5
  <1> QED BY <1>2, <1>3, <1>4, <1>5, <1>8 DEF DataInv, V

\* What the invariant says of the property.
LEMMA DataIsOwned ==
    ASSUME DataInv
    PROVE  DataOwnedOnce
  <1> DEFINE U == user_data_list
  <1>1. /\ U \in Lists /\ Owned(U, given)
        /\ \A o \in Object : Len(U[o]) <= MaxUserData
        /\ \A o \in Object \ LiveObjects : U[o] = <<>>
    BY DEF DataInv
  <1>2. ASSUME NEW d \in Data
        PROVE  Cardinality(Owners(d)) = IF d \in given THEN 1 ELSE 0
    <2>1. d \in given <=> \E q \in Object : \E i \in Nat : Owns(U[q], i, d)
      BY <1>1 DEF Owned
    <2>2. \A q, p \in Object : \A i, j \in Nat :
            Owns(U[q], i, d) /\ Owns(U[p], j, d) => q = p /\ i = j
      BY <1>1 DEF Owned
    <2>3. \A e \in Owners(d) : e \in Object \X Nat /\ Owns(U[e[1]], e[2], d)
      BY UserDataAssumption DEF Owners, Owns
    <2>4. ASSUME NEW q \in Object, NEW i \in Nat, Owns(U[q], i, d)
          PROVE  <<q, i>> \in Owners(d)
      <3>1. i \in 1 .. Len(U[q]) /\ d \in FreedBy(U[q][i])
        BY <2>4 DEF Owns
      <3>2. Len(U[q]) \in Nat /\ Len(U[q]) <= MaxUserData
        BY <1>1 DEF Lists
      <3>3. i \in 1 .. MaxUserData
        BY <3>1, <3>2, UserDataAssumption
      <3>4. <<q, i>> \in Object \X (1 .. MaxUserData)
        BY <3>3
      <3>5. <<q, i>>[1] = q /\ <<q, i>>[2] = i
        OBVIOUS
      <3> QED BY <3>1, <3>4, <3>5 DEF Owners
    <2> HIDE DEF U
    <2>5. CASE d \in given
      <3>1. PICK q \in Object, i \in Nat : Owns(U[q], i, d)
        BY <2>1, <2>5
      <3>2. ASSUME NEW e \in Owners(d) PROVE e = <<q, i>>
        <4>1. e \in Object \X Nat /\ Owns(U[e[1]], e[2], d)
          BY <2>3, <3>2
        <4>2. e[1] \in Object /\ e[2] \in Nat /\ e = <<e[1], e[2]>>
          BY <4>1
        <4>3. e[1] = q /\ e[2] = i
          BY <2>2, <3>1, <4>1, <4>2
        <4> QED BY <4>2, <4>3
      <3>3. Owners(d) = {<<q, i>>}
        BY <2>4, <3>1, <3>2
      <3>4. Cardinality(Owners(d)) = 1
        BY <3>3, FS_Singleton
      <3> QED BY <2>5, <3>4
    <2>6. CASE d \notin given
      <3>1. Owners(d) = {}
        <4> SUFFICES ASSUME NEW e \in Owners(d) PROVE FALSE
          OBVIOUS
        <4>1. e \in Object \X Nat /\ Owns(U[e[1]], e[2], d)
          BY <2>3
        <4>2. e[1] \in Object /\ e[2] \in Nat
          BY <4>1
        <4> QED BY <2>1, <2>6, <4>1, <4>2
      <3> QED BY <2>6, <3>1, FS_EmptySet
    <2> QED BY <2>5, <2>6
  <1> QED BY <1>1, <1>2 DEF DataOwnedOnce

\* All three invariants.
ClientInv == SurfInv(NoRefs) /\ DebugInv /\ DataInv

\* They hold at first.
LEMMA ClientBegins ==
    ASSUME DebugDataInit
    PROVE  ClientInv
  <1>1. SurfInv(NoRefs)
    BY InitHolds DEF DebugDataInit, UserDataInit
  <1>2. /\ user_data_list = [o \in Object |-> <<>>] /\ given = {}
        /\ debug_data_list = [s \in Surf |-> << >>] /\ debug_key_list = << >>
        /\ latest = [s \in Surf |-> [k \in DebugKey |-> NULL]]
    BY DEF DebugDataInit, UserDataInit
  <1>3. DataInv
    <2>1. user_data_list \in Lists /\ \A o \in Object : user_data_list[o] = <<>>
      BY <1>2 DEF Lists
    <2>2. \A o \in Object, i \in Nat, d \in Data : ~Owns(user_data_list[o], i, d)
      BY <2>1 DEF Owns
    <2>3. Owned(user_data_list, given)
      BY <1>2, <2>2 DEF Owned
    <2>4. \A o \in Object : Len(user_data_list[o]) <= MaxUserData
      BY <2>1, UserDataAssumption
    <2> QED BY <1>2, <2>1, <2>3, <2>4 DEF DataInv
  <1>4. DebugInv
    <2>1. /\ debug_data_list \in [Surf -> Seq(DebugEntry)] /\ \A s \in Surf : debug_data_list[s] = <<>>
          /\ latest \in [Surf -> [DebugKey -> DebugValue \cup {NULL}]]
          /\ \A s \in Surf, k \in DebugKey : latest[s][k] = NULL
      BY <1>2
    <2>2. \A s \in Surf : ShownOK(debug_data_list[s], latest[s])
      BY <2>1, NothingShown
    <2>3. KeysOK(debug_key_list, debug_data_list)
      <3>1. Len(debug_key_list) = 0 /\ debug_key_list \in Seq(DebugKey) /\ Distinct(debug_key_list)
        BY <1>2 DEF Distinct
      <3>2. \A s \in Surf : Len(debug_data_list[s]) = 0
        BY <2>1
      <3> QED BY <3>1, <3>2 DEF KeysOK
    <2> QED BY <2>1, <2>2, <2>3 DEF DebugInv
  <1> QED BY <1>1, <1>3, <1>4 DEF ClientInv

\* Every step keeps them.
LEMMA ClientStep ==
    ASSUME ClientInv, [DebugDataNext]_<<userDataVars, debugVars>>
    PROVE  ClientInv'
  <1>1. SurfInv(NoRefs) /\ DebugInv /\ DataInv
    BY DEF ClientInv
  <1>2. NoRefs \in Counts /\ \A b \in Bo : NoRefs[b] = 0
    BY DEF NoRefs, Counts
  <1>3. ASSUME UNCHANGED vars PROVE SurfInv(NoRefs)' /\ LiveSurfs' = LiveSurfs /\ LiveObjects' = LiveObjects
    <2>1. SurfInv(NoRefs)'
      BY <1>1, <1>2, <1>3, StutterKeeps
    <2>2. LiveSurfs' = LiveSurfs /\ LiveObjects' = LiveObjects
      BY <1>3 DEF LiveObjects, Live, LiveSurfs, vars, bufmgrVars, surfVars
    <2> QED BY <2>1, <2>2
  <1>4. ASSUME UNCHANGED vars, UNCHANGED debugVars PROVE DebugInv'
    BY <1>1, <1>3, <1>4 DEF DebugInv, debugVars
  <1>5. ASSUME UNCHANGED userDataVars PROVE DataInv' /\ UNCHANGED vars
    BY <1>1, <1>3, <1>5 DEF DataInv, userDataVars
  <1>6. CASE SurfaceNext /\ DestroyLists /\ DestroyDebugData
    <2>1. SurfInv(NoRefs)'
      BY <1>1, <1>2, <1>6, StepKeeps
    <2>2. DebugInv'
      BY <1>1, <1>6, DestroyDebugKeeps
    <2>3. LiveObjects \in SUBSET Object
      <3>1. Live \in SUBSET Bo
        BY <1>1, <1>2, InvSays
      <3>2. LiveSurfs \in SUBSET Surf
        BY <1>1, <1>2, SurfacesLive
      <3> QED BY <3>1, <3>2 DEF LiveObjects, Object
    <2>4. DataInv'
      BY <1>1, <1>6, <2>3, DestroyDataKeeps
    <2> QED BY <2>1, <2>2, <2>4 DEF ClientInv
  <1>7. CASE UserDataCalls /\ UNCHANGED debugVars
    <2>1. PICK t \in Thread, o \in Object, k \in Key :
            \/ \E ff \in BOOLEAN : AddUserData(t, o, k, ff)
            \/ \E d \in (Data \ given) \cup {NULL} : SetUserData(t, o, k, d)
            \/ DeleteUserData(t, o, k)
      BY <1>7 DEF UserDataCalls
    <2>2. UNCHANGED vars
      BY <2>1 DEF AddUserData, SetUserData, DeleteUserData
    <2>3. DataInv'
      <3>1. ASSUME NEW ff \in BOOLEAN, AddUserData(t, o, k, ff) PROVE DataInv'
        BY <1>1, <1>2, <3>1, AddDataKeeps
      <3>2. ASSUME NEW d \in (Data \ given) \cup {NULL}, SetUserData(t, o, k, d) PROVE DataInv'
        BY <1>1, <1>2, <3>2, SetDataKeeps
      <3>3. ASSUME DeleteUserData(t, o, k) PROVE DataInv'
        BY <1>1, <1>2, <3>3, DeleteDataKeeps
      <3> QED BY <2>1, <3>1, <3>2, <3>3
    <2> QED BY <1>3, <1>4, <1>7, <2>2, <2>3 DEF ClientInv
  <1>8. ASSUME NEW t \in Thread, NEW s \in Surf, NEW k \in DebugKey, NEW v \in DebugValue \cup {NULL},
               SetDebugData(t, s, k, v)
        PROVE  ClientInv'
    <2>1. UNCHANGED userDataVars
      BY <1>8 DEF SetDebugData
    <2>2. DebugInv'
      BY <1>1, <1>2, <1>8, SetDebugKeeps
    <2> QED BY <1>3, <1>5, <2>1, <2>2 DEF ClientInv
  <1>9. CASE UNCHANGED <<userDataVars, debugVars>>
    BY <1>3, <1>4, <1>5, <1>9 DEF ClientInv
  <1> QED BY <1>6, <1>7, <1>8, <1>9 DEF DebugDataNext

\* The invariants of surfaces, debug data and user data hold together.
THEOREM ClientDataInvariant == DebugDataSpec => []ClientInv
  <1>1. DebugDataInit => ClientInv
    BY ClientBegins
  <1>2. ClientInv /\ [DebugDataNext]_<<userDataVars, debugVars>> => ClientInv'
    BY ClientStep
  <1> QED BY <1>1, <1>2, PTL DEF DebugDataSpec

\* Every datum given to a bo or surface is owned by one entry of one list or
\* freed, once: neither setting, deleting nor the destruction of the object
\* frees it twice or loses it.
THEOREM DataIsOwnedOnce == DebugDataSpec => []DataOwnedOnce
  <1>1. ClientInv => DataOwnedOnce
    BY DataIsOwned DEF ClientInv
  <1> QED BY <1>1, ClientDataInvariant, PTL

\* What debug_show prints for a key of a surface is the value set last or a
\* beginning of it, and the list of keys has every key in use once, however
\* surfaces come and go.
THEOREM DebugDataIsShown == DebugDataSpec => []DebugDataShown
  <1>1. ClientInv => DebugDataShown
    BY DebugShows DEF ClientInv, NoRefs, Counts
  <1> QED BY <1>1, ClientDataInvariant, PTL

(* The manager while frames are dumped.                                     *)

\* The backend has locked b and nothing counts it yet.
Taken(mgr, b) == [mgr EXCEPT !.held[mgr.bos[b].priv] = @ + 1]

\* Where locks are taken once and balanced, none is on its way.
Calm(mgr, k) ==
    LocksKept(mgr.env) /\ LockType(mgr) = "TRY_ONCE" => \A b \in Bo : k[b] = 0

\* _tbm_bo_unlock, _tbm_bo_lock, tbm_bo_map and its failures make managers of
\* managers.
LEMMA BoUnlockMgr ==
    ASSUME NEW mgr \in Mgr, NEW b \in DOMAIN mgr.bos
    PROVE  /\ BoUnlock(mgr, b) \in Mgr /\ Same(mgr, BoUnlock(mgr, b))
           /\ DOMAIN BoUnlock(mgr, b).bos = DOMAIN mgr.bos
  <1> DEFINE i == mgr.bos[b].lock_cnt
             j == mgr.bos[b].map_cnt
             h == mgr.held[mgr.bos[b].priv]
             y == BoUnlock(mgr, b)
             l == IF LockType(mgr) = "TRY_ALWAYS" \/ i = 1 THEN h - 1 ELSE h
  <1>1. i \in Int /\ j \in Int /\ h \in Int /\ b \in Bo
    BY BoOf, MgrFields
  <1>2. IsSet(mgr, mgr, b, i, j, h)
    BY NotSet
  <1>3. \/ IsSet(mgr, y, b, i, j, h)
        \/ IsSet(mgr, y, b, i - 1, j, l)
    <2> HIDE DEF i, j, h
    <2> QED BY <1>1, <1>2, UnlockSet
  <1>4. Touches(mgr, y, b)
    <2> HIDE DEF y, i, j, h, l
    <2> QED BY <1>3 DEF IsSet
  <1>5. Same(mgr, y)
    BY <1>1, BoUnlockSame
  <1> QED BY <1>4, <1>5 DEF Touches, Same

\* Taking the backend lock changes nothing but the locks.
LEMMA TakenMgr ==
    ASSUME NEW mgr \in Mgr, NEW b \in DOMAIN mgr.bos
    PROVE  /\ Taken(mgr, b) \in Mgr /\ Same(mgr, Taken(mgr, b))
           /\ Taken(mgr, b).bos = mgr.bos
  <1>1. mgr.held \in [Priv -> Int] /\ mgr.bos[b].priv \in Priv
    BY BoOf, MgrFields
  <1> DEFINE g == [mgr.held EXCEPT ![mgr.bos[b].priv] = @ + 1]
  <1>2. g \in [Priv -> Int]
    BY <1>1
  <1>3. Taken(mgr, b) = [mgr EXCEPT !.held = g]
    BY DEF Taken, Mgr
  <1> HIDE DEF g
  <1> QED BY <1>2, <1>3 DEF Mgr, Same

\* _bo_lock, in one formula: nothing, or the lock taken and counted.
LEMMA BoLockIs ==
    ASSUME NEW mgr \in Mgr, NEW b \in DOMAIN mgr.bos
    PROVE  BoLock(mgr, b) = IF NeedsLock(mgr, b) THEN Relocked(Taken(mgr, b), b) ELSE mgr
  <1>1. ASSUME NeedsLock(mgr, b) PROVE BoLock(mgr, b) = Relocked(Taken(mgr, b), b)
    <2> DEFINE p == mgr.bos[b].priv
               g == [mgr.held EXCEPT ![p] = @ + 1]
               f == [mgr.bos EXCEPT ![b].lock_cnt = @ + 1]
    <2>1. BoLock(mgr, b) = [mgr EXCEPT !.bos = f, !.held = g]
      BY <1>1 DEF BoLock, Mgr
    <2>2. Taken(mgr, b) = [mgr EXCEPT !.held = g]
      BY DEF Taken, Mgr
    <2>3. Relocked(Taken(mgr, b), b) = [[mgr EXCEPT !.held = g] EXCEPT !.bos = f]
      BY <2>2 DEF Relocked, Mgr
    <2> HIDE DEF f, g
    <2>4. [[mgr EXCEPT !.held = g] EXCEPT !.bos = f] = [mgr EXCEPT !.bos = f, !.held = g]
      BY DEF Mgr
    <2> QED BY <2>1, <2>3, <2>4
  <1> QED BY <1>1 DEF BoLock

\* What _bo_lock leaves alone.
LEMMA BoLockMgr ==
    ASSUME NEW mgr \in Mgr, NEW b \in DOMAIN mgr.bos
    PROVE  /\ BoLock(mgr, b) \in Mgr /\ Same(mgr, BoLock(mgr, b))
           /\ DOMAIN BoLock(mgr, b).bos = DOMAIN mgr.bos
  <1> DEFINE x == Taken(mgr, b)
             i == x.bos[b].lock_cnt + 1
  <1>1. x \in Mgr /\ Same(mgr, x) /\ x.bos = mgr.bos
    BY TakenMgr
  <1>2. i \in Int /\ b \in Bo /\ b \in DOMAIN x.bos
    BY <1>1, BoOf
  <1>3. Relocked(x, b) = [x EXCEPT !.bos[b].lock_cnt = i]
    BY DEF Relocked
  <1> HIDE DEF i, x
  <1>4. Touches(x, [x EXCEPT !.bos[b].lock_cnt = i], b)
    BY <1>1, <1>2, BoFieldChanged
  <1>5. Same(x, [x EXCEPT !.bos[b].lock_cnt = i])
    BY <1>1 DEF Same, Mgr
  <1>6. /\ Relocked(x, b) \in Mgr /\ Same(mgr, Relocked(x, b))
        /\ DOMAIN Relocked(x, b).bos = DOMAIN mgr.bos
    BY <1>1, <1>3, <1>4, <1>5 DEF Touches, Same
  <1>7. Same(mgr, mgr)
    BY DEF Same
  <1> QED BY <1>6, <1>7, BoLockIs DEF x

\* tbm_bo_map in one step, as the dump calls it.
LEMMA BoMapMgr ==
    ASSUME NEW mgr \in Mgr, NEW b \in DOMAIN mgr.bos
    PROVE  /\ BoMap(mgr, b) \in Mgr /\ Same(mgr, BoMap(mgr, b))
           /\ DOMAIN BoMap(mgr, b).bos = DOMAIN mgr.bos
  <1> DEFINE x == BoLock(mgr, b)
             i == x.bos[b].map_cnt + 1
  <1>1. x \in Mgr /\ Same(mgr, x) /\ DOMAIN x.bos = DOMAIN mgr.bos
    BY BoLockMgr
  <1>2. i \in Int /\ b \in Bo /\ b \in DOMAIN x.bos
    BY <1>1, BoOf
  <1>3. BoMap(mgr, b) = [x EXCEPT !.bos[b].map_cnt = i]
    BY DEF BoMap
  <1> HIDE DEF i, x
  <1>4. Touches(x, [x EXCEPT !.bos[b].map_cnt = i], b)
    BY <1>1, <1>2, BoFieldChanged
  <1>5. Same(x, [x EXCEPT !.bos[b].map_cnt = i])
    BY <1>1 DEF Same, Mgr
  <1> QED BY <1>1, <1>3, <1>4, <1>5 DEF Touches, Same

\* What tbm_bo_map leaves when the lock or the map of the backend fails.
LEMMA BoMapFailsMgr ==
    ASSUME NEW mgr \in Mgr, NEW b, NEW x \in BoMapFails(mgr, b)
    PROVE  /\ x \in Mgr /\ Same(mgr, x) /\ DOMAIN x.bos = DOMAIN mgr.bos
  <1>1. Same(mgr, mgr)
    BY DEF Same
  <1>2. CASE x = mgr
    BY <1>1, <1>2
  <1>3. CASE b \in DOMAIN mgr.bos /\ x = BoUnlock(BoLock(mgr, b), b)
    <2> DEFINE y == BoLock(mgr, b)
    <2>1. y \in Mgr /\ Same(mgr, y) /\ DOMAIN y.bos = DOMAIN mgr.bos
      BY <1>3, BoLockMgr
    <2> HIDE DEF y
    <2>2. /\ BoUnlock(y, b) \in Mgr /\ Same(y, BoUnlock(y, b))
          /\ DOMAIN BoUnlock(y, b).bos = DOMAIN y.bos
      BY <1>3, <2>1, BoUnlockMgr
    <2> QED BY <1>3, <2>1, <2>2 DEF y, Same
  <1> QED BY <1>2, <1>3 DEF BoMapFails

\* A count that goes up and down again.
LEMMA UpAndDown ==
    ASSUME NEW k \in Counts, NEW b \in Bo
    PROVE  /\ [k EXCEPT ![b] = @ + 1] \in Counts /\ [k EXCEPT ![b] = @ + 1][b] > 0
           /\ [[k EXCEPT ![b] = @ + 1] EXCEPT ![b] = @ - 1] = k
  <1> DEFINE l == [k EXCEPT ![b] = @ + 1]
  <1>1. k[b] \in Nat /\ k \in [Bo -> Nat]
    BY DEF Counts
  <1>2. l \in Counts /\ l[b] = k[b] + 1 /\ \A c \in Bo : c # b => l[c] = k[c]
    BY <1>1 DEF Counts
  <1> HIDE DEF l
  <1> DEFINE g == [l EXCEPT ![b] = @ - 1]
  <1>3. g \in Counts /\ \A c \in Bo : g[c] = k[c]
    <2>1. l[b] - 1 = k[b]
      BY <1>1, <1>2
    <2> QED BY <1>1, <1>2, <2>1 DEF Counts
  <1>4. g = k
    <2> HIDE DEF g
    <2> QED BY <1>3, CountsSame
  <1>5. l[b] > 0
    BY <1>1, <1>2
  <1> QED BY <1>2, <1>4, <1>5 DEF l

\* The backend takes a lock that the manager asks for.
LEMMA TakenMeets ==
    ASSUME NEW mgr, NEW w \in Counts, NEW u \in Counts, NEW k \in Counts, NEW P,
           Meets(mgr, w, u, k, P), Calm(mgr, k), NEW b \in DOMAIN mgr.bos, NeedsLock(mgr, b)
    PROVE  /\ Meets(Taken(mgr, b), w, u, [k EXCEPT ![b] = @ + 1], P)
           /\ b \in DOMAIN Taken(mgr, b).bos
           /\ LocksKept(mgr.env) /\ LockType(mgr) = "TRY_ONCE" => mgr.bos[b].lock_cnt = 0
           /\ LockType(Taken(mgr, b)) = LockType(mgr)
  <1>1. mgr \in Mgr /\ b \in Bo
    BY MeetsAt
  <1>2. LockType(mgr) # "TRY_NEVER" /\ (LockType(mgr) = "TRY_ONCE" => mgr.bos[b].lock_cnt = 0)
    BY DEF NeedsLock
  <1>3. LocksKept(mgr.env) => Lockable(mgr, b, k[b])
    BY <1>1, <1>2 DEF Lockable, Calm
  <1>4. Meets(Taken(mgr, b), w, u, [k EXCEPT ![b] = @ + 1], P)
    BY <1>3, BackendLockMeets DEF Taken
  <1>5. Taken(mgr, b).bos = mgr.bos /\ Same(mgr, Taken(mgr, b))
    BY <1>1, TakenMgr
  <1>6. LockType(Taken(mgr, b)) = LockType(mgr)
    BY <1>5, SameLockType DEF Same
  <1> QED BY <1>2, <1>4, <1>5, <1>6

\* tbm_bo_map as one step
LEMMA BoMapMeets ==
    ASSUME NEW mgr, NEW w \in Counts, NEW u \in Counts, NEW k \in Counts, NEW P,
           Meets(mgr, w, u, k, P), Calm(mgr, k), NEW b \in DOMAIN mgr.bos
    PROVE  Meets(BoMap(mgr, b), w, [u EXCEPT ![b] = @ + 1], k, P)
  <1>1. mgr \in Mgr /\ b \in Bo
    BY MeetsAt
  <1>2. CASE ~NeedsLock(mgr, b)
    <2>1. BoMap(mgr, b) = [mgr EXCEPT !.bos[b].map_cnt = @ + 1]
      BY <1>2 DEF BoMap, BoLock
    <2> QED BY <1>2, <2>1, MapPlainMeets
  <1>3. CASE NeedsLock(mgr, b)
    <2> DEFINE x == Taken(mgr, b)
               l == [k EXCEPT ![b] = @ + 1]
    <2>1. Meets(x, w, u, l, P) /\ b \in DOMAIN x.bos
      BY <1>3, TakenMeets
    <2>2. l \in Counts /\ l[b] > 0 /\ [l EXCEPT ![b] = @ - 1] = k
      BY <1>1, UpAndDown
    <2>3. BoMap(mgr, b) = [Relocked(x, b) EXCEPT !.bos[b].map_cnt = @ + 1]
      BY <1>1, <1>3, BoLockIs DEF BoMap
    <2> HIDE DEF x, l
    <2>4. Meets([Relocked(x, b) EXCEPT !.bos[b].map_cnt = @ + 1],
                w, [u EXCEPT ![b] = @ + 1], [l EXCEPT ![b] = @ - 1], P)
      BY <2>1, <2>2, MapLockedMeets
    <2> QED BY <2>2, <2>3, <2>4
  <1> QED BY <1>2, <1>3

\* tbm_bo_map when it fails
LEMMA BoMapFailsMeets ==
    ASSUME NEW mgr, NEW w \in Counts, NEW u \in Counts, NEW k \in Counts, NEW P,
           Meets(mgr, w, u, k, P), Calm(mgr, k), NEW b, NEW x \in BoMapFails(mgr, b)
    PROVE  Meets(x, w, u, k, P)
  <1>1. CASE x = mgr
    BY <1>1
  <1>2. CASE b \in DOMAIN mgr.bos /\ x = BoUnlock(BoLock(mgr, b), b)
    <2>1. mgr \in Mgr /\ b \in Bo
      BY <1>2, MeetsAt
    <2>2. CASE ~NeedsLock(mgr, b)
      <3>1. x = BoUnlock(mgr, b)
        BY <1>2, <2>2 DEF BoLock
      <3> QED BY <1>2, <2>2, <3>1, FailPlainMeets
    <2>3. CASE NeedsLock(mgr, b)
      <3> DEFINE y == Taken(mgr, b)
                 l == [k EXCEPT ![b] = @ + 1]
      <3>1. /\ Meets(y, w, u, l, P) /\ b \in DOMAIN y.bos /\ LockType(y) = LockType(mgr)
            /\ LocksKept(mgr.env) /\ LockType(mgr) = "TRY_ONCE" => mgr.bos[b].lock_cnt = 0
        BY <1>2, <2>3, TakenMeets
      <3>2. l \in Counts /\ l[b] > 0 /\ [l EXCEPT ![b] = @ - 1] = k
        BY <2>1, UpAndDown
      <3>3. x = BoUnlock(Relocked(y, b), b)
        BY <1>2, <2>1, <2>3, BoLockIs
      <3>4. y.env = mgr.env /\ y.bos = mgr.bos
        BY <1>2, <2>1, TakenMgr DEF Same
      <3> HIDE DEF y, l
      <3>5. LocksKept(y.env) /\ LockType(y) = "TRY_ONCE" => y.bos[b].lock_cnt = 0
        BY <3>1, <3>4
      <3>6. Meets(BoUnlock(Relocked(y, b), b), w, u, [l EXCEPT ![b] = @ - 1], P)
        BY <3>1, <3>2, <3>5, FailLockedMeets
      <3> QED BY <3>2, <3>3, <3>6
    <2> QED BY <2>2, <2>3
  <1> QED BY <1>1, <1>2 DEF BoMapFails

\* A dump buffer that is mapped, and unmapped again.
LEMMA FilledMeets ==
    ASSUME NEW mgr, NEW w \in Counts, NEW u \in Counts, NEW k \in Counts, NEW P,
           Meets(mgr, w, u, k, P), Calm(mgr, k), NEW b \in DOMAIN mgr.bos
    PROVE  /\ Meets(BoUnmap(BoMap(mgr, b), b), w, u, k, P)
           /\ Same(mgr, BoUnmap(BoMap(mgr, b), b))
           /\ DOMAIN BoUnmap(BoMap(mgr, b), b).bos = DOMAIN mgr.bos
           /\ BoUnmap(BoMap(mgr, b), b) \in Mgr
  <1> DEFINE x == BoMap(mgr, b)
             v == [u EXCEPT ![b] = @ + 1]
  <1>1. mgr \in Mgr /\ b \in Bo
    BY MeetsAt
  <1>2. x \in Mgr /\ Same(mgr, x) /\ DOMAIN x.bos = DOMAIN mgr.bos
    BY <1>1, BoMapMgr
  <1>3. Meets(x, w, v, k, P)
    BY BoMapMeets
  <1>4. v \in Counts /\ v[b] > 0 /\ [v EXCEPT ![b] = @ - 1] = u
    BY <1>1, UpAndDown
  <1> HIDE DEF x, v
  <1>5. Meets(BoUnmap(x, b), w, [v EXCEPT ![b] = @ - 1], k, P)
    BY <1>2, <1>3, <1>4, BoUnmapMeets
  <1>6. /\ BoUnmap(x, b) \in Mgr /\ Same(x, BoUnmap(x, b))
        /\ DOMAIN BoUnmap(x, b).bos = DOMAIN x.bos
    BY <1>2, BoUnmapMgr
  <1> QED BY <1>2, <1>4, <1>5, <1>6 DEF x, Same

\* The loops of the dump.
LEMMA MapSteps ==
    ASSUME NEW mgr \in Mgr, NEW bs \in Seq(DOMAIN mgr.bos)
    PROVE  \E v : /\ v[0] = mgr
                  /\ \A i \in 1 .. Len(bs) : v[i] = BoMap(v[i - 1], bs[i])
                  /\ MapAll(mgr, bs) = v[Len(bs)]
  <1> DEFINE n == Len(bs)
             S == {x \in Mgr : DOMAIN x.bos = DOMAIN mgr.bos}
             F == [x \in S \X (1 .. n) |-> BoMap(x[1], bs[x[2]])]
             G(g) == [s \in SUBSET (1 .. n) |->
                         IF s = {} THEN mgr ELSE BoMap(g[s \ {Max(s)}], bs[Max(s)])]
             it == CHOOSE z : z = G(z)
             v == [i \in 0 .. n |-> it[1 .. i]]
  <1>1. n \in Nat /\ DOMAIN bs = 1 .. n
    OBVIOUS
  <1>2. MapAll(mgr, bs) = it[1 .. n]
    BY <1>1 DEF MapAll, FoldLeft, MapThenFoldSet
  <1>3. \A i \in 1 .. n : bs[i] \in DOMAIN mgr.bos
    OBVIOUS
  <1> HIDE DEF n
  <1>4. mgr \in S /\ \A x \in S, i \in 1 .. n : BoMap(x, bs[i]) \in S
    BY <1>3, BoMapMgr
  <1> HIDE DEF S
  <1>5. PICK z : FoldedBy(S, n, mgr, F, z)
    <2>1. F \in [S \X (1 .. n) -> S]
      BY <1>4
    <2> HIDE DEF F
    <2> QED BY <1>1, <1>4, <2>1, FoldExists
  <1>6. z = G(z)
    <2>1. ASSUME NEW s \in SUBSET (1 .. n), s # {}
          PROVE  z[s] = BoMap(z[s \ {Max(s)}], bs[Max(s)])
      <3>1. /\ Max(s) \in 1 .. n /\ <<z[s \ {Max(s)}], Max(s)>> \in S \X (1 .. n)
            /\ z[s] = F[<<z[s \ {Max(s)}], Max(s)>>]
        <4> HIDE DEF F
        <4> QED BY <1>1, <1>5, <2>1, LastPlace DEF FoldedBy
      <3> QED BY <1>3, <3>1
    <2> HIDE DEF F
    <2> QED BY <1>5, <2>1 DEF FoldedBy
  <1>7. it = G(it)
    <2> HIDE DEF G
    <2> QED BY <1>6
  <1> HIDE DEF it
  <1>8. v[0] = mgr /\ v[n] = it[1 .. n]
    <2>1. 1 .. 0 = {} /\ {} \in SUBSET (1 .. n) /\ 0 \in 0 .. n /\ n \in 0 .. n
      BY <1>1
    <2> QED BY <1>7, <2>1
  <1>9. ASSUME NEW i \in 1 .. n PROVE v[i] = BoMap(v[i - 1], bs[i])
    <2>1. /\ (1 .. i) \in SUBSET (1 .. n) /\ 1 .. i # {} /\ Max(1 .. i) = i
          /\ (1 .. i) \ {i} = 1 .. (i - 1)
      BY <1>1, UpTo
    <2>2. i \in 0 .. n /\ i - 1 \in 0 .. n
      BY <1>1
    <2>3. it[1 .. i] = BoMap(it[1 .. (i - 1)], bs[i])
      BY <1>3, <1>7, <2>1
    <2> QED BY <2>2, <2>3
  <1> HIDE DEF v, G
  <1> QED BY <1>2, <1>8, <1>9 DEF n

\* tbm_bo_alloc for a buffer of the ring.
LEMMA BoAllocMgr ==
    ASSUME NEW mgr \in Mgr, NEW b \in Bo, NEW p \in Priv
    PROVE  /\ BoAlloc(mgr, b, p) = LinkedBo(mgr, b, p, (mgr.bo_cnt + 1) % UIntMod)
           /\ (mgr.bo_cnt + 1) % UIntMod \in Nat
           /\ BoAlloc(mgr, b, p) \in Mgr /\ Same(mgr, BoAlloc(mgr, b, p))
           /\ DOMAIN BoAlloc(mgr, b, p).bos = DOMAIN mgr.bos \cup {b}
           /\ BoAlloc(mgr, b, p).bos[b].priv = p
           /\ \A c \in DOMAIN mgr.bos :
                c # b => BoAlloc(mgr, b, p).bos[c] = mgr.bos[c]
  <1> DEFINE n == (mgr.bo_cnt + 1) % UIntMod
  <1>1. n \in Nat
    BY MgrFields, Counting
  <1>2. BoAlloc(mgr, b, p) = LinkedBo(mgr, b, p, n)
    BY DEF BoAlloc, LinkedBo
  <1> HIDE DEF n
  <1>3. LET x == LinkedBo(mgr, b, p, n)
        IN  x \in Mgr /\ Same(mgr, x) /\ DOMAIN x.bos = DOMAIN mgr.bos \cup {b}
            /\ x.bos[b] = NewBo(p)
            /\ \A c \in DOMAIN mgr.bos : c # b => x.bos[c] = mgr.bos[c]
    BY <1>1, LinkMgr
  <1>4. NewBo(p).priv = p
    BY DEF NewBo
  <1> QED BY <1>1, <1>2, <1>3, <1>4 DEF n

\* AllocRing is the last of the managers that the loop of
\* tbm_surface_internal_dump_start goes through.
LEMMA RingSteps ==
    ASSUME NEW mgr \in Mgr, NEW bs \in Seq(Bo), NEW ps \in [1 .. Len(bs) -> Priv]
    PROVE  \E v : /\ v[0] = mgr
                  /\ \A i \in 1 .. Len(bs) : v[i] = BoAlloc(v[i - 1], bs[i], ps[i])
                  /\ AllocRing(mgr, bs, ps) = v[Len(bs)]
  <1> DEFINE n == Len(bs)
             F == [x \in Mgr \X (1 .. n) |-> BoAlloc(x[1], bs[x[2]], ps[x[2]])]
             G(g) == [s \in SUBSET (1 .. n) |->
                         IF s = {} THEN mgr
                         ELSE LET j == [l \in 1 .. n |-> l][Max(s)]
                              IN  BoAlloc(g[s \ {Max(s)}], bs[j], ps[j])]
             it == CHOOSE z : z = G(z)
             v == [i \in 0 .. n |-> it[1 .. i]]
  <1>1. n \in Nat /\ DOMAIN bs = 1 .. n
    OBVIOUS
  <1>2. AllocRing(mgr, bs, ps) = it[1 .. n]
    BY <1>1 DEF AllocRing, FoldLeft, MapThenFoldSet
  <1>3. \A i \in 1 .. n : bs[i] \in Bo /\ ps[i] \in Priv /\ [j \in 1 .. n |-> j][i] = i
    OBVIOUS
  <1> HIDE DEF n
  <1>4. \A x \in Mgr, i \in 1 .. n : BoAlloc(x, bs[i], ps[i]) \in Mgr
    BY <1>3, BoAllocMgr
  <1>5. PICK z : FoldedBy(Mgr, n, mgr, F, z)
    <2>1. F \in [Mgr \X (1 .. n) -> Mgr]
      BY <1>4
    <2> HIDE DEF F
    <2> QED BY <1>1, <2>1, FoldExists
  <1>6. z = G(z)
    <2>1. ASSUME NEW s \in SUBSET (1 .. n), s # {}
          PROVE  z[s] = LET j == [l \in 1 .. n |-> l][Max(s)]
                        IN  BoAlloc(z[s \ {Max(s)}], bs[j], ps[j])
      <3>1. /\ Max(s) \in 1 .. n /\ <<z[s \ {Max(s)}], Max(s)>> \in Mgr \X (1 .. n)
            /\ z[s] = F[<<z[s \ {Max(s)}], Max(s)>>]
        <4> HIDE DEF F
        <4> QED BY <1>1, <1>5, <2>1, LastPlace DEF FoldedBy
      <3> QED BY <1>3, <3>1
    <2> HIDE DEF F
    <2> QED BY <1>5, <2>1 DEF FoldedBy
  <1>7. it = G(it)
    <2> HIDE DEF G
    <2> QED BY <1>6
  <1> HIDE DEF it
  <1>8. v[0] = mgr /\ v[n] = it[1 .. n]
    <2>1. 1 .. 0 = {} /\ {} \in SUBSET (1 .. n) /\ 0 \in 0 .. n /\ n \in 0 .. n
      BY <1>1
    <2> QED BY <1>7, <2>1
  <1>9. ASSUME NEW i \in 1 .. n PROVE v[i] = BoAlloc(v[i - 1], bs[i], ps[i])
    <2>1. /\ (1 .. i) \in SUBSET (1 .. n) /\ 1 .. i # {} /\ Max(1 .. i) = i
          /\ (1 .. i) \ {i} = 1 .. (i - 1)
      BY <1>1, UpTo
    <2>2. i \in 0 .. n /\ i - 1 \in 0 .. n
      BY <1>1
    <2>3. it[1 .. i] = BoAlloc(it[1 .. (i - 1)], bs[i], ps[i])
      <3>1. [l \in 1 .. n |-> l][Max(1 .. i)] = i
        BY <2>1
      <3>2. it[1 .. i] = LET j == [l \in 1 .. n |-> l][Max(1 .. i)]
                        IN  BoAlloc(it[(1 .. i) \ {Max(1 .. i)}], bs[j], ps[j])
        BY <1>7, <2>1
      <3> HIDE DEF G
      <3> QED BY <2>1, <3>1, <3>2
    <2> QED BY <2>2, <2>3
  <1> HIDE DEF v, G
  <1> QED BY <1>2, <1>8, <1>9 DEF n

\* Counts that are added to and taken away from.
LEMMA MoreIsNat ==
    ASSUME NEW u \in Counts, NEW bs \in Seq(Bo)
    PROVE  LET v == MoreRefs(u, bs, Len(bs))
           IN  /\ v \in Counts /\ LessRefs(v, bs, Len(bs)) = u
               /\ \A b \in Bo : Times(b, bs) <= v[b] /\ v[b] = u[b] + Times(b, bs)
                                /\ Times(b, bs) \in Nat
  <1> DEFINE n == Len(bs)
             v == MoreRefs(u, bs, n)
  <1>1. n \in Nat
    OBVIOUS
  <1>2. ASSUME NEW b \in Bo
        PROVE  /\ v[b] = u[b] + OfFirst(b, bs, n) /\ v[b] \in Nat
               /\ u[b] \in Nat /\ OfFirst(b, bs, n) \in Nat
               /\ Times(b, bs) = OfFirst(b, bs, n)
    <2>1. u[b] \in Nat
      BY DEF Counts
    <2>2. OfFirst(b, bs, n) \in Nat
      BY <1>1, OfFirstSteps
    <2>3. Times(b, bs) = OfFirst(b, bs, n)
      BY <1>1, OfFirstTimes, n \in 0 .. n
    <2>4. v[b] = u[b] + OfFirst(b, bs, n)
      BY DEF MoreRefs
    <2> HIDE DEF v, n
    <2> QED BY <2>1, <2>2, <2>3, <2>4
  <1>3. v \in Counts
    <2>1. v = [b \in Bo |-> v[b]]
      BY DEF MoreRefs
    <2> HIDE DEF v, n
    <2> QED BY <1>2, <2>1 DEF Counts
  <1> HIDE DEF v, n
  <1>4. LessRefs(v, bs, n) = u
    <2>1. u = [b \in Bo |-> u[b]]
      BY DEF Counts
    <2>2. \A b \in Bo : v[b] - OfFirst(b, bs, n) = u[b]
      BY <1>2
    <2> QED BY <2>1, <2>2 DEF LessRefs
  <1>5. \A b \in Bo : Times(b, bs) <= v[b] /\ v[b] = u[b] + Times(b, bs) /\ Times(b, bs) \in Nat
    BY <1>2
  <1> QED BY <1>3, <1>4, <1>5 DEF v, n

\* The loop that maps bs.
LEMMA MapAllMeets ==
    ASSUME NEW mgr, NEW w \in Counts, NEW u \in Counts, NEW k \in Counts, NEW P,
           Meets(mgr, w, u, k, P), Calm(mgr, k), NEW bs \in Seq(DOMAIN mgr.bos)
    PROVE  /\ Meets(MapAll(mgr, bs), w, MoreRefs(u, bs, Len(bs)), k, P)
           /\ MapAll(mgr, bs) \in Mgr /\ Same(mgr, MapAll(mgr, bs))
           /\ DOMAIN MapAll(mgr, bs).bos = DOMAIN mgr.bos
  <1> DEFINE n == Len(bs)
  <1>0. n \in Nat /\ mgr \in Mgr
    BY DEF Meets
  <1>a. bs \in Seq(Bo) /\ \A i \in 1 .. n : bs[i] \in DOMAIN mgr.bos
    <2>1. DOMAIN mgr.bos \subseteq Bo
      BY <1>0, MgrFields
    <2> QED BY <2>1
  <1>1. PICK v : /\ v[0] = mgr
                 /\ \A i \in 1 .. n : v[i] = BoMap(v[i - 1], bs[i])
                 /\ MapAll(mgr, bs) = v[n]
    BY <1>0, MapSteps
  <1> DEFINE Ok(i) == /\ Meets(v[i], w, MoreRefs(u, bs, i), k, P) /\ Same(mgr, v[i])
                      /\ v[i] \in Mgr /\ DOMAIN v[i].bos = DOMAIN mgr.bos
             N == {i \in Nat : i <= n => Ok(i)}
  <1>2. 0 \in N
    BY <1>0, <1>1, NoRefsMore DEF Same
  <1>3. ASSUME NEW i \in Nat, i \in N PROVE i + 1 \in N
    <2> SUFFICES ASSUME i + 1 <= n PROVE Ok(i + 1)
      OBVIOUS
    <2> DEFINE b == bs[i + 1]
               x == v[i]
               U == MoreRefs(u, bs, i)
    <2>0. i < n /\ i + 1 \in 1 .. n /\ (i + 1) - 1 = i
      BY <1>0
    <2>1. Meets(x, w, U, k, P) /\ Same(mgr, x) /\ x \in Mgr /\ DOMAIN x.bos = DOMAIN mgr.bos
      BY <1>3, <2>0
    <2>2. v[i + 1] = BoMap(x, b)
      BY <1>1, <2>0
    <2>3. U \in Counts /\ b \in Bo /\ MoreRefs(u, bs, i + 1) = [U EXCEPT ![b] = @ + 1]
      BY <1>a, <2>0, MoreRefsSteps
    <2>4. b \in DOMAIN x.bos
      BY <1>a, <2>0, <2>1
    <2> HIDE DEF b, x, U
    <2>5. Calm(x, k)
      BY <2>1, SameLockType DEF Calm, Same
    <2>6. Meets(BoMap(x, b), w, [U EXCEPT ![b] = @ + 1], k, P)
      BY <2>1, <2>3, <2>4, <2>5, BoMapMeets
    <2>7. /\ BoMap(x, b) \in Mgr /\ Same(x, BoMap(x, b))
          /\ DOMAIN BoMap(x, b).bos = DOMAIN x.bos
      BY <2>1, <2>4, BoMapMgr
    <2> QED BY <2>1, <2>2, <2>3, <2>6, <2>7 DEF Same
  <1>4. \A i \in Nat : i \in N
    <2> HIDE DEF N
    <2> QED BY <1>2, <1>3, Induct
  <1>5. Ok(n)
    <2> HIDE DEF Ok, n
    <2> QED BY <1>0, <1>4
  <1> QED BY <1>1, <1>5

\* What is unmapped again after the loop.
LEMMA UnmappedAgain ==
    ASSUME NEW mgr, NEW w \in Counts, NEW u \in Counts, NEW k \in Counts, NEW P,
           NEW bs \in Seq(Bo), Meets(mgr, w, MoreRefs(u, bs, Len(bs)), k, P),
           \A i \in 1 .. Len(bs) : bs[i] \in DOMAIN mgr.bos
    PROVE  Meets(UnmapAll(mgr, bs), w, u, k, P) /\ Same(mgr, UnmapAll(mgr, bs))
  <1> DEFINE v == MoreRefs(u, bs, Len(bs))
  <1>1. v \in Counts /\ LessRefs(v, bs, Len(bs)) = u /\ \A b \in Bo : Times(b, bs) <= v[b]
    BY MoreIsNat
  <1>2. bs \in Seq(DOMAIN mgr.bos)
    OBVIOUS
  <1> HIDE DEF v
  <1>3. Meets(mgr, w, v, k, P)
    BY DEF v
  <1>4. /\ Meets(FoldLeft(BoUnmap, mgr, bs), w, LessRefs(v, bs, Len(bs)), k, P)
        /\ Same(mgr, FoldLeft(BoUnmap, mgr, bs))
    BY <1>1, <1>2, <1>3, UnmapAllMeets
  <1> QED BY <1>1, <1>4 DEF UnmapAll

\* tbm_surface_map when it fails
LEMMA MapAllFailsMeets ==
    ASSUME NEW mgr, NEW w \in Counts, NEW u \in Counts, NEW k \in Counts, NEW P,
           Meets(mgr, w, u, k, P), Calm(mgr, k), NEW bs \in Seq(DOMAIN mgr.bos),
           NEW y \in MapAllFails(mgr, bs)
    PROVE  Meets(y, w, u, k, P) /\ Same(mgr, y)
  <1>1. PICK i \in 1 .. Len(bs) :
          \E x \in BoMapFails(MapAll(mgr, SubSeq(bs, 1, i - 1)), bs[i]) :
             y = UnmapAll(x, SubSeq(bs, 1, i - 1))
    BY DEF MapAllFails
  <1> DEFINE cs == SubSeq(bs, 1, i - 1)
             z == MapAll(mgr, cs)
             v == MoreRefs(u, cs, Len(cs))
  <1>2. PICK x \in BoMapFails(z, bs[i]) : y = UnmapAll(x, cs)
    BY <1>1
  <1>3. cs \in Seq(DOMAIN mgr.bos) /\ \A j \in 1 .. Len(cs) : cs[j] \in DOMAIN mgr.bos
    <2>1. i - 1 \in 0 .. Len(bs) /\ \A j \in 1 .. i - 1 : bs[j] \in DOMAIN mgr.bos
      OBVIOUS
    <2>2. cs = [j \in 1 .. i - 1 |-> bs[j]]
      BY <2>1
    <2> HIDE DEF cs
    <2> QED BY <2>1, <2>2
  <1>4. mgr \in Mgr
    BY DEF Meets
  <1>5. cs \in Seq(Bo)
    <2>1. DOMAIN mgr.bos \subseteq Bo
      BY <1>4, MgrFields
    <2> HIDE DEF cs
    <2> QED BY <1>3, <2>1
  <1> HIDE DEF cs
  <1>6. /\ Meets(z, w, v, k, P) /\ z \in Mgr /\ Same(mgr, z)
        /\ DOMAIN z.bos = DOMAIN mgr.bos
    BY <1>3, MapAllMeets
  <1>7. v \in Counts
    BY <1>5, MoreIsNat
  <1> HIDE DEF z, v
  <1>8. Calm(z, k)
    BY <1>6, SameLockType DEF Calm, Same
  <1>9. Meets(x, w, v, k, P)
    BY <1>2, <1>6, <1>7, <1>8, BoMapFailsMeets
  <1>10. x \in Mgr /\ Same(z, x) /\ DOMAIN x.bos = DOMAIN z.bos
    BY <1>2, <1>6, BoMapFailsMgr
  <1>11. Meets(UnmapAll(x, cs), w, u, k, P) /\ Same(x, UnmapAll(x, cs))
    <2>1. Meets(x, w, MoreRefs(u, cs, Len(cs)), k, P)
      BY <1>9 DEF v
    <2>2. \A j \in 1 .. Len(cs) : cs[j] \in DOMAIN x.bos
      BY <1>3, <1>6, <1>10
    <2> QED BY <1>5, <2>1, <2>2, UnmappedAgain
  <1> QED BY <1>2, <1>6, <1>10, <1>11 DEF Same

\* The dump buffers are made.
LEMMA RingMeets ==
    ASSUME NEW mgr, NEW w \in Counts, NEW u \in Counts, NEW k \in Counts, NEW P,
           Meets(mgr, w, u, k, P), NEW bs \in Seq(Bo),
           NEW ps \in [1 .. Len(bs) -> Priv],
           \A i, j \in 1 .. Len(bs) : bs[i] = bs[j] => i = j,
           \A i, j \in 1 .. Len(bs) : ps[i] = ps[j] => i = j,
           \A i \in 1 .. Len(bs) : bs[i] \notin DOMAIN mgr.bos
                                   /\ ps[i] \notin PrivsInUse(mgr)
    PROVE  /\ Meets(AllocRing(mgr, bs, ps), MoreRefs(w, bs, Len(bs)), u, k, P)
           /\ Same(mgr, AllocRing(mgr, bs, ps))
  <1> DEFINE n == Len(bs)
  <1>0. n \in Nat /\ mgr \in Mgr
    BY DEF Meets
  <1>1. PICK v : /\ v[0] = mgr
                 /\ \A i \in 1 .. n : v[i] = BoAlloc(v[i - 1], bs[i], ps[i])
                 /\ AllocRing(mgr, bs, ps) = v[n]
    BY <1>0, RingSteps
  <1> DEFINE R(i) == PrivsInUse(mgr) \cup {ps[j] : j \in 1 .. i}
             Ok(i) == /\ Meets(v[i], MoreRefs(w, bs, i), u, k, P) /\ Same(mgr, v[i])
                      /\ \A c \in DOMAIN v[i].bos : v[i].bos[c].priv \in R(i)
             N == {i \in Nat : i <= n => Ok(i)}
  <1>2. 0 \in N
    <2>2. \A c \in DOMAIN mgr.bos : mgr.bos[c].priv \in R(0)
      BY DEF PrivsInUse
    <2> HIDE DEF R
    <2> QED BY <1>1, <2>2, NoRefsMore DEF Same
  <1>3. ASSUME NEW i \in Nat, i \in N PROVE i + 1 \in N
    <2> SUFFICES ASSUME i + 1 <= n PROVE Ok(i + 1)
      OBVIOUS
    <2> DEFINE b == bs[i + 1]
               p == ps[i + 1]
               x == v[i]
               y == BoAlloc(x, b, p)
               W == MoreRefs(w, bs, i)
               V == [W EXCEPT ![b] = @ + 1]
    <2>0. i < n /\ i + 1 \in 1 .. n /\ (i + 1) - 1 = i
      BY <1>0
    <2>1. /\ Meets(x, W, u, k, P) /\ Same(mgr, x)
          /\ \A c \in DOMAIN x.bos : x.bos[c].priv \in R(i)
      BY <1>3, <2>0
    <2>2. v[i + 1] = y
      BY <1>1, <2>0
    <2>3. /\ W \in Counts /\ b \in Bo /\ W[b] = w[b] + OfFirst(b, bs, i)
          /\ OfFirst(b, bs, i) \in Nat /\ w[b] \in Nat
          /\ MoreRefs(w, bs, i + 1) = V
      BY <2>0, MoreRefsSteps
    <2>a. W[b] = 0 /\ p \in Priv /\ p \notin R(i)
      <3>1. b \notin DOMAIN mgr.bos /\ p \notin PrivsInUse(mgr) /\ p \in Priv
        BY <2>0
      <3>2. w[b] = 0
        <4> HIDE DEF b
        <4> QED BY <2>3, <3>1, MeetsLive
      <3>3. ~ \E j \in 1 .. i : bs[j] = b
        BY <1>0, <2>0
      <3>4. OfFirst(b, bs, i) = 0
        <4>1. OfFirst(b, bs, i) > 0 <=> \E j \in 1 .. i : bs[j] = b
          BY OfFirstSteps, ZenonT(30)
        <4> QED BY <2>3, <3>3, <4>1
      <3>5. ~ \E j \in 1 .. i : ps[j] = p
        BY <1>0, <2>0
      <3> HIDE DEF b, p, W
      <3> QED BY <2>3, <3>1, <3>2, <3>4, <3>5
    <2>b. R(i + 1) = R(i) \cup {p}
      <3>1. \A j : j \in 1 .. i + 1 <=> j \in 1 .. i \/ j = i + 1
        OBVIOUS
      <3> QED BY <3>1
    <2> HIDE DEF b, p, x, W, R
    <2>4. b \notin DOMAIN x.bos /\ x \in Mgr /\ p \notin PrivsInUse(x)
      <3>1. b \notin DOMAIN x.bos
        <4>1. b \in DOMAIN x.bos <=> W[b] > 0
          BY <2>1, <2>3, MeetsLive
        <4> QED BY <2>a, <4>1
      <3> QED BY <2>1, <2>a, <3>1 DEF Meets, PrivsInUse
    <2>5. /\ y \in Mgr /\ Same(x, y) /\ y = LinkedBo(x, b, p, (x.bo_cnt + 1) % UIntMod)
          /\ (x.bo_cnt + 1) % UIntMod \in Nat
          /\ DOMAIN y.bos = DOMAIN x.bos \cup {b} /\ y.bos[b].priv = p
          /\ \A c \in DOMAIN x.bos : c # b => y.bos[c] = x.bos[c]
      BY <2>3, <2>4, <2>a, BoAllocMgr, SMTT(30)
    <2>6. Meets(y, V, u, k, P)
      <3> DEFINE q == (x.bo_cnt + 1) % UIntMod
      <3>1. q \in Nat /\ (~SurfaceBoAlloc => q = (x.bo_cnt + 1) % UIntMod) /\ y = LinkedBo(x, b, p, q)
        BY <2>5
      <3> HIDE DEF q, y
      <3>2. Meets(LinkedBo(x, b, p, q), [W EXCEPT ![b] = 1], u, k, P)
        BY <2>1, <2>3, <2>4, <2>a, <3>1, AllocMeets DEF LinkedBo
      <3>3. V = [W EXCEPT ![b] = 1]
        BY <2>a, 0 + 1 = 1
      <3> QED BY <3>1, <3>2, <3>3
    <2> HIDE DEF y, V
    <2>8. \A c \in DOMAIN y.bos : y.bos[c].priv \in R(i + 1)
      BY <2>1, <2>5, <2>b
    <2> QED BY <2>1, <2>2, <2>3, <2>5, <2>6, <2>8 DEF Same
  <1>4. \A i \in Nat : i \in N
    <2> HIDE DEF N
    <2> QED BY <1>2, <1>3, Induct
  <1>5. Ok(n)
    <2> HIDE DEF Ok, n
    <2> QED BY <1>0, <1>4
  <1> QED BY <1>1, <1>5

\* A dump buffer is given up.
LEMMA EndOneMgr ==
    ASSUME NEW mgr \in Mgr, NEW b \in Bo, NEW x \in EndOne(mgr, b)
    PROVE  x \in Mgr
  <1>1. ASSUME NEW y \in BoMapFails(mgr, b), x = BoUnref(y, b) PROVE x \in Mgr
    <2>1. y \in Mgr
      BY <1>1, BoMapFailsMgr
    <2> QED BY <1>1, <2>1, BoUnrefMgr
  <1>2. ASSUME b \in DOMAIN mgr.bos, x = BoUnref(BoUnmap(BoMap(mgr, b), b), b) PROVE x \in Mgr
    <2> DEFINE y == BoMap(mgr, b)
    <2>1. y \in Mgr /\ DOMAIN y.bos = DOMAIN mgr.bos
      BY <1>2, BoMapMgr
    <2> HIDE DEF y
    <2>2. BoUnmap(y, b) \in Mgr
      BY <1>2, <2>1, BoUnmapMgr
    <2> QED BY <1>2, <2>2, BoUnrefMgr DEF y
  <1> QED BY <1>1, <1>2 DEF EndOne

\* tbm_surface_internal_dump_end, one buffer: mapped, unmapped if that
\* succeeded, and unreferenced.
LEMMA EndOneMeets ==
    ASSUME NEW mgr, NEW w \in Counts, NEW u \in Counts, NEW k \in Counts, NEW P,
           Meets(mgr, w, u, k, P), Calm(mgr, k), NEW b \in DOMAIN mgr.bos,
           LocksKept(mgr.env) /\ w[b] = 1 => k[b] = 0, NEW x \in EndOne(mgr, b)
    PROVE  /\ Meets(x, [w EXCEPT ![b] = @ - 1],
                    IF w[b] = 1 THEN [u EXCEPT ![b] = 0] ELSE u, k, P)
           /\ Same(mgr, x)
  <1>0. mgr \in Mgr /\ b \in Bo
    BY MeetsAt
  <1>1. ASSUME NEW y \in Mgr, Meets(y, w, u, k, P), Same(mgr, y),
               DOMAIN y.bos = DOMAIN mgr.bos, x = BoUnref(y, b)
        PROVE  /\ Meets(x, [w EXCEPT ![b] = @ - 1],
                        IF w[b] = 1 THEN [u EXCEPT ![b] = 0] ELSE u, k, P)
               /\ Same(mgr, x)
    <2>1. LocksKept(y.env) /\ w[b] = 1 => k[b] = 0
      BY <1>1 DEF Same
    <2>2. b \in DOMAIN y.bos
      BY <1>1
    <2>3. Meets(BoUnref(y, b), [w EXCEPT ![b] = @ - 1],
                IF w[b] = 1 THEN [u EXCEPT ![b] = 0] ELSE u, k, P)
      BY <1>1, <2>1, <2>2, BoUnrefMeets
    <2>4. Same(y, BoUnref(y, b))
      BY <1>0, BoUnrefMgr
    <2> QED BY <1>1, <2>3, <2>4 DEF Same
  <1>2. ASSUME NEW y \in BoMapFails(mgr, b)
        PROVE  /\ y \in Mgr /\ Meets(y, w, u, k, P) /\ Same(mgr, y)
               /\ DOMAIN y.bos = DOMAIN mgr.bos
    BY <1>0, <1>2, BoMapFailsMgr, BoMapFailsMeets
  <1>3. LET y == BoUnmap(BoMap(mgr, b), b)
        IN  /\ y \in Mgr /\ Meets(y, w, u, k, P) /\ Same(mgr, y)
            /\ DOMAIN y.bos = DOMAIN mgr.bos
    BY FilledMeets
  <1>4. \/ \E y \in BoMapFails(mgr, b) : x = BoUnref(y, b)
        \/ x = BoUnref(BoUnmap(BoMap(mgr, b), b), b)
    BY DEF EndOne
  <1>5. CASE \E y \in BoMapFails(mgr, b) : x = BoUnref(y, b)
    <2>1. PICK y \in BoMapFails(mgr, b) : x = BoUnref(y, b)
      BY <1>5
    <2> QED BY <1>1, <1>2, <2>1
  <1>6. CASE x = BoUnref(BoUnmap(BoMap(mgr, b), b), b)
    <2> DEFINE y == BoUnmap(BoMap(mgr, b), b)
    <2>1. /\ y \in Mgr /\ Meets(y, w, u, k, P) /\ Same(mgr, y)
          /\ DOMAIN y.bos = DOMAIN mgr.bos /\ x = BoUnref(y, b)
      BY <1>3, <1>6
    <2> HIDE DEF y
    <2> QED BY <1>1, <2>1
  <1> QED BY <1>4, <1>5, <1>6

\* The bos of a ring, and the references of the ring to bos.
RingBos(r) == [i \in 1 .. Len(r) |-> r[i].bo]

\* The references that the ring holds.
Held(r) == [b \in Bo |-> Times(b, RingBos(r))]

\* The bos of the ring, as a sequence.
LEMMA RingBosSeq ==
    ASSUME NEW r \in Seq(Buffer)
    PROVE  /\ RingBos(r) \in Seq(Bo) /\ Len(RingBos(r)) = Len(r)
           /\ \A i \in 1 .. Len(r) : RingBos(r)[i] = r[i].bo /\ r[i].bo \in Bo
  <1>1. \A i \in 1 .. Len(r) : r[i] \in Buffer
    OBVIOUS
  <1>2. \A i \in 1 .. Len(r) : r[i].bo \in Bo
    BY <1>1 DEF Buffer
  <1> QED BY <1>2 DEF RingBos

\* The managers that tbm_surface_internal_dump_end may leave after i buffers.
LEMMA EndSteps ==
    ASSUME m \in Mgr, NEW r \in Seq(Buffer)
    PROVE  \E v : /\ v[0] = {m}
                  /\ \A i \in 1 .. Len(r) : v[i] = UNION {EndOne(x, r[i].bo) : x \in v[i - 1]}
                  /\ EndAll(r) = v[Len(r)]
  <1> DEFINE n == Len(r)
             One(M, i) == UNION {EndOne(x, r[i].bo) : x \in M}
             S == SUBSET Mgr
             F == [x \in S \X (1 .. n) |-> One(x[1], x[2])]
             G(g) == [s \in SUBSET (1 .. n) |->
                         IF s = {} THEN {m} ELSE One(g[s \ {Max(s)}], Max(s))]
             it == CHOOSE z : z = G(z)
             v == [i \in 0 .. n |-> it[1 .. i]]
  <1>1. n \in Nat /\ DOMAIN r = 1 .. n
    OBVIOUS
  <1>2. EndAll(r) = it[1 .. n]
    BY <1>1 DEF EndAll, FoldLeft, MapThenFoldSet
  <1>3. \A i \in 1 .. n : r[i].bo \in Bo
    BY RingBosSeq
  <1> HIDE DEF n
  <1>4. {m} \in S /\ \A M \in S, i \in 1 .. n : One(M, i) \in S
    BY <1>3, EndOneMgr
  <1> HIDE DEF S, One
  <1>5. PICK z : FoldedBy(S, n, {m}, F, z)
    <2>1. F \in [S \X (1 .. n) -> S]
      BY <1>4
    <2> HIDE DEF F
    <2> QED BY <1>1, <1>4, <2>1, FoldExists
  <1>6. z = G(z)
    <2>1. ASSUME NEW s \in SUBSET (1 .. n), s # {}
          PROVE  z[s] = One(z[s \ {Max(s)}], Max(s))
      <3>1. /\ Max(s) \in 1 .. n /\ <<z[s \ {Max(s)}], Max(s)>> \in S \X (1 .. n)
            /\ z[s] = F[<<z[s \ {Max(s)}], Max(s)>>]
        <4> HIDE DEF F
        <4> QED BY <1>1, <1>5, <2>1, LastPlace DEF FoldedBy
      <3> QED BY <3>1
    <2> HIDE DEF F
    <2> QED BY <1>5, <2>1 DEF FoldedBy
  <1>7. it = G(it)
    <2> HIDE DEF G
    <2> QED BY <1>6
  <1> HIDE DEF it
  <1>8. v[0] = {m} /\ v[n] = it[1 .. n]
    <2>1. 1 .. 0 = {} /\ {} \in SUBSET (1 .. n) /\ 0 \in 0 .. n /\ n \in 0 .. n
      BY <1>1
    <2> QED BY <1>7, <2>1
  <1>9. ASSUME NEW i \in 1 .. n PROVE v[i] = One(v[i - 1], i)
    <2>1. /\ (1 .. i) \in SUBSET (1 .. n) /\ 1 .. i # {} /\ Max(1 .. i) = i
          /\ (1 .. i) \ {i} = 1 .. (i - 1)
      BY <1>1, UpTo
    <2>2. i \in 0 .. n /\ i - 1 \in 0 .. n
      BY <1>1
    <2>3. it[1 .. i] = One(it[1 .. (i - 1)], i)
      BY <1>3, <1>7, <2>1
    <2> QED BY <2>2, <2>3
  <1> HIDE DEF v, G
  <1> QED BY <1>2, <1>8, <1>9 DEF n, One

\* The loop of tbm_surface_internal_dump_end.
LEMMA EndAllMeets ==
    ASSUME NEW w \in Counts, NEW u \in Counts, NEW k \in Counts, NEW P,
           Meets(m, w, u, k, P), Calm(m, k), NEW r \in Seq(Buffer),
           Unrefable(m.env, w, k, RingBos(r)), NEW y \in EndAll(r)
    PROVE  /\ Meets(y, LessRefs(w, RingBos(r), Len(RingBos(r))),
                    LeftMaps(w, u, RingBos(r), Len(RingBos(r))), k, P)
           /\ Same(m, y)
  <1> DEFINE bs == RingBos(r)
             n == Len(bs)
  <1>0. m \in Mgr
    BY DEF Meets
  <1>a. /\ bs \in Seq(Bo) /\ n \in Nat /\ n = Len(r)
        /\ \A i \in 1 .. n : bs[i] = r[i].bo
    BY RingBosSeq
  <1>1. PICK v : /\ v[0] = {m}
                 /\ \A i \in 1 .. Len(r) : v[i] = UNION {EndOne(x, r[i].bo) : x \in v[i - 1]}
                 /\ EndAll(r) = v[Len(r)]
    BY <1>0, EndSteps
  <1> DEFINE Ok(x, i) == Meets(x, LessRefs(w, bs, i), LeftMaps(w, u, bs, i), k, P) /\ Same(m, x)
             N == {i \in Nat : i <= n => \A x \in v[i] : Ok(x, i)}
  <1>2. 0 \in N
    <2>1. LessRefs(w, bs, 0) = w /\ LeftMaps(w, u, bs, 0) = u
      BY NoRefsLess
    <2>2. Same(m, m)
      BY DEF Same
    <2> HIDE DEF bs, n
    <2> QED BY <1>1, <2>1, <2>2
  <1>b. Unrefable(m.env, w, k, bs)
    OBVIOUS
  <1> HIDE DEF bs
  <1>3. ASSUME NEW i \in Nat, i \in N PROVE i + 1 \in N
    <2> SUFFICES ASSUME i + 1 <= n, NEW z \in v[i + 1] PROVE Ok(z, i + 1)
      OBVIOUS
    <2> DEFINE b == bs[i + 1]
               W == LessRefs(w, bs, i)
               U == LeftMaps(w, u, bs, i)
    <2>0. i < n /\ i + 1 \in 1 .. n /\ (i + 1) - 1 = i /\ i <= n
      BY <1>a
    <2>1. v[i + 1] = UNION {EndOne(x, b) : x \in v[i]}
      BY <1>1, <1>a, <2>0
    <2>2. PICK x \in v[i] : z \in EndOne(x, b)
      BY <2>1
    <2>3. Meets(x, W, U, k, P) /\ Same(m, x)
      BY <1>3, <2>0
    <2>4. /\ W \in Counts /\ U \in Counts /\ b \in Bo /\ W[b] > 0
          /\ LocksKept(m.env) /\ W[b] = 1 => k[b] = 0
          /\ LessRefs(w, bs, i + 1) = [W EXCEPT ![b] = @ - 1]
          /\ LeftMaps(w, u, bs, i + 1) = IF W[b] = 1 THEN [U EXCEPT ![b] = 0] ELSE U
      BY <1>a, <1>b, <2>0, LessRefsSteps
    <2> HIDE DEF b, W, U
    <2>5. b \in DOMAIN x.bos /\ x.env = m.env
      BY <2>3, <2>4, MeetsLive DEF Same
    <2>6. Calm(x, k)
      BY <2>5, SameLockType DEF Calm
    <2>7. LocksKept(x.env) /\ W[b] = 1 => k[b] = 0
      BY <2>4, <2>5
    <2>8. /\ Meets(z, [W EXCEPT ![b] = @ - 1],
                   IF W[b] = 1 THEN [U EXCEPT ![b] = 0] ELSE U, k, P)
          /\ Same(x, z)
      BY <2>2, <2>3, <2>4, <2>5, <2>6, <2>7, EndOneMeets
    <2> QED BY <2>3, <2>4, <2>8 DEF Same
  <1>4. \A i \in Nat : i \in N
    <2> HIDE DEF N
    <2> QED BY <1>2, <1>3, Induct
  <1>5. \A x \in v[n] : Ok(x, n)
    <2> HIDE DEF Ok
    <2> QED BY <1>4, <1>a
  <1>6. Ok(y, n)
    <2> HIDE DEF Ok
    <2> QED BY <1>1, <1>5, <1>a
  <1> QED BY <1>6 DEF bs

\* A thread that is in no call of tbm_bo_map finds no locks on their way where
\* locks are taken once.
LEMMA CalmNow ==
    ASSUME NEW t \in Thread, pc[t] = "idle"
    PROVE  Calm(m, FlyingOf(pc, arg))
  <1>1. SUFFICES ASSUME LocksKept(m.env), LockType(m) = "TRY_ONCE", NEW b \in Bo
                 PROVE  FlyingOf(pc, arg)[b] = 0
    BY DEF Calm
  <1>2. \A u \in Thread : u = t
    BY <1>1, OnceOnly
  <1>3. FlyersOf(pc, arg, b) = {}
    <2>1. ASSUME NEW u \in Thread PROVE pc[u] # "locked"
      BY <1>2
    <2> QED BY <2>1 DEF FlyersOf
  <1> QED BY <1>3, FS_EmptySet DEF FlyingOf

\* A step of the dump: what it changes is the manager and what it refers to.
LEMMA DumpedStep ==
    ASSUME NEW x \in Counts, NEW y \in Counts, SurfInv(x), NEW t \in Thread, pc[t] = "idle",
           Same(m, m'),
           Meets(m', WantOf(y, refs, surfs), MapsOf(maps, surfs, smaps, mapping),
                 FlyingOf(pc, arg), PointersOf(m.env, surfs)),
           UNCHANGED <<clients, pc, arg, surfVars>>
    PROVE  SurfInv(y)'
  <1>1. /\ Clients(inits, refs, maps, pc, arg, surfs, srefs, smaps, mapping)
        /\ surfMgr \in BOOLEAN /\ RefCountOK(m.ref_count, inits, surfs, surfMgr)
        /\ LockOK(m, pc, arg)
    BY InvHas
  <1>2. UNCHANGED <<inits, refs, maps, pc, arg, surfs, surfMgr, srefs, smaps, mapping>>
    BY DEF surfVars, clients
  <1>3. m'.env = m.env /\ m'.ref_count = m.ref_count
    BY DEF Same
  <1>4. LockOK(m', pc, arg)
    BY <1>1, <1>3, LockOKKept
  <1>5. MgrOK(y, m', refs, maps, pc, arg, surfs, smaps, mapping)
    BY <1>3, <1>4 DEF MgrOK
  <1>6. Whole(y, m', inits, refs, maps, pc, arg, surfs, surfMgr, srefs, smaps, mapping)
    BY <1>1, <1>3, <1>5 DEF Whole
  <1>7. Whole(y, m', inits', refs', maps', pc', arg', surfs', surfMgr', srefs', smaps', mapping')
    BY <1>2, <1>6
  <1> QED BY <1>7 DEF SurfInv

\* The references that are wanted with those of bs, and without.
LEMMA WantWith ==
    ASSUME NEW x \in Counts, NEW R \in Table(Bo), NEW sf \in SurfTable, NEW bs \in Seq(Bo),
           \A b \in Bo : x[b] = Times(b, bs)
    PROVE  /\ MoreRefs(WantOf(NoRefs, R, sf), bs, Len(bs)) = WantOf(x, R, sf)
           /\ LessRefs(WantOf(x, R, sf), bs, Len(bs)) = WantOf(NoRefs, R, sf)
           /\ \A b \in Bo : /\ WantOf(x, R, sf)[b] = WantOf(NoRefs, R, sf)[b] + Times(b, bs)
                            /\ WantOf(NoRefs, R, sf)[b] \in Nat /\ Times(b, bs) \in Nat
                            /\ OfFirst(b, bs, Len(bs)) = Times(b, bs)
  <1> DEFINE w == WantOf(NoRefs, R, sf)
             v == WantOf(x, R, sf)
             n == Len(bs)
  <1>1. NoRefs \in Counts /\ \A b \in Bo : NoRefs[b] = 0
    BY DEF NoRefs, Counts
  <1>2. w \in Counts /\ v \in Counts /\ n \in Nat
    BY <1>1, WantCounts
  <1>3. ASSUME NEW b \in Bo
        PROVE  /\ v[b] = w[b] + Times(b, bs) /\ w[b] \in Nat /\ Times(b, bs) \in Nat
               /\ OfFirst(b, bs, n) = Times(b, bs)
    <2>1. /\ w[b] = NoRefs[b] + RefsIn(R, b) + SurfRefsIn(sf, b)
          /\ v[b] = x[b] + RefsIn(R, b) + SurfRefsIn(sf, b)
          /\ RefsIn(R, b) \in Nat /\ SurfRefsIn(sf, b) \in Nat
      BY <1>1, WantCounts
    <2>2. x[b] \in Nat /\ x[b] = Times(b, bs)
      BY DEF Counts
    <2>3. Times(b, bs) = OfFirst(b, bs, n)
      BY <1>2, OfFirstTimes, n \in 0 .. n
    <2>4. NoRefs[b] = 0
      BY <1>1
    <2> HIDE DEF w, v, n
    <2> QED BY <2>1, <2>2, <2>3, <2>4
  <1>4. v = [b \in Bo |-> v[b]] /\ w = [b \in Bo |-> w[b]]
    BY <1>2 DEF Counts
  <1> HIDE DEF w, v, n
  <1>5. MoreRefs(w, bs, n) = v
    <2>1. \A b \in Bo : w[b] + OfFirst(b, bs, n) = v[b]
      BY <1>3
    <2> QED BY <1>4, <2>1 DEF MoreRefs
  <1>6. LessRefs(v, bs, n) = w
    <2>1. \A b \in Bo : v[b] - OfFirst(b, bs, n) = w[b]
      BY <1>3
    <2> QED BY <1>4, <2>1 DEF LessRefs
  <1> QED BY <1>3, <1>5, <1>6 DEF w, v, n

\* The references of a ring, and of none.
LEMMA HeldCounts ==
    ASSUME NEW r \in Seq(Buffer)
    PROVE  /\ Held(r) \in Counts /\ RingBos(r) \in Seq(Bo)
           /\ \A b \in Bo : Held(r)[b] = Times(b, RingBos(r))
           /\ r = <<>> => Held(r) = NoRefs
  <1>1. RingBos(r) \in Seq(Bo) /\ Len(RingBos(r)) = Len(r)
    BY RingBosSeq
  <1>2. ASSUME NEW b \in Bo PROVE Times(b, RingBos(r)) \in Nat
    BY <1>1, OfFirstTimes, OfFirstSteps, Len(RingBos(r)) \in 0 .. Len(RingBos(r))
  <1>3. ASSUME r = <<>>, NEW b \in Bo PROVE Times(b, RingBos(r)) = 0
    <2>1. 1 .. Len(RingBos(r)) = {}
      BY <1>1, <1>3
    <2> QED BY <2>1, FS_EmptySet DEF Times
  <1> QED BY <1>1, <1>2, <1>3 DEF Held, Counts, NoRefs

\* tbm_surface_internal_dump_buffer leaves no mapping and no lock behind: bs
\* are the bos of the surface and b is the dump buffer.
LEMMA FrameMeets ==
    ASSUME NEW mgr, NEW w \in Counts, NEW u \in Counts, NEW k \in Counts, NEW P,
           Meets(mgr, w, u, k, P), Calm(mgr, k), NEW bs \in Seq(DOMAIN mgr.bos), NEW b, NEW y,
           \/ y \in MapAllFails(mgr, bs)
           \/ y = UnmapAll(MapAll(mgr, bs), bs)
           \/ \E x \in BoMapFails(MapAll(mgr, bs), b) : y = UnmapAll(x, bs)
           \/ /\ b \in DOMAIN mgr.bos
              /\ y = UnmapAll(BoUnmap(BoMap(MapAll(mgr, bs), b), b), bs)
    PROVE  Meets(y, w, u, k, P) /\ Same(mgr, y)
  <1> DEFINE z == MapAll(mgr, bs)
             v == MoreRefs(u, bs, Len(bs))
  <1>0. mgr \in Mgr /\ Same(z, z)
    BY DEF Meets, Same
  <1>1. bs \in Seq(Bo) /\ \A i \in 1 .. Len(bs) : bs[i] \in DOMAIN mgr.bos
    <2>1. DOMAIN mgr.bos \subseteq Bo
      BY <1>0, MgrFields
    <2> QED BY <2>1
  <1>2. /\ Meets(z, w, v, k, P) /\ z \in Mgr /\ Same(mgr, z)
        /\ DOMAIN z.bos = DOMAIN mgr.bos
    BY MapAllMeets
  <1>3. v \in Counts
    BY <1>1, MoreIsNat
  <1>4. Calm(z, k)
    <2> HIDE DEF z
    <2> QED BY <1>2, SameLockType DEF Calm, Same
  <1>5. ASSUME NEW x \in Mgr, Meets(x, w, v, k, P), Same(z, x), DOMAIN x.bos = DOMAIN z.bos
        PROVE  Meets(UnmapAll(x, bs), w, u, k, P) /\ Same(mgr, UnmapAll(x, bs))
    <2>1. \A i \in 1 .. Len(bs) : bs[i] \in DOMAIN x.bos
      BY <1>1, <1>2, <1>5
    <2>2. Meets(UnmapAll(x, bs), w, u, k, P) /\ Same(x, UnmapAll(x, bs))
      BY <1>1, <1>5, <2>1, UnmappedAgain
    <2> HIDE DEF z
    <2> QED BY <1>2, <1>5, <2>2 DEF Same
  <1>6. CASE y \in MapAllFails(mgr, bs)
    BY <1>6, MapAllFailsMeets
  <1> HIDE DEF v
  <1>7. CASE y = UnmapAll(z, bs)
    <2> HIDE DEF z
    <2> QED BY <1>0, <1>2, <1>5, <1>7
  <1>8. CASE \E x \in BoMapFails(z, b) : y = UnmapAll(x, bs)
    <2>1. PICK x \in BoMapFails(z, b) : y = UnmapAll(x, bs)
      BY <1>8
    <2> HIDE DEF z
    <2>2. x \in Mgr /\ Same(z, x) /\ DOMAIN x.bos = DOMAIN z.bos
      BY <1>2, <2>1, BoMapFailsMgr
    <2>3. Meets(x, w, v, k, P)
      BY <1>2, <1>3, <1>4, <2>1, BoMapFailsMeets
    <2> QED BY <1>5, <2>1, <2>2, <2>3
  <1>9. CASE b \in DOMAIN mgr.bos /\ y = UnmapAll(BoUnmap(BoMap(z, b), b), bs)
    <2> DEFINE x == BoUnmap(BoMap(z, b), b)
    <2> HIDE DEF z
    <2>1. Meets(x, w, v, k, P) /\ Same(z, x) /\ DOMAIN x.bos = DOMAIN z.bos /\ x \in Mgr
      BY <1>2, <1>3, <1>4, <1>9, FilledMeets
    <2> HIDE DEF x
    <2> QED BY <1>5, <1>9, <2>1 DEF x
  <1> QED BY <1>6, <1>7, <1>8, <1>9

\* tbm_surface_internal_dump_buffer leaves the manager meeting what it met.
LEMMA DumpBufferMgr ==
    ASSUME NEW x \in Counts, SurfInv(x), NEW t \in Thread, NEW s \in Surf, DumpBuffer(t, s)
    PROVE  SurfInv(x)'
  <1> DEFINE w == WantOf(x, refs, surfs)
             u == MapsOf(maps, surfs, smaps, mapping)
             k == FlyingOf(pc, arg)
             P == PointersOf(m.env, surfs)
             bs == surfs[s].bos
  <1>1. Meets(m, w, u, k, P) /\ w \in Counts /\ u \in Counts /\ k \in Counts
    BY InvHas
  <1>2. pc[t] = "idle" /\ srefs[t][s] > 0 /\ UNCHANGED <<clients, pc, arg, surfVars>>
    BY DEF DumpBuffer, SurfHolds, Ready
  <1>3. Calm(m, k)
    BY <1>2, CalmNow
  <1>4. s \in DOMAIN surfs /\ surfs \in SurfTable
    <2>1. HeldOK(surfs, srefs) /\ surfs \in SurfTable
      BY InvHas, ClientsHave
    <2>2. ~(srefs[t][s] = 0)
      BY <1>2
    <2> QED BY <2>1, <2>2 DEF HeldOK
  <1>5. bs \in Seq(DOMAIN m.bos)
    <2>1. bs \in Seq(Bo)
      BY <1>4, SurfFields
    <2>2. \A i \in 1 .. Len(bs) : bs[i] \in DOMAIN m.bos
      BY <1>4, InvSurfBosLive DEF LiveSurfs, Live
    <2> HIDE DEF bs
    <2> QED BY <2>1, <2>2
  <1>6. \/ m' \in MapAllFails(m, bs)
        \/ m' = UnmapAll(MapAll(m, bs), bs)
        \/ \E z \in BoMapFails(MapAll(m, bs), NextBo) : m' = UnmapAll(z, bs)
        \/ /\ NextBo \in DOMAIN m.bos
           /\ m' = UnmapAll(BoUnmap(BoMap(MapAll(m, bs), NextBo), NextBo), bs)
    BY Zenon DEF DumpBuffer, Filled, Live
  <1> DEFINE b == NextBo
             y == m'
  <1> HIDE DEF w, u, k, P, bs, b, y
  <1>7. Meets(y, w, u, k, P) /\ Same(m, y)
    <2>1. \/ y \in MapAllFails(m, bs)
          \/ y = UnmapAll(MapAll(m, bs), bs)
          \/ \E z \in BoMapFails(MapAll(m, bs), b) : y = UnmapAll(z, bs)
          \/ /\ b \in DOMAIN m.bos
             /\ y = UnmapAll(BoUnmap(BoMap(MapAll(m, bs), b), b), bs)
      BY <1>6 DEF b, y
    <2> QED BY <1>1, <1>3, <1>5, <2>1, FrameMeets
  <1> QED BY <1>2, <1>7, DumpedStep DEF w, u, k, P, y

\* tbm_surface_internal_dump_shm_buffer does too.
LEMMA DumpShmMgr ==
    ASSUME NEW x \in Counts, SurfInv(x), NEW t \in Thread, DumpShmBuffer(t)
    PROVE  SurfInv(x)'
  <1> DEFINE w == WantOf(x, refs, surfs)
             u == MapsOf(maps, surfs, smaps, mapping)
             k == FlyingOf(pc, arg)
             P == PointersOf(m.env, surfs)
             b == NextBo
             y == m'
  <1>1. Meets(m, w, u, k, P) /\ w \in Counts /\ u \in Counts /\ k \in Counts /\ m \in Mgr
    BY InvHas
  <1>2. pc[t] = "idle" /\ UNCHANGED <<clients, pc, arg, surfVars>>
    BY DEF DumpShmBuffer, Ready
  <1>3. Calm(m, k)
    BY <1>2, CalmNow
  <1>4. y = m \/ y \in BoMapFails(m, b) \/ (b \in DOMAIN m.bos /\ y = BoUnmap(BoMap(m, b), b))
    BY Zenon DEF DumpShmBuffer, Filled, Live
  <1> HIDE DEF w, u, k, P, b, y
  <1>5. Meets(y, w, u, k, P) /\ Same(m, y)
    <2>1. CASE y = m
      BY <1>1, <2>1 DEF Same
    <2>2. CASE y \in BoMapFails(m, b)
      BY <1>1, <1>3, <2>2, BoMapFailsMgr, BoMapFailsMeets
    <2>3. CASE b \in DOMAIN m.bos /\ y = BoUnmap(BoMap(m, b), b)
      BY <1>1, <1>3, <2>3, FilledMeets
    <2> QED BY <1>4, <2>1, <2>2, <2>3
  <1> QED BY <1>2, <1>5, DumpedStep DEF w, u, k, P, y

\* The dump buffers that tbm_surface_internal_dump_start makes.
LEMMA MadeMeets ==
    ASSUME NEW x \in Counts, SurfInv(x), NEW n \in Nat, NEW bs \in BosOf(n),
           NEW ps \in PrivsOf(n), Fresh(bs, ps)
    PROVE  /\ Meets(AllocRing(m, bs, ps), MoreRefs(WantOf(x, refs, surfs), bs, Len(bs)),
                    MapsOf(maps, surfs, smaps, mapping), FlyingOf(pc, arg),
                    PointersOf(m.env, surfs))
           /\ Same(m, AllocRing(m, bs, ps)) /\ bs \in Seq(Bo)
  <1> DEFINE w == WantOf(x, refs, surfs)
             u == MapsOf(maps, surfs, smaps, mapping)
             k == FlyingOf(pc, arg)
             P == PointersOf(m.env, surfs)
  <1>1. Meets(m, w, u, k, P) /\ w \in Counts /\ u \in Counts /\ k \in Counts
    BY InvHas
  <1>2. bs \in Seq(Bo) /\ ps \in [1 .. Len(bs) -> Priv] /\ Len(bs) = n
    BY BosSeq DEF PrivsOf
  <1>3. /\ \A i, j \in 1 .. Len(bs) : bs[i] = bs[j] => i = j
        /\ \A i \in 1 .. Len(bs) : bs[i] \notin DOMAIN m.bos /\ ps[i] \notin PrivsInUse(m)
    BY DEF Fresh, Distinct, Live
  <1>4. \A i, j \in 1 .. Len(bs) : ps[i] = ps[j] => i = j
    <2>1. ps \in Seq(Priv) /\ Len(ps) = Len(bs)
      BY <1>2
    <2>2. Distinct(ps)
      BY DEF Fresh
    <2> QED BY <2>1, <2>2 DEF Distinct
  <1> HIDE DEF w, u, k, P
  <1>5. /\ Meets(AllocRing(m, bs, ps), MoreRefs(w, bs, Len(bs)), u, k, P)
        /\ Same(m, AllocRing(m, bs, ps))
    BY <1>1, <1>2, <1>3, <1>4, RingMeets
  <1> QED BY <1>2, <1>5 DEF w, u, k, P

\* tbm_surface_internal_dump_start: the ring has a reference to each bo.
LEMMA StartMgr ==
    ASSUME SurfInv(NoRefs), NEW t \in Thread, NEW n \in Nat, NEW bs \in BosOf(n),
           NEW ps \in PrivsOf(n), DumpStart(t, bs, ps),
           NEW y \in Counts, \A b \in Bo : y[b] = Times(b, bs)
    PROVE  SurfInv(y)'
  <1>1. /\ pc[t] = "idle" /\ Fresh(bs, ps) /\ m' = AllocRing(m, bs, ps)
        /\ UNCHANGED <<clients, pc, arg, surfVars>>
    BY DEF DumpStart, Ready
  <1>2. NoRefs \in Counts
    BY DEF NoRefs, Counts
  <1>3. /\ Meets(m', MoreRefs(WantOf(NoRefs, refs, surfs), bs, Len(bs)),
                 MapsOf(maps, surfs, smaps, mapping), FlyingOf(pc, arg),
                 PointersOf(m.env, surfs))
        /\ Same(m, m') /\ bs \in Seq(Bo)
    BY <1>1, <1>2, MadeMeets
  <1>4. MoreRefs(WantOf(NoRefs, refs, surfs), bs, Len(bs)) = WantOf(y, refs, surfs)
    <2>1. refs \in Table(Bo) /\ surfs \in SurfTable
      BY <1>2, InvHas, ClientsHave
    <2> QED BY <1>3, <2>1, WantWith
  <1>5. Meets(m', WantOf(y, refs, surfs), MapsOf(maps, surfs, smaps, mapping),
              FlyingOf(pc, arg), PointersOf(m.env, surfs))
    BY <1>3, <1>4
  <1> QED BY <1>1, <1>2, <1>3, <1>5, DumpedStep

\* A dump that cannot start gives back what it took.
LEMMA StartFailsMgr ==
    ASSUME NEW x \in Counts, SurfInv(x), NEW t \in Thread, NEW n \in Nat, NEW bs \in BosOf(n),
           NEW ps \in PrivsOf(n), DumpStartFails(t, bs, ps)
    PROVE  SurfInv(x)'
  <1> DEFINE w == WantOf(x, refs, surfs)
             u == MapsOf(maps, surfs, smaps, mapping)
             k == FlyingOf(pc, arg)
             P == PointersOf(m.env, surfs)
             v == MoreRefs(w, bs, Len(bs))
             a == AllocRing(m, bs, ps)
  <1>1. Meets(m, w, u, k, P) /\ w \in Counts /\ u \in Counts /\ k \in Counts
    BY InvHas
  <1>2. /\ pc[t] = "idle" /\ Fresh(bs, ps) /\ m' = UnrefAll(a, bs)
        /\ UNCHANGED <<clients, pc, arg, surfVars>>
    BY DEF DumpStartFails, Ready
  <1>3. Meets(a, v, u, k, P) /\ Same(m, a) /\ bs \in Seq(Bo)
    BY <1>2, MadeMeets
  <1>4. /\ v \in Counts /\ Unrefable(m.env, v, k, bs)
        /\ LessRefs(v, bs, Len(bs)) = w /\ LeftMaps(v, u, bs, Len(bs)) = u
    <2> HIDE DEF w, u, k, P
    <2> QED BY <1>1, <1>3, MoreAndLess
  <1>5. Unrefable(a.env, v, k, bs)
    <2> HIDE DEF v, k, a
    <2> QED BY <1>3, <1>4 DEF Same
  <1> HIDE DEF w, u, k, P, v, a
  <1>6. /\ Meets(UnrefAll(a, bs), LessRefs(v, bs, Len(bs)), LeftMaps(v, u, bs, Len(bs)), k, P)
        /\ Same(a, UnrefAll(a, bs))
    BY <1>1, <1>3, <1>4, <1>5, UnrefAllMeets
  <1>7. Meets(m', w, u, k, P) /\ Same(m, m')
    BY <1>2, <1>3, <1>4, <1>6 DEF Same
  <1> QED BY <1>2, <1>7, DumpedStep DEF w, u, k, P

\* The end of a dump gives up what the ring held.
LEMMA EndMgr ==
    ASSUME NEW r \in Seq(Buffer), dump.ring = r, SurfInv(Held(r)), NEW t \in Thread, DumpEnd(t)
    PROVE  SurfInv(NoRefs)'
  <1> DEFINE x == Held(r)
             bs == RingBos(r)
             w == WantOf(x, refs, surfs)
             w0 == WantOf(NoRefs, refs, surfs)
             u == MapsOf(maps, surfs, smaps, mapping)
             k == FlyingOf(pc, arg)
             P == PointersOf(m.env, surfs)
             n == Len(bs)
  <1>1. x \in Counts /\ bs \in Seq(Bo) /\ (\A b \in Bo : x[b] = Times(b, bs))
    BY HeldCounts
  <1>2. NoRefs \in Counts
    BY DEF NoRefs, Counts
  <1>3. /\ Meets(m, w, u, k, P) /\ w \in Counts /\ u \in Counts /\ k \in Counts
        /\ Clients(inits, refs, maps, pc, arg, surfs, srefs, smaps, mapping)
        /\ refs \in Table(Bo) /\ surfs \in SurfTable
    <2> HIDE DEF x
    <2> QED BY <1>1, InvHas, ClientsHave DEF x
  <1>4. pc[t] = "idle" /\ m' \in EndAll(r) /\ UNCHANGED <<clients, pc, arg, surfVars>>
    BY DEF DumpEnd, Ready
  <1>5. Calm(m, k)
    BY <1>4, CalmNow
  <1> HIDE DEF x, bs
  <1>6. /\ LessRefs(w, bs, n) = w0
        /\ \A b \in Bo : /\ w[b] = w0[b] + Times(b, bs) /\ w0[b] \in Nat /\ Times(b, bs) \in Nat
                         /\ OfFirst(b, bs, n) = Times(b, bs)
    BY <1>1, <1>3, WantWith
  <1>7. \A b \in Bo : w0[b] = 0 => u[b] = 0 /\ k[b] = 0
    <2>1. ASSUME NEW b \in Bo, WantOf(NoRefs, refs, surfs)[b] = 0
          PROVE  MapsOf(maps, surfs, smaps, mapping)[b] = 0 /\ FlyingOf(pc, arg)[b] = 0
      BY <1>2, <1>3, <2>1, Unused
    <2> QED BY <2>1
  <1> HIDE DEF w, w0, u, k, P, n
  <1>8. Unrefable(m.env, w, k, bs)
    BY <1>6, <1>7 DEF Unrefable
  <1>9. LeftMaps(w, u, bs, n) = u
    <2>1. u = [b \in Bo |-> u[b]]
      BY <1>3 DEF Counts
    <2>2. \A b \in Bo : (IF w[b] = OfFirst(b, bs, n) THEN 0 ELSE u[b]) = u[b]
      BY <1>6, <1>7
    <2> QED BY <2>1, <2>2 DEF LeftMaps
  <1> DEFINE y == m'
  <1> HIDE DEF y
  <1>10. Meets(y, LessRefs(w, bs, n), LeftMaps(w, u, bs, n), k, P) /\ Same(m, y)
    <2>1. Unrefable(m.env, w, k, RingBos(r)) /\ y \in EndAll(r)
      BY <1>4, <1>8 DEF y, bs
    <2>2. /\ Meets(y, LessRefs(w, RingBos(r), Len(RingBos(r))),
                   LeftMaps(w, u, RingBos(r), Len(RingBos(r))), k, P)
          /\ Same(m, y)
      BY <1>3, <1>5, <2>1, EndAllMeets
    <2> QED BY <2>2 DEF bs, n
  <1>11. Meets(m', w0, u, k, P) /\ Same(m, m')
    BY <1>6, <1>9, <1>10 DEF y
  <1>12. SurfInv(x)
    BY DEF x
  <1> QED BY <1>1, <1>2, <1>4, <1>11, <1>12, DumpedStep DEF w0, u, k, P

\* The invariant of the dump with the manager: the ring has references to its
\* bos.
RingInv == DumpInv /\ SurfInv(Held(dump.ring))

\* The ring as the invariant has it.
LEMMA RingTyped ==
    ASSUME DumpInv
    PROVE  /\ dump.ring \in Seq(Buffer) /\ Held(dump.ring) \in Counts
           /\ ~Running => dump.ring = <<>> /\ Held(dump.ring) = NoRefs
  <1>1. CASE Running
    <2>1. dump.ring \in Seq(Buffer)
      BY <1>1, RingNow
    <2> QED BY <1>1, <2>1, HeldCounts
  <1>2. CASE ~Running
    <2>1. dump.ring = <<>>
      BY <1>2 DEF Running, NoDump
    <2>2. dump.ring \in Seq(Buffer)
      BY <2>1
    <2> QED BY <2>1, <2>2, HeldCounts
  <1> QED BY <1>1, <1>2

\* A buffer that changes keeps its bo.
LEMMA ReplacedHeld ==
    ASSUME NEW r \in Seq(Buffer), NEW i \in 1 .. Len(r), NEW e \in Buffer, e.bo = r[i].bo
    PROVE  Held(Replaced(r, i, e)) = Held(r)
  <1> DEFINE q == Replaced(r, i, e)
  <1>1. /\ q \in Seq(Buffer) /\ Len(q) = Len(r)
        /\ \A j \in 1 .. Len(r) : q[j] = IF j = i THEN e ELSE r[j]
    BY DEF Replaced
  <1>2. RingBos(q) = RingBos(r)
    <2> HIDE DEF q
    <2>1. \A j \in 1 .. Len(r) : q[j].bo = r[j].bo
      BY <1>1
    <2> QED BY <1>1, <2>1 DEF RingBos
  <1> QED BY <1>2 DEF Held

\* A frame that is dropped after the buffer was chosen moves no bo.
LEMMA SpoilHeld ==
    ASSUME DumpInv, Running, NEW e \in Buffer, e.bo = NextBo, Spoil(e)
    PROVE  Held(dump.ring)' = Held(dump.ring)
  <1> DEFINE r == dump.ring
             i == NextLink
  <1>1. /\ dump \in [ring : Seq(Buffer), link : Nat, count : Nat]
        /\ r \in Seq(Buffer) /\ i \in 1 .. Len(r)
    BY RingNow
  <1>2. dump' = [dump EXCEPT !.ring[i] = e]
    BY DEF Spoil
  <1>3. dump'.ring = Replaced(r, i, e)
    BY <1>1, <1>2 DEF Replaced
  <1>4. e.bo = r[i].bo
    BY DEF NextBo
  <1> HIDE DEF r, i
  <1>5. Held(Replaced(r, i, e)) = Held(r)
    BY <1>1, <1>4, ReplacedHeld
  <1> QED BY <1>3, <1>5 DEF r

\* Nor does one that is stored.
LEMMA StoreHeld ==
    ASSUME DumpInv, Running, NEW shm \in BOOLEAN, Store(shm)
    PROVE  Held(dump.ring)' = Held(dump.ring)
  <1> DEFINE r == dump.ring
             i == NextLink
             e == [bo |-> r[i].bo, number |-> dump.count, pixels |-> frames,
                   info |-> IF shm THEN None ELSE frames, dirty |-> ~shm, dirty_shm |-> shm]
             c == IF dump.count + 1 = CountMod THEN 0 ELSE dump.count + 1
  <1>1. /\ dump \in [ring : Seq(Buffer), link : Nat, count : Nat]
        /\ r \in Seq(Buffer) /\ i \in 1 .. Len(r) /\ r[i] \in Buffer
        /\ dump.count \in Nat /\ frames \in Nat
    BY RingNow
  <1>2. dump' = [ring |-> Replaced(r, i, e), link |-> i, count |-> c]
    BY <1>1 DEF Store, Replaced
  <1>3. e \in Buffer /\ e.bo = r[i].bo
    <2>1. r[i].bo \in Bo /\ None \in Int
      BY <1>1 DEF Buffer, None
    <2> QED BY <1>1, <2>1 DEF Buffer
  <1> HIDE DEF r, i, e
  <1>4. dump'.ring = Replaced(r, i, e)
    BY <1>2
  <1>5. Held(Replaced(r, i, e)) = Held(r)
    BY <1>1, <1>3, ReplacedHeld
  <1> QED BY <1>4, <1>5 DEF r

\* A frame leaves the references of the ring alone.
LEMMA FrameHeld ==
    ASSUME DumpInv, NEW t, NEW s, DumpBuffer(t, s) \/ DumpShmBuffer(t)
    PROVE  Held(dump.ring)' = Held(dump.ring)
  <1> DEFINE b == dump.ring[NextLink]
             e == [b EXCEPT !.info = None]
             d == [e EXCEPT !.pixels = None]
  <1>1. Running
    BY DEF DumpBuffer, DumpShmBuffer
  <1>2. b \in Buffer /\ b.bo = NextBo
    BY <1>1, RingNow DEF NextBo
  <1>3. e \in Buffer /\ e.bo = NextBo
    <2> HIDE DEF b
    <2> QED BY <1>2 DEF Buffer, None
  <1>4. d \in Buffer /\ d.bo = NextBo
    <2> HIDE DEF b, e
    <2> QED BY <1>3 DEF Buffer, None
  <1>5. Skip \/ Spoil(e) \/ Spoil(d) \/ Store(FALSE) \/ Store(TRUE)
    BY Zenon DEF DumpBuffer, DumpShmBuffer
  <1> HIDE DEF d, e
  <1>6. CASE Skip
    BY <1>6 DEF Skip, dumpVars
  <1> QED BY <1>1, <1>3, <1>4, <1>5, <1>6, SpoilHeld, StoreHeld

\* The ring that a dump starts with.
LEMMA StartHeld ==
    ASSUME NEW t, NEW n \in Nat, NEW bs \in BosOf(n), NEW ps, DumpStart(t, bs, ps)
    PROVE  Held(dump.ring)' = [b \in Bo |-> Times(b, bs)]
  <1> DEFINE r == [i \in 1 .. Len(bs) |-> NewBuffer(bs[i])]
  <1>1. bs \in Seq(Bo)
    BY BosSeq
  <1>2. dump'.ring = r
    BY DEF DumpStart
  <1>3. RingBos(r) = bs
    <2>1. Len(r) = Len(bs) /\ \A i \in 1 .. Len(bs) : r[i].bo = bs[i]
      BY <1>1 DEF NewBuffer
    <2>2. RingBos(r) = [i \in 1 .. Len(bs) |-> bs[i]]
      <3> HIDE DEF r
      <3> QED BY <2>1 DEF RingBos
    <2>3. bs = [i \in 1 .. Len(bs) |-> bs[i]]
      BY <1>1
    <2> QED BY <2>2, <2>3
  <1> HIDE DEF r
  <1> QED BY <1>2, <1>3 DEF Held

\* Every step of the dump, and of the others meanwhile, keeps the invariant.
LEMMA RingInvStep ==
    ASSUME RingInv, [DumpNext]_allVars
    PROVE  RingInv'
  <1>1. DumpInv /\ DumpInv'
    BY RingStep DEF RingInv
  <1>2. PICK x \in Counts : x = Held(dump.ring)
    BY <1>1, RingTyped
  <1>3. SurfInv(x)
    BY <1>2 DEF RingInv
  <1>4. ASSUME NEW y, SurfInv(y)', Held(dump.ring)' = y PROVE RingInv'
    <2>1. Whole(y, m', inits', refs', maps', pc', arg', surfs', surfMgr', srefs', smaps', mapping')
      BY <1>4 DEF SurfInv
    <2>2. Whole(Held(dump'.ring), m', inits', refs', maps', pc', arg', surfs', surfMgr', srefs',
                smaps', mapping')
      BY <1>4, <2>1
    <2> QED BY <1>1, <2>2 DEF SurfInv, RingInv
  <1>5. ASSUME UNCHANGED dumpVars PROVE Held(dump.ring)' = x
    BY <1>2, <1>5 DEF dumpVars
  <1>6. CASE UNCHANGED allVars
    <2>1. UNCHANGED vars /\ UNCHANGED dumpVars
      BY <1>6 DEF allVars
    <2>2. SurfInv(x)'
      BY <1>3, <2>1, StutterKeeps
    <2> QED BY <1>4, <1>5, <2>1, <2>2
  <1>7. CASE SurfaceNext /\ ManagerStays /\ UNCHANGED dumpVars
    <2>1. (\A b \in Bo : x[b] = 0) \/ m'.ref_count > 0
      <3>1. CASE Running
        BY <1>7, <3>1 DEF ManagerStays
      <3>2. CASE ~Running
        <4>1. x = NoRefs
          BY <1>1, <1>2, <3>2, RingTyped
        <4> QED BY <4>1 DEF NoRefs
      <3> QED BY <3>1, <3>2
    <2>2. SurfInv(x)'
      BY <1>3, <1>7, <2>1, StepKeeps
    <2> QED BY <1>4, <1>5, <1>7, <2>2
  <1>8. ASSUME NEW t \in Thread, DumpStep(t) PROVE RingInv'
    <2>0. (\A n \in 1 .. MaxRing : n \in Nat) /\ (\A n \in 0 .. MaxRing - 1 : n \in Nat)
      BY DumpAssumption
    <2>1. ASSUME NEW n \in 1 .. MaxRing, NEW bs \in BosOf(n), NEW ps \in PrivsOf(n),
                 DumpStart(t, bs, ps)
          PROVE  RingInv'
      <3>1. ~Running
        BY <2>1 DEF DumpStart
      <3>2. SurfInv(NoRefs)
        BY <1>1, <1>2, <1>3, <3>1, RingTyped
      <3> DEFINE y == [b \in Bo |-> Times(b, bs)]
      <3>3. Held(dump.ring)' = y /\ n \in Nat
        BY <2>0, <2>1, StartHeld
      <3>4. y \in Counts /\ \A b \in Bo : y[b] = Times(b, bs)
        <4>1. bs \in Seq(Bo)
          BY <3>3, BosSeq
        <4>2. \A b \in Bo : Times(b, bs) \in Nat
          BY <4>1, OfFirstTimes, OfFirstSteps, Len(bs) \in 0 .. Len(bs)
        <4> QED BY <4>2 DEF Counts
      <3> HIDE DEF y
      <3>5. SurfInv(y)'
        BY <2>1, <3>2, <3>3, <3>4, StartMgr
      <3> QED BY <1>4, <3>3, <3>5
    <2>2. ASSUME NEW n \in 0 .. MaxRing - 1, NEW bs \in BosOf(n), NEW ps \in PrivsOf(n),
                 DumpStartFails(t, bs, ps)
          PROVE  RingInv'
      <3>1. SurfInv(x)'
        BY <1>3, <2>0, <2>2, StartFailsMgr
      <3>2. UNCHANGED dumpVars
        BY <2>2 DEF DumpStartFails
      <3> QED BY <1>4, <1>5, <3>1, <3>2
    <2>3. ASSUME NEW s \in Surf, DumpBuffer(t, s) PROVE RingInv'
      <3>1. SurfInv(x)'
        BY <1>3, <2>3, DumpBufferMgr
      <3>2. Held(dump.ring)' = x
        BY <1>1, <1>2, <2>3, FrameHeld
      <3> QED BY <1>4, <3>1, <3>2
    <2>4. CASE DumpShmBuffer(t)
      <3>1. SurfInv(x)'
        BY <1>3, <2>4, DumpShmMgr
      <3>2. Held(dump.ring)' = x
        BY <1>1, <1>2, <2>4, FrameHeld
      <3> QED BY <1>4, <3>1, <3>2
    <2>5. CASE DumpEnd(t)
      <3>1. PICK r \in Seq(Buffer) : r = dump.ring
        BY <1>1, RingTyped
      <3>2. SurfInv(Held(r))
        BY <3>1 DEF RingInv
      <3>3. SurfInv(NoRefs)'
        BY <2>5, <3>1, <3>2, EndMgr
      <3>4. Held(dump.ring)' = NoRefs
        <4>1. dump'.ring = <<>>
          BY <2>5 DEF DumpEnd, NoDump
        <4>2. PICK q : q = dump'.ring
          OBVIOUS
        <4>3. q \in Seq(Buffer) /\ q = <<>>
          <5>1. q = <<>>
            BY <4>1, <4>2
          <5> QED BY <5>1
        <4>4. Held(q) = NoRefs
          BY <4>3, HeldCounts
        <4> QED BY <4>2, <4>4
      <3> QED BY <1>4, <3>3, <3>4
    <2> QED BY <1>8, <2>1, <2>2, <2>3, <2>4, <2>5 DEF DumpStep
  <1> QED BY <1>6, <1>7, <1>8 DEF DumpNext

\* The invariant holds at first.
LEMMA RingInvBegins ==
    ASSUME DumpInit PROVE RingInv
  <1>1. DumpInv /\ SurfInv(NoRefs)
    BY DumpBegins, InitHolds DEF DumpInit
  <1>2. Held(dump.ring) = NoRefs
    BY <1>1, RingTyped DEF DumpInit, Running
  <1> QED BY <1>1, <1>2 DEF RingInv

\* What the invariant says of the references.
LEMMA InvRingRefs ==
    ASSUME RingInv
    PROVE  RingRefExact
  <1>1. DumpInv /\ SurfInv(Held(dump.ring))
    BY DEF RingInv
  <1>2. PICK r \in Seq(Buffer) : r = dump.ring
    BY <1>1, RingTyped
  <1> DEFINE x == Held(r)
             bs == RingBos(r)
  <1>3. /\ x \in Counts /\ bs \in Seq(Bo) /\ (\A b \in Bo : x[b] = Times(b, bs))
        /\ Len(bs) = Len(r) /\ \A i \in 1 .. Len(r) : bs[i] = r[i].bo /\ r[i].bo \in Bo
    BY HeldCounts, RingBosSeq
  <1>4. SurfInv(x)
    BY <1>1, <1>2
  <1>5. ASSUME NEW b \in Bo PROVE RingRefs(b) = x[b]
    <2>1. {i \in 1 .. Len(r) : r[i].bo = b} = {i \in 1 .. Len(bs) : bs[i] = b}
      <3> HIDE DEF x, bs
      <3> QED BY <1>3
    <2> HIDE DEF x, bs
    <2> QED BY <1>2, <1>3, <2>1 DEF RingRefs, Times
  <1> HIDE DEF x, bs
  <1>6. ASSUME NEW b \in Live
        PROVE  m.bos[b].ref_cnt = RefsTo(b) + SurfRefsTo(b) + RingRefs(b)
    <2>1. /\ m.bos[b].ref_cnt = x[b] + RefsTo(b) + SurfRefsTo(b)
          /\ b \in Bo /\ x[b] \in Nat /\ RefsTo(b) \in Nat /\ SurfRefsTo(b) \in Nat
      BY <1>3, <1>4, InvRefCounts
    <2>2. RingRefs(b) = x[b]
      BY <1>5, <2>1
    <2> QED BY <2>1, <2>2
  <1>7. ASSUME NEW i \in 1 .. Len(r) PROVE r[i].bo \in Live
    <2> DEFINE b == r[i].bo
    <2>1. b \in Bo /\ \E j \in 1 .. Len(bs) : bs[j] = b
      BY <1>3
    <2>2. x[b] > 0
      <3> HIDE DEF b
      <3>1. Times(b, bs) > 0
        BY <1>3, <2>1, OfFirstTimes, 0 \in 0 .. Len(bs)
      <3> QED BY <1>3, <2>1, <3>1
    <2>3. b \in DOMAIN m.bos
      <3> HIDE DEF b
      <3>1. /\ Clients(inits, refs, maps, pc, arg, surfs, srefs, smaps, mapping)
            /\ MgrOK(x, m, refs, maps, pc, arg, surfs, smaps, mapping)
        BY <1>3, <1>4, InvHas
      <3> QED BY <1>3, <2>1, <2>2, <3>1, LiveBos
    <2> QED BY <2>3 DEF Live
  <1> QED BY <1>2, <1>6, <1>7 DEF RingRefExact

\* The bos of the ring have a reference each of it and live as long as the
\* dump: ref_cnt is the number of references of threads, surfaces and the ring,
\* through dumps that do not start, frames that are dropped and buffers that do
\* not map at the end, while threads make, use and destroy surfaces.
THEOREM RingRefsAreExact == DumpSpec => []RingRefExact
  <1>1. DumpInit => RingInv
    BY RingInvBegins
  <1>2. RingInv /\ [DumpNext]_allVars => RingInv'
    BY RingInvStep
  <1>3. RingInv => RingRefExact
    BY InvRingRefs
  <1> QED BY <1>1, <1>2, <1>3, PTL DEF DumpSpec

\* A dump leaves no lock of a bo behind, whichever lock or mapping fails, on
\* the hypotheses of LocksAreBalanced.
THEOREM DumpLocksAreBalanced ==
    ASSUME \A env \in DOMAIN Envs : LocksKept(env)
    PROVE  DumpSpec => []LockBalance
  <1>1. DumpInit => RingInv
    BY RingInvBegins
  <1>2. RingInv /\ [DumpNext]_allVars => RingInv'
    BY RingInvStep
  <1>3. ASSUME RingInv PROVE LockBalance
    <2>1. PICK x \in Counts : x = Held(dump.ring)
      BY <1>3, RingTyped DEF RingInv
    <2>2. SurfInv(x)
      BY <1>3, <2>1 DEF RingInv
    <2> QED BY <2>1, <2>2, InvLocks
  <1> QED BY <1>1, <1>2, <1>3, PTL DEF DumpSpec
=============================================================================
