-------------------------- MODULE LockOrderProofs ---------------------------
(***************************************************************************)
(* A library whose functions balance their mutexes, take them in the order *)
(* of their ranks and use a list under its guard has no deadlock and no    *)
(* race without a suspect call, for any number of threads, mutexes, ranks  *)
(* and functions.  The run locks checks the same properties for the        *)
(* functions of libtbm.                                                    *)
(***************************************************************************)
EXTENDS LockOrder, WellFoundedInduction, TLAPS

TypeInv ==
    /\ call \in [Thread -> Call \cup {Nobody}]
    /\ at \in [Thread -> Nat]
    /\ owner \in [Mutex -> Thread \cup {Nobody}]
    /\ \A t \in Thread :
         IF Busy(t) THEN at[t] \in 1 .. Len(Program[call[t]]) ELSE at[t] = 1

\* A thread owns exactly what the steps it has taken locked.
Owns ==
    \A t \in Thread, x \in Mutex :
        owner[x] = t <=> Busy(t) /\ x \in Held(Program[call[t]], at[t])

\* No thread has got past a step that locks what it has.
NotPastSelfLock ==
    \A t \in Thread : Busy(t) =>
        \A j \in 1 .. at[t] - 1 : ~SelfLock(Program[call[t]], j)

\* The inductive invariant: the owner of a mutex follows from where threads
\* are in their programs, so what holds of the programs holds of the threads.
IInv == TypeInv /\ Owns /\ NotPastSelfLock
-----------------------------------------------------------------------------
\* What a program is.
LEMMA ProgramType ==
    ASSUME NEW c \in Call
    PROVE  /\ Len(Program[c]) \in Nat \ {0}
           /\ \A i \in 1 .. Len(Program[c]) : Program[c][i] \in StepType
  BY LockOrderAssumption

\* A thread that has taken no step has nothing.
LEMMA HeldFirst ==
    ASSUME NEW p PROVE Held(p, 1) = {}
  BY DEF Held

\* A lock step adds its mutex to what the thread has.
LEMMA HeldLock ==
    ASSUME NEW p, NEW i \in Nat \ {0}, NEW x \in Mutex,
           p[i] = [op |-> "lock", on |-> x]
    PROVE  Held(p, i + 1) = Held(p, i) \cup {x}
  <1>1. ASSUME NEW y \in Held(p, i + 1) PROVE y \in Held(p, i) \cup {x}
    BY <1>1 DEF Held
  <1>2. ASSUME NEW y \in Held(p, i) PROVE y \in Held(p, i + 1)
    BY <1>2 DEF Held
  <1>3. x \in Held(p, i + 1)
    BY DEF Held
  <1> QED BY <1>1, <1>2, <1>3

\* An unlock step takes its mutex away and no other.
LEMMA HeldUnlock ==
    ASSUME NEW p, NEW i \in Nat \ {0}, NEW x \in Mutex,
           p[i] = [op |-> "unlock", on |-> x]
    PROVE  Held(p, i + 1) = Held(p, i) \ {x}
  <1>1. ASSUME NEW y \in Held(p, i + 1) PROVE y \in Held(p, i) /\ y # x
    <2>1. PICK j \in 1 .. (i + 1) - 1 :
            /\ p[j] = [op |-> "lock", on |-> y]
            /\ \A k \in j + 1 .. (i + 1) - 1 : p[k] # [op |-> "unlock", on |-> y]
      BY <1>1 DEF Held
    <2>2. j # i /\ j \in 1 .. i - 1 /\ i \in j + 1 .. (i + 1) - 1
      BY <2>1
    <2> QED BY <1>1, <2>1, <2>2 DEF Held
  <1>2. ASSUME NEW y \in Held(p, i), y # x PROVE y \in Held(p, i + 1)
    <2>1. PICK j \in 1 .. i - 1 :
            /\ p[j] = [op |-> "lock", on |-> y]
            /\ \A k \in j + 1 .. i - 1 : p[k] # [op |-> "unlock", on |-> y]
      BY <1>2 DEF Held
    <2>2. \A k \in j + 1 .. (i + 1) - 1 : p[k] # [op |-> "unlock", on |-> y]
      BY <1>2, <2>1
    <2> QED BY <1>2, <2>1, <2>2 DEF Held
  <1> QED BY <1>1, <1>2

\* A step that uses or walks a list changes nothing of what the thread has.
LEMMA HeldUse ==
    ASSUME NEW p, NEW i \in Nat \ {0}, p[i].op \in {"use", "walk"}
    PROVE  Held(p, i + 1) = Held(p, i)
  <1>1. ASSUME NEW y \in Held(p, i + 1) PROVE y \in Held(p, i)
    BY <1>1 DEF Held
  <1>2. ASSUME NEW y \in Held(p, i) PROVE y \in Held(p, i + 1)
    BY <1>2 DEF Held
  <1> QED BY <1>1, <1>2
-----------------------------------------------------------------------------
\* A step of t, whatever it does to what t has, keeps the invariant if t then
\* owns what the steps up to it locked and all others own what they did.
LEMMA AdvanceIInv ==
    ASSUME Discipline, IInv, NEW t \in Thread, Busy(t), Advance(t),
           ~SelfLock(Program[call[t]], at[t]),
           owner' \in [Mutex -> Thread \cup {Nobody}],
           \A x \in Mutex :
               owner'[x] = t <=> x \in Held(Program[call[t]], at[t] + 1),
           \A u \in Thread \ {t}, x \in Mutex : owner'[x] = u <=> owner[x] = u
    PROVE  IInv'
  <1> DEFINE p == Program[call[t]]
             i == at[t]
  <1>1. call[t] \in Call /\ i \in 1 .. Len(p) /\ Len(p) \in Nat
    BY ProgramType DEF IInv, TypeInv, Busy
  <1>2. CASE i = Len(p)
    <2>1. /\ call' = [call EXCEPT ![t] = Nobody]
          /\ at' = [at EXCEPT ![t] = 1]
      BY <1>2 DEF Advance
    <2>2. \A j \in 1 .. Len(p) : ~SelfLock(p, j)
      BY <1>1, <1>2 DEF IInv, NotPastSelfLock
    <2>3. Held(p, Len(p) + 1) = {}
      BY <1>1, <2>2 DEF Discipline, Balanced
    <2>4. TypeInv'
      BY <2>1 DEF IInv, TypeInv, Busy
    <2>5. Owns'
      <3> SUFFICES ASSUME NEW u \in Thread, NEW x \in Mutex
                   PROVE  (owner[x] = u <=>
                            Busy(u) /\ x \in Held(Program[call[u]], at[u]))'
        BY DEF Owns
      <3>1. CASE u = t
        BY <1>2, <2>1, <2>3, <3>1 DEF Busy, IInv, TypeInv
      <3>2. CASE u # t
        <4>1. call'[u] = call[u] /\ at'[u] = at[u]
          BY <2>1, <3>2 DEF IInv, TypeInv
        <4> QED BY <3>2, <4>1 DEF IInv, Owns, Busy
      <3> QED BY <3>1, <3>2
    <2>6. NotPastSelfLock'
      <3> SUFFICES ASSUME NEW u \in Thread, Busy(u)',
                          NEW j \in 1 .. at'[u] - 1
                   PROVE  ~SelfLock(Program[call'[u]], j)
        BY DEF NotPastSelfLock, SelfLock
      <3>1. u # t /\ call'[u] = call[u] /\ at'[u] = at[u]
        BY <2>1 DEF IInv, TypeInv, Busy
      <3> QED BY <3>1 DEF IInv, NotPastSelfLock, Busy
    <2> QED BY <2>4, <2>5, <2>6 DEF IInv
  <1>3. CASE i # Len(p)
    <2>1. call' = call /\ at' = [at EXCEPT ![t] = i + 1]
      BY <1>3 DEF Advance
    <2>2. TypeInv'
      BY <1>1, <1>3, <2>1 DEF IInv, TypeInv, Busy
    <2>3. Owns'
      <3> SUFFICES ASSUME NEW u \in Thread, NEW x \in Mutex
                   PROVE  (owner[x] = u <=>
                            Busy(u) /\ x \in Held(Program[call[u]], at[u]))'
        BY DEF Owns
      <3>1. CASE u = t
        BY <2>1, <3>1 DEF Busy, IInv, TypeInv
      <3>2. CASE u # t
        <4>1. call'[u] = call[u] /\ at'[u] = at[u]
          BY <2>1, <3>2 DEF IInv, TypeInv
        <4> QED BY <3>2, <4>1 DEF IInv, Owns, Busy
      <3> QED BY <3>1, <3>2
    <2>4. NotPastSelfLock'
      <3> SUFFICES ASSUME NEW u \in Thread, Busy(u)',
                          NEW j \in 1 .. at'[u] - 1
                   PROVE  ~SelfLock(Program[call'[u]], j)
        BY DEF NotPastSelfLock, SelfLock
      <3>1. CASE u = t
        <4>1. at'[t] = i + 1 /\ call'[t] = call[t]
          BY <2>1 DEF IInv, TypeInv
        <4>2. j \in 1 .. i - 1 \/ j = i
          BY <1>1, <3>1, <4>1
        <4> QED BY <3>1, <4>1, <4>2 DEF IInv, NotPastSelfLock
      <3>2. CASE u # t
        <4>1. call'[u] = call[u] /\ at'[u] = at[u]
          BY <2>1, <3>2 DEF IInv, TypeInv
        <4> QED BY <4>1 DEF IInv, NotPastSelfLock, Busy
      <3> QED BY <3>1, <3>2
    <2> QED BY <2>2, <2>3, <2>4 DEF IInv
  <1> QED BY <1>2, <1>3

\* The next step of a thread that is in a call.
LEMMA ComingType ==
    ASSUME IInv, NEW t \in Thread, Busy(t)
    PROVE  /\ call[t] \in Call
           /\ at[t] \in Nat \ {0}
           /\ at[t] \in 1 .. Len(Program[call[t]])
           /\ Coming(t) = Program[call[t]][at[t]]
           /\ Coming(t) \in StepType
           /\ Coming(t).op \in {"lock", "unlock"} => Coming(t).on \in Mutex
  <1>1. call[t] \in Call /\ at[t] \in 1 .. Len(Program[call[t]])
    BY DEF IInv, TypeInv, Busy
  <1> QED BY <1>1, ProgramType DEF Coming, StepType

\* Locking a free mutex keeps the invariant.
LEMMA LockIInv ==
    ASSUME Discipline, IInv, NEW t \in Thread, LockStep(t) PROVE IInv'
  <1> DEFINE p == Program[call[t]]
             i == at[t]
             x == Coming(t).on
  <1>1. Busy(t) /\ Advance(t) /\ owner[x] = Nobody
        /\ owner' = [owner EXCEPT ![x] = t] /\ Coming(t).op = "lock"
    BY DEF LockStep
  <1>2. x \in Mutex /\ p[i] = [op |-> "lock", on |-> x] /\ i \in Nat \ {0}
    BY <1>1, ComingType DEF StepType
  <1>3. x \notin Held(p, i)
    BY <1>1, <1>2, LockOrderAssumption DEF IInv, Owns
  <1>4. ~SelfLock(p, i)
    BY <1>2, <1>3 DEF SelfLock
  <1>5. Held(p, i + 1) = Held(p, i) \cup {x}
    <2> HIDE DEF p, i, x
    <2> QED BY <1>2, HeldLock
  <1>6. owner' \in [Mutex -> Thread \cup {Nobody}]
    BY <1>1, <1>2 DEF IInv, TypeInv
  <1>7. ASSUME NEW y \in Mutex PROVE owner'[y] = t <=> y \in Held(p, i + 1)
    BY <1>1, <1>2, <1>5 DEF IInv, Owns, TypeInv
  <1>8. ASSUME NEW u \in Thread \ {t}, NEW y \in Mutex
        PROVE  owner'[y] = u <=> owner[y] = u
    BY <1>1, <1>2, LockOrderAssumption DEF IInv, TypeInv
  <1> QED BY <1>1, <1>4, <1>6, <1>7, <1>8, AdvanceIInv

\* Unlocking keeps the invariant: the mutex is the thread's own.
LEMMA UnlockIInv ==
    ASSUME Discipline, IInv, NEW t \in Thread, UnlockStep(t) PROVE IInv'
  <1> DEFINE p == Program[call[t]]
             i == at[t]
             x == Coming(t).on
  <1>1. Busy(t) /\ Advance(t)
        /\ owner' = [owner EXCEPT ![x] = Nobody] /\ Coming(t).op = "unlock"
    BY DEF UnlockStep
  <1>2. x \in Mutex /\ p[i] = [op |-> "unlock", on |-> x] /\ i \in Nat \ {0}
        /\ i \in 1 .. Len(p) /\ call[t] \in Call
    BY <1>1, ComingType DEF StepType
  <1>3. x \in Held(p, i)
    <2>1. \A j \in 1 .. i - 1 : ~SelfLock(p, j)
      BY <1>1 DEF IInv, NotPastSelfLock
    <2>2. Balanced(p)
      BY <1>2 DEF Discipline
    <2>3. p[i].op = "unlock" /\ p[i].on = x
      BY <1>2
    <2> HIDE DEF p, i, x
    <2> QED BY <1>2, <2>1, <2>2, <2>3 DEF Balanced
  <1>4. owner[x] = t
    BY <1>1, <1>2, <1>3 DEF IInv, Owns
  <1>5. Held(p, i + 1) = Held(p, i) \ {x}
    <2> HIDE DEF p, i, x
    <2> QED BY <1>2, HeldUnlock
  <1>6. ~SelfLock(p, i)
    BY <1>2 DEF SelfLock
  <1>7. owner' \in [Mutex -> Thread \cup {Nobody}]
    BY <1>1, <1>2 DEF IInv, TypeInv
  <1>8. ASSUME NEW y \in Mutex PROVE owner'[y] = t <=> y \in Held(p, i + 1)
    BY <1>1, <1>2, <1>5, LockOrderAssumption DEF IInv, Owns, TypeInv
  <1>9. ASSUME NEW u \in Thread \ {t}, NEW y \in Mutex
        PROVE  owner'[y] = u <=> owner[y] = u
    BY <1>1, <1>2, <1>4, LockOrderAssumption DEF IInv, TypeInv
  <1> QED BY <1>1, <1>6, <1>7, <1>8, <1>9, AdvanceIInv

\* Using a list keeps the invariant.
LEMMA UseIInv ==
    ASSUME Discipline, IInv, NEW t \in Thread, UseStep(t) PROVE IInv'
  <1> DEFINE p == Program[call[t]]
             i == at[t]
  <1>1. Busy(t) /\ Advance(t) /\ owner' = owner /\ Coming(t).op \in {"use", "walk"}
    BY DEF UseStep
  <1>2. p[i].op \in {"use", "walk"} /\ i \in Nat \ {0}
    BY <1>1, ComingType
  <1>3. Held(p, i + 1) = Held(p, i)
    BY <1>2, HeldUse
  <1>4. ~SelfLock(p, i)
    BY <1>2 DEF SelfLock
  <1>5. owner' \in [Mutex -> Thread \cup {Nobody}]
    BY <1>1 DEF IInv, TypeInv
  <1>6. ASSUME NEW y \in Mutex PROVE owner'[y] = t <=> y \in Held(p, i + 1)
    BY <1>1, <1>3 DEF IInv, Owns
  <1> QED BY <1>1, <1>4, <1>5, <1>6, AdvanceIInv

\* A thread that begins a call has nothing yet.
LEMMA BeginIInv ==
    ASSUME IInv, NEW t \in Thread, NEW c \in Call, Begin(t, c) PROVE IInv'
  <1>1. /\ ~Busy(t) /\ at[t] = 1 /\ at' = at /\ owner' = owner
        /\ call' = [call EXCEPT ![t] = c]
        /\ call'[t] = c /\ \A u \in Thread \ {t} : call'[u] = call[u]
    BY DEF Begin, IInv, TypeInv
  <1>2. TypeInv'
    BY <1>1, ProgramType, LockOrderAssumption DEF IInv, TypeInv, Busy
  <1>3. Owns'
    <2> SUFFICES ASSUME NEW u \in Thread, NEW x \in Mutex
                 PROVE  (owner[x] = u <=>
                          Busy(u) /\ x \in Held(Program[call[u]], at[u]))'
      BY DEF Owns
    <2>1. CASE u = t
      BY <1>1, <2>1, HeldFirst DEF IInv, Owns
    <2>2. CASE u # t
      BY <1>1, <2>2 DEF IInv, Owns, Busy
    <2> QED BY <2>1, <2>2
  <1>4. NotPastSelfLock'
    <2> SUFFICES ASSUME NEW u \in Thread, Busy(u)', NEW j \in 1 .. at'[u] - 1
                 PROVE  ~SelfLock(Program[call'[u]], j)
      BY DEF NotPastSelfLock, SelfLock
    <2>1. u # t
      BY <1>1
    <2> QED BY <1>1, <2>1 DEF IInv, NotPastSelfLock, Busy
  <1> QED BY <1>2, <1>3, <1>4 DEF IInv

\* At first nobody is in a call and every mutex is free.
LEMMA InitIInv == Init => IInv
  <1> SUFFICES ASSUME Init PROVE IInv
    OBVIOUS
  <1>1. TypeInv
    BY DEF Init, TypeInv, Busy
  <1>2. Owns
    BY LockOrderAssumption DEF Init, Owns, Busy
  <1>3. NotPastSelfLock
    BY DEF Init, NotPastSelfLock, Busy
  <1> QED BY <1>1, <1>2, <1>3 DEF IInv

\* Every step keeps the invariant.
LEMMA NextIInv == Discipline /\ IInv /\ [Next]_vars => IInv'
  <1> SUFFICES ASSUME Discipline, IInv, [Next]_vars PROVE IInv'
    OBVIOUS
  <1>1. ASSUME NEW t \in Thread, NEW c \in Call, Begin(t, c) PROVE IInv'
    BY <1>1, BeginIInv
  <1>2. ASSUME NEW t \in Thread, LockStep(t) PROVE IInv'
    BY <1>2, LockIInv
  <1>3. ASSUME NEW t \in Thread, UnlockStep(t) PROVE IInv'
    BY <1>3, UnlockIInv
  <1>4. ASSUME NEW t \in Thread, UseStep(t) PROVE IInv'
    BY <1>4, UseIInv
  <1>5. CASE UNCHANGED vars
    BY <1>5 DEF vars, IInv, TypeInv, Owns, NotPastSelfLock, Busy, SelfLock
  <1> QED BY <1>1, <1>2, <1>3, <1>4, <1>5 DEF Next

\* The invariant holds throughout.
LEMMA Invariance == Discipline => (Spec => []IInv)
  <1> SUFFICES ASSUME Discipline PROVE Spec => []IInv
    OBVIOUS
  <1>1. Init => IInv
    BY InitIInv
  <1>2. IInv /\ [Next]_vars => IInv'
    BY NextIInv
  <1> QED BY <1>1, <1>2, PTL DEF Spec
-----------------------------------------------------------------------------
\* A set of ranks that is not empty has a highest one.
LEMMA HighestRank ==
    ASSUME NEW S \in SUBSET (1 .. Ranks), S # {}
    PROVE  \E r \in S : \A q \in S : q <= r
  <1>1. Ranks \in Nat /\ S \subseteq Int
    BY LockOrderAssumption
  <1> DEFINE T == {Ranks - r : r \in S}
  <1>2. T \subseteq Nat /\ T # {}
    BY <1>1
  <1>3. \E x \in T : \A y \in T : ~(<<y, x>> \in OpToRel(<, Nat))
    <2> HIDE DEF T
    <2> QED BY <1>2, NatLessThanWellFounded, WFMin
  <1>4. PICK x \in T : \A y \in T : ~(y < x)
    BY <1>2, <1>3 DEF OpToRel
  <1>5. PICK r \in S : x = Ranks - r
    BY <1>4
  <1>6. ASSUME NEW q \in S PROVE q <= r
    <2>1. q \in Int /\ r \in Int
      BY <1>1, Zenon
    <2>2. Ranks - q \in T
      BY Zenon
    <2>3. ~(Ranks - q < Ranks - r)
      BY <1>4, <1>5, <2>2, Zenon
    <2> QED BY <1>1, <2>1, <2>3
  <1> QED BY <1>5, <1>6

\* A thread that waits for u, where neither is suspect, waits for a mutex of a
\* lower rank than the one u waits for.
LEMMA WaitAscends ==
    ASSUME Discipline, IInv, NEW t \in Thread, NEW u \in Thread, NEW v \in Thread,
           call[u] \notin Suspect, WaitsFor(t, u), WaitsFor(u, v)
    PROVE  /\ Coming(t).on \in Mutex /\ Coming(u).on \in Mutex
           /\ Rank[Coming(t).on] < Rank[Coming(u).on]
  <1>1. /\ Busy(t) /\ Coming(t).op = "lock" /\ Coming(t).on \in Mutex
        /\ Busy(u) /\ Coming(u).op = "lock" /\ Coming(u).on \in Mutex
        /\ owner[Coming(t).on] = u
    BY ComingType DEF WaitsFor
  <1>2. Coming(t).on \in Held(Program[call[u]], at[u])
    BY <1>1 DEF IInv, Owns
  <1>3. /\ call[u] \in Call /\ at[u] \in 1 .. Len(Program[call[u]])
        /\ Coming(u) = Program[call[u]][at[u]]
    BY <1>1, ComingType
  <1>4. Ascending(Program[call[u]])
    BY <1>3 DEF Discipline
  <1> QED BY <1>1, <1>2, <1>3, <1>4 DEF Ascending

\* In a library that keeps the discipline threads wait for each other for ever
\* only if one of them is in a suspect call.
THEOREM NoDeadlock == Discipline => (Spec => []OnlySuspectsDeadlock)
  <1> SUFFICES ASSUME Discipline PROVE Spec => []OnlySuspectsDeadlock
    OBVIOUS
  <1>1. ASSUME IInv PROVE OnlySuspectsDeadlock
    <2> SUFFICES ASSUME NEW D \in SUBSET Thread, Stuck(D),
                        \A t \in D : call[t] \notin Suspect
                 PROVE  FALSE
      BY DEF OnlySuspectsDeadlock
    <2> DEFINE S == {Rank[Coming(t).on] : t \in D}
    <2>1. \A t \in D : Coming(t).on \in Mutex
      BY <1>1, ComingType DEF Stuck, WaitsFor
    <2>2. S \in SUBSET (1 .. Ranks) /\ S # {}
      BY <2>1, LockOrderAssumption DEF Stuck
    <2>3. PICK r \in S : \A q \in S : q <= r
      <3> HIDE DEF S
      <3> QED BY <2>2, HighestRank
    <2>4. PICK t \in D : r = Rank[Coming(t).on]
      BY <2>3
    <2>5. PICK u \in D : WaitsFor(t, u)
      BY DEF Stuck
    <2>6. PICK v \in D : WaitsFor(u, v)
      BY DEF Stuck
    <2>7. Rank[Coming(t).on] < Rank[Coming(u).on]
      BY <1>1, <2>5, <2>6, WaitAscends
    <2>8. Rank[Coming(u).on] \in S /\ Rank[Coming(u).on] \in Int /\ r \in Int
      BY <2>2, <2>3
    <2>9. Rank[Coming(u).on] <= r
      BY <2>3, <2>8
    <2> QED BY <2>4, <2>7, <2>8, <2>9
  <1> QED BY <1>1, Invariance, PTL

\* In a library that keeps the discipline two threads use a list at the same
\* time only if one of them is in a suspect call or walks the callbacks.
THEOREM NoRace == Discipline => (Spec => []OnlySuspectsRace)
  <1> SUFFICES ASSUME Discipline PROVE Spec => []OnlySuspectsRace
    OBVIOUS
  <1>1. ASSUME IInv PROVE OnlySuspectsRace
    <2> SUFFICES ASSUME NEW t \in Thread, NEW u \in Thread, Race(t, u),
                        call[t] \notin Suspect, call[u] \notin Suspect,
                        Coming(u).op # "walk"
                 PROVE  FALSE
      BY DEF OnlySuspectsRace
    <2>1. ASSUME NEW s \in Thread, Busy(s), Coming(s).op = "use",
                 call[s] \notin Suspect
          PROVE  owner[Guard[Coming(s).on]] = s
      <3>1. /\ call[s] \in Call /\ at[s] \in 1 .. Len(Program[call[s]])
            /\ Coming(s) = Program[call[s]][at[s]]
            /\ Coming(s) \in StepType
        BY <1>1, <2>1, ComingType
      <3>2. Guarded(Program[call[s]])
        BY <2>1, <3>1 DEF Discipline
      <3>3. Guard[Coming(s).on] \in Held(Program[call[s]], at[s])
        BY <2>1, <3>1, <3>2 DEF Guarded
      <3>4. Guard[Coming(s).on] \in Mutex
        BY <3>3 DEF Held
      <3> QED BY <1>1, <2>1, <3>3, <3>4 DEF IInv, Owns
    <2> QED BY <2>1 DEF Race
  <1> QED BY <1>1, Invariance, PTL
=============================================================================
