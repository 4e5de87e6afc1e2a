----------------------------- MODULE LockOrder ------------------------------
(***************************************************************************)
(* Threads that run functions of a library, each function reduced to the   *)
(* mutexes it locks and unlocks and the shared lists it uses in between.   *)
(* The programs of libtbm's functions are in TbmLocks.tla; here they are   *)
(* any sequences of steps, so that what is proved holds for any library    *)
(* that keeps its mutexes in order.                                        *)
(*                                                                         *)
(* Every mutex is a default pthread mutex: a thread that locks one it      *)
(* already has waits for itself.                                           *)
(***************************************************************************)
EXTENDS Integers, Sequences

CONSTANTS
    Thread,     \* threads of the process
    Call,       \* functions they can call
    Suspect,    \* functions that are known to break the order of the mutexes
    Program,    \* the steps of each function
    Mutex,      \* mutexes of the library
    Rank,       \* the order in which mutexes are taken, from 1 to Ranks
    Ranks,
    Shared,     \* lists that threads share
    Guard,      \* the mutex that protects each list
    Nobody      \* the owner of a mutex that is free

\* A walk reads a list with or without its mutex.
StepType ==
    [op : {"lock", "unlock"}, on : Mutex] \cup [op : {"use", "walk"}, on : Shared]

ASSUME LockOrderAssumption ==
    /\ Ranks \in Nat
    /\ Rank \in [Mutex -> 1 .. Ranks]
    /\ Guard \in [Shared -> Mutex]
    /\ Suspect \subseteq Call
    /\ \A c \in Call : Program[c] \in Seq(StepType) /\ Program[c] # << >>
    /\ Nobody \notin Thread /\ Nobody \notin Call

VARIABLES
    call,    \* the function each thread is in, Nobody for none
    at,      \* the next step of it
    owner    \* who has each mutex

vars == <<call, at, owner>>

Init ==
    /\ call = [t \in Thread |-> Nobody]
    /\ at = [t \in Thread |-> 1]
    /\ owner = [x \in Mutex |-> Nobody]

Busy(t) == call[t] # Nobody

\* The step that t takes next.
Coming(t) == Program[call[t]][at[t]]

\* The step is done, and with the last one the call.
Advance(t) ==
    IF at[t] = Len(Program[call[t]])
    THEN /\ call' = [call EXCEPT ![t] = Nobody]
         /\ at' = [at EXCEPT ![t] = 1]
    ELSE /\ at' = [at EXCEPT ![t] = @ + 1]
         /\ UNCHANGED call

Begin(t, c) ==
    /\ ~Busy(t)
    /\ call' = [call EXCEPT ![t] = c]
    /\ UNCHANGED <<at, owner>>

\* Mutant: a failed attempt to lock is taken for a success.
LockStepTry(t) ==
    /\ Busy(t) /\ Coming(t).op = "lock"
    /\ owner' = [owner EXCEPT ![Coming(t).on] = t]
    /\ Advance(t)

LockStep(t) ==
    /\ Busy(t) /\ Coming(t).op = "lock"
    /\ owner[Coming(t).on] = Nobody
    /\ owner' = [owner EXCEPT ![Coming(t).on] = t]
    /\ Advance(t)

\* Mutant: a path out of the function forgets to unlock.
UnlockStepForgets(t) ==
    /\ Busy(t) /\ Coming(t).op = "unlock"
    /\ UNCHANGED owner
    /\ Advance(t)

UnlockStep(t) ==
    /\ Busy(t) /\ Coming(t).op = "unlock"
    /\ owner' = [owner EXCEPT ![Coming(t).on] = Nobody]
    /\ Advance(t)

UseStep(t) ==
    /\ Busy(t) /\ Coming(t).op \in {"use", "walk"}
    /\ Advance(t)
    /\ UNCHANGED owner

Next ==
    \E t \in Thread :
        \/ \E c \in Call : Begin(t, c)
        \/ LockStep(t)
        \/ UnlockStep(t)
        \/ UseStep(t)

Spec == Init /\ [][Next]_vars
-----------------------------------------------------------------------------
(* What a library must keep to.  LockOrderProofs derives the two properties *)
(* below from it; TLC evaluates it for the functions of libtbm (MCLocks).    *)

\* The mutexes that a thread has before step i of p: locked by an earlier
\* step and not unlocked since.
Held(p, i) ==
    {x \in Mutex :
        \E j \in 1 .. i - 1 :
            /\ p[j] = [op |-> "lock", on |-> x]
            /\ \A k \in j + 1 .. i - 1 : p[k] # [op |-> "unlock", on |-> x]}

\* Step j locks a mutex that the thread has: nothing after it is reached.
SelfLock(p, j) == p[j].op = "lock" /\ p[j].on \in Held(p, j)

\* A function unlocks what it locked, and all of it before it returns.
Balanced(p) ==
    /\ \A i \in 1 .. Len(p) :
         p[i].op = "unlock" =>
             p[i].on \in Held(p, i) \/ \E j \in 1 .. i - 1 : SelfLock(p, j)
    /\ Held(p, Len(p) + 1) = {} \/ \E j \in 1 .. Len(p) : SelfLock(p, j)

\* It locks a mutex only when all it has are of a lower rank.
Ascending(p) ==
    \A i \in 1 .. Len(p) : p[i].op = "lock" =>
        \A y \in Held(p, i) : Rank[y] < Rank[p[i].on]

\* It uses a list only when it has its guard.
Guarded(p) ==
    \A i \in 1 .. Len(p) : p[i].op = "use" => Guard[p[i].on] \in Held(p, i)

\* The discipline: all functions are balanced, all but the suspects keep the
\* order and the guards.
Discipline ==
    /\ \A c \in Call : Balanced(Program[c])
    /\ \A c \in Call \ Suspect : Ascending(Program[c]) /\ Guarded(Program[c])
-----------------------------------------------------------------------------
\* t waits for a mutex that u has.
WaitsFor(t, u) ==
    Busy(t) /\ Coming(t).op = "lock" /\ owner[Coming(t).on] = u

\* The threads of D wait for each other, or one for itself, for ever.
Stuck(D) == D # {} /\ \A t \in D : \E u \in D : WaitsFor(t, u)

\* Threads can wait for each other for ever only if one of them is in a call
\* that is known to break the order surf_queue, queue, surface, g, bufmgr: the
\* functions for debugging, a woken waiter, a callback that calls back.  All
\* others nest queue, surface and buffer manager in this order, through the
\* alloc_cb and bo_lock windows, failing creations and last references.
OnlySuspectsDeadlock ==
    \A D \in SUBSET Thread :
        Stuck(D) => \E t \in D : call[t] \in Suspect

\* t uses a list that u uses or walks at the same time.
Race(t, u) ==
    /\ t # u /\ Busy(t) /\ Busy(u)
    /\ Coming(t).op = "use" /\ Coming(u).op \in {"use", "walk"}
    /\ Coming(t).on = Coming(u).on

\* Two threads are in bo_list, surf_list, the lists of a queue or its lists of
\* callbacks at the same time only if one of them is in a suspect call, or is
\* calling callbacks.  The lists of callbacks are walked after the unlock
\* (tbm_surface_queue.c:1118, 1164, 1180, 1292, 1470, 1602), so a walk meets
\* the changes of other threads; but no two changes meet, and no other list is
\* in use twice, whatever the threads took and dropped before.
OnlySuspectsRace ==
    \A t, u \in Thread :
        Race(t, u) => \/ call[t] \in Suspect \/ call[u] \in Suspect
                      \/ Coming(u).op = "walk"
=============================================================================
