------------------------------ MODULE UserData ------------------------------
(***************************************************************************)
(* User data of bos and surfaces: the keyed lists of src/src/tbm_bufmgr.c  *)
(* (user_data_*, tbm_bo_*_user_data) and src/src/tbm_surface_internal.c    *)
(* (tbm_surface_internal_*_user_data), on top of Surface, whose steps      *)
(* destroy the objects and with them the lists (DestroyLists).  DebugData  *)
(* composes them.                                                          *)
(*                                                                         *)
(* Each call holds the mutex of its object from its first to its last      *)
(* access and is one step.  An entry with a free function owns the datum   *)
(* it is set to; without one the datum stays the client's.                 *)
(***************************************************************************)
EXTENDS Surface

CONSTANTS
    Key,           \* keys of user data
    Data,          \* data that clients allocate
    MaxUserData    \* bound: entries in all lists

ASSUME UserDataAssumption == NULL \notin Data /\ MaxUserData \in Nat

VARIABLES
    user_data_list,   \* of every bo and surface, empty while it is not alive
    given             \* data that clients gave away to be freed

userDataVars == <<vars, user_data_list, given>>

Object == Bo \cup Surf
LiveObjects == Live \cup LiveSurfs

UserDataInit ==
    /\ SurfaceInit
    /\ user_data_list = [o \in Object |-> <<>>]
    /\ given = {}

\* user_data_lookup: the place of the first entry with the key, 0 for NULL.
Lookup(list, k) == SelectInSeq(list, LAMBDA e : e.key = k)

\* user_data_create; calloc leaves the data NULL.
NewEntry(k, free_func) == [key |-> k, data |-> NULL, free_func |-> free_func]

\* What the free function of an entry is called with.
FreedBy(e) == IF e.data # NULL /\ e.free_func THEN {e.data} ELSE {}
FreedByAll(list) == UNION {FreedBy(list[i]) : i \in 1 .. Len(list)}

\* The objects t can pass: those it holds a reference to.
Passes(t, o) == IF o \in Bo THEN Ready(t) /\ Holds(t, o) ELSE SurfHolds(t, o)

Entries == SumFunction([o \in Object |-> Len(user_data_list[o])])

\* tbm_bo_add_user_data, tbm_surface_internal_add_user_data
AddUserData(t, o, k, free_func) ==
    /\ Passes(t, o) /\ Entries < MaxUserData
    /\ Lookup(user_data_list[o], k) = 0
    /\ user_data_list' =
           [user_data_list EXCEPT ![o] = <<NewEntry(k, free_func)>> \o @]
    /\ UNCHANGED <<given, vars>>

\* Mutant: the datum that was there is not freed.
SetUserDataLeaks(t, o, k, d) ==
    /\ Passes(t, o)
    /\ LET i == Lookup(user_data_list[o], k)
           e == user_data_list[o][i]
       IN  /\ i # 0
           /\ user_data_list' = [user_data_list EXCEPT ![o][i].data = d]
           /\ given' = given \cup FreedBy([e EXCEPT !.data = d])
    /\ UNCHANGED vars

\* tbm_bo_set_user_data, tbm_surface_internal_set_user_data: the old datum is
\* freed, the new one takes its place.
SetUserData(t, o, k, d) ==
    /\ Passes(t, o)
    /\ LET i == Lookup(user_data_list[o], k)
           e == user_data_list[o][i]
       IN  /\ i # 0
           /\ user_data_list' = [user_data_list EXCEPT ![o][i].data = d]
           /\ given' = (given \ FreedBy(e)) \cup FreedBy([e EXCEPT !.data = d])
    /\ UNCHANGED vars

\* tbm_bo_delete_user_data, tbm_surface_internal_delete_user_data
DeleteUserData(t, o, k) ==
    /\ Passes(t, o)
    /\ LET i == Lookup(user_data_list[o], k)
       IN  /\ i # 0
           /\ user_data_list' = [user_data_list EXCEPT ![o] = RemoveAt(@, i)]
           /\ given' = given \ FreedBy(user_data_list[o][i])
    /\ UNCHANGED vars

\* An object that is destroyed deletes its list entry by entry.
DestroyLists ==
    LET dead == LiveObjects \ LiveObjects'
    IN  /\ user_data_list' =
               [o \in Object |-> IF o \in dead THEN <<>> ELSE user_data_list[o]]
        /\ given' = given \ UNION {FreedByAll(user_data_list[o]) : o \in dead}

\* Clients pass a datum that they have not given away.
UserDataCalls ==
    \E t \in Thread, o \in Object, k \in Key :
        \/ \E free_func \in BOOLEAN : AddUserData(t, o, k, free_func)
        \/ \E d \in (Data \ given) \cup {NULL} : SetUserData(t, o, k, d)
        \/ DeleteUserData(t, o, k)
-----------------------------------------------------------------------------
\* The entries that own d.
Owners(d) ==
    {e \in Object \X (1 .. MaxUserData) :
        /\ e[2] \in 1 .. Len(user_data_list[e[1]])
        /\ d \in FreedBy(user_data_list[e[1]][e[2]])}

\* A datum given away is owned by exactly one entry of a live object, and an
\* entry owns only what was given away: no datum is freed twice, none is lost
\* when it is replaced or its object goes.
DataOwnedOnce ==
    /\ \A d \in Data : Cardinality(Owners(d)) = IF d \in given THEN 1 ELSE 0
    /\ \A o \in Object \ LiveObjects : user_data_list[o] = <<>>
=============================================================================
