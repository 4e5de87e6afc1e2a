----------------------------- MODULE DebugData ------------------------------
(***************************************************************************)
(* Debug data of surfaces (tbm_surface_internal_set_debug_data), which     *)
(* tbm_bufmgr_debug_show prints: a list of keys and values per surface and *)
(* one list of all keys at the manager, composed with the user data, whose *)
(* module holds the rest of the lives of surfaces.                         *)
(*                                                                         *)
(* Values are strings; all that counts of them is which is a prefix of     *)
(* which, so they are sequences.                                           *)
(***************************************************************************)
EXTENDS UserData

CONSTANTS
    DebugEnv,        \* environments whose clients set debug data, not user data
    DebugKey,        \* keys
    DebugValue,      \* values
    MaxDebugData     \* bound: entries of one surface

ASSUME DebugDataAssumption ==
    /\ DebugEnv \subseteq DOMAIN Envs /\ MaxDebugData \in Nat
    /\ \A v \in DebugValue : Len(v) \in Nat

VARIABLES
    debug_data_list,    \* of every surface, empty while it is not alive
    debug_key_list,     \* of the manager
    latest              \* what each surface was told last for each key

debugVars == <<debug_data_list, debug_key_list, latest>>

DebugDataInit ==
    /\ UserDataInit
    /\ debug_data_list = [s \in Surf |-> << >>]
    /\ debug_key_list = << >>
    /\ latest = [s \in Surf |-> [k \in DebugKey |-> NULL]]

\* Mutant: strncmp over the length of the new value.
AlreadyExistsNew(e, v) == e.value # NULL /\ v # NULL /\ IsPrefix(v, e.value)

\* strncmp over the length of the old value.
AlreadyExists(e, v) == e.value # NULL /\ v # NULL /\ IsPrefix(e.value, v)

\* Entries with the key get the value, up to one that is taken for the same.
\* If there is none a further entry goes to the head, for a new key and for
\* one that has entries alike.
SetDebugData(t, s, k, v) ==
    LET list == debug_data_list[s]
        same == SelectInSeq(list, LAMBDA e : e.key = k /\ AlreadyExists(e, v))
        new == [i \in 1 .. Len(list) |->
                  IF list[i].key = k /\ (same = 0 \/ i < same)
                  THEN [list[i] EXCEPT !.value = v] ELSE list[i]]
    IN  /\ SurfHolds(t, s) /\ Len(list) < MaxDebugData
        /\ debug_data_list' =
               [debug_data_list EXCEPT ![s] =
                  IF same # 0 THEN new ELSE <<[key |-> k, value |-> v]>> \o new]
        /\ debug_key_list' = IF k \in Range(debug_key_list) THEN debug_key_list
                             ELSE <<k>> \o debug_key_list
        /\ latest' = [latest EXCEPT ![s][k] = v]
        /\ UNCHANGED userDataVars

\* _tbm_surface_internal_get_debug_data, which debug_show calls for every key
\* of the manager: the first entry counts.
GetDebugData(s, k) ==
    LET i == SelectInSeq(debug_data_list[s], LAMBDA e : e.key = k)
    IN  IF i = 0 THEN NULL ELSE debug_data_list[s][i].value

\* A surface that is destroyed deletes its list, the last one also the keys.
DestroyDebugData ==
    LET dead == LiveSurfs \ LiveSurfs'
    IN  /\ debug_data_list' = [s \in Surf |-> IF s \in dead THEN << >>
                                              ELSE debug_data_list[s]]
        /\ debug_key_list' = IF dead # {} /\ LiveSurfs' = {} THEN << >>
                             ELSE debug_key_list
        /\ latest' = [s \in Surf |-> IF s \in dead THEN [k \in DebugKey |-> NULL]
                                     ELSE latest[s]]

DebugDataNext ==
    \/ SurfaceNext /\ DestroyLists /\ DestroyDebugData
    \/ m.env \notin DebugEnv /\ UserDataCalls /\ UNCHANGED debugVars
    \/ /\ m.env \in DebugEnv
       /\ \E t \in Thread, s \in Surf, k \in DebugKey, v \in DebugValue \cup {NULL} :
            SetDebugData(t, s, k, v)

DebugDataSpec == DebugDataInit /\ [][DebugDataNext]_<<userDataVars, debugVars>>
-----------------------------------------------------------------------------
\* What debug_show prints for a surface: a value only for a key that is listed
\* once, and of the value set last, if not all, a beginning (an old value that
\* begins the new one is taken for it and stays, an empty one for ever).
\* Surfaces that come and go leave the keys of the others in place.
DebugDataShown ==
    /\ \A s \in LiveSurfs, k \in DebugKey :
         LET shown == GetDebugData(s, k)
         IN  IF latest[s][k] = NULL THEN shown = NULL
             ELSE shown # NULL /\ IsPrefix(shown, latest[s][k])
    /\ \A s \in LiveSurfs : \A i \in 1 .. Len(debug_data_list[s]) :
         Cardinality({j \in 1 .. Len(debug_key_list) :
                        debug_key_list[j] = debug_data_list[s][i].key}) = 1
=============================================================================
