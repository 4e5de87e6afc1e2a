-------------------------------- MODULE Fds ---------------------------------
(***************************************************************************)
(* The file descriptors of a process that uses libtbm, and the environment *)
(* variables through which the DRM helpers pass their numbers on.          *)
(*                                                                         *)
(* A number says nothing of the file behind it: once it is closed the next *)
(* open gives the same number to another file.  So the model keeps, next   *)
(* to the table of the process, the numbers each user of it believes to    *)
(* have, with the kind of file it believes is behind them.                 *)
(***************************************************************************)
EXTENDS Integers, FiniteSets, FiniteSetsExt

CONSTANTS
    Process,    \* the processes
    User,       \* who has descriptors in a process: the application, the backend
    MaxFd,      \* numbers are 0 .. MaxFd
    Setter,     \* <<p, u, v>>: user u of process p sets the variable v
    Getter      \* <<p, u, v>>: user u of process p asks for the variable v

Num == 0 .. MaxFd
NoFd == -1
Free == [kind |-> "free"]

\* The variables of the DRM helpers.  TDM_DRM_MASTER_FD is set by libtdm.
EnvVar == {"TBM_DRM_FD", "TBM_DRM_MASTER_FD", "TDM_DRM_MASTER_FD"}

ASSUME FdsAssumption ==
    /\ MaxFd \in Nat
    /\ {"app", "backend"} \subseteq User
    /\ Setter \subseteq Process \X User \X EnvVar
    /\ Getter \subseteq Process \X User \X EnvVar

VARIABLES
    fds,     \* the files behind the numbers of each process
    held,    \* what each user believes to have: records of fd and kind
    env      \* the number in each variable, NoFd when it is not set

fdsVars == <<fds, held, env>>

FdsInit ==
    /\ fds = [p \in Process |-> [n \in Num |-> Free]]
    /\ held = [p \in Process |-> [u \in User |-> {}]]
    /\ env = [p \in Process |-> [v \in EnvVar |-> NoFd]]

\* The kernel gives out the lowest free number, NoFd if there is none.
Lowest(table) ==
    LET free == {n \in Num : table[n] = Free}
    IN  IF free = {} THEN NoFd ELSE Min(free)

\* The table of p after a file got number n, or after n was closed.
Opened(p, n, file) == [fds[p] EXCEPT ![n] = file]
Closed(p, n) == IF n = NoFd THEN fds[p] ELSE [fds[p] EXCEPT ![n] = Free]

\* u takes the number n for a file of this kind.
Hold(p, u, n, kind) ==
    held' = [held EXCEPT ![p][u] = @ \cup {[fd |-> n, is |-> kind]}]

\* u closes what it has, not a number that a variable still names.
Close(p, u, h) ==
    /\ h \in held[p][u]
    /\ h.fd \notin {env[p][v] : v \in EnvVar}
    /\ fds' = [fds EXCEPT ![p] = Closed(p, h.fd)]
    /\ held' = [held EXCEPT ![p][u] = @ \ {h}]
    /\ UNCHANGED env
-----------------------------------------------------------------------------
\* tbm_drm_helper_set_fd, tbm_drm_helper_set_tbm_master_fd: the number of a
\* descriptor that u has.  What libtdm sets is its own affair.
SetFd(p, u, v, h) ==
    /\ <<p, u, v>> \in Setter
    /\ h \in held[p][u] /\ h.is = "drm"
    /\ env' = [env EXCEPT ![p][v] = h.fd]
    /\ UNCHANGED <<fds, held>>

\* tbm_drm_helper_unset_fd, tbm_drm_helper_unset_tbm_master_fd
UnsetFd(p, v) ==
    /\ env[p][v] # NoFd
    /\ env' = [env EXCEPT ![p][v] = NoFd]
    /\ UNCHANGED <<fds, held>>

\* Mutant: the number is handed out as it is, without dup.
GetFdNoDup(p, u, v) ==
    /\ <<p, u, v>> \in Getter
    /\ env[p][v] # NoFd
    /\ fds[p][env[p][v]] # Free
    /\ Hold(p, u, env[p][v], "drm")
    /\ UNCHANGED <<fds, env>>

\* tbm_drm_helper_get_fd, tbm_drm_helper_get_master_fd: a duplicate of the file
\* behind the number, if fcntl finds one and dup a free number.  Without a
\* variable, or with a bad one, -1 and no change.
GetFd(p, u, v) ==
    LET n == Lowest(fds[p])
        old == env[p][v]
    IN  /\ <<p, u, v>> \in Getter
        /\ old # NoFd
        /\ fds[p][old] # Free
        /\ n # NoFd
        /\ fds' = [fds EXCEPT ![p] = Opened(p, n, fds[p][old])]
        /\ Hold(p, u, n, "drm")
        /\ UNCHANGED env
=============================================================================
