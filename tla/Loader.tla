------------------------------- MODULE Loader -------------------------------
(***************************************************************************)
(* _tbm_load_module and _tbm_bufmgr_load_module: how tbm_bufmgr_init finds *)
(* a backend.  Modules are tried one after the other, the default one      *)
(* first, until one loads.  A module is external; its init function is     *)
(* where a backend gets its descriptors, so it may take many steps.        *)
(***************************************************************************)
EXTENDS Fds, Sequences

CONSTANTS
    Modules,     \* the module files in the order in which they are tried
    MaxInits     \* bound on the calls of tbm_bufmgr_init of a process

ASSUME LoaderAssumption == MaxInits \in Nat /\ Len(Modules) \in Nat

VARIABLE load    \* the buffer manager of each process, as far as it is loaded

\* backend and priv: bufmgr->backend and its priv are not NULL.
Unloaded ==
    [pc |-> "down", inits |-> 0, fd |-> NoFd, at |-> 0, open |-> {},
     backend |-> FALSE, priv |-> FALSE, closed |-> FALSE]

LoaderInit == load = [p \in Process |-> Unloaded]

\* The descriptors that the module in init has taken are its own to close.
Settled(p) == held[p]["backend"] = {}

\* tbm_bufmgr_init of a process without a manager.  The argument is kept.
BufmgrInit(p, fd) ==
    /\ load[p].pc = "down" /\ load[p].inits < MaxInits
    /\ fd \in {NoFd} \cup {h.fd : h \in held[p]["app"]}
    /\ load' = [load EXCEPT ![p] =
                  [Unloaded EXCEPT !.pc = "try", !.inits = load[p].inits + 1,
                                   !.fd = fd, !.at = 1, !.open = load[p].open,
                                   !.closed = load[p].closed]]
    /\ UNCHANGED fdsVars

\* The next module, or NULL for want of one.
TryNext(r) ==
    IF r.at = Len(Modules)
    THEN [Unloaded EXCEPT !.inits = r.inits, !.open = r.open, !.closed = r.closed]
    ELSE [r EXCEPT !.at = @ + 1, !.pc = "try"]

\* dlclose
DlClose(r) == [r EXCEPT !.open = @ \ {r.at}]

DlOpen(p) ==
    /\ load[p].pc = "try"
    /\ load' = [load EXCEPT ![p].pc = "open", ![p].open = @ \cup {load[p].at}]
    /\ UNCHANGED fdsVars

DlOpenFails(p) ==
    /\ load[p].pc = "try"
    /\ load' = [load EXCEPT ![p] = TryNext(@)]
    /\ UNCHANGED fdsVars

\* The module has no data, no version, no init function or the wrong version:
\* dlclose.
ModuleRejected(p) ==
    /\ load[p].pc = "open"
    /\ load' = [load EXCEPT ![p] = TryNext(DlClose(@))]
    /\ UNCHANGED fdsVars

\* The module's init function is called.
ModuleInit(p) ==
    /\ load[p].pc = "open"
    /\ load' = [load EXCEPT ![p].pc = "init"]
    /\ UNCHANGED fdsVars

\* tbm_backend_init, from the module's init function.
BackendInit(p, priv) ==
    /\ load[p].pc = "init"
    /\ load' = [load EXCEPT ![p].backend = TRUE, ![p].priv = priv]
    /\ UNCHANGED fdsVars

\* Mutant: a module whose init function fails stays open.
ModuleInitFailsOpen(p) ==
    /\ load[p].pc = "init" /\ Settled(p)
    /\ load' = [load EXCEPT ![p] = TryNext(@)]
    /\ UNCHANGED fdsVars

\* The init function returns 0: dlclose.  bufmgr->backend stays as it is.
ModuleInitFails(p) ==
    /\ load[p].pc = "init" /\ Settled(p)
    /\ load' = [load EXCEPT ![p] = TryNext(DlClose(@))]
    /\ UNCHANGED fdsVars

\* It returns 1 and, with a backend and its priv, the module is the one, also if
\* the backend is that of a module before it.
ModuleInitReturns(p) ==
    /\ load[p].pc = "init"
    /\ IF load[p].backend /\ load[p].priv
       THEN load' = [load EXCEPT ![p].pc = "up"]
       ELSE /\ Settled(p)
            /\ load' = [load EXCEPT ![p] = TryNext(DlClose(@))]
    /\ UNCHANGED fdsVars

\* The last tbm_bufmgr_deinit: the backend closes what it has, the module is
\* closed, and with it the descriptor that tbm_bufmgr_init got, if it is not 0.
BufmgrDeinit(p) ==
    /\ load[p].pc = "up" /\ Settled(p)
    /\ load' = [load EXCEPT ![p] =
                  [Unloaded EXCEPT !.inits = load[p].inits,
                                   !.open = load[p].open \ {load[p].at},
                                   !.closed = load[p].closed \/ load[p].fd > 0]]
    /\ fds' = [fds EXCEPT ![p] = IF load[p].fd > 0 THEN Closed(p, load[p].fd) ELSE @]
    /\ UNCHANGED <<held, env>>
-----------------------------------------------------------------------------
\* A manager has one module open, the one that was tried last, and without a
\* manager none is: each module that was opened and failed on one of the ways
\* out of _tbm_bufmgr_load_module was closed there, for nothing closes it later.
OneModule ==
    \A p \in Process :
        /\ load[p].pc = "up" => load[p].open = {load[p].at}
        /\ load[p].pc = "down" => load[p].open = {}
=============================================================================
