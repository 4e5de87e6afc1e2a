------------------------------ MODULE Startup -------------------------------
(***************************************************************************)
(* A process that uses libtbm from tbm_bufmgr_init to the end: the loader, *)
(* the DRM helpers that a backend's init function calls, and timelines and *)
(* fences, all on one table of descriptors.                                *)
(***************************************************************************)
EXTENDS DrmAuth, Loader, Sync

CONSTANT Uses    \* what a process makes use of: sets of parts

ASSUME StartupAssumption == Uses \subseteq SUBSET {"auth", "load", "env", "sync"}

VARIABLE uses    \* what this run of the processes makes use of

startupVars == <<fdsVars, authVars, load, syncVars, uses>>

StartupInit == FdsInit /\ AuthInit /\ LoaderInit /\ SyncInit /\ uses \in Uses

Alive(p) == p \notin Client \/ auth[p].pc # "aborted"

\* The process dies with everything in it.
Dies(c) ==
    /\ GlobalRemoved(c)
    /\ load' = [load EXCEPT ![c] = Unloaded]
    /\ wait' = [wait EXCEPT ![c] = NoWait]
    /\ UNCHANGED value

\* The backend asks for its descriptor while its init function runs (at any
\* time where the loader is left out), the application whenever it likes.
Asks(c) ==
    \E u \in User, want \in BOOLEAN :
        /\ u = "backend" => want /\ ("load" \in uses => load[c].pc = "init")
        /\ GetAuthInfo(c, u, want)

\* What wl_display_roundtrip of the client does with what has arrived.
Dispatches(c) ==
    \/ HandleGlobal(c)
    \/ GlobalsDone(c)
    \/ HandleAuthenticationInfo(c)
    \/ InfoDone(c)
    \/ RoundtripFails(c)

\* Nothing of the module ends while its call for the descriptor is not over.
BackendIdle(p) ==
    p \in Client => ~(Connected(p) /\ auth[p].user = "backend")

Loads(p) ==
    \/ \E fd \in Num \cup {NoFd} : BufmgrInit(p, fd)
    \/ DlOpen(p) \/ DlOpenFails(p) \/ ModuleRejected(p)
    \/ ModuleInit(p)
    \/ BackendIdle(p) /\ \E priv \in BOOLEAN : BackendInit(p, priv)
    \/ BackendIdle(p) /\ ModuleInitFails(p)
    \/ BackendIdle(p) /\ ModuleInitReturns(p)
    \/ BufmgrDeinit(p)

PassesOn(p) ==
    \/ \E u \in User, v \in EnvVar : \E h \in held[p][u] : SetFd(p, u, v, h)
    \/ \E v \in EnvVar : UnsetFd(p, v)
    \/ \E u \in User, v \in EnvVar : GetFd(p, u, v)

WaitStep(p) ==
    \/ WaitDone(p)
    \/ WaitTimeout(p)
    \/ WaitFails(p)
    \/ Tick(p)

Syncs(p) ==
    \/ \E i \in Timeline : TimelineCreate(p, i)
    \/ \E h \in held[p]["app"] :
         \/ \E count \in 1 .. MaxValue : TimelineInc(p, h, count)
         \/ \E v \in 1 .. MaxValue : FenceCreate(p, h, v)
         \/ \E h2 \in held[p]["app"] : FenceMerge(p, h, h2)
         \/ \E timeout \in Timeout : FenceWait(p, h, timeout)
    \/ WaitStep(p)
    \/ WaitInterrupted(p)

Auth(c) ==
    /\ "auth" \in uses
    /\ \/ ServerInit
       \/ ServerDeinit
       \/ Alive(c) /\ Asks(c)
       \/ ServerHandle(c)
       \/ Dispatches(c)
       \/ Cut(c)
    /\ UNCHANGED <<load, syncVars, uses>>

StartupNext ==
    \/ \E c \in Client : Auth(c)
    \/ \E c \in Client : Dies(c) /\ UNCHANGED uses
    \/ \E p \in Process :
         /\ Alive(p)
         /\ \/ "load" \in uses /\ Loads(p) /\ UNCHANGED <<authVars, syncVars, uses>>
            \/ "env" \in uses /\ PassesOn(p)
                 /\ UNCHANGED <<authVars, load, syncVars, uses>>
            \/ \E u \in User : \E h \in held[p][u] :
                 Close(p, u, h) /\ UNCHANGED <<authVars, load, syncVars, uses>>
            \/ "sync" \in uses /\ Syncs(p) /\ UNCHANGED <<authVars, load, uses>>

\* The client dispatches what has arrived; time passes, and the kernel ends an
\* ioctl whose reason to wait is over.  The server promises nothing.
Fairness ==
    /\ \A c \in Client :
         /\ WF_startupVars(Dispatches(c) /\ UNCHANGED <<load, syncVars, uses>>)
         /\ WF_startupVars(Dies(c) /\ UNCHANGED uses)
    /\ \A p \in Process : WF_startupVars(WaitStep(p) /\ Alive(p)
                                           /\ UNCHANGED <<authVars, load, uses>>)

StartupSpec == StartupInit /\ [][StartupNext]_startupVars /\ Fairness
-----------------------------------------------------------------------------
\* A number that a user got and has not closed is open and still is the file
\* that it got: through handshakes, duplicates, merged fences and numbers used
\* again.  No device is one that drmAuthMagic refused; one whose magic the server
\* may not read (EACCES) gets through if drmAuthMagic takes 0 for it.  Only the
\* descriptor that tbm_bufmgr_init was given, and tbm_bufmgr_deinit closes,
\* spoils it.
HeldIsRight ==
    \A p \in Process, u \in User : \A h \in held[p][u] :
        \/ load[p].closed
        \/ /\ fds[p][h.fd].kind = h.is
           /\ h.is = "drm" => fds[p][h.fd].auth \in Magic

\* Every DRM descriptor of a client belongs to one user, or to the call that
\* has received it, on all ways through two roundtrips.  Only a connection cut
\* between the answer and the end of the roundtrip leaves one to nobody.
FdsAccounted ==
    \A c \in Client :
        LET owners(n) ==
                {u \in User : \E h \in held[c][u] : h.fd = n}
                  \cup (IF Connected(c) /\ auth[c].auth_fd = n
                        THEN {"get_auth_info"} ELSE {})
        IN  ~auth[c].cut /\ ~load[c].closed =>
              \A n \in Num : fds[c][n].kind = "drm" => Cardinality(owners(n)) = 1

\* A call of get_auth_info returns, wherever the connection is cut and whatever
\* fails, unless the server leaves a request unanswered for ever (roundtrips have
\* no timeout) or was taken down under the call, which may abort the client.  A
\* wait for a fence that has a timeout returns when its signals come to an end.
CallsReturn ==
    /\ \A c \in Client :
         \/ <>[](requests[c] # << >>)
         \/ Connected(c) ~> \/ auth[c].pc = "none"
                            \/ auth[c].pc = "aborted" /\ ~srv
    /\ \A p \in Process :
         (wait[p].pc = "ioctl" /\ wait[p].timeout >= 0) ~> wait[p].pc # "ioctl"
=============================================================================
