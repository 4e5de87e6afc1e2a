-------------------------------- MODULE Sync --------------------------------
(***************************************************************************)
(* tbm_sync.c: timelines and fences as files of a process, and the wait    *)
(* for a fence, which takes up the ioctl again whenever a signal ends it.  *)
(*                                                                         *)
(* The kernel's side is external: a fence is a set of points, a point a    *)
(* timeline and a value, and it is signalled once the timelines have       *)
(* reached the values.  Time is counted in ticks.                          *)
(***************************************************************************)
EXTENDS Fds

CONSTANTS
    Timeline,      \* identities of timelines
    MaxValue,      \* bound on the value of a timeline
    Timeout,       \* timeouts of fence_wait in ticks; negative for no end
    MaxInterrupt   \* bound on the signals that reach one wait

ASSUME SyncAssumption ==
    /\ MaxValue \in Nat /\ MaxInterrupt \in Nat
    /\ Timeout \subseteq Int

VARIABLES
    value,     \* the value of each timeline
    wait       \* the call of fence_wait in each process

syncVars == <<value, wait>>

NoWait == [pc |-> "none"]

SyncInit ==
    /\ value = [i \in Timeline |-> 0]
    /\ wait = [p \in Process |-> NoWait]

Is(p, n, kind) == n \in Num /\ fds[p][n].kind = kind

\* The application opens a file of its own.
OpenAs(p, file) ==
    LET n == Lowest(fds[p])
    IN  /\ n # NoFd
        /\ fds' = [fds EXCEPT ![p] = Opened(p, n, file)]
        /\ Hold(p, "app", n, file.kind)
        /\ UNCHANGED env

\* tbm_sync_timeline_create.  An open that fails gives -1 and no change.
TimelineCreate(p, i) ==
    /\ value[i] = 0
    /\ \A q \in Process, n \in Num : fds[q][n] # [kind |-> "timeline", id |-> i]
    /\ OpenAs(p, [kind |-> "timeline", id |-> i])
    /\ UNCHANGED syncVars

\* tbm_sync_timeline_inc: the ioctl fails on any file that is no timeline.
TimelineInc(p, h, count) ==
    /\ h \in held[p]["app"] /\ Is(p, h.fd, "timeline")
    /\ value[fds[p][h.fd].id] + count <= MaxValue
    /\ value' = [value EXCEPT ![fds[p][h.fd].id] = @ + count]
    /\ UNCHANGED <<fdsVars, wait>>

\* tbm_sync_fence_create
FenceCreate(p, h, v) ==
    /\ h \in held[p]["app"] /\ Is(p, h.fd, "timeline")
    /\ OpenAs(p, [kind |-> "fence", pts |-> {<<fds[p][h.fd].id, v>>}])
    /\ UNCHANGED syncVars

\* tbm_sync_fence_merge
FenceMerge(p, h1, h2) ==
    /\ h1 \in held[p]["app"] /\ Is(p, h1.fd, "fence")
    /\ h2 \in held[p]["app"] /\ Is(p, h2.fd, "fence")
    /\ OpenAs(p, [kind |-> "fence",
                  pts |-> fds[p][h1.fd].pts \cup fds[p][h2.fd].pts])
    /\ UNCHANGED syncVars

Signalled(pts) == \A pt \in pts : value[pt[1]] >= pt[2]
-----------------------------------------------------------------------------
\* tbm_sync_fence_wait: the first ioctl.
FenceWait(p, h, timeout) ==
    /\ wait[p].pc # "ioctl"
    /\ h \in held[p]["app"] /\ Is(p, h.fd, "fence")
    /\ wait' = [wait EXCEPT ![p] =
                  [pc |-> "ioctl", fd |-> h.fd, pts |-> fds[p][h.fd].pts,
                   timeout |-> timeout, left |-> timeout,
                   ticks |-> 0, interrupts |-> 0]]
    /\ UNCHANGED <<fdsVars, value>>

Return(p, ret) ==
    wait' = [wait EXCEPT ![p] =
               [pc |-> "returned", ret |-> ret, pts |-> @.pts,
                timeout |-> @.timeout, ticks |-> @.ticks,
                interrupts |-> @.interrupts]]

\* The ioctl succeeds: 1.
WaitDone(p) ==
    /\ wait[p].pc = "ioctl" /\ Signalled(wait[p].pts)
    /\ Return(p, 1)
    /\ UNCHANGED <<fdsVars, value>>

\* Mutant: the loop goes on after every failed ioctl, not only after EINTR.
WaitTimeoutRetries(p) ==
    /\ wait[p].pc = "ioctl" /\ wait[p].left = 0 /\ ~Signalled(wait[p].pts)
    /\ wait' = [wait EXCEPT ![p].left = wait[p].timeout, ![p].ticks = 0]
    /\ UNCHANGED <<fdsVars, value>>

\* The ioctl ends with ETIME: -1.
WaitTimeout(p) ==
    /\ wait[p].pc = "ioctl" /\ wait[p].left = 0 /\ ~Signalled(wait[p].pts)
    /\ Return(p, -1)
    /\ UNCHANGED <<fdsVars, value>>

\* The timeline of a point is gone: the ioctl fails, 0.
WaitFails(p) ==
    /\ wait[p].pc = "ioctl"
    /\ \E pt \in wait[p].pts :
         /\ value[pt[1]] < pt[2]
         /\ \A q \in Process, n \in Num :
              fds[q][n] # [kind |-> "timeline", id |-> pt[1]]
    /\ Return(p, 0)
    /\ UNCHANGED <<fdsVars, value>>

\* Mutant: EINTR is taken for a timeout.
WaitInterruptedEnds(p) ==
    /\ wait[p].pc = "ioctl" /\ ~Signalled(wait[p].pts)
    /\ wait[p].interrupts < MaxInterrupt
    /\ Return(p, -1)
    /\ UNCHANGED <<fdsVars, value>>

\* A signal ends it with EINTR: again, with the whole timeout, on the file that
\* now has the number; on a file that is no fence the ioctl fails: 0.
WaitInterrupted(p) ==
    /\ wait[p].pc = "ioctl" /\ ~Signalled(wait[p].pts)
    /\ wait[p].interrupts < MaxInterrupt
    /\ IF Is(p, wait[p].fd, "fence")
       THEN wait' = [wait EXCEPT ![p].left = wait[p].timeout,
                                 ![p].interrupts = @ + 1,
                                 ![p].pts = fds[p][wait[p].fd].pts]
       ELSE Return(p, 0)
    /\ UNCHANGED <<fdsVars, value>>

\* Time passes for a wait that has an end.
Tick(p) ==
    /\ wait[p].pc = "ioctl" /\ wait[p].left > 0
    /\ wait' = [wait EXCEPT ![p].left = @ - 1, ![p].ticks = @ + 1]
    /\ UNCHANGED <<fdsVars, value>>
-----------------------------------------------------------------------------
\* What fence_wait returns: 1 only for a fence that is signalled, and still is;
\* -1 only after a whole timeout with no signal of the fence, and at most one
\* more for every interrupt, because each retry starts the timeout again.
WaitAnswers ==
    \A p \in Process : wait[p].pc = "returned" =>
        /\ wait[p].ret = 1 => Signalled(wait[p].pts)
        /\ wait[p].ret = -1 =>
              /\ wait[p].timeout >= 0
              /\ wait[p].ticks \in wait[p].timeout ..
                                     wait[p].timeout * (wait[p].interrupts + 1)
=============================================================================
