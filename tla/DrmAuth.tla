------------------------------ MODULE DrmAuth -------------------------------
(***************************************************************************)
(* tbm_drm_helper_server.c and tbm_drm_helper_client.c: how a client gets  *)
(* an authenticated DRM descriptor from the display server over the        *)
(* wayland socket "tbm-drm-auth".                                          *)
(*                                                                         *)
(* libwayland is external.  Requests and events of a connection arrive in  *)
(* order; wl_display_roundtrip dispatches events until its own "done" and  *)
(* fails on "error", which also stands for a connection that is cut.  A    *)
(* descriptor in an event is a file of nobody until it is received.        *)
(***************************************************************************)
EXTENDS Fds, Sequences, SequencesExt

CONSTANTS
    Client,     \* the processes that ask
    MaxCalls    \* bound on the calls of get_auth_info of each

ASSUME DrmAuthAssumption == Client \subseteq Process /\ MaxCalls \in Nat

VARIABLES
    srv,        \* tbm_drm_auth_srv is not NULL
    socket,     \* the display has the socket: nothing ever takes it away
    resource,   \* the clients that are bound to the global
    requests,   \* what the server has not handled of each client
    events,     \* what each client has not dispatched
    auth        \* the call of get_auth_info of each client

authVars == <<srv, socket, resource, requests, events, auth>>

NotCalling == [pc |-> "none", calls |-> 0, cut |-> FALSE]

AuthInit ==
    /\ srv = FALSE
    /\ socket = FALSE
    /\ resource = {}
    /\ requests = [c \in Client |-> << >>]
    /\ events = [c \in Client |-> << >>]
    /\ auth = [c \in Client |-> NotCalling]

Connected(c) == auth[c].pc \in {"globals", "info"}
Send(c, evs) == events' = [events EXCEPT ![c] = @ \o evs]
Ask(c, reqs) == requests' = [requests EXCEPT ![c] = @ \o reqs]
Error == [ev |-> "error"]

\* An error is the last thing that happens on a connection.
Fail(c) ==
    /\ Send(c, <<Error>>)
    /\ requests' = [requests EXCEPT ![c] = << >>]

\* The client dispatches its oldest event.
Arrives(c, ev) == events[c] # << >> /\ Head(events[c]).ev = ev
Drop(c) == events' = [events EXCEPT ![c] = Tail(@)]
-----------------------------------------------------------------------------
(* The display server.                                                     *)

\* tbm_drm_helper_wl_auth_server_init: once the display has the socket, adding
\* it fails, also after a deinit, and the new structure is freed again.
ServerInit ==
    /\ ~srv /\ ~socket
    /\ srv' = TRUE /\ socket' = TRUE
    /\ UNCHANGED <<fdsVars, resource, requests, events, auth>>

\* tbm_drm_helper_wl_auth_server_deinit: every registry hears of it, and the
\* resources keep a pointer to the freed structure.
ServerDeinit ==
    /\ srv
    /\ srv' = FALSE
    /\ events' = [c \in Client |->
                    IF /\ Connected(c) /\ "registry" \notin Range(requests[c])
                       /\ Error \notin Range(events[c])
                    THEN Append(events[c], [ev |-> "global_remove"])
                    ELSE events[c]]
    /\ UNCHANGED <<fdsVars, socket, resource, requests, auth>>

\* What drmAuthMagic is called with: the magic of the descriptor, or 0 when
\* drmGetMagic has failed with EACCES, which is tolerated.
Magic == {"magic", "zero"}

\* Mutant: a failed drmAuthMagic is only logged.
SendServerAuthInfoAnyway(c) ==
    \/ Fail(c)
    \/ \E auth_by \in Magic \cup {"refused"} :
         /\ Send(c, <<[ev |-> "info", auth |-> auth_by]>>)
         /\ requests' = [requests EXCEPT ![c] = Tail(@)]

\* _send_server_auth_info: open, drmGetMagic or drmAuthMagic fails and an error
\* is posted, or drmAuthMagic took the magic and the descriptor is sent.  The
\* server's own is closed on every way out.
SendServerAuthInfo(c) ==
    \/ Fail(c)
    \/ \E auth_by \in Magic :
         /\ Send(c, <<[ev |-> "info", auth |-> auth_by]>>)
         /\ requests' = [requests EXCEPT ![c] = Tail(@)]

\* The server handles the oldest request of c.  After a deinit the resource
\* points to a freed structure: what is left of it answers as before, or open
\* fails, or the server crashes (Cut).
ServerHandle(c) ==
    /\ requests[c] # << >>
    /\ \/ /\ Head(requests[c]) \in {"registry", "sync"}
          /\ Send(c, CASE Head(requests[c]) = "sync" -> <<[ev |-> "done"]>>
                       [] srv                        -> <<[ev |-> "global"]>>
                       [] OTHER                      -> << >>)
          /\ requests' = [requests EXCEPT ![c] = Tail(@)]
          /\ UNCHANGED resource
       \/ /\ Head(requests[c]) = "bind" /\ srv
          /\ resource' = resource \cup {c}
          /\ requests' = [requests EXCEPT ![c] = Tail(@)]
          /\ UNCHANGED events
       \/ /\ Head(requests[c]) = "bind"   \* the global is gone, or no memory
          /\ Fail(c) /\ UNCHANGED resource
       \/ /\ Head(requests[c]) = "get"
          /\ SendServerAuthInfo(c) /\ UNCHANGED resource
    /\ UNCHANGED <<fdsVars, srv, socket, auth>>

\* The server closes the connection, or dies.
Cut(c) ==
    /\ Connected(c) /\ Error \notin Range(events[c])
    /\ Fail(c)
    /\ UNCHANGED <<fdsVars, srv, socket, resource, auth>>
-----------------------------------------------------------------------------
(* tbm_drm_helper_get_auth_info.                                           *)

\* The client leaves: it destroys what it has of the connection and returns.
Leave(c, ret, cut) ==
    /\ auth' = [auth EXCEPT ![c] = [pc |-> "none", calls |-> @.calls, ret |-> ret,
                                    cut |-> @.cut \/ cut]]
    /\ events' = [events EXCEPT ![c] = << >>]
    /\ requests' = [requests EXCEPT ![c] = << >>]
    /\ resource' = resource \ {c}

\* The call up to the first roundtrip, made by user u, who wants the descriptor
\* or passes NULL for it.  Without the socket, or without memory, it returns 0.
GetAuthInfo(c, u, want) ==
    /\ auth[c].pc = "none" /\ auth[c].calls < MaxCalls /\ socket
    /\ auth' = [auth EXCEPT ![c] =
                  [pc |-> "globals", calls |-> @.calls + 1, cut |-> @.cut,
                   user |-> u, want |-> want, wl_auth |-> FALSE,
                   auth_fd |-> NoFd]]
    /\ Ask(c, <<"registry", "sync">>)
    /\ UNCHANGED <<fdsVars, srv, socket, resource, events>>

\* _wayland_tbm_drm_auth_client_registry_handle_global: bind, which can fail.
HandleGlobal(c) ==
    /\ Arrives(c, "global")
    /\ Drop(c)
    /\ \/ /\ auth' = [auth EXCEPT ![c].wl_auth = TRUE]
          /\ Ask(c, <<"bind">>)
       \/ UNCHANGED <<auth, requests>>
    /\ UNCHANGED <<fdsVars, srv, socket, resource>>

\* The first roundtrip is over: without the global it is all for nothing.
GlobalsDone(c) ==
    /\ auth[c].pc = "globals" /\ Arrives(c, "done")
    /\ IF auth[c].wl_auth
       THEN /\ auth' = [auth EXCEPT ![c].pc = "info"]
            /\ Ask(c, <<"get", "sync">>)
            /\ Drop(c) /\ UNCHANGED resource
       ELSE Leave(c, 0, FALSE)
    /\ UNCHANGED <<fdsVars, srv, socket>>

\* handle_tbm_drm_authentication_info.  With no number left the descriptor
\* cannot be received and the connection fails.
HandleAuthenticationInfo(c) ==
    LET n == Lowest(fds[c])
    IN  /\ Arrives(c, "info")
        /\ IF n = NoFd
           THEN /\ Leave(c, 0, FALSE)
                /\ UNCHANGED fdsVars
           ELSE /\ fds' = [fds EXCEPT ![c] =
                             Opened(c, n, [kind |-> "drm",
                                           auth |-> Head(events[c]).auth])]
                /\ auth' = [auth EXCEPT ![c].auth_fd = n]
                /\ Drop(c)
                /\ UNCHANGED <<held, env, requests, resource>>
        /\ UNCHANGED <<srv, socket>>

\* The second roundtrip is over: the caller gets the descriptor or, if it
\* passed NULL for it, nobody does.
InfoDone(c) ==
    /\ auth[c].pc = "info" /\ Arrives(c, "done")
    /\ IF auth[c].auth_fd = NoFd
       THEN UNCHANGED <<fds, held>> /\ Leave(c, 0, FALSE)
       ELSE /\ IF auth[c].want
               THEN /\ Hold(c, auth[c].user, auth[c].auth_fd, "drm")
                    /\ UNCHANGED fds
               ELSE /\ fds' = [fds EXCEPT ![c] = Closed(c, auth[c].auth_fd)]
                    /\ UNCHANGED held
            /\ Leave(c, 1, FALSE)
    /\ UNCHANGED <<env, srv, socket>>

\* A roundtrip fails: the structure is freed, not the descriptor in it.
RoundtripFails(c) ==
    /\ Arrives(c, "error")
    /\ Leave(c, 0, auth[c].auth_fd # NoFd)
    /\ UNCHANGED <<fdsVars, srv, socket>>

\* registry_listener has no function for global_remove: libwayland aborts the
\* process.
GlobalRemoved(c) ==
    /\ Arrives(c, "global_remove")
    /\ auth' = [auth EXCEPT ![c] = [pc |-> "aborted", calls |-> @.calls,
                                    cut |-> FALSE]]
    /\ fds' = [fds EXCEPT ![c] = [n \in Num |-> Free]]
    /\ held' = [held EXCEPT ![c] = [u \in User |-> {}]]
    /\ env' = [env EXCEPT ![c] = [v \in EnvVar |-> NoFd]]
    /\ events' = [events EXCEPT ![c] = << >>]
    /\ requests' = [requests EXCEPT ![c] = << >>]
    /\ resource' = resource \ {c}
    /\ UNCHANGED <<srv, socket>>

=============================================================================
