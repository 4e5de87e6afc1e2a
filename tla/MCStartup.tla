----------------------------- MODULE MCStartup ------------------------------
(* One process of a display server that is the client of another, for TLC. *)
EXTENDS Startup

CONSTANT c1

OneProcess == {c1}
Users == {"app", "backend"}
TwoModules == <<"libtbm_default.so", "libtbm_other.so">>
Setters == {<<c1, "backend", "TBM_DRM_FD">>, <<c1, "app", "TDM_DRM_MASTER_FD">>}
Getters == {<<c1, "app", "TBM_DRM_FD">>, <<c1, "backend", "TDM_DRM_MASTER_FD">>}
Timelines == {"t"}
Timeouts == {-1, 1}

\* A backend that loads and asks for its descriptor, a backend that passes it
\* on, and an application with fences that gives a descriptor to the manager.
Processes == {{"auth", "load"}, {"auth", "env"}, {"load", "sync"}}
=============================================================================
