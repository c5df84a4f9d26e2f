-------------------------- MODULE MCClientLifecycle --------------------------
(* ClientLifecycle with a few goroutines of each kind.  Its properties include *)
(* liveness, so goroutines of one kind are not identified by symmetry.          *)
EXTENDS ClientLifecycle

==============================================================================
