-------------------------- MODULE MCLockedMpmcQueue --------------------------
(***************************************************************************)
(* Instance of LockedMpmcQueue for TLC: three threads on two slots, each   *)
(* with up to two pushes and one pop: two calls can sleep on one           *)
(* condition variable while a third overtakes the one it has woken.        *)
(***************************************************************************)
EXTENDS LockedMpmcQueue

CONSTANTS t1, t2, t3

=============================================================================
