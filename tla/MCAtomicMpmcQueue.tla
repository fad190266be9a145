-------------------------- MODULE MCAtomicMpmcQueue --------------------------
(***************************************************************************)
(* Instance of AtomicMpmcQueue for TLC: three threads that may each push   *)
(* and pop, on a ring of two slots, so that tickets wrap around the ring   *)
(* and every pair of calls can meet at the same slot.                      *)
(***************************************************************************)
EXTENDS AtomicMpmcQueue

CONSTANTS t1, t2, t3

=============================================================================
