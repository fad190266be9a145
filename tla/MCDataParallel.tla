---------------------------- MODULE MCDataParallel ----------------------------
(***************************************************************************)
(* Instances of DataParallel for TLC.                                      *)
(***************************************************************************)
EXTENDS DataParallel

\* Inputs that are empty, shorter than the degree, a multiple of it and not.
SmallSizes == 0 .. 7
SmallDegrees == 1 .. 4

=============================================================================
