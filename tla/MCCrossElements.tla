--------------------------- MODULE MCCrossElements ---------------------------
(***************************************************************************)
(* Instances of CrossElements for TLC: every list of up to three hours,    *)
(* once and twice over.                                                    *)
(***************************************************************************)
EXTENDS CrossElements

UpToThreeHours == 0 .. 3
OnceOrTwice == {1, 2}

\* Hours that have pairs of files, and hours that have none.
UpToFourFiles == 0 .. 4

=============================================================================
