---------------------------- MODULE XcorrProduct ----------------------------
(***************************************************************************)
(* The source of the cross-correlation workflow as dispel4py runs it: the  *)
(* processing element Product of realtime_xcorr_mod.py.  Repetition after  *)
(* repetition and hour after hour it reads the files of the hour, and      *)
(* pairs each with all the files read before it.  What it writes is the    *)
(* reference for the GrPPI port of the workflow.                           *)
(***************************************************************************)
EXTENDS Naturals, Sequences, SequencesExt

\* An array is told apart by the file it is read from.
Array(hour, f) == <<hour, f>>

\* What the rest of the workflow is given: two files' indices and arrays.
Pair(hour, i, j) == [first |-> i, array1 |-> Array(hour, i),
                     second |-> j, array2 |-> Array(hour, j), hour |-> hour]

\* An hour whose directory holds n files: every file with the files before it.
HourOutput(hour, n) ==
  FlattenSeq([k \in 1 .. n |-> [i \in 1 .. k - 1 |-> Pair(hour, i - 1, k - 1)]])

\* num_rep times the hours 0 .. lapse - 1, where hour h has files[h] files.
ProductOutput(num_rep, lapse, files) ==
  FlattenSeq([a \in 1 .. num_rep |->
    FlattenSeq([h \in 1 .. lapse |-> HourOutput(h - 1, files[h - 1])])])

=============================================================================
