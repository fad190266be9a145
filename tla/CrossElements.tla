---------------------------- MODULE CrossElements ----------------------------
(***************************************************************************)
(* get_cross_elements of use_cases/tc_cross_correlation/main.cpp: the      *)
(* generator of the GrPPI port of the cross-correlation workflow.  Each    *)
(* call returns one pair of files of an hour, or an empty optional that    *)
(* ends the stream; between calls it lives in static variables, named here *)
(* as in the code.  The pipeline calls it from one thread until it returns *)
(* the empty optional.                                                     *)
(***************************************************************************)
EXTENDS XcorrProduct

CONSTANTS Lapses,      \* numbers of hours between the start and the end
          Reps,        \* numbers of repetitions of the list of hours
          FileCounts   \* how many files an hour's directory may hold

ASSUME CountsAssumption ==
  Lapses \subseteq Nat /\ Reps \subseteq Nat /\ FileCounts \subseteq Nat

VARIABLES
  conf,            \* lapse, num_rep and files[h], the number of files of hour h
  num_done_hours,  \* how many elements of hours_list have been opened
  change_time,     \* the next call opens the next hour
  list_init,       \* list_init[f]: the array of file f, once it is loaded
  list_cross,      \* the pairs of files of the hour
  count,           \* how many of them have been returned
  starttime,       \* the hour
  returned,        \* history: the items returned so far, in order
  status           \* "running", or how the stream ended: "end" or "error"

vars == <<conf, num_done_hours, change_time, list_init, list_cross, count,
          starttime, returned, status>>

Null == <<>>

\* main: the hours from the start to the end, num_rep times over.
hours_list == [k \in 1 .. conf.num_rep * conf.lapse |-> (k - 1) % conf.lapse]

\* The pairs of n files, in the order in which they are to be returned.
CrossList(n) == FlattenSeq([i \in 1 .. n |-> [j \in 1 .. i - 1 |-> <<j - 1, i - 1>>]])

-----------------------------------------------------------------------------

Init == /\ \E lapse \in Lapses, num_rep \in Reps :
             conf \in [lapse : {lapse}, num_rep : {num_rep},
                       files : [0 .. lapse - 1 -> FileCounts]]
        /\ num_done_hours = 0
        /\ change_time = TRUE
        /\ list_init = <<>> /\ list_cross = <<>>
        /\ count = 0
        /\ starttime = 0
        /\ returned = <<>>
        /\ status = "running"

\* The static variables of a call past its first block: as they were.
Current == [init |-> list_init, cross |-> list_cross, count |-> count,
            hour |-> starttime, done |-> num_done_hours]

\* Faulty variant: the arrays of the hour before are kept.
OpenedKeepingArrays ==
  LET hour == hours_list[num_done_hours + 1]
      n == conf.files[hour]
  IN [init |-> [f \in 0 .. n - 1 |->
                  IF f \in DOMAIN list_init THEN list_init[f]
                  ELSE IF f = 0 THEN Array(hour, 0) ELSE Null],
      cross |-> CrossList(n), count |-> 0, hour |-> hour,
      done |-> num_done_hours + 1]

\* The next hour, whose first file is loaded.
Opened ==
  LET hour == hours_list[num_done_hours + 1]
      n == conf.files[hour]
  IN [init |-> [f \in 0 .. n - 1 |-> IF f = 0 THEN Array(hour, 0) ELSE Null],
      cross |-> CrossList(n), count |-> 0, hour |-> hour,
      done |-> num_done_hours + 1]

\* Faulty variant: the second file of a pair is loaded at its last pair.
LoadedLate(s, p) == IF p[1] + 1 = p[2] THEN [s.init EXCEPT ![p[2]] = Array(s.hour, p[2])]
                    ELSE s.init

\* The second file of a pair is loaded at its pair with the first file.
Loaded(s, p) == IF p[1] = 0 THEN [s.init EXCEPT ![p[2]] = Array(s.hour, p[2])]
                ELSE s.init

\* Faulty variant: the hour changes one pair too early.
ReturnPairShort(s) ==
  LET p == s.cross[s.count + 1]
      arrays == Loaded(s, p)
  IN /\ s.count < Len(s.cross)
     /\ list_init' = arrays
     /\ count' = s.count + 1
     /\ change_time' = (s.count + 2 >= Len(s.cross))
     /\ returned' = Append(returned,
          [first |-> p[1], array1 |-> arrays[p[1]],
           second |-> p[2], array2 |-> arrays[p[2]], hour |-> s.hour])
     /\ UNCHANGED status

\* The next pair of the hour is returned.
ReturnPair(s) ==
  LET p == s.cross[s.count + 1]
      arrays == Loaded(s, p)
  IN /\ s.count < Len(s.cross)
     /\ list_init' = arrays
     /\ count' = s.count + 1
     /\ change_time' = (s.count + 1 = Len(s.cross))
     /\ returned' = Append(returned,
          [first |-> p[1], array1 |-> arrays[p[1]],
           second |-> p[2], array2 |-> arrays[p[2]], hour |-> s.hour])
     /\ UNCHANGED status

\* The hour has no pair to return: the call reports an error and ends the stream.
ReturnError(s) ==
  /\ s.count >= Len(s.cross)
  /\ list_init' = s.init
  /\ count' = s.count
  /\ change_time' = FALSE
  /\ status' = "error"
  /\ UNCHANGED returned

Call(s) == /\ ReturnPair(s) \/ ReturnError(s)
           /\ num_done_hours' = s.done
           /\ list_cross' = s.cross
           /\ starttime' = s.hour
           /\ UNCHANGED conf

\* A call in the middle of an hour.
CallSameHour == status = "running" /\ ~change_time /\ Call(Current)

\* A call that opens an hour.
CallNextHour == /\ status = "running" /\ change_time
                /\ num_done_hours < Len(hours_list)
                /\ Call(Opened)

\* A call after the last pair of the last hour.
CallEnd == /\ status = "running" /\ change_time
           /\ num_done_hours = Len(hours_list)
           /\ status' = "end"
           /\ UNCHANGED <<conf, num_done_hours, change_time, list_init, list_cross,
                          count, starttime, returned>>

\* The generator is not called again.
Ended == status # "running" /\ UNCHANGED vars

Next == CallSameHour \/ CallNextHour \/ CallEnd \/ Ended

Spec == Init /\ [][Next]_vars

-----------------------------------------------------------------------------
(* Type invariant. *)

\* The positions in the lists stay within them.
TypeOK ==
  /\ conf.lapse \in Lapses /\ conf.num_rep \in Reps
  /\ conf.files \in [0 .. conf.lapse - 1 -> FileCounts]
  /\ num_done_hours \in 0 .. Len(hours_list)
  /\ count \in 0 .. Len(list_cross)
  /\ change_time \in BOOLEAN
  /\ starttime \in 0 .. conf.lapse
  /\ \A f \in DOMAIN list_init : list_init[f] \in {Null, Array(starttime, f)}
  /\ status \in {"running", "end", "error"}

(* The parts of the inductive invariant. *)

\* What Product writes for the first k hours of the list.
OutputOfHours(k) ==
  FlattenSeq([m \in 1 .. k |-> HourOutput(hours_list[m], conf.files[hours_list[m]])])

\* In an hour the lists are those of the hour that has been opened last; another
\* pair of it is left, unless there has been none.
InHour ==
  ~change_time =>
    /\ num_done_hours > 0
    /\ starttime = hours_list[num_done_hours]
    /\ list_cross = CrossList(conf.files[starttime])
    /\ DOMAIN list_init = 0 .. conf.files[starttime] - 1
    /\ status = "running" => count < Len(list_cross)

\* In an hour the first file is loaded, and the second file of every pair that has
\* been returned.
LoadedSoFar ==
  ~change_time =>
    \A f \in DOMAIN list_init :
      (f = 0 \/ \E m \in 1 .. count : list_cross[m][2] = f)
        => list_init[f] = Array(starttime, f)

\* What has been returned: all that Product writes for the hours before, and of
\* the hour that is open the first count items.
ReturnedSoFar ==
  returned = IF change_time THEN OutputOfHours(num_done_hours)
             ELSE OutputOfHours(num_done_hours - 1)
                    \o SubSeq(HourOutput(starttime, conf.files[starttime]), 1, count)

\* The stream ends after the last hour of the list.
EndsAfterLast ==
  status = "end" => change_time /\ num_done_hours = Len(hours_list)

IInv == TypeOK /\ InHour /\ LoadedSoFar /\ ReturnedSoFar /\ EndsAfterLast

-----------------------------------------------------------------------------
(* Properties. *)

Reference == ProductOutput(conf.num_rep, conf.lapse, conf.files)

\* The stream is, item for item, a prefix of what Product writes: every pair once
\* and in order, with the arrays of its own hour, loaded before they are used.
PrefixOfProduct == IsPrefix(returned, Reference)

\* A stream that ends as it should is the whole of what Product writes.
EndsComplete == status = "end" => returned = Reference

\* The branch whose message is "this should never happen" is not taken.
NeverError == status # "error"

=============================================================================
