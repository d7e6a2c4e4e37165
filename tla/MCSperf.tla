------------------------------ MODULE MCSperf ------------------------------
(***************************************************************************)
(* Four calls for a table of three: two take the same time, one takes no   *)
(* time at all; and a line that is not understood.                         *)
(***************************************************************************)
EXTENDS Sperf

FiveLines == {[call |-> 1, secs |-> 1], [call |-> 2, secs |-> 2], [call |-> 3, secs |-> 0],
              [call |-> 4, secs |-> 1], [call |-> 0, secs |-> 1]}
=============================================================================
