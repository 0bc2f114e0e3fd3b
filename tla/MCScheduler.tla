---------------------------- MODULE MCScheduler ----------------------------
(* Scheduler with four known points, one of them without the second count, and
   a server that begins within their range. *)
EXTENDS Scheduler

Point(date, total, verified) == [date |-> date, total |-> total, verified |-> verified]
MCData == {Point(1, 3, NULL), Point(2, 9, 1), Point(4, 14, NULL), Point(6, 15, 8)}
MCCounts == {Snapshot(20, 9), Snapshot(21, 0)}
============================================================================
