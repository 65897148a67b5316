---------------------------- MODULE MCExecutorLoop ----------------------------
(* Small limits for ExecutorLoop. *)
EXTENDS ExecutorLoop

SmallLimits ==
  [calls |-> 4, read |-> 2, mutation |-> 2, validation |-> 1, turns |-> 3,
   request |-> 4, total |-> 9, carryover |-> 2, retained |-> 1,
   noProgressCalls |-> 2, noProgressTurns |-> 2]

Job(mode, again, repair, held) ==
  [mode |-> mode, again |-> again, repair |-> repair, held |-> held]

\* First attempts in each mode, a second one, and repairs that hold changed files or not.
SomeJobs ==
  {Job("implementation", FALSE, FALSE, FALSE), Job("implementation", TRUE, FALSE, FALSE),
   Job("unset", FALSE, FALSE, FALSE), Job("read_only", FALSE, FALSE, FALSE),
   Job("read_only", FALSE, TRUE, FALSE), Job("unset", FALSE, TRUE, TRUE)}

SomeTools == [open |-> "read_file", list |-> "list_directory", write |-> "write_file"]
=============================================================================
