---------------------------- MODULE LocalCommand ----------------------------
(********************************************************************************)
(* LocalExecutionRuntime.run: a child process with a time limit, which an abort *)
(* stops.  Both send it a SIGTERM, and a SIGKILL after a grace of 250 ms.  The  *)
(* promise settles when the child has exited and its output is closed.          *)
(********************************************************************************)

VARIABLES
  child,     \* "none", "missing" (not to be started), "running", "exited" (0) or "failed"
  killed,    \* the signal the child was sent: "none", "TERM" or "KILL"
  timedOut, aborted,
  grace,     \* the second timer is set
  settled    \* of the promise: "none", "closed" or "error"

command == <<child, killed, timedOut, aborted, grace, settled>>
flags == <<timedOut, aborted, grace, settled>>

NoCommand ==
  /\ child = "none" /\ killed = "none"
  /\ timedOut = FALSE /\ aborted = FALSE /\ grace = FALSE /\ settled = "none"

UnderWay == child # "none" /\ settled = "none"

Signalled(sig) == IF child = "running" THEN sig ELSE killed

\* Mutant: a SIGTERM is all that a child is sent.
StopsOnce == killed' = Signalled("TERM") /\ UNCHANGED grace

\* What the time limit and an abort do alike.
Stops == killed' = Signalled("TERM") /\ grace' = TRUE

\* spawn; a signal that is up already stops the child at once.
Launch(signal) ==
  /\ child' \in {"missing", "running"}
  /\ killed' = (IF signal /\ child' = "running" THEN "TERM" ELSE "none")
  /\ aborted' = signal /\ grace' = signal
  /\ timedOut' = FALSE /\ settled' = "none"

TimeLimit ==
  /\ UnderWay /\ ~timedOut
  /\ timedOut' = TRUE /\ Stops
  /\ UNCHANGED <<child, aborted, settled>>

AbortHeard ==
  /\ aborted' = TRUE /\ Stops
  /\ UNCHANGED <<child, timedOut, settled>>

GraceEnds ==
  /\ UnderWay /\ grace
  /\ killed' = Signalled("KILL") /\ grace' = FALSE
  /\ UNCHANGED <<child, timedOut, aborted, settled>>

\* A child may take its time over a SIGTERM, and never exits with 0 after a SIGKILL.
Exits(how) ==
  /\ UnderWay /\ child = "running"
  /\ how = "exited" => killed # "KILL"
  /\ child' = how /\ UNCHANGED <<killed, flags>>

StartFails ==
  /\ UnderWay /\ child = "missing"
  /\ settled' = "error" /\ UNCHANGED <<child, killed, timedOut, aborted, grace>>

Closes ==
  /\ UnderWay /\ child \in {"exited", "failed"}
  /\ settled' = "closed" /\ UNCHANGED <<child, killed, timedOut, aborted, grace>>

=============================================================================
