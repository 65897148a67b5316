---------------------------- MODULE CliProvider ----------------------------
(************************************************************************************)
(* A request through a subscription CLI (CliSubscriptionProvider): the prompt goes  *)
(* to the standard input of a child process that runs in a temporary directory, and *)
(* its standard output is parsed when it has closed.                                *)
(*                                                                                  *)
(* The child is its own actor: it writes, exits, and need not heed a SIGTERM.       *)
(************************************************************************************)
EXTENDS ModelProvider

CONSTANT MaxOutput  \* maxOutputBytes, in lines

VARIABLES
  place,    \* the temporary directory: "none", "made", "ready" (its schema written) or "gone"
  child,    \* "none", "missing" (no such command), "running", "exited" or "failed"
  killed,   \* the signal the child was sent: "none", "TERM" or "KILL"
  written,  \* lines the child has written
  read,     \* lines the runner has read
  ended,    \* how the runner's promise settled: "none", "closed" or an error's code
  crashed   \* the process that made the call has ended by an error nobody listened to

runner == <<place, child, killed, written, read, ended>>
cli == <<runner, crashed>>

CliInit ==
  /\ place = "none" /\ child = "none" /\ killed = "none"
  /\ written = 0 /\ read = 0 /\ ended = "none" /\ crashed = FALSE

UsesCli == adapter \in CliAdapters /\ ~crashed
Running == UsesCli /\ place = "ready" /\ ended = "none" /\ child # "none"

\* The call ends when the directory has been removed; a directory that cannot be is what
\* the caller is told about, in place of any answer.
Concludes(o) ==
  /\ outcome' \in {o, Failure("file_error")}
  /\ place' = "gone" /\ UNCHANGED <<adapter, tools, script, signal, child, killed, written, read, ended>>

----------------------------------------------------------------------------
\* mkdtemp, outside of any catch.
MakePlace ==
  /\ UsesCli /\ ~Settled /\ place = "none"
  /\ \/ place' = "made" /\ UNCHANGED outcome
     \/ outcome' = Failure("file_error") /\ UNCHANGED place
  /\ UNCHANGED <<adapter, tools, script, signal, child, killed, written, read, ended>>

\* The arguments.  Codex reads the schema of a tool answer from a file.
WriteSchema ==
  /\ UsesCli /\ ~Settled /\ place = "made" /\ ended = "none"
  /\ \/ place' = "ready" /\ UNCHANGED ended
     \/ adapter = "codex-cli" /\ tools /\ ended' = "EFILE" /\ UNCHANGED place
  /\ UNCHANGED <<call, child, killed, written, read>>

\* A call that is cancelled by now starts the child all the same, and stops it.
Spawn ==
  /\ UsesCli /\ ~Settled /\ place = "ready" /\ child = "none" /\ ended = "none"
  /\ child' \in {"missing", "running"}
  /\ IF signal = "none" THEN UNCHANGED <<killed, ended>>
     ELSE killed' = (IF child' = "running" THEN "TERM" ELSE "none") /\ ended' = "ABORT_ERR"
  /\ UNCHANGED <<call, place, written, read>>

SpawnFails ==
  /\ Running /\ child = "missing"
  /\ ended' = "ENOENT" /\ UNCHANGED <<call, place, child, killed, written, read>>

----------------------------------------------------------------------------
\* The child, after the call has settled too.
ChildWrites ==
  /\ UsesCli /\ child = "running" /\ written < Len(script)
  /\ written' = written + 1 /\ UNCHANGED <<call, place, child, killed, read, ended>>

\* It exits with status 0 only when it has said all it had to say.
ChildExits ==
  /\ UsesCli /\ child = "running"
  /\ \/ child' = "exited" /\ written = Len(script) /\ killed # "KILL"
     \/ child' = "failed"
  /\ UNCHANGED <<call, place, killed, written, read, ended>>

----------------------------------------------------------------------------
\* Mutant: the promise is rejected, and the child left alone.
Rejects(sig, code) == ended' = code /\ UNCHANGED killed

\* The runner: the child's events, the timer and the abort listener.  The first of them
\* to settle the promise clears the timer and the listener.
Stops(sig, code) ==
  /\ killed' = (IF child = "running" THEN sig ELSE killed)
  /\ ended' = code

TimedOut ==
  /\ Running
  /\ Raised("deadline") /\ Stops("KILL", "ETIMEDOUT")
  /\ UNCHANGED <<adapter, tools, script, outcome, place, child, written, read>>

CliCancel ==
  /\ UsesCli /\ ~Settled
  /\ Raised("caller")
  /\ IF Running THEN Stops("TERM", "ABORT_ERR") ELSE UNCHANGED <<killed, ended>>
  /\ UNCHANGED <<adapter, tools, script, outcome, place, child, written, read>>

OutputArrives ==
  /\ Running /\ read < written
  /\ read' = read + 1
  /\ IF read' > MaxOutput THEN Stops("KILL", "EOUTPUTLIMIT") ELSE UNCHANGED <<killed, ended>>
  /\ UNCHANGED <<call, place, child, written>>

\* stdin.end writes the prompt to a child that exits without reading it.  The error of that
\* pipe has no listener, and is the end of the process that called.
InputBreaks ==
  /\ UsesCli /\ ~Settled /\ child \in {"exited", "failed"}
  /\ crashed' = TRUE /\ UNCHANGED <<call, runner>>

\* The event of the close: the child has exited and its output has been read.
Closed ==
  /\ Running /\ child \in {"exited", "failed"} /\ read = written
  /\ ended' = "closed" /\ UNCHANGED <<call, place, child, killed, written, read>>

----------------------------------------------------------------------------
\* What the runner's error is to the provider's caller: an abort is a command that could
\* not start.
RunnerError ==
  CASE ended = "ENOENT"    -> "provider_not_installed"
    [] ended = "ETIMEDOUT" -> "timeout_error"
    [] OTHER               -> "provider_error"

\* The line that holds the answer: Codex's last message; the last result of the others, or when
\* they name none, the last line that is JSON.
AnswerLines ==
  LET named == {i \in 1..read : script[i].type = (IF adapter = "codex-cli" THEN "message" ELSE "result")}
  IN  IF named = {} /\ adapter # "codex-cli" THEN {i \in 1..read : script[i].type # "noise"} ELSE named

LastLine == script[CHOOSE i \in AnswerLines : \A j \in AnswerLines : j <= i]

\* responseText and parseToolEnvelope.  Without tools the text is the answer, if the line has
\* one, and an empty text is an answer but for Codex.
Parsable ==
  /\ AnswerLines # {}
  /\ IF tools THEN LastLine.form = "envelope"
     ELSE LastLine.form # "none" /\ ~(adapter = "codex-cli" /\ LastLine.form = "empty")

\* cliExitError tells the reason by the words of the output.
ExitErrors == {"authentication_error", "rate_limit_error", "provider_error"}

Finish ==
  /\ UsesCli /\ ~Settled /\ ended # "none"
  /\ IF ended # "closed" THEN Concludes(Failure(RunnerError))
     ELSE IF child = "failed" THEN \E code \in ExitErrors : Concludes(Failure(code))
     ELSE IF ~Parsable THEN Concludes(Failure("invalid_response"))
     ELSE Concludes(Answer(1, IF tools THEN LastLine.calls ELSE {}))

CliContinues == MakePlace \/ WriteSchema \/ Spawn \/ SpawnFails \/ OutputArrives \/ Closed \/ Finish

CliNext ==
  \/ InputBreaks
  \/ (CliContinues \/ TimedOut \/ CliCancel \/ ChildWrites \/ ChildExits) /\ UNCHANGED crashed

=============================================================================
