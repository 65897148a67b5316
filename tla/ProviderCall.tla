---------------------------- MODULE ProviderCall ----------------------------
(********************************************************************************)
(* One generate() call, through any of the adapters: what the Core may rely on. *)
(********************************************************************************)
EXTENDS HttpProvider, CliProvider

\* What a model's answer is sent as: the compatible API tells that an answer is finished
\* after all of it, and a CLI that says anything ends with its answer, in a line of the type
\* that is looked for, or in one of JSON when there is none of that type.
ASSUME ScriptAssumption ==
  /\ \A a \in HttpAdapters \union CliAdapters : \A s \in Scripts[a] : s \in Seq({s[i] : i \in DOMAIN s})
  /\ \A s \in Scripts["openai"] : \A i, j \in DOMAIN s :
       s[i].type \in {"finish", "done"} /\ s[j].type \in {"text", "call"} => j < i
  /\ \A a \in CliAdapters : \A s \in Scripts[a] :
       s # <<>> =>
         \/ s[Len(s)].type = (IF a = "codex-cli" THEN "message" ELSE "result")
         \/ a # "codex-cli" /\ s[Len(s)].type # "noise" /\ \A i \in DOMAIN s : s[i].type # "result"

vars == <<call, http, cli>>

\* The two transports have lines of their own: each step is of the one in use.
Init ==
  /\ adapter \in HttpAdapters \union CliAdapters
  /\ tools \in BOOLEAN /\ script \in Scripts[adapter]
  /\ signal = "none" /\ outcome = Pending
  /\ CliInit
  /\ IF adapter \in HttpAdapters THEN HttpInit ELSE HttpIdle

Next == (HttpNext /\ UNCHANGED cli) \/ (CliNext /\ UNCHANGED http)

Spec == Init /\ [][Next]_vars

\* Code that has been resumed goes on, and timers fire.  Nothing is asked of the server,
\* of the child, nor of the Core.
FairSpec ==
  /\ Spec
  /\ WF_vars(HttpContinues /\ UNCHANGED cli)
  /\ WF_vars(HttpDeadline /\ UNCHANGED cli)
  /\ WF_vars(CliContinues /\ UNCHANGED <<crashed, http>>)
  /\ WF_vars(TimedOut /\ UNCHANGED <<crashed, http>>)

Answered == outcome.kind = "answer"

----------------------------------------------------------------------------
\* AnswerIsWhole: an answer that the compatible adapter or a CLI hands to the Core is all
\* of what the model set out to say, every piece of text and every tool call, however
\* the stream was cut into chunks and wherever it broke off.  Anthropic's and Gemini's
\* adapters do not ask how a stream ended; of theirs it only holds that no tool call
\* was made up and none has part of its arguments.
AnswerIsWhole ==
  Answered =>
    CASE adapter = "openai" -> outcome.text = Texts(script) /\ outcome.calls = Asked(script)
      [] adapter \in {"anthropic", "gemini"} ->
           /\ outcome.text <= Texts(script) /\ outcome.calls \subseteq Asked(script)
           /\ streamed => \A i \in outcome.calls : seen.args[i] \in {0, Pieces}
      [] OTHER ->
           /\ child = "exited" /\ read = Len(script)
           /\ outcome.calls = IF tools THEN script[Len(script)].calls ELSE {}

\* StopIsNamed: a call that was stopped never ends with an answer that came too late,
\* nor with some other error: the compatible adapter tells its caller's abort and its
\* own deadline apart, by which of them came first, and a CLI that was killed for its
\* time reports the time (unless its directory could not be removed).
StopIsNamed ==
  Settled =>
    /\ (adapter = "openai" /\ signal # "none" /\ phase # "credential") =>
          outcome.kind = IF signal = "caller" THEN "aborted" ELSE "timeout_error"
    /\ (adapter \in CliAdapters /\ signal = "deadline") =>
          outcome.kind \in {"timeout_error", "file_error"}

\* ChildIsStopped: no call ends with its child still at work, unless it has been sent a
\* signal: a call that is cancelled, too slow or too talkative leaves no CLI behind that
\* nobody has told to stop.
ChildIsStopped == Settled => child # "running" \/ killed # "none"

\* CallEnds: whatever the server or the child does, or does not do, the call ends: a
\* stream that falls silent in its body, a child that never exits.  (The credential
\* store is assumed to answer.)  It ends with its process when a CLI does not read its prompt.
CallEnds == <>(Settled \/ crashed)

=============================================================================
