---------------------------- MODULE HttpProvider ----------------------------
(**********************************************************************************)
(* A request through an HTTP adapter: OpenAICompatibleProvider, AnthropicProvider *)
(* or GeminiProvider, whole or streamed as server-sent events.                    *)
(*                                                                                *)
(* The adapter awaits its credential, the response's head, and each chunk of the  *)
(* body.  A promise it awaits settles in one step (ready) and the code behind the *)
(* await runs in a later one; the signal may be raised in between.                *)
(**********************************************************************************)
EXTENDS ModelProvider

VARIABLES
  streamed,  \* the response is streamed
  phase,     \* "start", "credential", "head" or "body": what is awaited, or was at the end
  ready,     \* how the awaited promise settled; "none" while it has not
  at,        \* frames of the stream that have been dispatched
  part,      \* of the next frame: 0 nothing, 1 a part, 2 all but its blank line
  seen       \* what the dispatched frames amount to

http == <<streamed, phase, ready, at, part, seen>>

Nothing == [text |-> 0, named |-> {}, args |-> [i \in Calls |-> 0], finish |-> FALSE, done |-> FALSE]

HttpInit ==
  /\ streamed \in BOOLEAN /\ phase = "start" /\ ready = "none"
  /\ at = 0 /\ part = 0 /\ seen = Nothing

HttpIdle ==
  /\ streamed = FALSE /\ phase = "start" /\ ready = "none"
  /\ at = 0 /\ part = 0 /\ seen = Nothing

Waits(p) == ~Settled /\ adapter \in HttpAdapters /\ phase = p /\ ready = "none"
Resumes(p, how) == ~Settled /\ adapter \in HttpAdapters /\ phase = p /\ ready = how

Ends(o) == outcome' = o /\ UNCHANGED <<adapter, tools, script, signal, http>>

----------------------------------------------------------------------------
\* How a request that fails is reported.

\* Mutant: an error of the stream is reported as it is.
AsThrown(code) == code

\* requestResponse of the compatible adapter, its outer catch: a signal raised by then
\* is the reason, whatever was thrown.
ReasonOr(code) ==
  IF signal = "caller" THEN "aborted" ELSE IF signal = "deadline" THEN "timeout_error" ELSE code

\* What an await rejects with when the signal is raised under it.  Anthropic and Gemini
\* look at the error's name: in a stream only the caller's abort has one they know, and a
\* whole body that is cut is a body that is no JSON.
Cut ==
  IF phase = "head" THEN ReasonOr("network_error")
  ELSE IF ~streamed THEN "invalid_response"
  ELSE IF signal = "caller" THEN "aborted" ELSE "network_error"

\* What the compatible adapter ends with, its caller's view of it: streamError lets an abort through,
\* and a read that comes through under a raised signal is no answer.
Named(o) ==
  IF adapter = "openai" /\ (signal # "none" \/ o.kind # "answer") THEN Failure(ReasonOr(o.kind)) ELSE o

Fail(code) == Ends(Named(Failure(code)))

\* httpError.  The Gemini API answers 400 to a key it does not know.
Statuses == {"400", "401", "404", "429", "500"}

StatusCode(status) ==
  CASE status = "401" \/ (status = "400" /\ adapter = "gemini") -> "authentication_error"
    [] status = "429" -> "rate_limit_error"
    [] status = "404" -> "invalid_model"
    [] OTHER -> "provider_error"

----------------------------------------------------------------------------
\* Up to the body.

Go(p) == phase' = p /\ ready' = "none" /\ UNCHANGED <<call, streamed, at, part, seen>>

\* The compatible adapter looks at the signal before it does anything.
Begin ==
  /\ Waits("start")
  /\ IF adapter = "openai" /\ signal # "none" THEN Ends(Failure("aborted")) ELSE Go("credential")

\* resolveApiKey.  A compatible gateway may do without a key.
CredentialArrives ==
  /\ Waits("credential")
  /\ \/ Go("head")
     \/ Ends(Failure("provider_error"))
     \/ Ends(Failure("authentication_error"))

Delivers(p, how) == Waits(p) /\ signal = "none" /\ ready' = how /\ UNCHANGED <<call, streamed, phase, at, part, seen>>

\* The server answers, with a status of its choice, or cannot be reached.
HeadArrives == \E how \in {"ok", "unreachable"} \union Statuses : Delivers("head", how)

HeadContinues ==
  \/ /\ Resumes("head", "ok")
     /\ IF adapter = "openai" /\ signal # "none" THEN Fail("none") ELSE Go("body")
  \/ Resumes("head", "unreachable") /\ Fail("network_error")
  \/ \E status \in Statuses : Resumes("head", status) /\ Fail(StatusCode(status))

\* The signal rejects the await that it is raised under.
Interrupted ==
  /\ \E p \in {"head", "body"} : Waits(p)
  /\ signal # "none"
  /\ Fail(Cut)

----------------------------------------------------------------------------
\* The body.  consumeSse dispatches a frame at its blank line, and what is left in the
\* buffer at the end of the stream.

Frame == script[at + 1]
Left == at < Len(script)

Absorbed(s, e) ==
  CASE e.type = "text"   -> [s EXCEPT !.text = @ + 1]
    [] e.type = "call"   -> [s EXCEPT !.named = @ \union {e.call},
                                      !.args[e.call] = IF adapter = "gemini" THEN Pieces ELSE 0]
    [] e.type = "args"   -> [s EXCEPT !.args[e.call] = @ + 1]
    [] e.type = "finish" -> [s EXCEPT !.finish = TRUE]
    [] e.type = "done"   -> [s EXCEPT !.done = TRUE]
    [] OTHER -> s

\* After [DONE] the compatible adapter heeds nothing.
Dispatched(s, e) == IF adapter = "openai" /\ s.done THEN s ELSE Absorbed(s, e)

\* A chunk: one more part of the next frame.
ChunkArrives == streamed /\ Left /\ Delivers("body", "chunk")

ChunkContinues ==
  /\ Resumes("body", "chunk")
  /\ IF part < 2
     THEN part' = part + 1 /\ ready' = "none" /\ UNCHANGED <<call, streamed, phase, at, seen>>
     ELSE IF Frame.type = "error" /\ ~(adapter = "openai" /\ seen.done)
     THEN Fail("provider_error")
     ELSE /\ at' = at + 1 /\ part' = 0 /\ ready' = "none"
          /\ seen' = Dispatched(seen, Frame)
          /\ UNCHANGED <<call, streamed, phase>>

\* The connection closes, after all of the stream or any part of it, or breaks.
StreamEnds == streamed /\ \E how \in {"end", "broken"} : Delivers("body", how)

\* Tool arguments are JSON, and only all of a call's parts make it up.  Anthropic's
\* block starts with an empty input, kept when no part of it came.
Parsed(s, i) == s.args[i] = Pieces \/ (adapter = "anthropic" /\ s.args[i] = 0)

\* Mutant: a stream that ends is a stream that is complete.
Anyhow(s) == TRUE

\* Only the compatible adapter asks how the stream ended.
Complete(s) == adapter = "openai" => s.finish \/ s.done

\* The answer, or the error, that a stream which has ended amounts to.
Assembled(s) ==
  IF ~Complete(s) \/ (\E i \in s.named : ~Parsed(s, i)) \/ (s.text = 0 /\ s.named = {})
  THEN Failure("invalid_response")
  ELSE Answer(s.text, s.named)

\* What is left of a frame is dispatched too: a part with a line of data in it is no JSON, and one
\* without is passed over.
EndContinues ==
  /\ Resumes("body", "end")
  /\ \E data \in BOOLEAN :
       LET heeded == ~(adapter = "openai" /\ seen.done)
       IN  /\ seen' = IF part = 2 THEN Dispatched(seen, Frame) ELSE seen
           /\ outcome' = Named(IF part = 1 /\ data /\ heeded THEN Failure("invalid_response")
                             ELSE IF part = 2 /\ heeded /\ Frame.type = "error" THEN Failure("provider_error")
                             ELSE Assembled(seen'))
  /\ UNCHANGED <<adapter, tools, script, signal, streamed, phase, ready, at, part>>

BrokenContinues == Resumes("body", "broken") /\ Fail(IF streamed THEN "network_error" ELSE "invalid_response")

\* A body read whole: all of it, or no JSON, or cut off.  Without tool calls it needs a text: the
\* compatible adapter takes an empty one for an answer, and a missing one for none.
WholeArrives == ~streamed /\ \E how \in {"json", "malformed", "broken"} : Delivers("body", how)

WholeContinues ==
  \/ /\ Resumes("body", "json")
     /\ LET empty == Texts(script) = 0 /\ Asked(script) = {}
        IN \/ ("error" \in Types(script) \/ empty) /\ Fail("invalid_response")
           \/ /\ "error" \notin Types(script) /\ (empty => adapter = "openai")
              /\ Ends(Named(Answer(Texts(script), Asked(script))))
  \/ Resumes("body", "malformed") /\ Fail("invalid_response")

----------------------------------------------------------------------------
\* Mutant: the deadline covers the response's head only.
HeadDeadline ==
  /\ ~Settled /\ adapter \in HttpAdapters /\ phase = "head"
  /\ Raised("deadline") /\ UNCHANGED <<adapter, tools, script, outcome, http>>

\* The deadline covers the response's head and its body.
HttpDeadline ==
  /\ ~Settled /\ adapter \in HttpAdapters /\ phase \in {"head", "body"}
  /\ Raised("deadline") /\ UNCHANGED <<adapter, tools, script, outcome, http>>

HttpCancel ==
  /\ ~Settled /\ adapter \in HttpAdapters
  /\ Raised("caller") /\ UNCHANGED <<adapter, tools, script, outcome, http>>

HttpContinues ==
  \/ Begin \/ CredentialArrives \/ HeadContinues \/ Interrupted
  \/ ChunkContinues \/ EndContinues \/ BrokenContinues \/ WholeContinues

HttpNext ==
  \/ HttpContinues \/ HttpDeadline \/ HttpCancel
  \/ HeadArrives \/ ChunkArrives \/ StreamEnds \/ WholeArrives

=============================================================================
