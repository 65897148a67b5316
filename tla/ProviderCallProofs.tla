------------------------- MODULE ProviderCallProofs -------------------------
(************************************************************************************)
(* Proofs about ProviderCall: what a call to a provider hands to the Core is whole, *)
(* a call that was stopped says so, and no CLI is left at work that nobody told to  *)
(* stop.                                                                            *)
(************************************************************************************)
EXTENDS ProviderCall, FiniteSetTheorems, TLAPS

\* The first n events of what the model sends: the text and the calls among them.
TextsTo(s, n) == Cardinality({i \in 1..n : s[i].type = "text"})
AskedTo(s, n) == {s[i].call : i \in {j \in 1..n : s[j].type = "call"}}

CallPart ==
  /\ adapter \in HttpAdapters \union CliAdapters
  /\ script \in Scripts[adapter]
  /\ signal \in {"none", "caller", "deadline"}

\* The adapter's own deadline starts with the request itself, and no child is started.  A
\* body that is read whole is of a response that is not streamed.
HttpPart ==
  adapter \in HttpAdapters =>
    /\ phase \in {"start", "credential"} => signal # "deadline"
    /\ ready = "json" => ~streamed
    /\ child = "none"

\* What a stream amounts to so far is the text and the calls of its first frames.
StreamPart ==
  (adapter \in HttpAdapters /\ ~Settled) =>
    /\ at \in 0..Len(script)
    /\ (ready = "chunk" \/ part # 0) => at < Len(script)
    /\ seen = [text |-> seen.text, named |-> seen.named, args |-> seen.args,
               finish |-> seen.finish, done |-> seen.done]
    /\ seen.finish \in BOOLEAN /\ seen.done \in BOOLEAN
    /\ seen.text = TextsTo(script, at) /\ seen.named = AskedTo(script, at)
    /\ (seen.finish \/ seen.done) => \E i \in 1..at : script[i].type \in {"finish", "done"}

\* A CLI's promise settles once, and with it a child that still runs has been signalled.
ChildPart ==
  adapter \in CliAdapters =>
    /\ place \in {"none", "made"} => child = "none"
    /\ Settled => place \in {"none", "gone"} /\ (child = "none" \/ ended # "none")
    /\ (child = "running" /\ ended # "none") => killed # "none"
    /\ child = "exited" => written = Len(script)
    /\ ended = "closed" => read = written /\ child \in {"exited", "failed"}
    /\ signal = "deadline" => ended = "ETIMEDOUT"

IInv == CallPart /\ HttpPart /\ StreamPart /\ ChildPart /\ AnswerIsWhole /\ StopIsNamed

----------------------------------------------------------------------------
\* What a model sends has a length, and events at every place up to it.
LEMMA SentInOrder ==
  ASSUME CallPart
  PROVE  Len(script) \in Nat /\ DOMAIN script = 1..Len(script)
<1>1. script \in Seq({script[i] : i \in DOMAIN script})
  BY ScriptAssumption DEF CallPart
<1> QED
  BY <1>1

\* One event more is one text more, or one call more, or neither.
LEMMA OneMore ==
  ASSUME NEW s, NEW n \in Nat
  PROVE  /\ TextsTo(s, n) \in Nat
         /\ TextsTo(s, n + 1) = IF s[n + 1].type = "text" THEN TextsTo(s, n) + 1 ELSE TextsTo(s, n)
         /\ AskedTo(s, n + 1) = IF s[n + 1].type = "call" THEN AskedTo(s, n) \union {s[n + 1].call}
                                ELSE AskedTo(s, n)
<1> DEFINE Before == {i \in 1..n : s[i].type = "text"}
           After == {i \in 1..(n + 1) : s[i].type = "text"}
<1>1. IsFiniteSet(1..n)
  BY FS_Interval
<1>2. IsFiniteSet(Before) /\ Cardinality(Before) \in Nat
  BY <1>1, FS_Subset, FS_CardinalityType
<1>3. After = IF s[n + 1].type = "text" THEN Before \union {n + 1} ELSE Before
  OBVIOUS
<1>4. n + 1 \notin Before
  OBVIOUS
<1> HIDE DEF Before, After
<1>5. Cardinality(Before \union {n + 1}) = Cardinality(Before) + 1
  BY <1>2, <1>4, FS_AddElement
<1>6. TextsTo(s, n) = Cardinality(Before) /\ TextsTo(s, n + 1) = Cardinality(After)
  BY DEF TextsTo, Before, After
<1>7. {j \in 1..(n + 1) : s[j].type = "call"} =
        IF s[n + 1].type = "call" THEN {j \in 1..n : s[j].type = "call"} \union {n + 1}
        ELSE {j \in 1..n : s[j].type = "call"}
  OBVIOUS
<1>8. AskedTo(s, n + 1) = IF s[n + 1].type = "call" THEN AskedTo(s, n) \union {s[n + 1].call}
                          ELSE AskedTo(s, n)
  BY <1>7 DEF AskedTo
<1> QED
  BY <1>2, <1>3, <1>5, <1>6, <1>8

\* A part of a stream has no more in it than all of it has.
LEMMA PartOfAll ==
  ASSUME CallPart, NEW n \in 0..Len(script)
  PROVE  TextsTo(script, n) <= Texts(script) /\ AskedTo(script, n) \subseteq Asked(script)
<1> DEFINE Some == {i \in 1..n : script[i].type = "text"}
           All == {i \in DOMAIN script : script[i].type = "text"}
<1>1. Len(script) \in Nat /\ DOMAIN script = 1..Len(script)
  BY SentInOrder
<1>2. IsFiniteSet(1..Len(script))
  BY <1>1, FS_Interval
<1>3. IsFiniteSet(All)
  BY <1>1, <1>2, FS_Subset
<1>4. Some \subseteq All
  BY <1>1
<1>5. Cardinality(Some) <= Cardinality(All)
  BY <1>3, <1>4, FS_Subset
<1>6. AskedTo(script, n) \subseteq Asked(script)
  BY <1>1 DEF AskedTo, Asked
<1> QED
  BY <1>5, <1>6 DEF TextsTo, Texts

\* Once the compatible API has said that an answer is finished, all of it has come.
LEMMA FinishIsLast ==
  ASSUME CallPart, adapter = "openai", NEW n \in 0..Len(script),
         NEW k \in 1..n, script[k].type \in {"finish", "done"}
  PROVE  TextsTo(script, n) = Texts(script) /\ AskedTo(script, n) = Asked(script)
<1>1. Len(script) \in Nat /\ DOMAIN script = 1..Len(script)
  BY SentInOrder
<1>2. \A i, j \in DOMAIN script :
        script[i].type \in {"finish", "done"} /\ script[j].type \in {"text", "call"} => j < i
  BY ScriptAssumption DEF CallPart
<1>3. \A j \in DOMAIN script : script[j].type \in {"text", "call"} => j \in 1..n
  BY <1>1, <1>2
<1>4. {i \in 1..n : script[i].type = "text"} = {i \in DOMAIN script : script[i].type = "text"}
  BY <1>1, <1>3
<1>5. {i \in 1..n : script[i].type = "call"} = {i \in DOMAIN script : script[i].type = "call"}
  BY <1>1, <1>3
<1> QED
  BY <1>4, <1>5 DEF TextsTo, Texts, AskedTo, Asked

----------------------------------------------------------------------------
\* The ways in which a call through an HTTP adapter ends.

LEMMA TwoTransports ==
  /\ \A a \in HttpAdapters : a \notin CliAdapters
  /\ \A a \in HttpAdapters : a = "openai" \/ a \in {"anthropic", "gemini"}
  /\ "openai" \in HttpAdapters
  BY DEF HttpAdapters, CliAdapters

\* An end that is no answer, and names a stop for what it was.
LEMMA EndsWithError ==
  ASSUME IInv, adapter \in HttpAdapters, ~Settled, UNCHANGED cli,
         NEW o, outcome' = o, o.kind # "answer", UNCHANGED seen \/ o.kind # "none",
         UNCHANGED <<adapter, tools, script, signal, streamed, phase, ready, at, part>>,
         (adapter = "openai" /\ signal # "none" /\ phase # "credential") =>
            o.kind = (IF signal = "caller" THEN "aborted" ELSE "timeout_error")
  PROVE  IInv'
<1>1. CallPart' /\ HttpPart' /\ ChildPart'
  BY TwoTransports DEF IInv, CallPart, HttpPart, ChildPart, cli, runner
<1>2. StreamPart'
  <2>1. CASE UNCHANGED seen
    BY <2>1 DEF IInv, StreamPart
  <2>2. CASE o.kind # "none"
    BY <2>2 DEF StreamPart, Settled, Pending, Failure
  <2> QED
    BY <2>1, <2>2
<1>3. AnswerIsWhole'
  BY DEF AnswerIsWhole, Answered
<1>4. StopIsNamed'
  BY TwoTransports DEF StopIsNamed
<1> QED
  BY <1>1, <1>2, <1>3, <1>4 DEF IInv

\* A request that fails is one of those ends: the compatible adapter puts the reason for
\* a stop in place of whatever was thrown.
LEMMA FailEnds ==
  ASSUME IInv, adapter \in HttpAdapters, ~Settled, UNCHANGED cli,
         NEW code, code # "answer", UNCHANGED seen \/ code # "none",
         outcome' = Named(Failure(code)),
         UNCHANGED <<adapter, tools, script, signal, streamed, phase, ready, at, part>>
  PROVE  IInv'
<1> DEFINE o == Named(Failure(code))
<1>1. outcome' = o
  OBVIOUS
<1>2. signal \in {"none", "caller", "deadline"}
  BY DEF IInv, CallPart
<1>3. CASE adapter = "openai"
  <2>1. o = Failure(ReasonOr(code))
    BY <1>3 DEF Named, Failure
  <2>2. o.kind = ReasonOr(code)
    BY <2>1 DEF Failure
  <2>3. /\ o.kind # "answer"
        /\ UNCHANGED seen \/ o.kind # "none"
        /\ signal # "none" => o.kind = (IF signal = "caller" THEN "aborted" ELSE "timeout_error")
    BY <1>2, <2>2 DEF ReasonOr
  <2> HIDE DEF o
  <2> QED
    BY <1>1, <2>3, EndsWithError
<1>4. CASE adapter # "openai"
  <2>1. o.kind = code
    BY <1>4 DEF Named, Failure
  <2> HIDE DEF o
  <2> QED
    BY <1>1, <1>4, <2>1, EndsWithError
<1> QED
  BY <1>3, <1>4

\* What an answer has to be: whole, or of an adapter that does not ask.
LEMMA AnswerEnds ==
  ASSUME IInv, adapter \in HttpAdapters, ~Settled, UNCHANGED cli,
         NEW t, NEW c,
         outcome' = Named(Answer(t, c)),
         UNCHANGED <<adapter, tools, script, signal, streamed, phase, ready, at, part>>,
         adapter = "openai" => t = Texts(script) /\ c = Asked(script),
         adapter # "openai" =>
            /\ t <= Texts(script) /\ c \subseteq Asked(script)
            /\ streamed => \A i \in c : seen'.args[i] \in {0, Pieces}
  PROVE  IInv'
<1>1. signal \in {"none", "caller", "deadline"}
  BY DEF IInv, CallPart
<1>2. outcome' = Answer(t, c) \/ (adapter = "openai" /\ outcome' = Failure(ReasonOr("answer")) /\ signal # "none")
  BY DEF Named, Answer
<1>3. Settled'
  BY <1>1, <1>2 DEF Settled, Pending, Answer, Failure, ReasonOr
<1>4. CallPart' /\ HttpPart' /\ ChildPart'
  BY TwoTransports DEF IInv, CallPart, HttpPart, ChildPart, cli, runner
<1>5. StreamPart'
  BY <1>3 DEF StreamPart
<1>6. AnswerIsWhole'
  <2>1. CASE outcome' = Answer(t, c)
    <3>1. outcome'.text = t /\ outcome'.calls = c
      BY <2>1 DEF Answer
    <3>2. CASE adapter = "openai"
      BY <3>1, <3>2 DEF AnswerIsWhole
    <3>3. CASE adapter # "openai"
      <4>1. adapter \in {"anthropic", "gemini"}
        BY <3>3, TwoTransports
      <4> QED
        BY <3>1, <3>3, <4>1 DEF AnswerIsWhole
    <3> QED
      BY <3>2, <3>3
  <2>2. CASE outcome' = Failure(ReasonOr("answer")) /\ signal # "none"
    <3>1. outcome'.kind # "answer"
      BY <2>2, <1>1 DEF Failure, ReasonOr
    <3> QED
      BY <3>1 DEF AnswerIsWhole, Answered
  <2> QED
    BY <1>2, <2>1, <2>2
<1>7. StopIsNamed'
  <2>1. adapter' \notin CliAdapters
    BY TwoTransports
  <2>2. ASSUME adapter = "openai", signal # "none"
        PROVE  outcome'.kind = IF signal = "caller" THEN "aborted" ELSE "timeout_error"
    <3>1. outcome' = Failure(ReasonOr("answer"))
      BY <2>2 DEF Named, Answer
    <3> QED
      BY <1>1, <2>2, <3>1 DEF Failure, ReasonOr
  <2> QED
    BY <2>1, <2>2 DEF StopIsNamed
<1> QED
  BY <1>4, <1>5, <1>6, <1>7 DEF IInv

LEMMA FailsHere ==
  ASSUME IInv, adapter \in HttpAdapters, ~Settled, UNCHANGED cli,
         NEW code, code # "answer", Fail(code)
  PROVE  IInv'
  BY FailEnds DEF Fail, Ends, http

\* A step that leaves the call open has only the stream to account for.
LEMMA StaysOpen ==
  ASSUME IInv, adapter \in HttpAdapters, ~Settled, UNCHANGED cli,
         UNCHANGED <<adapter, tools, script, outcome>>,
         signal' \in {"none", "caller", "deadline"},
         phase' \in {"start", "credential"} => signal' # "deadline",
         ready' = "json" => ~streamed, UNCHANGED streamed,
         StreamPart'
  PROVE  IInv'
<1>1. ~Settled'
  BY DEF Settled, Pending, Failure
<1>2. AnswerIsWhole' /\ StopIsNamed'
  BY <1>1 DEF AnswerIsWhole, Answered, StopIsNamed, Settled, Pending, Failure
<1>3. CallPart' /\ HttpPart' /\ ChildPart'
  BY TwoTransports DEF IInv, CallPart, HttpPart, ChildPart, cli, runner
<1> QED
  BY <1>2, <1>3 DEF IInv

LEMMA GoKeeps ==
  ASSUME IInv, adapter \in HttpAdapters, ~Settled, UNCHANGED cli,
         NEW p, Go(p), ready # "chunk", p = "credential" => signal # "deadline", p # "start"
  PROVE  IInv'
<1>1. StreamPart'
  BY DEF IInv, StreamPart, Go, call, Settled, Pending, Failure
<1> QED
  BY <1>1, StaysOpen DEF Go, call, IInv, CallPart

LEMMA DeliversKeeps ==
  ASSUME IInv, UNCHANGED cli, NEW p, NEW how, Delivers(p, how),
         how = "chunk" => Left, how = "json" => ~streamed
  PROVE  IInv'
<1>1. adapter \in HttpAdapters /\ ~Settled
  BY DEF Delivers, Waits
<1>2. StreamPart'
  BY <1>1, SentInOrder DEF IInv, StreamPart, Delivers, Left, call, Settled, Pending, Failure
<1> QED
  BY <1>1, <1>2, StaysOpen DEF Delivers, call, IInv, CallPart, HttpPart

\* The signal is raised: by the deadline once the head or the body is awaited.
LEMMA RaisedKeeps ==
  ASSUME IInv, UNCHANGED cli, adapter \in HttpAdapters, ~Settled,
         NEW cause \in {"caller", "deadline"}, cause = "deadline" => phase \in {"head", "body"},
         Raised(cause), UNCHANGED <<adapter, tools, script, outcome, http>>
  PROVE  IInv'
<1>1. StreamPart'
  BY DEF IInv, StreamPart, http, Settled, Pending, Failure
<1> QED
  BY <1>1, StaysOpen DEF Raised, http, IInv, CallPart, HttpPart

----------------------------------------------------------------------------
\* The frames of a stream.

\* A frame that is no error adds what it holds, whether or not the adapter still heeds it.
LEMMA FrameCounts ==
  ASSUME IInv, adapter \in HttpAdapters, ~Settled, at < Len(script),
         NEW s, s = Dispatched(seen, Frame)
  PROVE  /\ s = [text |-> s.text, named |-> s.named, args |-> s.args,
                 finish |-> s.finish, done |-> s.done]
         /\ s.finish \in BOOLEAN /\ s.done \in BOOLEAN
         /\ s.text = TextsTo(script, at + 1) /\ s.named = AskedTo(script, at + 1)
         /\ (s.finish \/ s.done) => \E i \in 1..(at + 1) : script[i].type \in {"finish", "done"}
<1> DEFINE e == script[at + 1]
<1>1. Len(script) \in Nat /\ at \in Nat /\ at + 1 \in 1..Len(script) /\ DOMAIN script = 1..Len(script)
  BY SentInOrder DEF IInv, StreamPart
<1>2. /\ seen = [text |-> seen.text, named |-> seen.named, args |-> seen.args,
                 finish |-> seen.finish, done |-> seen.done]
      /\ seen.finish \in BOOLEAN /\ seen.done \in BOOLEAN
      /\ seen.text = TextsTo(script, at) /\ seen.named = AskedTo(script, at)
      /\ (seen.finish \/ seen.done) => \E i \in 1..at : script[i].type \in {"finish", "done"}
  BY DEF IInv, StreamPart
<1>3. /\ TextsTo(script, at + 1) = IF e.type = "text" THEN seen.text + 1 ELSE seen.text
      /\ AskedTo(script, at + 1) = IF e.type = "call" THEN seen.named \union {e.call} ELSE seen.named
  BY <1>1, <1>2, OneMore
<1>4. CASE adapter = "openai" /\ seen.done
  <2>1. s = seen
    BY <1>4 DEF Dispatched
  <2>2. PICK i \in 1..at : script[i].type \in {"finish", "done"}
    BY <1>2, <1>4
  <2>3. script \in Scripts["openai"]
    BY <1>4 DEF IInv, CallPart
  <2>4. e.type \notin {"text", "call"}
    BY <1>1, <2>2, <2>3, ScriptAssumption
  <2>5. i \in 1..(at + 1)
    BY <1>1
  <2> HIDE DEF e
  <2> QED
    BY <1>2, <1>3, <2>1, <2>2, <2>4, <2>5
<1>5. CASE ~(adapter = "openai" /\ seen.done)
  <2>1. s = Absorbed(seen, e)
    BY <1>5 DEF Dispatched, Frame
  <2>2. /\ s = [text |-> s.text, named |-> s.named, args |-> s.args,
                finish |-> s.finish, done |-> s.done]
        /\ s.finish \in BOOLEAN /\ s.done \in BOOLEAN
        /\ s.text = IF e.type = "text" THEN seen.text + 1 ELSE seen.text
        /\ s.named = IF e.type = "call" THEN seen.named \union {e.call} ELSE seen.named
        /\ (s.finish \/ s.done) => seen.finish \/ seen.done \/ e.type \in {"finish", "done"}
    <3> HIDE DEF e
    <3>1. CASE e.type = "text"
      BY <1>2, <2>1, <3>1 DEF Absorbed
    <3>2. CASE e.type = "call"
      BY <1>2, <2>1, <3>2 DEF Absorbed
    <3>3. CASE e.type = "args"
      BY <1>2, <2>1, <3>3 DEF Absorbed
    <3>4. CASE e.type = "finish"
      BY <1>2, <2>1, <3>4 DEF Absorbed
    <3>5. CASE e.type = "done"
      BY <1>2, <2>1, <3>5 DEF Absorbed
    <3>6. CASE e.type \notin {"text", "call", "args", "finish", "done"}
      BY <1>2, <2>1, <3>6 DEF Absorbed
    <3> QED
      BY <3>1, <3>2, <3>3, <3>4, <3>5, <3>6
  <2>3. ASSUME s.finish \/ s.done
        PROVE  \E i \in 1..(at + 1) : script[i].type \in {"finish", "done"}
    <3>1. CASE seen.finish \/ seen.done
      BY <1>1, <1>2, <3>1
    <3>2. CASE e.type \in {"finish", "done"}
      BY <1>1, <3>2
    <3> QED
      BY <2>2, <2>3, <3>1, <3>2
  <2> HIDE DEF e
  <2> QED
    BY <1>3, <2>2, <2>3
<1> QED
  BY <1>4, <1>5

LEMMA ChunkKeeps ==
  ASSUME IInv, UNCHANGED cli, ChunkContinues
  PROVE  IInv'
<1>1. adapter \in HttpAdapters /\ ~Settled /\ phase = "body" /\ ready = "chunk"
  BY DEF ChunkContinues, Resumes
<1>2. at \in 0..Len(script) /\ at < Len(script) /\ Len(script) \in Nat
  BY <1>1, SentInOrder DEF IInv, StreamPart
<1>3. signal \in {"none", "caller", "deadline"}
  BY DEF IInv, CallPart
<1>4. CASE part' = part + 1 /\ ready' = "none" /\ UNCHANGED <<call, streamed, phase, at, seen>>
  <2>1. StreamPart'
    BY <1>1, <1>2, <1>4 DEF IInv, StreamPart, call, Settled, Pending, Failure
  <2> QED
    BY <1>1, <1>3, <1>4, <2>1, StaysOpen DEF call
<1>5. CASE Fail("provider_error")
  BY <1>1, <1>5, FailsHere
<1>6. CASE at' = at + 1 /\ part' = 0 /\ ready' = "none" /\ seen' = Dispatched(seen, Frame)
           /\ UNCHANGED <<call, streamed, phase>>
  <2>1. /\ seen' = [text |-> seen'.text, named |-> seen'.named, args |-> seen'.args,
                    finish |-> seen'.finish, done |-> seen'.done]
        /\ seen'.finish \in BOOLEAN /\ seen'.done \in BOOLEAN
        /\ seen'.text = TextsTo(script, at + 1) /\ seen'.named = AskedTo(script, at + 1)
        /\ (seen'.finish \/ seen'.done) => \E i \in 1..(at + 1) : script[i].type \in {"finish", "done"}
    BY <1>1, <1>2, <1>6, FrameCounts
  <2>2. at' \in 0..Len(script') /\ script' = script /\ at' = at + 1
    BY <1>2, <1>6 DEF call
  <2>3. StreamPart'
    BY <1>6, <2>1, <2>2 DEF StreamPart
  <2> QED
    BY <1>1, <1>3, <1>6, <2>3, StaysOpen DEF call
<1> QED
  BY <1>4, <1>5, <1>6 DEF ChunkContinues

\* The stream has ended: what it amounts to is an answer only when it is whole.
LEMMA EndKeeps ==
  ASSUME IInv, UNCHANGED cli, EndContinues
  PROVE  IInv'
<1> DEFINE heeded == ~(adapter = "openai" /\ seen.done)
<1>0. PICK data \in BOOLEAN :
        outcome' = Named(IF part = 1 /\ data /\ heeded THEN Failure("invalid_response")
                         ELSE IF part = 2 /\ heeded /\ Frame.type = "error" THEN Failure("provider_error")
                         ELSE Assembled(seen'))
  BY DEF EndContinues
<1> DEFINE Result == IF part = 1 /\ data /\ heeded THEN Failure("invalid_response")
                     ELSE IF part = 2 /\ heeded /\ Frame.type = "error" THEN Failure("provider_error")
                     ELSE Assembled(seen')
<1>1. adapter \in HttpAdapters /\ ~Settled /\ phase = "body"
  BY DEF EndContinues, Resumes
<1>2. /\ seen' = IF part = 2 THEN Dispatched(seen, Frame) ELSE seen
      /\ outcome' = Named(Result)
      /\ UNCHANGED <<adapter, tools, script, signal, streamed, phase, ready, at, part>>
  BY <1>0 DEF EndContinues
<1>3. at \in 0..Len(script) /\ Len(script) \in Nat /\ (part = 2 => at < Len(script))
  BY <1>1, SentInOrder DEF IInv, StreamPart
<1>4. PICK n \in 0..Len(script) :
        /\ seen'.text = TextsTo(script, n) /\ seen'.named = AskedTo(script, n)
        /\ (seen'.finish \/ seen'.done) => \E i \in 1..n : script[i].type \in {"finish", "done"}
  <2>1. CASE part = 2
    <3>1. at + 1 \in 0..Len(script) /\ at < Len(script)
      BY <1>3, <2>1
    <3>2. /\ seen'.text = TextsTo(script, at + 1) /\ seen'.named = AskedTo(script, at + 1)
          /\ (seen'.finish \/ seen'.done) => \E i \in 1..(at + 1) : script[i].type \in {"finish", "done"}
      BY <1>1, <1>2, <2>1, <3>1, FrameCounts
    <3> QED
      BY <3>1, <3>2
  <2>2. CASE part # 2
    BY <1>1, <1>2, <1>3, <2>2 DEF IInv, StreamPart
  <2> QED
    BY <2>1, <2>2
<1>5. \/ \E code \in {"invalid_response", "provider_error"} : Result = Failure(code)
      \/ /\ Result = Answer(seen'.text, seen'.named)
         /\ Complete(seen') /\ \A i \in seen'.named : Parsed(seen', i)
  BY DEF Assembled
<1> HIDE DEF Result, heeded
<1>6. ASSUME NEW code \in {"invalid_response", "provider_error"}, Result = Failure(code)
      PROVE  IInv'
  BY <1>1, <1>2, <1>6, FailEnds
<1>7. ASSUME Result = Answer(seen'.text, seen'.named),
             Complete(seen'), \A i \in seen'.named : Parsed(seen', i)
      PROVE  IInv'
  <2>1. CallPart
    BY DEF IInv
  <2>2. ASSUME adapter = "openai"
        PROVE  seen'.text = Texts(script) /\ seen'.named = Asked(script)
    <3>1. PICK i \in 1..n : script[i].type \in {"finish", "done"}
      BY <1>4, <1>7, <2>2 DEF Complete
    <3> QED
      BY <1>4, <2>1, <2>2, <3>1, FinishIsLast
  <2>3. seen'.text <= Texts(script) /\ seen'.named \subseteq Asked(script)
    BY <1>4, <2>1, PartOfAll
  <2>4. \A i \in seen'.named : seen'.args[i] \in {0, Pieces}
    BY <1>7 DEF Parsed
  <2> QED
    BY <1>1, <1>2, <1>7, <2>2, <2>3, <2>4, AnswerEnds
<1> QED
  BY <1>5, <1>6, <1>7

\* A body read whole holds all that the model set out to say.
LEMMA WholeKeeps ==
  ASSUME IInv, UNCHANGED cli, WholeContinues
  PROVE  IInv'
<1>1. adapter \in HttpAdapters /\ ~Settled
  BY DEF WholeContinues, Resumes
<1>2. CASE Fail("invalid_response")
  BY <1>1, <1>2, FailsHere
<1>3. CASE ~streamed /\ Ends(Named(Answer(Texts(script), Asked(script))))
  <2>1. Len(script) \in Nat /\ DOMAIN script = 1..Len(script)
    BY SentInOrder DEF IInv
  <2>2. Texts(script) \in Nat
    <3>1. IsFiniteSet(1..Len(script))
      BY <2>1, FS_Interval
    <3>2. IsFiniteSet({i \in DOMAIN script : script[i].type = "text"})
      BY <2>1, <3>1, FS_Subset
    <3> QED
      BY <3>2, FS_CardinalityType DEF Texts
  <2>3. /\ outcome' = Named(Answer(Texts(script), Asked(script)))
        /\ UNCHANGED <<adapter, tools, script, signal, streamed, phase, ready, at, part>>
    BY <1>3 DEF Ends, http
  <2>4. Texts(script) <= Texts(script) /\ Asked(script) \subseteq Asked(script)
    BY <2>2
  <2>5. streamed => \A i \in Asked(script) : seen'.args[i] \in {0, Pieces}
    BY <1>3
  <2> QED
    BY <1>1, <2>3, <2>4, <2>5, AnswerEnds
<1>4. ready = "json" => ~streamed
  BY <1>1 DEF IInv, HttpPart
<1> QED
  BY <1>2, <1>3, <1>4 DEF WholeContinues, Resumes

LEMMA HttpKeeps ==
  ASSUME IInv, HttpNext, UNCHANGED cli
  PROVE  IInv'
<1>1. CASE Begin
  <2>1. adapter \in HttpAdapters /\ ~Settled /\ phase = "start" /\ ready = "none"
    BY <1>1 DEF Begin, Waits
  <2>2. signal # "deadline" /\ signal \in {"none", "caller", "deadline"}
    BY <2>1 DEF IInv, HttpPart, CallPart
  <2>3. CASE adapter = "openai" /\ signal # "none" /\ Ends(Failure("aborted"))
    BY <2>1, <2>2, <2>3, EndsWithError DEF Ends, Failure, http
  <2>4. CASE Go("credential")
    BY <2>1, <2>2, <2>4, GoKeeps
  <2> QED
    BY <1>1, <2>3, <2>4 DEF Begin
<1>2. CASE CredentialArrives
  <2>1. adapter \in HttpAdapters /\ ~Settled /\ phase = "credential" /\ ready = "none"
    BY <1>2 DEF CredentialArrives, Waits
  <2>2. CASE Go("head")
    BY <2>1, <2>2, GoKeeps
  <2>3. ASSUME NEW code \in {"provider_error", "authentication_error"}, Ends(Failure(code))
        PROVE  IInv'
    BY <2>1, <2>3, EndsWithError DEF Ends, Failure, http
  <2> QED
    BY <1>2, <2>2, <2>3 DEF CredentialArrives
<1>3. CASE HeadContinues
  <2>1. adapter \in HttpAdapters /\ ~Settled /\ ready # "chunk"
    BY <1>3 DEF HeadContinues, Resumes, Statuses
  <2>2. CASE Fail("none")
    BY <2>1, <2>2, FailsHere
  <2>3. CASE Go("body")
    BY <2>1, <2>3, GoKeeps
  <2>4. CASE Fail("network_error")
    BY <2>1, <2>4, FailsHere
  <2>5. ASSUME NEW status \in Statuses, Fail(StatusCode(status))
        PROVE  IInv'
    <3>1. StatusCode(status) # "answer"
      BY DEF StatusCode
    <3> QED
      BY <2>1, <2>5, <3>1, FailsHere
  <2> QED
    BY <1>3, <2>2, <2>3, <2>4, <2>5 DEF HeadContinues
<1>4. CASE Interrupted
  <2>1. adapter \in HttpAdapters /\ ~Settled /\ Fail(Cut)
    BY <1>4 DEF Interrupted, Waits
  <2>2. Cut # "answer"
    BY DEF Cut, ReasonOr
  <2> QED
    BY <2>1, <2>2, FailsHere
<1>5. CASE ChunkContinues
  BY <1>5, ChunkKeeps
<1>6. CASE EndContinues
  BY <1>6, EndKeeps
<1>7. CASE BrokenContinues
  <2>1. adapter \in HttpAdapters /\ ~Settled
    BY <1>7 DEF BrokenContinues, Resumes
  <2>2. PICK code \in {"network_error", "invalid_response"} : Fail(code)
    BY <1>7 DEF BrokenContinues
  <2> QED
    BY <2>1, <2>2, FailsHere
<1>8. CASE WholeContinues
  BY <1>8, WholeKeeps
<1>9. CASE HttpDeadline
  BY <1>9, RaisedKeeps DEF HttpDeadline
<1>10. CASE HttpCancel
  BY <1>10, RaisedKeeps DEF HttpCancel
<1>11. CASE HeadArrives
  <2>1. PICK how \in {"ok", "unreachable"} \union Statuses : Delivers("head", how)
    BY <1>11 DEF HeadArrives
  <2>2. how # "chunk" /\ how # "json"
    BY DEF Statuses
  <2> QED
    BY <2>1, <2>2, DeliversKeeps
<1>12. CASE ChunkArrives
  BY <1>12, DeliversKeeps DEF ChunkArrives
<1>13. CASE StreamEnds
  BY <1>13, DeliversKeeps DEF StreamEnds
<1>14. CASE WholeArrives
  BY <1>14, DeliversKeeps DEF WholeArrives
<1> QED
  BY <1>1, <1>2, <1>3, <1>4, <1>5, <1>6, <1>7, <1>8, <1>9, <1>10, <1>11, <1>12, <1>13, <1>14
     DEF HttpNext, HttpContinues

----------------------------------------------------------------------------
\* The command-line adapters.

\* A child that has said all it had to say ends with the line that holds its answer.
LEMMA LastLineAnswers ==
  ASSUME CallPart, adapter \in CliAdapters, read = Len(script), AnswerLines # {}
  PROVE  LastLine = script[Len(script)]
<1> DEFINE answers == IF adapter = "codex-cli" THEN "message" ELSE "result"
           named == {i \in 1..Len(script) : script[i].type = answers}
           spoken == {i \in 1..Len(script) : script[i].type # "noise"}
<1>1. Len(script) \in Nat
  BY SentInOrder
<1>2. AnswerLines = IF named = {} /\ adapter # "codex-cli" THEN spoken ELSE named
  BY Zenon DEF AnswerLines
<1>3. Len(script) \in 1..Len(script) /\ script # <<>>
  <2>1. named \subseteq 1..Len(script) /\ spoken \subseteq 1..Len(script)
    OBVIOUS
  <2>2. PICK i \in 1..Len(script) : TRUE
    BY <1>2, <2>1
  <2> QED
    BY <1>1, <2>2
<1>4. \/ script[Len(script)].type = answers
      \/ /\ adapter # "codex-cli" /\ script[Len(script)].type # "noise"
         /\ \A i \in DOMAIN script : script[i].type # "result"
  BY <1>3, ScriptAssumption DEF CallPart
<1>5. Len(script) \in AnswerLines /\ \A j \in AnswerLines : j <= Len(script)
  <2>1. CASE script[Len(script)].type = answers
    BY <1>1, <1>2, <1>3, <2>1
  <2>2. CASE /\ adapter # "codex-cli" /\ script[Len(script)].type # "noise"
             /\ \A i \in DOMAIN script : script[i].type # "result"
    <3>1. named = {}
      BY <2>2, SentInOrder
    <3> QED
      BY <1>1, <1>2, <1>3, <2>2, <3>1
  <2> QED
    BY <1>4, <2>1, <2>2
<1>6. AnswerLines \subseteq 1..Len(script)
  BY <1>2
<1> HIDE DEF answers, named, spoken
<1>7. \A i \in AnswerLines : (\A j \in AnswerLines : j <= i) => i = Len(script)
  BY <1>1, <1>5, <1>6
<1>8. (CHOOSE i \in AnswerLines : \A j \in AnswerLines : j <= i) = Len(script)
  BY <1>5, <1>7
<1> QED
  BY <1>8 DEF LastLine

\* A step of the runner, or of the child, that leaves the call as it is.
LEMMA CliGoesOn ==
  ASSUME IInv, adapter \in CliAdapters, UNCHANGED http,
         UNCHANGED <<adapter, tools, script, outcome>>,
         signal' \in {"none", "caller", "deadline"},
         ChildPart', Settled => UNCHANGED <<signal, read>>,
         Settled => (child = "exited" => child' = "exited")
  PROVE  IInv'
<1>1. CallPart' /\ HttpPart' /\ StreamPart'
  BY TwoTransports DEF IInv, CallPart, HttpPart, StreamPart
<1>2. Settled' = Settled /\ Answered' = Answered /\ (Answered => Settled)
  BY DEF Settled, Pending, Failure, Answered
<1>3. StopIsNamed'
  BY <1>2, TwoTransports DEF IInv, StopIsNamed
<1>4. AnswerIsWhole'
  BY <1>2, TwoTransports DEF IInv, AnswerIsWhole, HttpAdapters
<1> QED
  BY <1>1, <1>3, <1>4 DEF IInv

\* The call ends: with an answer only after all of the output, and a time that ran out is
\* told but for a directory that could not be removed.
LEMMA CliConcludes ==
  ASSUME IInv, adapter \in CliAdapters, ~Settled, UNCHANGED http,
         UNCHANGED <<adapter, tools, script, signal, child, killed, written, read, ended>>,
         (place' = "gone" /\ ended # "none") \/ (place = "none" /\ place' = "none"),
         outcome'.kind = "answer" =>
            /\ child = "exited" /\ read = Len(script)
            /\ outcome'.calls = IF tools THEN script[Len(script)].calls ELSE {},
         signal = "deadline" => outcome'.kind \in {"timeout_error", "file_error"}
  PROVE  IInv'
<1>1. CallPart' /\ HttpPart' /\ StreamPart'
  BY TwoTransports DEF IInv, CallPart, HttpPart, StreamPart
<1>2. ChildPart'
  BY DEF IInv, ChildPart
<1>3. StopIsNamed'
  BY TwoTransports DEF StopIsNamed
<1>4. AnswerIsWhole'
  <2>1. adapter # "openai" /\ adapter \notin {"anthropic", "gemini"}
    BY TwoTransports DEF HttpAdapters
  <2> QED
    BY <2>1 DEF AnswerIsWhole, Answered
<1> QED
  BY <1>1, <1>2, <1>3, <1>4 DEF IInv

\* Each step of the runner and of the child keeps what is known of the two.
LEMMA CliKeeps ==
  ASSUME IInv, CliNext, UNCHANGED http
  PROVE  IInv'
<1>1. adapter \in CliAdapters
  BY DEF CliNext, InputBreaks, CliContinues, MakePlace, WriteSchema, Spawn, SpawnFails, OutputArrives, Closed, Finish,
         TimedOut, CliCancel, ChildWrites, ChildExits, Running, UsesCli
<1>2. /\ place \in {"none", "made"} => child = "none"
      /\ Settled => place \in {"none", "gone"} /\ (child = "none" \/ ended # "none")
      /\ (child = "running" /\ ended # "none") => killed # "none"
      /\ child = "exited" => written = Len(script)
      /\ ended = "closed" => read = written /\ child \in {"exited", "failed"}
      /\ signal = "deadline" => ended = "ETIMEDOUT"
  BY <1>1 DEF IInv, ChildPart
<1>3. signal \in {"none", "caller", "deadline"}
  BY DEF IInv, CallPart
<1>0. CASE InputBreaks
  <2>1. ChildPart'
    BY <1>2, <1>0 DEF ChildPart, InputBreaks, Settled, Pending, Failure, call, runner
  <2> QED
    BY <1>1, <1>3, <1>0, <2>1, CliGoesOn DEF InputBreaks, call, runner
<1>4. CASE WriteSchema
  <2>1. ChildPart'
    BY <1>2, <1>4 DEF ChildPart, WriteSchema, Settled, Pending, Failure, call
  <2> QED
    BY <1>1, <1>3, <1>4, <2>1, CliGoesOn DEF WriteSchema, call
<1>5. CASE Spawn
  <2>1. ChildPart'
    BY <1>2, <1>3, <1>5 DEF ChildPart, Spawn, Settled, Pending, Failure, call
  <2> QED
    BY <1>1, <1>3, <1>5, <2>1, CliGoesOn DEF Spawn, call
<1>6. CASE SpawnFails
  <2>1. ChildPart'
    BY <1>2, <1>6 DEF ChildPart, SpawnFails, Running, Settled, Pending, Failure, call
  <2> QED
    BY <1>1, <1>3, <1>6, <2>1, CliGoesOn DEF SpawnFails, call
<1>7. CASE OutputArrives
  <2>1. ChildPart' /\ ~Settled
    BY <1>2, <1>7 DEF ChildPart, OutputArrives, Stops, Running, Settled, Pending, Failure, call
  <2> QED
    BY <1>1, <1>3, <1>7, <2>1, CliGoesOn DEF OutputArrives, call
<1>8. CASE Closed
  <2>1. ChildPart'
    BY <1>2, <1>8 DEF ChildPart, Closed, Running, Settled, Pending, Failure, call
  <2> QED
    BY <1>1, <1>3, <1>8, <2>1, CliGoesOn DEF Closed, call
<1>9. CASE TimedOut
  <2>1. ChildPart' /\ ~Settled
    BY <1>2, <1>3, <1>9 DEF ChildPart, TimedOut, Raised, Stops, Running, Settled, Pending, Failure, call
  <2> QED
    BY <1>1, <1>3, <1>9, <2>1, CliGoesOn DEF TimedOut, Raised
<1>10. CASE CliCancel
  <2>1. ChildPart' /\ ~Settled
    BY <1>2, <1>3, <1>10 DEF ChildPart, CliCancel, Raised, Stops, Running, Settled, Pending, Failure, call
  <2> QED
    BY <1>1, <1>3, <1>10, <2>1, CliGoesOn DEF CliCancel, Raised
<1>11. CASE ChildWrites
  <2>1. ChildPart'
    BY <1>2, <1>11 DEF ChildPart, ChildWrites, Settled, Pending, Failure, call
  <2> QED
    BY <1>1, <1>3, <1>11, <2>1, CliGoesOn DEF ChildWrites, call
<1>12. CASE ChildExits
  <2>1. ChildPart'
    BY <1>2, <1>12 DEF ChildPart, ChildExits, Settled, Pending, Failure, call
  <2> QED
    BY <1>1, <1>3, <1>12, <2>1, CliGoesOn DEF ChildExits, call
<1>13. CASE MakePlace
  <2>1. ~Settled /\ place = "none"
    BY <1>13 DEF MakePlace
  <2>2. CASE place' = "made" /\ UNCHANGED outcome
    <3>1. ChildPart'
      BY <1>2, <1>13, <2>1, <2>2 DEF ChildPart, MakePlace, Settled, Pending, Failure
    <3> QED
      BY <1>1, <1>3, <1>13, <2>1, <2>2, <3>1, CliGoesOn DEF MakePlace
  <2>3. CASE outcome' = Failure("file_error") /\ UNCHANGED place
    BY <1>1, <1>13, <2>1, <2>3, CliConcludes DEF MakePlace, Failure
  <2> QED
    BY <1>13, <2>2, <2>3 DEF MakePlace
<1>14. CASE Finish
  <2>1. ~Settled /\ ended # "none"
    BY <1>14 DEF Finish
  <2>2. ASSUME NEW o, Concludes(o), o.kind # "answer",
               signal = "deadline" => o.kind = "timeout_error"
        PROVE  IInv'
    BY <1>1, <2>1, <2>2, CliConcludes DEF Concludes, Failure
  <2>3. CASE ended # "closed" /\ Concludes(Failure(RunnerError))
    <3>1. RunnerError # "answer" /\ (signal = "deadline" => RunnerError = "timeout_error")
      BY <1>2 DEF RunnerError
    <3> QED
      BY <2>2, <2>3, <3>1 DEF Failure
  <2>4. ASSUME NEW code, code # "answer", ended = "closed", Concludes(Failure(code))
        PROVE  IInv'
    BY <1>2, <2>2, <2>4 DEF Failure
  <2>5. CASE /\ ended = "closed" /\ child # "failed" /\ Parsable
             /\ Concludes(Answer(1, IF tools THEN LastLine.calls ELSE {}))
    <3>1. child = "exited" /\ read = Len(script) /\ signal # "deadline"
      BY <1>2, <2>5
    <3>2. AnswerLines # {}
      BY <2>5 DEF Parsable
    <3>3. LastLine = script[Len(script)]
      BY <1>1, <3>1, <3>2, LastLineAnswers DEF IInv
    <3>4. CASE outcome' = Answer(1, IF tools THEN LastLine.calls ELSE {})
      BY <1>1, <2>1, <2>5, <3>1, <3>3, <3>4, CliConcludes DEF Concludes, Answer
    <3>5. CASE outcome' = Failure("file_error")
      BY <1>1, <2>1, <2>5, <3>5, CliConcludes DEF Concludes, Failure
    <3> QED
      BY <2>5, <3>4, <3>5 DEF Concludes
  <2> QED
    BY <1>14, <2>3, <2>4, <2>5 DEF Finish, ExitErrors
<1> QED
  BY <1>4, <1>5, <1>6, <1>7, <1>8, <1>9, <1>10, <1>11, <1>12, <1>13, <1>14, <1>0 DEF CliNext, CliContinues

----------------------------------------------------------------------------
\* IInv is inductive.
THEOREM Invariance == Spec => []IInv
<1>1. Init => IInv
  <2> SUFFICES ASSUME Init PROVE IInv
    OBVIOUS
  <2>1. ~Settled /\ ~Answered /\ signal = "none" /\ child = "none" /\ ended = "none" /\ outcome = Pending
    BY DEF Init, CliInit, Settled, Answered, Pending, Failure
  <2>2. CallPart /\ HttpPart /\ ChildPart
    BY <2>1 DEF Init, HttpInit, CallPart, HttpPart, ChildPart
  <2>3. AnswerIsWhole /\ StopIsNamed
    BY <2>1 DEF AnswerIsWhole, StopIsNamed
  <2>4. StreamPart
    <3> SUFFICES ASSUME adapter \in HttpAdapters
                 PROVE  /\ at \in 0..Len(script)
                        /\ (ready = "chunk" \/ part # 0) => at < Len(script)
                        /\ seen = [text |-> seen.text, named |-> seen.named, args |-> seen.args,
                                   finish |-> seen.finish, done |-> seen.done]
                        /\ seen.finish \in BOOLEAN /\ seen.done \in BOOLEAN
                        /\ seen.text = TextsTo(script, at) /\ seen.named = AskedTo(script, at)
                        /\ (seen.finish \/ seen.done) =>
                              \E i \in 1..at : script[i].type \in {"finish", "done"}
      BY DEF StreamPart
    <3>1. at = 0 /\ part = 0 /\ ready = "none" /\ seen = Nothing
      BY DEF Init, HttpInit
    <3>2. at \in 0..Len(script)
      BY <2>2, <3>1, SentInOrder
    <3>3. TextsTo(script, 0) = 0
      <4>1. {i \in 1..0 : script[i].type = "text"} = {}
        OBVIOUS
      <4> QED
        BY <4>1, FS_EmptySet DEF TextsTo
    <3>4. AskedTo(script, 0) = {}
      BY DEF AskedTo
    <3> QED
      BY <3>1, <3>2, <3>3, <3>4 DEF Nothing
  <2> QED
    BY <2>2, <2>3, <2>4 DEF IInv
<1>2. IInv /\ [Next]_vars => IInv'
  <2> SUFFICES ASSUME IInv, [Next]_vars PROVE IInv'
    OBVIOUS
  <2>1. CASE HttpNext /\ UNCHANGED cli
    BY <2>1, HttpKeeps
  <2>2. CASE CliNext /\ UNCHANGED http
    BY <2>2, CliKeeps
  <2>3. CASE UNCHANGED vars
    BY <2>3 DEF vars, call, http, cli, runner, IInv, CallPart, HttpPart, StreamPart, ChildPart, AnswerIsWhole,
                StopIsNamed, Answered, Settled, Pending, Failure
  <2> QED
    BY <2>1, <2>2, <2>3 DEF Next
<1> QED
  BY <1>1, <1>2, PTL DEF Spec

\* AnswerIsWhole: an answer of the compatible adapter or of a CLI is all of what the model set
\* out to say, wherever the stream was cut and however the child was stopped.  Of Anthropic's and
\* Gemini's adapters, which accept a text that was cut, it claims that no tool call is made up
\* and none has part of its arguments.
THEOREM AnswersAreWhole == Spec => []AnswerIsWhole
<1>1. IInv => AnswerIsWhole
  BY DEF IInv
<1> QED
  BY <1>1, Invariance, PTL

\* StopIsNamed: a call through the compatible adapter that was stopped ends with the reason that
\* came first, and a CLI's call that ran out of time says so, or that its directory could not be
\* removed.  Of the other adapters, and of a CLI's call that was cancelled, it claims nothing.
THEOREM StopsAreNamed == Spec => []StopIsNamed
<1>1. IInv => StopIsNamed
  BY DEF IInv
<1> QED
  BY <1>1, Invariance, PTL

\* ChildIsStopped: no call ends with a child at work that has not been signalled.
THEOREM ChildrenAreStopped == Spec => []ChildIsStopped
<1>1. IInv => ChildIsStopped
  BY TwoTransports DEF IInv, ChildPart, HttpPart, CallPart, ChildIsStopped
<1> QED
  BY <1>1, Invariance, PTL

=============================================================================
