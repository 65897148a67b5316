------------------------- MODULE ExecutorLoopProofs -------------------------
(******************************************************************************)
(* What holds of an attempt of the Executor for every set of calls, files and *)
(* limits: the accounts of its tool calls add up however it ends, no call is  *)
(* run or turned away without need, and an attempt is completed only when     *)
(* that is earned.                                                            *)
(*                                                                            *)
(* The invariant follows a batch.  AccountsPart is the account itself with    *)
(* the calls that are still to come; BatchPart says that what is still to be  *)
(* run was not run at the revision it was asked for at; RunsPart ties what    *)
(* the session has seen to what ran; EarnedPart ties the commands that failed *)
(* to the errors that overrule the model.                                     *)
(******************************************************************************)
EXTENDS ExecutorLoop, TLAPS

SessionFields ==
  {"seen", "observed", "entries", "present", "revision", "count", "noProgress", "idleTurns",
   "providerCalls", "spent"}

Items ==
  [call : Requests, as : {"run", "invalid", "duplicate"}, fingerprint : Requests \X Nat]

IsSession(s) ==
  /\ DOMAIN s = SessionFields
  /\ s.revision \in Nat /\ s.count \in [Categories -> Nat]

Tallies == [requested : Nat, executed : Nat, successful : Nat, failed : Nat, invalid : Nat]

Histories == [runs : [Calls -> Nat], changes : Nat, answered : SUBSET Calls]

TypePart ==
  /\ at \in Points
  /\ IsSession(session) /\ batch \in Seq(Items)
  /\ tally \in Tallies
  /\ ran \in Histories

\* What the loop is at, and what it has then.
PlacePart ==
  /\ at \in {"tool", "command"} => batch # << >>
  /\ at \notin {"tools", "tool", "command", "ended"} => batch = << >>
  /\ at = "ended" <=> result.status # "none"
  /\ at = "ended" => TotalCalls(session) = 0

Running == IF at \in {"tool", "command"} THEN 1 ELSE 0

\* AccountsAdd, and the limit on the calls that were asked for.
AccountsPart ==
  /\ tally.requested = tally.executed + tally.invalid + Len(batch) - Running
  /\ tally.executed = tally.successful + tally.failed + Running
  /\ at # "ended" => /\ TotalCalls(session) + Len(batch) - Running = tally.requested
                     /\ tally.requested <= Limits.calls
  /\ at = "ended" /\ batch # << >> => result.status = "thrown" /\ tally.failed > 0

\* A prepared call was asked for at a revision that has been.
IsPrepared(s, item) ==
  /\ \E r \in 0 .. s.revision :
       /\ item.fingerprint = <<item.call, r>>
       /\ Category(item.call) = "mutation" => r = 0
  /\ item.as = "run" => item.call \in Calls

\* It was run at no revision but earlier ones.
IsNew(s, item) == \A r \in Nat : <<item.call, r>> \in s.seen => r < item.fingerprint[2]

\* A call that is to be run is new and stands in its batch once.
BatchPart ==
  at # "ended" =>
    \A j \in DOMAIN batch :
      /\ IsPrepared(session, batch[j])
      /\ batch[j].as = "run" /\ (j = 1 => at = "tools") =>
           /\ IsNew(session, batch[j])
           /\ \A i \in 1 .. j - 1 : batch[i].call # batch[j].call
      /\ j = 1 /\ at # "tools" => batch[1].as = "run"

\* A call that ran n times ran at revision n - 1 or a later one; a call that is known
\* has run, and one that is known at the last revision since the last change.
RunsPart ==
  /\ ran.changes = session.revision
  /\ \A c \in Calls : ran.runs[c] > 0 =>
       \E r \in 0 .. session.revision :
         /\ ran.runs[c] <= r + 1
         /\ <<c, r>> \in session.seen \/ (Running = 1 /\ Head(batch).fingerprint = <<c, r>>)
  /\ \A c \in Calls, r \in Nat : <<c, r>> \in session.seen =>
       /\ r <= session.revision /\ ran.runs[c] > 0
       /\ Category(c) = "mutation" => r = 0
       /\ r = session.revision /\ Category(c) # "mutation" => c \in ran.answered
  /\ Running = 1 => ran.runs[Current] > 0

\* What failed last is among the errors, which overrule the model.
EarnedPart ==
  /\ failing \subseteq Commands
  /\ at # "ended" => failing \subseteq errors
  /\ decision = "completed" => at = "evidence" /\ errors = {}
  /\ at = "evidence" => decision # "none"
  /\ CompletedIsEarned

IInv == TypePart /\ PlacePart /\ AccountsPart /\ BatchPart /\ RunsPart /\ EarnedPart

\* The calls that were counted are never more than the limit.
CallsAreLimited == TotalCalls(session) <= Limits.calls

----------------------------------------------------------------------------
\* The record of a session.

LEMMA NewSessionFacts ==
  /\ IsSession(NewSession) /\ NewSession.seen = {} /\ NewSession.revision = 0
  /\ TotalCalls(NewSession) = 0
  BY DEF IsSession, SessionFields, NewSession, Categories, TotalCalls

\* A request is counted in one of the categories.
LEMMA AcceptFacts ==
  ASSUME NEW s, NEW call, IsSession(s)
  PROVE  LET t == AcceptRequest(s, call)
         IN /\ IsSession(t) /\ t.seen = s.seen /\ t.revision = s.revision
            /\ TotalCalls(t) = TotalCalls(s) + 1
<1> DEFINE t == AcceptRequest(s, call)
<1>1. Category(call) \in Categories
  BY DEF Category, Categories
<1>2. /\ t = [s EXCEPT !.count = [s.count EXCEPT ![Category(call)] = @ + 1]]
      /\ DOMAIN s = SessionFields
  BY DEF AcceptRequest, IsSession
<1>3. /\ DOMAIN t = SessionFields /\ t.seen = s.seen /\ t.revision = s.revision
      /\ t.count = [s.count EXCEPT ![Category(call)] = @ + 1]
  BY <1>2 DEF SessionFields
<1>4. s.count \in [Categories -> Nat]
  BY DEF IsSession
<1>5. t.count \in [Categories -> Nat] /\ TotalCalls(t) = TotalCalls(s) + 1
  BY <1>1, <1>3, <1>4 DEF TotalCalls, Categories
<1> QED
  BY <1>3, <1>5 DEF IsSession

Keeps(s, t) ==
  IsSession(t) /\ t.seen = s.seen /\ t.revision = s.revision /\ TotalCalls(t) = TotalCalls(s)

\* What else is recorded counts no call, and what was run is never forgotten.
LEMMA RecordFacts ==
  ASSUME NEW s, IsSession(s), NEW x
  PROVE  /\ LET t == NoProgress(s)
            IN Keeps(s, t)
         /\ LET t == FinishRound(s, x)
            IN Keeps(s, t)
         /\ LET t == RecordRequest(s, x)
            IN Keeps(s, t)
<1>1. LET t == NoProgress(s)
      IN Keeps(s, t)
  BY DEF Keeps, NoProgress, IsSession, SessionFields, TotalCalls
<1>2. LET t == FinishRound(s, x)
      IN Keeps(s, t)
  BY DEF Keeps, FinishRound, IsSession, SessionFields, TotalCalls
<1>3. LET t == RecordRequest(s, x)
      IN Keeps(s, t)
  BY DEF Keeps, RecordRequest, IsSession, SessionFields, TotalCalls
<1> QED
  BY <1>1, <1>2, <1>3

LEMMA OutcomeFacts ==
  ASSUME NEW s, IsSession(s), NEW call, NEW fingerprint, NEW outcome
  PROVE  LET t == RecordOutcome(s, call, fingerprint, outcome)
         IN /\ IsSession(t) /\ t.seen = s.seen \union {fingerprint} /\ TotalCalls(t) = TotalCalls(s)
            /\ t.revision = IF outcome.changed = {} THEN s.revision ELSE s.revision + 1
  BY DEF RecordOutcome, IsSession, SessionFields, TotalCalls

\* What the model calls is a batch of prepared items; one to be run is new, and no call
\* before it in the batch is the same.
LEMMA BatchFacts ==
  ASSUME IsSession(session), RunsPart, NEW requests \in Batches
  PROVE  LET b == PreparedBatch(session, requests)
         IN /\ b \in Seq(Items) /\ Len(b) = Len(requests) /\ Len(requests) \in Nat
            /\ \A j \in DOMAIN b :
                 /\ IsPrepared(session, b[j])
                 /\ b[j].as = "run" => /\ IsNew(session, b[j])
                                       /\ \A i \in 1 .. j - 1 : b[i].call # b[j].call
<1> DEFINE b == PreparedBatch(session, requests)
<1>1. PICK n \in 1 .. MaxBatch : requests \in [1 .. n -> Requests]
  BY DEF Batches
<1>2. n \in Nat /\ MaxBatch \in Nat /\ session.revision \in Nat
  BY ExecutorAssumption DEF ExecutorAssumption, IsSession
<1>3. DOMAIN requests = 1 .. n /\ Len(requests) = n /\ DOMAIN b = 1 .. n
  BY <1>1, <1>2 DEF PreparedBatch
<1>4. \A i \in 1 .. n : /\ b[i].call = requests[i] /\ b[i].as = Prepared(session, requests, i)
                        /\ b[i].fingerprint = Fingerprint(session, requests[i])
                        /\ requests[i] \in Requests
  BY <1>1, <1>3 DEF PreparedBatch
<1>5. \A i \in 1 .. n : b[i] \in Items
  <2> TAKE i \in 1 .. n
  <2>1. requests[i] \in Requests
    BY <1>1
  <2>2. Fingerprint(session, requests[i]) \in Requests \X Nat
    BY <1>2, <2>1 DEF Fingerprint
  <2>3. Prepared(session, requests, i) \in {"run", "invalid", "duplicate"}
    BY DEF Prepared
  <2> QED
    BY <1>3, <2>1, <2>2, <2>3 DEF PreparedBatch, Items
<1>6. b \in Seq(Items) /\ Len(b) = n
  <2>1. b = [i \in 1 .. n |-> b[i]]
    BY <1>3 DEF PreparedBatch
  <2> HIDE DEF b
  <2> QED
    BY <1>2, <1>5, <2>1
<1>7. ASSUME NEW j \in 1 .. n
      PROVE  IsPrepared(session, b[j])
  <2> DEFINE r == IF Category(requests[j]) = "mutation" THEN 0 ELSE session.revision
  <2>1. b[j].fingerprint = <<b[j].call, r>> /\ r \in 0 .. session.revision
    BY <1>2, <1>4 DEF Fingerprint
  <2>2. b[j].as = "run" => b[j].call \in Calls
    BY <1>4 DEF Prepared, Requests
  <2> QED
    BY <1>4, <2>1, <2>2 DEF IsPrepared
<1>8. ASSUME NEW j \in 1 .. n, b[j].as = "run"
      PROVE  /\ IsNew(session, b[j])
             /\ \A i \in 1 .. j - 1 : b[i].call # b[j].call
  <2> DEFINE c == requests[j]
  <2>1. /\ Fingerprint(session, c) \notin session.seen /\ c \in Calls
        /\ c \notin {requests[i] : i \in 1 .. j - 1}
    BY <1>4, <1>8 DEF Prepared, Requests
  <2>2. \A i \in 1 .. j - 1 : i \in 1 .. n /\ requests[i] # requests[j]
    BY <1>2, <2>1
  <2>3. ASSUME NEW r \in Nat, <<c, r>> \in session.seen
        PROVE  r < b[j].fingerprint[2]
    <3>1. r <= session.revision /\ (Category(c) = "mutation" => r = 0)
      BY <2>1, <2>3 DEF RunsPart
    <3>2. b[j].fingerprint = <<c, IF Category(c) = "mutation" THEN 0 ELSE session.revision>>
      BY <1>4 DEF Fingerprint
    <3>3. b[j].fingerprint # <<c, r>>
      BY <1>4, <2>1, <2>3
    <3> QED
      BY <1>2, <3>1, <3>2, <3>3
  <2> QED
    BY <1>4, <2>2, <2>3 DEF IsNew
<1> QED
  BY <1>2, <1>3, <1>6, <1>7, <1>8

----------------------------------------------------------------------------
\* The initial states, and the steps.

LEMMA NeverRanFacts ==
  NeverRan \in Histories /\ NeverRan.changes = 0 /\ \A c \in Calls : NeverRan.runs[c] = 0
  BY DEF NeverRan, Histories

LEMMA InitInv == Init => IInv
<1> SUFFICES ASSUME Init PROVE IInv
  OBVIOUS
<1>1. IsSession(session) /\ TotalCalls(session) = 0 /\ session.seen = {} /\ session.revision = 0
  BY NewSessionFacts DEF Init
<1>2. Limits.calls \in Nat
  BY ExecutorAssumption DEF ExecutorAssumption, LimitsAgree, LimitNames
<1>3. TypePart /\ PlacePart
  BY <1>1, NeverRanFacts DEF Init, TypePart, PlacePart, Points, Zero, NoResult, Tallies
<1>4. AccountsPart
  BY <1>1, <1>2 DEF Init, AccountsPart, Zero, Running
<1>5. BatchPart /\ EarnedPart
  BY DEF Init, BatchPart, EarnedPart, CompletedIsEarned, NoResult
<1>6. RunsPart
  BY <1>1, NeverRanFacts DEF Init, RunsPart, Running
<1> QED
  BY <1>3, <1>4, <1>5, <1>6 DEF IInv

\* An attempt that throws leaves its accounts, and calls only behind a tool that failed.
LEMMA ThrowStep ==
  ASSUME NEW counted \in Tallies, NEW left \in Seq(Items), ThrowWith(counted, left),
         counted.requested = counted.executed + counted.invalid + Len(left),
         counted.executed = counted.successful + counted.failed,
         left # << >> => counted.failed > 0
  PROVE  IInv'
<1>1. /\ at' = "ended" /\ result' = Thrown /\ tally' = counted /\ failing' = {}
      /\ session' = NewSession /\ batch' = left /\ decision' = "none" /\ ran' = NeverRan
  BY DEF ThrowWith, Forget
<1>2. TypePart' /\ PlacePart'
  BY <1>1, NewSessionFacts, NeverRanFacts DEF TypePart, PlacePart, Points, Thrown
<1>3. BatchPart' /\ EarnedPart'
  BY <1>1 DEF BatchPart, EarnedPart, CompletedIsEarned, Thrown
<1>4. Running' = 0
  BY <1>1 DEF Running
<1>5. RunsPart'
  BY <1>1, <1>4, NewSessionFacts, NeverRanFacts DEF RunsPart
<1>6. AccountsPart'
  <2>1. Len(left) \in Nat
    OBVIOUS
  <2>2. /\ counted.requested \in Nat /\ counted.executed \in Nat /\ counted.invalid \in Nat
        /\ counted.successful \in Nat /\ counted.failed \in Nat
    BY DEF Tallies
  <2> QED
    BY <1>1, <1>4, <2>1, <2>2 DEF AccountsPart, Thrown
<1> QED
  BY <1>2, <1>3, <1>5, <1>6 DEF IInv

\* Between batches it leaves none.
LEMMA PlainThrow ==
  ASSUME IInv, at # "ended", batch = << >>, at \notin {"tool", "command"}, Throw
  PROVE  IInv'
<1>1. /\ tally \in Tallies /\ AccountsPart /\ Running = 0 /\ Len(batch) = 0
  BY DEF IInv, TypePart, Running
<1>2. /\ tally.requested \in Nat /\ tally.executed \in Nat /\ tally.invalid \in Nat
      /\ tally.successful \in Nat /\ tally.failed \in Nat
  BY <1>1 DEF Tallies
<1>3. /\ tally.requested = tally.executed + tally.invalid + 0
      /\ tally.executed = tally.successful + tally.failed
  BY <1>1, <1>2 DEF AccountsPart
<1>4. << >> \in Seq(Items) /\ Len(<< >>) = 0 /\ ThrowWith(tally, << >>)
  BY DEF Throw
<1> QED
  BY <1>1, <1>3, <1>4, ThrowStep

\* What BatchPart and RunsPart say depends on what was seen, and on the batch.
LEMMA BatchFrame ==
  ASSUME BatchPart, at' = at, batch' = batch, session'.seen = session.seen,
         session'.revision = session.revision
  PROVE  BatchPart'
<1>1. ASSUME NEW item PROVE /\ IsPrepared(session, item) <=> IsPrepared(session', item)
                            /\ IsNew(session, item) <=> IsNew(session', item)
  BY DEF IsPrepared, IsNew
<1> QED
  BY <1>1 DEF BatchPart

LEMMA RunsFrame ==
  ASSUME RunsPart, ran' = ran, session'.seen = session.seen, session'.revision = session.revision,
         Running' = Running, Running = 0 \/ batch' = batch
  PROVE  RunsPart'
<1>1. ASSUME NEW c \in Calls, ran.runs[c] > 0
      PROVE  \E r \in 0 .. session'.revision :
               /\ ran.runs[c] <= r + 1
               /\ <<c, r>> \in session'.seen \/ (Running' = 1 /\ Head(batch').fingerprint = <<c, r>>)
  <2>1. PICK q \in 0 .. session.revision :
          /\ ran.runs[c] <= q + 1
          /\ <<c, q>> \in session.seen \/ (Running = 1 /\ Head(batch).fingerprint = <<c, q>>)
    BY <1>1 DEF RunsPart
  <2>2. q \in 0 .. session'.revision
    OBVIOUS
  <2>3. <<c, q>> \in session'.seen \/ (Running' = 1 /\ Head(batch').fingerprint = <<c, q>>)
    <3>1. CASE <<c, q>> \in session.seen
      BY <3>1
    <3>2. CASE Running = 1 /\ Head(batch).fingerprint = <<c, q>>
      <4>1. batch' = batch /\ Running' = 1
        BY <3>2
      <4> QED
        BY <3>2, <4>1
    <3> QED
      BY <2>1, <3>1, <3>2
  <2> QED
    BY <2>1, <2>2, <2>3
<1>2. Running' = 1 => ran'.runs[Current'] > 0
  BY DEF RunsPart, Current
<1> QED
  BY <1>1, <1>2 DEF RunsPart

\* A step that counts no call and ends nothing, between rounds unless it stays at its
\* await.
LEMMA QuietStep ==
  ASSUME IInv, UNCHANGED <<batch, tally, result, failing, errors, ran>>, at # "ended",
         Keeps(session, session'),
         at' = at \/ (at' \in Points \ {"tool", "command", "ended"} /\ batch = << >>
                        /\ at \notin {"tool", "command"}),
         decision' = "completed" => at' = "evidence" /\ errors = {},
         at' = "evidence" => decision' # "none"
  PROVE  IInv'
<1> USE DEF Keeps
<1>1. TypePart' /\ PlacePart'
  BY DEF IInv, TypePart, PlacePart
<1>2. Running' = Running
  BY DEF Running
<1>3. AccountsPart'
  BY <1>2 DEF IInv, AccountsPart, PlacePart
<1>4. BatchPart'
  <2>1. CASE at' = at
    BY <2>1, BatchFrame DEF IInv
  <2>2. CASE batch = << >>
    BY <2>2 DEF BatchPart
  <2> QED
    BY <2>1, <2>2
<1>5. result.status = "none"
  BY DEF IInv, PlacePart
<1>6. RunsPart'
  BY <1>2, RunsFrame DEF IInv
<1>7. EarnedPart'
  BY <1>5 DEF IInv, EarnedPart, CompletedIsEarned
<1> QED
  BY <1>1, <1>3, <1>4, <1>6, <1>7 DEF IInv

LEMMA QuietSteps ==
  ASSUME IInv, \/ ResolveModel \/ TakeBaseline \/ Abort
               \/ \E files \in Workspaces : Edit(files)
               \/ \E said \in {"completed", "failed"} : Decide(said)
  PROVE  IInv'
<1>1. /\ UNCHANGED <<batch, tally, result, failing, errors, session, ran>> /\ at # "ended"
      /\ \/ at' = at /\ decision' = decision
         \/ /\ at \in {"resolving", "baseline", "generating"}
            /\ at' \in {"baseline", "checkpoint", "evidence"}
            /\ \/ at' # "evidence" /\ decision' = decision
               \/ at' = "evidence" /\ decision' # "none" /\ (decision' = "completed" => errors = {})
  BY DEF ResolveModel, TakeBaseline, Abort, Edit, Decide, loopVars
<1>2. /\ IsSession(session) /\ (decision = "completed" => at = "evidence" /\ errors = {})
      /\ at = "evidence" => decision # "none"
      /\ at \notin {"tools", "tool", "command", "ended"} => batch = << >>
  BY DEF IInv, TypePart, PlacePart, EarnedPart
<1>3. Keeps(session, session')
  BY <1>1, <1>2 DEF Keeps
<1> QED
  BY <1>1, <1>2, <1>3, QuietStep DEF Points

LEMMA RequestStep ==
  ASSUME IInv, NEW present, Request(present)
  PROVE  IInv'
<1> DEFINE kept == [session EXCEPT !.present = present, !.entries = SubSeq(@, Drops + 1, Len(@))]
           size == SizeWith(Drops, Sent)
<1>1. /\ UNCHANGED <<batch, tally, result, failing, errors, decision, ran>>
      /\ at = "checkpoint" /\ at' = "generating" /\ session' = RecordRequest(kept, size)
  BY DEF Request
<1>2. /\ IsSession(session) /\ (decision = "completed" => at = "evidence" /\ errors = {})
      /\ at = "evidence" => decision # "none"
      /\ at \notin {"tools", "tool", "command", "ended"} => batch = << >>
  BY DEF IInv, TypePart, PlacePart, EarnedPart
<1>3. Keeps(session, kept)
  BY <1>2 DEF Keeps, IsSession, SessionFields, TotalCalls
<1> HIDE DEF kept, size
<1>4. Keeps(session, session')
  BY <1>1, <1>3, RecordFacts DEF Keeps
<1> QED
  BY <1>1, <1>2, <1>4, QuietStep DEF Points

LEMMA EndRoundStep ==
  ASSUME IInv, EndRound
  PROVE  IInv'
<1> DEFINE finished == FinishRound(session, latest.progress)
<1>1. CASE Throw
  BY <1>1, PlainThrow DEF EndRound
<1>2. CASE ~Throw
  <2>1. /\ UNCHANGED <<batch, tally, result, failing, errors, decision, ran>>
        /\ at = "tools" /\ batch = << >> /\ at' = "checkpoint" /\ session' = finished
    BY <1>2 DEF EndRound
  <2>2. IsSession(session) /\ (decision = "completed" => at = "evidence" /\ errors = {})
    BY DEF IInv, TypePart, EarnedPart
  <2>3. Keeps(session, finished)
    BY <2>2, RecordFacts
  <2> HIDE DEF finished
  <2> QED
    BY <2>1, <2>2, <2>3, QuietStep DEF Points
<1> QED
  BY <1>1, <1>2

\* A batch that is turned away is counted as a whole; one that is accepted comes on top
\* of what was counted.
LEMMA CallToolsStep ==
  ASSUME IInv, NEW requests \in Batches, NEW tooMany, NEW sameId, CallTools(requests, tooMany, sameId)
  PROVE  IInv'
<1>1. /\ at = "generating" /\ batch = << >> /\ result.status = "none" /\ tally \in Tallies
      /\ TypePart /\ PlacePart /\ AccountsPart /\ RunsPart /\ EarnedPart /\ IsSession(session)
  BY DEF CallTools, IInv, TypePart, PlacePart
<1>2. Running = 0 /\ Len(batch) = 0
  BY <1>1 DEF Running
<1>3. /\ tally.requested \in Nat /\ tally.executed \in Nat /\ tally.invalid \in Nat
      /\ tally.successful \in Nat /\ tally.failed \in Nat
  BY <1>1 DEF Tallies
<1> DEFINE b == PreparedBatch(session, requests)
<1>4. /\ b \in Seq(Items) /\ Len(b) = Len(requests) /\ Len(requests) \in Nat
      /\ \A j \in DOMAIN b :
           /\ IsPrepared(session, b[j])
           /\ b[j].as = "run" => /\ IsNew(session, b[j])
                                 /\ \A i \in 1 .. j - 1 : b[i].call # b[j].call
  BY <1>1, BatchFacts
<1> HIDE DEF b
<1>5. CASE ThrowWith(TurnedAway(Len(requests)), << >>)
  <2> DEFINE counted == TurnedAway(Len(requests))
  <2>1. /\ counted \in Tallies
        /\ counted.requested = tally.requested + Len(requests)
        /\ counted.invalid = tally.invalid + Len(requests)
        /\ counted.executed = tally.executed /\ counted.successful = tally.successful
        /\ counted.failed = tally.failed
    BY <1>1, <1>3, <1>4 DEF TurnedAway, Count, Tallies
  <2>2. /\ tally.requested = tally.executed + tally.invalid + 0
        /\ tally.executed = tally.successful + tally.failed
    BY <1>1, <1>2, <1>3 DEF AccountsPart
  <2>3. << >> \in Seq(Items) /\ Len(<< >>) = 0
    OBVIOUS
  <2> HIDE DEF counted
  <2>4. /\ counted.requested = counted.executed + counted.invalid + 0
        /\ counted.executed = counted.successful + counted.failed
    BY <1>3, <1>4, <2>1, <2>2
  <2>5. ThrowWith(counted, << >>)
    BY <1>5 DEF counted
  <2> QED
    BY <2>1, <2>3, <2>4, <2>5, ThrowStep
<1>6. CASE ~ThrowWith(TurnedAway(Len(requests)), << >>)
  <2>1. /\ UNCHANGED <<session, result, failing, errors, decision, ran>> /\ at' = "tools"
        /\ tally' = Count(tally, {"requested"}, Len(requests)) /\ batch' = b
        /\ WithinCallLimits(session, requests)
    BY <1>6 DEF CallTools, loopVars, b
  <2>4. /\ tally' \in Tallies
        /\ tally'.requested = tally.requested + Len(b) /\ tally'.executed = tally.executed
        /\ tally'.invalid = tally.invalid /\ tally'.successful = tally.successful
        /\ tally'.failed = tally.failed
    BY <1>1, <1>3, <1>4, <2>1 DEF Count, Tallies
  <2>5. TypePart' /\ PlacePart'
    BY <1>1, <1>4, <2>1, <2>4 DEF TypePart, PlacePart, Points
  <2>6. TotalCalls(session) + Len(b) <= Limits.calls
    BY <1>4, <2>1 DEF WithinCallLimits
  <2>7. Running' = 0
    BY <2>1 DEF Running
  <2>8. TotalCalls(session) \in Nat
    BY <1>1 DEF IsSession, TotalCalls, Categories
  <2>9. AccountsPart'
    BY <1>1, <1>2, <1>3, <1>4, <2>1, <2>4, <2>6, <2>7, <2>8 DEF AccountsPart
  <2>10. BatchPart'
    BY <1>4, <2>1 DEF BatchPart
  <2>11. RunsPart'
    BY <1>1, <1>2, <2>1, <2>7, RunsFrame
  <2>12. EarnedPart'
    BY <1>1, <2>1 DEF EarnedPart, CompletedIsEarned
  <2> QED
    BY <2>5, <2>9, <2>10, <2>11, <2>12 DEF IInv
<1> QED
  BY <1>5, <1>6

\* What is left of a batch when its first item is gone.
LEMMA TailFacts ==
  ASSUME TypePart, batch # << >>
  PROVE  /\ Tail(batch) \in Seq(Items) /\ Head(batch) = batch[1] /\ batch[1] \in Items
         /\ Len(batch) \in Nat \ {0} /\ Len(Tail(batch)) = Len(batch) - 1
         /\ DOMAIN batch = 1 .. Len(batch) /\ DOMAIN Tail(batch) = 1 .. Len(batch) - 1
         /\ \A i \in 1 .. Len(batch) - 1 : Tail(batch)[i] = batch[i + 1]
  BY DEF TypePart

\* What is left of a batch stays to be run, when the first item is remembered at most.
LEMMA BatchStep ==
  ASSUME TypePart, BatchPart, at # "ended", at' = "tools", batch # << >>, batch' = Tail(batch),
         session'.seen \subseteq session.seen \union {Head(batch).fingerprint},
         session.revision \in Nat, session'.revision \in Nat, session.revision <= session'.revision
  PROVE  BatchPart'
<1> SUFFICES ASSUME NEW j \in DOMAIN Tail(batch)
             PROVE  /\ IsPrepared(session', Tail(batch)[j])
                    /\ Tail(batch)[j].as = "run" =>
                         /\ IsNew(session', Tail(batch)[j])
                         /\ \A i \in 1 .. j - 1 : Tail(batch)[i].call # Tail(batch)[j].call
  BY DEF BatchPart
<1>1. j \in 1 .. Len(batch) - 1 /\ j + 1 \in DOMAIN batch /\ j + 1 # 1 /\ Len(batch) \in Nat
      /\ 1 \in DOMAIN batch
  BY TailFacts
<1>2. /\ Tail(batch)[j] = batch[j + 1]
      /\ \A i \in 1 .. j - 1 : Tail(batch)[i] = batch[i + 1]
  BY <1>1, TailFacts
<1>3. IsPrepared(session, batch[1]) /\ IsPrepared(session, batch[j + 1])
  BY <1>1 DEF BatchPart
<1>4. IsPrepared(session', Tail(batch)[j])
  <2>1. PICK r \in 0 .. session.revision :
          /\ batch[j + 1].fingerprint = <<batch[j + 1].call, r>>
          /\ Category(batch[j + 1].call) = "mutation" => r = 0
    BY <1>3 DEF IsPrepared
  <2>2. r \in 0 .. session'.revision
    OBVIOUS
  <2> QED
    BY <1>2, <1>3, <2>1, <2>2 DEF IsPrepared
<1>5. ASSUME batch[j + 1].as = "run"
      PROVE  /\ IsNew(session', batch[j + 1])
             /\ \A i \in 1 .. j - 1 : Tail(batch)[i].call # batch[j + 1].call
  <2>1. /\ IsNew(session, batch[j + 1])
        /\ \A i \in 1 .. (j + 1) - 1 : batch[i].call # batch[j + 1].call
    BY <1>1, <1>5 DEF BatchPart
  <2>2. 1 \in 1 .. (j + 1) - 1 /\ \A i \in 1 .. j - 1 : i + 1 \in 1 .. (j + 1) - 1
    BY <1>1
  <2>3. batch[1].call # batch[j + 1].call /\ Head(batch) = batch[1]
    BY <2>1, <2>2, TailFacts
  <2>4. \A r \in Nat : Head(batch).fingerprint # <<batch[j + 1].call, r>>
    BY <1>3, <2>3 DEF IsPrepared
  <2> QED
    BY <1>2, <2>1, <2>2, <2>4 DEF IsNew
<1> QED
  BY <1>2, <1>4, <1>5

\* A call that is turned away or that starts moves from what is to come to what was.
LEMMA Moved ==
  \A r, e, i \in Nat, n \in Nat \ {0} :
    r = e + i + n => r = e + (i + 1) + (n - 1) /\ r = (e + 1) + i + n - 1
  OBVIOUS

LEMMA SkipStep ==
  ASSUME IInv, Skip
  PROVE  IInv'
<1>1. /\ at = "tools" /\ batch # << >> /\ batch' = Tail(batch) /\ session' = NoProgress(Accepted)
      /\ tally' = Count(tally, {"invalid"}, 1)
      /\ UNCHANGED <<at, result, failing, errors, decision, ran>>
  BY DEF Skip, loopVars
<1>2. /\ TypePart /\ PlacePart /\ AccountsPart /\ BatchPart /\ RunsPart /\ EarnedPart /\ IsSession(session)
      /\ result.status = "none"
      /\ tally \in Tallies
  BY <1>1 DEF IInv, TypePart, PlacePart
<1>3. /\ IsSession(Accepted) /\ Accepted.seen = session.seen
      /\ Accepted.revision = session.revision /\ TotalCalls(Accepted) = TotalCalls(session) + 1
  BY <1>2, AcceptFacts DEF Accepted
<1>4. /\ IsSession(session') /\ session'.seen = session.seen
      /\ session'.revision = session.revision /\ TotalCalls(session') = TotalCalls(session) + 1
  BY <1>1, <1>3, RecordFacts DEF Keeps
<1>5. /\ tally' \in Tallies
      /\ tally'.requested = tally.requested /\ tally'.executed = tally.executed
      /\ tally'.invalid = tally.invalid + 1 /\ tally'.successful = tally.successful
      /\ tally'.failed = tally.failed
  BY <1>1, <1>2 DEF Count, Tallies
<1>6. TypePart' /\ PlacePart'
  BY <1>1, <1>2, <1>4, <1>5, TailFacts DEF TypePart, PlacePart
<1>7. Running = 0 /\ Running' = 0 /\ TotalCalls(session) \in Nat
  BY <1>1, <1>2 DEF Running, IsSession, TotalCalls, Categories
<1>8. AccountsPart'
  <2>1. Len(batch) \in Nat \ {0} /\ Len(batch') = Len(batch) - 1
    BY <1>1, <1>2, TailFacts
  <2>3. /\ tally.requested = tally.executed + tally.invalid + Len(batch) - Running
        /\ tally.executed = tally.successful + tally.failed + Running
        /\ TotalCalls(session) + Len(batch) - Running = tally.requested
        /\ tally.requested <= Limits.calls
    BY <1>1, <1>2 DEF AccountsPart
  <2>4. /\ tally.requested \in Nat /\ tally.executed \in Nat /\ tally.invalid \in Nat
        /\ tally.successful \in Nat /\ tally.failed \in Nat
    BY <1>2 DEF Tallies
  <2>5. /\ tally.requested = tally.executed + tally.invalid + Len(batch) - 0
        /\ tally.executed = tally.successful + tally.failed + 0
        /\ TotalCalls(session) + Len(batch) - 0 = tally.requested
    BY <1>4, <1>5, <1>7, <2>3
  <2>6. tally'.requested = tally'.executed + tally'.invalid + Len(batch') - 0
    <3>1. tally.requested = tally.executed + tally.invalid + Len(batch)
      BY <2>1, <2>4, <2>5
    <3>2. tally.requested = tally.executed + (tally.invalid + 1) + (Len(batch) - 1)
      BY <2>1, <2>4, <3>1, Moved
    <3> QED
      BY <1>5, <2>1, <2>4, <3>2
  <2>7. tally'.executed = tally'.successful + tally'.failed + 0
    BY <1>4, <1>5, <1>7, <2>1, <2>4, <2>5
  <2>8. TotalCalls(session') + Len(batch') - 0 = tally'.requested
    BY <1>4, <1>5, <1>7, <2>1, <2>4, <2>5
  <2>9. tally'.requested <= Limits.calls
    BY <1>4, <1>5, <1>7, <2>3
  <2> QED
    BY <1>4, <1>5, <1>7, <1>1, <2>6, <2>7, <2>8, <2>9 DEF AccountsPart
<1>9. BatchPart'
  <2>1. session.revision \in Nat /\ at' = "tools"
    BY <1>1, <1>2 DEF IsSession
  <2> QED
    BY <1>1, <1>2, <1>4, <2>1, BatchStep
<1>10. RunsPart'
  BY <1>1, <1>2, <1>4, <1>7, RunsFrame
<1>11. EarnedPart'
  BY <1>1, <1>2 DEF EarnedPart, CompletedIsEarned
<1> QED
  BY <1>6, <1>8, <1>9, <1>10, <1>11 DEF IInv

\* A call that is new at a revision has run no more often than there were ones before.
LEMMA StartsAnew ==
  ASSUME RunsPart, Running = 0, Current \in Calls, ran.runs[Current] \in Nat,
         batch[1].call = Current, IsNew(session, batch[1]), session.revision \in Nat,
         NEW r \in Nat, batch[1].fingerprint = <<Current, r>>
  PROVE  ran.runs[Current] <= r
<1> SUFFICES ASSUME ran.runs[Current] > 0 PROVE ran.runs[Current] <= r
  OBVIOUS
<1>1. PICK q \in 0 .. session.revision :
        ran.runs[Current] <= q + 1 /\ <<Current, q>> \in session.seen
  BY DEF RunsPart
<1>2. q \in Nat /\ q < r
  BY <1>1 DEF IsNew
<1> QED
  BY <1>1, <1>2

LEMMA StartToolStep ==
  ASSUME IInv, StartTool
  PROVE  IInv'
<1>1. /\ at = "tools" /\ batch # << >> /\ batch' = batch /\ session' = Accepted
      /\ at' \in {"tool", "command"}
      /\ tally' = Count(tally, {"executed"}, 1)
      /\ ran' = [ran EXCEPT !.runs[Current] = @ + 1] /\ Head(batch).as = "run"
      /\ UNCHANGED <<result, failing, errors, decision>>
  BY DEF StartTool, loopVars
<1>2. /\ TypePart /\ PlacePart /\ AccountsPart /\ BatchPart /\ RunsPart /\ EarnedPart /\ IsSession(session)
      /\ result.status = "none"
      /\ tally \in Tallies
  BY <1>1 DEF IInv, TypePart, PlacePart
<1>3. /\ IsSession(session') /\ session'.seen = session.seen
      /\ session'.revision = session.revision /\ TotalCalls(session') = TotalCalls(session) + 1
  BY <1>1, <1>2, AcceptFacts DEF Accepted
<1>11. /\ Current \in Calls /\ Head(batch) = batch[1] /\ 1 \in DOMAIN batch
       /\ IsPrepared(session, batch[1]) /\ IsNew(session, batch[1]) /\ batch[1].call = Current
  BY <1>1, <1>2, TailFacts DEF BatchPart, IsPrepared, Current
<1>12. /\ ran' \in Histories /\ ran'.changes = ran.changes /\ ran'.answered = ran.answered
       /\ ran.runs[Current] \in Nat /\ ran'.runs[Current] = ran.runs[Current] + 1
       /\ \A c \in Calls : c # Current => ran'.runs[c] = ran.runs[c]
  <2>1. ran \in Histories
    BY <1>2 DEF TypePart
  <2> QED
    <3>1. /\ ran' = [ran EXCEPT !.runs = [ran.runs EXCEPT ![Current] = @ + 1]]
          /\ ran.runs \in [Calls -> Nat]
      BY <1>1, <2>1 DEF Histories
    <3>2. /\ ran'.runs = [ran.runs EXCEPT ![Current] = @ + 1]
          /\ ran'.changes = ran.changes /\ ran'.answered = ran.answered
          /\ DOMAIN ran' = {"runs", "changes", "answered"}
      BY <2>1, <3>1 DEF Histories
    <3>3. /\ ran'.runs \in [Calls -> Nat] /\ ran.runs[Current] \in Nat
          /\ ran'.runs[Current] = ran.runs[Current] + 1
          /\ \A c \in Calls : c # Current => ran'.runs[c] = ran.runs[c]
      BY <1>11, <3>1, <3>2
    <3>4. ran' \in Histories
      BY <2>1, <3>1, <3>3 DEF Histories
    <3> QED
      BY <3>2, <3>3, <3>4
<1>4. /\ tally' \in Tallies
      /\ tally'.requested = tally.requested /\ tally'.executed = tally.executed + 1
      /\ tally'.invalid = tally.invalid /\ tally'.successful = tally.successful
      /\ tally'.failed = tally.failed
  BY <1>1, <1>2 DEF Count, Tallies
<1>5. TypePart' /\ PlacePart'
  BY <1>1, <1>2, <1>3, <1>4, <1>12 DEF TypePart, PlacePart, Points
<1>6. Running = 0 /\ Running' = 1 /\ TotalCalls(session) \in Nat
  BY <1>1, <1>2 DEF Running, IsSession, TotalCalls, Categories
<1>7. AccountsPart'
  <2>1. Len(batch) \in Nat \ {0} /\ Len(batch') = Len(batch)
    BY <1>1, <1>2, TailFacts
  <2>3. /\ tally.requested = tally.executed + tally.invalid + Len(batch) - Running
        /\ tally.executed = tally.successful + tally.failed + Running
        /\ TotalCalls(session) + Len(batch) - Running = tally.requested
        /\ tally.requested <= Limits.calls
    BY <1>1, <1>2 DEF AccountsPart
  <2>4. /\ tally.requested \in Nat /\ tally.executed \in Nat /\ tally.invalid \in Nat
        /\ tally.successful \in Nat /\ tally.failed \in Nat
    BY <1>2 DEF Tallies
  <2>5. /\ tally.requested = tally.executed + tally.invalid + Len(batch) - 0
        /\ tally.executed = tally.successful + tally.failed + 0
        /\ TotalCalls(session) + Len(batch) - 0 = tally.requested
    BY <1>3, <1>4, <1>6, <2>3
  <2>6. tally'.requested = tally'.executed + tally'.invalid + Len(batch') - 1
    <3>1. tally.requested = tally.executed + tally.invalid + Len(batch)
      BY <2>1, <2>4, <2>5
    <3>2. tally.requested = (tally.executed + 1) + tally.invalid + Len(batch) - 1
      BY <2>1, <2>4, <3>1, Moved
    <3> QED
      BY <1>4, <2>1, <2>4, <3>2
  <2>7. tally'.executed = tally'.successful + tally'.failed + 1
    BY <1>3, <1>4, <1>6, <2>1, <2>4, <2>5
  <2>8. TotalCalls(session') + Len(batch') - 1 = tally'.requested
    <3>1. TotalCalls(session') = TotalCalls(session) + 1 /\ Len(batch') = Len(batch)
      BY <1>1, <1>3
    <3>2. TotalCalls(session) + Len(batch) = tally.requested
      BY <1>6, <2>1, <2>4, <2>5
    <3> QED
      BY <1>4, <1>6, <2>1, <3>1, <3>2
  <2>9. tally'.requested <= Limits.calls
    BY <1>3, <1>4, <1>6, <2>3
  <2> QED
    BY <1>3, <1>4, <1>6, <1>1, <2>6, <2>7, <2>8, <2>9 DEF AccountsPart
<1>8. BatchPart'
  <2>1. \A item : /\ IsPrepared(session, item) => IsPrepared(session', item)
                  /\ IsNew(session, item) => IsNew(session', item)
    BY <1>3 DEF IsPrepared, IsNew
  <2> QED
    BY <1>1, <1>2, <2>1 DEF BatchPart
<1>9. EarnedPart'
  BY <1>1, <1>2 DEF EarnedPart, CompletedIsEarned
<1>10. RunsPart'
  <2>1. PICK r \in 0 .. session.revision : batch[1].fingerprint = <<Current, r>>
    BY <1>11 DEF IsPrepared
  <2>2. session.revision \in Nat /\ r \in Nat
    BY <1>2, <2>1 DEF IsSession
  <2>3. ran.runs[Current] <= r
    BY <1>6, <1>11, <1>12, <1>2, <2>1, <2>2, StartsAnew
  <2>4. Head(batch').fingerprint = <<Current, r>> /\ Current' = Current
    BY <1>1, <1>11, <2>1 DEF Current
  <2>5. ASSUME NEW c \in Calls, ran'.runs[c] > 0
        PROVE  \E q \in 0 .. session'.revision :
                 /\ ran'.runs[c] <= q + 1
                 /\ <<c, q>> \in session'.seen \/ (Running' = 1 /\ Head(batch').fingerprint = <<c, q>>)
    <3>1. CASE c = Current
      BY <1>3, <1>6, <1>12, <2>1, <2>2, <2>3, <2>4, <3>1
    <3>2. CASE c # Current
      <4>1. ran.runs[c] > 0 /\ ran'.runs[c] = ran.runs[c]
        BY <1>12, <2>5, <3>2
      <4>2. PICK p \in 0 .. session.revision : ran.runs[c] <= p + 1 /\ <<c, p>> \in session.seen
        BY <1>2, <1>6, <4>1 DEF RunsPart
      <4>3. p \in 0 .. session'.revision /\ <<c, p>> \in session'.seen /\ ran'.runs[c] <= p + 1
        BY <1>3, <4>1, <4>2
      <4> QED
        BY <4>3
    <3> QED
      BY <3>1, <3>2
  <2>6. ASSUME NEW c \in Calls, NEW q \in Nat, <<c, q>> \in session'.seen
        PROVE  /\ q <= session'.revision /\ ran'.runs[c] > 0
               /\ Category(c) = "mutation" => q = 0
               /\ q = session'.revision /\ Category(c) # "mutation" => c \in ran'.answered
    <3>1. ran'.runs[c] > 0
      BY <1>2, <1>3, <1>12, <2>6 DEF RunsPart
    <3> QED
      BY <1>2, <1>3, <1>12, <2>6, <3>1 DEF RunsPart
  <2>7. ran'.changes = session'.revision /\ ran'.runs[Current'] > 0
    BY <1>2, <1>3, <1>12, <2>4 DEF RunsPart
  <2> QED
    BY <2>5, <2>6, <2>7 DEF RunsPart
<1> QED
  BY <1>5, <1>7, <1>8, <1>9, <1>10 DEF IInv

\* An error is noted under a key of its own; a success takes the same key away.
LEMMA RecordStep ==
  ASSUME IInv, NEW outcome, at \in {"tool", "command"}, Record(outcome)
  PROVE  IInv'
<1>1. /\ batch' = Tail(batch) /\ at' = "tools"
      /\ session' = RecordOutcome(session, Current, Head(batch).fingerprint, outcome)
      /\ tally' = Count(tally, {IF outcome.error THEN "failed" ELSE "successful"}, 1)
      /\ errors' = Noted(outcome)
      /\ failing' = IF outcome.error THEN failing \union ({Current} \intersect Commands)
                    ELSE failing \ {Current}
      /\ ran' = IF outcome.changed = {} THEN [ran EXCEPT !.answered = @ \union {Current}]
                ELSE [ran EXCEPT !.changes = @ + 1, !.answered = {}]
      /\ UNCHANGED <<result, decision>>
  BY DEF Record, loopVars
<1>2. /\ TypePart /\ PlacePart /\ AccountsPart /\ BatchPart /\ RunsPart /\ EarnedPart /\ IsSession(session)
      /\ result.status = "none" /\ batch # << >>
      /\ tally \in Tallies
  BY DEF IInv, TypePart, PlacePart
<1>3. /\ IsSession(session') /\ session'.seen = session.seen \union {Head(batch).fingerprint}
      /\ TotalCalls(session') = TotalCalls(session)
      /\ session'.revision = IF outcome.changed = {} THEN session.revision ELSE session.revision + 1
  BY <1>1, <1>2, OutcomeFacts
<1>11. /\ Current \in Calls /\ Head(batch) = batch[1] /\ IsPrepared(session, batch[1])
       /\ batch[1].call = Current
  BY <1>2, TailFacts DEF BatchPart, IsPrepared, Current
<1>12. /\ ran' \in Histories /\ ran'.runs = ran.runs /\ ran.changes \in Nat
       /\ ran'.changes = IF outcome.changed = {} THEN ran.changes ELSE ran.changes + 1
       /\ outcome.changed = {} => ran'.answered = ran.answered \union {Current}
  <2>1. ran \in Histories
    BY <1>2 DEF TypePart
  <2>2. CASE outcome.changed = {}
    BY <1>1, <1>11, <2>1, <2>2 DEF Histories
  <2>3. CASE outcome.changed # {}
    <3>1. ran' = [ran EXCEPT !.changes = @ + 1, !.answered = {}]
      BY <1>1, <2>3
    <3>2. /\ ran.runs \in [Calls -> Nat] /\ ran.changes \in Nat
          /\ ran' = [runs |-> ran.runs, changes |-> ran.changes + 1, answered |-> {}]
      BY <2>1, <3>1 DEF Histories
    <3> QED
      BY <2>3, <3>2 DEF Histories
  <2> QED
    BY <2>2, <2>3
<1>4. /\ tally' \in Tallies
      /\ tally'.requested = tally.requested /\ tally'.executed = tally.executed
      /\ tally'.invalid = tally.invalid
      /\ tally'.successful + tally'.failed = tally.successful + tally.failed + 1
  <2>1. tally' = Count(tally, {"failed"}, 1) \/ tally' = Count(tally, {"successful"}, 1)
    BY <1>1
  <2>2. CASE tally' = Count(tally, {"failed"}, 1)
    BY <1>2, <2>2 DEF Count, Tallies
  <2>3. CASE tally' = Count(tally, {"successful"}, 1)
    BY <1>2, <2>3 DEF Count, Tallies
  <2> QED
    BY <2>1, <2>2, <2>3
<1>5. TypePart' /\ PlacePart'
  BY <1>1, <1>2, <1>3, <1>4, <1>12, TailFacts DEF TypePart, PlacePart, Points
<1>6. Running = 1 /\ Running' = 0 /\ TotalCalls(session) \in Nat
  BY <1>1, <1>2 DEF Running, IsSession, TotalCalls, Categories
<1>7. AccountsPart'
  <2>1. Len(batch) \in Nat \ {0} /\ Len(batch') = Len(batch) - 1
    BY <1>1, <1>2, TailFacts
  <2>2. tally'.successful \in Nat /\ tally'.failed \in Nat
    BY <1>4 DEF Tallies
  <2>3. /\ tally.requested = tally.executed + tally.invalid + Len(batch) - Running
        /\ tally.executed = tally.successful + tally.failed + Running
        /\ TotalCalls(session) + Len(batch) - Running = tally.requested
        /\ tally.requested <= Limits.calls
    BY <1>1, <1>2 DEF AccountsPart
  <2>4. /\ tally.requested \in Nat /\ tally.executed \in Nat /\ tally.invalid \in Nat
        /\ tally.successful \in Nat /\ tally.failed \in Nat
    BY <1>2 DEF Tallies
  <2>5. /\ tally.requested = tally.executed + tally.invalid + Len(batch) - 1
        /\ tally.executed = tally.successful + tally.failed + 1
        /\ TotalCalls(session) + Len(batch) - 1 = tally.requested
    BY <1>3, <1>4, <1>6, <2>3
  <2>6. tally'.requested = tally'.executed + tally'.invalid + Len(batch') - 0
    BY <1>3, <1>4, <1>6, <2>1, <2>4, <2>5
  <2>7. tally'.executed = tally'.successful + tally'.failed + 0
    BY <1>3, <1>4, <1>6, <2>1, <2>4, <2>5
  <2>8. TotalCalls(session') + Len(batch') - 0 = tally'.requested
    BY <1>3, <1>4, <1>6, <2>1, <2>4, <2>5
  <2>9. tally'.requested <= Limits.calls
    BY <1>3, <1>4, <1>6, <2>3
  <2> QED
    BY <1>3, <1>4, <1>6, <1>1, <2>6, <2>7, <2>8, <2>9 DEF AccountsPart
<1>8. BatchPart'
  <2>1. /\ session.revision \in Nat /\ session'.revision \in Nat
        /\ session.revision <= session'.revision
    BY <1>2, <1>3 DEF IsSession
  <2> QED
    BY <1>1, <1>2, <1>3, <2>1, BatchStep
<1>9. failing' \subseteq Commands /\ failing' \subseteq errors'
  <2>1. /\ \A call \in Reads \union Writes : ToolOf[call] \notin Commands
        /\ Current \in Reads \union Writes \/ Current \in Commands
    BY <1>11, ExecutorAssumption DEF ExecutorAssumption, Calls
  <2>2. failing \subseteq Commands /\ failing \subseteq errors
    BY <1>2 DEF EarnedPart
  <2>3. /\ Current \in Commands => ErrorKey(Current) = Current
        /\ Current \notin Commands => ErrorKey(Current) \notin Commands
    BY <2>1 DEF ErrorKey
  <2> QED
    BY <1>1, <2>2, <2>3 DEF Noted
<1>10. EarnedPart'
  BY <1>1, <1>2, <1>9 DEF EarnedPart, CompletedIsEarned
<1>13. RunsPart'
  <2>1. PICK p \in 0 .. session.revision :
          batch[1].fingerprint = <<Current, p>> /\ (Category(Current) = "mutation" => p = 0)
    BY <1>11 DEF IsPrepared
  <2>2. session.revision \in Nat /\ p \in Nat /\ session'.revision \in Nat
    BY <1>2, <1>3, <2>1 DEF IsSession
  <2>3. ASSUME NEW c \in Calls, ran'.runs[c] > 0
        PROVE  \E q \in 0 .. session'.revision :
                 /\ ran'.runs[c] <= q + 1
                 /\ <<c, q>> \in session'.seen \/ (Running' = 1 /\ Head(batch').fingerprint = <<c, q>>)
    <3>1. PICK m \in 0 .. session.revision :
            /\ ran.runs[c] <= m + 1
            /\ <<c, m>> \in session.seen \/ (Running = 1 /\ Head(batch).fingerprint = <<c, m>>)
      BY <1>2, <1>12, <2>3 DEF RunsPart
    <3>2. m \in 0 .. session'.revision /\ <<c, m>> \in session'.seen
      BY <1>3, <2>2, <3>1
    <3> QED
      BY <1>12, <3>1, <3>2
  <2>4. ASSUME NEW c \in Calls, NEW q \in Nat, <<c, q>> \in session'.seen
        PROVE  /\ q <= session.revision /\ ran'.runs[c] > 0
               /\ Category(c) = "mutation" => q = 0
               /\ q = session.revision /\ outcome.changed = {} /\ Category(c) # "mutation" =>
                    c \in ran'.answered
    <3>1. CASE <<c, q>> \in session.seen
      BY <1>2, <1>12, <3>1 DEF RunsPart
    <3>2. CASE <<c, q>> = batch[1].fingerprint
      <4>1. c = Current /\ q = p
        BY <2>1, <3>2
      <4>2. ran.runs[Current] > 0
        BY <1>2, <1>6 DEF RunsPart
      <4> QED
        BY <1>12, <2>1, <2>2, <4>1, <4>2
    <3> QED
      BY <1>3, <1>11, <2>4, <3>1, <3>2
  <2>5. \A c \in Calls, q \in Nat : <<c, q>> \in session'.seen =>
          /\ q <= session'.revision /\ ran'.runs[c] > 0
          /\ Category(c) = "mutation" => q = 0
          /\ q = session'.revision /\ Category(c) # "mutation" => c \in ran'.answered
    BY <1>3, <2>2, <2>4
  <2>6. ran'.changes = session'.revision
    BY <1>2, <1>3, <1>12 DEF RunsPart
  <2> QED
    BY <1>6, <2>3, <2>5, <2>6 DEF RunsPart
<1> QED
  BY <1>5, <1>7, <1>8, <1>10, <1>13 DEF IInv

\* A tool that throws has failed, and leaves the calls behind it.
LEMMA ToolThrowStep ==
  ASSUME IInv, at \in {"tool", "command"}, ThrowWith(Count(tally, {"failed"}, 1), Tail(batch))
  PROVE  IInv'
<1> DEFINE counted == Count(tally, {"failed"}, 1)
<1>1. TypePart /\ AccountsPart /\ batch # << >> /\ tally \in Tallies /\ Running = 1
  BY DEF IInv, TypePart, PlacePart, Running
<1>2. /\ tally.requested \in Nat /\ tally.executed \in Nat /\ tally.invalid \in Nat
      /\ tally.successful \in Nat /\ tally.failed \in Nat
  BY <1>1 DEF Tallies
<1>3. /\ counted \in Tallies
      /\ counted.requested = tally.requested /\ counted.invalid = tally.invalid
      /\ counted.executed = tally.executed /\ counted.successful = tally.successful
      /\ counted.failed = tally.failed + 1
  BY <1>1, <1>2 DEF Count, Tallies
<1>4. /\ Tail(batch) \in Seq(Items) /\ Len(Tail(batch)) = Len(batch) - 1 /\ Len(batch) \in Nat
  BY <1>1, TailFacts
<1>5. /\ tally.requested = tally.executed + tally.invalid + Len(batch) - 1
      /\ tally.executed = tally.successful + tally.failed + 1
  BY <1>1 DEF AccountsPart
<1> HIDE DEF counted
<1>6. /\ counted.requested = counted.executed + counted.invalid + Len(Tail(batch))
      /\ counted.executed = counted.successful + counted.failed
      /\ counted.failed > 0
  <2> DEFINE n == Len(batch)
             m == Len(Tail(batch))
  <2>1. n \in Nat /\ m = n - 1 /\ tally.requested = tally.executed + tally.invalid + n - 1
    BY <1>4, <1>5
  <2> HIDE DEF n, m
  <2>2. tally.requested = tally.executed + tally.invalid + m
    BY <1>2, <2>1
  <2>3. counted.requested = counted.executed + counted.invalid + m
    BY <1>3, <2>2
  <2>4. counted.executed = counted.successful + counted.failed /\ counted.failed > 0
    BY <1>2, <1>3, <1>5
  <2> QED
    BY <2>3, <2>4 DEF m
<1>7. ThrowWith(counted, Tail(batch))
  BY DEF counted
<1> QED
  BY <1>3, <1>4, <1>6, <1>7, ThrowStep

\* The result is that of the model only when nothing speaks against it.
LEMMA BuildResultStep ==
  ASSUME IInv, NEW relevant \in BOOLEAN, BuildResult(relevant)
  PROVE  IInv'
<1> DEFINE kept == changed \intersect Dirty(work)
<1>1. CASE Throw
  <2>1. at = "evidence" /\ batch = << >>
    BY DEF BuildResult, IInv, PlacePart
  <2> QED
    BY <1>1, <2>1, PlainThrow
<1>2. CASE ~Throw
  <2>1. /\ at = "evidence" /\ at' = "ended" /\ UNCHANGED <<job, batch, tally, changed, failing, work>>
        /\ result' = [status |-> Judge(kept, relevant), changed |-> kept]
        /\ session' = NewSession /\ decision' = "none" /\ ran' = NeverRan
    BY <1>2 DEF BuildResult, Forget, userVars
  <2>2. /\ TypePart /\ PlacePart /\ AccountsPart /\ EarnedPart /\ batch = << >> /\ result.status = "none"
        /\ tally \in Tallies
    BY <2>1 DEF IInv, TypePart, PlacePart
  <2>3. Judge(kept, relevant) = "completed" =>
          /\ failing = {}
          /\ job.mode = "implementation" /\ ~job.repair /\ ~job.again => kept # {}
          /\ job.repair /\ ~job.held /\ ~job.again => kept # {}
          /\ job.mode = "read_only" /\ ~job.repair => kept = {}
    <3>1. Judge(kept, relevant) = "completed" => decision = "completed"
      BY DEF Judge
    <3>2. decision = "completed" => failing = {}
      BY <2>1, <2>2 DEF EarnedPart
    <3>3. ASSUME Judge(kept, relevant) = "completed"
          PROVE  /\ ReadOnly => kept = {}
                 /\ ~ReadOnly => kept # {} \/ MayKeepNothing(relevant)
      BY <3>1, <3>3 DEF Judge
    <3> QED
      BY <3>1, <3>2, <3>3 DEF ReadOnly, MayKeepNothing
  <2>4. kept' = kept
    BY <2>1 DEF Dirty
  <2>5. EarnedPart'
    BY <2>1, <2>2, <2>3, <2>4 DEF EarnedPart, CompletedIsEarned
  <2>6. TypePart' /\ BatchPart'
    BY <2>1, <2>2, NewSessionFacts, NeverRanFacts DEF TypePart, BatchPart, Points
  <2>7. Judge(kept, relevant) # "none"
    <3>1. decision # "none"
      BY <2>1, <2>2 DEF EarnedPart
    <3> QED
      BY <3>1 DEF Judge
  <2>8. PlacePart'
    BY <2>1, <2>2, <2>7, NewSessionFacts DEF PlacePart
  <2>9. AccountsPart'
    <3>1. /\ tally.requested = tally.executed + tally.invalid + Len(batch) - Running
          /\ tally.executed = tally.successful + tally.failed + Running
      BY <2>1, <2>2 DEF AccountsPart
    <3>2. Running = 0 /\ Running' = 0 /\ batch' = batch
      BY <2>1, <2>2 DEF Running
    <3> QED
      BY <2>1, <2>2, <3>1, <3>2 DEF AccountsPart
  <2>10. RunsPart'
    BY <2>1, NewSessionFacts, NeverRanFacts DEF RunsPart, Running
  <2> QED
    BY <2>5, <2>6, <2>8, <2>9, <2>10 DEF IInv
<1> QED
  BY <1>1, <1>2

----------------------------------------------------------------------------
\* The invariant holds in every reachable state.
THEOREM Invariance == Spec => []IInv
<1>1. ASSUME IInv, [Next]_vars PROVE IInv'
  <2>1. CASE Fails \/ RequestFails
    <3>1. Throw /\ at \in {"resolving", "baseline", "checkpoint", "generating", "evidence"}
      BY <2>1 DEF Fails, RequestFails
    <3>2. batch = << >>
      BY <1>1, <3>1 DEF IInv, PlacePart
    <3> QED
      BY <1>1, <3>1, <3>2, PlainThrow
  <2>2. CASE \E present \in SUBSET ContextReads : Request(present)
    BY <1>1, <2>2, RequestStep
  <2>3. CASE \E requests \in Batches, tooMany, sameId \in BOOLEAN : CallTools(requests, tooMany, sameId)
    BY <1>1, <2>3, CallToolsStep
  <2>4. CASE Skip \/ StartTool \/ EndRound
    BY <1>1, <2>4, SkipStep, StartToolStep, EndRoundStep
  <2>10. CASE \E left \in Workspaces : ToolThrows(left)
    BY <1>1, <2>10, ToolThrowStep DEF ToolThrows
  <2>5. CASE \E outcome : at \in {"tool", "command"} /\ Record(outcome)
    BY <1>1, <2>5, RecordStep
  <2>6. CASE \E relevant \in BOOLEAN : BuildResult(relevant)
    BY <1>1, <2>6, BuildResultStep
  <2>7. CASE \/ ResolveModel \/ TakeBaseline \/ Abort
             \/ \E files \in Workspaces : Edit(files)
             \/ \E said \in {"completed", "failed"} : Decide(said)
    BY <1>1, <2>7, QuietSteps
  <2>8. CASE UNCHANGED vars
    BY <1>1, <2>8 DEF vars, IInv, TypePart, PlacePart, AccountsPart, Running, BatchPart, IsPrepared,
       IsNew, RunsPart, Current, EarnedPart, CompletedIsEarned, Dirty
  <2>9. ASSUME Executor
        PROVE  \/ Fails \/ RequestFails \/ (\E left \in Workspaces : ToolThrows(left))
               \/ ResolveModel \/ TakeBaseline \/ Skip \/ StartTool \/ EndRound
               \/ \E present \in SUBSET ContextReads : Request(present)
               \/ \E said \in {"completed", "failed"} : Decide(said)
               \/ \E requests \in Batches, tooMany, sameId \in BOOLEAN : CallTools(requests, tooMany, sameId)
               \/ \E outcome : at \in {"tool", "command"} /\ Record(outcome)
               \/ \E relevant \in BOOLEAN : BuildResult(relevant)
    <3>2. ASSUME NEW error, NEW left, NEW paths, ToolReturns(error, left, paths)
          PROVE  \E outcome : at \in {"tool", "command"} /\ Record(outcome)
      BY <3>2 DEF ToolReturns
    <3>3. ASSUME NEW error, NEW left, NEW evidence, NEW output,
                 CommandReturns(error, left, evidence, output)
          PROVE  \E outcome : at \in {"tool", "command"} /\ Record(outcome)
      BY <3>3 DEF CommandReturns
    <3>4. CASE \E error \in BOOLEAN, left \in Workspaces, paths \in SUBSET Files :
                 ToolReturns(error, left, paths)
      BY <3>2, <3>4, Zenon
    <3>5. CASE \E error \in BOOLEAN, left \in Workspaces, evidence \in {"both", "before", "after"},
                  output \in Outputs : CommandReturns(error, left, evidence, output)
      BY <3>3, <3>5, Zenon
    <3> QED
      BY <2>9, <3>4, <3>5, Zenon DEF Executor
  <2> QED
    BY <1>1, <2>1, <2>2, <2>3, <2>4, <2>5, <2>6, <2>7, <2>8, <2>9, <2>10 DEF Next
<1> QED
  BY <1>1, InitInv, PTL DEF Spec

\* Every call the model has asked for is accounted for once, at every await and in
\* what an attempt reports at its end, be it a result or executor.failed; calls behind
\* a tool that threw are the only ones left out (runInternal's counters, and the
\* ExecutorSession's own).
THEOREM AccountsAreTrue == Spec => []AccountsAdd
<1>1. IInv => AccountsAdd
  BY DEF IInv, AccountsPart, AccountsAdd, Running
<1> QED
  BY <1>1, Invariance, PTL

\* No attempt counts more tool calls than it may (ExecutorSession.prepareBatch accepts a
\* batch on what was counted before any of it is).
THEOREM CallLimit == Spec => []CallsAreLimited
<1>1. IInv => CallsAreLimited
  <2> SUFFICES ASSUME IInv PROVE TotalCalls(session) <= Limits.calls
    BY DEF CallsAreLimited
  <2>1. Limits.calls \in Nat
    BY ExecutorAssumption DEF ExecutorAssumption, LimitsAgree, LimitNames
  <2>2. /\ TypePart /\ PlacePart /\ AccountsPart /\ Len(batch) \in Nat /\ Running \in {0, 1}
        /\ Running = 1 => Len(batch) >= 1
        /\ tally.requested \in Nat
    BY TailFacts DEF IInv, TypePart, PlacePart, Running, Tallies
  <2>3. TotalCalls(session) \in Nat
    BY <2>2 DEF TypePart, IsSession, TotalCalls, Categories
  <2>4. CASE at = "ended"
    BY <2>1, <2>2, <2>4 DEF PlacePart
  <2>5. CASE at # "ended"
    <3>1. TotalCalls(session) + Len(batch) - Running = tally.requested /\ tally.requested <= Limits.calls
      BY <2>2, <2>5 DEF PlacePart, AccountsPart
    <3> QED
      BY <2>1, <2>2, <2>3, <3>1
  <2> QED
    BY <2>4, <2>5
<1> QED
  BY <1>1, Invariance, PTL

\* An attempt is completed only when every command that ran last succeeded, and what it
\* left behind fits its mode and what it is to repair (buildResult, allowNoChange).
THEOREM CompletionIsEarned == Spec => []CompletedIsEarned
<1>1. IInv => CompletedIsEarned
  BY DEF IInv, EarnedPart
<1> QED
  BY <1>1, Invariance, PTL

\* What is turned away is known.
LEMMA KnownCalls ==
  ASSUME IInv, NEW requests \in Batches, at = "generating",
         NEW i \in DOMAIN PreparedBatch(session, requests),
         PreparedBatch(session, requests)[i].as = "duplicate"
  PROVE  LET call == PreparedBatch(session, requests)[i].call
         IN \/ call \in session.present
            \/ \E j \in 1 .. i - 1 : PreparedBatch(session, requests)[j].call = call
            \/ IF Category(call) = "mutation" THEN ran.runs[call] > 0 ELSE call \in ran.answered
<1> DEFINE b == PreparedBatch(session, requests)
           call == b[i].call
<1>1. PICK n \in 1 .. MaxBatch : requests \in [1 .. n -> Requests]
  BY DEF Batches
<1>2. /\ n \in Nat /\ session.revision \in Nat /\ RunsPart
      /\ \A j \in 1 .. n : b[j].call = requests[j]
      /\ i \in 1 .. n /\ b[i].as = Prepared(session, requests, i)
  BY <1>1, ExecutorAssumption DEF PreparedBatch, ExecutorAssumption, IInv, TypePart, IsSession
<1>3. /\ call \in Calls
      /\ \/ call \in session.present \/ Fingerprint(session, call) \in session.seen
         \/ call \in {requests[j] : j \in 1 .. i - 1}
  BY <1>1, <1>2 DEF Prepared, Requests
<1>4. CASE Fingerprint(session, call) \in session.seen
  <2>1. ran.runs[call] > 0 /\ (Category(call) # "mutation" => call \in ran.answered)
    BY <1>2, <1>3, <1>4 DEF Fingerprint, RunsPart
  <2> QED
    BY <2>1
<1>5. CASE call \in {requests[j] : j \in 1 .. i - 1}
  <2>1. PICK j \in 1 .. i - 1 : call = requests[j]
    BY <1>5
  <2>2. j \in 1 .. n
    BY <1>2, <2>1
  <2> QED
    BY <1>2, <2>1, <2>2
<1> QED
  BY <1>3, <1>4, <1>5

\* A write or a script runs once in an attempt, a read or a validation at most once more
\* than changes were reported; and a call is turned away as known only when the attempt
\* can know its answer (ExecutorSession.prepare and prepareBatch).
THEOREM NothingRunsTwice == Spec => NoCallTwice
<1>1. IInv /\ [Next]_vars =>
        [/\ at = "tools" /\ at' \in {"tool", "command"} =>
              ran.runs[Current] <= IF Category(Current) = "mutation" THEN 0 ELSE ran.changes
         /\ at = "generating" /\ at' = "tools" =>
              \A i \in DOMAIN batch' :
                LET call == batch'[i].call
                IN batch'[i].as = "duplicate" =>
                     \/ call \in session.present
                     \/ \E j \in 1 .. i - 1 : batch'[j].call = call
                     \/ IF Category(call) = "mutation" THEN ran.runs[call] > 0
                        ELSE call \in ran.answered]_vars
  <2> SUFFICES ASSUME IInv, Next
               PROVE  /\ at = "tools" /\ at' \in {"tool", "command"} =>
                           ran.runs[Current] <= IF Category(Current) = "mutation" THEN 0 ELSE ran.changes
                      /\ at = "generating" /\ at' = "tools" =>
                           \A i \in DOMAIN batch' :
                             LET call == batch'[i].call
                             IN batch'[i].as = "duplicate" =>
                                  \/ call \in session.present
                                  \/ \E j \in 1 .. i - 1 : batch'[j].call = call
                                  \/ IF Category(call) = "mutation" THEN ran.runs[call] > 0
                                     ELSE call \in ran.answered
    OBVIOUS
  <2>1. ASSUME at = "tools", at' \in {"tool", "command"}
        PROVE  ran.runs[Current] <= IF Category(Current) = "mutation" THEN 0 ELSE ran.changes
    <3>1. StartTool
      BY <2>1 DEF Next, Executor, Fails, ResolveModel, TakeBaseline, Request, RequestFails, Decide, CallTools,
         Skip, ToolReturns, CommandReturns, ToolThrows, EndRound, BuildResult, Abort, Edit, Throw, ThrowWith
    <3>2. /\ batch # << >> /\ Head(batch).as = "run" /\ TypePart /\ BatchPart /\ RunsPart
          /\ Running = 0 /\ session.revision \in Nat
      BY <2>1, <3>1 DEF StartTool, IInv, Running, TypePart, IsSession
    <3>3. /\ Current \in Calls /\ IsPrepared(session, batch[1]) /\ IsNew(session, batch[1]) /\ batch[1].call = Current
      BY <2>1, <3>2, TailFacts DEF BatchPart, IsPrepared, Current
    <3>4. PICK r \in 0 .. session.revision :
            /\ batch[1].fingerprint = <<Current, r>>
            /\ Category(Current) = "mutation" => r = 0
      BY <3>3 DEF IsPrepared
    <3>5. ran.runs[Current] \in Nat /\ ran.changes = session.revision /\ r \in Nat
      BY <3>2, <3>3, <3>4 DEF TypePart, Histories, RunsPart
    <3>6. ran.runs[Current] <= r
      BY <3>2, <3>3, <3>4, <3>5, StartsAnew
    <3> QED
      BY <3>2, <3>4, <3>5, <3>6
  <2>2. ASSUME at = "generating", at' = "tools"
        PROVE  \E requests \in Batches : batch' = PreparedBatch(session, requests)
    <3>1. \E requests \in Batches, tooMany, sameId \in BOOLEAN : CallTools(requests, tooMany, sameId)
      BY <2>2 DEF Next, Executor, Fails, ResolveModel, TakeBaseline, Request, RequestFails, Decide,
         Skip, StartTool, ToolReturns, CommandReturns, Record, ToolThrows, EndRound, BuildResult, Abort, Edit,
         Throw, ThrowWith
    <3> QED
      BY <2>2, <3>1 DEF CallTools, ThrowWith
  <2> QED
    BY <2>1, <2>2, KnownCalls
<1> QED
  BY <1>1, Invariance, PTL DEF Spec, NoCallTwice

=============================================================================
