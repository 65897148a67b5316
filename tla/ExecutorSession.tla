--------------------------- MODULE ExecutorSession ---------------------------
(******************************************************************************)
(* What an Executor remembers of one attempt (executor/executor-session.ts),  *)
(* as a record and the operators that its methods are.                        *)
(*                                                                            *)
(* A call is a request of the model with valid arguments, all of them         *)
(* included; what makes two requests equal is that they are the same call.    *)
(* Sizes are counted in units: one for a retained piece of evidence and for a *)
(* tool result that is carried over, so that bytes and estimated tokens are   *)
(* one measure.                                                               *)
(******************************************************************************)
EXTENDS Naturals, Sequences, FiniteSets, SequencesExt, FiniteSetsExt

CONSTANTS
  Reads,        \* calls of read tools
  ContextReads, \* those of files that the initial context shows
  Writes,       \* calls of write_file and apply_patch
  Scripts,      \* calls of run_command
  Checks,       \* calls of run_command whose words are those of a validation
  Malformed,    \* requests whose arguments do not match the contract of their tool
  MalformedReads, \* those for read tools
  Limits        \* the resolved limits: see LimitNames

Commands == Scripts \union Checks
Calls == Reads \union Writes \union Commands
Requests == Calls \union Malformed
Categories == {"read", "mutation", "validation"}

LimitNames ==
  {"calls", "read", "mutation", "validation", "turns", "request", "total", "carryover",
   "retained", "noProgressCalls", "noProgressTurns"}

\* resolveExecutorLimits: positive numbers that agree with each other.
LimitsAgree ==
  /\ DOMAIN Limits = LimitNames
  /\ \A name \in LimitNames : Limits[name] \in Nat \ {0}
  /\ Limits.carryover <= Limits.request
  /\ Limits.request <= Limits.total

\* toolCategory: a rejected request keeps its tool's name and nothing else.
Category(call) ==
  IF call \in Reads \union MalformedReads THEN "read" ELSE IF call \in Checks THEN "validation" ELSE "mutation"

NewSession ==
  [seen |-> {}, observed |-> {}, entries |-> << >>, present |-> ContextReads,
   revision |-> 0, count |-> [c \in Categories |-> 0], noProgress |-> 0, idleTurns |-> 0,
   providerCalls |-> 0, spent |-> 0]

\* What is read or validated may be another thing at every revision of the workspace.
Fingerprint(session, call) ==
  <<call, IF Category(call) = "mutation" THEN 0 ELSE session.revision>>

(********************************* Batches ********************************)

\* Mutant: only calls of earlier rounds are looked at.
PreparedAlone(session, requests, i) ==
  LET call == requests[i]
  IN IF call \in Malformed THEN "invalid"
     ELSE IF call \in session.present \/ Fingerprint(session, call) \in session.seen THEN "duplicate"
     ELSE "run"

\* prepare, and the comparison with the calls before it in its batch.
Prepared(session, requests, i) ==
  LET call == requests[i]
      before == {requests[j] : j \in 1 .. i - 1}
  IN IF call \in Malformed THEN "invalid"
     ELSE IF \/ call \in session.present
             \/ Fingerprint(session, call) \in session.seen
             \/ call \in before THEN "duplicate"
     ELSE "run"

PreparedBatch(session, requests) ==
  [i \in DOMAIN requests |->
     [call |-> requests[i], as |-> Prepared(session, requests, i),
      fingerprint |-> Fingerprint(session, requests[i])]]

Pending(requests, category) ==
  Cardinality({i \in DOMAIN requests : Category(requests[i]) = category})

TotalCalls(session) ==
  session.count["read"] + session.count["mutation"] + session.count["validation"]

\* prepareBatch accepts a batch as a whole or not at all.
WithinCallLimits(session, requests) ==
  /\ TotalCalls(session) + Len(requests) <= Limits.calls
  /\ \A c \in Categories : session.count[c] + Pending(requests, c) <= Limits[c]

AcceptRequest(session, call) == [session EXCEPT !.count[Category(call)] = @ + 1]

\* recordDuplicate and recordInvalid.
NoProgress(session) == [session EXCEPT !.noProgress = @ + 1]

(******************************** Evidence ********************************)

\* addEvidence: what is known of a call is replaced; the oldest evidence goes
\* when there is no place left.
AddEvidence(entries, call) ==
  LET all == Append(SelectSeq(entries, LAMBDA entry : entry # call), call)
  IN SubSeq(all, Len(all) - Min({Len(all), Limits.retained}) + 1, Len(all))

\* evidenceObservationId: the call, and what it came to.
Observation(call, outcome) == <<call, outcome.error, outcome.saw>>

\* progressEvidenceIds.  A change is always news, but for that of a validation; a
\* failed read or write is no observation, a failed command is one.
IsProgress(session, call, outcome) ==
  \/ Category(call) = "mutation" /\ outcome.changed # {}
  \/ /\ call \in Commands \/ ~outcome.error
     /\ Observation(call, outcome) \notin session.observed

\* recordOutcome, under the fingerprint the call was given with its batch.
RecordOutcome(session, call, fingerprint, outcome) ==
  LET progress == IsProgress(session, call, outcome)
  IN [session EXCEPT
        !.seen = @ \union {fingerprint},
        !.revision = @ + IF outcome.changed = {} THEN 0 ELSE 1,
        !.observed = IF progress THEN @ \union {Observation(call, outcome)} ELSE @,
        !.entries = IF progress THEN AddEvidence(@, call) ELSE @,
        !.noProgress = IF progress THEN 0 ELSE @ + 1]

\* finishToolRound.
FinishRound(session, progress) ==
  [session EXCEPT !.idleTurns = IF progress THEN 0 ELSE @ + 1]

Stalled(session) ==
  \/ session.noProgress >= Limits.noProgressCalls
  \/ session.idleTurns >= Limits.noProgressTurns

(******************************** Requests ********************************)

\* evidence(excluding): what the latest round brought is in the conversation.
Shown(entries, latest) == Len(SelectSeq(entries, LAMBDA entry : entry \notin latest))

Allowance(session) == Min({Limits.request, Limits.total - session.spent})

RecordRequest(session, size) ==
  [session EXCEPT !.providerCalls = @ + 1, !.spent = @ + size]
=============================================================================
