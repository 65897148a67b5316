----------------------------- MODULE ExecutorLoop -----------------------------
(******************************************************************************)
(* One attempt of the Executor at a task (executor/executor.ts): it asks the  *)
(* model, runs the tools the model calls one after another, gives their       *)
(* results back, and so on until the model decides or a limit is reached.     *)
(*                                                                            *)
(* at names the await the loop is at.  The workspace is the content of the    *)
(* files git knows, relative to the commit, 0 being the committed one: git    *)
(* status shows which files differ from it, a complete diff how.  A read sees *)
(* all of it.  The user can edit and abort at any time.                       *)
(******************************************************************************)
EXTENDS ExecutorSession

CONSTANTS
  Files,        \* the files git knows
  Contents,     \* what a file may contain
  Jobs,         \* the attempts there may be
  ToolOf,       \* the name of the tool of each read and write
  Outputs,      \* what a command may print
  MaxBatch,     \* bound: how many tools the model calls at once
  ContextSizes, \* how many units of initial context the task may have
  MinContext    \* below this the context is not compacted any more

\* executionMode, which a plan need not set.
Modes == {"implementation", "read_only", "unset"}

ExecutorAssumption ==
  /\ Jobs \subseteq [mode: Modes, again: BOOLEAN, repair: BOOLEAN, held: BOOLEAN]
  /\ LimitsAgree
  /\ ContextReads \subseteq Reads /\ MalformedReads \subseteq Malformed
  /\ 0 \in Contents /\ Contents \subseteq Nat
  /\ \A call \in Reads \union Writes : ToolOf[call] \notin Commands     \* as keys of errors
  /\ Commands \intersect (Reads \union Writes) = {}
  /\ MaxBatch \in Nat \ {0} /\ MinContext \in Nat \ {0} /\ ContextSizes \subseteq Nat

ASSUME ExecutorAssumption

VARIABLES
  job,        \* the attempt: [mode, again, repair, held]; again is one after the first, and
              \* a repair may hold files that are changed already (currentChangedFiles)
  work,       \* the files
  aborted,    \* the caller's signal
  at,         \* the await the loop is at
  turn,       \* modelTurn
  session,    \* the record of ExecutorSession
  context,    \* the units of initial context that are still sent
  latest,     \* the latest exchange: [results, evidence, progress], and that of the round in work
  batch,      \* the prepared calls that are left
  before,     \* the files before the command that runs
  initial,    \* the files git status and git diff showed first
  tally,      \* requested, executed, successful, failed and invalid tool calls
  errors,     \* unresolvedToolErrors
  changed,    \* changedPaths
  decision,   \* what the model decided
  result,     \* what the attempt came to: [status, changed]
  failing,    \* history: the commands that failed when they ran last
  ran         \* history: how often each call ran, how many changes were reported, and
              \* the calls that ran since the last of them: [runs, changes, answered]

vars ==
  <<job, work, aborted, at, turn, session, context, latest, batch, before, initial, tally,
    errors, changed, decision, result, failing, ran>>

\* What a tool call, and the model, leave alone.
loopVars == <<job, turn, context, initial, decision>>
userVars == <<work, aborted>>

\* The awaits of runInternal.
Points == {"resolving", "baseline", "checkpoint", "generating", "tools", "tool", "command",
           "evidence", "ended"}

ReadOnly == ~job.repair /\ job.mode = "read_only"

Workspaces == [Files -> Contents]
Clean == [f \in Files |-> 0]
Dirty(files) == {f \in Files : files[f] # 0}

\* changedStatusPaths: a file that was and is modified shows no difference.
StatusChanged(old, new) == {f \in Files : (f \in Dirty(old)) # (f \in Dirty(new))}

\* With changedDiffPaths: complete diffs show every difference.
FilesChanged(old, new) == {f \in Files : old[f] # new[f]}

NoResult == [status |-> "none", changed |-> {}]
Thrown == [status |-> "thrown", changed |-> {}]
NoExchange == [results |-> 0, evidence |-> {}, progress |-> FALSE]
NeverRan == [runs |-> [c \in Calls |-> 0], changes |-> 0, answered |-> {}]
Zero == [requested |-> 0, executed |-> 0, successful |-> 0, failed |-> 0, invalid |-> 0]

Init ==
  /\ job \in Jobs
  /\ work \in Workspaces
  /\ aborted = FALSE
  /\ at = "resolving"
  /\ turn = 1
  /\ session = NewSession
  /\ context \in ContextSizes
  /\ latest = NoExchange
  /\ batch = << >>
  /\ before = Clean
  /\ initial = Clean
  /\ tally = Zero
  /\ errors = {} /\ changed = {}
  /\ decision = "none"
  /\ result = NoResult
  /\ failing = {}
  /\ ran = NeverRan

\* The locals of an attempt are gone when it ends; what it reports is left.
Forget ==
  /\ turn' = 1 /\ session' = NewSession /\ context' = 0 /\ latest' = NoExchange
  /\ initial' = Clean /\ before' = Clean /\ errors' = {} /\ decision' = "none" /\ ran' = NeverRan

\* The attempt rejects.  executor.failed reports the calls it has counted and the
\* files that were changed; the calls that are left are never served.
ThrowWith(counted, left) ==
  /\ at' = "ended"
  /\ result' = Thrown
  /\ tally' = counted /\ batch' = left
  /\ failing' = {}
  /\ Forget
  /\ UNCHANGED <<job, changed>>

Throw == ThrowWith(tally, << >>)

\* The provider or the model is unknown or cannot call tools, git is not there or
\* fails, the gate or the provider throws, the answer is not valid, or the workspace
\* is no repository any more.
Fails ==
  /\ at \in {"resolving", "baseline", "checkpoint", "generating", "evidence"}
  /\ Throw
  /\ UNCHANGED userVars

ResolveModel ==
  /\ at = "resolving"
  /\ at' = "baseline"
  /\ UNCHANGED <<loopVars, userVars, session, latest, batch, before, tally, errors, changed, result,
                 failing, ran>>

TakeBaseline ==
  /\ at = "baseline"
  /\ at' = "checkpoint"
  /\ initial' = work
  /\ UNCHANGED <<job, turn, context, decision, userVars, session, latest, batch, before, tally,
                 errors, changed, result, failing, ran>>

(******************************** A request *******************************)

\* The size of the request with d pieces of evidence dropped.
SizeWith(d, sent) ==
  sent + latest.results
    + Shown(SubSeq(session.entries, d + 1, Len(session.entries)), latest.evidence)

\* From the second turn on the context is compacted to what is carried over.
Carried == IF turn = 1 THEN context ELSE Min({context, Limits.carryover})

\* How the request is made to fit: evidence goes first, the oldest first, then
\* context; without enough of either the attempt fails.
Drops ==
  LET fitting == {d \in 0 .. Len(session.entries) : SizeWith(d, Carried) <= Allowance(session)}
  IN IF fitting = {} THEN Len(session.entries) ELSE Min(fitting)

Overage == SizeWith(Drops, Carried) - Allowance(session)

\* The evidence of a repair is compacted like the context of a task.
Compacted == Carried - Overage

Fits == Overage <= 0 \/ Compacted >= MinContext

Sent == IF Overage <= 0 THEN Carried ELSE Compacted

\* Files of the initial context that were cut off may be read again.
Request(present) ==
  /\ at = "checkpoint"
  /\ ~aborted
  /\ session.providerCalls < Limits.turns
  /\ Fits
  /\ present \subseteq ContextReads
  /\ Sent = context => present = session.present
  /\ present \subseteq session.present
  /\ at' = "generating"
  /\ context' = Sent
  /\ session' = RecordRequest([session EXCEPT
                  !.present = present,
                  !.entries = SubSeq(@, Drops + 1, Len(@))], SizeWith(Drops, Sent))
  /\ UNCHANGED <<job, turn, initial, decision, userVars, latest, batch, before, tally, errors,
                 changed, result, failing, ran>>

\* Aborted, out of provider calls, or too large for what is left of the budget.
RequestFails ==
  /\ at = "checkpoint"
  /\ aborted \/ session.providerCalls >= Limits.turns \/ ~Fits
  /\ Throw
  /\ UNCHANGED userVars

\* The model decides.  What failed and was not made good overrules it.
Decide(said) ==
  /\ at = "generating"
  /\ said \in {"completed", "failed"}
  /\ at' = "evidence"
  /\ decision' = IF said = "completed" /\ errors # {} THEN "failed" ELSE said
  /\ UNCHANGED <<job, turn, context, initial, userVars, session, latest, batch, before, tally,
                 errors, changed, result, failing, ran>>

Count(counters, kinds, n) ==
  [c \in DOMAIN counters |-> IF c \in kinds THEN counters[c] + n ELSE counters[c]]

\* Every result is cut to the size of one unit.
ResultUnits(requests) == Len(requests)

Mutates(requests) == \E i \in DOMAIN requests : requests[i] \in Writes

\* Mutant: a batch that is turned away is only requested.
TurnedAwayUncounted(n) == Count(tally, {"requested"}, n)

\* A batch that is turned away is requested, and all of it invalid.
TurnedAway(n) == Count(tally, {"requested", "invalid"}, n)

\* The model calls tools.  A batch is turned away as a whole: for the tokens the
\* provider reports, on the last turn, for an ID used twice, for a limit on calls,
\* or for a write in a read-only task.
CallTools(requests, tooMany, sameId) ==
  /\ at = "generating"
  /\ requests # << >>
  /\ IF \/ tooMany
        \/ turn = Limits.turns
        \/ sameId /\ Len(requests) > 1
        \/ ~WithinCallLimits(session, requests)
        \/ ReadOnly /\ Mutates(requests)
     THEN ThrowWith(TurnedAway(Len(requests)), << >>)
     ELSE /\ at' = "tools"
          /\ tally' = Count(tally, {"requested"}, Len(requests))
          /\ batch' = PreparedBatch(session, requests)
          /\ latest' = [NoExchange EXCEPT !.results = ResultUnits(requests)]
          /\ UNCHANGED <<loopVars, session, before, errors, changed, result, failing, ran>>
  /\ UNCHANGED userVars

(********************************** Tools *********************************)

Current == Head(batch).call
Accepted == AcceptRequest(session, Current)

\* A request that is malformed or a duplicate is answered without being run.
Skip ==
  /\ at = "tools" /\ batch # << >> /\ Head(batch).as # "run"
  /\ batch' = Tail(batch)
  /\ session' = NoProgress(Accepted)
  /\ tally' = Count(tally, {"invalid"}, 1)
  /\ UNCHANGED <<loopVars, userVars, at, latest, before, errors, changed, result, failing, ran>>

\* A tool starts; a command first looks at the files.
StartTool ==
  /\ at = "tools" /\ batch # << >> /\ Head(batch).as = "run"
  /\ at' = IF Current \in Commands THEN "command" ELSE "tool"
  /\ session' = Accepted
  /\ tally' = Count(tally, {"executed"}, 1)
  /\ before' = IF Current \in Commands THEN work ELSE before
  /\ ran' = [ran EXCEPT !.runs[Current] = @ + 1]
  /\ UNCHANGED <<loopVars, userVars, latest, batch, errors, changed, result, failing>>

\* A command is known by its words, another tool by its name.
ErrorKey(call) == IF call \in Commands THEN call ELSE ToolOf[call]

\* Mutant: any success of a tool makes good what failed.
NotedLoosely(outcome) ==
  IF outcome.error THEN errors \union {ErrorKey(Current)} ELSE {}

Noted(outcome) ==
  IF outcome.error THEN errors \union {ErrorKey(Current)} ELSE errors \ {ErrorKey(Current)}

\* executeToolCall returns: its outcome is counted and remembered.
Record(outcome) ==
  LET recorded == RecordOutcome(session, Current, Head(batch).fingerprint, outcome)
      progress == IsProgress(session, Current, outcome)
  IN /\ at' = "tools"
     /\ batch' = Tail(batch)
     /\ session' = recorded
     /\ tally' = Count(tally, {IF outcome.error THEN "failed" ELSE "successful"}, 1)
     /\ errors' = Noted(outcome)
     /\ changed' = changed \union outcome.changed
     /\ latest' = [latest EXCEPT
                     !.evidence = IF progress THEN @ \union {Current} ELSE @,
                     !.progress = @ \/ progress]
     /\ before' = Clean
     /\ failing' = IF outcome.error THEN failing \union ({Current} \intersect Commands)
                   ELSE failing \ {Current}
     /\ ran' = IF outcome.changed = {} THEN [ran EXCEPT !.answered = @ \union {Current}]
               ELSE [ran EXCEPT !.changes = @ + 1, !.answered = {}]
     /\ UNCHANGED <<loopVars, aborted, result>>

\* A read or a write returns.  A write that succeeds reports the paths it was asked
\* for, whatever it changed: a link, or a header that git reads in its own way, leads
\* elsewhere (ToolCall).  A patch that is killed at its time limit may leave a part of
\* its changes behind, and nobody notes them.
ToolReturns(error, left, paths) ==
  /\ at = "tool"
  /\ ~aborted
  /\ Current \in Reads => left = work
  /\ Current \in Writes /\ ~error <=> paths # {}
  /\ work' = left
  /\ Record([error |-> error, saw |-> left, changed |-> paths])

\* A command returns, whatever it did to the files.  What changed since it began is
\* its change.  Without complete evidence before it, it is not run; without it
\* after, its changes are not known.
CommandReturns(error, left, evidence, output) ==
  /\ at = "command"
  /\ ~aborted
  /\ evidence = "before" => error /\ left = work
  /\ evidence = "after" => error
  /\ work' = left
  /\ Record([error |-> error, saw |-> output,
             changed |-> IF evidence = "both" THEN FilesChanged(before, left) ELSE {}])

\* The signal, a denied permission or an unknown tool ends the attempt, and the calls
\* behind it are not served.  A command or a write may have changed the files by then.
ToolThrows(left) ==
  /\ at \in {"tool", "command"}
  /\ Current \in Reads => left = work
  /\ ~aborted => left = work
  /\ work' = left
  /\ ThrowWith(Count(tally, {"failed"}, 1), Tail(batch))
  /\ UNCHANGED aborted

EndRound ==
  /\ at = "tools" /\ batch = << >>
  /\ LET finished == FinishRound(session, latest.progress)
     IN IF Stalled(finished) THEN Throw
        ELSE /\ at' = "checkpoint"
             /\ session' = finished
             /\ turn' = turn + 1
             /\ UNCHANGED <<job, context, initial, decision, latest, batch, before, tally, errors,
                            changed, result, failing, ran>>
  /\ UNCHANGED userVars

(******************************* The result *******************************)

\* allowNoChange: the task need not change files, the repair holds changed ones, or
\* an attempt before this one left changes that are relevant.
MayKeepNothing(leftBehind) ==
  \/ ~job.repair /\ job.mode # "implementation"
  \/ job.repair /\ job.held
  \/ job.again /\ leftBehind

Judge(kept, leftBehind) ==
  IF /\ decision = "completed"
     /\ IF ReadOnly THEN kept # {} ELSE kept = {} /\ ~MayKeepNothing(leftBehind)
  THEN "failed" ELSE decision

\* buildResult: what git shows last.  A change of status that no tool accounts for
\* is an error.
BuildResult(relevant) ==
  /\ at = "evidence"
  /\ relevant => Dirty(initial) # {}
  /\ LET kept == changed \intersect Dirty(work)
     IN IF StatusChanged(initial, work) \subseteq changed
        THEN /\ at' = "ended"
             /\ result' = [status |-> Judge(kept, relevant), changed |-> kept]
             /\ Forget
             /\ UNCHANGED <<job, batch, tally, changed, failing>>
        ELSE Throw
  /\ UNCHANGED userVars

(********************************* The user *******************************)

Abort ==
  /\ ~aborted /\ at # "ended"
  /\ aborted' = TRUE
  /\ UNCHANGED <<loopVars, work, at, session, latest, batch, before, tally, errors, changed,
                 result, failing, ran>>

\* Somebody else edits a file.
Edit(files) ==
  /\ at # "ended"
  /\ work' = files
  /\ UNCHANGED <<loopVars, aborted, at, session, latest, batch, before, tally, errors, changed,
                 result, failing, ran>>

Batches == UNION {[1 .. n -> Requests] : n \in 1 .. MaxBatch}

Executor ==
  \/ Fails
  \/ ResolveModel
  \/ TakeBaseline
  \/ \E present \in SUBSET ContextReads : Request(present)
  \/ RequestFails
  \/ \E said \in {"completed", "failed"} : Decide(said)
  \/ \E requests \in Batches, tooMany, sameId \in BOOLEAN : CallTools(requests, tooMany, sameId)
  \/ Skip
  \/ StartTool
  \/ \E error \in BOOLEAN, left \in Workspaces, paths \in SUBSET Files :
       ToolReturns(error, left, paths)
  \/ \E error \in BOOLEAN, left \in Workspaces, evidence \in {"both", "before", "after"},
        output \in Outputs : CommandReturns(error, left, evidence, output)
  \/ \E left \in Workspaces : ToolThrows(left)
  \/ EndRound
  \/ \E relevant \in BOOLEAN : BuildResult(relevant)

Next == Executor \/ Abort \/ \E files \in Workspaces : Edit(files)

Spec == Init /\ [][Next]_vars

(******************************* Properties *******************************)

\* The types of the variables.
TypeOK ==
  /\ job \in Jobs
  /\ {work, before, initial} \subseteq Workspaces
  /\ aborted \in BOOLEAN /\ at \in Points
  /\ turn \in 1 .. Limits.turns /\ session.providerCalls <= turn
  /\ session.present \subseteq ContextReads
  /\ session.entries \in Seq(Calls) /\ Len(session.entries) <= Limits.retained
  /\ session.spent <= Limits.total /\ TotalCalls(session) <= Limits.calls
  /\ \A c \in Categories : session.count[c] <= Limits[c]
  /\ context \in Nat
  /\ \A i \in DOMAIN batch : batch[i].as \in {"run", "invalid", "duplicate"}
  /\ errors \subseteq Commands \union {ToolOf[call] : call \in Reads \union Writes}
  /\ ran.runs \in [Calls -> Nat] /\ ran.changes \in Nat /\ ran.answered \subseteq Calls
  /\ changed \subseteq Files
  /\ decision \in {"none", "completed", "failed"}
  /\ result.status \in {"none", "thrown", "completed", "failed"}

\* Every call the model has asked for is accounted for at every await and in
\* everything an attempt reports, once: run or turned away, with success or without,
\* or still to come.  Only a tool that throws leaves calls behind it that nothing
\* accounts for (against EXECUTOR_HARDCODE_AUDIT.md:36, which excepts none).
AccountsAdd ==
  LET running == IF at \in {"tool", "command"} THEN 1 ELSE 0
  IN /\ tally.requested = tally.executed + tally.invalid + Len(batch) - running
     /\ tally.executed = tally.successful + tally.failed + running
     /\ at # "ended" => TotalCalls(session) + Len(batch) - running = tally.requested
     /\ at = "ended" /\ batch # << >> => result.status = "thrown" /\ tally.failed > 0

\* A task is completed only when every command it ran succeeded the last time it
\* ran.  A first attempt at an implementation, and a first repair that began without
\* changed files, has changed one by then; a read-only task, but for its repair,
\* leaves none behind that it changed (buildResult).
CompletedIsEarned ==
  result.status = "completed" =>
    LET kept == changed \intersect Dirty(work)
    IN /\ failing = {}
       /\ job.mode = "implementation" /\ ~job.repair /\ ~job.again => kept # {}
       /\ job.repair /\ ~job.held /\ ~job.again => kept # {}
       /\ job.mode = "read_only" /\ ~job.repair => kept = {}

\* A write or a script runs once in an attempt; a read or a validation once, and once
\* more at most for each change that was reported since, whatever stands in a batch.
\* A call is turned away as known only when the model has its file, when it stands
\* earlier in the batch, or when it has run before: a read or a validation since the
\* last change that was reported (prepare, prepareBatch).
NoCallTwice ==
  [][/\ at = "tools" /\ at' \in {"tool", "command"} =>
          ran.runs[Current] <= IF Category(Current) = "mutation" THEN 0 ELSE ran.changes
     /\ at = "generating" /\ at' = "tools" =>
          \A i \in DOMAIN batch' :
            LET call == batch'[i].call
            IN batch'[i].as = "duplicate" =>
                 \/ call \in session.present
                 \/ \E j \in 1 .. i - 1 : batch'[j].call = call
                 \/ IF Category(call) = "mutation" THEN ran.runs[call] > 0
                    ELSE call \in ran.answered]_vars

=============================================================================
