---------------------------- MODULE ValidationRun ----------------------------
(*****************************************************************************)
(* One validation (validation/validation-engine.ts): the steps that the      *)
(* configuration and the scripts of the repository make runnable, run one    *)
(* after another, each between two snapshots of the tracked files.           *)
(*                                                                           *)
(* A step of the model is what the engine does between two awaits; at names  *)
(* the await.  A tracked file is its three copies: the committed one, that   *)
(* of git's index and that of the work tree.  A snapshot is what git status  *)
(* and git diff show: between which copies a file differs, and what the work *)
(* tree has changed from the index, for the first files whose diffs fit into *)
(* the bytes the engine asks for.  The command that runs, the user, or the   *)
(* Executor of another workflow can change, stage and commit files.          *)
(*****************************************************************************)
EXTENDS Naturals, Sequences, FiniteSets, SequencesExt

CONSTANTS
  Kinds,      \* how many kinds of validation there are; a kind is its place in the order
  Settings,   \* how a kind may be configured
  Files,      \* how many files are tracked; a file is its place in a diff
  Copies,     \* of each file: what its copies may be
  DiffCap     \* how many diffs fit into VALIDATION_DIFF_MAX_BYTES

Requirements == {"unset", "required", "optional"}

\* What is configured and discovered for a kind.
AllSettings ==
  [enabled: BOOLEAN, required: Requirements, command: BOOLEAN, script: BOOLEAN]

AllCopies == [commit: Nat, index: Nat, tree: Nat]
Original == [commit |-> 0, index |-> 0, tree |-> 0]

ValidationAssumption ==
  /\ Kinds \in Nat \ {0} /\ Files \in Nat /\ DiffCap \in Nat
  /\ Settings \subseteq AllSettings
  /\ Copies \in [1 .. Files -> SUBSET AllCopies]
  /\ \A f \in 1 .. Files : Original \in Copies[f]

ASSUME ValidationAssumption

VARIABLES
  request,    \* the configuration: [settings, manager, failFast]
  work,       \* the workspace: [repository, files]
  aborted,    \* the caller's signal
  at,         \* the await the engine is at
  results,    \* the results of the steps so far
  shouldStop,
  before,     \* the snapshot before the command that runs, local to runStep
  command,    \* how that command ended: [status, code]
  verdict,    \* what run returned: [status, code]
  origin,     \* history: the files when before was taken
  disturbed   \* history: the steps during which a file changed that should have been seen to

vars ==
  <<request, work, aborted, at, results, shouldStop, before, command, verdict, origin, disturbed>>

Steps == 1 .. Kinds
Points == {"discovery", "evidence", "before", "command", "after", "returned", "thrown"}
Codes == {"none", "validation_command_not_found", "fail_fast", "validation_timeout",
          "validation_command_blocked", "validation_process_error",
          "validation_workspace_changed", "package_manager_not_found",
          "no_validation_commands", "validation_error"}

FileStates == {files \in [1 .. Files -> UNION {Copies[f] : f \in 1 .. Files}] :
                 \A f \in 1 .. Files : files[f] \in Copies[f]}
Clean == [f \in 1 .. Files |-> Original]

(***************************** Configuration ******************************)

Discovered(k) == request.settings[k].script /\ request.manager
HasCommand(k) == request.settings[k].command \/ Discovered(k)

\* A step is attempted when it is enabled and has a command.
Attempted(k) == request.settings[k].enabled /\ HasCommand(k)

\* A disabled step is never required; without a word on it, a step is required
\* when there is a command for it.
Required(k) ==
  /\ request.settings[k].enabled
  /\ \/ request.settings[k].required = "required"
     \/ request.settings[k].required = "unset" /\ HasCommand(k)

PackageManagerMissing == ~request.manager /\ \E k \in Steps : request.settings[k].script

(******************************** Results *********************************)

Skipped(code) == [status |-> "skipped", code |-> code]

\* The result of a step without a command.
Missing(k) == Skipped(IF Required(k) THEN "validation_command_not_found" ELSE "none")

\* Mutant: a skipped step never invalidates.
SkippedIsFine(k, result) ==
  \/ result.status \in {"errored", "timed_out"}
  \/ Required(k) /\ result.status = "failed"

\* stepInvalidates: an optional step may fail, but not err.
Invalidates(k, result) ==
  /\ result.code # "fail_fast"
  /\ \/ result.status \in {"errored", "timed_out"}
     \/ Required(k) /\ result.status # "passed"

Invalid(done) == {k \in DOMAIN done : Invalidates(k, done[k])}

FirstFailureCode(done) ==
  LET first == CHOOSE k \in Invalid(done) : \A other \in Invalid(done) : k <= other
  IN IF done[first].code = "none" THEN "validation_error" ELSE done[first].code

Verdict(done) ==
  IF Invalid(done) = {} THEN [status |-> "passed", code |-> "none"]
  ELSE [status |-> "failed", code |-> FirstFailureCode(done)]

NoVerdict == [status |-> "none", code |-> "none"]

(******************************* Snapshots ********************************)

\* The two letters of git status.
StatusOf(file) == [staged |-> file.index # file.commit, unstaged |-> file.tree # file.index]

\* The files in git diff, and those whose diffs are not cut off.
Unstaged(files) == {f \in 1 .. Files : StatusOf(files[f]).unstaged}
Shown(files) == {f \in Unstaged(files) : Cardinality({g \in Unstaged(files) : g <= f}) <= DiffCap}

\* A diff tells both of the copies it compares.
SnapshotOf(files) ==
  [repository |-> TRUE, status |-> [f \in 1 .. Files |-> StatusOf(files[f])],
   diff |-> [f \in Shown(files) |-> [index |-> files[f].index, tree |-> files[f].tree]]]

NoSnapshot ==
  [repository |-> FALSE, status |-> [f \in 1 .. Files |-> StatusOf(Original)], diff |-> << >>]

Snapshot == IF work.repository THEN SnapshotOf(work.files) ELSE NoSnapshot

\* A file has the same section in both diffs, or in neither.
SameDiff(old, new, f) ==
  /\ f \in DOMAIN old.diff <=> f \in DOMAIN new.diff
  /\ f \in DOMAIN old.diff => old.diff[f] = new.diff[f]

\* Mutant: only the states of the files are compared.
ChangedStates(old, new) == {f \in 1 .. Files : old.status[f] # new.status[f]}

\* detectTrackedChanges: the files whose state or diff is another one.
Changed(old, new) ==
  {f \in 1 .. Files : old.status[f] # new.status[f] \/ ~SameDiff(old, new, f)}

(********************************* The run ********************************)

Init ==
  /\ request \in [settings: [Steps -> Settings], manager: BOOLEAN, failFast: BOOLEAN]
  /\ work \in [repository: BOOLEAN, files: FileStates]
  /\ aborted = FALSE
  /\ at = "discovery"
  /\ results = << >>
  /\ shouldStop = FALSE
  /\ before = NoSnapshot
  /\ command = NoVerdict
  /\ verdict = NoVerdict
  /\ origin = Clean
  /\ disturbed = {}

\* With fail-fast, a required step that is missing stops those that follow it.
StopsBefore(stop, done, k) ==
  \/ stop
  \/ request.failFast /\ \E m \in Len(done) + 1 .. k - 1 : ~Attempted(m) /\ Required(m)

\* The loop from its top to its next await: steps are skipped up to the next one
\* that is attempted, and without one the run returns.
Proceed(done, stop) ==
  LET open == {k \in Len(done) + 1 .. Kinds : Attempted(k) /\ ~StopsBefore(stop, done, k)}
      next == IF open = {} THEN Kinds + 1 ELSE CHOOSE k \in open : \A m \in open : k <= m
      skipped == [i \in 1 .. next - 1 - Len(done) |->
                    IF Attempted(Len(done) + i) THEN Skipped("fail_fast")
                    ELSE Missing(Len(done) + i)]
  IN /\ results' = done \o skipped
     /\ shouldStop' = StopsBefore(stop, done, next)
     /\ IF open = {} THEN at' = "returned" /\ verdict' = Verdict(done \o skipped)
        ELSE at' = "before" /\ UNCHANGED verdict

\* The directory cannot be listed, package.json is invalid, git fails or the
\* signal is seen: the run throws.
Throws ==
  /\ at \in {"discovery", "evidence", "before", "after"}
  /\ at' = "thrown"
  /\ UNCHANGED <<request, work, aborted, results, shouldStop, before, command, verdict, origin, disturbed>>

Discover ==
  /\ at = "discovery"
  /\ IF \E k \in Steps : Attempted(k) THEN at' = "evidence" /\ UNCHANGED <<results, verdict>>
     ELSE /\ at' = "returned"
          /\ results' = [k \in Steps |-> Missing(k)]
          /\ verdict' = [status |-> "failed",
                         code |-> IF PackageManagerMissing THEN "package_manager_not_found"
                                  ELSE "no_validation_commands"]
  /\ UNCHANGED <<request, work, aborted, shouldStop, before, command, origin, disturbed>>

\* requireGitEvidence.
RequireGitEvidence ==
  /\ at = "evidence"
  /\ IF work.repository THEN Proceed(<< >>, FALSE)
     ELSE at' = "thrown" /\ UNCHANGED <<results, shouldStop, verdict>>
  /\ UNCHANGED <<request, work, aborted, before, command, origin, disturbed>>

SnapshotBefore ==
  /\ at = "before"
  /\ at' = "command"
  /\ before' = Snapshot
  /\ origin' = work.files
  /\ UNCHANGED <<request, work, aborted, results, shouldStop, command, verdict, disturbed>>

\* How a command ends.  One that the signal reaches does not pass or fail any more.
Errors == {[status |-> "timed_out", code |-> "validation_timeout"],
           [status |-> "errored", code |-> "validation_command_blocked"],
           [status |-> "errored", code |-> "validation_process_error"]}

Endings ==
  IF aborted THEN Errors
  ELSE Errors \union {[status |-> "passed", code |-> "none"], [status |-> "failed", code |-> "none"]}

\* A command may even remove the repository, but one that is blocked never ran.
CommandEnds(ending, repository) ==
  /\ at = "command"
  /\ ending \in Endings
  /\ ending.code = "validation_command_blocked" => repository = work.repository
  /\ at' = "after"
  /\ command' = ending
  /\ work' = [work EXCEPT !.repository = repository]
  /\ UNCHANGED <<request, aborted, results, shouldStop, before, verdict, origin, disturbed>>

\* The result of a step whose workspace is another one than before it.
Judged(after) ==
  IF ~after.repository \/ Changed(before, after) # {}
  THEN [status |-> "errored", code |-> "validation_workspace_changed"]
  ELSE command

\* History: a file may have changed without a trace, when it was modified before and after
\* behind the limit of the diff, or was staged anew: git add or git commit makes its diff
\* empty, and another staged change, or another commit, has the same letters.
Behind(old, new) == (Unstaged(old) \ Shown(old)) \intersect (Unstaged(new) \ Shown(new))

Restaged(old, new) ==
  {f \in 1 .. Files :
     /\ new[f].index # old[f].index
     /\ \/ new[f].commit # old[f].commit
        \/ StatusOf(old[f]).staged /\ StatusOf(new[f]).staged}

\* Any other change of a tracked file disturbs the workspace.
Disturbs(old, new) ==
  \E f \in (1 .. Files) \ (Behind(old, new) \union Restaged(old, new)) :
    new[f].tree # old[f].tree

SnapshotAfter ==
  /\ at = "after"
  /\ LET result == Judged(Snapshot)
     IN Proceed(Append(results, result),
                shouldStop \/ (request.failFast /\ Invalidates(Len(results) + 1, result)))
  /\ disturbed' = IF work.repository /\ ~Disturbs(origin, work.files) THEN disturbed
                  ELSE disturbed \union {Len(results) + 1}
  /\ before' = NoSnapshot /\ command' = NoVerdict /\ origin' = Clean
  /\ UNCHANGED <<request, work, aborted>>

Abort ==
  /\ ~aborted /\ at \notin {"returned", "thrown"}
  /\ aborted' = TRUE
  /\ UNCHANGED <<request, work, at, results, shouldStop, before, command, verdict, origin, disturbed>>

\* The command that runs, or somebody else, changes a file, stages or commits it.
Edit(f, copies) ==
  /\ at \notin {"returned", "thrown"}
  /\ copies \in Copies[f]
  /\ work' = [work EXCEPT !.files[f] = copies]
  /\ UNCHANGED <<request, aborted, at, results, shouldStop, before, command, verdict, origin, disturbed>>

Engine ==
  \/ Throws
  \/ Discover
  \/ RequireGitEvidence
  \/ SnapshotBefore
  \/ \E ending \in Endings, repository \in BOOLEAN : CommandEnds(ending, repository)
  \/ SnapshotAfter

Next == Engine \/ Abort \/ \E f \in 1 .. Files : \E copies \in Copies[f] : Edit(f, copies)

Spec == Init /\ [][Next]_vars

(******************************* Properties *******************************)

Results ==
  [status: {"passed", "failed", "timed_out", "errored", "skipped"}, code: Codes]

\* The types of the variables.
TypeOK ==
  /\ request \in [settings: [Steps -> Settings], manager: BOOLEAN, failFast: BOOLEAN]
  /\ work \in [repository: BOOLEAN, files: FileStates]
  /\ aborted \in BOOLEAN
  /\ at \in Points
  /\ results \in Seq(Results) /\ Len(results) <= Kinds
  /\ shouldStop \in BOOLEAN
  /\ DOMAIN before.status = 1 .. Files /\ DOMAIN before.diff \subseteq 1 .. Files
  /\ command \in Results \union {NoVerdict}
  /\ verdict \in {NoVerdict, [status |-> "passed", code |-> "none"]}
                   \union [status: {"failed"}, code: Codes \ {"none", "fail_fast"}]
  /\ origin \in FileStates /\ disturbed \subseteq Steps

\* A validation that passes has attempted every step it could, and every
\* required one has passed: no fail-fast and no missing command hides a step.
PassedIsEarned ==
  verdict.status = "passed" =>
    /\ \E k \in Steps : Attempted(k)
    /\ \A k \in Steps :
         /\ Required(k) => Attempted(k) /\ results[k].status = "passed"
         /\ Attempted(k) => results[k].status \in {"passed", "failed"}

\* A validation that passes has left the tracked files as they were, and nobody else
\* touched them meanwhile: during none of its steps did one change that was as committed
\* or modified in the work tree only, but behind the limit of the diff or by a commit.
PassedKeepsFiles == verdict.status = "passed" => disturbed = {}

=============================================================================
