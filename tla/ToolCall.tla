------------------------------ MODULE ToolCall ------------------------------
(************************************************************************************)
(* One call of a tool through the ToolRegistry: what the tool asks leave for, what  *)
(* the DefaultPermissionEngine and the user say, and what the tool then does to the *)
(* workspace.  Meanwhile the user edits the same files, the run is aborted, and the *)
(* file system or the child process fails.                                          *)
(*                                                                                  *)
(* A file is known by whether it is there and whether it is still as the model read *)
(* it, which is what a patch needs.  A patch is known by its sections, and of each  *)
(* by what ApplyPatchTool.parse and git read in its lines.                          *)
(************************************************************************************)
EXTENDS LocalCommand, Naturals, Sequences, FiniteSets

CONSTANTS
  Paths,
  Places,       \* of each path: "inside" or "outside" of the workspace; a "link" to the outside, or "below" one;
                \* an "alias", a link to a file of the workspace, or "through" a link to one of its directories
  LeadsTo,      \* of an alias and of a path through one: the file it leads to
  Names,        \* of each path, what its name says: "plain", ".env", "key" or "credentials"
  Inputs,       \* the calls: [tool, form, paths, sections, large, program, argument]
  Policies,     \* DefaultPermissionPolicy, with its defaults filled in
  MaxEdits      \* bound on the edits of the user

ASSUME ToolAssumption ==
  /\ Places \in [Paths -> {"inside", "outside", "link", "below", "alias", "through"}] /\ MaxEdits \in Nat
  /\ Names \in [Paths -> {"plain", ".env", "key", "credentials"}]
  /\ LeadsTo \in [Paths -> Paths]
  /\ \A p \in Paths : IF Places[p] \in {"alias", "through"} THEN Places[LeadsTo[p]] = "inside" ELSE LeadsTo[p] = p
  /\ \A c \in Inputs :
       /\ c.tool \in {"read_file", "write_file", "apply_patch", "run_command"}
       /\ c.form \in {"valid", "invalid", "too large"} /\ c.paths \in Seq(Paths)
       /\ c.tool \in {"run_command", "apply_patch"} => c.paths = << >>
       /\ c.tool \in {"read_file", "write_file"} => Len(c.paths) = 1

\* A section of a patch: its diff line ("none", "same" as the path, "other", "renamed", or one the tool
\* cannot read), its two headers, the path of the new one without a/ or b/, whether both headers have
\* those, and the file git takes the section for.  That is the path when the headers have them: git strips
\* one component of any header.  A section without headers has a diff line that the tool reads.
ASSUME PatchAssumption ==
  \A c \in Inputs :
    /\ c.sections \in Seq([diff : {"none", "same", "other", "renamed", "unreadable"}, old : {"path", "null", "other"},
                           new : {"path", "null", "quoted", "missing"}, path : Paths, prefixed : BOOLEAN, taken : Paths])
    /\ \A i \in DOMAIN c.sections :
         LET s == c.sections[i]
         IN /\ (\A j \in DOMAIN c.sections : c.sections[j].prefixed) => s.taken = s.path
            /\ s.new = "missing" => s.diff \notin {"none", "unreadable"}
            /\ \A j \in DOMAIN c.sections \ {i} : c.sections[j].path # s.path

VARIABLES
  input, policy,
  resolver,   \* the context has a resolvePermission
  signal,     \* the run has been aborted
  step,       \* where the call is
  requests,   \* by path, the capability asked for; "none" before the path was inspected
  allowed,    \* how many requests have been allowed
  leave,      \* of those, the ones the user allowed
  target,     \* of write_file: the file that its path leads to
  existed,    \* of write_file: the target was there
  files,      \* by path: "absent" (or still a link), "known" (as the model read it), "edited" or "new"
  temp,       \* the temporary file is there
  loaded,     \* the patch has been matched against all of its files
  written,    \* the paths this call has changed
  outcome,    \* "none", "completed", or the code of the error
  edits

ask   == <<requests, allowed, leave>>
world == <<files, temp, loaded, written>>
fixed == <<input, policy, resolver>>
found == <<target, existed>>
vars  == <<fixed, signal, step, ask, found, world, outcome, edits, command>>

Ended == outcome # "none"
Elements(s) == {s[i] : i \in DOMAIN s}

\* The paths of the call, as it asks for them and reports them.
Targets ==
  IF input.tool = "apply_patch" THEN [i \in DOMAIN input.sections |-> input.sections[i].path] ELSE input.paths

Sections == Elements(input.sections)

\* What git takes the patch for.
Taken == {s.taken : s \in Sections}

\* The files that the call may come to.
Reached == Elements(Targets) \union {LeadsTo[p] : p \in Elements(Targets)} \union Taken

Init ==
  /\ input \in Inputs /\ policy \in Policies /\ resolver \in BOOLEAN
  /\ signal = FALSE /\ step = "inspect"
  /\ requests = [p \in Elements(Targets) |-> "none"] /\ allowed = 0 /\ leave = {}
  /\ target = "none" /\ existed = FALSE
  /\ files \in [Reached -> {"absent", "known"}]
  /\ \A p \in Reached : Places[p] \in {"alias", "through"} => files[p] = "absent"
  /\ temp = FALSE /\ loaded = FALSE /\ written = {} /\ outcome = "none" /\ edits = 0
  /\ NoCommand

At(s) == ~Ended /\ step = s
Doing(tool, s) == At(s) /\ input.tool = tool

Fails(code) == outcome' = code /\ UNCHANGED step
Goes(s) == step' = s /\ UNCHANGED outcome

----------------------------------------------------------------------------
\* Leave.

\* parse: what of a patch it refuses.  Diff lines that it cannot read are passed over when there is
\* one that it can.
Unsupported ==
  \/ \A s \in Sections : s.new = "missing"
  \/ \E s \in Sections :
       \/ s.new \in {"null", "quoted"}
       \/ s.new = "path" /\ s.old = "other"
       \/ s.diff \in {"renamed", "other"} \/ (s.diff = "same" /\ s.new = "missing")
  \/ /\ \E s \in Sections : s.diff # "none"
     /\ \A s \in Sections : s.diff \in {"none", "unreadable"}

\* The tool's validation of its input, before anything else; read_file has none yet.
Refusal ==
  IF input.tool = "read_file" THEN "none"
  ELSE IF input.form = "too large" THEN "file_too_large"
  ELSE IF input.tool = "apply_patch" /\ (input.form = "invalid" \/ Unsupported) THEN "patch_failed"
  ELSE IF input.form = "invalid" THEN "tool_error" ELSE "none"

RefuseInput ==
  /\ At("inspect") /\ Refusal # "none" /\ Fails(Refusal)
  /\ UNCHANGED <<fixed, signal, ask, found, world, edits, command>>

\* realpath of a path: the file it leads to.  Of a link that leads to no file there is none, and
\* the path stands for itself; below a link to a directory, the system goes through that.
FileOf(p) ==
  IF Places[p] = "through" \/ (Places[p] = "alias" /\ files[p] = "absent" /\ files[LeadsTo[p]] # "absent")
  THEN LeadsTo[p] ELSE p

There(p) == files[FileOf(p)] # "absent"

\* WorkspacePathResolver.resolve: the path itself, and then where it leads; of a file that is
\* not there, where its nearest directory leads.
Resolved(p, mustExist) ==
  IF Places[p] = "outside" THEN "path_outside_workspace"
  ELSE IF ~There(p) /\ mustExist THEN "file_not_found"
  ELSE IF Places[p] = "below" \/ (Places[p] = "link" /\ There(p)) THEN "path_outside_workspace"
  ELSE "resolved"

Capability(p) ==
  IF input.tool = "read_file" THEN "read_workspace_file"
  ELSE IF There(p) THEN "modify_workspace_file" ELSE "create_workspace_file"

\* inspectWriteTarget, for the paths of a patch side by side.  read_file asks for its path
\* as it is.
Inspect(p) ==
  /\ At("inspect") /\ Refusal = "none" /\ requests[p] = "none"
  /\ IF input.tool # "read_file" /\ Resolved(p, FALSE) # "resolved"
     THEN Fails(Resolved(p, FALSE)) /\ UNCHANGED requests
     ELSE /\ requests' = [requests EXCEPT ![p] = Capability(p)]
          /\ Goes(IF \A q \in DOMAIN requests \ {p} : requests[q] # "none" THEN "evaluate" ELSE "inspect")
  /\ UNCHANGED <<fixed, signal, allowed, leave, found, world, edits, command>>

\* run_command has no paths.
InspectCommand ==
  /\ Doing("run_command", "inspect") /\ Refusal = "none" /\ Goes("evaluate")
  /\ UNCHANGED <<fixed, signal, ask, found, world, edits, command>>

\* classifySensitivePath, of the name that was asked for and not of the file it leads to.
Sensitivity(p) ==
  CASE Names[p] = ".env"                 -> "environment"
    [] Names[p] \in {"key", "credentials"} -> "credential"
    [] OTHER                             -> "none"

\* writeDecision: the first that applies.
WriteDecision(p) ==
  IF Sensitivity(p) = "credential" THEN policy.credential
  ELSE IF Sensitivity(p) = "environment" THEN policy.environment
  ELSE IF input.large THEN policy.large
  ELSE IF requests[p] = "create_workspace_file" THEN policy.create ELSE policy.modify

PackageManagers == {"pnpm", "npm", "yarn", "npx"}

\* classifyCommand: "shell" stands for the shells, sudo, rm and the tools of production, "tsc"
\* for a compiler run that emits nothing, "script" for one of the scripts of a validation.
CommandClass ==
  LET program == input.program argument == input.argument
  IN CASE program = "shell" -> "dangerous"
       [] program = "git"   -> CASE argument \in {"push", "reset", "clean"} -> "dangerous"
                                 [] argument \in {"status", "diff"}         -> "safe"
                                 [] OTHER                                   -> "unknown"
       [] program \in PackageManagers /\ argument = (IF program = "npx" THEN "tsc" ELSE "script") -> "validation"
       [] program = "pnpm" /\ argument = "tsc"       -> "validation"
       [] program = "node" /\ argument = "--version" -> "safe"
       [] program = "ls"    -> "safe"
       [] OTHER             -> "unknown"

\* commandDecision
CommandDecision == IF CommandClass = "dangerous" THEN "deny" ELSE policy[CommandClass]

\* evaluate; isOutsideWorkspace looks at the path itself only.
Decision(i) ==
  IF input.tool = "run_command" THEN CommandDecision
  ELSE IF Places[Targets[i]] = "outside" THEN "deny"
  ELSE IF input.tool = "read_file" THEN "allow"
  ELSE WriteDecision(Targets[i])

NumRequests == IF input.tool = "run_command" THEN 1 ELSE Len(Targets)

Denial ==
  CASE input.tool = "run_command" -> "command_blocked"
    [] input.tool = "read_file"   -> "permission_error"
    [] OTHER                      -> "write_permission_denied"

Allows(i) ==
  /\ allowed' = i /\ Goes(IF i = NumRequests THEN "execute" ELSE "evaluate")

\* Mutant: only a denial is one.
Lenient(i, decision) == IF decision = "deny" THEN Fails(Denial) /\ UNCHANGED allowed ELSE Allows(i)

\* Without an allowance the call ends here.
Decided(i, decision) ==
  IF decision = "allow" THEN Allows(i)
  ELSE /\ Fails(IF decision = "ask" THEN "permission_required" ELSE Denial)
       /\ UNCHANGED allowed

\* The requests, one after the other, in the order of the patch.
Evaluate ==
  /\ At("evaluate")
  /\ LET i == allowed + 1
     IN IF Decision(i) = "ask" /\ resolver
        THEN Goes("asking") /\ UNCHANGED allowed
        ELSE Decided(i, Decision(i))
  /\ UNCHANGED <<fixed, signal, requests, leave, found, world, edits, command>>

\* resolvePermission: the user decides, or the workflow cannot wait for it and it throws.
UserAnswers ==
  /\ At("asking")
  /\ \/ Decided(allowed + 1, "allow") /\ leave' = leave \union {allowed + 1}
     \/ Decided(allowed + 1, "deny") /\ UNCHANGED leave
     \/ Fails("resolver_error") /\ UNCHANGED <<allowed, leave>>
  /\ UNCHANGED <<fixed, signal, requests, found, world, edits, command>>

----------------------------------------------------------------------------
\* read_file changes nothing, and may find a directory, an error or the signal.
Read ==
  /\ Doing("read_file", "execute")
  /\ IF Resolved(Targets[1], TRUE) # "resolved" THEN Fails(Resolved(Targets[1], TRUE))
     ELSE Fails("completed") \/ Fails("tool_error")
  /\ UNCHANGED <<fixed, signal, ask, found, world, edits, command>>

----------------------------------------------------------------------------
\* write_file: a temporary file beside the target is renamed to it.  It does not look at
\* the signal.
Target == Targets[1]

\* The write goes to where the path leads now.
InspectAgain ==
  /\ Doing("write_file", "execute")
  /\ target' = FileOf(Target) /\ existed' = There(Target)
  /\ IF Resolved(Target, FALSE) = "resolved" THEN Goes("directory") ELSE Fails(Resolved(Target, FALSE))
  /\ UNCHANGED <<fixed, signal, ask, world, edits, command>>

\* mkdir, and the mode of a file that was there.
MakeDirectory ==
  /\ Doing("write_file", "directory")
  /\ \/ Fails("file_error")
     \/ IF existed /\ files[target] = "absent" THEN Fails("tool_error") ELSE Goes("write")
  /\ UNCHANGED <<fixed, signal, ask, found, world, edits, command>>

WriteTemporary ==
  /\ Doing("write_file", "write")
  /\ \/ Goes("rename") /\ temp' = TRUE
     \/ Goes("clean up") /\ temp' \in BOOLEAN
  /\ UNCHANGED <<fixed, signal, ask, found, files, loaded, written, edits, command>>

\* chmod and rename
Rename ==
  /\ Doing("write_file", "rename") /\ Goes("clean up")
  /\ \/ /\ files' = [files EXCEPT ![target] = "new"] /\ written' = {target} /\ temp' = FALSE
     \/ UNCHANGED <<files, written, temp>>
  /\ UNCHANGED <<fixed, signal, ask, found, loaded, edits, command>>

\* The finally block.  A file that is not there is no error.
CleanUp ==
  /\ Doing("write_file", "clean up")
  /\ \/ temp' = FALSE /\ outcome' = (IF written = {} THEN "file_error" ELSE "completed")
     \/ temp /\ outcome' = "cleanup_error" /\ UNCHANGED temp
  /\ UNCHANGED <<fixed, signal, step, ask, found, files, loaded, written, edits, command>>

----------------------------------------------------------------------------
\* apply_patch: git checks the patch, and then applies it.
Starts(tool, s, next) ==
  /\ Doing(tool, s) /\ Goes(next) /\ Launch(signal)
  /\ UNCHANGED <<fixed, signal, ask, found, world, edits>>

CheckPatch ==
  /\ \A p \in Elements(Targets) : Resolved(p, FALSE) = "resolved"
  /\ Starts("apply_patch", "execute", "check")

PatchMoved ==
  /\ Doing("apply_patch", "execute") /\ \E p \in Elements(Targets) : Resolved(p, FALSE) # "resolved"
  /\ Fails("path_outside_workspace")
  /\ UNCHANGED <<fixed, signal, ask, found, world, edits, command>>

Stopped == timedOut \/ aborted

\* Mutant: the exit code of git is not looked at.
Started == settled = "closed" /\ ~Stopped

Succeeded == settled = "closed" /\ child = "exited" /\ ~Stopped

ApplyPatch ==
  /\ Doing("apply_patch", "check") /\ settled # "none"
  /\ IF Succeeded
     THEN Goes("apply") /\ Launch(signal)
     ELSE Fails(IF settled = "error" THEN "tool_error" ELSE "patch_failed") /\ UNCHANGED command
  /\ UNCHANGED <<fixed, signal, ask, found, world, edits>>

PatchDone ==
  /\ Doing("apply_patch", "apply") /\ settled # "none"
  /\ Fails(IF Succeeded THEN "completed" ELSE IF settled = "error" THEN "tool_error" ELSE "patch_failed")
  /\ UNCHANGED <<fixed, signal, ask, found, world, edits, command>>

\* A patch makes a file, or changes one that is as it was when it was read, and not through
\* a link.
Fits ==
  \A s \in Sections : Places[s.taken] = "inside" /\ files[s.taken] = (IF s.old = "null" THEN "absent" ELSE "known")

\* git: it matches the whole patch before it writes a file, then writes them all.  An error of
\* the file system between two of them is left out.
GitFails ==
  /\ \E s \in {"check", "apply"} : Doing("apply_patch", s)
  /\ Exits("failed") /\ ((~Fits /\ ~loaded) \/ killed # "none")
  /\ UNCHANGED <<fixed, signal, step, ask, found, world, outcome, edits>>

GitChecks ==
  /\ Doing("apply_patch", "check") /\ Fits /\ Exits("exited")
  /\ UNCHANGED <<fixed, signal, step, ask, found, world, outcome, edits>>

GitLoads ==
  /\ Doing("apply_patch", "apply") /\ child = "running" /\ Fits /\ ~loaded
  /\ loaded' = TRUE
  /\ UNCHANGED <<fixed, signal, step, ask, found, files, temp, written, outcome, edits, command>>

GitWrites(p) ==
  /\ Doing("apply_patch", "apply") /\ child = "running" /\ loaded /\ p \in Taken \ written
  /\ files' = [files EXCEPT ![p] = "new"] /\ written' = written \union {p}
  /\ UNCHANGED <<fixed, signal, step, ask, found, temp, loaded, outcome, edits, command>>

GitExits ==
  /\ Doing("apply_patch", "apply") /\ written = Taken /\ Exits("exited")
  /\ UNCHANGED <<fixed, signal, step, ask, found, world, outcome, edits>>

----------------------------------------------------------------------------
\* run_command
RunCommand ==
  /\ Doing("run_command", "execute")
  /\ IF signal THEN Fails("tool_error") /\ UNCHANGED command
     ELSE Goes("run") /\ Launch(signal)
  /\ UNCHANGED <<fixed, signal, ask, found, world, edits>>

\* Whatever its exit code, a command that was left to end has a result.
CommandDone ==
  /\ Doing("run_command", "run") /\ settled # "none"
  /\ Fails(IF settled = "error" THEN "tool_error"
           ELSE IF timedOut THEN "command_timeout" ELSE IF aborted THEN "tool_error" ELSE "completed")
  /\ UNCHANGED <<fixed, signal, ask, found, world, edits, command>>

CommandExits ==
  /\ Doing("run_command", "run") /\ \E how \in {"exited", "failed"} : Exits(how)
  /\ UNCHANGED <<fixed, signal, step, ask, found, world, outcome, edits>>

----------------------------------------------------------------------------
\* The user, the run and the timers.
\* (A file may take the place of an alias, and the alias that of the file.)
UserEdits(p) ==
  /\ ~Ended /\ edits < MaxEdits /\ edits' = edits + 1 /\ Places[p] # "through"
  /\ \E x \in {"absent", "edited"} \ {files[p]} : files' = [files EXCEPT ![p] = x]
  /\ UNCHANGED <<fixed, signal, step, ask, found, temp, loaded, written, outcome, command>>

Abort ==
  /\ ~Ended /\ ~signal /\ signal' = TRUE
  /\ IF UnderWay THEN AbortHeard ELSE UNCHANGED command
  /\ UNCHANGED <<fixed, step, ask, found, world, outcome, edits>>

Runtime(A) == A /\ UNCHANGED <<fixed, signal, step, ask, found, world, outcome, edits>>

\* A SIGKILL is the end of a child.
Dies == killed = "KILL" /\ Runtime(Exits("failed"))

Timers == Runtime(TimeLimit) \/ Runtime(GraceEnds)

Continues ==
  \/ Evaluate \/ Read
  \/ InspectAgain \/ MakeDirectory \/ WriteTemporary \/ Rename \/ CleanUp
  \/ CheckPatch \/ PatchMoved \/ ApplyPatch \/ PatchDone
  \/ RunCommand \/ CommandDone
  \/ Runtime(StartFails) \/ Runtime(Closes)

Next ==
  \/ RefuseInput \/ InspectCommand \/ UserAnswers \/ Continues \/ Timers \/ Dies
  \/ \E p \in DOMAIN requests : Inspect(p)
  \/ \E p \in DOMAIN files : GitWrites(p) \/ UserEdits(p)
  \/ GitFails \/ GitChecks \/ GitLoads \/ GitExits \/ CommandExits
  \/ Abort

Spec == Init /\ [][Next]_vars

\* The code goes on, the timers fire, and the system ends what was sent a SIGKILL.  No child
\* is relied on, and the user need not answer.
FairSpec ==
  /\ Spec /\ WF_vars(Continues) /\ WF_vars(Runtime(TimeLimit)) /\ WF_vars(Runtime(GraceEnds)) /\ WF_vars(Dies)

----------------------------------------------------------------------------
\* Properties.

\* EffectsAreAllowed: a call has touched a file or started a child only when every one of
\* its requests was allowed, by the policy or by the user's answer to that request: the
\* last file of a patch that is refused keeps the first one as it was, and a request that
\* nobody can be asked about is no allowance.  Nor is a place outside of the workspace written
\* or read, be it through a link; and what is written is what a path of the request leads to.
\* A request is judged by the name of its path, also when that leads to a file of another name.
\* The exception to the last is a patch with a header that lacks a/ or b/: the tool asks for
\* the path as it stands, and git strips a component of it and takes another file.
EffectsAreAllowed ==
  written # {} \/ temp \/ child # "none" \/ outcome = "completed" =>
    /\ \A i \in 1..NumRequests : Decision(i) = "allow" \/ (Decision(i) = "ask" /\ i \in leave)
    /\ \A p \in Elements(Targets) \union written : Places[p] \notin {"outside", "below"}
    /\ input.tool = "read_file" => Places[Targets[1]] \in {"inside", "alias", "through"}
    /\ \A f \in written :
         (\E p \in Elements(Targets) : f \in {p, LeadsTo[p]}) \/ (\E s \in Sections : ~s.prefixed)

\* OutcomeIsTrue: what the model is told of a call is so.  A call that is reported as done
\* has changed all of its files, which are the reported ones but for a link's and for a patch with
\* a header that lacks a/ or b/; one that failed has changed none, whatever the user did to
\* them between the steps, and wherever it failed, and it leaves no temporary file but for
\* one that could not be removed.  The exception is a patch that git was stopped from
\* applying: an abort or the time limit may come when some of its files are written.
OutcomeIsTrue ==
  Ended =>
    /\ outcome = "completed" /\ input.tool = "write_file" => \E f \in {Target, LeadsTo[Target]} : written = {f}
    /\ outcome = "completed" /\ input.tool = "apply_patch" =>
         /\ written = Taken
         /\ written = Elements(Targets) \/ (\E s \in Sections : ~s.prefixed)
    /\ outcome # "completed" /\ ~Stopped => written = {}
    /\ outcome # "cleanup_error" => ~temp

\* CallEnds: a call that has its leave ends, also with a child that ignores the SIGTERM of
\* the time limit.
CallEnds == step = "execute" ~> Ended

=============================================================================
