--------------------------- MODULE ToolCallProofs ---------------------------
(******************************************************************************)
(* What holds of a tool call for every set of paths, wherever they lead, and  *)
(* for every policy: it has no effect without leave, and its outcome is true. *)
(*                                                                            *)
(* The invariant follows the call.  LeavePart counts the requests that were   *)
(* allowed, and says that the call is past them only when all were.           *)
(* PlacePart keeps what the inspection of the paths found.  ChildPart ties a  *)
(* signal that was sent to the reason it was sent for; WorkPart says what     *)
(* each tool has done to the files at each of its steps.                      *)
(******************************************************************************)
EXTENDS ToolCall, TLAPS

\* The steps before the tool itself runs.
Early == {"inspect", "evaluate", "asking"}

Effect == written # {} \/ temp \/ child # "none" \/ outcome = "completed"

Capabilities ==
  {"none", "read_workspace_file", "create_workspace_file", "modify_workspace_file"}

\* What the types of the variables have to be.
TypePart ==
  /\ input \in Inputs /\ requests \in [Elements(Targets) -> Capabilities]
  /\ allowed \in Nat

Granted(i) == Decision(i) = "allow" \/ (Decision(i) = "ask" /\ i \in leave)

\* The requests up to allowed are granted, and the tool runs when all of them are.
LeavePart ==
  /\ \A i \in 1 .. allowed : Granted(i)
  /\ step = "inspect" => allowed = 0
  /\ step = "asking" => Decision(allowed + 1) = "ask"
  /\ step \notin Early => allowed >= NumRequests
  /\ Effect => step \notin Early

\* A path that was inspected leads to a place in the workspace.
PlacePart ==
  /\ input.tool # "read_file" =>
       \A p \in Elements(Targets) : requests[p] # "none" => Places[p] \notin {"outside", "below"}
  /\ step # "inspect" => \A p \in Elements(Targets) : requests[p] # "none"
  /\ input.tool = "read_file" /\ Effect => Places[Targets[1]] \in {"inside", "alias", "through"}

\* A child is sent a signal for its time limit or an abort, and settles as it ended.
ChildPart ==
  /\ grace \/ killed # "none" => Stopped
  /\ settled \in {"none", "closed", "error"}
  /\ settled = "error" => child = "missing"
  /\ settled = "closed" => child \in {"exited", "failed"}

\* write_file writes to where its path led when it was looked at again.  It has written when it
\* cleans up, and its temporary file is gone then.
WrittenPart ==
  input.tool = "write_file" =>
    /\ step \in {"directory", "write", "rename", "clean up"} => target \in {Target, LeadsTo[Target]}
    /\ written # {} => step = "clean up" /\ ~temp /\ written = {target}
    /\ temp => step \in {"rename", "clean up"}

\* git writes what it has matched, all of it unless it is stopped.
PatchPart ==
  input.tool = "apply_patch" =>
    /\ step # "apply" => ~loaded
    /\ ~loaded => written = {}
    /\ written \subseteq Taken
    /\ loaded => \A s \in Sections : Places[s.taken] = "inside"
    /\ step = "apply" /\ child = "missing" => written = {}
    /\ step = "apply" /\ child = "exited" => written = Taken
    /\ step = "apply" /\ child = "failed" /\ ~Stopped => written = {}

\* No other tool changes a file, and only write_file has a temporary one.
OtherPart ==
  /\ input.tool \notin {"write_file", "apply_patch"} => written = {}
  /\ input.tool # "write_file" => ~temp
  /\ input.tool = "read_file" => child = "none"

\* What has been done of a call that has ended.
EndPart ==
  Ended =>
    /\ outcome = "completed" /\ input.tool = "write_file" => written # {}
    /\ outcome = "completed" /\ input.tool = "apply_patch" => written = Taken
    /\ outcome # "completed" /\ ~Stopped => written = {}
    /\ outcome # "cleanup_error" => ~temp

WorkPart == WrittenPart /\ PatchPart /\ OtherPart /\ EndPart

IInv == TypePart /\ LeavePart /\ PlacePart /\ ChildPart /\ WorkPart

----------------------------------------------------------------------------
\* Facts about a state.

\* The tools that have one path have no other.
LEMMA PathFacts ==
  ASSUME input \in Inputs
  PROVE  /\ input.tool \in {"read_file", "write_file", "apply_patch", "run_command"}
         /\ input.tool \in {"read_file", "write_file"} => Target \in Paths
         /\ NumRequests \in Nat
         /\ input.tool = "run_command" => Elements(Targets) = {}
         /\ input.tool \in {"read_file", "write_file"} => Elements(Targets) = {Target}
<1>1. /\ input.tool \in {"read_file", "write_file", "apply_patch", "run_command"}
      /\ input.tool # "apply_patch" => Targets \in Seq(Paths)
      /\ input.tool = "run_command" => Targets = << >>
      /\ input.tool \in {"read_file", "write_file"} => Len(Targets) = 1
  BY ToolAssumption DEF Targets
<1>2. input.tool # "apply_patch" => DOMAIN Targets = 1 .. Len(Targets)
  BY <1>1
<1>3. input.tool = "run_command" => Elements(Targets) = {}
  BY <1>1, <1>2 DEF Elements
<1>4. input.tool \in {"read_file", "write_file"} => Elements(Targets) = {Target} /\ Target \in Paths
  BY <1>1, <1>2 DEF Elements, Target
<1>5. NumRequests \in Nat
  <2>1. CASE input.tool = "apply_patch"
    <3>1. DOMAIN input.sections = 1 .. Len(input.sections) /\ Len(input.sections) \in Nat
      BY PatchAssumption
    <3>2. Targets \in Seq({input.sections[i].path : i \in DOMAIN input.sections})
      BY <2>1, <3>1 DEF Targets
    <3> QED
      BY <2>1, <3>2 DEF NumRequests
  <2> QED
    BY <1>1, <2>1 DEF NumRequests
<1> QED
  BY <1>1, <1>3, <1>4, <1>5

\* A patch with a/ and b/ in its headers is to git what it is to the tool.
LEMMA PatchFacts ==
  ASSUME input \in Inputs, input.tool = "apply_patch", \A s \in Sections : s.prefixed
  PROVE  Taken = Elements(Targets)
<1>1. \A j \in DOMAIN input.sections : input.sections[j].prefixed
  BY DEF Sections, Elements
<1>2. \A i \in DOMAIN input.sections : input.sections[i].taken = input.sections[i].path
  BY <1>1, PatchAssumption
<1>3. Elements(Targets) = {input.sections[i].path : i \in DOMAIN input.sections}
  BY DEF Elements, Targets
<1>4. Taken = {input.sections[i].taken : i \in DOMAIN input.sections}
  BY DEF Taken, Sections, Elements
<1> QED
  BY <1>2, <1>3, <1>4

\* What a call is about does not change.
LEMMA InputFixed ==
  ASSUME UNCHANGED input
  PROVE  /\ Targets' = Targets /\ Target' = Target /\ Elements(Targets)' = Elements(Targets)
         /\ Sections' = Sections /\ Taken' = Taken
  BY DEF Targets, Target, Elements, Sections, Taken

\* What the initial states are.
LEMMA InitInv == Init => IInv
<1> SUFFICES ASSUME Init PROVE IInv
  OBVIOUS
<1>1. TypePart
  BY DEF Init, TypePart, Capabilities
<1>2. LeavePart
  BY DEF Init, NoCommand, LeavePart, Effect, Early
<1>3. PlacePart
  BY DEF Init, NoCommand, PlacePart, Effect
<1>4. ChildPart
  BY DEF Init, NoCommand, ChildPart
<1>5. WorkPart
  BY DEF Init, NoCommand, WorkPart, WrittenPart, PatchPart, OtherPart, EndPart, Ended
<1> QED
  BY <1>1, <1>2, <1>3, <1>4, <1>5 DEF IInv

\* The steps that decide on leave.
Deciding ==
  RefuseInput \/ InspectCommand \/ (\E p \in DOMAIN requests : Inspect(p)) \/ Evaluate \/ UserAnswers

\* Those of write_file and read_file.
Local == Read \/ InspectAgain \/ MakeDirectory \/ WriteTemporary \/ Rename \/ CleanUp

\* Those of the tools that have a child.
WithChild ==
  \/ CheckPatch \/ PatchMoved \/ ApplyPatch \/ PatchDone \/ RunCommand \/ CommandDone
  \/ GitFails \/ GitChecks \/ GitLoads \/ GitExits \/ CommandExits
  \/ \E p \in DOMAIN files : GitWrites(p)

\* Those of the child, the timers, the user and the run.
Around ==
  \/ Runtime(StartFails) \/ Runtime(Closes) \/ Timers \/ Dies \/ Abort
  \/ \E p \in DOMAIN files : UserEdits(p)

LEMMA Cases == Next => Deciding \/ Local \/ WithChild \/ Around
  BY DEF Next, Continues, Deciding, Local, WithChild, Around

----------------------------------------------------------------------------
\* What each group of steps keeps.

LEMMA DecidingKeeps ==
  ASSUME IInv, Deciding
  PROVE  /\ ~Ended /\ step \in Early
         /\ UNCHANGED <<fixed, signal, found, world, command, files>>
         /\ outcome' # "completed" /\ step' \in Early \union {"execute"}
<1>1. CASE RefuseInput
  BY <1>1 DEF RefuseInput, Refusal, At, Fails, Early, world
<1>2. CASE InspectCommand
  BY <1>2 DEF InspectCommand, Doing, At, Goes, Early, world, Ended
<1>3. CASE \E p \in DOMAIN requests : Inspect(p)
  BY <1>3 DEF Inspect, Resolved, At, Fails, Goes, Early, world, Ended
<1>4. CASE Evaluate
  BY <1>4 DEF Evaluate, Decided, Denial, Allows, At, Fails, Goes, Early, world, Ended
<1>5. CASE UserAnswers
  BY <1>5 DEF UserAnswers, Decided, Denial, Allows, At, Fails, Goes, Early, world, Ended
<1> QED
  BY <1>1, <1>2, <1>3, <1>4, <1>5 DEF Deciding

LEMMA LocalKeeps ==
  ASSUME Local
  PROVE  /\ ~Ended /\ step \notin Early /\ step' \notin Early
         /\ input.tool \in {"read_file", "write_file"}
         /\ UNCHANGED <<fixed, ask, command>>
  BY DEF Local, Read, InspectAgain, MakeDirectory, WriteTemporary, Rename, CleanUp, Doing, At, Fails,
         Goes, Early

LEMMA WithChildKeeps ==
  ASSUME WithChild
  PROVE  /\ ~Ended /\ step \notin Early /\ step' \notin Early
         /\ input.tool \in {"apply_patch", "run_command"}
         /\ UNCHANGED <<fixed, ask, temp>>
<1>1. CASE CheckPatch \/ PatchMoved \/ ApplyPatch \/ PatchDone
  BY <1>1 DEF CheckPatch, PatchMoved, ApplyPatch, PatchDone, Starts, Doing, At, Fails, Goes, Early, world
<1>2. CASE RunCommand \/ CommandDone \/ CommandExits
  BY <1>2 DEF RunCommand, CommandDone, CommandExits, Doing, At, Fails, Goes, Early, world
<1>3. CASE GitFails \/ GitChecks \/ GitLoads \/ GitExits \/ \E p \in DOMAIN files : GitWrites(p)
  BY <1>3 DEF GitFails, GitChecks, GitLoads, GitExits, GitWrites, Doing, At, Early, world
<1> QED
  BY <1>1, <1>2, <1>3 DEF WithChild

LEMMA AroundKeeps ==
  ASSUME Around
  PROVE  /\ UNCHANGED <<fixed, ask, step, found, temp, loaded, written, outcome>>
         /\ child' = child \/ (child = "running" /\ child' = "failed" /\ killed = "KILL")
  BY DEF Around, Runtime, StartFails, Closes, Timers, TimeLimit, GraceEnds, Dies, Exits, Abort, AbortHeard,
         UserEdits, world, command

----------------------------------------------------------------------------
\* The steps keep each part.

LEMMA TypeStep ==
  ASSUME IInv, [Next]_vars
  PROVE  TypePart'
<1>1. CASE Deciding
  <2>1. UNCHANGED <<input, files>> /\ allowed \in Nat /\ requests \in [Elements(Targets) -> Capabilities]
    BY <1>1, DecidingKeeps DEF IInv, TypePart, fixed
  <2>2. allowed' = allowed \/ allowed' = allowed + 1
    <3>1. CASE RefuseInput \/ InspectCommand \/ \E p \in DOMAIN requests : Inspect(p)
      BY <3>1 DEF RefuseInput, InspectCommand, Inspect, ask
    <3>2. CASE Evaluate
      BY <3>2 DEF Evaluate, Decided, Allows
    <3>3. CASE UserAnswers
      BY <3>3 DEF UserAnswers, Decided, Allows
    <3> QED
      BY <1>1, <3>1, <3>2, <3>3 DEF Deciding
  <2>3. requests' \in [Elements(Targets) -> Capabilities]
    <3>1. CASE RefuseInput \/ InspectCommand \/ Evaluate \/ UserAnswers
      BY <2>1, <3>1 DEF RefuseInput, InspectCommand, Evaluate, UserAnswers, ask
    <3>2. ASSUME NEW p \in DOMAIN requests, Inspect(p)
          PROVE  requests' \in [Elements(Targets) -> Capabilities]
      BY <2>1, <3>2 DEF Inspect, Capability, Capabilities
    <3> QED
      BY <1>1, <3>1, <3>2 DEF Deciding
  <2> QED
    BY <2>1, <2>2, <2>3 DEF IInv, TypePart, Targets
<1>2. CASE Local \/ WithChild \/ Around \/ UNCHANGED vars
  BY <1>2, LocalKeeps, WithChildKeeps, AroundKeeps DEF IInv, TypePart, Targets, fixed, ask, vars
<1> QED
  BY <1>1, <1>2, Cases

LEMMA ChildStep ==
  ASSUME IInv, [Next]_vars
  PROVE  ChildPart'
<1>1. ChildPart
  BY DEF IInv
<1>2. CASE UNCHANGED command
  BY <1>1, <1>2 DEF ChildPart, command, Stopped
<1>3. CASE Launch(signal)
  BY <1>1, <1>3 DEF ChildPart, Launch, Stopped
<1>4. CASE \E how \in {"exited", "failed"} : Exits(how)
  BY <1>1, <1>4 DEF ChildPart, Exits, Stopped, UnderWay, flags
<1>5. CASE StartFails \/ Closes
  BY <1>1, <1>5 DEF ChildPart, StartFails, Closes, Stopped, UnderWay
<1>6. CASE TimeLimit \/ GraceEnds
  BY <1>1, <1>6 DEF ChildPart, TimeLimit, GraceEnds, Stops, Signalled, Stopped, UnderWay
<1>7. CASE AbortHeard
  BY <1>1, <1>7 DEF ChildPart, AbortHeard, Stops, Signalled, Stopped, UnderWay
<1>8. Deciding \/ Local => UNCHANGED command
  BY DecidingKeeps, LocalKeeps
<1>9. ASSUME WithChild
      PROVE  UNCHANGED command \/ Launch(signal) \/ \E how \in {"exited", "failed"} : Exits(how)
  BY <1>9 DEF WithChild, CheckPatch, PatchMoved, ApplyPatch, PatchDone, RunCommand, CommandDone, CommandExits,
     GitFails, GitChecks, GitLoads, GitExits, GitWrites, Starts
<1>10. ASSUME Around
       PROVE  \/ UNCHANGED command \/ (\E how \in {"exited", "failed"} : Exits(how))
              \/ StartFails \/ Closes \/ TimeLimit \/ GraceEnds \/ AbortHeard
  BY <1>10 DEF Around, Runtime, Timers, Dies, Abort, UserEdits
<1>11. UNCHANGED vars => UNCHANGED command
  BY DEF vars
<1> QED
  BY <1>2, <1>3, <1>4, <1>5, <1>6, <1>7, <1>8, <1>9, <1>10, <1>11, Cases

\* The decision on a request depends on what was found of its path.
LEMMA DecisionFixed ==
  ASSUME UNCHANGED <<fixed, requests>>
  PROVE  NumRequests' = NumRequests /\ Targets' = Targets /\ \A i : Decision(i)' = Decision(i)
  BY DEF fixed, NumRequests, Decision, CommandDecision, CommandClass, WriteDecision, Sensitivity, Targets

\* Before the tool runs nothing has been done, and the last leave lets it run.
LEMMA LeaveStep ==
  ASSUME IInv, [Next]_vars
  PROVE  LeavePart'
<1>1. LeavePart /\ allowed \in Nat
  BY DEF IInv, TypePart
<1>2. ASSUME Deciding PROVE ~Effect'
  BY <1>1, <1>2, DecidingKeeps DEF LeavePart, Effect, world, command
<1>3. CASE RefuseInput \/ InspectCommand
  <2>1. UNCHANGED <<fixed, requests, allowed, leave>> /\ step \in Early /\ ~Effect'
    BY <1>2, <1>3, DecidingKeeps DEF RefuseInput, InspectCommand, Deciding, ask
  <2>2. step' = step \/ step' = "evaluate"
    BY <1>3 DEF RefuseInput, InspectCommand, Fails, Goes
  <2> QED
    BY <1>1, <2>1, <2>2, DecisionFixed DEF LeavePart, Granted, Early
<1>4. ASSUME NEW p \in DOMAIN requests, Inspect(p)
      PROVE  LeavePart'
  <2>1. step = "inspect" /\ allowed' = allowed /\ step' \in {"inspect", "evaluate"} /\ ~Effect'
    BY <1>2, <1>4 DEF Inspect, At, Fails, Goes, Deciding
  <2> QED
    BY <1>1, <2>1 DEF LeavePart, Early
<1>5. CASE Evaluate
  <2>1. /\ UNCHANGED <<fixed, requests, leave>> /\ step = "evaluate" /\ ~Effect'
    BY <1>2, <1>5 DEF Evaluate, At, Deciding
  <2>2. \A i : Granted(i)' <=> Granted(i)
    BY <2>1, DecisionFixed DEF Granted
  <2>3. \/ step' = "asking" /\ allowed' = allowed /\ Decision(allowed + 1) = "ask"
        \/ step' = "evaluate" /\ allowed' = allowed
        \/ /\ Decision(allowed + 1) = "allow" /\ allowed' = allowed + 1
           /\ step' = "evaluate" \/ (step' = "execute" /\ allowed + 1 = NumRequests)
    BY <1>5 DEF Evaluate, At, Decided, Allows, Fails, Goes
  <2>4. \A i \in 1 .. allowed + 1 : i \in 1 .. allowed \/ i = allowed + 1
    BY <1>1
  <2>5. \A i \in 1 .. allowed' : Granted(i)
    BY <1>1, <2>3, <2>4 DEF LeavePart, Granted
  <2>6. NumRequests' = NumRequests /\ \A i : Decision(i)' = Decision(i)
    BY <2>1, DecisionFixed
  <2>7. step' \notin Early => allowed' = NumRequests
    BY <2>3 DEF Early
  <2>8. (step' = "asking" => Decision(allowed' + 1) = "ask") /\ step' # "inspect"
    BY <2>3
  <2>9. (step' \notin Early => allowed' >= NumRequests')
    BY <1>1, <2>3, <2>6, <2>7
  <2> QED
    BY <2>1, <2>2, <2>5, <2>6, <2>8, <2>9 DEF LeavePart
<1>6. CASE UserAnswers
  <2>1. /\ UNCHANGED <<fixed, requests>> /\ step = "asking" /\ ~Effect'
        /\ Decision(allowed + 1) = "ask"
    BY <1>1, <1>2, <1>6 DEF UserAnswers, At, Deciding, LeavePart
  <2>2. \/ step' = "asking" /\ allowed' = allowed /\ leave' = leave
        \/ /\ allowed' = allowed + 1 /\ leave' = leave \union {allowed + 1}
           /\ step' = "evaluate" \/ (step' = "execute" /\ allowed + 1 = NumRequests)
    BY <1>6 DEF UserAnswers, At, Decided, Allows, Fails, Goes
  <2>3. \A i : Decision(i)' = Decision(i)
    BY <2>1, DecisionFixed
  <2>4. NumRequests' = NumRequests
    BY <2>1, DecisionFixed
  <2>5. \A i \in 1 .. allowed + 1 : i \in 1 .. allowed \/ i = allowed + 1
    BY <1>1
  <2>6. \A i \in 1 .. allowed' : Granted(i)'
    BY <1>1, <2>1, <2>2, <2>3, <2>5 DEF LeavePart, Granted
  <2>7. step' = "asking" => Decision(allowed' + 1) = "ask"
    BY <2>1, <2>2
  <2>8. step' # "inspect" /\ (step' \notin Early => allowed' >= NumRequests')
    BY <1>1, <2>2, <2>4 DEF Early
  <2> QED
    BY <2>1, <2>3, <2>6, <2>7, <2>8 DEF LeavePart
<1>7. CASE Local \/ WithChild
  <2>1. UNCHANGED <<fixed, requests, allowed, leave>> /\ step \notin Early /\ step' \notin Early
    BY <1>7, LocalKeeps, WithChildKeeps DEF ask
  <2> QED
    BY <1>1, <2>1, DecisionFixed DEF LeavePart, Granted, Early
<1>8. CASE Around \/ UNCHANGED vars
  <2>1. /\ UNCHANGED <<fixed, requests, allowed, leave, step>>
        /\ Effect' => Effect
    BY <1>8, AroundKeeps DEF ask, vars, world, command, Effect
  <2> QED
    BY <1>1, <2>1, DecisionFixed DEF LeavePart, Granted
<1> QED
  BY <1>3, <1>4, <1>5, <1>6, <1>7, <1>8, Cases DEF Deciding

\* A path is looked up before the call gets leave for it.
LEMMA PlaceStep ==
  ASSUME IInv, [Next]_vars
  PROVE  PlacePart'
<1>1. /\ PlacePart /\ input \in Inputs /\ requests \in [Elements(Targets) -> Capabilities]
      /\ step \in Early => ~Effect
  BY DEF IInv, TypePart, LeavePart
<1>2. ASSUME Deciding PROVE ~Effect' /\ UNCHANGED <<fixed, Targets>>
  BY <1>1, <1>2, DecidingKeeps DEF Effect, world, command, fixed, Targets
<1>3. CASE RefuseInput \/ Evaluate \/ UserAnswers
  <2>1. UNCHANGED <<fixed, requests, Targets>> /\ ~Effect' /\ (step = "inspect" => step' = "inspect")
    BY <1>2, <1>3 DEF RefuseInput, Evaluate, UserAnswers, At, Fails, Deciding, ask
  <2> QED
    BY <1>1, <2>1 DEF PlacePart, fixed
<1>4. CASE InspectCommand
  <2>1. UNCHANGED <<fixed, requests, Targets>> /\ ~Effect' /\ Elements(Targets) = {}
    BY <1>1, <1>2, <1>4, PathFacts DEF InspectCommand, Doing, Deciding, ask
  <2> QED
    BY <2>1 DEF PlacePart, fixed
<1>5. ASSUME NEW p \in DOMAIN requests, Inspect(p)
      PROVE  PlacePart'
  <2>1. UNCHANGED <<fixed, Targets>> /\ ~Effect' /\ step = "inspect"
    BY <1>2, <1>5 DEF Inspect, At, Deciding
  <2>2. CASE requests' = requests /\ step' = "inspect"
    BY <1>1, <2>1, <2>2 DEF PlacePart, fixed
  <2>3. CASE /\ input.tool = "read_file" \/ Resolved(p, FALSE) = "resolved"
             /\ requests' = [requests EXCEPT ![p] = Capability(p)]
             /\ step' # "inspect" => \A q \in DOMAIN requests \ {p} : requests[q] # "none"
    <3>1. Capability(p) # "none"
      BY DEF Capability
    <3>2. input.tool # "read_file" => Places[p] \notin {"outside", "below"}
      BY <2>3 DEF Resolved
    <3>3. \A q \in Elements(Targets) : requests'[q] = IF q = p THEN Capability(p) ELSE requests[q]
      BY <1>1, <2>3
    <3>4. input.tool # "read_file" =>
            \A q \in Elements(Targets) : requests'[q] # "none" => Places[q] \notin {"outside", "below"}
      BY <1>1, <3>2, <3>3 DEF PlacePart
    <3>5. step' # "inspect" => \A q \in Elements(Targets) : requests'[q] # "none"
      BY <1>1, <2>3, <3>1, <3>3
    <3> QED
      BY <2>1, <3>4, <3>5 DEF PlacePart, fixed
  <2> QED
    BY <1>5, <2>1, <2>2, <2>3 DEF Inspect, Fails, Goes
<1>6. CASE Local
  <2>1. /\ UNCHANGED <<fixed, requests, Targets>> /\ step # "inspect" /\ UNCHANGED child
    BY <1>6, LocalKeeps DEF ask, Early, fixed, Targets, command
  <2>2. ASSUME input.tool = "read_file", Effect'
        PROVE  Places[Targets[1]] \in {"inside", "alias", "through"}
    <3>1. CASE Read
      <4>1. Effect \/ Resolved(Targets[1], TRUE) = "resolved"
        BY <2>1, <2>2, <3>1 DEF Read, Fails, Resolved, Effect, world
      <4>2. Targets[1] \in Paths
        BY <1>1, <2>2, PathFacts DEF Target
      <4>3. Places[Targets[1]] \in {"inside", "outside", "link", "below", "alias", "through"}
        BY <4>2, ToolAssumption
      <4>4. Resolved(Targets[1], TRUE) = "resolved" => Places[Targets[1]] \in {"inside", "alias", "through"}
        BY <4>3 DEF Resolved
      <4> QED
        BY <1>1, <2>2, <4>1, <4>4 DEF PlacePart
    <3> QED
      BY <1>6, <2>2, <3>1 DEF Local, InspectAgain, MakeDirectory, WriteTemporary, Rename, CleanUp, Doing
  <2> QED
    BY <1>1, <2>1, <2>2 DEF PlacePart, fixed
<1>7. CASE WithChild
  <2>1. /\ UNCHANGED <<fixed, requests, Targets>> /\ step # "inspect" /\ input.tool # "read_file"
    BY <1>7, WithChildKeeps DEF ask, Early, fixed, Targets
  <2> QED
    BY <1>1, <2>1 DEF PlacePart, fixed
<1>8. CASE Around \/ UNCHANGED vars
  <2>1. /\ UNCHANGED <<fixed, requests, step, Targets>>
        /\ Effect' => Effect
    BY <1>8, AroundKeeps DEF ask, vars, world, command, Effect, fixed, Targets
  <2> QED
    BY <1>1, <2>1 DEF PlacePart, fixed
<1> QED
  BY <1>3, <1>4, <1>5, <1>6, <1>7, <1>8, Cases DEF Deciding

----------------------------------------------------------------------------
\* What each group of steps does to the files.

LEMMA DecidingWorks ==
  ASSUME IInv, Deciding
  PROVE  WorkPart'
<1>1. /\ UNCHANGED <<input, temp, loaded, written, child>>
      /\ step \in Early /\ step' \in Early \union {"execute"} /\ outcome' # "completed"
  BY DecidingKeeps DEF fixed, world, command
<1>2. WorkPart /\ ~Effect
  BY <1>1 DEF IInv, LeavePart
<1>3. written' = {} /\ ~temp' /\ step' # "apply"
  BY <1>1, <1>2 DEF Effect, Early
<1>4. WrittenPart'
  BY <1>1, <1>3 DEF WrittenPart, Early
<1>5. input.tool = "apply_patch" => ~loaded'
  BY <1>1, <1>2 DEF PatchPart, WorkPart, Early
<1>6. PatchPart'
  BY <1>1, <1>3, <1>5 DEF PatchPart
<1>7. OtherPart' /\ EndPart'
  BY <1>1, <1>2, <1>3 DEF OtherPart, WorkPart, EndPart
<1> QED
  BY <1>4, <1>6, <1>7 DEF WorkPart

LEMMA LocalWorks ==
  ASSUME IInv, Local
  PROVE  WorkPart'
<1>1. /\ UNCHANGED <<input, child, Target>> /\ ~Ended /\ WrittenPart /\ OtherPart
      /\ input.tool \in {"read_file", "write_file"}
  BY LocalKeeps, InputFixed DEF IInv, WorkPart, fixed, command
<1>2. CASE Read
  <2>1. input.tool = "read_file" /\ UNCHANGED <<temp, written>>
    BY <1>2 DEF Read, Doing, world
  <2> QED
    BY <1>1, <2>1 DEF WorkPart, WrittenPart, PatchPart, OtherPart, EndPart
<1>3. CASE InspectAgain \/ MakeDirectory
  <2>1. /\ input.tool = "write_file" /\ step \in {"execute", "directory"} /\ UNCHANGED <<temp, written>>
        /\ outcome' # "completed"
        /\ (step' = "execute" \/ target' \in {Target, LeadsTo[Target]})
    BY <1>1, <1>3 DEF InspectAgain, MakeDirectory, Resolved, FileOf, WrittenPart, Doing, At, Fails, Goes, world,
       found, Ended
  <2>2. written = {} /\ ~temp
    BY <1>1, <2>1 DEF WrittenPart
  <2> QED
    BY <1>1, <2>1, <2>2 DEF WorkPart, WrittenPart, PatchPart, OtherPart, EndPart
<1>4. CASE WriteTemporary
  <2>1. /\ input.tool = "write_file" /\ step = "write" /\ step' \in {"rename", "clean up"} /\ UNCHANGED <<written, target>>
        /\ ~Ended'
    BY <1>1, <1>4 DEF WriteTemporary, Doing, At, Goes, found, Ended
  <2>2. written = {}
    BY <1>1, <2>1 DEF WrittenPart
  <2> QED
    BY <1>1, <2>1, <2>2 DEF WorkPart, WrittenPart, PatchPart, OtherPart, EndPart
<1>5. CASE Rename
  <2>1. /\ input.tool = "write_file" /\ step = "rename" /\ step' = "clean up" /\ ~Ended'
        /\ (written' = {target} /\ ~temp') \/ UNCHANGED <<written, temp>>
        /\ UNCHANGED target
    BY <1>1, <1>5 DEF Rename, Doing, At, Goes, found, Ended
  <2>2. written = {}
    BY <1>1, <2>1 DEF WrittenPart
  <2> QED
    BY <1>1, <2>1, <2>2 DEF WorkPart, WrittenPart, PatchPart, OtherPart, EndPart
<1>6. CASE CleanUp
  <2>1. /\ input.tool = "write_file" /\ step = "clean up" /\ step' = step /\ UNCHANGED <<written, target>>
        /\ \/ ~temp' /\ outcome' = (IF written = {} THEN "file_error" ELSE "completed")
           \/ temp /\ outcome' = "cleanup_error" /\ temp' = temp
    BY <1>6 DEF CleanUp, Doing, At, found
  <2> QED
    BY <1>1, <2>1 DEF WorkPart, WrittenPart, PatchPart, OtherPart, EndPart
<1> QED
  BY <1>2, <1>3, <1>4, <1>5, <1>6 DEF Local

LEMMA WithChildWorks ==
  ASSUME IInv, WithChild
  PROVE  WorkPart'
<1>1. /\ UNCHANGED <<input, temp>> /\ ~Ended /\ PatchPart /\ OtherPart /\ ChildPart
      /\ input.tool \in {"apply_patch", "run_command"}
      /\ ~temp /\ Taken' = Taken /\ Sections' = Sections
  BY WithChildKeeps, InputFixed DEF IInv, WorkPart, OtherPart, fixed
<1>2. SUFFICES /\ PatchPart'
               /\ input.tool = "run_command" => written' = {}
               /\ Ended' => /\ outcome' = "completed" /\ input.tool = "apply_patch" =>
                                 written' = Taken
                            /\ outcome' # "completed" /\ ~Stopped' => written' = {}
  BY <1>1 DEF WorkPart, WrittenPart, OtherPart, EndPart
<1>3. CASE CheckPatch \/ PatchMoved
  <2>1. /\ input.tool = "apply_patch" /\ step = "execute" /\ step' \in {"execute", "check"}
        /\ UNCHANGED <<loaded, written>> /\ outcome' # "completed"
    BY <1>1, <1>3 DEF CheckPatch, PatchMoved, Starts, Doing, At, Fails, Goes, world, Ended
  <2> QED
    BY <1>1, <2>1 DEF PatchPart
<1>4. CASE ApplyPatch
  <2>1. /\ input.tool = "apply_patch" /\ step = "check" /\ UNCHANGED <<loaded, written>>
        /\ outcome' # "completed" /\ (step' = "check" \/ child' \in {"missing", "running"})
    BY <1>1, <1>4 DEF ApplyPatch, Launch, Doing, At, Fails, Goes, world, Ended
  <2>2. ~loaded /\ written = {}
    BY <1>1, <2>1 DEF PatchPart
  <2> QED
    BY <1>1, <2>1, <2>2 DEF PatchPart
<1>5. CASE PatchDone
  <2>1. /\ input.tool = "apply_patch" /\ step = "apply" /\ step' = "apply"
        /\ UNCHANGED <<loaded, written, child, timedOut, aborted>> /\ settled # "none"
        /\ outcome' = "completed" <=> Succeeded
    BY <1>5 DEF PatchDone, Doing, At, Fails, world, command
  <2>2. Stopped' = Stopped
    BY <2>1 DEF Stopped
  <2>3. Succeeded => written = Taken
    BY <1>1, <2>1 DEF PatchPart, Succeeded
  <2>4. ~Succeeded /\ ~Stopped => written = {}
    BY <1>1, <2>1 DEF PatchPart, ChildPart, Succeeded
  <2> QED
    BY <1>1, <2>1, <2>2, <2>3, <2>4 DEF PatchPart
<1>6. CASE RunCommand \/ CommandDone \/ CommandExits
  <2>1. input.tool = "run_command" /\ UNCHANGED written
    BY <1>6 DEF RunCommand, CommandDone, CommandExits, Doing, world
  <2> QED
    BY <1>1, <2>1 DEF PatchPart, OtherPart
<1>7. CASE GitFails
  <2>1. /\ input.tool = "apply_patch" /\ child' = "failed" /\ ~Ended'
        /\ UNCHANGED <<step, loaded, written, timedOut, aborted>> /\ (~loaded \/ killed # "none")
    BY <1>1, <1>7 DEF GitFails, Exits, Doing, At, world, flags, Ended
  <2> QED
    BY <1>1, <2>1 DEF PatchPart, ChildPart, Stopped
<1>8. CASE GitChecks
  <2>1. step = "check" /\ step' = step /\ UNCHANGED <<loaded, written>> /\ ~Ended' /\ input.tool = "apply_patch"
    BY <1>1, <1>8 DEF GitChecks, Doing, At, world, Ended
  <2> QED
    BY <1>1, <2>1 DEF PatchPart
<1>9. CASE GitLoads \/ \E p \in DOMAIN files : GitWrites(p)
  <2>1. /\ input.tool = "apply_patch" /\ step = "apply" /\ step' = step /\ ~Ended'
        /\ child = "running" /\ child' = child /\ loaded'
        /\ written \subseteq Taken => written' \subseteq Taken
        /\ ~loaded => \A s \in Sections : Places[s.taken] = "inside"
    BY <1>1, <1>9 DEF GitLoads, GitWrites, Fits, Doing, At, command, Ended
  <2> QED
    BY <1>1, <2>1 DEF PatchPart
<1>10. CASE GitExits
  <2>1. /\ input.tool = "apply_patch" /\ step = "apply" /\ step' = step /\ ~Ended'
        /\ written = Taken /\ child' = "exited" /\ UNCHANGED <<loaded, written>>
    BY <1>1, <1>10 DEF GitExits, Exits, Doing, At, world, Ended
  <2> QED
    BY <1>1, <2>1 DEF PatchPart
<1> QED
  BY <1>3, <1>4, <1>5, <1>6, <1>7, <1>8, <1>9, <1>10 DEF WithChild

LEMMA AroundWorks ==
  ASSUME IInv, Around \/ UNCHANGED vars
  PROVE  WorkPart'
<1>1. /\ WorkPart /\ ChildPart
      /\ UNCHANGED <<input, step, target, temp, loaded, written, outcome, Target, Sections, Taken>>
  BY AroundKeeps, InputFixed DEF IInv, fixed, vars, world, found
<1>2. Stopped => Stopped'
  <2>1. CASE UNCHANGED vars
    BY <2>1 DEF vars, command, Stopped
  <2>2. CASE Around
    BY <2>2 DEF Around, Runtime, StartFails, Closes, Timers, TimeLimit, GraceEnds, Dies, Exits, Abort, AbortHeard,
       UserEdits, command, flags, Stopped
  <2> QED
    BY <2>1, <2>2
<1>3. child' = child \/ (child = "running" /\ child' = "failed" /\ Stopped')
  BY <1>1, <1>2, AroundKeeps DEF ChildPart, vars, command
<1>4. WrittenPart' /\ OtherPart' /\ EndPart'
  BY <1>1, <1>2, <1>3 DEF WorkPart, WrittenPart, OtherPart, EndPart, Ended
<1>5. PatchPart'
  BY <1>1, <1>2, <1>3 DEF WorkPart, PatchPart
<1> QED
  BY <1>4, <1>5 DEF WorkPart

----------------------------------------------------------------------------
\* The invariant holds in every reachable state.
THEOREM Invariance == Spec => []IInv
<1>1. ASSUME IInv, [Next]_vars PROVE IInv'
  <2>1. WorkPart'
    BY <1>1, Cases, DecidingWorks, LocalWorks, WithChildWorks, AroundWorks
  <2> QED
    BY <1>1, <2>1, TypeStep, LeaveStep, PlaceStep, ChildStep DEF IInv
<1> QED
  BY <1>1, InitInv, PTL DEF Spec

\* A call has an effect, on a file, through a child or as a read that is reported,
\* only when every one of its requests was allowed and its paths stay in the
\* workspace; and it writes what a path it asked for leads to, but for a patch with a
\* header that lacks a/ or b/ (ToolRegistry.execute and the WorkspacePathResolver).
THEOREM EffectsHaveLeave == Spec => []EffectsAreAllowed
<1>1. IInv => EffectsAreAllowed
  <2> SUFFICES ASSUME IInv, Effect PROVE EffectsAreAllowed
    BY DEF EffectsAreAllowed, Effect
  <2>1. /\ input \in Inputs /\ step \notin Early /\ allowed \in Nat /\ allowed >= NumRequests
        /\ \A i \in 1 .. allowed : Granted(i)
        /\ WrittenPart /\ PatchPart /\ OtherPart
    BY DEF IInv, LeavePart, TypePart, WorkPart
  <2>2. NumRequests \in Nat
    BY <2>1, PathFacts
  <2>3. \A i \in 1 .. NumRequests : Granted(i)
    BY <2>1, <2>2
  <2>4. /\ input.tool # "read_file" => \A p \in Elements(Targets) : Places[p] \notin {"outside", "below"}
        /\ input.tool = "read_file" => Places[Targets[1]] \in {"inside", "alias", "through"}
    BY <2>1 DEF IInv, PlacePart, Early
  <2>5. input.tool = "read_file" => Elements(Targets) = {Targets[1]}
    BY <2>1, PathFacts DEF Target
  <2>6. \A p \in Elements(Targets) : Places[p] \notin {"outside", "below"}
    BY <2>4, <2>5
  <2>7. CASE input.tool = "write_file"
    <3>1. Target \in Paths /\ Elements(Targets) = {Target}
      BY <2>1, <2>7, PathFacts
    <3>2. Places[LeadsTo[Target]] \notin {"outside", "below"}
      BY <2>6, <3>1, ToolAssumption
    <3>3. \A f \in written : f \in {Target, LeadsTo[Target]}
      BY <2>1, <2>7 DEF WrittenPart
    <3> QED
      BY <2>3, <2>6, <2>7, <3>1, <3>2, <3>3 DEF EffectsAreAllowed, Granted
  <2>8. CASE input.tool = "apply_patch"
    <3>1. \A f \in written : f \in Taken /\ Places[f] = "inside"
      BY <2>1, <2>8 DEF PatchPart, Taken
    <3>2. (\A s \in Sections : s.prefixed) => Taken = Elements(Targets)
      BY <2>1, <2>8, PatchFacts
    <3> QED
      BY <2>3, <2>6, <2>8, <3>1, <3>2 DEF EffectsAreAllowed, Granted
  <2>9. CASE input.tool \notin {"write_file", "apply_patch"}
    BY <2>1, <2>3, <2>4, <2>6, <2>9 DEF EffectsAreAllowed, Granted, OtherPart
  <2> QED
    BY <2>7, <2>8, <2>9
<1> QED
  BY <1>1, Invariance, PTL

\* What the model is told of a call is so: done is all of its files, and the reported ones
\* but for a link's and a patch with a header that lacks a/ or b/; failed is none of
\* them unless git was stopped, and no temporary file is left behind silently
\* (WriteFileTool.execute and ApplyPatchTool.execute).
THEOREM OutcomesAreTrue == Spec => []OutcomeIsTrue
<1>1. IInv => OutcomeIsTrue
  <2> SUFFICES ASSUME IInv, Ended PROVE OutcomeIsTrue
    BY DEF OutcomeIsTrue
  <2>1. input \in Inputs /\ WrittenPart /\ EndPart
    BY DEF IInv, TypePart, WorkPart
  <2>2. outcome = "completed" /\ input.tool = "write_file" => \E f \in {Target, LeadsTo[Target]} : written = {f}
    BY <2>1 DEF WrittenPart, EndPart
  <2>3. ASSUME outcome = "completed", input.tool = "apply_patch"
        PROVE  written = Taken /\ (written = Elements(Targets) \/ \E s \in Sections : ~s.prefixed)
    BY <2>1, <2>3, PatchFacts DEF EndPart
  <2> QED
    BY <2>1, <2>2, <2>3 DEF OutcomeIsTrue, EndPart
<1> QED
  BY <1>1, Invariance, PTL

=============================================================================
