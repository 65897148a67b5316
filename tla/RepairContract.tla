---------------------------- MODULE RepairContract ---------------------------
(*****************************************************************************)
(* What the repair of one task promises, whatever its limits and its way of  *)
(* working: code changes in versions, a version is validated before it is    *)
(* reviewed, only a version that passed both may be accepted, and such a     *)
(* version is given up only on an abort or an error.                         *)
(*****************************************************************************)
EXTENDS Naturals

VARIABLES version, validation, review, verdict

vars == <<version, validation, review, verdict>>

Verdict(v, p) == [of |-> v, passed |-> p]
NotReviewed == Verdict(0, FALSE)

\* The version at hand has been judged favourably by both.
Accepted ==
  validation = Verdict(version, TRUE) /\ review = Verdict(version, TRUE)

Init ==
  /\ version = 1 /\ verdict \in {"open", "interrupted"}
  /\ validation \in {Verdict(1, p) : p \in BOOLEAN}
  /\ review \in {NotReviewed} \union {Verdict(1, p) : p \in BOOLEAN}

Change ==
  /\ verdict = "open" /\ version' = version + 1
  /\ UNCHANGED <<validation, review, verdict>>

Validate ==
  /\ verdict = "open"
  /\ \E p \in BOOLEAN : validation' = Verdict(version, p)
  /\ UNCHANGED <<version, review, verdict>>

Forget ==
  /\ verdict = "open" /\ ~validation.passed
  /\ review' = NotReviewed /\ UNCHANGED <<version, validation, verdict>>

Review ==
  /\ verdict = "open" /\ validation = Verdict(version, TRUE)
  /\ \E p \in BOOLEAN : review' = Verdict(version, p)
  /\ UNCHANGED <<version, validation, verdict>>

Accept ==
  /\ verdict = "open" /\ Accepted
  /\ verdict' = "accepted" /\ UNCHANGED <<version, validation, review>>

\* Giving up may come with a last change, which nobody has judged.
GiveUp ==
  /\ verdict = "open" /\ verdict' = "rejected"
  /\ version' \in {version, version + 1} /\ ~Accepted'
  /\ UNCHANGED <<validation, review>>

\* An abort or an error ends the repair wherever it is; the code it leaves is
\* not accepted, whatever was said of it.
Interrupt ==
  /\ verdict = "open" /\ verdict' = "interrupted"
  /\ version' \in {version, version + 1} /\ validation' = validation
  /\ review' \in {review, NotReviewed} \union {Verdict(version, p) : p \in BOOLEAN}

Next ==
  Change \/ Validate \/ Forget \/ Review \/ Accept \/ GiveUp \/ Interrupt

Spec == Init /\ [][Next]_vars
=============================================================================
