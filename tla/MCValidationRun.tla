-------------------------- MODULE MCValidationRun ---------------------------
(* Small configurations for ValidationRun. *)
EXTENDS ValidationRun

Setting(enabled, required, cmd, script) ==
  [enabled |-> enabled, required |-> required, command |-> cmd, script |-> script]

\* Disabled; required, with nothing found; a script; a command that need not pass.
Typical ==
  {Setting(FALSE, "required", TRUE, TRUE), Setting(TRUE, "required", FALSE, FALSE),
   Setting(TRUE, "unset", FALSE, TRUE), Setting(TRUE, "optional", TRUE, TRUE)}

Copy(commit, index, tree) == [commit |-> commit, index |-> index, tree |-> tree]

\* The first file is as committed or modified.  The second is modified in two ways, each of
\* which can be staged.
TwoFiles ==
  <<{Copy(0, 0, 0), Copy(0, 0, 1)},
    {Copy(0, 0, 0), Copy(0, 0, 1), Copy(0, 0, 2), Copy(0, 1, 1), Copy(0, 2, 2)}>>
=============================================================================
