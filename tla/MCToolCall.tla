----------------------------- MODULE MCToolCall -----------------------------
(***************************************************************************************)
(* An instance of ToolCall: three plain files, an environment file, two credentials, a *)
(* path outside of the workspace, a link to the outside, and a file below such a link; *)
(* a link to the environment file, and a path through a link to a directory.           *)
(***************************************************************************************)
EXTENDS ToolCall

MCPaths == {"a", "b", "c", "env", "key", "keys", "out", "link", "linked", "alias", "through"}
MCPlaces ==
  [p \in MCPaths |-> CASE p = "out" -> "outside" [] p = "link" -> "link" [] p = "linked" -> "below"
                       [] p \in {"alias", "through"} -> p [] OTHER -> "inside"]
MCLeadsTo == [p \in MCPaths |-> CASE p = "alias" -> "env" [] p = "through" -> "b" [] OTHER -> p]
MCNames ==
  [p \in MCPaths |-> CASE p = "env" -> ".env" [] p = "key" -> "key" [] p = "keys" -> "credentials"
                       [] OTHER -> "plain"]

Call(tool, paths, sections, large) ==
  [tool |-> tool, form |-> "valid", paths |-> paths, sections |-> sections, large |-> large,
   program |-> "none", argument |-> "none"]
OnFile(tool, p) == Call(tool, <<p>>, << >>, FALSE)
Command(program, argument) ==
  [Call("run_command", << >>, << >>, FALSE) EXCEPT !.program = program, !.argument = argument]

Section(p) == [diff |-> "none", old |-> "path", new |-> "path", path |-> p, prefixed |-> TRUE, taken |-> p]
Diffed(p) == [Section(p) EXCEPT !.diff = "same"]
Made(p) == [Section(p) EXCEPT !.old = "null"]
\* Its headers say "src/c", without a/ and b/, and git takes it for "b".
Bare == [Made("c") EXCEPT !.prefixed = FALSE, !.taken = "b"]
Patch(sections) == Call("apply_patch", << >>, sections, FALSE)

\* What the tool does not support, one of each, and a patch whose other diff line it cannot read.
Unread == [Section("b") EXCEPT !.diff = "unreadable"]
MCRefused ==
  {<< >>, <<Unread>>, <<[Diffed("a") EXCEPT !.new = "missing"]>>}
  \union {<<Section("a"), s>> : s \in {[Diffed("b") EXCEPT !.diff = "renamed"], [Diffed("b") EXCEPT !.diff = "other"],
                                       [Section("b") EXCEPT !.old = "other"], [Section("b") EXCEPT !.new = "null"],
                                       [Section("b") EXCEPT !.new = "quoted"]}}
MCPatches ==
  {<<Diffed("a"), Unread>>, <<Section("a"), Made("b")>>, <<Section("a"), Bare>>, <<Section("alias")>>, <<Section("through")>>}
  \union {<<Section("a"), Section(p)>> : p \in {"b", "env", "key", "link"}}

MCInputs ==
  {OnFile("read_file", p) : p \in {"a", "out", "link", "linked", "alias"}}
  \union {OnFile("write_file", p) : p \in MCPaths}
  \union {Patch(sections) : sections \in MCPatches \union MCRefused}
  \union {[Patch(<<Section("a"), Section(p)>>) EXCEPT !.large = TRUE] : p \in {"b", "env"}}
  \union {[c EXCEPT !.form = form] : c \in {OnFile("write_file", "a"), Patch(<<Section("a")>>)}, form \in {"invalid", "too large"}}
  \union {[Command("ls", "none") EXCEPT !.form = "invalid"]}
  \union {Command("shell", "none"), Command("git", "push"), Command("git", "status"), Command("git", "commit"),
          Command("npm", "script"), Command("npm", "publish"), Command("pnpm", "tsc"), Command("npx", "script"),
          Command("node", "--version"), Command("node", "script"), Command("ls", "none")}

\* The defaults of the code, and a policy that asks before any change.
Default ==
  [safe |-> "ask", validation |-> "allow", unknown |-> "ask", create |-> "allow", modify |-> "allow",
   large |-> "ask", environment |-> "ask", credential |-> "deny"]
Careful == [Default EXCEPT !.create = "ask", !.modify = "ask", !.unknown = "deny"]
MCPolicies == {Default, Careful}

=============================================================================
