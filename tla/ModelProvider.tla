---------------------------- MODULE ModelProvider ----------------------------
(******************************************************************************)
(* One request of the Core to a provider adapter, generate(request): what the *)
(* transports have in common.  The Core gives a signal to stop it; an adapter *)
(* has a deadline of its own; the call ends once, with an answer or an error. *)
(******************************************************************************)
EXTENDS Naturals, Sequences, FiniteSets

CONSTANTS
  Calls,    \* the indices of the tool calls a model may ask for in one answer
  Pieces,   \* the parts in which a call's arguments are streamed
  Scripts   \* of each adapter: what the model may set out to send

ASSUME ProviderAssumption == Pieces \in Nat \ {0}

HttpAdapters == {"openai", "anthropic", "gemini"}
CliAdapters  == {"codex-cli", "claude-code-cli", "gemini-cli"}

VARIABLES
  adapter,  \* the adapter the call goes through
  tools,    \* whether the request offers tools
  script,   \* what the model sets out to send in this call
  signal,   \* what first told the call to stop: "none", "caller" or "deadline"
  outcome   \* "none" while the call is out, then how it ended

call == <<adapter, tools, script, signal, outcome>>

\* An answer carries its text, as the number of pieces it came in, and its tool calls.
Answer(text, calls) == [kind |-> "answer", text |-> text, calls |-> calls]
Failure(code) == [kind |-> code, text |-> 0, calls |-> {}]
Pending == Failure("none")
Settled == outcome # Pending

\* The Core aborts the workflow, or the deadline passes: the first of them is the reason.
Raised(cause) == signal' = IF signal = "none" THEN cause ELSE signal

\* What the model says and asks for.
Types(s) == {s[i].type : i \in DOMAIN s}
Texts(s) == Cardinality({i \in DOMAIN s : s[i].type = "text"})
Asked(s) == {s[i].call : i \in {j \in DOMAIN s : s[j].type = "call"}}

=============================================================================
