--------------------------- MODULE MCProviderCall ---------------------------
(**********************************************************************************)
(* An instance of ProviderCall: two tool calls whose arguments come in two parts. *)
(**********************************************************************************)
EXTENDS ProviderCall

Event(type, i) == [type |-> type, call |-> i]
Text == Event("text", 0)
Completed == <<Event("finish", 0), Event("done", 0)>>
Call(i) == <<Event("call", i), Event("args", i), Event("args", i)>>

\* Text, a call, two calls whose parts are mixed, an error after some text, and nothing.
OpenAI == {
  <<Text, Text>> \o Completed,
  <<Text>> \o Call(1) \o Completed,
  <<Event("call", 1), Event("call", 2), Event("args", 2), Event("args", 1), Event("args", 1), Event("args", 2)>> \o Completed,
  <<Text, Event("error", 0)>>,
  Completed}

Anthropic == {<<Text, Text, Event("finish", 0)>>, Call(1) \o Call(2), <<Text, Event("error", 0)>>, <<>>}
Gemini == {<<Text, Text>>, <<Text, Event("call", 1), Event("call", 2)>>, <<Text, Event("error", 0)>>, <<>>}

\* A CLI says something on the way, and ends with its answer.
Line(type, form, calls) == [type |-> type, form |-> form, calls |-> calls]
Lines(type) ==
  {<<Line("noise", "none", {}), Line(type, form, calls)>> :
     form \in {"prose", "empty", "envelope"}, calls \in {{}, {1}}}
  \union {<<Line("message", "envelope", {1}), Line("json", "none", {}), Line(type, "envelope", {2})>>,
          <<Line("noise", "none", {}), Line("noise", "none", {}), Line("json", "none", {}), Line(type, "prose", {})>>,
          <<>>}

\* The answer without the type that is looked for.
Untyped == {<<Line("json", "none", {}), Line("json", form, {1})>> : form \in {"prose", "envelope", "none"}}

MCScripts ==
  [a \in HttpAdapters \union CliAdapters |->
     CASE a = "openai" -> OpenAI [] a = "anthropic" -> Anthropic [] a = "gemini" -> Gemini
       [] a = "codex-cli" -> Lines("message") [] OTHER -> Lines("result") \union Untyped]

MCCalls == {1, 2}

=============================================================================
