\* Two tool calls of two parts each; a CLI may write three lines.
CONSTANTS
  Calls <- MCCalls
  Pieces = 2
  Scripts <- MCScripts
  MaxOutput = 3

SPECIFICATION FairSpec
INVARIANTS AnswerIsWhole StopIsNamed ChildIsStopped
PROPERTY CallEnds
CHECK_DEADLOCK FALSE
