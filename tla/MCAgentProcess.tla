--------------------------- MODULE MCAgentProcess ---------------------------
\* One agent process whose output is any sequence of the lines below.
EXTENDS AgentProcess

CONSTANTS a, b, empty, blank, ask, link

SomeLines ==
  { <<Text(a, Unclassified)>>, <<Text(b, FinalAnswer)>>, <<Text(b, Commentary)>>,
    <<ToolUse, Passing, Login(link)>>, <<Marked(ask, link)>>,
    <<Usage, Normal>>, <<Text(a, FinalAnswer), Normal>>, <<Text(empty, FinalAnswer), Normal>>, <<Text(blank, Unclassified)>>,
    <<Error("reported")>> }
SomeFinals == {a, blank, Marked(ask, link)}
=============================================================================
