---------------------------- MODULE MCToolCalls ----------------------------
(* Instances of ToolCalls for TLC: an agent adapter that multiplexes its     *)
(* executes and two tool adapters that do not.                               *)
EXTENDS ToolCalls

CONSTANTS agent, search, shell

MCAdapters == {agent, search, shell}

\* The agent may call both tools, the search tool may call the shell.
MCAcyclic == {<<agent, search>>, <<agent, shell>>, <<search, shell>>}

\* A call cycle between the two tools, which the compiler only warns about.
MCCyclic == MCAcyclic \cup {<<shell, search>>}
=============================================================================
