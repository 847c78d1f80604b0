------------------------------ MODULE Adapters ------------------------------
(***************************************************************************)
(* adapters/: how on_node_start turns the arguments it is called with into *)
(* the type and the flag of a node.  A call is a record                    *)
(*   framework   the adapter's class                                       *)
(*   words       the hint words that the lower-case name contains          *)
(*   type        node_type, or "unset" for None                            *)
(*   meta        metadata["idempotent"], "unset" if it is not there        *)
(*   idempotent  the argument, "unset" for None                            *)
(***************************************************************************)
EXTENDS ExecutionNode

DefaultHints == {"tool", "action", "call", "api", "http", "search", "fetch", "write"}

LangGraphHints == DefaultHints
CrewAIHints == {"tool", "delegate", "handoff", "execute", "call", "api", "search", "scrape"}
OpenAIHints == {"tool", "function", "call", "api", "handoff", "retrieval", "search", "fetch"}

\* tool_hints, by the adapter's class.
ToolHints == [base |-> DefaultHints, langgraph |-> LangGraphHints,
              crewai |-> CrewAIHints, openai_agents |-> OpenAIHints]

HintWords == UNION {ToolHints[f] : f \in DOMAIN ToolHints}

Call == [framework : DOMAIN ToolHints, words : SUBSET HintWords,
         type : NodeType \cup {"unset"}, meta : Flag, idempotent : {"unset", "yes", "no"}]

\* classify_name: the explicit type wins, then a hint in the name.
Classify(c) ==
    IF c.type # "unset" THEN c.type
    ELSE IF c.words \cap ToolHints[c.framework] # {} THEN "TOOL" ELSE "PROMPT"

\* Plausible bug: meta.setdefault("idempotent", idempotent).
MetaFirst(c) == IF c.meta # "unset" THEN c.meta ELSE c.idempotent

\* on_node_start: the argument overrides the metadata.
MetaFlag(c) == IF c.idempotent # "unset" THEN c.idempotent ELSE c.meta

Started(c) == [type |-> Classify(c), flag |-> MetaFlag(c)]
=============================================================================
