----------------------------- MODULE MCRecovery -----------------------------
EXTENDS Recovery

Tool == [framework |-> "langgraph", words |-> {"search"}, type |-> "unset",
         meta |-> "unset", idempotent |-> "unset"]
Prompt == [Tool EXCEPT !.words = {}]

TwoSteps == {Tool, Prompt}

\* Also a tool whose argument overrides its metadata, a step that is no tool but
\* flagged, and an explicit tool with a flag that is not a boolean.
AllSteps == TwoSteps \cup
    {[Tool EXCEPT !.framework = "openai_agents", !.meta = "no", !.idempotent = "yes"],
     [Prompt EXCEPT !.framework = "crewai", !.words = {"write"}, !.meta = "yes",
                    !.idempotent = "no"],
     [Prompt EXCEPT !.framework = "base", !.type = "TOOL", !.meta = "other"]}
=============================================================================
