------------------------------ MODULE MCReplay ------------------------------
EXTENDS Replay

Step(exec, type, output, blob) ==
    [exec |-> exec, type |-> type, output |-> output, blob |-> blob, whole |-> FALSE]
Whole(exec, type, output) == [Step(exec, type, output, FALSE) EXCEPT !.whole = TRUE]

\* Ids are not in creation order: an agent may start its nodes in any order.
OnePlan == {<<Step("e1", "TOOL", "tuple", TRUE), Step("e1", "PROMPT", "json", TRUE)>>}

\* Two executions, two nodes of one, and three executions, of which the page may show
\* the second when the third comes.
ThreePlans ==
    {<<Step("e1", "TOOL", "opaque", FALSE), Step("e2", "PROMPT", "json", TRUE)>>,
     <<Step("e1", "PROMPT", "json", TRUE), Step("e1", "TOOL", "tuple", TRUE)>>,
     <<Whole("e1", "TOOL", "tuple"), Whole("e2", "PROMPT", "json"), Whole("e3", "PROMPT", "none")>>}
=============================================================================
