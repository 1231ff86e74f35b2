------------------------------ MODULE MCBuild ------------------------------
EXTENDS Build

\* A task that may fail in every way, and a second plan whose task a third one waits for;
\* the first and the third own a file in common.
MCTasks == {"base", "side", "top"}
MCPlans == {"main", "other"}
MCPlanOf == [t \in MCTasks |-> IF t = "side" THEN "other" ELSE "main"]
MCOrder == <<"base", "top", "side">>
MCDeps == [t \in MCTasks |-> IF t = "top" THEN {"side"} ELSE {}]
MCClash == {{"base", "top"}}
MCEndings == [t \in MCTasks |->
    IF t = "base" THEN {"good", "lost", "unreviewed", "rejected"} ELSE {"good"}]
\* The plan of two of them may be edited once.
MCMaxVersion == [p \in MCPlans |-> IF p = "main" THEN 2 ELSE 1]
=============================================================================
