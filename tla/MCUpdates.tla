------------------------------- MODULE MCUpdates -----------------------------
(* Two message handlers in group 0 and one in group 1; one for raw updates *)
(* that the program may add later.                                         *)
EXTENDS Updates

CONSTANTS h1, h2, h3, raw1

MCKindOf == [h \in Handler |-> IF h = raw1 THEN "raw" ELSE "message"]
MCGroupOf == [h \in Handler |-> IF h = h3 THEN 1 ELSE 0]
MCBudget == [what \in {"error", "change", "restart", "manual", "forget"} |-> 1]
MCAtStart == <<h1, h2, h3>>
=============================================================================
