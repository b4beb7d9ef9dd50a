-------------------------- MODULE MCJobPipeline --------------------------
EXTENDS JobPipeline, TLC

(* Orders of the models; total is requested plus the join bonus. *)
Order(action, requested, total, retention) ==
    [action |-> action, requested |-> requested, total |-> total, retention |-> retention]

SoloOrders == {Order("join", 1, 1, TRUE), Order("view", 2, 2, FALSE), Order("leave", 1, 1, FALSE)}

PairOrders == {Order("join", 1, 1, TRUE), Order("view", 2, 2, FALSE)}

TwoViews == {Order("view", 2, 2, FALSE)}

Symmetry == Permutations(Account) \cup Permutations(Worker)

\* Bound of pipeline_pair: one fault per behaviour, a death, a loss or an action that
\* outlasts the cutoff.
OneFault == spent.crash + spent.loss + spent.slow <= 1

\* Where a death leaves work behind: a job or its replacements not dispatched, an item
\* left RUNNING, a settlement not told.
LossyPoints == {"accepted", "save", "dispatch", "notify"}

\* Anywhere but between the two statements of finish_item ("count") and where a verdict
\* may be committed and not yet told ("read", "write", "notify"): README, Findings.
SafePoints == {"accepted", "claim", "act", "mark", "save", "after", "cancel", "check",
               "enqueue", "dispatch", "settle", "reset", "requeue"}
=============================================================================
