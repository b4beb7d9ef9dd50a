--------------------------- MODULE RetentionPeriod ---------------------------
(***************************************************************************)
(* The AutoLeave of a settled job, under names that leave those of         *)
(* JobPipeline free: a join with retention goes on as AutoLeave, and what  *)
(* is proved about the two is proved side by side (JobPipelineProofs).     *)
(***************************************************************************)
EXTENDS Naturals

CONSTANTS
    Joiner,       \* the Account of AutoLeave: the accounts that joined
    LeaveWorker,  \* its Worker
    LeaveKinds,   \* its Kinds
    LeaveCrashes, \* its MaxCrashes
    LeaveCopies   \* its MaxCopies

VARIABLES
    job, row, due, errored, joined, member, sched, crashes,
    leaves,       \* the queue of AutoLeave
    completions,  \* its callbacks
    at            \* its pc

ASSUME LeaveAssumption ==
    /\ LeaveKinds \subseteq {"ok", "already_done", "error"}
    /\ LeaveCrashes \in Nat
    /\ LeaveCopies \in Nat \ {0}

Retention == INSTANCE AutoLeave
    WITH Account <- Joiner, Worker <- LeaveWorker, Kinds <- LeaveKinds,
         MaxCrashes <- LeaveCrashes, MaxCopies <- LeaveCopies,
         queue <- leaves, callbacks <- completions, pc <- at

RetentionSpec == Retention!FairSpec

(* An account recorded as LEFT has left.                                   *)
LeftHasLeft == Retention!LeftHasLeft

(* The job completes only when every schedule was worked on.               *)
CompletesLast == Retention!CompletesLast

(* An account leaves only after its retention.                             *)
NoEarlyLeave == Retention!NoEarlyLeave

(* Every due schedule is worked on.                                        *)
EveryScheduleRuns == Retention!EveryScheduleRuns
=============================================================================
