------------------------- MODULE AccountHealthProofs -------------------------
(***************************************************************************)
(* No account is called dead before it was refused DEAD_THRESHOLD times,   *)
(* for any number of accounts, of probers and of errors.                   *)
(*                                                                         *)
(* Two probers may read the same row before either saves it, and the later *)
(* one then overwrites the other's count: updates are lost.  The argument  *)
(* is that a lost update only ever loses: the count of a row, and the      *)
(* count of a copy somebody still holds of it, never exceed the refusals   *)
(* that were recorded, and a row that says dead has been refused often     *)
(* enough.  The deletion of an account resets its refusals; the copy a     *)
(* prober still holds of it is harmless, for the row never comes back.     *)
(***************************************************************************)
EXTENDS AccountHealth, TLAPS

(* A row, or a copy of one, is no worse than n refusals account for. *)
Earned(row, n) ==
    /\ row.fails <= n
    /\ row.avail = "dead" => n >= DEAD_THRESHOLD

(* As much of the types as the argument needs. *)
Typed ==
    /\ here \subseteq Account
    /\ health \in [Account -> Health]
    /\ copy \in [Prober -> Health]
    /\ refusals \in [Account -> 0..DEAD_THRESHOLD]
    /\ DOMAIN pc = Prober /\ DOMAIN targets = Prober

RowsAreEarned == \A a \in Account : Earned(health[a], refusals[a])

CopiesAreEarned ==
    \A p \in Prober :
        pc[p] = "saving" /\ Current(p).id \notin gone =>
            Current(p).id \in Account /\ Earned(copy[p], refusals[Current(p).id])

IInv ==
    /\ Typed
    /\ here \cap gone = {}
    /\ RowsAreEarned
    /\ CopiesAreEarned

LEMMA Threshold == DEAD_THRESHOLD \in Nat \ {0} /\ Sweeper \in Prober
  BY HealthAssumption DEF HealthAssumption

LEMMA UnprobedIsEarned ==
    /\ Unprobed \in Health
    /\ \A n \in 0..DEAD_THRESHOLD : Earned(Unprobed, n)
  BY Threshold DEF Unprobed, Health, Availability, Earned

LEMMA InitInv == Init => IInv
<1> SUFFICES ASSUME Init PROVE IInv
  OBVIOUS
<1>1. Typed
  BY UnprobedIsEarned, Threshold DEF Init, Typed
<1>2. RowsAreEarned
  BY UnprobedIsEarned, Threshold DEF Init, RowsAreEarned
<1>3. CopiesAreEarned
  BY DEF Init, CopiesAreEarned
<1> QED BY <1>1, <1>2, <1>3 DEF Init, IInv

(* The alternatives of a verdict, one by one. *)
LEMMA VerdictCases ==
    ASSUME NEW t, NEW outcome, NEW old
    PROVE  /\ outcome = "alive" => Verdict(t, outcome, old) \in {"at_capacity", "available"}
           /\ outcome = "auth_fail" =>
                Verdict(t, outcome, old) =
                    IF Failures(outcome, old) >= DEAD_THRESHOLD THEN "dead" ELSE "unknown"
           /\ outcome \notin {"alive", "auth_fail"} => Verdict(t, outcome, old) = old.avail
  BY Zenon DEF Verdict

(* What is recorded after an outcome is earned, if what was read before it *)
(* was, and the outcome is counted.                                        *)
LEMMA VerdictIsEarned ==
    ASSUME NEW t, NEW outcome, NEW old \in Health, NEW n \in 0..DEAD_THRESHOLD, Earned(old, n)
    PROVE  /\ [avail |-> Verdict(t, outcome, old), fails |-> Failures(outcome, old)] \in Health
           /\ Earned([avail |-> Verdict(t, outcome, old), fails |-> Failures(outcome, old)],
                     IF outcome = "auth_fail" THEN OneMore(n) ELSE n)
<1>0. old.fails \in 0..DEAD_THRESHOLD /\ old.avail \in Availability
  BY DEF Health
<1>1. CASE outcome = "alive"
  BY <1>1, <1>0, VerdictCases, Threshold DEF Failures, Earned, Health, Availability
<1>2. CASE outcome = "auth_fail"
  BY <1>2, <1>0, VerdictCases, Threshold DEF Failures, OneMore, Earned, Health, Availability
<1>3. CASE outcome \notin {"alive", "auth_fail"}
  BY <1>3, <1>0, VerdictCases, Threshold DEF Failures, Earned, Health, Availability
<1> QED BY <1>1, <1>2, <1>3

-----------------------------------------------------------------------------
(* Another account's step, or a prober's that saves nothing, keeps what is *)
(* earned.                                                                 *)
LEMMA RowsUntouched ==
    ASSUME IInv, UNCHANGED <<health, refusals, gone>>,
           here' \subseteq Account, here' \cap gone = {},
           copy' \in [Prober -> Health], DOMAIN pc' = Prober, DOMAIN targets' = Prober,
           \A p \in Prober : pc'[p] = "saving" =>
               pc[p] = "saving" /\ targets'[p] = targets[p] /\ copy'[p] = copy[p]
    PROVE  IInv'
<1>1. Typed' /\ RowsAreEarned' /\ (here \cap gone = {})'
  BY DEF IInv, Typed, RowsAreEarned
<1>2. CopiesAreEarned'
  BY DEF IInv, CopiesAreEarned, Current
<1> QED BY <1>1, <1>2 DEF IInv

LEMMA LogInInv == ASSUME IInv, NEW a \in Account, LogIn(a) PROVE IInv'
  BY RowsUntouched DEF LogIn, prober, IInv, Typed

LEMMA DeleteInv == ASSUME IInv, NEW a \in Account, Delete(a) PROVE IInv'
<1> USE DEF Delete, prober, IInv
<1>1. Typed' /\ (here \cap gone = {})'
  BY UnprobedIsEarned, Threshold DEF Typed
<1>2. RowsAreEarned'
  BY UnprobedIsEarned, Threshold DEF RowsAreEarned, Typed
<1>3. CopiesAreEarned'
  BY DEF CopiesAreEarned, Current, Typed
<1> QED BY <1>1, <1>2, <1>3

LEMMA JobErrorInv == ASSUME IInv, NEW a \in Account, JobError(a) PROVE IInv'
  BY RowsUntouched DEF JobError, prober, IInv, Typed

LEMMA RevokeInv == ASSUME IInv, NEW a \in Account, Revoke(a) PROVE IInv'
  BY RowsUntouched DEF Revoke, accounts, prober, IInv, Typed

LEMMA BeginInv == ASSUME IInv, NEW p \in Prober, NEW list, Begin(p, list) PROVE IInv'
  BY RowsUntouched DEF Begin, accounts, IInv, Typed

LEMMA ProbeInv == ASSUME IInv, NEW p \in Prober, NEW outcomes, Probe(p, outcomes) PROVE IInv'
  BY RowsUntouched DEF Probe, accounts, IInv, Typed

LEMMA AbortInv == ASSUME IInv, NEW p \in Prober, Abort(p) PROVE IInv'
  BY RowsUntouched, UnprobedIsEarned DEF Abort, accounts, IInv, Typed

(* The copy is as good as the row it is made of.                           *)
LEMMA ReadHealthInv == ASSUME IInv, NEW p \in Prober, ReadHealth(p) PROVE IInv'
<1> USE DEF ReadHealth, accounts, IInv
<1>1. Typed' /\ RowsAreEarned' /\ (here \cap gone = {})'
  BY DEF Typed, RowsAreEarned
<1>2. CopiesAreEarned'
  BY DEF CopiesAreEarned, RowsAreEarned, Current, Typed
<1> QED BY <1>1, <1>2

(* The row that is saved is the verdict on a copy that was earned, and the *)
(* refusals of the account have only grown since.                          *)
LEMMA SaveHealthInv == ASSUME IInv, NEW p \in Prober, SaveHealth(p) PROVE IInv'
<1> DEFINE a == Current(p).id
           outcome == Head(found[p])
           row == [avail |-> Verdict(Current(p), outcome, copy[p]),
                   fails |-> Failures(outcome, copy[p])]
           counted == IF outcome = "auth_fail" THEN OneMore(refusals[a]) ELSE refusals[a]
<1>1. /\ pc[p] = "saving" /\ a \in here /\ a \in Account /\ a \notin gone
      /\ copy[p] \in Health /\ refusals[a] \in 0..DEAD_THRESHOLD
      /\ Earned(copy[p], refusals[a])
  BY DEF SaveHealth, IInv, Typed, CopiesAreEarned
<1>2. row \in Health /\ Earned(row, counted)
  BY <1>1, VerdictIsEarned
<1>3. counted \in 0..DEAD_THRESHOLD /\ counted >= refusals[a]
  BY <1>1, Threshold DEF OneMore
<1>4. /\ health' = [health EXCEPT ![a] = row]
      /\ refusals' = [refusals EXCEPT ![a] = counted]
      /\ UNCHANGED <<here, gone>>
  BY DEF SaveHealth, accounts, IInv, Typed
<1>5. /\ DOMAIN pc' = Prober /\ DOMAIN targets' = Prober /\ copy' \in [Prober -> Health]
      /\ pc'[p] # "saving"
      /\ \A q \in Prober \ {p} :
            pc'[q] = pc[q] /\ targets'[q] = targets[q] /\ copy'[q] = copy[q]
  BY UnprobedIsEarned DEF SaveHealth, NextTarget, IInv, Typed
<1>6. Typed' /\ (here \cap gone = {})'
  BY <1>1, <1>2, <1>3, <1>4, <1>5 DEF IInv, Typed
<1>7. RowsAreEarned'
  BY <1>1, <1>2, <1>4 DEF IInv, Typed, RowsAreEarned
<1>8. CopiesAreEarned'
  <2> SUFFICES ASSUME NEW q \in Prober, pc'[q] = "saving", Current(q)'.id \notin gone'
               PROVE  Current(q)'.id \in Account /\ Earned(copy'[q], refusals'[Current(q)'.id])
    BY DEF CopiesAreEarned
  <2>1. /\ q # p /\ pc[q] = "saving" /\ copy'[q] = copy[q] /\ Current(q)' = Current(q)
        /\ copy[q] \in Health
    BY <1>5 DEF Current, IInv, Typed
  <2>2. Current(q).id \in Account /\ Earned(copy[q], refusals[Current(q).id])
    BY <2>1, <1>4 DEF IInv, CopiesAreEarned
  <2>3. /\ refusals'[Current(q).id] \in 0..DEAD_THRESHOLD
        /\ refusals[Current(q).id] \in 0..DEAD_THRESHOLD
        /\ refusals'[Current(q).id] >= refusals[Current(q).id]
    BY <2>2, <1>3, <1>4, <1>1, Threshold DEF IInv, Typed
  <2> QED BY <2>1, <2>2, <2>3, Threshold DEF Earned, Health
<1> QED BY <1>6, <1>7, <1>8 DEF IInv

LEMMA UpdateStatusInv == ASSUME IInv, NEW p \in Prober, UpdateStatus(p) PROVE IInv'
  BY RowsUntouched, UnprobedIsEarned DEF UpdateStatus, NextTarget, IInv, Typed

LEMMA NextInv == IInv /\ [Next]_vars => IInv'
<1> SUFFICES ASSUME IInv, [Next]_vars PROVE IInv'
  OBVIOUS
<1>1. ASSUME NEW a \in Account, LogIn(a) \/ Delete(a) \/ JobError(a) \/ Revoke(a) PROVE IInv'
  BY <1>1, LogInInv, DeleteInv, JobErrorInv, RevokeInv
<1>2. CASE Sweep
  BY <1>2, BeginInv, Threshold DEF Sweep
<1>3. ASSUME NEW p \in Prober, NEW names \in Asked, ProbeSessions(p, names) PROVE IInv'
  BY <1>3, BeginInv DEF ProbeSessions
<1>4. ASSUME NEW p \in Prober, Run(p) PROVE IInv'
  BY <1>4, ProbeInv, AbortInv, ReadHealthInv, SaveHealthInv, UpdateStatusInv DEF Run
<1>5. CASE UNCHANGED vars
  BY <1>5 DEF vars, accounts, prober, IInv, Typed, RowsAreEarned, CopiesAreEarned, Current
<1> QED BY <1>1, <1>2, <1>3, <1>4, <1>5 DEF Next

(* An account is called dead after DEAD_THRESHOLD refusals, however the    *)
(* sweep and the probes of the panel overlap and whichever of their        *)
(* updates of the counter are lost (_availability_for, health.py:156).     *)
THEOREM DeadIsEarned == Spec => []DeadWasRefusedTwice
<1>1. IInv => DeadWasRefusedTwice
  BY DEF IInv, RowsAreEarned, Earned, DeadWasRefusedTwice
<1> QED BY <1>1, InitInv, NextInv, PTL DEF Spec
=============================================================================
