---------------------------- MODULE AccountHealth ---------------------------
(***************************************************************************)
(* The health of accounts, worker/health.py: the periodic sweep and the    *)
(* probes the panel asks for judge sessions side by side, each from a copy *)
(* of the rows it took before it connected, while the job pipeline         *)
(* disables accounts, the panel logs them in again or deletes them, and    *)
(* Rubika revokes sessions.                                                *)
(*                                                                         *)
(* A step is one database statement (no transaction spans two of them) or  *)
(* the end of one probe.  consecutive_auth_failures is kept up to the      *)
(* threshold it is compared with, and last_error for whether it names a    *)
(* capacity limit.                                                         *)
(***************************************************************************)
EXTENDS Naturals, Sequences, FiniteSets

CONSTANTS
    Account,       \* rows of WorkerAccount, ever
    Ids,           \* the same in the order of their ids
    Prober,        \* processes that probe: Sweeper and the panel's views
    Sweeper,       \* the one that runs scan_accounts
    Asked,         \* the sets of accounts the panel asks about
    Limit,         \* accounts of a sweep
    NullsFirst,    \* where the database sorts accounts that were never probed
    DEAD_THRESHOLD,
    MaxLogins,     \* bound: logins of each account
    MaxGlitches,   \* bound: errors of the pipeline, of working sessions, of the network
    MaxRevoked,    \* bound: sessions of each account that Rubika revokes
    MaxDeleted     \* bound: accounts deleted

ASSUME HealthAssumption ==
    /\ Ids \in Seq(Account) /\ Sweeper \in Prober /\ Asked \subseteq SUBSET Account
    /\ Limit \in Nat \ {0} /\ DEAD_THRESHOLD \in Nat \ {0} /\ NullsFirst \in BOOLEAN
    /\ MaxLogins \in [Account -> Nat] /\ MaxGlitches \in Nat /\ MaxRevoked \in [Account -> Nat] /\ MaxDeleted \in Nat

Availability == {"available", "at_capacity", "dead", "unknown"}
Status == {"active", "disabled"}
Outcome == {"alive", "auth_fail", "transient"}

VARIABLES
    here,       \* accounts that have a row
    gone,       \* accounts whose row was deleted
    status,     \* WorkerAccount.status
    full,       \* accounts whose last_error names a capacity limit
    session,    \* the number of the stored session, one for each login
    revoked,    \* the sessions Rubika refuses
    health,     \* the row of WorkerAccountHealth
    checked,    \* accounts that have a last_checked_at, the oldest first
    pc,         \* of a prober
    targets,    \* the accounts it judges, as _targets_for copied them
    found,      \* what the probe of each of them found
    copy,       \* the health row _record has read
    refusals,   \* history: refusals recorded for an account, up to the threshold
    glitches    \* errors so far

accounts == <<here, gone, status, full, session>>
prober == <<pc, targets, found, copy>>
vars == <<accounts, revoked, health, checked, prober, refusals, glitches>>

Unprobed == [avail |-> "unknown", fails |-> 0]
Health == [avail : Availability, fails : 0..DEAD_THRESHOLD]
Target == [id : Account, session : Nat, status : Status, full : BOOLEAN]

TypeOK ==
    /\ here \in SUBSET Account /\ gone \in SUBSET Account
    /\ status \in [Account -> Status] /\ full \in SUBSET Account
    /\ session \in [Account -> Nat]
    /\ health \in [Account -> Health]
    /\ checked \in Seq(Account)
    /\ pc \in [Prober -> {"idle", "probing", "recording", "saving", "updating"}]
    /\ targets \in [Prober -> Seq(Target)]
    /\ found \in [Prober -> Seq(Outcome)]
    /\ copy \in [Prober -> Health]
    /\ refusals \in [Account -> 0..DEAD_THRESHOLD]
    /\ glitches \in 0..MaxGlitches

-----------------------------------------------------------------------------
Init ==
    /\ here = {} /\ gone = {}
    /\ status = [a \in Account |-> "active"] /\ full = {}
    /\ session = [a \in Account |-> 0] /\ revoked = {}
    /\ health = [a \in Account |-> Unprobed] /\ checked = <<>>
    /\ pc = [p \in Prober |-> "idle"]
    /\ targets = [p \in Prober |-> <<>>] /\ found = [p \in Prober |-> <<>>]
    /\ copy = [p \in Prober |-> Unprobed]
    /\ refusals = [a \in Account |-> 0] /\ glitches = 0

Refused(a, s) == <<a, s>> \in revoked
Works(a) == a \in here /\ ~Refused(a, session[a])

-----------------------------------------------------------------------------
(* What happens to accounts meanwhile.                                     *)

(* save_account: a new row, or a new session for the row of the phone. *)
LogIn(a) ==
    /\ a \notin gone /\ session[a] < MaxLogins[a]
    /\ here' = here \cup {a}
    /\ status' = [status EXCEPT ![a] = "active"] /\ full' = full \ {a}
    /\ session' = [session EXCEPT ![a] = @ + 1]
    /\ UNCHANGED <<gone, revoked, health, checked, prober, refusals, glitches>>

(* delete_worker_account; the rows that hang off the account go with it. *)
Delete(a) ==
    /\ a \in here /\ Cardinality(gone) < MaxDeleted
    /\ here' = here \ {a} /\ gone' = gone \cup {a}
    /\ status' = [status EXCEPT ![a] = "active"] /\ full' = full \ {a}
    /\ health' = [health EXCEPT ![a] = Unprobed]
    /\ checked' = SelectSeq(checked, LAMBDA b : b # a)
    /\ refusals' = [refusals EXCEPT ![a] = 0]
    /\ session' = [session EXCEPT ![a] = 0]
    /\ UNCHANGED <<revoked, prober, glitches>>

(* The pipeline takes an error for a dead session, or a join is refused    *)
(* for capacity.                                                           *)
JobError(a) ==
    /\ a \in here /\ status[a] = "active" /\ glitches < MaxGlitches
    /\ glitches' = glitches + 1
    /\ \/ status' = [status EXCEPT ![a] = "disabled"] /\ full' = full \ {a}
       \/ full' = full \cup {a} /\ UNCHANGED status
    /\ UNCHANGED <<here, gone, session, revoked, health, checked, prober, refusals>>

Revoke(a) ==
    /\ Works(a) /\ Cardinality({r \in revoked : r[1] = a}) < MaxRevoked[a]
    /\ revoked' = revoked \cup {<<a, session[a]>>}
    /\ UNCHANGED <<accounts, health, checked, prober, refusals, glitches>>

-----------------------------------------------------------------------------
(* _targets_for *)

TargetOf(a) == [id |-> a, session |-> session[a], status |-> status[a], full |-> a \in full]

IsChecked(a) == \E i \in DOMAIN checked : checked[i] = a

(* Mutant: the accounts in the order of their ids. *)
ById == SelectSeq(Ids, LAMBDA a : a \in here)

(* order_by("health__last_checked_at", "id") *)
ByAge ==
    LET nulls == SelectSeq(Ids, LAMBDA a : a \in here /\ ~IsChecked(a))
    IN  IF NullsFirst THEN nulls \o checked ELSE checked \o nulls

Begin(p, list) ==
    /\ pc[p] = "idle" /\ list # <<>>
    /\ pc' = [pc EXCEPT ![p] = "probing"]
    /\ targets' = [targets EXCEPT ![p] = [i \in DOMAIN list |-> TargetOf(list[i])]]
    /\ UNCHANGED <<accounts, revoked, health, checked, found, copy, refusals, glitches>>

(* scan_accounts: those nobody has looked at for longest. *)
Sweep == Begin(Sweeper, SubSeq(ByAge, 1, IF Len(ByAge) < Limit THEN Len(ByAge) ELSE Limit))

(* probe_sessions: those the panel names. *)
ProbeSessions(p, names) == p # Sweeper /\ Begin(p, SelectSeq(ById, LAMBDA a : a \in names))

-----------------------------------------------------------------------------
(* _probe_all: the probes run side by side and each looks at one session   *)
(* only, the one copied, so their order does not matter.  A session that   *)
(* is alive or refused may look like something else.                       *)
Expected(t) == IF Refused(t.id, t.session) THEN "auth_fail" ELSE "alive"

Probe(p, outcomes) ==
    LET wrong == {i \in DOMAIN outcomes : outcomes[i] # Expected(targets[p][i])} IN
    /\ pc[p] = "probing"
    /\ \A i \in wrong : outcomes[i] # "alive"
    /\ glitches + Cardinality(wrong) <= MaxGlitches
    /\ glitches' = glitches + Cardinality(wrong)
    /\ found' = [found EXCEPT ![p] = outcomes]
    /\ pc' = [pc EXCEPT ![p] = "recording"]
    /\ UNCHANGED <<accounts, revoked, health, checked, targets, copy, refusals>>

-----------------------------------------------------------------------------
(* _record, one target after the other.                                    *)

Current(p) == Head(targets[p])

(* On to the next target, or the run is over. *)
NextTarget(p) ==
    /\ targets' = [targets EXCEPT ![p] = Tail(@)]
    /\ found' = [found EXCEPT ![p] = Tail(@)]
    /\ copy' = [copy EXCEPT ![p] = Unprobed]
    /\ pc' = [pc EXCEPT ![p] = IF Len(targets[p]) = 1 THEN "idle" ELSE "recording"]

(* An exception in _record: the verdicts behind it are dropped. *)
Abort(p) ==
    /\ pc[p] \in {"recording", "saving"} /\ Current(p).id \notin here
    /\ targets' = [targets EXCEPT ![p] = <<>>] /\ found' = [found EXCEPT ![p] = <<>>]
    /\ copy' = [copy EXCEPT ![p] = Unprobed]
    /\ pc' = [pc EXCEPT ![p] = "idle"]
    /\ UNCHANGED <<accounts, revoked, health, checked, refusals, glitches>>

(* get_or_create *)
ReadHealth(p) ==
    /\ pc[p] = "recording" /\ Current(p).id \in here
    /\ copy' = [copy EXCEPT ![p] = health[Current(p).id]]
    /\ pc' = [pc EXCEPT ![p] = "saving"]
    /\ UNCHANGED <<accounts, revoked, health, checked, targets, found, refusals, glitches>>

OneMore(n) == IF n < DEAD_THRESHOLD THEN n + 1 ELSE n

Failures(outcome, old) == IF outcome = "auth_fail" THEN OneMore(old.fails) ELSE 0

(* Mutant: the refusal before this one is not needed. *)
VerdictHasty(t, outcome, old) ==
    CASE outcome = "alive" -> IF t.full THEN "at_capacity" ELSE "available"
      [] outcome = "auth_fail" -> IF Failures(outcome, old) + 1 >= DEAD_THRESHOLD THEN "dead" ELSE "unknown"
      [] OTHER -> old.avail

(* _availability_for, and what was known before when it has no answer. *)
Verdict(t, outcome, old) ==
    CASE outcome = "alive" -> IF t.full THEN "at_capacity" ELSE "available"
      [] outcome = "auth_fail" -> IF Failures(outcome, old) >= DEAD_THRESHOLD THEN "dead" ELSE "unknown"
      [] OTHER -> old.avail

(* Mutant: only an account that was called dead is reactivated. *)
ReactivatesDead(p) ==
    Head(found[p]) = "alive" /\ Current(p).status # "active" /\ copy[p].avail = "dead"

(* Both look at the status the account had in _targets_for. *)
Reactivates(p) == Head(found[p]) = "alive" /\ Current(p).status # "active"

Disables(p) ==
    /\ Head(found[p]) = "auth_fail" /\ Current(p).status = "active"
    /\ Verdict(Current(p), Head(found[p]), copy[p]) = "dead"

SaveHealth(p) ==
    LET a == Current(p).id
        outcome == Head(found[p])
    IN  /\ pc[p] = "saving" /\ a \in here
        /\ health' = [health EXCEPT ![a] = [avail |-> Verdict(Current(p), outcome, copy[p]),
                                            fails |-> Failures(outcome, copy[p])]]
        /\ checked' = Append(SelectSeq(checked, LAMBDA b : b # a), a)
        /\ refusals' = IF outcome = "auth_fail" THEN [refusals EXCEPT ![a] = OneMore(@)] ELSE refusals
        /\ IF Reactivates(p) \/ Disables(p)
           THEN pc' = [pc EXCEPT ![p] = "updating"] /\ UNCHANGED <<targets, found, copy>>
           ELSE NextTarget(p)
        /\ UNCHANGED <<accounts, revoked, glitches>>

(* filter(id=...).update(...) does nothing to an account that is gone. *)
UpdateStatus(p) ==
    LET a == Current(p).id IN
    /\ pc[p] = "updating"
    /\ IF a \in here
       THEN /\ status' = [status EXCEPT ![a] = IF Reactivates(p) THEN "active" ELSE "disabled"]
            /\ full' = full \ {a}
       ELSE UNCHANGED <<status, full>>
    /\ NextTarget(p)
    /\ UNCHANGED <<here, gone, session, revoked, health, checked, refusals, glitches>>

-----------------------------------------------------------------------------
Run(p) ==
    \/ \E outcomes \in [DOMAIN targets[p] -> Outcome] : Probe(p, outcomes)
    \/ Abort(p) \/ ReadHealth(p) \/ SaveHealth(p) \/ UpdateStatus(p)

Next ==
    \/ \E a \in Account : LogIn(a) \/ Delete(a) \/ JobError(a) \/ Revoke(a)
    \/ Sweep
    \/ \E p \in Prober, names \in Asked : ProbeSessions(p, names)
    \/ \E p \in Prober : Run(p)

(* Celery beat starts a sweep again and again, and a probe ends by its     *)
(* timeout.                                                                *)
Fairness == WF_vars(Sweep) /\ \A p \in Prober : WF_vars(Run(p))

Spec == Init /\ [][Next]_vars /\ Fairness

-----------------------------------------------------------------------------
(* An account is called dead after two refusals, whoever records them: a   *)
(* probe that overlaps another may lose an update of the counter, but none *)
(* invents a refusal (_availability_for, health.py:156).                   *)
DeadWasRefusedTwice ==
    \A a \in Account : health[a].avail = "dead" => refusals[a] >= DEAD_THRESHOLD

(* The sweep reaches every account, however small its batch and although   *)
(* it is cut short by an account deleted under it (_targets_for).          *)
EveryAccountIsProbed ==
    \A a \in Account : a \in here ~> (IsChecked(a) \/ a \notin here)

(* The status of an account keeps coming back to what Rubika thinks of its *)
(* session: a working one is not left disabled, whatever error, lost       *)
(* update or stale verdict disabled it, and a revoked one not in use.      *)
StatusFollowsSession ==
    \A a \in Account : []<>(a \in here => (status[a] = "active" <=> Works(a)))

(* "one fluke never costs a working session" (health.py:55): a probe       *)
(* disables no account whose session Rubika would accept, unless it        *)
(* refused that session twice.                                             *)
OneFlukeIsForgiven ==
    [][\A a \in Account, p \in Prober :
        pc[p] = "updating" /\ pc'[p] # "updating" /\ status[a] = "active" /\ status'[a] = "disabled"
            => Refused(a, session[a]) \/ glitches >= 2]_vars
=============================================================================
