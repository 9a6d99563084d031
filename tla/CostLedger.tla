---------------------------- MODULE CostLedger ----------------------------
(***************************************************************************)
(* The shared cost ledger: pods that each ask it, before every paid call,  *)
(* whether the forecast still fits both budgets (BudgetGate.preflight),    *)
(* and record the actual usage afterwards (finalize_success).              *)
(*                                                                         *)
(* A preflight reads the clock of its pod, then takes one advisory lock    *)
(* for the transaction that sums the ledger and inserts a row.  The        *)
(* statements of a transaction are separate actions here, so that every    *)
(* place where the process, the connection or the caller can be lost is a  *)
(* state.  What happens in the pod between caller and transaction (slots,  *)
(* executor, queue) is the subject of AsyncCost; here a caller may stop    *)
(* waiting at any time and a usage record may be dropped at any time.      *)
(***************************************************************************)
EXTENDS Integers, FiniteSets

CONSTANTS
    Attempts,       \* paid calls, one reservation id each (a uuid4)
    Pods,
    Home,           \* the pod that makes an attempt
    Costs,          \* what a forecast or a reported usage may cost
    ShortLimit, DailyLimit, ShortWindow, Day,
    Retention,      \* age from which prune deletes settled rows
    MaxTime,        \* bound of the pods' clocks, for TLC
    Total(_, _),    \* SQL's SUM: the sum of f[a] over the a in S
    Unset           \* no usage to record

NoHolder == "none"

ASSUME LedgerAssumption ==
    /\ NoHolder \notin Attempts
    /\ IsFiniteSet(Attempts)
    /\ Home \in [Attempts -> Pods]
    /\ Costs \subseteq Nat
    /\ Unset \notin Nat
    /\ ShortLimit \in Nat /\ DailyLimit \in Nat
    /\ ShortWindow \in Nat \ {0} /\ Day \in Nat \ {0}
    /\ MaxTime \in Nat

\* A prune must not reach back into a budget window.  COST_RETENTION_REQUEST_DAYS
\* is at least one day; nothing compares it with COST_SHORT_WINDOW_SECONDS.
ASSUME RetentionAssumption ==
    /\ Retention \in Nat
    /\ Retention >= ShortWindow
    /\ Retention >= Day

ASSUME TotalAssumption ==
    \A f \in [Attempts -> Costs \union {0}] :
        /\ Total(f, {}) = 0
        /\ \A S \in SUBSET Attempts, a \in Attempts :
              a \notin S => Total(f, S \union {a}) = f[a] + Total(f, S)

VARIABLES
    clock,      \* each pod's own clock: they are not synchronised
    lock,       \* the attempt whose transaction holds the advisory lock, or none
    rows,       \* the row an attempt wrote, kept here after a prune as history
    ledger,     \* the attempts whose row is committed and not pruned
    job,        \* how far an attempt's transaction is
    caller,     \* what the code that wants to make the call knows
    usage,      \* usage reported by the provider and not yet recorded
    paid        \* attempts whose request went out (history)

vars == <<clock, lock, rows, ledger, job, caller, usage, paid>>

RowStatus   == {"none", "reserved", "finalized", "blocked"}
JobState    == {"none", "ready", "locked", "drafted", "ended"}
CallerState == {"idle", "waiting", "admitted", "sending", "gone"}

Row == [status : RowStatus, forecast : Costs \union {0},
        estimated : Costs \union {0}, created : 0..MaxTime]

NoRow == [status |-> "none", forecast |-> 0, estimated |-> 0, created |-> 0]

TypeOK ==
    /\ clock \in [Pods -> 0..MaxTime]
    /\ lock \in Attempts \union {NoHolder}
    /\ rows \in [Attempts -> Row]
    /\ ledger \in SUBSET Attempts
    /\ job \in [Attempts -> JobState]
    /\ caller \in [Attempts -> CallerState]
    /\ usage \in [Attempts -> Costs \union {0, Unset}]
    /\ paid \in SUBSET Attempts

Init ==
    /\ clock = [p \in Pods |-> 0]
    /\ lock = NoHolder
    /\ rows = [a \in Attempts |-> NoRow]
    /\ ledger = {}
    /\ job = [a \in Attempts |-> "none"]
    /\ caller = [a \in Attempts |-> "idle"]
    /\ usage = [a \in Attempts |-> Unset]
    /\ paid = {}

---------------------------------------------------------------------------
(* What counts against a budget.                                           *)

DayStart(t) == (t \div Day) * Day

\* The amount SQL adds up for a row: its forecast while it is reserved, the
\* estimate afterwards (0 for a blocked one, which is not billing eligible).
Amount == [a \in Attempts |->
              CASE rows[a].status = "reserved"  -> rows[a].forecast
                [] rows[a].status = "finalized" -> rows[a].estimated
                [] OTHER                        -> 0]

\* sum_estimated_since: an open reservation counts however old it is.  (The
\* variant lets it expire with its window.)
CountedInWindow(cutoff) == {a \in ledger : rows[a].created >= cutoff}
CountedSince(cutoff) ==
    {a \in ledger : rows[a].created >= cutoff \/ rows[a].status = "reserved"}

SpendSince(cutoff) == Total(Amount, CountedSince(cutoff))

\* The test of preflight for an attempt that read the clock at t.
Fits(cost, t) ==
    /\ SpendSince(t - ShortWindow) + cost <= ShortLimit
    /\ SpendSince(DayStart(t)) + cost <= DailyLimit

---------------------------------------------------------------------------
(* preflight.                                                              *)

Preflight(a) ==
    /\ caller[a] = "idle"
    /\ caller' = [caller EXCEPT ![a] = "waiting"]
    /\ job' = [job EXCEPT ![a] = "ready"]
    /\ \E c \in Costs :
          rows' = [rows EXCEPT ![a] = [status |-> "none", forecast |-> c,
                                       estimated |-> 0, created |-> clock[Home[a]]]]
    /\ UNCHANGED <<clock, lock, ledger, usage, paid>>

\* transaction(): pg_advisory_xact_lock.  (The variant is a ledger without it.)
LockUnlocked(a) ==
    /\ job[a] = "ready"
    /\ job' = [job EXCEPT ![a] = "locked"]
    /\ lock' = a
    /\ UNCHANGED <<clock, rows, ledger, caller, usage, paid>>

Lock(a) ==
    /\ job[a] = "ready"
    /\ lock = NoHolder
    /\ lock' = a
    /\ job' = [job EXCEPT ![a] = "locked"]
    /\ UNCHANGED <<clock, rows, ledger, caller, usage, paid>>

\* Both sums, the decision and the insert of one transaction.
Decide(a) ==
    /\ job[a] = "locked"
    /\ job' = [job EXCEPT ![a] = "drafted"]
    /\ \/ /\ Fits(rows[a].forecast, rows[a].created)
          /\ rows' = [rows EXCEPT ![a].status = "reserved",
                                  ![a].estimated = rows[a].forecast]
       \/ /\ ~Fits(rows[a].forecast, rows[a].created)
          /\ rows' = [rows EXCEPT ![a].status = "blocked"]
    /\ UNCHANGED <<clock, lock, ledger, caller, usage, paid>>

\* The holder's transaction ends, one way or the other.
Unlock(a) == lock' = IF lock = a THEN NoHolder ELSE lock

Commit(a) ==
    /\ job[a] = "drafted"
    /\ job' = [job EXCEPT ![a] = "ended"]
    /\ ledger' = ledger \union {a}
    /\ Unlock(a)
    /\ caller' = [caller EXCEPT ![a] =
          IF @ # "waiting" THEN @
          ELSE IF rows[a].status = "reserved" THEN "admitted" ELSE "gone"]
    /\ UNCHANGED <<clock, rows, usage, paid>>

\* The server commits but the connection is lost before the pod learns it:
\* preflight raises CostSubsystemUnhealthy, and the row stays.
CommitUnheard(a) ==
    /\ job[a] = "drafted"
    /\ job' = [job EXCEPT ![a] = "ended"]
    /\ ledger' = ledger \union {a}
    /\ Unlock(a)
    /\ caller' = [caller EXCEPT ![a] = IF @ = "waiting" THEN "gone" ELSE @]
    /\ UNCHANGED <<clock, rows, usage, paid>>

\* No connection, a lock or statement timeout, a failed schema check, a lost
\* server: the transaction is rolled back.  (The variant goes on regardless.)
AbortAdmitting(a) ==
    /\ job[a] \in {"ready", "locked", "drafted"}
    /\ job' = [job EXCEPT ![a] = "ended"]
    /\ rows' = [rows EXCEPT ![a] = NoRow]
    /\ Unlock(a)
    /\ caller' = [caller EXCEPT ![a] = IF @ = "waiting" THEN "admitted" ELSE @]
    /\ UNCHANGED <<clock, ledger, usage, paid>>

Abort(a) ==
    /\ job[a] \in {"ready", "locked", "drafted"}
    /\ job' = [job EXCEPT ![a] = "ended"]
    /\ rows' = [rows EXCEPT ![a] = NoRow]
    /\ Unlock(a)
    /\ caller' = [caller EXCEPT ![a] = IF @ = "waiting" THEN "gone" ELSE @]
    /\ UNCHANGED <<clock, ledger, usage, paid>>

\* The caller is cancelled or its admission timeout ends; the transaction
\* goes on in its worker thread.
GiveUp(a) ==
    /\ caller[a] \in {"waiting", "admitted"}
    /\ caller' = [caller EXCEPT ![a] = "gone"]
    /\ UNCHANGED <<clock, lock, rows, ledger, job, usage, paid>>

---------------------------------------------------------------------------
(* The paid call and its record.                                           *)

Send(a) ==
    /\ caller[a] = "admitted"
    /\ caller' = [caller EXCEPT ![a] = "sending"]
    /\ paid' = paid \union {a}
    /\ UNCHANGED <<clock, lock, rows, ledger, job, usage>>

\* The call ends with a usage that is queued for the record worker, or with
\* none: an error, a cancellation, or an answer that reports no usage.
Respond(a) ==
    /\ caller[a] = "sending"
    /\ caller' = [caller EXCEPT ![a] = "gone"]
    /\ \E u \in Costs \union {0, Unset} : usage' = [usage EXCEPT ![a] = u]
    /\ UNCHANGED <<clock, lock, rows, ledger, job, paid>>

\* Queue full, shutdown, or a record worker whose transaction fails.
Drop(a) ==
    /\ usage[a] # Unset
    /\ usage' = [usage EXCEPT ![a] = Unset]
    /\ UNCHANGED <<clock, lock, rows, ledger, job, caller, paid>>

\* finalize_success: one transaction under the same lock, which only ever
\* settles an open reservation.  The commit may stay unheard (then it counts
\* as dropped), so the usage is gone either way.
Settle(a) ==
    /\ usage[a] # Unset
    /\ lock = NoHolder
    /\ a \in ledger
    /\ rows[a].status = "reserved"
    /\ rows' = [rows EXCEPT ![a].status = "finalized", ![a].estimated = usage[a]]
    /\ usage' = [usage EXCEPT ![a] = Unset]
    /\ UNCHANGED <<clock, lock, ledger, job, caller, paid>>

---------------------------------------------------------------------------
(* Housekeeping and failures.                                              *)

\* Variant: a prune that does not spare open reservations.
PruneReservations(p) ==
    /\ lock = NoHolder
    /\ ledger' = {a \in ledger : rows[a].created >= clock[p] - Retention}
    /\ UNCHANGED <<clock, lock, rows, job, caller, usage, paid>>

Prune(p) ==
    /\ lock = NoHolder
    /\ ledger' = {a \in ledger : \/ rows[a].created >= clock[p] - Retention
                                 \/ rows[a].status = "reserved"}
    /\ UNCHANGED <<clock, lock, rows, job, caller, usage, paid>>

Tick(p) ==
    /\ clock[p] < MaxTime
    /\ clock' = [clock EXCEPT ![p] = @ + 1]
    /\ UNCHANGED <<lock, rows, ledger, job, caller, usage, paid>>

\* A pod is killed: its transactions are rolled back, its callers and its
\* queue of records are gone.
Running(a) == job[a] \in {"ready", "locked", "drafted"}

Crash(p) ==
    LET mine == {a \in Attempts : Home[a] = p}
    IN  /\ lock' = IF lock \in mine THEN NoHolder ELSE lock
        /\ rows' = [a \in Attempts |->
              IF a \in mine /\ Running(a) THEN NoRow ELSE rows[a]]
        /\ job' = [a \in Attempts |-> IF a \in mine /\ Running(a) THEN "ended" ELSE job[a]]
        /\ caller' = [a \in Attempts |->
              IF a \in mine /\ caller[a] # "idle" THEN "gone" ELSE caller[a]]
        /\ usage' = [a \in Attempts |-> IF a \in mine THEN Unset ELSE usage[a]]
        /\ UNCHANGED <<clock, ledger, paid>>

Attempt(a) ==
    \/ Preflight(a) \/ Lock(a) \/ Decide(a) \/ Commit(a) \/ CommitUnheard(a) \/ Abort(a)
    \/ GiveUp(a) \/ Send(a) \/ Respond(a) \/ Drop(a) \/ Settle(a)

Next ==
    \/ \E a \in Attempts : Attempt(a)
    \/ \E p \in Pods : Prune(p) \/ Tick(p) \/ Crash(p)

Spec == Init /\ [][Next]_vars

---------------------------------------------------------------------------
(* Properties.                                                             *)

\* Reservations that were ever committed, pruned or not.
Admitted == {a \in Attempts : job[a] = "ended" /\ rows[a].status \in {"reserved", "finalized"}}

\* The part of a row's cost that its forecast covers.
Foreseen == [a \in Attempts |->
                IF Amount[a] <= rows[a].forecast THEN Amount[a] ELSE rows[a].forecast]

\* All reservations a budget window that starts at cutoff has to answer for,
\* whether or not their rows still exist.
Answerable(cutoff) ==
    {a \in Admitted : rows[a].created >= cutoff \/ rows[a].status = "reserved"}

\* No pod's clock is past t.
Current(t) == \A p \in Pods : clock[p] <= t

\* Whatever the pods interleave, lose or retry, and however far apart their
\* clocks are: once no clock is past t, open reservations and the settled cost
\* of the window that ends at t never exceed a limit by more than actual costs
\* exceeded their forecasts (the documented overshoot).
BudgetBound ==
    \A t \in 0..MaxTime : Current(t) =>
        /\ Total(Foreseen, Answerable(t - ShortWindow)) <= ShortLimit
        /\ Total(Foreseen, Answerable(DayStart(t))) <= DailyLimit

\* A request that went out stays charged: at its forecast until its usage is
\* recorded, even when its pod dies or the record is lost, and it leaves the
\* ledger only when it is settled and old.
Pruned(a) == \E p \in Pods : rows[a].created < clock[p] - Retention

PaidIsCharged ==
    \A a \in paid :
        /\ rows[a].status \in {"reserved", "finalized"}
        /\ rows[a].status = "reserved" =>
              a \in ledger /\ rows[a].estimated = rows[a].forecast
        /\ a \notin ledger => Pruned(a)

\* Committed history is immutable: a row is settled once, by the usage its
\* call reported, and an open reservation is never deleted.
SettledOnce ==
    [][\A a \in ledger :
          /\ rows[a].status = "reserved" => a \in ledger'
          /\ rows'[a] # rows[a] =>
                /\ rows[a].status = "reserved"
                /\ usage[a] # Unset
                /\ rows'[a].estimated = usage[a]]_vars

\* The several statements of a preflight, spread over pods, act as one atomic
\* check-and-reserve on the ledger at the moment of the commit.
Atomic == INSTANCE AtomicAdmission WITH
              table <- [a \in ledger |-> rows[a]]
ImplementsAtomicAdmission == Atomic!Spec

===========================================================================
