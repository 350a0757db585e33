----------------------------- MODULE DeliveryDrills -----------------------------
(***************************************************************************)
(* Two scripts that deliver an order, against SettleRetry.                 *)
(*                                                                         *)
(* scripts/benchmark_settlement_retry.py turns the taker into a PLATFORM   *)
(* user, so that the settlement inside deliver throws, waits until the job *)
(* has failed as well, turns the taker back and expects the order to be    *)
(* settled.                                                                *)
(*                                                                         *)
(* scripts/verify_duplicate_settlement.py delivers one order many times at *)
(* once and expects it to be delivered and paid once.                      *)
(***************************************************************************)
EXTENDS SettleRetry, FailureCommon

CONSTANTS
  Subject,       \* the order of the script
  Taker          \* the client that delivers it in the first script

ASSUME DeliveryDrillsAssumption == {Subject} \X Clients \subseteq Requests /\ Taker \in Clients

VARIABLES
  name,          \* the script: "retry" or "duplicate"
  counted        \* settlement_retry_total exceeds the value the script read first;
                 \* it is the instance's, of all orders, and restarts from zero

drill == <<script, name, counted>>
drillVars == <<vars, drill>>

Delivery == <<Subject, Taker>>
Deliveries == {Subject} \X Clients
Answered(codes) == {r \in Deliveries : answer[r] \in codes}

\* The operator runs one of the two.
DrillInit ==
  /\ Init
  /\ role[Subject] = "USER"
  /\ name \in {"retry", "duplicate"}
  /\ step = name /\ verdict = "open"
  /\ counted = FALSE

-------------------------------------------------------------------------------
(***************************************************************************)
(* benchmark_settlement_retry.run.                                         *)
(***************************************************************************)

\* Registration, recharge, create and grab.
Setup == At("retry") /\ Calls("metric", "end") /\ UNCHANGED <<vars, name, counted>>

ReadsMetric ==
  /\ At("metric")
  /\ Calls("refuse", "end")
  /\ counted' = FALSE
  /\ UNCHANGED <<vars, name>>

SetRole(value) ==
  /\ role' = [role EXCEPT ![Subject] = value]
  /\ UNCHANGED <<orders, paid, requests, jobs, failures, name, counted>>

RefusesTaker == At("refuse") /\ SetRole("PLATFORM") /\ Goes("deliver")

\* The drill's own deliver request runs while the drill waits for its answer.
Delivers ==
  /\ At("deliver")
  /\ RequestStep(Delivery)
  /\ UNCHANGED drill

\* HTTP 200 with a body that says DELIVERED.
ChecksAnswer ==
  /\ At("deliver") /\ answer[Delivery] # 0
  /\ Asserts(answer[Delivery] = 200 /\ status[Subject] = "DELIVERED", "count", "restore")
  /\ UNCHANGED <<vars, name, counted>>

ChecksCount ==
  /\ At("count")
  /\ Asserts(count[Subject] >= 1, "retried", "restore")
  /\ UNCHANGED <<vars, name, counted>>

WaitsForRetry ==
  /\ At("retried")
  /\ WaitsUntil(counted, "restore", "restore")
  /\ UNCHANGED <<vars, name, counted>>

\* A bug to catch: an exception skips the finally block.
RestoresTakerOnSuccess ==
  /\ At("restore")
  /\ IF verdict = "failed" THEN UNCHANGED <<vars, name, counted>> ELSE SetRole("USER")
  /\ AfterFinally("settled")

RestoresTaker == At("restore") /\ SetRole("USER") /\ AfterFinally("settled")

WaitsForSettlement ==
  /\ At("settled")
  /\ WaitsUntil(status[Subject] = "SETTLED", "check", "end")
  /\ UNCHANGED <<vars, name, counted>>

\* A bug to catch: the final state is not looked at.
CleanWhenSettled == status[Subject] = "SETTLED"

Clean == status[Subject] = "SETTLED" /\ ~dead[Subject]

\* The final state and the reconciliation, which may also fail by itself.
ChecksFinalState ==
  /\ At("check")
  /\ (Clean /\ Passes) \/ Raises("end")
  /\ UNCHANGED <<vars, name, counted>>

-------------------------------------------------------------------------------
(***************************************************************************)
(* verify_duplicate_settlement.scenario.                                   *)
(***************************************************************************)

PreparesOrder == At("duplicate") /\ Calls("burst", "end") /\ UNCHANGED <<vars, name, counted>>

DeliversAtOnce ==
  /\ At("burst")
  /\ \E r \in Deliveries : RequestStep(r)
  /\ UNCHANGED drill

\* Exactly one 200, and 409 for everybody else.
OneWinner == Cardinality(Answered({200})) = 1 /\ Answered({200, 409}) = Deliveries

\* A request may also have ended without an answer for the script: pool.map raises.
ChecksAnswers ==
  /\ At("burst") /\ \A r \in Deliveries : request[r] = "done"
  /\ Asserts(OneWinner, "database", "end") \/ Raises("end")
  /\ UNCHANGED <<vars, name, counted>>

\* One idempotency row, one set of entries, and SETTLED.
SettledOnce == status[Subject] = "SETTLED" /\ paid[Subject] = 1

\* The connection may fail.
ChecksDatabase ==
  /\ At("database")
  /\ Asserts(SettledOnce, "reconcile", "end") \/ Raises("end")
  /\ UNCHANGED <<vars, name, counted>>

\* The login of the administrator and the reconciliation: either call may break, and
\* the audit may fail for the orders of others, of which one may be overdue (INV-5).
Reconciles == At("reconcile") /\ (Passes \/ Raises("end")) /\ UNCHANGED <<vars, name, counted>>

-------------------------------------------------------------------------------
RetryDrill ==
  \/ Setup \/ ReadsMetric \/ RefusesTaker \/ Delivers \/ ChecksAnswer \/ ChecksCount
  \/ WaitsForRetry \/ RestoresTaker \/ WaitsForSettlement \/ ChecksFinalState

DuplicateDrill ==
  PreparesOrder \/ DeliversAtOnce \/ ChecksAnswers \/ ChecksDatabase \/ Reconciles

\* An operator interrupts a script, or its connection to MySQL fails.
DrillDies == Killed /\ UNCHANGED <<vars, name, counted>>

\* The jobs, and the orders of other users.
Others ==
  \/ \E j \in Jobs :
       \/ (JobReads(j) \/ JobRecords(j)) /\ UNCHANGED drill
       \/ /\ JobSettles(j)
          /\ counted' = (counted \/ j \in failed')
          /\ UNCHANGED <<script, name>>
       \/ JobDies(j) /\ counted' = FALSE /\ UNCHANGED <<script, name>>
  \/ /\ \/ \E o \in Orders : DelayPasses(o)
        \/ \E o \in Orders \ {Subject} : Cancel(o) \/ RoleChanges(o)
        \/ \E r \in Requests \ Deliveries : RequestStep(r)
     /\ UNCHANGED drill

DrillNext == RetryDrill \/ DuplicateDrill \/ DrillDies \/ Others

DrillSpec ==
  DrillInit /\ [][DrillNext]_drillVars /\ WF_drillVars(RetryDrill \/ DuplicateDrill) /\ Fairness

-------------------------------------------------------------------------------
\* A report that says passed describes an order that was settled once, by the
\* job, is not left dead, and a taker that is a USER again
\* (benchmark_settlement_retry.run).
PassedMeansRecovered ==
  (name = "retry" /\ verdict = "passed") =>
    /\ status[Subject] = "SETTLED" /\ paid[Subject] = 1 /\ ~dead[Subject]
    /\ failures[Subject] >= 1
    /\ role[Subject] = "USER"

\* Whatever assertion or deadline ends it, the first script does not leave its
\* taker refused for ever, unless it is killed (the finally block of run).
TakerComesBack == role[Subject] = "PLATFORM" ~> role[Subject] = "USER" \/ verdict = "killed"

\* What the second script asserts of its order comes true, unless a settlement of the
\* order or a request fails by itself, or the script is killed: however its requests
\* and the retry jobs interleave, one delivery wins, the others are told 409, and the
\* order is SETTLED, and paid once, before the script looks.  (The script
\* may fail nevertheless, of a call that breaks or of the audit of other orders:
\* verify_duplicate_settlement.scenario.)
BurstIsSettledOnce ==
  At("burst") ~> \/ At("burst") /\ OneWinner /\ SettledOnce
                 \/ verdict = "killed" \/ failures[Subject] > 0 \/ Answered({500}) # {}
===============================================================================
