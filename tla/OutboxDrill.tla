------------------------------ MODULE OutboxDrill ------------------------------
(***************************************************************************)
(* scripts/verify_outbox_crash_recovery.py against Outbox: the script      *)
(* writes PROCESSING and a lease of the past over the event of its order,  *)
(* whatever its state, as if a worker had died, and expects the event to   *)
(* be published and the order's Redis keys to be there.  A live worker may *)
(* be handling that event, or have published it already.                   *)
(***************************************************************************)
EXTENDS Outbox, FailureCommon

CONSTANT Subject  \* the ORDER_PUBLISHED event of the drill's order

ASSUME OutboxDrillAssumption == Subject \in Events

VARIABLES
  open,          \* the order is PUBLISHED; its claim deadline may pass
  reclaimed      \* history: the event was claimed after the injected crash

drill == <<script, open, reclaimed>>
drillVars == <<vars, drill>>

DrillInit ==
  /\ Init
  /\ step \in {"setup", "end"} /\ verdict = "open"
  /\ open = TRUE /\ reclaimed = FALSE

Setup == At("setup") /\ Calls("crash", "end") /\ UNCHANGED <<vars, open, reclaimed>>

\* A lease of the past is unlike all the leases in use.  The script comes too soon
\* for a dead event: the delays between the attempts add up to minutes.
InjectsCrash ==
  /\ At("crash")
  /\ status[Subject] # "DEAD"
  /\ status' = [status EXCEPT ![Subject] = "PROCESSING"]
  /\ lockedUntil' = [lockedUntil EXCEPT ![Subject] = NewLease]
  /\ due' = [due EXCEPT ![Subject] = TRUE]
  /\ Goes("recovery")
  /\ UNCHANGED <<retry, workers, published, failures, open, reclaimed>>

WaitsForRecovery ==
  /\ At("recovery")
  /\ WaitsUntil(status[Subject] = "PUBLISHED", "order", "end")
  /\ UNCHANGED <<vars, open, reclaimed>>

ChecksOrder ==
  /\ At("order")
  /\ Asserts(open, "keys", "end")
  /\ UNCHANGED <<vars, open, reclaimed>>

\* The marker and the member of delay:claim.
WaitsForKeys ==
  /\ At("keys")
  /\ WaitsUntil(Subject \in published, "cancel", "end")
  /\ UNCHANGED <<vars, open, reclaimed>>

\* The order is cancelled, and the books are reconciled.
Cancels ==
  /\ At("cancel")
  /\ \/ open /\ open' = FALSE /\ Passes
     \/ open' \in {open, FALSE} /\ Raises("end")
  /\ UNCHANGED <<vars, reclaimed>>

Drill ==
  Setup \/ InjectsCrash \/ WaitsForRecovery \/ ChecksOrder \/ WaitsForKeys \/ Cancels

\* timeoutClaim closes the order.
Expires == open /\ open' = FALSE /\ UNCHANGED <<vars, script, reclaimed>>

Others ==
  /\ Next
  /\ reclaimed' = (reclaimed \/ \E w \in Workers :
                      step \notin {"setup", "crash"} /\ batch[w] = {}
                      /\ \E b \in batch'[w] : b[1] = Subject)
  /\ UNCHANGED <<script, open>>

DrillNext == Drill \/ Expires \/ Others

DrillSpec == DrillInit /\ [][DrillNext]_drillVars

-------------------------------------------------------------------------------
\* A passing drill has seen a recovery: some worker claimed the event after the
\* injected crash, and the worker that was interrupted in the same event did not
\* mark it instead (verify_outbox_crash_recovery.scenario).
PassedMeansReclaimed == verdict = "passed" => reclaimed /\ Subject \in published
===============================================================================
