---------------------------- MODULE FailureCommon ----------------------------
(***************************************************************************)
(* How the drills of scripts/ run (failure_common.py): a script is at one  *)
(* step, calls the application, polls until a condition holds or a         *)
(* deadline passes, and an exception leads to the enclosing finally block  *)
(* or to the end.  A drill that ends writes its verdict; one that is       *)
(* killed leaves no report, and does not run its finally blocks.           *)
(***************************************************************************)

VARIABLES
  step,          \* where the script stands
  verdict        \* report["passed"], as far as it is decided

script == <<step, verdict>>

At(s) == step = s

Goes(next) == step' = next /\ UNCHANGED verdict

\* An exception: handler is the finally block around the step, or "end".
Raises(handler) == step' = handler /\ verdict' = "failed"

\* A call that raises unless the application answers 200.
Calls(next, handler) == Goes(next) \/ Raises(handler)

\* An assertion.
Asserts(condition, next, handler) == IF condition THEN Goes(next) ELSE Raises(handler)

\* wait_until: the condition may be seen, or the deadline may pass first.
WaitsUntil(condition, next, handler) == (condition /\ Goes(next)) \/ Raises(handler)

\* run_scenario, after the callback returned.
Passes == step' = "end" /\ verdict' = "passed"

\* The end of a finally block: the exception goes on, or the script does.
AfterFinally(next) == step' = (IF verdict = "failed" THEN "end" ELSE next) /\ UNCHANGED verdict

Killed == step # "end" /\ step' = "end" /\ verdict' = "killed"
===============================================================================
