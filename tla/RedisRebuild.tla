----------------------------- MODULE RedisRebuild -----------------------------
(***************************************************************************)
(* scripts/rebuild_redis_state.py, run by an operator at any time or by    *)
(* scripts/run_disaster_recovery_drill.py, next to the grabs, jobs and     *)
(* cancellations of GrabFilter: it deletes the keys of all orders, reads   *)
(* the published ones and sets their keys again, one command after the     *)
(* other.  The drill does so after a FLUSHDB and after a restart of Redis, *)
(* and then restarts the application.                                      *)
(*                                                                         *)
(* The rebuilt keys have no time to live; that KeysExpire may take them    *)
(* all the same only adds behaviours.  The delay queues, which the script  *)
(* rebuilds too, are those of Timeouts.                                    *)
(***************************************************************************)
EXTENDS GrabFilter, Integers

CONSTANT Meanwhile  \* bound: requests and workers that are busy while a script runs

ASSUME RebuildAssumption == Meanwhile \in Nat

VARIABLES
  step,          \* where the script stands, "idle" without one
  back,          \* where the rebuild was called from
  rows,          \* the rows it read and has still to handle
  half,          \* the row of them whose marker is set already, if any
  disturbed      \* somebody else wrote since the last rebuild began

script == <<step, back, rows, half, disturbed>>
rebuildVars == <<vars, script>>

RebuildInit == Init /\ step = "idle" /\ back = "operator" /\ rows = {} /\ half = {}
               /\ disturbed = FALSE

At(s) == step = s
Goes(s) == step' = s
Kept == UNCHANGED <<row, request, won, jobs>>

-------------------------------------------------------------------------------
(***************************************************************************)
(* rebuild_redis_state.py.                                                 *)
(***************************************************************************)

Ends == Goes("idle") /\ back' = "operator" /\ rows' = {} /\ half' = {} /\ disturbed' = FALSE

Rebuilds(caller) == Goes("stock") /\ back' = caller /\ UNCHANGED <<rows, half>>

OperatorRebuilds == At("idle") /\ Rebuilds("operator") /\ UNCHANGED <<vars, disturbed>>

\* delete_pattern: a key that is set between the SCAN and the DEL stays, as if it
\* had been set after the DEL.
DeletesMarkers ==
  /\ At("stock")
  /\ marker' = [o \in Orders |-> FALSE]
  /\ disturbed' = FALSE
  /\ Goes("known")
  /\ Kept /\ UNCHANGED <<known, back, rows, half>>

\* A bug to catch: only the markers are deleted.
DeletesKnownNever ==
  /\ At("known") /\ Goes("select")
  /\ Kept /\ UNCHANGED <<redis, back, rows, half, disturbed>>

DeletesKnown ==
  /\ At("known")
  /\ known' = [o \in Orders |-> FALSE]
  /\ Goes("select")
  /\ Kept /\ UNCHANGED <<marker, back, rows, half, disturbed>>

Selects ==
  /\ At("select")
  /\ rows' = {o \in Orders : status[o] = "PUBLISHED"}
  /\ Goes("set")
  /\ Kept /\ UNCHANGED <<redis, back, half, disturbed>>

\* The two SETs of a row, whatever has become of it since the SELECT.
SetsMarker(o) ==
  /\ At("set") /\ half = {} /\ o \in rows
  /\ marker' = [marker EXCEPT ![o] = TRUE]
  /\ half' = {o}
  /\ Kept /\ UNCHANGED <<known, step, back, rows, disturbed>>

SetsKnown(o) ==
  /\ At("set") /\ half = {o}
  /\ known' = [known EXCEPT ![o] = TRUE]
  /\ rows' = rows \ {o} /\ half' = {}
  /\ Kept /\ UNCHANGED <<marker, step, back, disturbed>>

Rebuilt ==
  /\ At("set") /\ rows = {}
  /\ \/ back = "operator" /\ Ends
     \/ /\ back # "operator"
        /\ Goes(IF back = "after flush" THEN "restart" ELSE "app")
        /\ UNCHANGED <<back, rows, half, disturbed>>
  /\ UNCHANGED vars

\* A command fails, or the script is killed.
Fails == ~ At("idle") /\ Ends /\ UNCHANGED vars

-------------------------------------------------------------------------------
(***************************************************************************)
(* run_disaster_recovery_drill.py.                                         *)
(***************************************************************************)

\* The backup is taken, its checksum and length are those of its metadata ...
BacksUp == At("idle") /\ Goes("restore") /\ UNCHANGED <<vars, back, rows, half, disturbed>>

\* ... and it is restored into a database of its own.
Restores == At("restore") /\ Goes("flush") /\ UNCHANGED <<vars, back, rows, half, disturbed>>

Flushes ==
  /\ At("flush")
  /\ marker' = [o \in Orders |-> FALSE] /\ known' = [o \in Orders |-> FALSE]
  /\ Rebuilds("after flush")
  /\ Kept /\ UNCHANGED disturbed

\* What Redis had not written to its disk is gone, which is all or nothing here.
RestartsRedis ==
  /\ At("restart")
  /\ \/ UNCHANGED redis
     \/ marker' = [o \in Orders |-> FALSE] /\ known' = [o \in Orders |-> FALSE]
  /\ Rebuilds("after restart")
  /\ Kept /\ UNCHANGED disturbed

\* Every transaction in flight is rolled back, and the jobs start anew.
RestartsApp ==
  /\ At("app")
  /\ request' = [r \in Requests |-> Idle]
  /\ worker' = [w \in Workers |-> Idle]
  /\ todo' = {}
  /\ Goes("healthy")
  /\ UNCHANGED <<row, redis, won, events, back, rows, half, disturbed>>

\* One of the rounds follows, or PASS.
EndsRound ==
  /\ At("healthy")
  /\ Ends \/ (Goes("flush") /\ UNCHANGED <<back, rows, half, disturbed>>)
  /\ UNCHANGED vars

Script ==
  \/ OperatorRebuilds \/ DeletesMarkers \/ DeletesKnown \/ Selects \/ Rebuilt \/ Fails
  \/ \E o \in Orders : SetsMarker(o) \/ SetsKnown(o)
  \/ BacksUp \/ Restores \/ Flushes \/ RestartsRedis \/ RestartsApp \/ EndsRound

-------------------------------------------------------------------------------
Busy == {r \in Requests : request[r] # Idle} \cup {w \in Workers : worker[w] # Idle}

\* Bounds what goes on next to a script.
Quiet == Cardinality(Busy) <= Meanwhile

Others ==
  /\ Next
  /\ disturbed' = (~ At("idle") /\ (disturbed \/ <<row, redis>>' # <<row, redis>>))
  /\ UNCHANGED <<step, back, rows, half>>

RebuildNext == (Script \/ Others) /\ (At("idle")' \/ Quiet')

RebuildSpec == RebuildInit /\ [][RebuildNext]_rebuildVars

-------------------------------------------------------------------------------
(***************************************************************************)
(* Properties.                                                             *)
(***************************************************************************)

\* Whatever mess Redis was in, a rebuild that nobody disturbs leaves exactly the
\* two keys of every published order there, and so does the round of the drill,
\* through its two restarts (rebuild_redis_state.main).
RebuildIsExact ==
  /\ \/ At("set") /\ rows = {}
     \/ step \in {"restart", "app", "healthy"}
  /\ ~ disturbed
  => \A o \in Orders : marker[o] = (status[o] = "PUBLISHED") /\ known[o] = marker[o]
===============================================================================
