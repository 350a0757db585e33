------------------------------- MODULE Evidence -------------------------------
(***************************************************************************)
(* How the performance claims of the repository come about:                *)
(* scripts/run_benchmarks.py deploys the application with the prefilter on *)
(* and off and measures each, generate_benchmark_report.py turns the files *)
(* it leaves into reports/benchmarks, and run_capacity_baseline.py raises  *)
(* the load level by level.  The operator runs one script at a time, in    *)
(* any order, may kill it (with the load generator it has started) at any  *)
(* point, and may clear the directory of raw files.                        *)
(*                                                                         *)
(* One scenario and one pool size stand for the matrix of them.            *)
(***************************************************************************)
EXTENDS Integers, Sequences, FiniteSets

CONSTANTS
  Required,   \* the measured runs a row needs: 5
  Levels,     \* the number of load levels of the capacity baseline, named 1, 2, ...
  Rates,      \* median throughputs
  Invocations, \* command lines: [modes, warmups, runs]
  Sessions,   \* bound: scripts started
  Flaws       \* bound: runs that do not end well

Modes == {"on", "off"}

\* "current" takes the application as it is.
Command == [modes : Seq(Modes \cup {"current"}), warmups : Nat, runs : Nat]

ASSUME EvidenceAssumption ==
  /\ Required \in Nat \ {0} /\ Sessions \in Nat /\ Flaws \in Nat
  /\ Levels \in Nat \ {0}
  /\ Rates \subseteq Nat
  /\ Invocations \subseteq Command
  /\ \A c \in Invocations : c.runs >= Required

VARIABLES
  stage,        \* where the running script stands, "idle" without one
  started,      \* scripts started so far
  flaws,        \* runs that did not end well so far
  deployed,     \* the prefilter mode the application runs with
  command,      \* the running session's command line, with the modes still to do
  number,       \* the number of the session's next run; 1 - warmups is the first
  outcome,      \* the result of its run that has no label yet
  listed,       \* the files of the session so far
  raw,          \* the files in the raw directory
  index,        \* the files the newest index lists, or NoIndex
  report,       \* the benchmark report: its status and the files of each row
  tried,        \* the results of the capacity session so far, as <<level, run, result>>
  rates,        \* the median throughput of each level it has finished
  environment,  \* environment.md, with the results it speaks of
  baseline      \* capacity-baseline.md, with the level it claims too

bench == <<deployed, command, number, outcome, listed, raw, index, report>>
capacity == <<tried, rates, environment, baseline>>
evidenceVars == <<stage, started, flaws, bench, capacity>>

NoIndex == [there |-> FALSE, files |-> {}]
None == [modes |-> <<>>, warmups |-> 0, runs |-> Required]

\* The outcome of one load_test.py: all is well; it fails, as it does when the
\* application restarts under it; or it ends, but the books, the winners or the
\* counters are not right.
Results == {"ok", "failed", "unsound"}

EvidenceInit ==
  /\ stage = "idle" /\ started = 0 /\ flaws = 0
  /\ deployed \in Modes
  /\ command = None /\ number = 1 /\ outcome = "ok" /\ listed = {}
  /\ raw = {} /\ index = NoIndex
  /\ report = [status |-> "NONE"]
  /\ tried = {} /\ rates = <<>>
  /\ environment = [status |-> "NONE"] /\ baseline = [status |-> "NONE"]

AtStage(s) == stage = s
ToStage(s) == stage' = s
Starts(s) ==
  AtStage("idle") /\ started < Sessions /\ started' = started + 1 /\ ToStage(s) /\ UNCHANGED flaws

\* Keeps to the bound.
Counts(result) ==
  /\ result # "ok" => flaws < Flaws
  /\ flaws' = IF result = "ok" THEN flaws ELSE flaws + 1
  /\ UNCHANGED started

-------------------------------------------------------------------------------
(***************************************************************************)
(* run_benchmarks.py.                                                      *)
(***************************************************************************)

StartsSession ==
  /\ Starts("configure")
  /\ command' \in Invocations
  /\ UNCHANGED <<deployed, number, outcome, listed, raw, index, report, capacity>>

Mode == Head(command.modes)

\* The container is recreated if its environment differs; the mode "current" takes
\* it as it is.
Deployed == IF Mode \in Modes THEN Mode ELSE deployed

\* configure_runtime.
Configures ==
  /\ AtStage("configure") /\ command.modes # <<>>
  /\ deployed' = Deployed
  /\ number' = 1 - command.warmups
  /\ ToStage("load")
  /\ UNCHANGED <<started, flaws, command, outcome, listed, raw, index, report, capacity>>

Warmup(f) == f.number < 1

\* A file is told by its time: the session, the pass (by the modes that were left,
\* as a command line may name a mode twice) and the number.  "warm" is nowhere on
\* file: a warm-up of the session went before this run.
File(result) ==
  [session |-> started, left |-> Len(command.modes), number |-> number,
   label |-> "none", passed |-> FALSE,
   ran |-> deployed, result |-> result, warm |-> \E f \in listed : f.label = Mode /\ Warmup(f)]

\* load_test.py writes its report itself, without label, unless it fails.
Loads ==
  /\ AtStage("load")
  /\ outcome' \in Results
  /\ raw' = IF outcome' = "failed" THEN raw ELSE raw \cup {File(outcome')}
  /\ Counts(outcome')
  /\ ToStage("label")
  /\ UNCHANGED <<deployed, command, number, listed, index, report, capacity>>

\* The conjunction in run_one.
Passed(result) == result = "ok"

Labelled(result) == [File(result) EXCEPT !.label = Mode, !.passed = Passed(result)]

\* run_one writes the file again, as the mode's warm-up or run.
Labels ==
  /\ AtStage("label")
  /\ raw' = (raw \ {File(outcome)}) \cup {Labelled(outcome)}
  /\ listed' = listed \cup {Labelled(outcome)}
  /\ IF number < command.runs
     THEN number' = number + 1 /\ ToStage("load") /\ UNCHANGED command
     ELSE /\ command' = [command EXCEPT !.modes = Tail(@)]
          /\ ToStage("configure")
          /\ UNCHANGED number
  /\ outcome' = "ok"
  /\ UNCHANGED <<started, flaws, deployed, index, report, capacity>>

Forgets ==
  /\ command' = None /\ number' = 1 /\ outcome' = "ok" /\ listed' = {}
  /\ tried' = {} /\ rates' = <<>>

\* The index is written when all modes are done, whether or not they passed.
WritesIndex ==
  /\ AtStage("configure") /\ command.modes = <<>>
  /\ index' = [there |-> TRUE, files |-> listed]
  /\ ToStage("idle") /\ Forgets
  /\ UNCHANGED <<started, flaws, deployed, raw, report, environment, baseline>>

\* The script is killed, or cannot deploy.
ScriptKilled ==
  /\ ~ AtStage("idle")
  /\ ToStage("idle") /\ Forgets
  /\ UNCHANGED <<started, flaws, deployed, raw, index, report, environment, baseline>>

-------------------------------------------------------------------------------
(***************************************************************************)
(* generate_benchmark_report.py.                                           *)
(***************************************************************************)

\* matrix_paths: what the newest index lists and is still there, or everything.
Selected == IF index.there THEN index.files \cap raw ELSE raw

Measured(mode) == {f \in Selected : f.label = mode /\ ~ Warmup(f)}
Warmups(mode) == {f \in Selected : f.label = mode /\ Warmup(f)}

\* By the number of the run, then by the name of the file, in its time.
Before(f, g) ==
  \/ f.number < g.number
  \/ f.number = g.number /\ f.session < g.session
  \/ f.number = g.number /\ f.session = g.session /\ f.left > g.left

\* measured[:5]
Row(mode) ==
  {f \in Measured(mode) : Cardinality({g \in Measured(mode) : Before(g, f)}) < Required}

\* A bug to catch: a row counts without its warm-up.
ValidWithoutWarmup(mode) ==
  Cardinality(Row(mode)) = Required /\ \A f \in Row(mode) : f.passed

Valid(mode) ==
  /\ Warmups(mode) # {}
  /\ Cardinality(Row(mode)) = Required
  /\ \A f \in Row(mode) : f.passed

\* The sustained load, the Redis outage and the settlement retry have passed some
\* time or not; without --allow-incomplete an incomplete matrix leaves the old
\* report as it is.
Reports ==
  /\ AtStage("idle")
  /\ \E specials, allowIncomplete \in BOOLEAN :
       LET complete == specials /\ \A mode \in Modes : Valid(mode)
       IN  /\ complete \/ allowIncomplete
           /\ report' = [status |-> IF complete THEN "COMPLETE" ELSE "PARTIAL",
                         indexed |-> index.there,
                         rows |-> [mode \in Modes |-> Row(mode)]]
  /\ UNCHANGED <<stage, started, flaws, deployed, command, number, outcome, listed, raw, index, capacity>>

\* The operator archives the raw files, and the indexes with them or not.
Clears ==
  /\ AtStage("idle") /\ raw # {}
  /\ raw' = {}
  /\ index' \in {index, NoIndex}
  /\ UNCHANGED <<stage, started, flaws, deployed, command, number, outcome, listed, report, capacity>>

-------------------------------------------------------------------------------
(***************************************************************************)
(* run_capacity_baseline.py.                                               *)
(***************************************************************************)

\* The level it is at; the warm-ups of a level leave no trace.
Level == Len(rates) + 1
RunsOf(level) == {t \in tried : t[1] = level}
RowPassed(level) == \A t \in RunsOf(level) : t[3] = "ok"
Stable == {level \in DOMAIN rates : RowPassed(level)}

\* max(...) takes the first of the best.
Best == CHOOSE l \in Stable :
          \A k \in Stable : rates[l] > rates[k] \/ (rates[l] = rates[k] /\ l <= k)

\* --dry-run measures nothing.
DryRun ==
  /\ AtStage("idle")
  /\ environment' = [status |-> "NOT_RUN"] /\ baseline' = [status |-> "NOT_RUN"]
  /\ UNCHANGED <<stage, started, flaws, bench, tried, rates>>

StartsCapacity ==
  /\ Starts("level")
  /\ environment' = [status |-> "IN_PROGRESS"]
  /\ UNCHANGED <<bench, tried, rates, baseline>>

RunsLevel ==
  /\ AtStage("level") /\ Len(rates) < Levels
  /\ Cardinality(RunsOf(Level)) < Required
  /\ \E result \in {"ok", "failed"} :
       /\ tried' = tried \cup {<<Level, Cardinality(RunsOf(Level)) + 1, result>>}
       /\ Counts(result)
  /\ UNCHANGED <<stage, bench, rates, environment, baseline>>

Aggregates ==
  /\ AtStage("level") /\ Len(rates) < Levels
  /\ Cardinality(RunsOf(Level)) = Required
  /\ \E rate \in Rates : rates' = Append(rates, rate)
  /\ UNCHANGED <<stage, started, flaws, bench, tried, environment, baseline>>

\* The stability run is made when some level is stable, on the best of them; it
\* is filed under that level, 0 here.
ChecksStability ==
  /\ AtStage("level") /\ Len(rates) = Levels
  /\ IF Stable = {} THEN UNCHANGED <<tried, started, flaws>>
     ELSE \E result \in {"ok", "failed"} :
            tried' = tried \cup {<<0, Best, result>>} /\ Counts(result)
  /\ ToStage("environment")
  /\ UNCHANGED <<bench, rates, environment, baseline>>

\* A bug to catch: the levels that failed do not count.
CompleteWhenSomeStable == \E level \in Stable : <<0, level, "ok">> \in tried

Complete == Stable = DOMAIN rates /\ <<0, Best, "ok">> \in tried

Status == IF Complete THEN "COMPLETE" ELSE "PARTIAL"

WritesEnvironment ==
  /\ AtStage("environment")
  /\ environment' = [status |-> Status, on |-> tried]
  /\ ToStage("baseline")
  /\ UNCHANGED <<started, flaws, bench, tried, rates, baseline>>

WritesBaseline ==
  /\ AtStage("baseline")
  /\ baseline' = IF Complete
                 THEN [status |-> Status, on |-> tried, best |-> Best, rate |-> rates[Best]]
                 ELSE [status |-> Status]
  /\ ToStage("idle") /\ Forgets
  /\ UNCHANGED <<started, flaws, deployed, raw, index, report, environment>>

-------------------------------------------------------------------------------
EvidenceNext ==
  \/ StartsSession \/ Configures \/ Loads \/ Labels \/ WritesIndex \/ ScriptKilled
  \/ Reports \/ Clears
  \/ DryRun \/ StartsCapacity \/ RunsLevel \/ Aggregates \/ ChecksStability
  \/ WritesEnvironment \/ WritesBaseline

EvidenceSpec == EvidenceInit /\ [][EvidenceNext]_evidenceVars

-------------------------------------------------------------------------------
(***************************************************************************)
(* Properties.                                                             *)
(***************************************************************************)

\* A report that says COMPLETE rests, for each mode, on the required number of
\* runs that were made while the application ran in that mode and ended well;
\* and if an index led to them, both rows are of one session that went through to
\* its end, each run after a warm-up of its mode, and no run that the same pass
\* over the mode made before one of them is left out: the row of a mode that the
\* command line names once is its first runs.  The row of a mode that is named
\* twice takes the first runs of both passes, and leaves out the later runs of the
\* first pass, which may have failed (generate_benchmark_report.main).
ReportRestsOnRuns ==
  report.status = "COMPLETE" =>
    \A mode \in Modes :
      LET row == report.rows[mode]
      IN  /\ Cardinality(row) = Required
          /\ \A f \in row : f.ran = mode /\ f.result = "ok"
          /\ report.indexed =>
               /\ \A f \in row : f.warm
               /\ \A f \in row : \A n \in 1..f.number : \E g \in row : g.left = f.left /\ g.number = n
               /\ \A f \in row, g \in report.rows["on"] : f.session = g.session

\* A capacity that is claimed, in the environment file or in the report, was
\* measured by one session: every run of every level ended well, and so did the
\* stability run, which was made for the level the report names
\* (run_capacity_baseline.main, write_report).
CapacityIsMeasured ==
  /\ \A file \in {environment, baseline} :
       file.status = "COMPLETE" =>
         /\ \A level \in 1..Levels, n \in 1..Required : <<level, n, "ok">> \in file.on
         /\ \E level \in 1..Levels : <<0, level, "ok">> \in file.on
  /\ baseline.status = "COMPLETE" => <<0, baseline.best, "ok">> \in baseline.on
===============================================================================
