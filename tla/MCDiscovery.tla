----------------------------- MODULE MCDiscovery -------------------------------
(***************************************************************************)
(* The parts of monty-discover above its workers: the baseline run, the    *)
(* generated run, and the runs of the program that write one path.  They   *)
(* share no state: a behaviour is one of any of them, while the others     *)
(* stay as they are at their start.                                        *)
(***************************************************************************)
EXTENDS ReleasePipeline, Naturals

CONSTANTS
    Catalog,                       (* of the baseline run                  *)
    SeedCount, Minimize, MaxChecks (* of the generated run                 *)

ASSUME DiscoveryAssumption ==
    /\ Catalog \in Nat
    /\ SeedCount \in Nat /\ Minimize \in BOOLEAN /\ MaxChecks \in Nat \ {0}

VARIABLES
    part,                                               (* the one that runs *)
    oracle, probeBehaviour, probePhase, probeMonty, probeResults,
    generation, seedBehaviour, seedPhase, python, seedMonty, result, checks,
    seedResults, minimized

Base == INSTANCE BaselineDiscovery WITH
    behaviour <- probeBehaviour, phase <- probePhase, monty <- probeMonty,
    results <- probeResults

Gen == INSTANCE GeneratedDiscovery WITH
    behaviour <- seedBehaviour, phase <- seedPhase, monty <- seedMonty,
    results <- seedResults

baselineVars == <<oracle, probeBehaviour, probePhase, probeMonty, probeResults>>
generatedVars ==
    <<generation, seedBehaviour, seedPhase, python, seedMonty, result, checks,
      seedResults, minimized>>
discoveryVars == <<part, vars, baselineVars, generatedVars>>

-------------------------------------------------------------------------------
PipelineIdle ==
    /\ pid = [r \in Runs |-> CHOOSE p \in Pids : TRUE]
    /\ requested = [r \in Runs |-> "none"]
    /\ phase = [r \in Runs |-> "start"]
    /\ temp = [p \in Pids |-> NoFile]
    /\ target = NoFile /\ durable = NoFile

BaselineIdle ==
    /\ oracle = [p \in 1..Catalog |-> "returns"]
    /\ probeBehaviour = [p \in 1..Catalog |-> "equal"]
    /\ probePhase = "starting" /\ probeMonty = "none" /\ probeResults = <<>>

GeneratedIdle ==
    /\ generation = [s \in 1..SeedCount |-> "prepared"]
    /\ seedBehaviour = [s \in 1..SeedCount |-> "none"]
    /\ seedPhase = "starting" /\ python = "dead" /\ seedMonty = "dead"
    /\ result = [status |-> "none", workerError |-> FALSE]
    /\ checks = 0 /\ seedResults = <<>> /\ minimized = {}

MCInit ==
    \/ part = "pipeline" /\ Init /\ BaselineIdle /\ GeneratedIdle
    \/ part = "baseline" /\ Base!Init /\ PipelineIdle /\ GeneratedIdle
    \/ part = "generated" /\ Gen!Init /\ PipelineIdle /\ BaselineIdle

PipelineStep ==
    part = "pipeline" /\ Next /\ UNCHANGED <<part, baselineVars, generatedVars>>
BaselineStep ==
    part = "baseline" /\ Base!Next /\ UNCHANGED <<part, vars, generatedVars>>
GeneratedStep ==
    part = "generated" /\ Gen!Next /\ UNCHANGED <<part, vars, baselineVars>>

MCNext == PipelineStep \/ BaselineStep \/ GeneratedStep

(* As in FairSpec of the two: every request of a worker returns            *)
(* (EveryRequestReturns), so the runs take their steps.                    *)
MCSpec ==
    /\ MCInit /\ [][MCNext]_discoveryVars
    /\ WF_discoveryVars(BaselineStep) /\ WF_discoveryVars(GeneratedStep)

-------------------------------------------------------------------------------
(* The properties of the parts (see there).                                *)

(* A baseline report has the status of every probe, and a crash or timeout *)
(* in it is the probe's own: the worker is restarted after each.           *)
BaselineReportIsSound == Base!FailuresAreOwn /\ Base!ReportIsComplete

(* A crash or timeout of a generated report is the seed's own up to the    *)
(* first one, and only a failure of the Python worker cuts the report off. *)
GeneratedReportIsSound ==
    Gen!OwnUntilMontyDies /\ Gen!ShortOnlyAfterWorkerError

(* A live worker judges every candidate of a minimization, and what a      *)
(* report says was minimized is every failure that is eligible.            *)
MinimizationsAreSound ==
    Gen!JudgesHaveALiveWorker /\ Gen!EligibleAreAttempted

(* Both runs end, with a report or an error.                               *)
RunsEnd ==
    /\ part = "baseline" => Base!RunEnds
    /\ part = "generated" => Gen!RunEnds
===============================================================================
