--------------------------- MODULE BaselineDiscovery ---------------------------
(***************************************************************************)
(* crates/monty-discover/src/lib.rs, run_baseline_probes: each probe of    *)
(* the catalog runs first on the CPython worker, then, if it returned, on  *)
(* the Monty worker.  An error of the Python worker ends the run.  After   *)
(* any error the Monty worker is dropped, and started again when the next  *)
(* probe needs one.                                                        *)
(*                                                                         *)
(* The two workers are sessions as RpcSession describes them: a worker     *)
(* whose request timed out or found it gone answers nothing any more.      *)
(* What a live worker does with each probe is fixed at the start.          *)
(***************************************************************************)
EXTENDS Naturals, Sequences

CONSTANT Catalog  (* the number of probes of the catalog                   *)

VARIABLES
    oracle,     (* what CPython does with each probe                      *)
    behaviour,  (* what a live Monty worker does with each probe          *)
    phase,      (* "starting", "oracle", "monty", "done" or "failed"      *)
    monty,      (* the Monty worker: "none", "live" or "dead"             *)
    results     (* the statuses recorded so far                           *)

vars == <<oracle, behaviour, phase, monty, results>>

Probes == 1..Catalog
OracleBehaviours == {"returns", "raises", "worker_fails"}
Answers == {"equal", "different", "syntax_error", "import_error",
            "other_compile_error", "runtime_error"}
Behaviours == Answers \cup {"crashes", "hangs"}

Init ==
    /\ oracle \in [Probes -> OracleBehaviours]
    /\ behaviour \in [Probes -> Behaviours]
    /\ phase = "starting" /\ monty = "none" /\ results = <<>>

Probe == Len(results) + 1

(* baseline_result and baseline_compile_error_status *)
AnswerStatus(answer) ==
    CASE answer = "equal"               -> "supported"
      [] answer = "different"           -> "semantic_mismatch"
      [] answer = "syntax_error"        -> "unsupported_parse"
      [] answer = "import_error"        -> "unsupported_runtime"
      [] answer = "other_compile_error" -> "unsupported_type_check"
      [] answer = "runtime_error"       -> "unsupported_runtime"

ErrorStatus == [crashes |-> "crash", hangs |-> "timeout"]

Record(status) ==
    /\ results' = Append(results, status)
    /\ phase' = "oracle"

Abort == phase' = "failed" /\ UNCHANGED <<monty, results>>

(* Both workers start, and the catalog is fetched and valid; or the run    *)
(* ends with an error.                                                     *)
Start ==
    /\ phase = "starting"
    /\ \/ phase' = "oracle" /\ monty' = "live" /\ UNCHANGED results
       \/ Abort
    /\ UNCHANGED <<oracle, behaviour>>

Oracle ==
    /\ phase = "oracle" /\ Probe \in Probes
    /\ \/ oracle[Probe] = "raises" /\ Record("invalid_probe") /\ UNCHANGED monty
       \/ oracle[Probe] = "returns" /\ phase' = "monty" /\ UNCHANGED <<monty, results>>
       \/ oracle[Probe] = "worker_fails" /\ Abort
    /\ UNCHANGED <<oracle, behaviour>>

Restart ==
    /\ phase = "monty" /\ monty = "none"
    /\ \/ monty' = "live" /\ UNCHANGED <<phase, results>>
       \/ Abort
    /\ UNCHANGED <<oracle, behaviour>>

RunAnswered ==
    /\ phase = "monty" /\ monty = "live" /\ behaviour[Probe] \in Answers
    /\ Record(AnswerStatus(behaviour[Probe]))
    /\ UNCHANGED <<oracle, behaviour, monty>>

(* outcome.is_err(): the worker is dropped whatever the error was.         *)
DropWorkerForgotten == monty' = "dead"
DropWorker == monty' = "none"

RunFailedRetries ==
    /\ phase = "monty" /\ monty = "live" /\ behaviour[Probe] \in DOMAIN ErrorStatus
    /\ DropWorker
    /\ UNCHANGED <<oracle, behaviour, phase, results>>
RunFailed ==
    /\ phase = "monty" /\ monty # "none"
    /\ \/ monty = "dead" /\ Record("crash")
       \/ /\ monty = "live" /\ behaviour[Probe] \in DOMAIN ErrorStatus
          /\ Record(ErrorStatus[behaviour[Probe]])
    /\ DropWorker
    /\ UNCHANGED <<oracle, behaviour>>

CatalogEndedOrDead == Probe \notin Probes \/ monty # "live"
CatalogEnded == Probe \notin Probes

Report ==
    /\ phase = "oracle" /\ CatalogEnded
    /\ phase' = "done"
    /\ UNCHANGED <<oracle, behaviour, monty, results>>

Next == Start \/ Oracle \/ Restart \/ RunAnswered \/ RunFailed \/ Report

Spec == Init /\ [][Next]_vars

(* Every request of a worker returns (EveryRequestReturns), so every step  *)
(* of the run is taken.                                                    *)
FairSpec == Spec /\ WF_vars(Next)

-------------------------------------------------------------------------------
(* Properties *)

(* A probe is recorded as a crash or a timeout when it crashed or hung the *)
(* Monty worker itself, and only then: one probe that breaks the worker    *)
(* leaves no mark on those after it (crash/hang isolation and worker       *)
(* restart).                                                               *)
FailuresAreOwn ==
    \A p \in 1..Len(results) :
        /\ results[p] = "crash" <=> oracle[p] = "returns" /\ behaviour[p] = "crashes"
        /\ results[p] = "timeout" <=> oracle[p] = "returns" /\ behaviour[p] = "hangs"

(* A report has the status of every probe of the catalog: no Monty failure *)
(* shortens it.                                                            *)
ReportIsComplete == phase = "done" => Len(results) = Catalog

(* What the run has recorded and what it is about to do agree with what    *)
(* the workers do with each probe, and the Monty worker is live or about   *)
(* to be started again: an inductive invariant.                            *)
StatusOf(p) ==
    IF oracle[p] = "raises" THEN "invalid_probe"
    ELSE IF behaviour[p] \in Answers THEN AnswerStatus(behaviour[p])
    ELSE ErrorStatus[behaviour[p]]
Statuses == {"supported", "semantic_mismatch", "unsupported_parse", "unsupported_type_check",
             "unsupported_runtime", "invalid_probe", "crash", "timeout"}
TypeOK ==
    /\ oracle \in [Probes -> OracleBehaviours] /\ behaviour \in [Probes -> Behaviours]
    /\ phase \in {"starting", "oracle", "monty", "done", "failed"}
    /\ monty \in {"none", "live", "dead"} /\ results \in Seq(Statuses)
RecordInv ==
    /\ Len(results) <= Catalog
    /\ \A p \in 1..Len(results) : oracle[p] # "worker_fails" /\ results[p] = StatusOf(p)
PhaseInv ==
    /\ phase = "monty" => Probe \in Probes /\ oracle[Probe] = "returns"
    /\ phase = "done" => Len(results) = Catalog
IInv == TypeOK /\ RecordInv /\ PhaseInv /\ monty # "dead"

(* The run ends, with a report or an error.                                *)
RunEnds == <>(phase \in {"done", "failed"})
===============================================================================
