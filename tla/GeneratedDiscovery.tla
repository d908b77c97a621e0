-------------------------- MODULE GeneratedDiscovery ---------------------------
(***************************************************************************)
(* crates/monty-discover/src/lib.rs, run_generated_internal: for each seed *)
(* the Python worker generates a program, the Monty worker runs it inert,  *)
(* and a failure with a fingerprint is minimized by the Python worker,     *)
(* whose candidates the Monty worker judges.  Both workers are started     *)
(* once, before the first seed.                                            *)
(*                                                                         *)
(* The workers are sessions as RpcSession describes them: one that timed   *)
(* out or crashed answers nothing any more.  What a live worker does with  *)
(* each seed is fixed at the start; what it does with the candidates of a  *)
(* minimization is any choice, pysource-minimize included.                 *)
(***************************************************************************)
EXTENDS Naturals, Sequences

CONSTANTS
    SeedCount,  (* GeneratedProbeConfig.seed_count, seeds from seed_start *)
    Minimize,   (* MinimizationConfig.enabled                             *)
    MaxChecks   (* MinimizationConfig.max_checks                          *)

VARIABLES
    generation, (* what the Python worker makes of each seed              *)
    behaviour,  (* what a live Monty worker does with each program        *)
    phase,      (* "starting", "generate", "run", "minimize", "judge",    *)
                (* "record", "done" or "failed"                           *)
    python,     (* the Python worker: "live" or "dead"                    *)
    monty,      (* the Monty worker: "live" or "dead"                     *)
    result,     (* the status of the seed under way, and of a WorkerError *)
    checks,     (* candidates judged in this minimization                 *)
    results,    (* the results recorded                                   *)
    minimized   (* the seeds whose failure was minimized                  *)

rigid == <<generation, behaviour>>
vars  == <<rigid, phase, python, monty, result, checks, results, minimized>>

Seeds == 1..SeedCount
Generations == {"prepared", "generation_error", "guard_rejected",
                "worker_error", "worker_timeout"}
Answers == {"none", "some", "syntax_error", "import_error",
            "other_compile_error", "runtime_error"}
Behaviours == Answers \cup {"crashes", "hangs"}

Result(status, workerError) == [status |-> status, workerError |-> workerError]

Init ==
    /\ generation \in [Seeds -> Generations]
    /\ behaviour \in [Seeds -> Behaviours]
    /\ phase = "starting" /\ python = "dead" /\ monty = "dead"
    /\ result = Result("none", FALSE)
    /\ checks = 0 /\ results = <<>> /\ minimized = {}

Seed == Len(results) + 1

(* run_inert_monty and compile_error_status *)
AnswerStatus(answer) ==
    CASE answer = "none"                -> "completed"
      [] answer = "some"                -> "semantic_mismatch"
      [] answer = "syntax_error"        -> "unsupported_parse"
      [] answer = "import_error"        -> "unsupported_runtime"
      [] answer = "other_compile_error" -> "unsupported_type_check"
      [] answer = "runtime_error"       -> "unsupported_runtime"

ErrorStatusUniform == [crashes |-> "crash", hangs |-> "crash"]
ErrorStatus == [crashes |-> "crash", hangs |-> "timeout"]

Abort == phase' = "failed" /\ UNCHANGED <<monty, result, checks, results, minimized>>

-------------------------------------------------------------------------------
Start ==
    /\ phase = "starting"
    /\ \/ /\ phase' = "generate" /\ python' = "live" /\ monty' = "live"
          /\ UNCHANGED <<result, checks, results, minimized>>
       \/ Abort /\ UNCHANGED python
    /\ UNCHANGED rigid

(* Any failure of the Python worker is recorded as the seed's, under the   *)
(* error type WorkerError.                                                 *)
Generate ==
    /\ phase = "generate" /\ Seed \in Seeds
    /\ \/ /\ generation[Seed] = "prepared"
          /\ phase' = "run" /\ UNCHANGED <<python, result>>
       \/ /\ generation[Seed] \in {"generation_error", "guard_rejected"}
          /\ result' = Result(generation[Seed], FALSE)
          /\ phase' = "record" /\ UNCHANGED python
       \/ /\ generation[Seed] = "worker_error"
          /\ result' = Result("generation_error", TRUE)
          /\ phase' = "record" /\ python' \in {"live", "dead"}
       \/ /\ generation[Seed] = "worker_timeout"
          /\ result' = Result("timeout", TRUE)
          /\ phase' = "record" /\ python' = "dead"
    /\ UNCHANGED <<rigid, monty, checks, results, minimized>>

(* generated_result_fingerprint *)
EligibleWithCrashes(status) ==
    status \in {"unsupported_parse", "unsupported_type_check", "unsupported_runtime", "crash"}
Eligible(status) ==
    status \in {"unsupported_parse", "unsupported_type_check", "unsupported_runtime"}

(* What becomes of a status Monty gave: minimize it, or record it.         *)
Classify(status) ==
    /\ result' = Result(status, FALSE)
    /\ phase' = IF Minimize /\ Eligible(status) THEN "minimize" ELSE "record"
    /\ checks' = 0
    /\ UNCHANGED <<rigid, python, results, minimized>>

RunAnswered ==
    /\ phase = "run" /\ monty = "live" /\ behaviour[Seed] \in Answers
    /\ Classify(AnswerStatus(behaviour[Seed]))
    /\ UNCHANGED monty

RunFailed ==
    /\ phase = "run"
    /\ \/ monty = "dead" /\ Classify("crash")
       \/ /\ monty = "live" /\ behaviour[Seed] \in DOMAIN ErrorStatus
          /\ Classify(ErrorStatus[behaviour[Seed]])
    /\ monty' = "dead"

(* The Python worker offers a candidate to the closure that judges it.     *)
OfferUncounted ==
    /\ phase = "minimize" /\ checks < MaxChecks
    /\ phase' = "judge"
    /\ UNCHANGED <<rigid, python, monty, result, checks, results, minimized>>
Offer ==
    /\ phase = "minimize" /\ checks < MaxChecks
    /\ checks' = checks + 1
    /\ phase' = "judge"
    /\ UNCHANGED <<rigid, python, monty, result, results, minimized>>

(* The candidate's verdict goes back, whichever it is.                     *)
Judge ==
    /\ phase = "judge" /\ monty = "live"
    /\ phase' = "minimize"
    /\ UNCHANGED <<rigid, python, monty, result, checks, results, minimized>>

(* Monty crashes or hangs on the candidate: request_interactive terminates *)
(* the Python worker, and the error ends the run.                          *)
JudgeFails ==
    /\ phase = "judge"
    /\ monty' = "dead" /\ python' = "dead" /\ phase' = "failed"
    /\ UNCHANGED <<rigid, result, checks, results, minimized>>

MinimizeAnswered ==
    /\ phase = "minimize"
    /\ minimized' = minimized \cup {Seed}
    /\ phase' = "record"
    /\ UNCHANGED <<rigid, python, monty, result, checks, results>>

MinimizeFailsSkipped ==
    /\ phase = "minimize"
    /\ phase' = "record" /\ python' \in {"live", "dead"}
    /\ UNCHANGED <<rigid, monty, result, checks, results, minimized>>
MinimizeFails ==
    /\ phase = "minimize"
    /\ python' \in {"live", "dead"}
    /\ Abort /\ UNCHANGED rigid

(* A WorkerError ends the corpus.                                          *)
EndsCorpusNever == FALSE
EndsCorpus == result.workerError

RecordResult ==
    /\ phase = "record"
    /\ results' = Append(results, result)
    /\ phase' = IF EndsCorpus THEN "done" ELSE "generate"
    /\ UNCHANGED <<rigid, python, monty, result, checks, minimized>>

Report ==
    /\ phase = "generate" /\ Seed \notin Seeds
    /\ phase' = "done"
    /\ UNCHANGED <<rigid, python, monty, result, checks, results, minimized>>

Next ==
    \/ Start \/ Generate \/ RunAnswered \/ RunFailed
    \/ Offer \/ Judge \/ JudgeFails \/ MinimizeAnswered \/ MinimizeFails
    \/ RecordResult \/ Report

Spec == Init /\ [][Next]_vars

(* Every request of a worker returns (EveryRequestReturns), so every step  *)
(* of the run is taken.                                                    *)
FairSpec == Spec /\ WF_vars(Next)

-------------------------------------------------------------------------------
(* Properties *)

Done == 1..Len(results)
Recorded(s, status) == results[s] = Result(status, FALSE)
Own(s) ==
    /\ Recorded(s, "crash") <=> generation[s] = "prepared" /\ behaviour[s] = "crashes"
    /\ Recorded(s, "timeout") <=> generation[s] = "prepared" /\ behaviour[s] = "hangs"

(* Up to and including the first seed on which Monty crashed or hung,      *)
(* a crash or a timeout is recorded for the seed that caused it.           *)
MontyFailures == {Result("crash", FALSE), Result("timeout", FALSE)}
MontyFailed(s) == results[s] \in MontyFailures
OwnUntilMontyDies ==
    \A s \in Done : (\A r \in 1..s-1 : ~MontyFailed(r)) => Own(s)

(* docs/discovery.md says a seed is a crash when the Monty worker exited   *)
(* unexpectedly, a timeout when it was killed at its deadline, and that    *)
(* Rust owns the isolation of crashes and hangs and the worker's restart:  *)
(* every crash and every timeout is the seed's own.                        *)
FailuresAreOwn == \A s \in Done : Own(s)

(* Every candidate is judged by a live Monty worker, so a judge that fails *)
(* failed because of the candidate: only a seed Monty answered is ever     *)
(* minimized.                                                              *)
JudgesHaveALiveWorker == phase \in {"minimize", "judge"} => monty = "live"

(* When minimization is on a report has a minimization of every eligible   *)
(* failure and of no other (eligible_failures = attempted), and none that  *)
(* was given up half-way.                                                  *)
EligibleAreAttempted ==
    phase = "done" /\ Minimize =>
        minimized = {s \in Done :
            results[s].status \in {"unsupported_parse", "unsupported_type_check",
                                   "unsupported_runtime"}}

(* A failure of the Python worker can only be the last result, and only it *)
(* makes a report shorter than the seeds asked for.                        *)
ShortOnlyAfterWorkerError ==
    /\ \A s \in Done : results[s].workerError => s = Len(results)
    /\ phase = "done" /\ Len(results) < SeedCount =>
         results # <<>> /\ results[Len(results)].workerError

(* The result of the seed under way is its own as long as Monty lives; a   *)
(* dead Monty is the work of the seed under way or of one recorded before; *)
(* minimized are the eligible seeds whose minimization is behind them: an  *)
(* inductive invariant.                                                    *)
Phases == {"starting", "generate", "run", "minimize", "judge", "record", "done", "failed"}
Statuses == {"none", "completed", "semantic_mismatch", "unsupported_parse",
             "unsupported_type_check", "unsupported_runtime", "crash", "timeout",
             "generation_error", "guard_rejected"}
TypeOK ==
    /\ generation \in [Seeds -> Generations] /\ behaviour \in [Seeds -> Behaviours]
    /\ phase \in Phases /\ {python, monty} \subseteq {"live", "dead"}
    /\ result \in [status: Statuses, workerError: BOOLEAN]
    /\ results \in Seq([status: Statuses, workerError: BOOLEAN])

SomeMontyFailed == \E r \in Done : MontyFailed(r)
ResultIsOwn ==
    /\ result = Result("crash", FALSE) <=>
         generation[Seed] = "prepared" /\ behaviour[Seed] = "crashes"
    /\ result = Result("timeout", FALSE) <=>
         generation[Seed] = "prepared" /\ behaviour[Seed] = "hangs"
PhaseInv ==
    /\ phase \in {"run", "minimize", "judge", "record"} => Seed \in Seeds
    /\ phase \in {"run", "minimize", "judge"} => generation[Seed] = "prepared"
    /\ phase \in {"minimize", "judge"} =>
         Eligible(result.status) /\ behaviour[Seed] \in Answers
    /\ phase \in {"minimize", "judge", "record"} => SomeMontyFailed \/ ResultIsOwn
MontyInv ==
    /\ JudgesHaveALiveWorker
    /\ phase \in {"generate", "run", "record"} /\ monty = "dead" =>
         \/ SomeMontyFailed
         \/ phase = "record" /\ result \in MontyFailures
EligibleDone == {s \in Done : Eligible(results[s].status)}
MinimizedInv ==
    Minimize => minimized = EligibleDone \cup
        {s \in {Seed} : phase = "record" /\ Eligible(result.status)}
CorpusInv ==
    /\ Len(results) <= SeedCount
    /\ phase \in {"minimize", "judge"} => ~result.workerError
    /\ \A s \in Done : results[s].workerError => s = Len(results) /\ phase = "done"
IInv ==
    /\ TypeOK /\ PhaseInv /\ MontyInv /\ MinimizedInv /\ CorpusInv
    /\ OwnUntilMontyDies /\ ShortOnlyAfterWorkerError

(* The run ends, with a report or an error.                                *)
RunEnds == <>(phase \in {"done", "failed"})
===============================================================================
