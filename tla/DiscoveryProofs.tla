----------------------------- MODULE DiscoveryProofs ---------------------------
(***************************************************************************)
(* Theorems about the parts of monty-discover above its workers: the       *)
(* release pipeline, for any runs, process ids and versions; the baseline  *)
(* run, for a catalog of any length; the generated run, for any number of  *)
(* seeds and of candidates, with minimization on or off.                   *)
(***************************************************************************)
EXTENDS MCDiscovery, SequenceTheorems, TLAPS

-------------------------------------------------------------------------------
(* ReleasePipeline *)

LEMMA Initially == Init => IInv
  BY PipelineAssumption, NoFileAssumption
  DEF Init, IInv, TypeOK, Phases, PathInv, RunInv

(* A step that leaves the files alone and takes one run to a phase in      *)
(* which it still owns what it must own.                                   *)
LEMMA PhaseStep ==
  ASSUME IInv, NEW r \in Runs, phase[r] # "done",
         NEW to \in Phases, phase' = [phase EXCEPT ![r] = to],
         UNCHANGED <<pid, requested, temp, target, durable>>,
         to \in {"probing", "create"} => Version(r) = Linked,
         to \in {"write", "sync", "rename"} => FALSE,
         to = "cleanup" => Owns(r)
  PROVE  IInv'
<1>1. TypeOK'
  BY DEF IInv, TypeOK
<1>2. PathInv'
  BY DEF IInv, TypeOK, PathInv, Published, File
<1>3. ASSUME NEW q \in Runs PROVE RunInv(q)'
  <2>1. RunInv(q) BY DEF IInv
  <2>2. Version(q)' = Version(q)
    BY DEF Version
  <2>3. CASE q = r
    BY <2>2, <2>3 DEF IInv, TypeOK, RunInv, Owns
  <2>4. CASE q # r
    BY <2>1, <2>2, <2>4 DEF IInv, TypeOK, RunInv, Owns
  <2>5. QED BY <2>3, <2>4
<1>4. QED
  BY <1>1, <1>2, <1>3 DEF IInv

(* Two runs never own the file of one process id. *)
LEMMA OneOwner ==
  ASSUME NEW r \in Runs, NEW q \in Runs, Owns(r), Owns(q), pid[r] = pid[q]
  PROVE  r = q
  BY DEF Owns

(* A step that changes the temporary file of one run, and not the path.    *)
LEMMA TempStep ==
  ASSUME IInv, NEW r \in Runs, phase[r] # "done",
         NEW to \in Phases, phase' = [phase EXCEPT ![r] = to],
         NEW file \in File \cup {NoFile}, temp' = [temp EXCEPT ![pid[r]] = file],
         UNCHANGED <<pid, requested, target, durable>>,
         Owns(r) \/ temp[pid[r]] = NoFile,
         to \in {"write", "sync", "rename", "failed"},
         to # "failed" => Owns(r)'
  PROVE  IInv'
<1>1. TypeOK'
  BY DEF IInv, TypeOK
<1>2. PathInv'
  BY DEF IInv, TypeOK, PathInv, Published, File
<1>3. ASSUME NEW q \in Runs PROVE RunInv(q)'
  <2>1. CASE q = r
    BY <2>1 DEF IInv, TypeOK, RunInv
  <2>2. CASE q # r
    <3>1. RunInv(q) /\ Version(q)' = Version(q) /\ phase'[q] = phase[q]
      BY <2>2 DEF IInv, TypeOK, Version
    <3>2. ASSUME Owns(q) PROVE Owns(q)'
      <4>1. pid[q] # pid[r]
        BY <2>2, <3>2, OneOwner DEF Owns
      <4>2. temp'[pid[q]] = temp[pid[q]]
        BY <4>1 DEF IInv, TypeOK
      <4>3. QED
        BY <3>1, <3>2, <4>2 DEF Owns
    <3>3. QED
      BY <3>1, <3>2 DEF RunInv
  <2>3. QED BY <2>1, <2>2
<1>4. QED
  BY <1>1, <1>2, <1>3 DEF IInv

LEMMA Inductiveness == IInv /\ [Next]_vars => IInv'
<1> SUFFICES ASSUME IInv, [Next]_vars PROVE IInv'
  OBVIOUS
<1>1. ASSUME NEW r \in Runs, NEW from \in Phases \ {"done"}, Fail(r, from) PROVE IInv'
  BY <1>1, PhaseStep DEF Fail, Step, Phases
<1>2. ASSUME NEW r \in Runs, NEW from \in {"write", "sync", "rename"}, Err(r, from)
      PROVE  IInv'
  <2>1. Owns(r)
    BY <1>2 DEF IInv, RunInv, Err, Step
  <2>2. QED
    BY <1>2, <2>1, PhaseStep DEF Err, Step, Phases
<1>3. ASSUME NEW r \in Runs, Resolve(r) PROVE IInv'
  <2>1. Accepted(r) => Version(r) = Linked
    BY PipelineAssumption DEF Accepted, Version
  <2>2. QED
    BY <1>1, <1>3, <2>1, PhaseStep DEF Resolve, Step, Phases
<1>4. ASSUME NEW r \in Runs, Probe(r) PROVE IInv'
  <2>1. phase[r] = "probing" => Version(r) = Linked
    BY DEF IInv, RunInv
  <2>2. QED
    BY <1>1, <1>4, <2>1, PhaseStep DEF Probe, Step, Phases
<1>5. ASSUME NEW r \in Runs, Create(r) PROVE IInv'
  <2> DEFINE file == [by |-> r, version |-> Version(r), data |-> "partial", synced |-> FALSE]
  <2>1. CASE Fail(r, "create")
    BY <1>1, <2>1 DEF Phases
  <2>2. CASE ~Fail(r, "create")
    <3>1. /\ temp[pid[r]] = NoFile /\ Step(r, "create", "write")
          /\ temp' = [temp EXCEPT ![pid[r]] = file]
          /\ UNCHANGED <<pid, requested, target, durable>>
      BY <1>5, <2>2 DEF Create, CreateNew
    <3>2. Version(r) = Linked /\ file \in File
      BY <3>1, PipelineAssumption DEF IInv, RunInv, Step, File
    <3>3. Owns(r)'
      BY <3>1, <3>2, NoFileAssumption DEF Owns, IInv, TypeOK, Step
    <3>4. QED
      BY <3>1, <3>2, <3>3, TempStep DEF Step, Phases
  <2>3. QED BY <2>1, <2>2
<1>6. ASSUME NEW r \in Runs, WriteAll(r) \/ SyncAll(r) PROVE IInv'
  <2>1. phase[r] \in {"write", "sync"} /\ Owns(r)
    BY <1>6 DEF WriteAll, SyncAll, Err, Step, IInv, RunInv
  <2>2. CASE Err(r, "write") \/ Err(r, "sync")
    BY <1>2, <2>2
  <2>3. CASE ~(Err(r, "write") \/ Err(r, "sync"))
    <3>1. PICK to \in {"sync", "rename"}, file \in File :
            /\ phase' = [phase EXCEPT ![r] = to]
            /\ temp' = [temp EXCEPT ![pid[r]] = file]
            /\ UNCHANGED <<pid, requested, target, durable>>
            /\ file.by = r /\ file.version = Linked /\ file.data = "complete"
            /\ to = "rename" => file.synced
      <4>1. temp[pid[r]] \in File
        BY <2>1 DEF IInv, TypeOK, Owns
      <4>2. CASE Step(r, "write", "sync") /\ WriteAll(r)
        <5>1. Written(temp[pid[r]]) \in File
          BY <4>1 DEF File, Written
        <5>2. temp' = [temp EXCEPT ![pid[r]] = Written(temp[pid[r]])]
          BY <2>3, <4>2 DEF WriteAll
        <5>3. QED
          BY <2>1, <2>3, <4>1, <4>2, <5>1, <5>2 DEF WriteAll, Step, Owns, File, Written
      <4>3. CASE Step(r, "sync", "rename") /\ SyncAll(r)
        <5>1. Synced(temp[pid[r]]) \in File
          BY <4>1 DEF File, Synced
        <5>2. temp' = [temp EXCEPT ![pid[r]] = Synced(temp[pid[r]])]
          BY <2>3, <4>3 DEF SyncAll
        <5>3. QED
          BY <2>1, <2>3, <4>1, <4>3, <5>1, <5>2 DEF SyncAll, Step, Owns, File, Synced
      <4>4. QED
        BY <1>6, <2>3, <4>2, <4>3 DEF WriteAll, SyncAll
    <3>2. Owns(r)'
      BY <3>1, NoFileAssumption DEF Owns, IInv, TypeOK
    <3>3. QED
      BY <2>1, <3>1, <3>2, TempStep DEF Phases
  <2>4. QED BY <2>2, <2>3
<1>7. ASSUME NEW r \in Runs, Rename(r) PROVE IInv'
  <2>1. CASE Err(r, "rename")
    BY <1>2, <2>1
  <2>2. CASE ~Err(r, "rename")
    <3>1. /\ Step(r, "rename", "done")
          /\ target' = temp[pid[r]]
          /\ temp' = [temp EXCEPT ![pid[r]] = NoFile]
          /\ UNCHANGED <<pid, requested, durable>>
      BY <1>7, <2>2 DEF Rename
    <3>2. Owns(r) /\ temp[pid[r]] \in File
      BY <3>1 DEF IInv, RunInv, Step, TypeOK, Owns
    <3>3. TypeOK'
      BY <3>1, <3>2 DEF IInv, TypeOK, Step, Phases
    <3>4. PathInv'
      BY <3>1, <3>2 DEF IInv, TypeOK, PathInv, Published, File, Owns, Step
    <3>5. ASSUME NEW q \in Runs PROVE RunInv(q)'
      <4>1. RunInv(q) /\ Version(q)' = Version(q)
        BY <3>1 DEF IInv, Version
      <4>2. CASE q = r
        BY <3>1, <4>2 DEF Step, RunInv, IInv, TypeOK
      <4>3. CASE q # r
        <5>1. phase'[q] = phase[q]
          BY <3>1, <4>3 DEF Step, IInv, TypeOK
        <5>2. ASSUME Owns(q) PROVE Owns(q)'
          BY <3>1, <3>2, <4>3, <5>1, <5>2, OneOwner DEF Owns, IInv, TypeOK
        <5>3. QED
          BY <4>1, <5>1, <5>2 DEF RunInv
      <4>4. QED BY <4>2, <4>3
    <3>6. QED
      BY <3>3, <3>4, <3>5 DEF IInv
  <2>3. QED BY <2>1, <2>2
<1>8. ASSUME NEW r \in Runs, Cleanup(r) PROVE IInv'
  <2>1. phase[r] = "cleanup" /\ Owns(r)
    BY <1>8 DEF Cleanup, Step, IInv, RunInv
  <2>2. CASE temp' = temp
    BY <1>8, <2>1, <2>2, PhaseStep DEF Cleanup, Step, Phases
  <2>3. CASE temp' = [temp EXCEPT ![pid[r]] = NoFile]
    BY <1>8, <2>1, <2>3, TempStep DEF Cleanup, Step, Phases
  <2>4. QED BY <1>8, <2>2, <2>3 DEF Cleanup
<1>9. ASSUME NEW r \in Runs, Kill(r) PROVE IInv'
  BY <1>9, PhaseStep DEF Kill, Running, Phases
<1>10. CASE Writeback
  <2>1. TypeOK' /\ PathInv'
    BY <1>10 DEF Writeback, IInv, TypeOK, PathInv, Published
  <2>2. ASSUME NEW q \in Runs PROVE RunInv(q)'
    BY <1>10 DEF Writeback, IInv, RunInv, Owns, Version
  <2>3. QED BY <2>1, <2>2 DEF IInv
<1>11. CASE PowerLoss
  <2>1. /\ target' \in {target, durable} /\ durable' = target'
    <3>1. ASSUME NEW file \in {target, durable} PROVE Survives(file) = {file}
      BY DEF IInv, PathInv, Published, Survives
    <3>2. QED
      BY <1>11, <3>1 DEF PowerLoss
  <2>2. TypeOK'
    <3>1. phase' \in [Runs -> Phases]
      BY <1>11 DEF PowerLoss, IInv, TypeOK, Phases
    <3>2. temp' \in [Pids -> File \cup {NoFile}]
      BY <1>11 DEF PowerLoss, IInv, TypeOK, File
    <3>3. QED
      BY <1>11, <2>1, <3>1, <3>2 DEF PowerLoss, IInv, TypeOK
  <2>3. \A q \in Runs : phase'[q] \in {"start", "done", "failed", "killed"}
                       /\ (phase[q] = "done" => phase'[q] = "done")
    BY <1>11 DEF PowerLoss, Running, IInv, TypeOK
  <2>4. PathInv'
    BY <2>1, <2>3 DEF IInv, TypeOK, PathInv, Published, File
  <2>5. ASSUME NEW q \in Runs PROVE RunInv(q)'
    BY <2>3 DEF RunInv
  <2>6. QED BY <2>2, <2>4, <2>5 DEF IInv
<1>12. CASE UNCHANGED vars
  BY <1>12 DEF vars, IInv, TypeOK, PathInv, Published, RunInv, Owns, Version
<1>13. QED
  BY <1>3, <1>4, <1>5, <1>6, <1>7, <1>8, <1>9, <1>10, <1>11, <1>12 DEF Next

(* main.rs, write_atomic: who owns a temporary file, and what was renamed, *)
(* at every step of any number of runs.                                    *)
THEOREM PipelineInductive == Spec => []IInv
  BY Initially, Inductiveness, PTL DEF Spec

(* For any number of runs, with process ids that may repeat, killed at any *)
(* step, and with power losses: what is at the output path is complete,    *)
(* was written by a run that succeeded, and is labelled with the version   *)
(* that was probed.                                                        *)
THEOREM PathIsSound ==
  Spec => []OutputIsSound
<1>1. IInv => OutputIsSound
  BY DEF IInv, PathInv, Published, OutputIsSound, TargetIsWhole, TargetIsLabelledAsProbed,
         TargetIsOfASuccess
<1>2. QED
  BY <1>1, PipelineInductive, PTL

-------------------------------------------------------------------------------
(* BaselineDiscovery *)

(* What a probe may be recorded as.                                        *)
LEMMA StatusType ==
  ASSUME Base!TypeOK, NEW p \in Base!Probes
  PROVE  /\ Base!StatusOf(p) \in Base!Statuses
         /\ oracle[p] \in Base!OracleBehaviours
         /\ probeBehaviour[p] \in Base!Behaviours
<1>1. oracle[p] \in Base!OracleBehaviours /\ probeBehaviour[p] \in Base!Behaviours
  BY DEF Base!TypeOK
<1>2. ASSUME NEW b \in Base!Answers PROVE Base!AnswerStatus(b) \in Base!Statuses
  BY <1>2 DEF Base!AnswerStatus, Base!Answers, Base!Statuses
<1>3. ASSUME NEW b \in {"crashes", "hangs"} PROVE Base!ErrorStatus[b] \in Base!Statuses
  BY <1>3 DEF Base!ErrorStatus, Base!Statuses
<1>4. QED
  BY <1>1, <1>2, <1>3 DEF Base!StatusOf, Base!Behaviours, Base!Statuses

LEMMA BaselineInitially == Base!Init => Base!IInv
  BY DiscoveryAssumption
  DEF Base!Init, Base!IInv, Base!TypeOK, Base!RecordInv, Base!PhaseInv

(* A step that records what the probe under way is recorded as.            *)
LEMMA BaselineRecords ==
  ASSUME Base!IInv, Base!Probe \in Base!Probes,
         oracle[Base!Probe] # "worker_fails",
         Base!Record(Base!StatusOf(Base!Probe)),
         probeMonty' \in {"none", "live"}, UNCHANGED <<oracle, probeBehaviour>>
  PROVE  Base!IInv'
<1> DEFINE p == Len(probeResults) + 1
<1>1. /\ p \in Base!Probes /\ Base!StatusOf(p) \in Base!Statuses
      /\ probeResults \in Seq(Base!Statuses) /\ Len(probeResults) \in Nat
  BY StatusType, LenProperties DEF Base!IInv, Base!TypeOK, Base!Probe
<1>2. /\ probeResults' = Append(probeResults, Base!StatusOf(p))
      /\ probePhase' = "oracle"
  BY DEF Base!Record, Base!Probe
<1>3. /\ probeResults' \in Seq(Base!Statuses)
      /\ Len(probeResults') = p
      /\ \A q \in 1..Len(probeResults) : probeResults'[q] = probeResults[q]
      /\ probeResults'[p] = Base!StatusOf(p)
  BY <1>1, <1>2, AppendProperties
<1>4. \A q : Base!StatusOf(q)' = Base!StatusOf(q)
  BY DEF Base!StatusOf
<1>5. Base!RecordInv'
  <2>1. p <= Catalog
    BY <1>1, DiscoveryAssumption DEF Base!Probes
  <2>2. ASSUME NEW q \in 1..p
        PROVE  oracle'[q] # "worker_fails" /\ probeResults'[q] = Base!StatusOf(q)'
    <3>1. CASE q = p
      BY <1>3, <1>4, <3>1 DEF Base!Probe
    <3>2. CASE q # p
      BY <1>1, <1>3, <1>4, <3>2 DEF Base!IInv, Base!RecordInv
    <3>3. QED BY <3>1, <3>2
  <2>3. QED
    BY <1>3, <2>1, <2>2 DEF Base!RecordInv
<1>6. QED
  BY <1>2, <1>3, <1>5 DEF Base!IInv, Base!TypeOK, Base!PhaseInv

(* A step that records nothing.                                            *)
LEMMA BaselineGoesOn ==
  ASSUME Base!IInv, UNCHANGED <<oracle, probeBehaviour, probeResults>>,
         probePhase' \in {"oracle", "monty", "done", "failed"} \cup {probePhase},
         probeMonty' \in {"none", "live"},
         Base!PhaseInv'
  PROVE  Base!IInv'
  BY DEF Base!IInv, Base!TypeOK, Base!RecordInv, Base!StatusOf

LEMMA BaselineStepKeeps ==
  ASSUME Base!IInv, Base!Next
  PROVE  Base!IInv'
<1> DEFINE p == Base!Probe
<1>0. probeMonty \in {"none", "live"} /\ Base!PhaseInv
  BY DEF Base!IInv, Base!TypeOK
<1>1. CASE Base!Start
  BY <1>0, <1>1, BaselineGoesOn DEF Base!Start, Base!Abort, Base!PhaseInv
<1>2. CASE Base!Oracle
  <2>1. CASE oracle[p] = "raises" /\ Base!Record("invalid_probe") /\ UNCHANGED probeMonty
    <3>1. Base!StatusOf(p) = "invalid_probe"
      BY <2>1 DEF Base!StatusOf
    <3>2. QED
      BY <1>0, <1>2, <2>1, <3>1, BaselineRecords DEF Base!Oracle
  <2>2. CASE oracle[p] = "returns" /\ probePhase' = "monty" /\ UNCHANGED <<probeMonty, probeResults>>
    BY <1>0, <1>2, <2>2, BaselineGoesOn
    DEF Base!Oracle, Base!PhaseInv, Base!Probe, Base!Probes
  <2>3. CASE Base!Abort
    BY <1>0, <1>2, <2>3, BaselineGoesOn
    DEF Base!Oracle, Base!Abort, Base!PhaseInv
  <2>4. QED BY <1>2, <2>1, <2>2, <2>3 DEF Base!Oracle
<1>3. CASE Base!Restart
  BY <1>0, <1>3, BaselineGoesOn
  DEF Base!Restart, Base!Abort, Base!PhaseInv, Base!Probe, Base!Probes
<1>4. CASE Base!RunAnswered
  <2>1. p \in Base!Probes /\ oracle[p] = "returns" /\ probeBehaviour[p] \in Base!Answers
    BY <1>0, <1>4 DEF Base!RunAnswered, Base!PhaseInv
  <2>2. Base!StatusOf(p) = Base!AnswerStatus(probeBehaviour[p])
    BY <2>1 DEF Base!StatusOf
  <2>3. QED
    BY <1>0, <1>4, <2>1, <2>2, BaselineRecords DEF Base!RunAnswered
<1>5. CASE Base!RunFailed
  <2>1. probeMonty = "live" /\ p \in Base!Probes /\ oracle[p] = "returns"
    BY <1>0, <1>5 DEF Base!RunFailed, Base!PhaseInv
  <2>2. probeBehaviour[p] \in {"crashes", "hangs"}
    BY <1>5, <2>1 DEF Base!RunFailed, Base!ErrorStatus
  <2>3. Base!StatusOf(p) = Base!ErrorStatus[probeBehaviour[p]]
    BY <2>1, <2>2 DEF Base!StatusOf, Base!Answers
  <2>4. QED
    BY <1>0, <1>5, <2>1, <2>3, BaselineRecords DEF Base!RunFailed, Base!DropWorker
<1>6. CASE Base!Report
  <2>1. Len(probeResults) = Catalog
    BY <1>6, DiscoveryAssumption, LenProperties

    DEF Base!Report, Base!CatalogEnded, Base!IInv, Base!TypeOK, Base!RecordInv,
        Base!Probe, Base!Probes
  <2>2. QED
    BY <1>0, <1>6, <2>1, BaselineGoesOn DEF Base!Report, Base!PhaseInv
<1>7. QED
  BY <1>1, <1>2, <1>3, <1>4, <1>5, <1>6 DEF Base!Next

LEMMA BaselineStutters ==
  ASSUME Base!IInv, UNCHANGED baselineVars
  PROVE  Base!IInv'
  BY DEF baselineVars, Base!IInv, Base!TypeOK, Base!RecordInv, Base!PhaseInv,
         Base!StatusOf, Base!Probe

LEMMA BaselineSound == Base!IInv => BaselineReportIsSound
<1> SUFFICES ASSUME Base!IInv PROVE BaselineReportIsSound
  OBVIOUS
<1>1. ASSUME NEW p \in 1..Len(probeResults)
      PROVE  /\ probeResults[p] = "crash" <=>
                  oracle[p] = "returns" /\ probeBehaviour[p] = "crashes"
             /\ probeResults[p] = "timeout" <=>
                  oracle[p] = "returns" /\ probeBehaviour[p] = "hangs"
  <2>1. /\ p \in Base!Probes
        /\ oracle[p] \in {"returns", "raises"}
        /\ probeResults[p] = Base!StatusOf(p)
        /\ probeBehaviour[p] \in Base!Behaviours
    BY DiscoveryAssumption, LenProperties, StatusType
    DEF Base!IInv, Base!TypeOK, Base!RecordInv, Base!Probes, Base!OracleBehaviours
  <2>2. QED
    BY <2>1
    DEF Base!StatusOf, Base!AnswerStatus, Base!ErrorStatus, Base!Answers, Base!Behaviours
<1>2. QED
  BY <1>1
  DEF BaselineReportIsSound, Base!FailuresAreOwn, Base!ReportIsComplete, Base!IInv,
      Base!PhaseInv

-------------------------------------------------------------------------------
(* GeneratedDiscovery *)

LEMMA GeneratedInitially == Gen!Init => Gen!IInv
  BY DiscoveryAssumption, EmptySeq


  DEF Gen!Init, Gen!IInv, Gen!TypeOK, Gen!Phases, Gen!Result, Gen!Statuses, Gen!PhaseInv,
      Gen!MontyInv, Gen!MinimizedInv, Gen!CorpusInv, Gen!OwnUntilMontyDies,
      Gen!ShortOnlyAfterWorkerError, Gen!JudgesHaveALiveWorker, Gen!EligibleDone, Gen!Done

(* A step that records nothing changes nothing of what is said of the      *)
(* seeds recorded.                                                         *)
LEMMA NothingRecorded ==
  ASSUME UNCHANGED <<generation, seedBehaviour, seedResults>>
  PROVE  /\ Gen!Done' = Gen!Done /\ Gen!Seed' = Gen!Seed
         /\ Gen!SomeMontyFailed' = Gen!SomeMontyFailed
         /\ Gen!EligibleDone' = Gen!EligibleDone
         /\ Gen!OwnUntilMontyDies' = Gen!OwnUntilMontyDies
<1>1. Gen!Done' = Gen!Done /\ Gen!Seed' = Gen!Seed
  BY DEF Gen!Done, Gen!Seed
<1>2. \A s : Gen!MontyFailed(s)' = Gen!MontyFailed(s) /\ Gen!Own(s)' = Gen!Own(s)
  BY DEF Gen!MontyFailed, Gen!Own, Gen!Recorded
<1>3. Gen!EligibleDone' = Gen!EligibleDone
  BY <1>1 DEF Gen!EligibleDone, Gen!Eligible
<1>4. Gen!SomeMontyFailed' = Gen!SomeMontyFailed
  BY <1>1, <1>2 DEF Gen!SomeMontyFailed
<1>5. Gen!OwnUntilMontyDies' = Gen!OwnUntilMontyDies
  BY <1>1, <1>2 DEF Gen!OwnUntilMontyDies
<1>6. QED
  BY <1>1, <1>3, <1>4, <1>5

LEMMA GeneratedGoesOn ==
  ASSUME Gen!IInv, UNCHANGED <<generation, seedBehaviour, seedResults>>,
         seedPhase # "done", seedPhase' \in Gen!Phases \ {"done"},
         {python', seedMonty'} \subseteq {"live", "dead"},
         result' \in [status: Gen!Statuses, workerError: BOOLEAN],
         seedPhase' \in {"minimize", "judge"} => ~result'.workerError,
         Gen!PhaseInv', Gen!MontyInv', Gen!MinimizedInv'
  PROVE  Gen!IInv'
<1>1. Gen!TypeOK'
  BY DEF Gen!IInv, Gen!TypeOK
<1>2. Gen!CorpusInv'
  BY NothingRecorded DEF Gen!IInv, Gen!CorpusInv
<1>3. Gen!OwnUntilMontyDies' /\ Gen!ShortOnlyAfterWorkerError'
  BY NothingRecorded DEF Gen!IInv, Gen!ShortOnlyAfterWorkerError
<1>4. QED
  BY <1>1, <1>2, <1>3 DEF Gen!IInv

(* The invariants of a state whose run has ended in an error, or goes on   *)
(* between two seeds with a live Monty.                                    *)
LEMMA GeneratedAborts ==
  ASSUME Gen!IInv, UNCHANGED <<generation, seedBehaviour, seedResults, result, minimized>>,
         seedPhase \notin {"record", "done"}, seedPhase' = "failed",
         {python', seedMonty'} \subseteq {"live", "dead"}
  PROVE  Gen!IInv'
<1>1. Gen!PhaseInv' /\ Gen!MontyInv'
  BY DEF Gen!PhaseInv, Gen!MontyInv, Gen!JudgesHaveALiveWorker
<1>2. Gen!MinimizedInv'
  BY NothingRecorded DEF Gen!IInv, Gen!MinimizedInv
<1>3. QED
  BY <1>1, <1>2, GeneratedGoesOn DEF Gen!IInv, Gen!TypeOK, Gen!Phases

LEMMA SeedKnown ==
  ASSUME Gen!IInv
  PROVE  /\ Len(seedResults) \in Nat /\ Gen!Seed \in Nat
         /\ DOMAIN seedResults = Gen!Done
         /\ Gen!Seed \in Gen!Seeds => /\ generation[Gen!Seed] \in Gen!Generations
                               /\ seedBehaviour[Gen!Seed] \in Gen!Behaviours
  BY LenProperties DEF Gen!IInv, Gen!TypeOK, Gen!Seed, Gen!Done

LEMMA GenerateKeeps ==
  ASSUME Gen!IInv, Gen!Generate
  PROVE  Gen!IInv'
<1>1. /\ UNCHANGED <<generation, seedBehaviour, seedMonty, checks, seedResults, minimized>>
      /\ seedPhase = "generate" /\ Gen!Seed \in Gen!Seeds /\ seedPhase' \in {"run", "record"}
      /\ {python', seedMonty'} \subseteq {"live", "dead"}
      /\ result' \in [status: Gen!Statuses, workerError: BOOLEAN]
      /\ ~Gen!Eligible(result'.status) \/ seedPhase' = "run"
      /\ seedPhase' = "run" => generation[Gen!Seed] = "prepared"
      /\ seedPhase' = "record" =>
           /\ generation[Gen!Seed] # "prepared"
           /\ result' \notin Gen!MontyFailures
  <2>1. /\ UNCHANGED <<generation, seedBehaviour, seedMonty, checks, seedResults, minimized>>
        /\ seedPhase = "generate" /\ Gen!Seed \in Gen!Seeds
        /\ python' \in {"live", "dead"} /\ seedMonty \in {"live", "dead"}
        /\ result \in [status: Gen!Statuses, workerError: BOOLEAN]
    BY DEF Gen!Generate, Gen!rigid, Gen!IInv, Gen!TypeOK
  <2>2. CASE /\ generation[Gen!Seed] = "prepared"
             /\ seedPhase' = "run" /\ result' = result
    BY <2>1, <2>2
  <2>3. CASE \E status \in {"generation_error", "guard_rejected", "timeout"},
                workerError \in BOOLEAN :
               /\ result' = Gen!Result(status, workerError)
               /\ status = "timeout" => workerError
               /\ generation[Gen!Seed] # "prepared" /\ seedPhase' = "record"
    BY <2>1, <2>3 DEF Gen!Result, Gen!Statuses, Gen!Eligible, Gen!MontyFailures
  <2>4. QED
    <3>1. CASE generation[Gen!Seed] = "prepared"
      BY <2>2, <3>1 DEF Gen!Generate
    <3>2. CASE generation[Gen!Seed] \in {"generation_error", "guard_rejected"}
      BY <2>3, <3>2 DEF Gen!Generate
    <3>3. CASE generation[Gen!Seed] = "worker_error"
      BY <2>3, <3>3 DEF Gen!Generate
    <3>4. CASE generation[Gen!Seed] = "worker_timeout"
      BY <2>3, <3>4 DEF Gen!Generate
    <3>5. QED
      BY <3>1, <3>2, <3>3, <3>4 DEF Gen!Generate
<1>2. /\ generation' = generation /\ seedBehaviour' = seedBehaviour
      /\ Gen!Seed' = Gen!Seed /\ Gen!SomeMontyFailed' = Gen!SomeMontyFailed
      /\ Gen!EligibleDone' = Gen!EligibleDone
  BY <1>1, NothingRecorded
<1>3. Gen!PhaseInv'
  BY <1>1, <1>2
  DEF Gen!PhaseInv, Gen!ResultIsOwn, Gen!Seeds, Gen!Result, Gen!MontyFailures
<1>4. Gen!MontyInv'
  BY <1>1, <1>2 DEF Gen!IInv, Gen!MontyInv, Gen!JudgesHaveALiveWorker
<1>5. Gen!MinimizedInv'
  BY <1>1, <1>2 DEF Gen!IInv, Gen!MinimizedInv, Gen!Eligible
<1>6. QED
  BY <1>1, <1>3, <1>4, <1>5, GeneratedGoesOn DEF Gen!Phases

(* What becomes of a status Monty gave.                                    *)
LEMMA ClassifyKeeps ==
  ASSUME Gen!IInv, seedPhase = "run", NEW status \in Gen!Statuses, Gen!Classify(status),
         seedMonty' \in {"live", "dead"},
         Gen!Eligible(status) => seedMonty' = "live" /\ seedBehaviour[Gen!Seed] \in Gen!Answers,
         \/ Gen!SomeMontyFailed
         \/ /\ status = "crash" <=> seedBehaviour[Gen!Seed] = "crashes"
            /\ status = "timeout" <=> seedBehaviour[Gen!Seed] = "hangs",
         seedMonty' = "dead" => Gen!SomeMontyFailed \/ status \in {"crash", "timeout"}
  PROVE  Gen!IInv'
<1>1. /\ UNCHANGED <<generation, seedBehaviour, python, seedResults, minimized>>
      /\ result' = Gen!Result(status, FALSE)
      /\ seedPhase' = IF Minimize /\ Gen!Eligible(status) THEN "minimize" ELSE "record"
  BY DEF Gen!Classify, Gen!rigid
<1>2. /\ generation' = generation /\ seedBehaviour' = seedBehaviour
      /\ Gen!Seed' = Gen!Seed /\ Gen!SomeMontyFailed' = Gen!SomeMontyFailed
      /\ Gen!EligibleDone' = Gen!EligibleDone
  BY <1>1, NothingRecorded
<1>3. /\ result' \in [status: Gen!Statuses, workerError: BOOLEAN]
      /\ result'.status = status /\ result'.workerError = FALSE
  BY <1>1 DEF Gen!Result
<1>4. generation[Gen!Seed] = "prepared" /\ Gen!Seed \in Gen!Seeds
  BY DEF Gen!IInv, Gen!PhaseInv
<1>5. \A other : (result' = Gen!Result(other, FALSE)) <=> (status = other)
  BY <1>1 DEF Gen!Result
<1>6. Gen!SomeMontyFailed' \/ Gen!ResultIsOwn'
  BY <1>2, <1>4, <1>5 DEF Gen!ResultIsOwn, Gen!Result
<1>7. Gen!PhaseInv'
  BY <1>1, <1>2, <1>3, <1>4, <1>6
  DEF Gen!PhaseInv, Gen!Seeds, Gen!Eligible
<1>8. Gen!MontyInv'
  BY <1>1, <1>2 DEF Gen!MontyInv, Gen!JudgesHaveALiveWorker, Gen!Result, Gen!MontyFailures
<1>9. Gen!MinimizedInv'
  BY <1>1, <1>2, <1>3 DEF Gen!IInv, Gen!MinimizedInv, Gen!Eligible
<1>10. QED
  BY <1>1, <1>3, <1>7, <1>8, <1>9, GeneratedGoesOn
  DEF Gen!Phases, Gen!IInv, Gen!TypeOK

(* A step of a minimization that goes on, or ends with the failure         *)
(* minimized.                                                              *)
LEMMA MinimizationKeeps ==
  ASSUME Gen!IInv, seedPhase \in {"minimize", "judge"},
         UNCHANGED <<generation, seedBehaviour, python, seedMonty, result, seedResults>>,
         \/ seedPhase' \in {"minimize", "judge"} /\ minimized' = minimized
         \/ seedPhase' = "record" /\ minimized' = minimized \cup {Gen!Seed}
  PROVE  Gen!IInv'
<1>1. /\ generation' = generation /\ seedBehaviour' = seedBehaviour
      /\ Gen!Seed' = Gen!Seed /\ Gen!SomeMontyFailed' = Gen!SomeMontyFailed
      /\ Gen!EligibleDone' = Gen!EligibleDone
  BY NothingRecorded
<1>2. Gen!PhaseInv'
  BY <1>1
  DEF Gen!IInv, Gen!PhaseInv, Gen!ResultIsOwn, Gen!Seeds, Gen!Eligible
<1>3. Gen!MontyInv'
  BY <1>1 DEF Gen!IInv, Gen!MontyInv, Gen!JudgesHaveALiveWorker
<1>4. Gen!MinimizedInv'
  BY <1>1
  DEF Gen!IInv, Gen!MinimizedInv, Gen!PhaseInv, Gen!Eligible
<1>5. QED
  BY <1>2, <1>3, <1>4, GeneratedGoesOn
  DEF Gen!Phases, Gen!IInv, Gen!TypeOK, Gen!CorpusInv

LEMMA RecordKeeps ==
  ASSUME Gen!IInv, Gen!RecordResult
  PROVE  Gen!IInv'
<1>0. PICK n \in Nat : n = Gen!Seed
  BY SeedKnown
<1>1. /\ UNCHANGED <<generation, seedBehaviour, python, seedMonty, result, checks, minimized>>
      /\ seedPhase = "record" /\ seedResults' = Append(seedResults, result)
      /\ seedPhase' = IF result.workerError THEN "done" ELSE "generate"
  BY DEF Gen!RecordResult, Gen!EndsCorpus, Gen!rigid
<1>2. /\ result \in [status: Gen!Statuses, workerError: BOOLEAN]
      /\ seedResults \in Seq([status: Gen!Statuses, workerError: BOOLEAN])
      /\ {python, seedMonty} \subseteq {"live", "dead"}
      /\ n \in Gen!Seeds /\ n \in Nat /\ n <= SeedCount
      /\ Gen!SomeMontyFailed \/ Gen!ResultIsOwn
      /\ seedMonty = "dead" => Gen!SomeMontyFailed
                              \/ result \in Gen!MontyFailures
  <2>1. n \in Gen!Seeds /\ (Gen!SomeMontyFailed \/ Gen!ResultIsOwn)
    BY <1>0, <1>1 DEF Gen!IInv, Gen!PhaseInv
  <2>2. n <= SeedCount
    BY <2>1, DiscoveryAssumption DEF Gen!Seeds
  <2>3. QED
    BY <1>0, <1>1, <2>1, <2>2 DEF Gen!IInv, Gen!TypeOK, Gen!MontyInv
<1>3. /\ seedResults' \in Seq([status: Gen!Statuses, workerError: BOOLEAN])
      /\ Len(seedResults') = n /\ Len(seedResults) = n - 1
      /\ \A s \in Gen!Done : seedResults'[s] = seedResults[s]
      /\ seedResults'[n] = result
  BY <1>0, <1>1, <1>2, AppendProperties, SeedKnown DEF Gen!Done, Gen!Seed
<1>4. /\ Gen!Done' = 1..n /\ Gen!Done = 1..n-1
      /\ Gen!Done' = Gen!Done \cup {n} /\ n \notin Gen!Done
  BY <1>2, <1>3 DEF Gen!Done
<1>5. /\ \A s \in Gen!Done : Gen!MontyFailed(s)' = Gen!MontyFailed(s) /\ Gen!Own(s)' = Gen!Own(s)
      /\ Gen!MontyFailed(n)' = (result \in Gen!MontyFailures)
      /\ Gen!Own(n)' = Gen!ResultIsOwn
  <2>1. \A s \in Gen!Done : Gen!MontyFailed(s)' = Gen!MontyFailed(s)
    BY <1>1, <1>3 DEF Gen!MontyFailed
  <2>2. \A s \in Gen!Done : Gen!Own(s)' = Gen!Own(s)
    BY <1>1, <1>3 DEF Gen!Own, Gen!Recorded, Gen!Result
  <2>3. Gen!Own(n)' = Gen!ResultIsOwn
    BY <1>0, <1>1, <1>3
    DEF Gen!Own, Gen!Recorded, Gen!ResultIsOwn, Gen!Result
  <2>4. Gen!MontyFailed(n)' = (result \in Gen!MontyFailures)
    BY <1>3 DEF Gen!MontyFailed
  <2>5. QED
    BY <2>1, <2>2, <2>3, <2>4
<1>6. Gen!SomeMontyFailed' = (Gen!SomeMontyFailed \/ Gen!MontyFailed(n)')
  BY <1>4, <1>5 DEF Gen!SomeMontyFailed
<1>7. Gen!TypeOK' /\ Gen!PhaseInv'
  BY <1>1, <1>2, <1>3
  DEF Gen!IInv, Gen!TypeOK, Gen!Phases, Gen!PhaseInv
<1>8. Gen!MontyInv'
  BY <1>1, <1>2, <1>5, <1>6 DEF Gen!MontyInv, Gen!JudgesHaveALiveWorker
<1>9. Gen!MinimizedInv'
  <2>1. Gen!EligibleDone' = Gen!EligibleDone \cup {s \in {n} : Gen!Eligible(result.status)}
    BY <1>3, <1>4 DEF Gen!EligibleDone, Gen!Eligible
  <2>2. QED
    BY <1>0, <1>1, <2>1 DEF Gen!IInv, Gen!MinimizedInv, Gen!Eligible
<1>10. Gen!CorpusInv'
  <2>1. \A s \in Gen!Done : ~seedResults[s].workerError
    BY <1>1 DEF Gen!IInv, Gen!CorpusInv
  <2>2. QED
    BY <1>1, <1>2, <1>3, <1>4, <2>1 DEF Gen!CorpusInv
<1>11. Gen!OwnUntilMontyDies'
  <2> SUFFICES ASSUME NEW s \in 1..n, \A r \in 1..s-1 : ~Gen!MontyFailed(r)'
               PROVE  Gen!Own(s)'
    BY <1>4 DEF Gen!OwnUntilMontyDies
  <2>1. CASE s = n
    BY <1>2, <1>4, <1>5, <2>1 DEF Gen!SomeMontyFailed
  <2>2. CASE s # n
    <3>1. s \in Gen!Done /\ 1..s-1 \subseteq Gen!Done
      BY <1>2, <1>4, <2>2
    <3>2. QED
      BY <1>5, <3>1 DEF Gen!IInv, Gen!OwnUntilMontyDies
  <2>3. QED BY <2>1, <2>2
<1>12. Gen!ShortOnlyAfterWorkerError'
  <2>1. seedResults' # <<>>
    BY <1>1, <1>2, AppendProperties
  <2>2. QED
    BY <1>1, <1>3, <1>10, <2>1
    DEF Gen!ShortOnlyAfterWorkerError, Gen!CorpusInv
<1>13. QED
  BY <1>7, <1>8, <1>9, <1>10, <1>11, <1>12 DEF Gen!IInv

LEMMA GeneratedStepKeeps ==
  ASSUME Gen!IInv, Gen!Next
  PROVE  Gen!IInv'
<1>0. /\ {python, seedMonty} \subseteq {"live", "dead"} /\ Gen!MontyInv
      /\ Gen!SomeMontyFailed \/ seedMonty = "live" \/ seedPhase \notin {"generate", "run"}
  BY DEF Gen!IInv, Gen!TypeOK, Gen!MontyInv
<1>1. CASE Gen!Start
  <2>1. CASE seedPhase' = "generate"
    <3>1. Gen!PhaseInv' /\ Gen!MontyInv'
      BY <1>1, <2>1
      DEF Gen!Start, Gen!Abort, Gen!PhaseInv, Gen!MontyInv, Gen!JudgesHaveALiveWorker
    <3>2. Gen!MinimizedInv'
      BY <1>1, <2>1, NothingRecorded
      DEF Gen!Start, Gen!Abort, Gen!rigid, Gen!IInv, Gen!MinimizedInv
    <3>3. QED
      BY <1>1, <2>1, <3>1, <3>2, GeneratedGoesOn

      DEF Gen!Start, Gen!Abort, Gen!rigid, Gen!IInv, Gen!TypeOK, Gen!Phases
  <2>2. CASE Gen!Abort /\ UNCHANGED python
    BY <1>0, <1>1, <2>2, GeneratedAborts
    DEF Gen!Start, Gen!Abort, Gen!rigid
  <2>3. QED BY <1>1, <2>1, <2>2 DEF Gen!Start
<1>2. CASE Gen!Generate
  BY <1>2, GenerateKeeps
<1>3. CASE Gen!RunAnswered \/ Gen!RunFailed
  <2>1. /\ seedPhase = "run" /\ seedBehaviour[Gen!Seed] \in Gen!Behaviours
        /\ Gen!SomeMontyFailed \/ seedMonty = "live"
    BY <1>0, <1>3, SeedKnown
    DEF Gen!RunAnswered, Gen!RunFailed, Gen!IInv, Gen!PhaseInv
  <2>2. CASE Gen!RunAnswered
    <3>1. /\ seedMonty = "live" /\ seedMonty' = "live"
          /\ seedBehaviour[Gen!Seed] \in Gen!Answers
          /\ Gen!Classify(Gen!AnswerStatus(seedBehaviour[Gen!Seed]))
      BY <2>2 DEF Gen!RunAnswered
    <3>2. /\ Gen!AnswerStatus(seedBehaviour[Gen!Seed]) \in Gen!Statuses \ {"crash", "timeout"}
          /\ seedBehaviour[Gen!Seed] \notin {"crashes", "hangs"}
      BY <3>1 DEF Gen!AnswerStatus, Gen!Answers, Gen!Statuses
    <3>3. QED
      BY <2>1, <3>1, <3>2, ClassifyKeeps
  <2>3. CASE seedMonty = "dead" /\ Gen!RunFailed
    <3>1. Gen!Classify("crash") /\ seedMonty' = "dead" /\ Gen!SomeMontyFailed
      BY <2>1, <2>3 DEF Gen!RunFailed
    <3>2. "crash" \in Gen!Statuses /\ ~Gen!Eligible("crash")
      BY DEF Gen!Statuses, Gen!Eligible
    <3>3. QED
      BY <2>1, <3>1, <3>2, ClassifyKeeps
  <2>4. CASE seedMonty = "live" /\ Gen!RunFailed
    <3>1. /\ Gen!Classify(Gen!ErrorStatus[seedBehaviour[Gen!Seed]]) /\ seedMonty' = "dead"
          /\ seedBehaviour[Gen!Seed] \in {"crashes", "hangs"}
      BY <2>4 DEF Gen!RunFailed, Gen!ErrorStatus
    <3>2. /\ Gen!ErrorStatus[seedBehaviour[Gen!Seed]] \in Gen!Statuses \cap {"crash", "timeout"}
          /\ ~Gen!Eligible(Gen!ErrorStatus[seedBehaviour[Gen!Seed]])
          /\ Gen!ErrorStatus[seedBehaviour[Gen!Seed]] = "crash" <=> seedBehaviour[Gen!Seed] = "crashes"
          /\ Gen!ErrorStatus[seedBehaviour[Gen!Seed]] = "timeout" <=> seedBehaviour[Gen!Seed] = "hangs"
      BY <3>1 DEF Gen!ErrorStatus, Gen!Eligible, Gen!Statuses
    <3>3. QED
      BY <2>1, <3>1, <3>2, ClassifyKeeps
  <2>5. QED BY <1>0, <1>3, <2>2, <2>3, <2>4
<1>4. CASE Gen!Offer \/ Gen!Judge \/ Gen!MinimizeAnswered
  BY <1>4, MinimizationKeeps
  DEF Gen!Offer, Gen!Judge, Gen!MinimizeAnswered, Gen!rigid
<1>5. CASE Gen!JudgeFails \/ Gen!MinimizeFails
  BY <1>0, <1>5, GeneratedAborts
  DEF Gen!JudgeFails, Gen!MinimizeFails, Gen!Abort, Gen!rigid
<1>6. CASE Gen!RecordResult
  BY <1>6, RecordKeeps
<1>7. CASE Gen!Report
  <2>1. /\ UNCHANGED <<generation, seedBehaviour, seedResults, python, seedMonty, result, minimized>>
        /\ seedPhase = "generate" /\ seedPhase' = "done" /\ Gen!Seed \notin Gen!Seeds
    BY <1>7 DEF Gen!Report, Gen!rigid
  <2>2. Len(seedResults) >= SeedCount
    BY <2>1, SeedKnown, DiscoveryAssumption DEF Gen!Seed, Gen!Seeds
  <2>3. Gen!PhaseInv' /\ Gen!MontyInv'
    BY <2>1, NothingRecorded
    DEF Gen!PhaseInv, Gen!MontyInv, Gen!JudgesHaveALiveWorker
  <2>4. Gen!MinimizedInv'
    BY <2>1, NothingRecorded DEF Gen!IInv, Gen!MinimizedInv
  <2>5. Gen!CorpusInv' /\ Gen!ShortOnlyAfterWorkerError'
    BY <2>1, <2>2, NothingRecorded, SeedKnown, DiscoveryAssumption
    DEF Gen!IInv, Gen!CorpusInv, Gen!ShortOnlyAfterWorkerError
  <2>6. Gen!TypeOK' /\ Gen!OwnUntilMontyDies'
    BY <2>1, NothingRecorded DEF Gen!IInv, Gen!TypeOK, Gen!Phases
  <2>7. QED BY <2>3, <2>4, <2>5, <2>6 DEF Gen!IInv
<1>8. QED
  BY <1>1, <1>2, <1>3, <1>4, <1>5, <1>6, <1>7 DEF Gen!Next

LEMMA GeneratedStutters ==
  ASSUME Gen!IInv, UNCHANGED generatedVars
  PROVE  Gen!IInv'
<1>1. /\ UNCHANGED <<generation, seedBehaviour, seedPhase, python, seedMonty, result,
                     seedResults, minimized>>
  BY DEF generatedVars
<1>2. Gen!TypeOK' /\ Gen!OwnUntilMontyDies' /\ Gen!ShortOnlyAfterWorkerError' /\ Gen!CorpusInv'
  BY <1>1, NothingRecorded
  DEF Gen!IInv, Gen!TypeOK, Gen!ShortOnlyAfterWorkerError, Gen!CorpusInv
<1>3. Gen!PhaseInv' /\ Gen!MontyInv' /\ Gen!MinimizedInv'
  BY <1>1, NothingRecorded


  DEF Gen!IInv, Gen!PhaseInv, Gen!ResultIsOwn, Gen!MontyInv, Gen!JudgesHaveALiveWorker,
      Gen!MinimizedInv
<1>4. QED BY <1>2, <1>3 DEF Gen!IInv

-------------------------------------------------------------------------------
(* MCDiscovery: the theorems of the two runs *)

PartsInv == Base!IInv /\ Gen!IInv

LEMMA PartsInductive == MCSpec => []PartsInv
<1>1. MCInit => PartsInv
  <2>1. BaselineIdle => Base!Init
    BY DEF BaselineIdle, Base!Init, Base!Probes, Base!OracleBehaviours, Base!Behaviours,
           Base!Answers
  <2>2. GeneratedIdle => Gen!Init
    BY DEF GeneratedIdle, Gen!Init, Gen!Seeds, Gen!Generations, Gen!Behaviours,
           Gen!Answers, Gen!Result
  <2>3. QED
    BY <2>1, <2>2, BaselineInitially, GeneratedInitially DEF MCInit, PartsInv
<1>2. PartsInv /\ [MCNext]_discoveryVars => PartsInv'
  <2> SUFFICES ASSUME PartsInv, [MCNext]_discoveryVars PROVE PartsInv'
    OBVIOUS
  <2>1. CASE BaselineStep
    BY <2>1, BaselineStepKeeps, GeneratedStutters DEF PartsInv, BaselineStep
  <2>2. CASE GeneratedStep
    BY <2>2, GeneratedStepKeeps, BaselineStutters DEF PartsInv, GeneratedStep
  <2>3. CASE PipelineStep \/ UNCHANGED discoveryVars
    BY <2>3, BaselineStutters, GeneratedStutters DEF PartsInv, PipelineStep, discoveryVars
  <2>4. QED BY <2>1, <2>2, <2>3 DEF MCNext
<1>3. QED
  BY <1>1, <1>2, PTL DEF MCSpec

(* lib.rs, run_baseline_probes: for a catalog of any length and whatever   *)
(* each probe does to the workers, a crash or timeout is recorded for the  *)
(* probe that caused it and for no other, and a report has the status of   *)
(* every probe.                                                            *)
THEOREM BaselineReports == MCSpec => []BaselineReportIsSound
<1>1. PartsInv => BaselineReportIsSound
  BY BaselineSound DEF PartsInv
<1>2. QED
  BY <1>1, PartsInductive, PTL

(* lib.rs, run_generated_internal: for any number of seeds, up to the      *)
(* first seed that breaks Monty a crash or timeout is the seed's own, and  *)
(* only a failure of the Python worker cuts a report off, as its last      *)
(* result.                                                                 *)
THEOREM GeneratedReports == MCSpec => []GeneratedReportIsSound
<1>1. PartsInv => GeneratedReportIsSound
  BY DEF PartsInv, Gen!IInv, GeneratedReportIsSound
<1>2. QED
  BY <1>1, PartsInductive, PTL

(* The same: every candidate is judged by a live Monty worker, and a       *)
(* finished report has a minimization of each failure that is eligible and *)
(* of no other.                                                            *)
THEOREM Minimizations == MCSpec => []MinimizationsAreSound
<1>1. ASSUME Gen!IInv, seedPhase = "done", Minimize
      PROVE  minimized = {s \in Gen!Done :
                 seedResults[s].status \in {"unsupported_parse", "unsupported_type_check",
                                            "unsupported_runtime"}}
  BY <1>1
  DEF Gen!IInv, Gen!MinimizedInv, Gen!EligibleDone, Gen!Eligible
<1>2. PartsInv => MinimizationsAreSound
  BY <1>1
  DEF PartsInv, Gen!IInv, Gen!MontyInv, MinimizationsAreSound, Gen!EligibleAreAttempted
<1>3. QED
  BY <1>2, PartsInductive, PTL
===============================================================================
