--------------------------- MODULE ReleasePipeline -----------------------------
(***************************************************************************)
(* crates/monty-discover/src/main.rs: runs of monty-discover that write    *)
(* their report to the same path.  A release pipeline resolves a release,  *)
(* refuses one other than the linked Monty, probes, and then write_atomic  *)
(* creates a temporary file named after its process id, writes and syncs   *)
(* it and renames it over the path.  A run may be killed at any step and   *)
(* the machine may lose power: what was not synced may then be lost.       *)
(*                                                                         *)
(* Process ids may repeat, over time and between containers that share the *)
(* directory.  One whole probing phase is one step: GeneratedDiscovery and *)
(* BaselineDiscovery model it.                                             *)
(***************************************************************************)
EXTENDS FiniteSets

CONSTANTS
    Runs,      (* the runs of the program                                 *)
    Pids,      (* process ids                                             *)
    Versions,  (* the Monty versions a release may resolve to             *)
    Linked,    (* LINKED_MONTY_VERSION                                    *)
    NoFile

ASSUME PipelineAssumption == Linked \in Versions /\ "none" \notin Versions

VARIABLES
    pid,       (* the process id of each run                              *)
    requested, (* the version its --release resolves to, or "none"        *)
    phase,     (* where it is                                             *)
    temp,      (* the temporary file of each process id, or NoFile        *)
    target,    (* the file at the output path, or NoFile                  *)
    durable    (* the file a power loss may bring back at that path       *)

vars == <<pid, requested, phase, temp, target, durable>>

Phases == {"start", "probing", "create", "write", "sync", "rename", "cleanup",
           "done", "failed", "killed"}
File == [by: Runs, version: Versions, data: {"partial", "complete"}, synced: BOOLEAN]

ASSUME NoFileAssumption == NoFile \notin File

TypeOK ==
    /\ pid \in [Runs -> Pids]
    /\ requested \in [Runs -> Versions \cup {"none"}]
    /\ phase \in [Runs -> Phases]
    /\ temp \in [Pids -> File \cup {NoFile}]
    /\ {target, durable} \subseteq File \cup {NoFile}

Init ==
    /\ pid \in [Runs -> Pids]
    /\ requested \in [Runs -> Versions \cup {"none"}]
    /\ phase = [r \in Runs |-> "start"]
    /\ temp = [p \in Pids |-> NoFile]
    /\ target = NoFile /\ durable = NoFile

Step(r, from, to) == phase[r] = from /\ phase' = [phase EXCEPT ![r] = to]
Fail(r, from) ==
    Step(r, from, "failed") /\ UNCHANGED <<pid, requested, temp, target, durable>>

(* A release that cannot be resolved, or is not the linked one, is refused *)
(* before anything is probed.  Without --release there is nothing to check.*)
AcceptedAny(r) == TRUE
Accepted(r) == requested[r] \in {Linked, "none"}
Version(r) == IF requested[r] = "none" THEN Linked ELSE requested[r]

Resolve(r) ==
    \/ /\ Accepted(r) /\ Step(r, "start", "probing")
       /\ UNCHANGED <<pid, requested, temp, target, durable>>
    \/ Fail(r, "start")

Probe(r) ==
    \/ /\ Step(r, "probing", "create")
       /\ UNCHANGED <<pid, requested, temp, target, durable>>
    \/ Fail(r, "probing")

-------------------------------------------------------------------------------
(* write_atomic *)

CreateTruncate(r) == TRUE
CreateNew(r) == temp[pid[r]] = NoFile

Create(r) ==
    \/ /\ CreateNew(r) /\ Step(r, "create", "write")
       /\ temp' = [temp EXCEPT ![pid[r]] =
              [by |-> r, version |-> Version(r), data |-> "partial", synced |-> FALSE]]
       /\ UNCHANGED <<pid, requested, target, durable>>
    \/ Fail(r, "create")

(* An error of the write, the sync or the rename.                          *)
Err(r, from) == Step(r, from, "cleanup") /\ UNCHANGED <<pid, requested, temp, target, durable>>

(* A file that another run renamed or removed no longer has this name.     *)
Written(file) == IF file = NoFile THEN file ELSE [file EXCEPT !.data = "complete"]

WriteAll(r) ==
    \/ /\ Step(r, "write", "sync")
       /\ temp' = [temp EXCEPT ![pid[r]] = Written(@)]
       /\ UNCHANGED <<pid, requested, target, durable>>
    \/ Err(r, "write")

SyncedNever(file) == file
Synced(file) == IF file = NoFile THEN file ELSE [file EXCEPT !.synced = TRUE]

SyncAll(r) ==
    \/ /\ Step(r, "sync", "rename")
       /\ temp' = [temp EXCEPT ![pid[r]] = Synced(@)]
       /\ UNCHANGED <<pid, requested, target, durable>>
    \/ Err(r, "sync")

Rename(r) ==
    \/ /\ temp[pid[r]] # NoFile /\ Step(r, "rename", "done")
       /\ target' = temp[pid[r]]
       /\ temp' = [temp EXCEPT ![pid[r]] = NoFile]
       /\ UNCHANGED <<pid, requested, durable>>
    \/ Err(r, "rename")

(* The error of remove_file is ignored. *)
Cleanup(r) ==
    /\ Step(r, "cleanup", "failed")
    /\ temp' \in {temp, [temp EXCEPT ![pid[r]] = NoFile]}
    /\ UNCHANGED <<pid, requested, target, durable>>

-------------------------------------------------------------------------------
Running == {r \in Runs : phase[r] \notin {"start", "done", "failed", "killed"}}

Kill(r) ==
    /\ r \in Running
    /\ phase' = [phase EXCEPT ![r] = "killed"]
    /\ UNCHANGED <<pid, requested, temp, target, durable>>

(* External: the directory entry reaches the disk at a time of its own, as *)
(* write_atomic does not sync the directory.                               *)
Writeback ==
    /\ durable' = target /\ durable # target
    /\ UNCHANGED <<pid, requested, phase, temp, target>>

Survives(file) ==
    IF file = NoFile \/ file.synced THEN {file}
    ELSE {file, [file EXCEPT !.data = "partial"]}

PowerLoss ==
    /\ Running # {}
    /\ phase' = [r \in Runs |-> IF r \in Running THEN "killed" ELSE phase[r]]
    /\ target' \in Survives(target) \cup Survives(durable)
    /\ durable' = target'
    /\ \E lost \in SUBSET Pids :
         temp' = [p \in Pids |->
             IF p \in lost /\ temp[p] # NoFile /\ ~temp[p].synced
             THEN [temp[p] EXCEPT !.data = "partial"] ELSE temp[p]]
    /\ UNCHANGED <<pid, requested>>

Next ==
    \/ \E r \in Runs :
         \/ Resolve(r) \/ Probe(r) \/ Create(r) \/ WriteAll(r) \/ SyncAll(r)
         \/ Rename(r) \/ Cleanup(r) \/ Kill(r)
    \/ Writeback \/ PowerLoss

Spec == Init /\ [][Next]_vars

-------------------------------------------------------------------------------
(* Properties *)

(* Whoever reads the path at any time, also after a run was killed or the  *)
(* power was lost, finds no file or a complete one: never the torn file of *)
(* a writer, of two writers, or of an unfinished rename.                   *)
TargetIsWhole == target # NoFile => target.data = "complete"

(* A manifest is labelled with the version of the Monty that was probed,   *)
(* the one linked into the binary (docs/discovery.md: do not probe one     *)
(* release and label the result as another).                               *)
TargetIsLabelledAsProbed == target # NoFile => target.version = Linked

(* A run that fails leaves the path as it was: what is there was written   *)
(* by a run that succeeded, also when another run shared its process id or *)
(* left a temporary file behind.                                           *)
TargetIsOfASuccess == target # NoFile => phase[target.by] = "done"

(* Whoever reads the output path, and whenever, finds no file or the whole *)
(* one of a run that succeeded, labelled as probed.                        *)
OutputIsSound == TargetIsWhole /\ TargetIsLabelledAsProbed /\ TargetIsOfASuccess

(* An inductive invariant: a run between create and rename owns the file   *)
(* at its temporary path, and what is at the output path, or may come back *)
(* there, was renamed synced by a run that succeeded.                      *)
Owns(r) ==
    /\ temp[pid[r]] # NoFile
    /\ temp[pid[r]].by = r
    /\ temp[pid[r]].version = Linked
    /\ phase[r] \in {"sync", "rename"} => temp[pid[r]].data = "complete"
    /\ phase[r] = "rename" => temp[pid[r]].synced

Published(file) ==
    /\ file.data = "complete" /\ file.synced
    /\ file.version = Linked /\ phase[file.by] = "done"

RunInv(r) ==
    /\ phase[r] \in {"probing", "create"} => Version(r) = Linked
    /\ phase[r] \in {"write", "sync", "rename", "cleanup"} => Owns(r)
PathInv ==
    /\ target # NoFile => Published(target)
    /\ durable # NoFile => Published(durable)
IInv == TypeOK /\ PathInv /\ \A r \in Runs : RunInv(r)
===============================================================================
