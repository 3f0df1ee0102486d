----------------------------- MODULE PolicyStore -----------------------------
(***************************************************************************)
(* The files of one output directory: the policy directory, rewritten in   *)
(* place when a run ends (write_checkpoint), and the periodic checkpoint   *)
(* generations (write_periodic_checkpoint), each built in a hidden pending *)
(* directory and renamed.  Every file operation is a step; after any step  *)
(* the process may be killed, and any step may fail with an I/O error.     *)
(*                                                                         *)
(* File contents are abstracted to the snapshot they come from.  A single  *)
(* .bin file appears atomically (write_bytes_atomic: temporary sibling,    *)
(* flush, rename); the temporary has another extension, so neither the     *)
(* reader nor the sweep of stale files looks at it.  Loss of flushed data  *)
(* by the operating system is not modelled.                                *)
(***************************************************************************)
EXTENDS Integers, FiniteSets

CONSTANTS
    CutFiles, BasisFiles, StateFiles,   \* cuts/*.bin, basis/*.bin, states/*.bin
    MaxIterations,     \* loop_config.max_iterations
    Initial,           \* checkpointing.initial_iteration, at least 1
    Interval,          \* checkpointing.interval_iterations, at least 1
    Enabled,           \* checkpointing.enabled
    StoreBasis,        \* checkpointing.store_basis
    MaxRuns            \* bound: runs started in this output directory

Files == CutFiles \cup BasisFiles \cup StateFiles

ASSUME FilesAssumption ==
    /\ CutFiles # {}
    /\ CutFiles \cap BasisFiles = {}
    /\ CutFiles \cap StateFiles = {}
    /\ BasisFiles \cap StateFiles = {}
ASSUME ScheduleAssumption ==
    /\ MaxIterations \in Nat
    /\ Initial \in Nat \ {0}
    /\ Interval \in Nat \ {0}
    /\ {Enabled, StoreBasis} \subseteq BOOLEAN
    /\ MaxRuns \in Nat

Iterations == 1 .. MaxIterations

\* Iteration -1 marks the absence of a snapshot.
NoSnapshot == [run |-> 0, iter |-> -1, payload |-> {}]
Snapshots == [run : 1 .. MaxRuns, iter : 0 .. MaxIterations, payload : SUBSET Files]

\* The directories that hold an artifact.
Policy == <<"policy", 0>>
Pending(i) == <<"pending", i>>
Generation(i) == <<"generation", i>>
Dirs == {Policy} \cup {Pending(i) : i \in Iterations} \cup {Generation(i) : i \in Iterations}

VARIABLES
    exists,     \* directories that exist
    files,      \* files[d][f]: the snapshot f was written from
    manifest,   \* manifest[d]: the snapshot of manifest.bin
    json,       \* json[d]: checkpoint.json is "absent", "partial" or "whole"
    run,        \* number of the current run
    iter,       \* completed iterations of the run
    pc,         \* where the run is
    target,     \* directory being written
    snap        \* snapshot being written

disk == <<exists, files, manifest, json>>
vars == <<disk, run, iter, pc, target, snap>>

NoFiles == [f \in Files |-> NoSnapshot]

----------------------------------------------------------------------------
(* Reading *)

\* read_policy_checkpoint: manifest.bin first, then every .bin file there is.
Readable(d) == manifest[d] # NoSnapshot

\* The files of d are those of its manifest's snapshot, and no others.
Complete(d) ==
    \A f \in Files :
        files[d][f] = IF f \in manifest[d].payload THEN manifest[d] ELSE NoSnapshot

----------------------------------------------------------------------------
(* The order of files *)

\* cuts/ is swept and written before basis/, basis/ before states/.
Kind(f) == IF f \in CutFiles THEN 1 ELSE IF f \in BasisFiles THEN 2 ELSE 3

\* The first iterations of write_periodic_checkpoint's schedule.
Due(i) == Enabled /\ i >= Initial /\ (i - Initial) % Interval = 0

\* The files a snapshot may consist of: some pools; bases unless the run failed or
\* does not store them; states when they are exported.
FinalPayloads == {p \in SUBSET Files : p \cap CutFiles # {}}
PeriodicPayloads ==
    {p \in SUBSET (CutFiles \cup (IF StoreBasis THEN BasisFiles ELSE {})) :
        p \cap CutFiles # {}}

----------------------------------------------------------------------------
Init ==
    /\ exists = {}
    /\ files = [d \in Dirs |-> NoFiles]
    /\ manifest = [d \in Dirs |-> NoSnapshot]
    /\ json = [d \in Dirs |-> "absent"]
    /\ run = 0 /\ iter = 0
    /\ pc = "down"
    /\ target = Policy
    /\ snap = NoSnapshot

\* A new run: fresh or warm-started from iteration 0, or resumed from the policy.
Start ==
    /\ pc = "down"
    /\ run < MaxRuns
    /\ run' = run + 1
    /\ \/ iter' = 0
       \/ Readable(Policy) /\ iter' = manifest[Policy].iter
    /\ pc' = "training"
    /\ UNCHANGED <<disk, target, snap>>

\* A training iteration completes; the checkpoint callback follows if it is due.
Iterate ==
    /\ pc = "training"
    /\ iter < MaxIterations
    /\ iter' = iter + 1
    /\ pc' = IF Due(iter') THEN "periodic" ELSE "training"
    /\ UNCHANGED <<disk, run, target, snap>>

\* Mutant: an existing generation is overwritten.
BeginPeriodicOverwrite ==
    /\ pc = "periodic"
    /\ pc' = IF Pending(iter) \in exists THEN "clear" ELSE "create"
    /\ UNCHANGED <<disk, run, iter, target, snap>>

\* write_periodic_checkpoint leaves a generation that exists alone; it empties a
\* pending directory an earlier run left behind.
BeginPeriodic ==
    /\ pc = "periodic"
    /\ pc' = CASE Generation(iter) \in exists -> "training"
               [] Generation(iter) \notin exists /\ Pending(iter) \in exists -> "clear"
               [] OTHER -> "create"
    /\ UNCHANGED <<disk, run, iter, target, snap>>

\* remove_dir_all, entry by entry in any order, then the directory.
ClearPending ==
    LET d == Pending(iter)
    IN  /\ pc = "clear"
        /\ \/ /\ \E f \in Files :
                    /\ files[d][f] # NoSnapshot
                    /\ files' = [files EXCEPT ![d][f] = NoSnapshot]
              /\ UNCHANGED <<exists, manifest, json, pc>>
           \/ /\ Readable(d)
              /\ manifest' = [manifest EXCEPT ![d] = NoSnapshot]
              /\ UNCHANGED <<exists, files, json, pc>>
           \/ /\ json[d] # "absent"
              /\ json' = [json EXCEPT ![d] = "absent"]
              /\ UNCHANGED <<exists, files, manifest, pc>>
           \/ /\ files[d] = NoFiles /\ ~Readable(d) /\ json[d] = "absent"
              /\ exists' = exists \ {d}
              /\ pc' = "create"
              /\ UNCHANGED <<files, manifest, json>>
        /\ UNCHANGED <<run, iter, target, snap>>

CreatePending ==
    /\ pc = "create"
    /\ exists' = exists \cup {Pending(iter)}
    /\ target' = Pending(iter)
    /\ \E p \in PeriodicPayloads : snap' = [run |-> run, iter |-> iter, payload |-> p]
    /\ pc' = "withdraw"
    /\ UNCHANGED <<files, manifest, json, run, iter>>

\* Training is over, converged or failed, and write_training_outputs saves the policy.
EndTraining ==
    /\ pc \in {"training", "failed"}
    /\ target' = Policy
    /\ exists' = exists \cup {Policy}
    /\ \E p \in FinalPayloads :
          /\ pc = "failed" => p \cap BasisFiles = {}
          /\ snap' = [run |-> run, iter |-> iter, payload |-> p]
    /\ pc' = "withdraw"
    /\ UNCHANGED <<files, manifest, json, run, iter>>

----------------------------------------------------------------------------
(* write_policy_checkpoint on target *)

\* Mutant: the old manifest stays until the new one replaces it.
WithdrawManifestKept ==
    /\ pc = "withdraw"
    /\ pc' = "sweep"
    /\ UNCHANGED <<disk, run, iter, target, snap>>

\* The manifest of the previous artifact goes first.
WithdrawManifest ==
    /\ pc = "withdraw"
    /\ manifest' = [manifest EXCEPT ![target] = NoSnapshot]
    /\ pc' = "sweep"
    /\ UNCHANGED <<exists, files, json, run, iter, target, snap>>

\* Mutant: stale files are left where they are.
SweepNothing ==
    /\ pc = "sweep"
    /\ pc' = "put"
    /\ UNCHANGED <<disk, run, iter, target, snap>>

\* remove_bin_files, one stale file at a time.
Sweep ==
    /\ pc = "sweep"
    /\ \/ /\ \E f \in Files :
                /\ files[target][f] # NoSnapshot
                /\ \A g \in Files : Kind(g) < Kind(f) => files[target][g] = NoSnapshot
                /\ files' = [files EXCEPT ![target][f] = NoSnapshot]
          /\ UNCHANGED pc
       \/ /\ files[target] = NoFiles
          /\ pc' = "put"
          /\ UNCHANGED files
    /\ UNCHANGED <<exists, manifest, json, run, iter, target, snap>>

\* write_bytes_atomic of the payload files.
PutFile ==
    /\ pc = "put"
    /\ \E f \in snap.payload :
          /\ files[target][f] = NoSnapshot
          /\ \A g \in snap.payload : Kind(g) < Kind(f) => files[target][g] = snap
          /\ files' = [files EXCEPT ![target][f] = snap]
    /\ UNCHANGED <<exists, manifest, json, run, iter, pc, target, snap>>

\* Mutant: the manifest is written as soon as the cut files are there.
CommitEarly ==
    /\ pc = "put"
    /\ \A f \in snap.payload \cap CutFiles : files[target][f] = snap
    /\ manifest' = [manifest EXCEPT ![target] = snap]
    /\ pc' = IF target = Policy THEN "down" ELSE "json"
    /\ UNCHANGED <<exists, files, json, run, iter, target, snap>>

\* manifest.bin last.
Commit ==
    /\ pc = "put"
    /\ \A f \in snap.payload : files[target][f] = snap
    /\ manifest' = [manifest EXCEPT ![target] = snap]
    /\ pc' = IF target = Policy THEN "down" ELSE "json"
    /\ UNCHANGED <<exists, files, json, run, iter, target, snap>>

\* checkpoint.json is written in place, so it can be cut short.
WriteJson ==
    /\ pc = "json"
    /\ json[target] # "whole"
    /\ json' = [json EXCEPT ![target] = IF @ = "absent" THEN "partial" ELSE "whole"]
    /\ UNCHANGED <<exists, files, manifest, run, iter, pc, target, snap>>

\* Mutant: the directory is renamed before checkpoint.json is whole.
PublishEarly ==
    LET d == Generation(iter)
    IN  /\ pc = "json"
        /\ exists' = (exists \ {target}) \cup {d}
        /\ files' = [files EXCEPT ![d] = files[target], ![target] = NoFiles]
        /\ manifest' = [manifest EXCEPT ![d] = manifest[target], ![target] = NoSnapshot]
        /\ json' = [json EXCEPT ![d] = json[target], ![target] = "absent"]
        /\ pc' = "training"
        /\ UNCHANGED <<run, iter, target, snap>>

\* The pending directory is renamed to its generation.
PublishGeneration ==
    LET d == Generation(iter)
    IN  /\ pc = "json"
        /\ json[target] = "whole"
        /\ exists' = (exists \ {target}) \cup {d}
        /\ files' = [files EXCEPT ![d] = files[target], ![target] = NoFiles]
        /\ manifest' = [manifest EXCEPT ![d] = manifest[target], ![target] = NoSnapshot]
        /\ json' = [json EXCEPT ![d] = json[target], ![target] = "absent"]
        /\ pc' = "training"
        /\ UNCHANGED <<run, iter, target, snap>>

\* A step fails: a periodic checkpoint ends training with an error, which still
\* saves the policy; a failed save of the policy ends the run.
IoError ==
    /\ pc \in {"periodic", "clear", "create", "withdraw", "sweep", "put", "json"}
    /\ pc' = IF pc \in {"withdraw", "sweep", "put"} /\ target = Policy
             THEN "down" ELSE "failed"
    /\ UNCHANGED <<disk, run, iter, target, snap>>

\* The process is killed.
Crash ==
    /\ pc # "down"
    /\ pc' = "down"
    /\ UNCHANGED <<disk, run, iter, target, snap>>

\* No run is left to start.
Idle == pc = "down" /\ run = MaxRuns /\ UNCHANGED vars

Next == Start \/ Iterate \/ BeginPeriodic \/ ClearPending \/ CreatePending \/ EndTraining
        \/ WithdrawManifest \/ Sweep \/ PutFile \/ Commit \/ WriteJson
        \/ PublishGeneration \/ IoError \/ Crash \/ Idle

Spec == Init /\ [][Next]_vars

----------------------------------------------------------------------------
(* Properties *)

\* Every variable has its type.
TypeOK ==
    /\ exists \subseteq Dirs
    /\ files \in [Dirs -> [Files -> Snapshots \cup {NoSnapshot}]]
    /\ manifest \in [Dirs -> Snapshots \cup {NoSnapshot}]
    /\ json \in [Dirs -> {"absent", "partial", "whole"}]
    /\ run \in 0 .. MaxRuns
    /\ iter \in 0 .. MaxIterations
    /\ pc \in {"down", "training", "periodic", "clear", "create", "withdraw", "sweep",
               "put", "json", "failed"}
    /\ target \in Dirs
    /\ snap \in Snapshots \cup {NoSnapshot}

\* "manifest.bin is written last so its presence is the commit signal": whatever was
\* interrupted and whatever the directory held before, an artifact with a manifest
\* consists of exactly the files of that manifest's snapshot.
ReadableIsComplete ==
    \A d \in {Policy} \cup {Generation(i) : i \in Iterations} : Readable(d) => Complete(d)

\* A generation directory is never seen half built: if it exists it has a manifest
\* of its iteration and its checkpoint.json is whole.
GenerationWhole ==
    \A i \in Iterations : Generation(i) \in exists =>
        /\ Readable(Generation(i))
        /\ manifest[Generation(i)].iter = i
        /\ json[Generation(i)] = "whole"

\* No later run changes a published generation.
GenerationImmutable ==
    [][\A i \in Iterations : Generation(i) \in exists =>
          /\ Generation(i) \in exists'
          /\ files'[Generation(i)] = files[Generation(i)]
          /\ manifest'[Generation(i)] = manifest[Generation(i)]]_vars

\* What a reader makes of a directory; a torn artifact is none a run ever saved.
Torn == [run |-> 0, iter |-> -2, payload |-> {}]
Seen(d) == IF ~Readable(d) THEN NoSnapshot ELSE IF Complete(d) THEN manifest[d] ELSE Torn

Artifact == INSTANCE PolicyArtifact WITH
    Generations <- Iterations,
    policy <- Seen(Policy),
    generation <- [i \in Iterations |-> Seen(Generation(i))]

\* The files implement the artifact a reader relies on.
ImplementsArtifact == Artifact!Spec

=============================================================================
