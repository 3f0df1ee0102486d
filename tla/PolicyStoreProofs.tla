-------------------------- MODULE PolicyStoreProofs --------------------------
(***************************************************************************)
(* For every set of files, schedule and number of runs: whatever is killed *)
(* or fails between two file operations, a readable artifact is complete   *)
(* and a published generation never changes.                               *)
(***************************************************************************)
EXTENDS PolicyStore, TLAPS

Writing == {"withdraw", "sweep", "put"}

\* A generation that is about to be built does not exist yet.
Building == iter \in Iterations /\ Generation(iter) \notin exists

WriterInv ==
    /\ pc # "down" => run \in 1 .. MaxRuns
    /\ pc = "periodic" => iter \in Iterations
    /\ pc \in {"clear", "create"} => Building
    /\ pc \in Writing => target = Policy \/ (target = Pending(iter) /\ Building)
    /\ pc \in Writing \cup {"json"} => snap \in Snapshots /\ snap.iter = iter
    /\ pc \in {"sweep", "put"} => manifest[target] = NoSnapshot
    /\ pc = "put" => \A f \in Files :
          files[target][f] = NoSnapshot \/ (f \in snap.payload /\ files[target][f] = snap)
    /\ pc = "json" =>
          /\ target = Pending(iter) /\ Building
          /\ manifest[target] = snap
          /\ Complete(target)

\* The inductive invariant: an artifact being written has no manifest, one about to
\* be renamed is complete.
Inv == TypeOK /\ ReadableIsComplete /\ GenerationWhole /\ WriterInv

----------------------------------------------------------------------------
\* The directories are distinct.
LEMMA DirFacts ==
    /\ Policy \in Dirs
    /\ \A i \in Iterations :
          /\ Pending(i) \in Dirs /\ Generation(i) \in Dirs
          /\ Pending(i) # Policy /\ Generation(i) # Policy
          /\ \A j \in Iterations :
                /\ Pending(i) # Generation(j)
                /\ Generation(i) = Generation(j) => i = j
BY DEF Policy, Pending, Generation, Dirs

\* No run saves the absence of a snapshot.
LEMMA NoSnapshotFacts == NoSnapshot \notin Snapshots
BY ScheduleAssumption DEF NoSnapshot, Snapshots

FileTables == [Dirs -> [Files -> Snapshots \cup {NoSnapshot}]]

\* Writing or removing one file of one directory.
LEMMA FileUpdate ==
    ASSUME NEW table \in FileTables, NEW d \in Dirs, NEW f \in Files,
           NEW v \in Snapshots \cup {NoSnapshot}
    PROVE  [table EXCEPT ![d][f] = v] \in FileTables
BY DEF FileTables

LEMMA InitInv == Init => Inv
<1> SUFFICES ASSUME Init PROVE Inv
    OBVIOUS
<1> USE ScheduleAssumption, DirFacts DEF Init
<1>1. TypeOK
    BY DEF TypeOK, NoFiles
<1>2. \A d \in Dirs : ~Readable(d)
    BY DEF Readable
<1> QED
    BY <1>1, <1>2 DEF Inv, ReadableIsComplete, GenerationWhole, WriterInv, Writing

\* Type correctness is preserved by every step.
LEMMA TypeStep == Inv /\ [Next]_vars => TypeOK'
<1> SUFFICES ASSUME Inv, [Next]_vars PROVE TypeOK'
    OBVIOUS
<1> USE ScheduleAssumption, DirFacts DEF Inv, TypeOK
<1>1. CASE Start
    <2>1. Readable(Policy) => manifest[Policy] \in Snapshots
        BY DEF Readable
    <2> QED
        BY <1>1, <2>1 DEF Start, disk, Snapshots
<1>2. CASE Iterate
    BY <1>2 DEF Iterate, disk
<1>3. CASE BeginPeriodic
    BY <1>3 DEF BeginPeriodic, disk
<1>4. CASE ClearPending
    <2>1. Pending(iter) \in Dirs
        BY <1>4 DEF ClearPending, WriterInv, Building
    <2>2. files' \in FileTables
        <3>1. files \in FileTables
            BY DEF FileTables
        <3>2. \A f \in Files : [files EXCEPT ![Pending(iter)][f] = NoSnapshot] \in FileTables
            BY <2>1, <3>1, FileUpdate
        <3> QED
            BY <1>4, <3>1, <3>2 DEF ClearPending
    <2>3. UNCHANGED <<run, iter, target, snap>> /\ exists' \subseteq Dirs
        BY <1>4 DEF ClearPending
    <2>4. manifest' \in [Dirs -> Snapshots \cup {NoSnapshot}]
        BY <1>4, <2>1 DEF ClearPending
    <2>5. json' \in [Dirs -> {"absent", "partial", "whole"}] /\ pc' \in {"clear", "create"}
        BY <1>4, <2>1 DEF ClearPending
    <2> QED
        BY <2>2, <2>3, <2>4, <2>5 DEF FileTables
<1>5. CASE CreatePending
    <2>1. \A p \in PeriodicPayloads :
              [run |-> run, iter |-> iter, payload |-> p] \in Snapshots
        BY <1>5 DEF CreatePending, PeriodicPayloads, Snapshots, Files, WriterInv
    <2> QED
        BY <1>5, <2>1 DEF CreatePending, WriterInv, Building
<1>6. CASE EndTraining
    <2>1. \A p \in FinalPayloads :
              [run |-> run, iter |-> iter, payload |-> p] \in Snapshots
        BY <1>6 DEF EndTraining, FinalPayloads, Snapshots, WriterInv
    <2> QED
        BY <1>6, <2>1 DEF EndTraining
<1>7. CASE WithdrawManifest
    BY <1>7 DEF WithdrawManifest
<1>8. CASE Sweep
    <2>1. files \in FileTables
        BY DEF FileTables
    <2>2. \A f \in Files : [files EXCEPT ![target][f] = NoSnapshot] \in FileTables
        BY <2>1, FileUpdate
    <2>3. files' \in FileTables
        BY <1>8, <2>1, <2>2 DEF Sweep
    <2> QED
        BY <1>8, <2>3 DEF Sweep, FileTables
<1>9. CASE PutFile
    <2>1. files \in FileTables
        BY DEF FileTables
    <2>2. snap.payload \subseteq Files
        BY <1>9 DEF PutFile, WriterInv, Writing, Snapshots
    <2>3. PICK f \in snap.payload : files' = [files EXCEPT ![target][f] = snap]
        BY <1>9, Zenon DEF PutFile
    <2>4. files' \in FileTables
        <3>1. f \in Files /\ target \in Dirs /\ snap \in Snapshots \cup {NoSnapshot}
            BY <2>2, <2>3
        <3>2. [files EXCEPT ![target][f] = snap] \in FileTables
            BY <2>1, <3>1, FileUpdate
        <3> QED
            BY ONLY <2>3, <3>2
    <2> QED
        BY <1>9, <2>4 DEF PutFile, FileTables
<1>10. CASE Commit
    BY <1>10 DEF Commit
<1>11. CASE WriteJson
    BY <1>11 DEF WriteJson
<1>12. CASE PublishGeneration
    <2>1. Generation(iter) \in Dirs /\ target \in Dirs
        BY <1>12 DEF PublishGeneration, WriterInv, Building
    <2>2. NoFiles \in [Files -> Snapshots \cup {NoSnapshot}]
        BY DEF NoFiles
    <2> QED
        BY <1>12, <2>1, <2>2 DEF PublishGeneration
<1>13. CASE IoError
    BY <1>13 DEF IoError, disk
<1>14. CASE Crash
    BY <1>14 DEF Crash, disk
<1>15. CASE UNCHANGED vars
    BY <1>15 DEF vars, disk
<1> QED
    BY <1>1, <1>2, <1>3, <1>4, <1>5, <1>6, <1>7, <1>8, <1>9, <1>10, <1>11, <1>12, <1>13,
       <1>14, <1>15 DEF Next, Idle


----------------------------------------------------------------------------
Visible == {Policy} \cup {Generation(i) : i \in Iterations}

\* Directory d is as it was.
Kept(d) ==
    /\ files'[d] = files[d]
    /\ manifest'[d] = manifest[d]
    /\ json'[d] = json[d]
    /\ d \in exists' <=> d \in exists

\* A step that leaves the generations alone and either leaves the policy alone or
\* leaves it without a manifest breaks nothing a reader can see.
LEMMA VisibleStep ==
    ASSUME Inv,
           \A i \in Iterations : Kept(Generation(i)),
           manifest'[Policy] = NoSnapshot
             \/ (files'[Policy] = files[Policy] /\ manifest'[Policy] = manifest[Policy])
    PROVE  ReadableIsComplete' /\ GenerationWhole'
<1>1. \A d \in Visible : Readable(d)' => Complete(d)'
    BY DEF Inv, ReadableIsComplete, Visible, Readable, Complete, Kept
<1>2. GenerationWhole'
    BY DEF Inv, GenerationWhole, Readable, Kept
<1> QED
    BY <1>1, <1>2 DEF ReadableIsComplete, Visible

\* A step that leaves the disk alone.
LEMMA DiskStep ==
    ASSUME Inv, UNCHANGED disk
    PROVE  ReadableIsComplete' /\ GenerationWhole'
BY DEF disk, Inv, ReadableIsComplete, GenerationWhole, Readable, Complete

\* A step that writes only the directory being written, which is the policy
\* without a manifest or a pending directory.
LEMMA TargetStep ==
    ASSUME Inv, pc \in Writing \cup {"json"},
           \A d \in Dirs : d # target => Kept(d),
           target = Policy => manifest'[Policy] = NoSnapshot
    PROVE  ReadableIsComplete' /\ GenerationWhole'
<1>1. \A i \in Iterations : Generation(i) \in Dirs /\ Generation(i) # target
    BY DirFacts DEF Inv, WriterInv, Building
<1>2. \A i \in Iterations : Kept(Generation(i))
    BY <1>1
<1>3. target # Policy => Kept(Policy)
    BY DirFacts
<1> QED
    BY <1>2, <1>3, VisibleStep DEF Kept

LEMMA SafetyStep == Inv /\ [Next]_vars => (ReadableIsComplete /\ GenerationWhole /\ WriterInv)'
<1> SUFFICES ASSUME Inv, [Next]_vars
             PROVE  ReadableIsComplete' /\ GenerationWhole' /\ WriterInv'
    BY Zenon
<1> USE DirFacts, ScheduleAssumption
<1>1. CASE Start
    <2>1. WriterInv'
        BY <1>1 DEF Start, Inv, TypeOK, WriterInv, Writing
    <2> QED
        BY <1>1, <2>1, DiskStep DEF Start
<1>2. CASE Iterate
    <2>1. WriterInv'
        BY <1>2 DEF Iterate, Inv, TypeOK, WriterInv, Writing, Iterations
    <2> QED
        BY <1>2, <2>1, DiskStep DEF Iterate
<1>3. CASE BeginPeriodic
    <2>1. WriterInv'
        BY <1>3 DEF BeginPeriodic, disk, Inv, WriterInv, Writing, Building
    <2> QED
        BY <1>3, <2>1, DiskStep DEF BeginPeriodic
<1>4. CASE ClearPending
    <2>1. Pending(iter) \in Dirs /\ \A d \in Visible : d \in Dirs /\ d # Pending(iter)
        BY <1>4 DEF ClearPending, Inv, WriterInv, Building, Visible
    <2>2. \A d \in Visible : Kept(d)
        <3>1. \A d \in Visible : files'[d] = files[d]
            BY <1>4, <2>1 DEF ClearPending, Inv, TypeOK
        <3>2. \A d \in Visible : manifest'[d] = manifest[d] /\ json'[d] = json[d]
            BY <1>4, <2>1 DEF ClearPending, Inv, TypeOK
        <3>3. \A d \in Visible : d \in exists' <=> d \in exists
            BY <1>4, <2>1 DEF ClearPending
        <3> QED
            BY <3>1, <3>2, <3>3 DEF Kept
    <2>3. ReadableIsComplete' /\ GenerationWhole'
        BY <2>2, VisibleStep DEF Visible, Kept
    <2>4. WriterInv'
        <3>1. pc' \in {"clear", "create"} /\ run' = run /\ iter' = iter
            BY <1>4 DEF ClearPending
        <3>2. Building'
            BY <1>4, <2>2, <3>1 DEF ClearPending, Inv, WriterInv, Building, Visible, Kept
        <3>3. run \in 1 .. MaxRuns
            BY <1>4 DEF ClearPending, Inv, WriterInv
        <3> QED
            BY <3>1, <3>2, <3>3 DEF WriterInv, Writing
    <2> QED
        BY <2>3, <2>4
<1>5. CASE CreatePending
    <2>1. \A i \in Iterations : Kept(Generation(i))
        BY <1>5 DEF CreatePending, Inv, WriterInv, Building, Kept
    <2>2. ReadableIsComplete' /\ GenerationWhole'
        BY <1>5, <2>1, VisibleStep DEF CreatePending
    <2>3. PICK p \in PeriodicPayloads : snap' = [run |-> run, iter |-> iter, payload |-> p]
        BY <1>5 DEF CreatePending
    <2>4. snap' \in Snapshots /\ snap'.iter = iter
        BY <1>5, <2>3 DEF CreatePending, PeriodicPayloads, Snapshots, Files, Inv, TypeOK, WriterInv
    <2>5. Building' /\ target' = Pending(iter)
        BY <1>5, <2>1 DEF CreatePending, Inv, WriterInv, Building, Kept
    <2>6. pc' = "withdraw" /\ run' = run /\ iter' = iter /\ run \in 1 .. MaxRuns
        BY <1>5 DEF CreatePending, Inv, WriterInv
    <2> QED
        BY <2>2, <2>4, <2>5, <2>6 DEF WriterInv, Writing
<1>6. CASE EndTraining
    <2>1. \A i \in Iterations : Kept(Generation(i))
        BY <1>6 DEF EndTraining, Kept
    <2>2. ReadableIsComplete' /\ GenerationWhole'
        BY <1>6, <2>1, VisibleStep DEF EndTraining
    <2>3. PICK p \in FinalPayloads : snap' = [run |-> run, iter |-> iter, payload |-> p]
        BY <1>6 DEF EndTraining
    <2>4. snap' \in Snapshots /\ snap'.iter = iter
        BY <1>6, <2>3 DEF EndTraining, FinalPayloads, Snapshots, Inv, TypeOK, WriterInv
    <2>5. pc' = "withdraw" /\ run' = run /\ iter' = iter /\ run \in 1 .. MaxRuns
                /\ target' = Policy
        BY <1>6 DEF EndTraining, Inv, WriterInv
    <2> QED
        BY <2>2, <2>4, <2>5 DEF WriterInv, Writing

<1>7. CASE WithdrawManifest
    <2>1. \A d \in Dirs : d # target => Kept(d)
        BY <1>7 DEF WithdrawManifest, Inv, TypeOK, Kept
    <2>2. manifest'[target] = NoSnapshot
        BY <1>7 DEF WithdrawManifest, Inv, TypeOK
    <2>3. ReadableIsComplete' /\ GenerationWhole'
        BY <1>7, <2>1, <2>2, TargetStep DEF WithdrawManifest, Writing
    <2>4. WriterInv'
        BY <1>7, <2>2 DEF WithdrawManifest, Inv, WriterInv, Writing, Building
    <2> QED
        BY <2>3, <2>4
<1>8. CASE Sweep
    <2>1. \A d \in Dirs : d # target => Kept(d)
        BY <1>8 DEF Sweep, Inv, TypeOK, Kept
    <2>2. manifest'[target] = NoSnapshot
        BY <1>8 DEF Sweep, Inv, WriterInv
    <2>3. ReadableIsComplete' /\ GenerationWhole'
        BY <1>8, <2>1, <2>2, TargetStep DEF Sweep, Writing
    <2>4. UNCHANGED <<exists, manifest, run, iter, target, snap>> /\ pc' \in {"sweep", "put"}
        BY <1>8 DEF Sweep
    <2>5. pc' = "put" => \A f \in Files : files'[target][f] = NoSnapshot
        BY <1>8 DEF Sweep, NoFiles
    <2>6. WriterInv'
        BY <1>8, <2>2, <2>4, <2>5 DEF Sweep, Inv, WriterInv, Writing, Building
    <2> QED
        BY <2>3, <2>6
<1>9. CASE PutFile
    <2>1. PICK f \in snap.payload : files' = [files EXCEPT ![target][f] = snap]
        BY <1>9, Zenon DEF PutFile
    <2>2. pc = "put" /\ UNCHANGED <<exists, manifest, json, run, iter, pc, target, snap>>
        BY <1>9 DEF PutFile
    <2>3. snap \in Snapshots /\ f \in Files
        BY <2>1, <2>2 DEF Inv, WriterInv, Writing, Snapshots
    <2>4. \A d \in Dirs : d # target => Kept(d)
        BY <2>1, <2>2 DEF Inv, TypeOK, Kept
    <2>5. manifest'[target] = NoSnapshot
        BY <2>2 DEF Inv, WriterInv
    <2>6. ReadableIsComplete' /\ GenerationWhole'
        BY <2>2, <2>4, <2>5, TargetStep DEF Writing
    <2>7. \A g \in Files : files'[target][g] = IF g = f THEN snap ELSE files[target][g]
        BY <2>1, <2>3 DEF Inv, TypeOK
    <2>8. WriterInv'
        BY <2>1, <2>2, <2>5, <2>7 DEF Inv, WriterInv, Writing, Building
    <2> QED
        BY <2>6, <2>8
<1>10. CASE Commit
    <2>1. pc = "put" /\ UNCHANGED <<exists, files, json, run, iter, target, snap>>
        BY <1>10 DEF Commit
    <2>2. \A d \in Dirs : d # target => Kept(d)
        BY <1>10 DEF Commit, Inv, TypeOK, Kept
    <2>3. manifest'[target] = snap
        BY <1>10 DEF Commit, Inv, TypeOK
    <2>4. Complete(target)'
        BY <1>10, <2>1, <2>3 DEF Commit, Complete, Inv, WriterInv, Writing
    <2>5. ReadableIsComplete' /\ GenerationWhole'
        <3>1. CASE target = Policy
            <4>1. \A i \in Iterations : Kept(Generation(i))
                BY <2>2, <3>1
            <4>2. \A i \in Iterations : Readable(Generation(i))' => Complete(Generation(i))'
                BY <4>1 DEF Inv, ReadableIsComplete, Readable, Complete, Kept
            <4>3. GenerationWhole'
                BY <4>1 DEF Inv, GenerationWhole, Readable, Kept
            <4>4. Complete(Policy)'
                BY <2>1, <2>4, <3>1 DEF Complete
            <4> QED
                BY <4>2, <4>3, <4>4 DEF ReadableIsComplete
        <3>2. CASE target # Policy
            BY <2>1, <2>2, <3>2, TargetStep DEF Writing
        <3> QED
            BY <3>1, <3>2
    <2>6. WriterInv'
        <3>1. pc' = IF target = Policy THEN "down" ELSE "json"
            BY <1>10 DEF Commit
        <3>2. pc' = "json" => target' = Pending(iter') /\ Building'
            BY <2>1, <3>1 DEF Inv, WriterInv, Writing, Building
        <3>3. snap' \in Snapshots /\ snap'.iter = iter' /\ run' \in 1 .. MaxRuns
            BY <2>1 DEF Inv, WriterInv, Writing
        <3>4. Complete(target)' /\ manifest'[target'] = snap'
            BY <2>1, <2>3, <2>4
        <3> QED
            BY <3>1, <3>2, <3>3, <3>4 DEF WriterInv, Writing
    <2> QED
        BY <2>5, <2>6
<1>11. CASE WriteJson
    <2>1. pc = "json" /\ UNCHANGED <<exists, files, manifest, run, iter, pc, target, snap>>
        BY <1>11 DEF WriteJson
    <2>2. \A d \in Dirs : d # target => Kept(d)
        BY <1>11 DEF WriteJson, Inv, TypeOK, Kept
    <2>3. target # Policy
        BY <2>1 DEF Inv, WriterInv, Building
    <2>4. ReadableIsComplete' /\ GenerationWhole'
        BY <2>1, <2>2, <2>3, TargetStep
    <2>5. WriterInv'
        BY <2>1 DEF Inv, WriterInv, Writing, Building, Complete
    <2> QED
        BY <2>4, <2>5
<1>12. CASE PublishGeneration
    <2> DEFINE new == Generation(iter)
    <2>1. pc = "json" /\ json[target] = "whole" /\ pc' = "training"
             /\ UNCHANGED <<run, iter, target, snap>>
        BY <1>12 DEF PublishGeneration
    <2>2. /\ iter \in Iterations /\ target = Pending(iter) /\ new \notin exists
          /\ manifest[target] = snap /\ snap \in Snapshots /\ snap.iter = iter
          /\ Complete(target) /\ run \in 1 .. MaxRuns
        BY <2>1 DEF Inv, WriterInv, Writing, Building
    <2>3. new \in Dirs /\ target \in Dirs /\ new # target
        BY <2>2
    <2>4. \A d \in Dirs : d # new /\ d # target => Kept(d)
        BY <1>12 DEF PublishGeneration, Inv, TypeOK, Kept
    <2>5. files'[new] = files[target] /\ manifest'[new] = snap /\ json'[new] = "whole"
        BY <1>12, <2>1, <2>2, <2>3 DEF PublishGeneration, Inv, TypeOK
    <2>6. \A d \in Visible \ {new} : d \in Dirs /\ Kept(d)
        BY <2>2, <2>4 DEF Visible
    <2>7. ReadableIsComplete'
        <3>1. \A d \in Visible \ {new} : Readable(d)' => Complete(d)'
            BY <2>6 DEF Inv, ReadableIsComplete, Readable, Complete, Kept, Visible
        <3>2. \A d \in Visible : Readable(d)' => Complete(d)'
            <4> SUFFICES ASSUME NEW d \in Visible, Readable(d)' PROVE Complete(d)'
                OBVIOUS
            <4>1. CASE d = new
                BY <2>2, <2>5, <4>1 DEF Complete
            <4>2. CASE d # new
                BY <3>1, <4>2
            <4> QED
                BY <4>1, <4>2
        <3> QED
            BY <3>2 DEF ReadableIsComplete, Visible
    <2>8. GenerationWhole'
        <3>1. manifest'[new] # NoSnapshot /\ manifest'[new].iter = iter /\ json'[new] = "whole"
            BY <2>2, <2>5, NoSnapshotFacts
        <3> SUFFICES ASSUME NEW i \in Iterations, Generation(i) \in exists'
                     PROVE  /\ Readable(Generation(i))'
                            /\ manifest'[Generation(i)].iter = i
                            /\ json'[Generation(i)] = "whole"
            BY DEF GenerationWhole
        <3>2. CASE i = iter
            BY <3>1, <3>2 DEF Readable
        <3>3. CASE i # iter
            <4>1. Generation(i) \in Visible \ {new}
                BY <2>2, <3>3 DEF Visible
            <4> QED
                BY <2>6, <4>1 DEF Kept, Inv, GenerationWhole, Readable
        <3> QED
            BY <3>2, <3>3
    <2>9. WriterInv'
        BY <2>1, <2>2 DEF WriterInv, Writing
    <2> QED
        BY <2>7, <2>8, <2>9
<1>13. CASE IoError
    <2>1. WriterInv'
        BY <1>13 DEF IoError, disk, Inv, WriterInv, Writing
    <2> QED
        BY <1>13, <2>1, DiskStep DEF IoError
<1>14. CASE Crash
    <2>1. WriterInv'
        BY <1>14 DEF Crash, WriterInv, Writing
    <2> QED
        BY <1>14, <2>1, DiskStep DEF Crash
<1>15. CASE UNCHANGED vars
    <2>1. WriterInv'
        BY <1>15 DEF vars, disk, Inv, WriterInv, Writing, Building, Complete
    <2> QED
        BY <1>15, <2>1, DiskStep DEF vars
<1> QED
    BY <1>1, <1>2, <1>3, <1>4, <1>5, <1>6, <1>7, <1>8, <1>9, <1>10, <1>11, <1>12, <1>13,
       <1>14, <1>15 DEF Next, Idle

\* The writer keeps the inductive invariant.
THEOREM Invariance == Spec => []Inv
<1>1. Inv /\ [Next]_vars => Inv'
    BY TypeStep, SafetyStep DEF Inv
<1> QED
    BY InitInv, <1>1, PTL DEF Spec

\* Every variable has its type: the snapshots, directories and counters of the
\* policy writer.
THEOREM StoreTypeCorrect == Spec => []TypeOK
BY Invariance, PTL DEF Inv

\* A readable artifact consists of exactly its manifest's files, however many
\* earlier writes were killed or failed (write_policy_checkpoint).
THEOREM ReadableComplete == Spec => []ReadableIsComplete
BY Invariance, PTL DEF Inv

\* A generation that can be seen is whole (write_periodic_checkpoint).
THEOREM GenerationsWhole == Spec => []GenerationWhole
BY Invariance, PTL DEF Inv

----------------------------------------------------------------------------
(* Published generations, and the refinement *)

\* A generation that is not there has no manifest.
AbsentInv == \A i \in Iterations : Generation(i) \notin exists => ~Readable(Generation(i))

\* Only the rename of a pending directory touches a generation.
LEMMA GenerationsKept ==
    ASSUME Inv, [Next]_vars, ~PublishGeneration
    PROVE  \A i \in Iterations : Kept(Generation(i))
<1> USE DirFacts DEF Kept
<1> DEFINE Gens == {Generation(i) : i \in Iterations}
<1>1. CASE UNCHANGED disk
    BY <1>1 DEF disk
<1>2. CASE ClearPending
    <2>1. Pending(iter) \in Dirs \ Gens /\ Gens \subseteq Dirs
        BY <1>2 DEF ClearPending, Inv, WriterInv, Building
    <2>2. \A d \in Gens : files'[d] = files[d]
        BY <1>2, <2>1 DEF ClearPending, Inv, TypeOK
    <2>3. \A d \in Gens : manifest'[d] = manifest[d] /\ json'[d] = json[d]
        BY <1>2, <2>1 DEF ClearPending, Inv, TypeOK
    <2>4. \A d \in Gens : d \in exists' <=> d \in exists
        BY <1>2, <2>1 DEF ClearPending
    <2> QED
        BY <2>2, <2>3, <2>4
<1>3. CASE CreatePending \/ EndTraining
    BY <1>3 DEF CreatePending, EndTraining, Inv, WriterInv, Building
<1>4. CASE WithdrawManifest \/ Sweep \/ PutFile \/ Commit \/ WriteJson
    <2>1. pc \in Writing \cup {"json"}
        BY <1>4 DEF WithdrawManifest, Sweep, PutFile, Commit, WriteJson, Writing
    <2>2. Gens \subseteq Dirs \ {target} /\ target \in Dirs
        BY <2>1 DEF Inv, TypeOK, WriterInv, Building
    <2>3. \A d \in Gens : files'[d] = files[d]
        BY <1>4, <2>2 DEF WithdrawManifest, Sweep, PutFile, Commit, WriteJson, Inv, TypeOK
    <2>4. \A d \in Gens : manifest'[d] = manifest[d] /\ json'[d] = json[d]
        BY <1>4, <2>2 DEF WithdrawManifest, Sweep, PutFile, Commit, WriteJson, Inv, TypeOK
    <2>5. exists' = exists
        BY <1>4 DEF WithdrawManifest, Sweep, PutFile, Commit, WriteJson
    <2> QED
        BY <2>3, <2>4, <2>5
<1>5. UNCHANGED disk \/ ClearPending \/ CreatePending \/ EndTraining \/ WithdrawManifest
        \/ Sweep \/ PutFile \/ Commit \/ WriteJson
    BY DEF Next, vars, Start, Iterate, BeginPeriodic, IoError, Crash, Idle
<1> QED
    BY <1>1, <1>2, <1>3, <1>4, <1>5

\* The rename makes one generation appear, complete, and changes nothing else a
\* reader sees.
LEMMA PublishEffect ==
    ASSUME Inv, PublishGeneration
    PROVE  /\ iter \in Iterations
           /\ Generation(iter) \notin exists /\ Generation(iter) \in exists'
           /\ \A d \in Visible \ {Generation(iter)} : Kept(d)
           /\ snap \in Snapshots /\ snap.iter = iter
           /\ manifest'[Generation(iter)] = snap
           /\ iter' = iter /\ Complete(Generation(iter))'
<1> USE DirFacts
<1> DEFINE new == Generation(iter)
<1>1. /\ iter \in Iterations /\ target = Pending(iter) /\ new \notin exists
      /\ manifest[target] = snap /\ snap \in Snapshots /\ snap.iter = iter
      /\ Complete(target)
    BY DEF PublishGeneration, Inv, WriterInv, Writing, Building
<1>2. new \in Dirs /\ target \in Dirs /\ new # target
    BY <1>1
<1>3. files'[new] = files[target] /\ manifest'[new] = snap /\ new \in exists' /\ iter' = iter
    BY <1>1, <1>2 DEF PublishGeneration, Inv, TypeOK
<1>4. \A d \in Dirs : d # new /\ d # target => Kept(d)
    BY DEF PublishGeneration, Inv, TypeOK, Kept
<1>5. \A d \in Visible \ {new} : Kept(d)
    BY <1>1, <1>4 DEF Visible
<1>6. Complete(new)'
    BY <1>1, <1>3 DEF Complete
<1> QED
    BY <1>1, <1>3, <1>5, <1>6

LEMMA AbsentStep == Inv /\ AbsentInv /\ [Next]_vars => AbsentInv'
<1> SUFFICES ASSUME Inv, AbsentInv, [Next]_vars PROVE AbsentInv'
    OBVIOUS
<1>1. CASE PublishGeneration
    <2>1. \A i \in Iterations : i # iter => Kept(Generation(i))
        BY <1>1, PublishEffect, DirFacts DEF Visible
    <2> QED
        BY <1>1, <2>1, PublishEffect DEF AbsentInv, Kept, Readable
<1>2. CASE ~PublishGeneration
    BY <1>2, GenerationsKept DEF AbsentInv, Kept, Readable
<1> QED
    BY <1>1, <1>2

\* The invariant of the writer, and that what does not exist cannot be read.
THEOREM StoreInvariance == Spec => [](Inv /\ AbsentInv)
<1>1. Init => Inv /\ AbsentInv
    BY InitInv, DirFacts DEF Init, AbsentInv, Readable
<1>2. Inv /\ AbsentInv /\ [Next]_vars => (Inv /\ AbsentInv)'
    BY TypeStep, SafetyStep, AbsentStep DEF Inv
<1> QED
    BY <1>1, <1>2, PTL DEF Spec

\* A generation that exists stays, with its files and its manifest: a later
\* write_periodic_checkpoint of the same iteration leaves it alone.
THEOREM GenerationsStay == Spec => GenerationImmutable
<1> DEFINE Stay == \A i \in Iterations : Generation(i) \in exists =>
                      /\ Generation(i) \in exists'
                      /\ files'[Generation(i)] = files[Generation(i)]
                      /\ manifest'[Generation(i)] = manifest[Generation(i)]
<1>1. Inv /\ [Next]_vars => Stay
    <2> SUFFICES ASSUME Inv, [Next]_vars PROVE Stay
        OBVIOUS
    <2>1. CASE PublishGeneration
        <3>1. \A i \in Iterations : Generation(i) \in exists => Kept(Generation(i))
            BY <2>1, PublishEffect DEF Visible
        <3> QED
            BY <3>1 DEF Kept
    <2>2. CASE ~PublishGeneration
        BY <2>2, GenerationsKept DEF Kept
    <2> QED
        BY <2>1, <2>2
<1>2. Spec => [][Stay]_vars
    BY <1>1, Invariance, PTL DEF Spec
<1> QED
    BY <1>2 DEF GenerationImmutable

----------------------------------------------------------------------------
\* What a reader sees when a directory keeps its files and manifest.
LEMMA SeenKept ==
    ASSUME NEW d, files'[d] = files[d], manifest'[d] = manifest[d]
    PROVE  Seen(d)' = Seen(d)
BY DEF Seen, Readable, Complete

\* Only Commit, and only where no manifest was, makes a policy readable.
LEMMA PolicyStep ==
    ASSUME Inv, [Next]_vars, ~PublishGeneration
    PROVE  \/ Seen(Policy)' = Seen(Policy)
           \/ Seen(Policy)' = NoSnapshot
           \/ Seen(Policy) = NoSnapshot /\ Seen(Policy)' \in Snapshots
<1> USE DirFacts
<1>1. CASE UNCHANGED <<files, manifest>>
    BY <1>1, SeenKept
<1>2. CASE ClearPending
    <2>1. Pending(iter) \in Dirs /\ Pending(iter) # Policy
        BY <1>2 DEF ClearPending, Inv, WriterInv, Building
    <2>2. files'[Policy] = files[Policy]
        BY <1>2, <2>1 DEF ClearPending, Inv, TypeOK
    <2>3. manifest'[Policy] = manifest[Policy]
        BY <1>2, <2>1 DEF ClearPending, Inv, TypeOK
    <2> QED
        BY <2>2, <2>3, SeenKept
<1>3. CASE WithdrawManifest
    <2>1. files' = files /\ (manifest'[Policy] = NoSnapshot \/ manifest'[Policy] = manifest[Policy])
        BY <1>3 DEF WithdrawManifest, Inv, TypeOK
    <2>2. manifest'[Policy] = NoSnapshot => Seen(Policy)' = NoSnapshot
        BY DEF Seen, Readable
    <2> QED
        BY <2>1, <2>2, SeenKept
<1>4. CASE Sweep \/ PutFile
    <2>1. manifest' = manifest /\ pc \in {"sweep", "put"}
        BY <1>4 DEF Sweep, PutFile
    <2>2. CASE target = Policy
        BY <2>1, <2>2 DEF Inv, WriterInv, Seen, Readable
    <2>3. CASE target # Policy
        <3>1. files'[Policy] = files[Policy]
            BY <1>4, <2>3 DEF Sweep, PutFile, Inv, TypeOK
        <3> QED
            BY <2>1, <3>1, SeenKept
    <2> QED
        BY <2>2, <2>3
<1>5. CASE Commit
    <2>1. /\ pc = "put" /\ snap \in Snapshots /\ manifest[target] = NoSnapshot
          /\ files' = files /\ manifest' = [manifest EXCEPT ![target] = snap]
          /\ \A f \in snap.payload : files[target][f] = snap
        BY <1>5 DEF Commit, Inv, WriterInv, Writing
    <2>2. CASE target = Policy
        <3>1. Seen(Policy) = NoSnapshot
            BY <2>1, <2>2 DEF Seen, Readable
        <3>2. manifest'[Policy] = snap
            BY <2>1, <2>2 DEF Inv, TypeOK
        <3>3. Readable(Policy)'
            BY <2>1, <3>2, NoSnapshotFacts DEF Readable
        <3>4. Complete(Policy)'
            BY <2>1, <2>2, <3>2 DEF Complete, Inv, WriterInv
        <3>5. Seen(Policy)' = snap
            BY <3>2, <3>3, <3>4 DEF Seen
        <3> QED
            BY <2>1, <3>1, <3>5
    <2>3. CASE target # Policy
        <3>1. manifest'[Policy] = manifest[Policy]
            BY <2>1, <2>3 DEF Inv, TypeOK
        <3> QED
            BY <2>1, <3>1, SeenKept
    <2> QED
        BY <2>2, <2>3
<1>6. UNCHANGED <<files, manifest>> \/ ClearPending \/ WithdrawManifest \/ Sweep \/ PutFile
        \/ Commit
    BY DEF Next, vars, disk, Start, Iterate, BeginPeriodic, CreatePending, EndTraining,
           WriteJson, IoError, Crash, Idle
<1> QED
    BY <1>1, <1>2, <1>3, <1>4, <1>5, <1>6

\* Every file operation is a step of the abstract artifact or none.
LEMMA ArtifactStep == Inv /\ AbsentInv /\ [Next]_vars => [Artifact!Next]_(Artifact!vars)
<1> SUFFICES ASSUME Inv, AbsentInv, [Next]_vars PROVE [Artifact!Next]_(Artifact!vars)
    OBVIOUS
<1> DEFINE gens == [i \in Iterations |-> Seen(Generation(i))]
<1>1. CASE PublishGeneration
    <2>1. iter \in Iterations /\ snap \in Snapshots /\ snap.iter = iter /\ iter' = iter
        BY <1>1, PublishEffect
    <2>2. Seen(Generation(iter)) = NoSnapshot
        BY <1>1, PublishEffect DEF AbsentInv, Seen
    <2>3. Seen(Generation(iter))' = snap
        BY <1>1, PublishEffect, NoSnapshotFacts DEF Seen, Readable
    <2>4. \A d \in Visible \ {Generation(iter)} : Seen(d)' = Seen(d)
        BY <1>1, PublishEffect, SeenKept DEF Kept
    <2>5. Seen(Policy)' = Seen(Policy)
        BY <2>1, <2>4, DirFacts DEF Visible
    <2>6. \A i \in Iterations : i # iter => Seen(Generation(i))' = Seen(Generation(i))
        BY <2>1, <2>4, DirFacts DEF Visible
    <2>7. gens' = [gens EXCEPT ![iter] = snap]
        BY <2>1, <2>3, <2>6
    <2>8. gens[iter] = NoSnapshot
        BY <2>1, <2>2
    <2>9. Artifact!PublishGeneration
        BY <2>1, <2>5, <2>7, <2>8 DEF Artifact!PublishGeneration
    <2> QED
        BY <2>9 DEF Artifact!Next
<1>2. CASE ~PublishGeneration
    <2>1. \A i \in Iterations : Seen(Generation(i))' = Seen(Generation(i))
        BY <1>2, GenerationsKept, SeenKept DEF Kept
    <2>2. gens' = gens
        BY <2>1
    <2>3. CASE Seen(Policy)' = Seen(Policy)
        BY <2>2, <2>3 DEF Artifact!vars
    <2>4. CASE Seen(Policy)' = NoSnapshot
        BY <2>2, <2>4 DEF Artifact!Withdraw, Artifact!Next
    <2>5. CASE Seen(Policy) = NoSnapshot /\ Seen(Policy)' \in Snapshots
        BY <2>2, <2>5 DEF Artifact!Publish, Artifact!Next
    <2> QED
        BY <1>2, <2>3, <2>4, <2>5, PolicyStep
<1> QED
    BY <1>1, <1>2

\* The files on disk implement the artifact a reader relies on: whatever is killed,
\* the policy directory holds one whole snapshot or none, and a generation, once it
\* appears, one snapshot of its iteration for ever.
THEOREM StoreImplementsArtifact == Spec => ImplementsArtifact
<1>1. Init => Artifact!Init
    <2> SUFFICES ASSUME Init PROVE Artifact!Init
        OBVIOUS
    <2>1. \A d \in Dirs : Seen(d) = NoSnapshot
        BY DEF Init, Seen, Readable
    <2> QED
        BY <2>1, DirFacts DEF Artifact!Init
<1> QED
    BY <1>1, ArtifactStep, StoreInvariance, PTL DEF Spec, ImplementsArtifact, Artifact!Spec

=============================================================================
