----------------------------- MODULE RunPhases -----------------------------
(* The phases of a `run` command on every MPI rank, from the load of the     *)
(* case to the last report: which steps a rank takes alone, in which it      *)
(* meets the others, where a failure is agreed on before the next meeting    *)
(* and where it ends the job by an abort; and, in detail, the simulation: the *)
(* workers of a rank, the bounded channel of their results and the thread    *)
(* that drains it to disk (cobre-cli/src/commands/run, cobre-sddp/src/       *)
(* simulation).  Training is one meeting, see TrainingSession.  Collectives  *)
(* with no decision between them are one meeting.                            *)
EXTENDS Integers, Sequences, FiniteSets, SequencesExt, FiniteSetsExt

CONSTANTS NumRanks,      \* processes of the communicator
          NumWorkers,    \* threads, and workspaces, of a rank
          NumScenarios,  \* simulation scenarios of the study
          Capacity       \* io_channel_capacity.max(1)

ASSUME PhasesAssumption ==
    /\ NumRanks \in Nat \ {0}
    /\ NumWorkers \in Nat \ {0}
    /\ NumScenarios \in Nat \ {0}
    /\ Capacity \in Nat \ {0}

Ranks   == 0 .. NumRanks - 1
Root    == 0
Workers == 0 .. NumWorkers - 1

VARIABLES todo,        \* per rank, the steps it has not finished
          status,      \* per rank, "running", "err" in execute_inner, or "left" before
          aborted,     \* some rank called MPI_Abort
          exportsOk,   \* the root's pre-training exports were written
          trainError,  \* training ended with an error, on every rank
          outputs,     \* the result sets the root has written
          census,      \* the simulation walks every path of an enumerated study
          worker,      \* per rank and worker, what it does and its next scenario
          channel,     \* per rank, results sent and not taken
          drain,       \* per rank, the drain thread
          hand,        \* per rank, the scenario the drain thread is writing
          written,     \* per rank, scenarios on disk
          unwritten,   \* per rank, scenarios whose write failed
          counts,      \* the merged completed and failed counts
          costs        \* the gathered scenario costs, each as its scenario

phaseVars == <<todo, status, aborted, exportsOk, trainError, outputs, census>>
drainVars == <<drain, hand, written, unwritten>>
simVars   == <<worker, channel, drainVars>>
mergeVars == <<counts, costs>>
vars      == <<phaseVars, simVars, mergeVars>>

(***************************************************************************)
(* The program of a rank                                                   *)
(***************************************************************************)
Pretraining == <<"bind", "affinity", "load", "setup", "exports", "exported">>
Boundary    == <<"boundary", "boundaryCuts">>
Training    == <<"solver", "train", "solves", "trainingGuard", "trainingStats",
                 "outputs", "outcome">>
Simulation  == <<"pool", "writer", "simulate", "join", "simulated", "merge",
                 "simulationGuard", "simulationStats", "paths", "costs", "report">>

\* Steps a rank takes alone; any rank may fail in the first, only the root,
\* which alone does something there, in the second.
FallibleAnywhere == {"bind", "setup", "policy", "solver", "trainingGuard", "pool", "writer",
                     "simulationGuard"}
FallibleAtRoot   == {"boundary", "outputs", "report"}
\* Meetings that leave nothing behind but the others' data.
PlainMeetings    == {"affinity", "boundaryCuts", "solves", "trainingStats",
                     "simulationStats", "paths"}

Steps == FallibleAnywhere \cup FallibleAtRoot \cup PlainMeetings \cup
         {"load", "exports", "exported", "train", "outcome", "simulate", "join",
          "simulated", "merge", "costs"}

Optional(p, condition) == IF condition THEN p ELSE <<>>

\* A resumed run whose checkpoint has all its iterations reads the policy
\* again instead of training.
Phases(train, load, boundary, exhausted, simulate) ==
    Pretraining \o
    Optional(Optional(<<"policy">>, load) \o Optional(Boundary, boundary) \o
             (IF load /\ exhausted THEN <<"policy", "outputs", "outcome">> ELSE Training),
             train) \o
    Optional(Optional(<<"policy">>, ~train) \o Simulation, simulate)

Programs == {Phases(t, l, b, e, s) : t, l, b, e, s \in BOOLEAN}

At(r)      == IF todo[r] = <<>> THEN "end" ELSE Head(todo[r])
Running(r) == ~aborted /\ status[r] = "running"
Doing(r, step) == Running(r) /\ At(r) = step
\* Every rank is in the same collective.
Met(step) == \A r \in Ranks : Doing(r, step)

Advanced  == [r \in Ranks |-> Tail(todo[r])]
Continued(r) == [todo EXCEPT ![r] = Tail(@)]
AllFail   == [r \in Ranks |-> "err"]

(***************************************************************************)
(* Who simulates what                                                      *)
(***************************************************************************)
FirstScenario(r) ==
    LET fat  == NumScenarios % NumRanks
        lean == NumScenarios \div NumRanks
    IN  IF r < fat THEN r * (lean + 1) ELSE fat * (lean + 1) + (r - fat) * lean
ScenarioCount(r) ==
    NumScenarios \div NumRanks + (IF r < NumScenarios % NumRanks THEN 1 ELSE 0)

PartStart(n, w) ==
    (n \div NumWorkers) * w + (IF w < n % NumWorkers THEN w ELSE n % NumWorkers)
PartEnd(n, w) ==
    PartStart(n, w) + n \div NumWorkers + (IF w < n % NumWorkers THEN 1 ELSE 0)

\* The sampled workers each have a contiguous part of the rank's scenarios.
\* The census solves nodes first and then one thread sends path after path.
Begin(r, w) == IF census THEN 0 ELSE PartStart(ScenarioCount(r), w)
End(r, w) ==
    IF census THEN (IF w = 0 THEN ScenarioCount(r) ELSE 0)
    ELSE PartEnd(ScenarioCount(r), w)

Idle(r, w) == \/ worker[r][w].at = "failed"
              \/ worker[r][w].at = "solve" /\ worker[r][w].next >= End(r, w)
SimFailed(r) == drain[r] = "dead" \/ \E w \in Workers : worker[r][w].at = "failed"

\* The costs of a rank's scenarios, in the order of its workers.
LocalCosts(r) ==
    FlattenSeq([i \in 1 .. NumWorkers |->
        [j \in 1 .. worker[r][i - 1].next - Begin(r, i - 1) |->
            FirstScenario(r) + Begin(r, i - 1) + j - 1]])

-----------------------------------------------------------------------------
Init ==
    /\ \E program \in Programs : todo = [r \in Ranks |-> program]
    /\ status = [r \in Ranks |-> "running"]
    /\ aborted = FALSE
    /\ exportsOk = TRUE
    /\ trainError = FALSE
    /\ outputs = {}
    /\ census \in BOOLEAN
    /\ worker = [r \in Ranks |-> [w \in Workers |-> [at |-> "solve", next |-> Begin(r, w)]]]
    /\ channel = [r \in Ranks |-> <<>>]
    /\ drain = [r \in Ranks |-> "waiting"]
    /\ hand = [r \in Ranks |-> {}]
    /\ written = [r \in Ranks |-> {}]
    /\ unwritten = [r \in Ranks |-> {}]
    /\ counts = [completed |-> 0, failed |-> 0]
    /\ costs = <<>>

(***************************************************************************)
(* Steps of one rank                                                       *)
(***************************************************************************)
\* A step that succeeds; the root's "outputs" and "report" leave files.
Work(r) ==
    /\ Running(r)
    /\ At(r) \in FallibleAnywhere \cup FallibleAtRoot
    /\ todo' = Continued(r)
    /\ outputs' = outputs \cup (IF r = Root THEN {At(r)} \cap {"outputs", "report"} ELSE {})
    /\ UNCHANGED <<status, aborted, exportsOk, trainError, census, simVars, mergeVars>>

\* One that fails: the rank returns its error without telling the others.  An
\* error of setup_communicator leaves execute before the abort is in reach.
Fail(r) ==
    /\ Running(r)
    /\ At(r) \in FallibleAnywhere \/ (At(r) \in FallibleAtRoot /\ r = Root)
    /\ status' = [status EXCEPT ![r] = IF At(r) = "bind" THEN "left" ELSE "err"]
    /\ UNCHANGED <<todo, aborted, exportsOk, trainError, outputs, census, simVars, mergeVars>>

\* The root's exports: a failure is kept until the ranks have agreed on it.
Export(r) ==
    /\ Doing(r, "exports")
    /\ todo' = Continued(r)
    /\ IF r = Root THEN exportsOk' \in BOOLEAN ELSE UNCHANGED exportsOk
    /\ UNCHANGED <<status, aborted, trainError, outputs, census, simVars, mergeVars>>

\* The error of training is returned once the root has written its results.
Outcome(r) ==
    /\ Doing(r, "outcome")
    /\ IF trainError THEN status' = [status EXCEPT ![r] = "err"] /\ UNCHANGED todo
                     ELSE todo' = Continued(r) /\ UNCHANGED status
    /\ UNCHANGED <<aborted, exportsOk, trainError, outputs, census, simVars, mergeVars>>

\* Of more than one rank the first that returns an error ends them all.
Abort(r) ==
    /\ NumRanks > 1 /\ ~aborted /\ status[r] = "err"
    /\ aborted' = TRUE
    /\ UNCHANGED <<todo, status, exportsOk, trainError, outputs, census, simVars, mergeVars>>

(***************************************************************************)
(* Meetings                                                                *)
(***************************************************************************)
\* The root loads the case and broadcasts its parts, or four times nothing.
Load ==
    /\ Met("load")
    /\ \/ todo' = Advanced /\ UNCHANGED status
       \/ status' = AllFail /\ UNCHANGED todo
    /\ UNCHANGED <<aborted, exportsOk, trainError, outputs, census, simVars, mergeVars>>

Exported ==
    /\ Met("exported")
    /\ IF exportsOk THEN todo' = Advanced /\ UNCHANGED status
                    ELSE status' = AllFail /\ UNCHANGED todo
    /\ UNCHANGED <<aborted, exportsOk, trainError, outputs, census, simVars, mergeVars>>

\* All ranks leave training with the same outcome.
Train ==
    /\ Met("train")
    /\ todo' = Advanced
    /\ trainError' \in BOOLEAN
    /\ UNCHANGED <<status, aborted, exportsOk, outputs, census, simVars, mergeVars>>

Meet ==
    /\ \E step \in PlainMeetings : Met(step)
    /\ todo' = Advanced
    /\ UNCHANGED <<status, aborted, exportsOk, trainError, outputs, census, simVars, mergeVars>>

(***************************************************************************)
(* The simulation of a rank                                                *)
(***************************************************************************)
\* An error found before the workers start: a bad configuration.
Refuse(r) ==
    /\ Doing(r, "simulate")
    /\ \A w \in Workers : worker[r][w] = [at |-> "solve", next |-> Begin(r, w)]
    /\ worker' = [worker EXCEPT ![r] = [w \in Workers |-> [@[w] EXCEPT !.at = "failed"]]]
    /\ UNCHANGED <<phaseVars, channel, drainVars, mergeVars>>

\* A worker solves the stages of its next scenario.  A failure ends it; the
\* other workers go on to their ends.  The census cannot fail any more once
\* its nodes are solved.
Solve(r, w) ==
    /\ Doing(r, "simulate")
    /\ worker[r][w].at = "solve" /\ ~Idle(r, w)
    /\ \/ worker' = [worker EXCEPT ![r][w].at = "send"]
       \/ /\ census => worker[r][w].next = Begin(r, w)
          /\ worker' = [worker EXCEPT ![r][w].at = "failed"]
    /\ UNCHANGED <<phaseVars, channel, drainVars, mergeVars>>

SendUnbounded(r, w) ==
    /\ Doing(r, "simulate")
    /\ worker[r][w].at = "send"
    /\ channel' = [channel EXCEPT ![r] = Append(@, FirstScenario(r) + worker[r][w].next)]
    /\ worker' = [worker EXCEPT ![r][w] = [at |-> "solve", next |-> @.next + 1]]
    /\ UNCHANGED <<phaseVars, drainVars, mergeVars>>

\* It sends the result, waiting while the channel is full.  Nobody receives
\* once the drain thread has panicked, so the send fails.
Send(r, w) ==
    /\ Doing(r, "simulate")
    /\ worker[r][w].at = "send"
    /\ IF drain[r] = "dead"
       THEN worker' = [worker EXCEPT ![r][w].at = "failed"] /\ UNCHANGED channel
       ELSE /\ Len(channel[r]) < Capacity
            /\ channel' = [channel EXCEPT
                            ![r] = Append(@, FirstScenario(r) + worker[r][w].next)]
            /\ worker' = [worker EXCEPT ![r][w] = [at |-> "solve", next |-> @.next + 1]]
    /\ UNCHANGED <<phaseVars, drainVars, mergeVars>>

Take(r) ==
    /\ ~aborted
    /\ drain[r] = "waiting" /\ channel[r] # <<>>
    /\ drain' = [drain EXCEPT ![r] = "writing"]
    /\ hand' = [hand EXCEPT ![r] = {Head(channel[r])}]
    /\ channel' = [channel EXCEPT ![r] = Tail(@)]
    /\ UNCHANGED <<phaseVars, worker, written, unwritten, mergeVars>>

\* A write that fails is counted and does not end the thread.
Write(r) ==
    /\ ~aborted
    /\ drain[r] = "writing"
    /\ \/ written' = [written EXCEPT ![r] = @ \cup hand[r]] /\ UNCHANGED unwritten
       \/ unwritten' = [unwritten EXCEPT ![r] = @ \cup hand[r]] /\ UNCHANGED written
    /\ drain' = [drain EXCEPT ![r] = "waiting"]
    /\ hand' = [hand EXCEPT ![r] = {}]
    /\ UNCHANGED <<phaseVars, worker, channel, mergeVars>>

\* A panic of the thread drops the receiver and what is in the channel.
Panic(r) ==
    /\ ~aborted
    /\ drain[r] = "writing"
    /\ drain' = [drain EXCEPT ![r] = "dead"]
    /\ hand' = [hand EXCEPT ![r] = {}]
    /\ channel' = [channel EXCEPT ![r] = <<>>]
    /\ UNCHANGED <<phaseVars, worker, written, unwritten, mergeVars>>

\* The thread ends when the channel is empty and the last sender is dropped,
\* which run_simulation_phase does when its workers have returned.
EndDrain(r) ==
    /\ ~aborted
    /\ drain[r] = "waiting" /\ channel[r] = <<>> /\ At(r) = "join"
    /\ drain' = [drain EXCEPT ![r] = "done"]
    /\ UNCHANGED <<phaseVars, worker, channel, hand, written, unwritten, mergeVars>>

ReturnJoined(r) ==
    /\ Doing(r, "simulate")
    /\ \A w \in Workers : Idle(r, w)
    /\ drain[r] \in {"done", "dead"}
    /\ todo' = Continued(r)
    /\ UNCHANGED <<status, aborted, exportsOk, trainError, outputs, census, simVars, mergeVars>>

\* All workers have ended, whatever each returned; the sender is dropped.
Return(r) ==
    /\ Doing(r, "simulate")
    /\ \A w \in Workers : Idle(r, w)
    /\ todo' = Continued(r)
    /\ UNCHANGED <<status, aborted, exportsOk, trainError, outputs, census, simVars, mergeVars>>

JoinNoWait(r) ==
    /\ Doing(r, "join")
    /\ todo' = Continued(r)
    /\ UNCHANGED <<status, aborted, exportsOk, trainError, outputs, census, simVars, mergeVars>>

Join(r) ==
    /\ Doing(r, "join")
    /\ drain[r] \in {"done", "dead"}
    /\ todo' = Continued(r)
    /\ UNCHANGED <<status, aborted, exportsOk, trainError, outputs, census, simVars, mergeVars>>

SimOkDrained(r) == drain[r] # "dead"
SimOk(r)        == ~SimFailed(r)

\* The ranks agree on whether all simulations went well; a rank whose own
\* failed returns its own error, the others that of a peer.
Reconcile ==
    /\ Met("simulated")
    /\ LET globalOk == \A r \in Ranks : SimOk(r)
           goOn(r)  == globalOk /\ ~SimFailed(r)
       IN  /\ todo' = [r \in Ranks |-> IF goOn(r) THEN Tail(todo[r]) ELSE todo[r]]
           /\ status' = [r \in Ranks |-> IF goOn(r) THEN "running" ELSE "err"]
    /\ UNCHANGED <<aborted, exportsOk, trainError, outputs, census, simVars, mergeVars>>

\* The counts of the writers are added up.
Merge ==
    /\ Met("merge")
    /\ todo' = Advanced
    /\ counts' = [completed |-> MapThenSumSet(LAMBDA r : Cardinality(written[r]), Ranks),
                  failed    |-> MapThenSumSet(LAMBDA r : Cardinality(unwritten[r]), Ranks)]
    /\ UNCHANGED <<status, aborted, exportsOk, trainError, outputs, census, simVars, costs>>

\* The costs are gathered in rank order and numbered by their place.
GatherCosts ==
    /\ Met("costs")
    /\ todo' = Advanced
    /\ costs' = FlattenSeq([i \in 1 .. NumRanks |-> LocalCosts(i - 1)])
    /\ UNCHANGED <<status, aborted, exportsOk, trainError, outputs, census, simVars, counts>>

Simulate(r) ==
    \/ Refuse(r) \/ Return(r) \/ Join(r)
    \/ Take(r) \/ Write(r) \/ Panic(r) \/ EndDrain(r)
    \/ \E w \in Workers : Solve(r, w) \/ Send(r, w)

Next ==
    \/ \E r \in Ranks :
          Work(r) \/ Fail(r) \/ Export(r) \/ Outcome(r) \/ Abort(r) \/ Simulate(r)
    \/ Load \/ Exported \/ Train \/ Meet \/ Reconcile \/ Merge \/ GatherCosts

\* Processes and threads run and collectives that all ranks entered complete;
\* the steps of a run cannot go on for ever, so weak fairness of the whole
\* next-state relation says as much as of each of its parts.
Spec == Init /\ [][Next]_vars /\ WF_vars(Next)

-----------------------------------------------------------------------------
TypeOK ==
    /\ todo \in [Ranks -> Seq(Steps)]
    /\ status \in [Ranks -> {"running", "err", "left"}]
    /\ aborted \in BOOLEAN /\ exportsOk \in BOOLEAN /\ trainError \in BOOLEAN
    /\ outputs \subseteq {"outputs", "report"}
    /\ census \in BOOLEAN
    /\ worker \in [Ranks -> [Workers -> [at : {"solve", "send", "failed"}, next : Nat]]]
    /\ channel \in [Ranks -> Seq(Nat)]
    /\ \A r \in Ranks : Len(channel[r]) <= Capacity
    /\ drain \in [Ranks -> {"waiting", "writing", "dead", "done"}]
    /\ hand \in [Ranks -> SUBSET Nat]
    /\ written \in [Ranks -> SUBSET Nat]
    /\ unwritten \in [Ranks -> SUBSET Nat]
    /\ counts \in [completed : Nat, failed : Nat]
    /\ costs \in Seq(Nat)

\* A run that reports its simulation has a disk state or a counted failure for
\* every scenario, each on the rank it was assigned to and on no other, its
\* counts add up to the study, and the cost at place i is that of scenario i.
ResultsAccounted ==
    "report" \in outputs =>
        /\ UNION {written[r] \cup unwritten[r] : r \in Ranks} = 0 .. NumScenarios - 1
        /\ counts.completed + counts.failed = NumScenarios
        /\ costs = [i \in 1 .. NumScenarios |-> i - 1]

\* When a rank returns because the simulation of some rank failed, or the
\* root's exports did, every rank returns: none is left in a later collective.
FailsInLockstep ==
    \A r \in Ranks :
        (At(r) \in {"exported", "simulated"} \/ SimFailed(r)) /\ status[r] = "err"
            => \A q \in Ranks : status[q] = "err"

\* Every run ends: its ranks return, or one of them ends all by an abort.  The
\* exception is a rank that leaves before the abort is in reach, on which the
\* others wait in the gather of the CPU affinities.
EverybodyEnds ==
    <>(\/ aborted
       \/ \A r \in Ranks : status[r] = "err" \/ todo[r] = <<>>
       \/ \E r \in Ranks : status[r] = "left")
=============================================================================
