------------------------ MODULE TrainingSessionProofs ------------------------
(***************************************************************************)
(* Type correctness of the training loop and lockstep of its ranks, for    *)
(* every number of ranks, iterations, levels and nodes.                    *)
(***************************************************************************)
EXTENDS TrainingSession, WellFoundedInduction, TLAPS

\* There is a rank 0.
LEMMA RootIsRank == Root \in Ranks
BY RanksAssumption DEF Ranks, Root

\* A non-empty set of naturals has a least element, so the CHOOSE of NextRegion
\* picks a member of the pending regions.
LEMMA LeastNatural ==
    ASSUME NEW S \in SUBSET Nat, S # {}
    PROVE  \E n \in S : \A m \in S : n <= m
<1>1. PICK n \in S : \A m \in S : ~(<<m, n>> \in OpToRel(<, Nat))
    BY NatLessThanWellFounded, WFMin
<1>2. \A m \in S : ~(m < n)
    BY <1>1 DEF OpToRel
<1> QED
    BY <1>2

\* Changing the site of a position gives a position.
LEMMA GotoType ==
    ASSUME NEW p \in Position, NEW site \in Sites
    PROVE  Goto(p, site) \in Position
BY DEF Goto, Position

\* So does moving to another level and node.
LEMMA MoveType ==
    ASSUME NEW p \in Position, NEW l \in Levels, NEW n \in Nodes
    PROVE  [p EXCEPT !.level = l, !.node = n] \in Position
BY DEF Position

\* The position after a metadata region is a position.
LEMMA NextRegionType ==
    ASSUME NEW p \in Position, NEW pop
    PROVE  NextRegion(p, pop) \in Position
<1> DEFINE pending == PendingRegions(p, pop)
<1>0. pending \subseteq Nodes
    BY GraphAssumption DEF PendingRegions, Nodes
<1>1. CASE pending = {}
    <2>1. [p EXCEPT !.succ = 0] \in Position
        BY GraphAssumption DEF Position
    <2>2. NextRegion(p, pop) = Goto([p EXCEPT !.succ = 0], "solver_stats")
        BY <1>1 DEF NextRegion
    <2> QED
        BY <2>1, <2>2, GotoType DEF Sites, SampledSites
<1>2. CASE pending # {}
    <2> DEFINE c == CHOOSE c \in pending : \A d \in pending : c <= d
    <2>1. \E n \in pending : \A m \in pending : n <= m
        BY <1>0, <1>2, LeastNatural, GraphAssumption DEF Nodes
    <2>2. c \in pending
        BY <2>1
    <2>3. c \in 0 .. NodesPerLevel
        BY <2>2, <1>0, GraphAssumption DEF Nodes
    <2>4. NextRegion(p, pop) = [[p EXCEPT !.succ = c] EXCEPT !.site = "metadata"]
        BY <1>2 DEF NextRegion, Goto
    <2> HIDE DEF c
    <2> QED
        BY <2>3, <2>4 DEF Position, Sites, SampledSites
<1> QED
    BY <1>1, <1>2

\* The position after any collective is a position.
LEMMA AfterType ==
    ASSUME NEW p \in Position, NEW good \in BOOLEAN, NEW pop, NEW stopNow \in BOOLEAN
    PROVE  After(p, good, pop, stopNow) \in Position
<1> USE GraphAssumption, IterationAssumption
<1>1. \A site \in Sites : Goto(p, site) \in Position
    BY GotoType
<1>2. Fail(p) \in Position
    BY <1>1 DEF Fail, Sites, EndSites
<1>3. AfterIteration(p, stopNow) \in Position
    BY <1>1 DEF AfterIteration, StartOfIteration, Position, Iterations, Levels, Nodes,
                Sites, EndSites, ForwardSites
<1>4. NextRegion(p, pop) \in Position
    BY NextRegionType
<1>5. AfterNodeStats(p, pop) \in Position
    <2>1. CASE p.node < NodesPerLevel
        <3>1. [p EXCEPT !.node = @ + 1] \in Position
            BY <2>1 DEF Position, Nodes
        <3> QED
            BY <2>1, <3>1, NextRegionType DEF AfterNodeStats
    <2>2. CASE p.node = NodesPerLevel /\ p.level < NumLevels
        <3>1. p.level + 1 \in Levels /\ 1 \in Nodes
            BY <2>2 DEF Position, Nodes, Levels
        <3>2. [p EXCEPT !.level = p.level + 1, !.node = 1] \in Position
            BY <3>1, MoveType
        <3> QED
            BY <2>2, <3>2, GotoType DEF AfterNodeStats, Sites, SampledSites
    <2>3. CASE ~(p.node < NodesPerLevel) /\ ~(p.node = NodesPerLevel /\ p.level < NumLevels)
        BY <2>3, <1>1 DEF AfterNodeStats, Sites, EndSites
    <2> QED
        BY <2>1, <2>2, <2>3
<1>6. /\ p.node < NodesPerLevel => [p EXCEPT !.node = @ + 1] \in Position
      /\ [p EXCEPT !.node = 1] \in Position
    BY DEF Position, Nodes
<1>7. AfterOutcomes(p) \in Position
    <2>1. p.level < NumLevels => p.level + 1 \in Levels /\ 1 \in Nodes
        BY DEF Position, Nodes, Levels
    <2>2. p.level < NumLevels => [p EXCEPT !.level = p.level + 1, !.node = 1] \in Position
        BY <2>1, MoveType
    <2> QED
        BY <1>1, <1>6, <2>2 DEF AfterOutcomes, Sites, EndSites
<1>8. Goto([p EXCEPT !.node = 1], "cut_counts") \in Position
    BY <1>6, GotoType DEF Sites, SampledSites
<1>9. {"fwd_stats", "fwd_sync", "outcomes", "workers_min", "workers_max", "exchange", "node",
       "visits", "cut_bytes", "rows_max", "lower_bound", "lb_bcast", "lp_solves", "ckpt_basis",
       "checkpoint", "final_basis", "done"} \subseteq Sites
    BY DEF Sites, ForwardSites, SampledSites, EndSites
<1> QED
    BY <1>1, <1>2, <1>3, <1>4, <1>5, <1>6, <1>7, <1>8, <1>9 DEF After

\* What a returned call tells a rank is a truth value.
LEMMA GoodType ==
    ASSUME NEW p
    PROVE  Good(p) \in BOOLEAN
BY DEF Good, AgreedOk

\* Every local step preserves the types.
LEMMA LocalStepType ==
    ASSUME TypeOK, NEW r \in Ranks, LocalStep(r)
    PROVE  TypeOK'
<1> USE DEF TypeOK
<1>1. CASE ForwardPass(r)
    BY <1>1 DEF ForwardPass, Enter, Send
<1>2. CASE RouteTrials(r)
    <2>1. PICK counts \in [Nodes -> 0 .. LocalWork(r)] : routed' = [routed EXCEPT ![r] = counts]
        BY <1>2 DEF RouteTrials
    <2>2. counts \in [Nodes -> Nat]
        OBVIOUS
    <2> QED
        BY <1>2, <2>1, <2>2 DEF RouteTrials, Enter
<1>3. CASE SolveNode(r)
    BY <1>3 DEF SolveNode, Enter, Send
<1>4. CASE SolveReplicated(r)
    <2>1. Fail(at[r]) \in Position
        BY GotoType DEF Fail, Sites, EndSites
    <2> QED
        BY <1>4, <2>1 DEF SolveReplicated, Enter
<1>5. CASE LowerBound(r)
    BY <1>5 DEF LowerBound, Enter, Send
<1>6. CASE UpdateConvergence(r)
    BY <1>6 DEF UpdateConvergence, Enter
<1>7. CASE WriteCheckpoint(r)
    BY <1>7 DEF WriteCheckpoint, Enter, Send
<1>8. CASE EnterFinalize(r)
    BY <1>8 DEF EnterFinalize, Enter, Send
<1>9. CASE EnterPlain(r)
    BY <1>9 DEF EnterPlain, Enter
<1> QED
    BY <1>1, <1>2, <1>3, <1>4, <1>5, <1>6, <1>7, <1>8, <1>9 DEF LocalStep

\* So does the return of a collective.
LEMMA ReturnType ==
    ASSUME TypeOK, Return
    PROVE  TypeOK'
<1>1. at' \in [Ranks -> Position]
    <2>1. \A r \in Ranks : After(at[r], Good(at[r]), populated'[r], stop[r]) \in Position
        BY AfterType, GoodType DEF TypeOK
    <2> QED
        BY <2>1 DEF Return
<1>2. populated' \in [Ranks -> SUBSET ((0 .. NumLevels) \X Nodes)]
    <2>1. \A r \in Ranks : PopulatedAfter(r) \in SUBSET ((0 .. NumLevels) \X Nodes)
        <3> TAKE r \in Ranks
        <3>1. at[r].level \in 0 .. NumLevels /\ at[r].node \in Nodes
            BY GraphAssumption DEF TypeOK, Position, Levels
        <3>2. Received(at[r]) \in SUBSET ((0 .. NumLevels) \X Nodes)
            BY <3>1 DEF Received
        <3> QED
            BY <3>1, <3>2 DEF PopulatedAfter, TypeOK
    <2> QED
        BY <2>1 DEF Return
<1>3. err' \in [Ranks -> BOOLEAN]
    BY DEF Return, TypeOK
<1>4. bound' \in [Ranks -> BOOLEAN]
    BY RootIsRank DEF Return, BoundAfter, TypeOK
<1>5. completed' \in [Ranks -> Iterations]
    BY DEF Return, CompletedAfter, TypeOK, Position
<1>6. outcome' \in [Ranks -> {"running", "ok", "error"}]
    BY DEF Return, TypeOK
<1> QED
    BY <1>1, <1>2, <1>3, <1>4, <1>5, <1>6 DEF Return, TypeOK

\* The training loop is well typed whatever fails and whichever mode it runs in.
THEOREM TypeCorrect == Spec => []TypeOK
<1>1. Init => TypeOK
    <2> SUFFICES ASSUME Init PROVE TypeOK
        OBVIOUS
    <2> USE GraphAssumption, IterationAssumption
    <2>1. /\ StartOfIteration(StartIteration) \in Position
          /\ StartIteration < MaxIterations => StartOfIteration(StartIteration + 1) \in Position
        BY DEF StartOfIteration, Position, Sites, ForwardSites, Iterations, Levels, Nodes
    <2>2. Goto(StartOfIteration(StartIteration), "finalize") \in Position
        BY <2>1, GotoType DEF Sites, EndSites
    <2>3. at \in [Ranks -> Position]
        BY <2>1, <2>2 DEF Init
    <2>4. populated \in [Ranks -> SUBSET ((0 .. NumLevels) \X Nodes)]
        BY DEF Init, Nodes
    <2> QED
        BY <2>3, <2>4 DEF Init, TypeOK, Iterations
<1>2. TypeOK /\ [Next]_vars => TypeOK'
    <2> SUFFICES ASSUME TypeOK, [Next]_vars PROVE TypeOK'
        OBVIOUS
    <2>1. CASE \E r \in Ranks : LocalStep(r)
        BY <2>1, LocalStepType
    <2>2. CASE Return
        BY <2>2, ReturnType
    <2>3. CASE UNCHANGED vars
        BY <2>3 DEF TypeOK, vars
    <2> QED
        BY <2>1, <2>2, <2>3 DEF Next, Terminated
<1> QED
    BY <1>1, <1>2, PTL DEF Spec

----------------------------------------------------------------------------
(* Lockstep *)

\* The initial state is the same on every rank.
LEMMA LockstepInit ==
    ASSUME Init
    PROVE  Lockstep
BY DEF Init, Lockstep, StartOfIteration, Goto

\* A local step leaves the shared part of the state alone, or changes it before
\* any rank branches on it.
LEMMA LockstepLocal ==
    ASSUME TypeOK, Lockstep, NEW r \in Ranks, LocalStep(r),
           ~TimeLimited, Flagged = {}
    PROVE  Lockstep'
<1> USE DEF Lockstep, TypeOK, Heading
<1>1. CASE ForwardPass(r)
    BY <1>1 DEF ForwardPass, Enter, Send
<1>2. CASE RouteTrials(r)
    <2>1. /\ at[r].site = "visits"
          /\ inCall' = [inCall EXCEPT ![r] = TRUE]
          /\ UNCHANGED <<at, err, flag, populated, bound, late, shutdown, stop,
                         completed, outcome>>
        BY <1>2 DEF RouteTrials, Enter
    <2> QED
        BY <2>1
<1>3. CASE SolveNode(r)
    BY <1>3 DEF SolveNode, Enter, Send
<1>4. CASE SolveReplicated(r)
    BY <1>4 DEF SolveReplicated
<1>5. CASE LowerBound(r)
    BY <1>5 DEF LowerBound, Enter, Send
<1>6. CASE UpdateConvergence(r)
    BY <1>6 DEF UpdateConvergence, Enter
<1>7. CASE WriteCheckpoint(r)
    BY <1>7 DEF WriteCheckpoint, Enter, Send
<1>8. CASE EnterFinalize(r)
    BY <1>8 DEF EnterFinalize, Enter, Send
<1>9. CASE EnterPlain(r)
    BY <1>9 DEF EnterPlain, Enter, PlainSites, ReconcileSites
<1> QED
    BY <1>1, <1>2, <1>3, <1>4, <1>5, <1>6, <1>7, <1>8, <1>9 DEF LocalStep

\* Only "lp_solves" leads to the checkpoint sites, only "lb_bcast" to "lp_solves",
\* only the final broadcast and a failed finalize out of the loop; the sampled
\* sweep never reaches "outcomes".
LEMMA AfterSite ==
    ASSUME NEW p \in Position, NEW good \in BOOLEAN, NEW pop, NEW stopNow \in BOOLEAN,
           ~Enumerated, p.site # "outcomes", p.site # "done"
    PROVE  LET q == After(p, good, pop, stopNow)
           IN  /\ q.site # "outcomes"
               /\ q.site = "lp_solves" => p.site = "lb_bcast"
               /\ q.site = "ckpt_basis" => p.site = "lp_solves"
               /\ q.site = "checkpoint" => p.site = "ckpt_basis"
               /\ q.site \in {"ckpt_basis", "checkpoint"} => q.iter = p.iter
               /\ q.site = "done" <=> p.site = "final_basis" \/ (p.site = "finalize" /\ ~good)
<1> DEFINE q == After(p, good, pop, stopNow)
<1>1. \A p1 \in Position, site \in Sites : Goto(p1, site).site = site /\ Goto(p1, site).iter = p1.iter
    BY DEF Goto, Position
<1>2. AfterIteration(p, stopNow).site \in {"finalize", "forward"}
    BY DEF AfterIteration, Goto, StartOfIteration, Position
<1>3. \A p1 \in Position : NextRegion(p1, pop).site \in {"metadata", "solver_stats"}
    BY DEF NextRegion, Goto, Position
<1>4. AfterNodeStats(p, pop).site \in {"metadata", "solver_stats", "exchange", "rows_sum"}
    <2>1. CASE p.node < NodesPerLevel
        <3>1. [p EXCEPT !.node = @ + 1] \in Position
            BY <2>1, GraphAssumption DEF Position, Nodes
        <3>2. p.node # NodesPerLevel
            BY <2>1, GraphAssumption DEF Position, Nodes
        <3>3. AfterNodeStats(p, pop) = NextRegion([p EXCEPT !.node = @ + 1], pop)
            BY <2>1, <3>2 DEF AfterNodeStats
        <3> QED
            BY <3>1, <3>3, <1>3
    <2>2. CASE ~(p.node < NodesPerLevel)
        BY <2>2 DEF AfterNodeStats, Goto, Position
    <2> QED
        BY <2>1, <2>2
<1>5. Goto([p EXCEPT !.node = 1], "cut_counts").site = "cut_counts"
    BY DEF Goto, Position
<1>6. p.site = "node" => q.site \in {"finalize", "node", "cut_counts"}
    BY <1>5 DEF After, Fail, Goto, Position
<1>7. p.site \in Sites
    BY DEF Position
<1>8. \A site \in Sites : Goto(p, site).site = site /\ Goto(p, site).iter = p.iter
    BY <1>1
<1>9. Fail(p).site = "finalize"
    BY <1>8 DEF Fail, Sites, EndSites
<1>10. CASE p.site \in {"forward", "fwd_stats", "fwd_sync", "workers_min", "workers_max",
                        "exchange", "visits", "cut_counts"}
    BY ZenonT(40), <1>10, <1>8, <1>9 DEF After, Sites, ForwardSites, SampledSites
<1>11. CASE p.site \in {"cut_bytes", "metadata", "solver_stats"}
    BY <1>11, <1>3, <1>4 DEF After
<1>12. CASE p.site \in {"rows_sum", "rows_max", "lower_bound", "lb_bcast"}
    BY ZenonT(40), <1>12, <1>8, <1>9 DEF After, Sites, EndSites
<1>13. CASE p.site \in {"lp_solves", "ckpt_basis", "checkpoint", "finalize", "final_basis"}
    BY ZenonT(40), <1>13, <1>2, <1>8, <1>9 DEF After, Sites, EndSites
<1>14. CASE p.site = "node"
    BY <1>14, <1>6
<1> QED
    BY <1>7, <1>10, <1>11, <1>12, <1>13, <1>14
       DEF Sites, ForwardSites, SampledSites, EndSites

\* All ranks leave a collective for the same position: what it tells them, their
\* cuts and, where it matters, their stopping decision are the same.
LEMMA LockstepReturn ==
    ASSUME TypeOK, Lockstep, Return, ~Enumerated
    PROVE  Lockstep'
<1> USE RootIsRank
<1> DEFINE p == at[Root]
           good == Good(p)
<1>1. /\ p \in Position /\ good \in BOOLEAN
      /\ p.site # "outcomes" /\ p.site # "done"
      /\ \A r \in Ranks : at[r] = p
    BY GoodType DEF TypeOK, Lockstep, Return
<1>2. \A r, s \in Ranks : populated'[r] = populated'[s]
    <2> TAKE r, s \in Ranks
    <2>1. at[r] = at[s] /\ populated[r] = populated[s]
        BY DEF Lockstep
    <2>2. PopulatedAfter(r) = PopulatedAfter(s)
        BY <2>1 DEF PopulatedAfter
    <2> QED
        BY <2>2 DEF Return
<1>3. p.site \in {"lp_solves", "checkpoint"} => \A r, s \in Ranks : stop[r] = stop[s]
    BY <1>1 DEF Lockstep, Return
<1>4. \A r \in Ranks : at'[r] = After(p, good, populated'[r], stop[r])
    BY <1>1 DEF Return
<1> HIDE DEF good
<1>5. \A r, s \in Ranks : at'[r] = at'[s]
    <2> TAKE r, s \in Ranks
    <2>1. CASE p.site \in {"lp_solves", "checkpoint"}
        BY <2>1, <1>2, <1>3, <1>4
    <2>2. CASE p.site \notin {"lp_solves", "checkpoint"}
        <3>1. After(p, good, populated'[r], stop[r]) = After(p, good, populated'[r], stop[s])
            BY <2>2 DEF After
        <3> QED
            BY <3>1, <1>2, <1>4
    <2> QED
        BY <2>1, <2>2
<1>6. \A r \in Ranks :
         /\ at'[r].site # "outcomes"
         /\ at'[r].site = "lp_solves" => p.site = "lb_bcast"
         /\ at'[r].site = "ckpt_basis" => p.site = "lp_solves"
         /\ at'[r].site = "checkpoint" => p.site = "ckpt_basis"
         /\ at'[r].site \in {"ckpt_basis", "checkpoint"} => at'[r].iter = p.iter
         /\ at'[r].site = "done" <=> p.site = "final_basis" \/ (p.site = "finalize" /\ ~good)
    BY <1>1, <1>4, AfterSite DEF TypeOK
<1>7. ~good /\ p.site # "finalize" => \A r \in Ranks : at'[r].site = "finalize"
    BY <1>1, <1>4 DEF After, Fail, Goto, Position, good, Good, ReconcileSites
<1>8. \A r \in Ranks :
         /\ err'[r] = (err[r] \/ (p.site # "finalize" /\ ~good))
         /\ inCall'[r] = FALSE
         /\ bound'[r] = IF p.site = "lb_bcast" THEN bound[Root] ELSE bound[r]
         /\ completed'[r] = IF p.site = "lp_solves" THEN p.iter ELSE completed[r]
         /\ outcome'[r] = CASE p.site = "final_basis" -> "ok"
                            [] p.site = "finalize" /\ ~AgreedOk -> "error"
                            [] OTHER -> outcome[r]
         /\ stop'[r] = stop[r] /\ late'[r] = late[r] /\ shutdown'[r] = shutdown[r]
    BY <1>1 DEF Return, BoundAfter, CompletedAfter, good
<1>9. p.site = "finalize" => good = AgreedOk
    BY DEF good, Good, ReconcileSites
<1>10. \A r \in Ranks : err[r] => p.site = "finalize" /\ ~AgreedOk
    BY <1>1 DEF Lockstep, Return, AgreedOk
<1>11. \A r \in Ranks : outcome[r] # "ok"
    BY <1>1 DEF Lockstep
<1>12. \A r, s \in Ranks :
          /\ err'[r] = err'[s]
          /\ completed'[r] = completed'[s]
          /\ outcome'[r] = outcome'[s]
          /\ at'[r].site = "lp_solves" => bound'[r] = bound'[s]
          /\ at'[r].site \in {"ckpt_basis", "checkpoint"} => stop'[r] = stop'[s]
    <2> TAKE r, s \in Ranks
    <2>1. err'[r] = err'[s]
        BY <1>8 DEF Lockstep
    <2>2. completed'[r] = completed'[s] /\ outcome'[r] = outcome'[s]
        BY <1>8 DEF Lockstep
    <2>3. at'[r].site = "lp_solves" => bound'[r] = bound'[s]
        BY <1>6, <1>8
    <2>4. at'[r].site \in {"ckpt_basis", "checkpoint"} => stop'[r] = stop'[s]
        BY <1>1, <1>3, <1>6, <1>8 DEF Lockstep
    <2> QED
        BY <2>1, <2>2, <2>3, <2>4
<1>13. \A r \in Ranks :
          at'[r].site \in {"ckpt_basis", "checkpoint"} => completed'[r] = at'[r].iter
    BY <1>1, <1>6, <1>8 DEF Lockstep
<1>14. \A r \in Ranks :
          /\ err'[r] => at'[r].site \in {"finalize", "done"}
          /\ outcome'[r] = "ok" => at'[r].site = "done" /\ ~err'[r]
    <2> TAKE r \in Ranks
    <2>1. err'[r] => at'[r].site \in {"finalize", "done"}
        BY <1>6, <1>7, <1>8, <1>9, <1>10
    <2>2. outcome'[r] = "ok" => p.site = "final_basis"
        BY <1>8, <1>11
    <2>3. p.site = "final_basis" => good
        BY DEF good, Good, ReconcileSites
    <2> QED
        BY <2>1, <2>2, <2>3, <1>6, <1>8, <1>10
<1>15. \A r \in Ranks : ~late'[r] /\ ~shutdown'[r]
    BY <1>8 DEF Lockstep
<1> QED
    BY <1>2, <1>5, <1>6, <1>8, <1>12, <1>13, <1>14, <1>15 DEF Lockstep

\* In a sampled run whose ranks stop on replicated data only (no per-rank clock,
\* no per-rank shutdown flag), the ranks run in lockstep for ever.
THEOREM SampledLockstep ==
    ASSUME ~Enumerated, ~TimeLimited, Flagged = {}
    PROVE  Spec => [](TypeOK /\ Lockstep)
<1>1. Init => Lockstep
    BY LockstepInit
<1>2. TypeOK /\ TypeOK' /\ Lockstep /\ [Next]_vars => Lockstep'
    <2> SUFFICES ASSUME TypeOK, Lockstep, [Next]_vars PROVE Lockstep'
        OBVIOUS
    <2>1. CASE \E r \in Ranks : LocalStep(r)
        BY <2>1, LockstepLocal
    <2>2. CASE Return
        BY <2>2, LockstepReturn
    <2>3. CASE UNCHANGED vars
        BY <2>3 DEF Lockstep, vars
    <2> QED
        BY <2>1, <2>2, <2>3 DEF Next, Terminated
<1> QED
    BY <1>1, <1>2, TypeCorrect, PTL DEF Spec

\* Hence no rank ever blocks in a collective its peers do not enter.
THEOREM SampledNoMismatchedCall ==
    ASSUME ~Enumerated, ~TimeLimited, Flagged = {}
    PROVE  Spec => []NoMismatchedCall
<1>1. TypeOK /\ Lockstep => NoMismatchedCall
    BY DEF Lockstep, NoMismatchedCall
<1> QED
    BY <1>1, SampledLockstep, PTL

\* The final basis broadcast is entered by all ranks or none.
THEOREM SampledBasisBroadcast ==
    ASSUME ~Enumerated, ~TimeLimited, Flagged = {}
    PROVE  Spec => []BasisAllOrNone
<1>1. TypeOK /\ Lockstep => BasisAllOrNone
    BY DEF Lockstep, BasisAllOrNone
<1> QED
    BY <1>1, SampledLockstep, PTL

\* train returns Ok only if no rank failed.
THEOREM SampledFailure ==
    ASSUME ~Enumerated, ~TimeLimited, Flagged = {}
    PROVE  Spec => []FailureIsGlobal
<1>1. TypeOK /\ Lockstep => FailureIsGlobal
    BY DEF Lockstep, FailureIsGlobal
<1> QED
    BY <1>1, SampledLockstep, PTL

\* train returns Ok on all ranks or none, after the same number of iterations.
THEOREM SampledResult ==
    ASSUME ~Enumerated, ~TimeLimited, Flagged = {}
    PROVE  Spec => []SameResult
<1>1. TypeOK /\ Lockstep => SameResult
    BY DEF Lockstep, SameResult
<1> QED
    BY <1>1, SampledLockstep, PTL

\* A checkpoint is written only for an iteration every rank has completed, with
\* all ranks at that iteration's boundary.
THEOREM SampledCheckpoint ==
    ASSUME ~Enumerated, ~TimeLimited, Flagged = {}
    PROVE  Spec => CheckpointAtBoundary
<1> DEFINE Boundary == \A r, s \in Ranks :
              saved'[r] # saved[r] =>
                  /\ saved'[r] = completed[s]
                  /\ at[s].site = "checkpoint" /\ at[s].iter = saved'[r]
<1>1. TypeOK /\ Lockstep /\ [Next]_vars => [Boundary]_vars
    <2> SUFFICES ASSUME TypeOK, Lockstep, [Next]_vars PROVE Boundary
        OBVIOUS
    <2>1. ASSUME NEW q \in Ranks, WriteCheckpoint(q) PROVE Boundary
        BY <2>1 DEF WriteCheckpoint, Heading, Lockstep, TypeOK
    <2>2. CASE UNCHANGED saved
        BY <2>2
    <2>3. (\E q \in Ranks : WriteCheckpoint(q)) \/ UNCHANGED saved
        BY DEF Next, LocalStep, ForwardPass, RouteTrials, SolveNode, SolveReplicated, LowerBound,
               UpdateConvergence, EnterFinalize, EnterPlain, Return, Terminated, vars
    <2> QED
        BY <2>1, <2>2, <2>3
<1> QED
    BY <1>1, SampledLockstep, PTL DEF Spec, CheckpointAtBoundary

----------------------------------------------------------------------------
(* Shutdown *)

\* A rank that has read its shutdown flag has stopped by the time it branches on it.
FlagRead ==
    \A r \in Ranks :
        shutdown[r] =>
            /\ at[r].site \in {"ckpt_basis", "checkpoint"} => stop[r]
            /\ at[r].site = "lp_solves" /\ inCall[r] => stop[r]

\* In every mode only "lp_solves" and "checkpoint" lead to another iteration, and only
\* without a stop; only "lp_solves" leads to the checkpoint sites.
LEMMA AfterIter ==
    ASSUME NEW p \in Position, NEW good \in BOOLEAN, NEW pop, NEW stopNow \in BOOLEAN
    PROVE  LET q == After(p, good, pop, stopNow)
           IN  /\ q.iter # p.iter => p.site \in {"lp_solves", "checkpoint"} /\ ~stopNow
               /\ q.site = "ckpt_basis" => p.site = "lp_solves"
               /\ q.site = "checkpoint" => p.site = "ckpt_basis"
<1> DEFINE q == After(p, good, pop, stopNow)
           Same(s) == s.iter = p.iter /\ s.site \notin {"ckpt_basis", "checkpoint"}
<1>1. \A p1 \in Position, site \in Sites : Goto(p1, site).site = site /\ Goto(p1, site).iter = p1.iter
    BY DEF Goto, Position
<1>2. \A site \in Sites \ {"ckpt_basis", "checkpoint"} : Same(Goto(p, site))
    BY <1>1
<1>3. Same(Fail(p))
    BY <1>2 DEF Fail, Sites, EndSites
<1>4. ASSUME NEW p1 \in Position, p1.iter = p.iter
      PROVE  Same(NextRegion(p1, pop))
    BY <1>4 DEF NextRegion, Goto, Position
<1>5. Same(AfterNodeStats(p, pop))
    <2>1. CASE p.node < NodesPerLevel
        <3>1. [p EXCEPT !.node = @ + 1] \in Position
            BY <2>1, GraphAssumption DEF Position, Nodes
        <3>2. p.node # NodesPerLevel /\ [p EXCEPT !.node = @ + 1].iter = p.iter
            BY <2>1, GraphAssumption DEF Position, Nodes
        <3>3. AfterNodeStats(p, pop) = NextRegion([p EXCEPT !.node = @ + 1], pop)
            BY <2>1, <3>2 DEF AfterNodeStats
        <3> QED
            BY <3>1, <3>2, <3>3, <1>4
    <2>2. CASE ~(p.node < NodesPerLevel)
        BY <2>2 DEF AfterNodeStats, Goto, Position
    <2> QED
        BY <2>1, <2>2
<1>6. Same(Goto([p EXCEPT !.node = 1], "cut_counts"))
    BY DEF Goto, Position
<1>7. p.site \in {"node", "outcomes"} => Same(q)
    BY <1>3, <1>6 DEF After, AfterOutcomes, Goto, Position
<1>8. /\ AfterIteration(p, stopNow).site \in {"finalize", "forward"}
      /\ stopNow => AfterIteration(p, stopNow).iter = p.iter
    BY DEF AfterIteration, Goto, StartOfIteration, Position
<1>9. p.site \in Sites
    BY DEF Position
<1> HIDE DEF Same
<1>10. CASE p.site \in {"forward", "fwd_stats", "fwd_sync", "workers_min", "workers_max",
                        "exchange", "visits", "cut_counts"}
    <2>1. Same(q)
        BY <1>10, <1>2, <1>3 DEF After, Sites, ForwardSites, SampledSites
    <2> QED
        BY <2>1 DEF Same
<1>11. CASE p.site \in {"cut_bytes", "metadata", "solver_stats"}
    <2>1. Same(q)
        BY <1>11, <1>4, <1>5 DEF After
    <2> QED
        BY <2>1 DEF Same
<1>12. CASE p.site \in {"rows_sum", "rows_max", "lower_bound", "lb_bcast", "finalize",
                        "final_basis", "done"}
    <2>1. Same(q)
        BY <1>12, <1>2, <1>3 DEF After, Sites, EndSites
    <2> QED
        BY <2>1 DEF Same
<1>13. CASE p.site \in {"node", "outcomes"}
    BY <1>13, <1>7 DEF Same
<1>14. CASE p.site \in {"lp_solves", "ckpt_basis", "checkpoint"}
    BY <1>14, <1>1, <1>3, <1>8 DEF After, Sites, EndSites, Same
<1> QED
    BY <1>9, <1>10, <1>11, <1>12, <1>13, <1>14
       DEF Sites, ForwardSites, SampledSites, EndSites

\* Local work keeps every rank in its iteration and makes a raised flag a stop.
LEMMA FlagReadLocal ==
    ASSUME TypeOK, FlagRead, NEW q \in Ranks, LocalStep(q)
    PROVE  FlagRead' /\ \A r \in Ranks : at'[r].iter = at[r].iter
<1> USE DEF FlagRead, TypeOK, Heading
<1>1. CASE ForwardPass(q)
    BY <1>1 DEF ForwardPass, Enter, Send
<1>2. CASE RouteTrials(q)
    <2>1. at[q].site = "visits" /\ inCall' = [inCall EXCEPT ![q] = TRUE]
          /\ UNCHANGED <<at, shutdown, stop>>
        BY <1>2 DEF RouteTrials, Enter
    <2> QED
        BY <2>1
<1>3. CASE SolveNode(q)
    BY <1>3 DEF SolveNode, Enter, Send
<1>4. CASE SolveReplicated(q)
    <2>0. Fail(at[q]).iter = at[q].iter /\ Fail(at[q]).site = "finalize"
        BY DEF Fail, Goto, Position
    <2>1. at' = at \/ at' = [at EXCEPT ![q] = Fail(@)]
        BY <1>4 DEF SolveReplicated
    <2>2. \A r \in Ranks : /\ at'[r].iter = at[r].iter
                           /\ at'[r].site = at[r].site \/ at'[r].site = "finalize"
        BY <2>0, <2>1
    <2>3. /\ UNCHANGED <<shutdown, stop>>
          /\ \A r \in Ranks : inCall'[r] # inCall[r] => at'[r].site = "outcomes"
        BY <1>4 DEF SolveReplicated, Enter
    <2> QED
        BY <2>2, <2>3
<1>5. CASE LowerBound(q)
    BY <1>5 DEF LowerBound, Enter, Send
<1>6. CASE UpdateConvergence(q)
    BY <1>6 DEF UpdateConvergence, Enter
<1>7. CASE WriteCheckpoint(q)
    BY <1>7 DEF WriteCheckpoint, Enter, Send
<1>8. CASE EnterFinalize(q)
    BY <1>8 DEF EnterFinalize, Enter, Send
<1>9. CASE EnterPlain(q)
    BY <1>9 DEF EnterPlain, Enter, PlainSites
<1> QED
    BY <1>1, <1>2, <1>3, <1>4, <1>5, <1>6, <1>7, <1>8, <1>9 DEF LocalStep

\* A collective takes no rank that has read its flag to another iteration.
LEMMA FlagReadReturn ==
    ASSUME TypeOK, FlagRead, Return
    PROVE  FlagRead' /\ \A r \in Ranks : shutdown[r] => at'[r].iter = at[r].iter
<1> SUFFICES ASSUME NEW r \in Ranks, shutdown[r]
             PROVE  /\ at'[r].iter = at[r].iter
                    /\ at'[r].site \in {"ckpt_basis", "checkpoint"} => stop[r]
    BY DEF FlagRead, Return
<1>1. /\ at[r] \in Position /\ Good(at[r]) \in BOOLEAN /\ stop[r] \in BOOLEAN
      /\ at'[r] = After(at[r], Good(at[r]), populated'[r], stop[r])
      /\ inCall[r]
    BY GoodType DEF TypeOK, Return
<1>2. at[r].site \in {"lp_solves", "checkpoint"} => stop[r]
    BY <1>1 DEF FlagRead
<1>3. at[r].site = "ckpt_basis" => stop[r]
    BY DEF FlagRead
<1>4. /\ at'[r].iter # at[r].iter => at[r].site \in {"lp_solves", "checkpoint"} /\ ~stop[r]
      /\ at'[r].site = "ckpt_basis" => at[r].site = "lp_solves"
      /\ at'[r].site = "checkpoint" => at[r].site = "ckpt_basis"
    BY <1>1, AfterIter
<1> QED
    BY <1>2, <1>3, <1>4

\* In every mode, with or without checkpoints: a rank that has read its shutdown flag
\* finishes its iteration and starts no other.
THEOREM ShutdownIsHonoured == Spec => ShutdownHonoured
<1> DEFINE Honoured == \A r \in Ranks : shutdown[r] => at'[r].iter = at[r].iter
<1>1. Init => FlagRead
    BY DEF Init, FlagRead
<1>2. TypeOK /\ FlagRead /\ [Next]_vars => FlagRead' /\ [Honoured]_vars
    <2> SUFFICES ASSUME TypeOK, FlagRead, [Next]_vars PROVE FlagRead' /\ Honoured
        OBVIOUS
    <2>1. CASE \E r \in Ranks : LocalStep(r)
        BY <2>1, FlagReadLocal
    <2>2. CASE Return
        BY <2>2, FlagReadReturn
    <2>3. CASE UNCHANGED vars
        BY <2>3 DEF FlagRead, vars
    <2> QED
        BY <2>1, <2>2, <2>3 DEF Next, Terminated
<1> QED
    BY <1>1, <1>2, TypeCorrect, PTL DEF Spec, ShutdownHonoured

=============================================================================
