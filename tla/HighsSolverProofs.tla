------------------------- MODULE HighsSolverProofs -------------------------
(***************************************************************************)
(* The options a solver runs with and the verdicts it returns, for every    *)
(* profile, LP size, cap and number of solves.                              *)
(***************************************************************************)
EXTENDS HighsSolver, FiniteSetTheorems, WellFoundedInduction, TLAPS

Presolves == {"on"} \cup {p.presolve : p \in Profiles}
Rests == {p.rest : p \in Profiles}
Options == [solver : {"simplex", "ipm"}, presolve : Presolves, tol : Nat, perturb : Nat,
            rest : Rests, limit : Nat, objScale : {0, -10, -13}, boundScale : {0, -5, -8}]

Unscaled(o) == o.objScale = 0 /\ o.boundScale = 0

\* Levels 5 to 8 inherit the scales, and find them unset; from level 0 on, no run starts
\* from another LP's basis.
LadderInv ==
    /\ TypeOK
    /\ OptionsInForce
    /\ pc = "retry" => level \in Levels
    /\ pc = "ladder" /\ level <= 8 => Unscaled(options)
    /\ pc = "retry" /\ level <= 7 => Unscaled(options)
    /\ pc = "retry" \/ (pc = "ladder" /\ level > 0) => ~warm

VerdictInv == LadderInv /\ NoFalseInfeasible

LEMMA ConstantTypes ==
    /\ Unlimited \in Nat /\ LimitFloor \in Nat /\ LimitPerCol \in Nat /\ MaxSolves \in Nat
    /\ DefaultProfile \in Profiles
    /\ \A p \in Profiles :
          /\ p.tol \in Nat /\ p.perturb \in Nat /\ p.limit \in Nat
          /\ p.presolve \in Presolves /\ p.rest \in Rests
    /\ "on" \in Presolves
    /\ \A n \in Cols \cup {0} : n \in Nat
    BY SolverAssumption DEF Presolves, Rests

LEMMA LimitType ==
    ASSUME NEW p \in Profiles, NEW n \in Cols \cup {0}
    PROVE  Limit(p, n) \in Nat
<1>1. LimitPerCol * n \in Nat /\ LimitFloor \in Nat /\ p.limit \in Nat
    BY ConstantTypes
<1> QED BY <1>1 DEF Limit, Larger

LEMMA FreshType == Fresh \in Options /\ Unscaled(Fresh) /\ Fresh.limit = Unlimited
    BY ConstantTypes DEF Fresh, Options, Unscaled

LEMMA ProfileType ==
    ASSUME NEW o \in Options, NEW p \in Profiles
    PROVE  /\ WithProfile(o, p) \in Options
           /\ Unscaled(o) => Unscaled(WithProfile(o, p))
           /\ WithProfile(o, p).limit = o.limit
    BY ConstantTypes DEF WithProfile, Taking, Profiled, Kept, Options, Unscaled

\* A profile overrides an earlier one.
LEMMA ProfileOverrides ==
    ASSUME NEW o \in Options, NEW p \in Profiles, NEW q \in Profiles
    PROVE  WithProfile(WithProfile(o, p), q) = WithProfile(o, q)
    BY DEF WithProfile, Taking, Profiled, Kept

\* Setting the limit twice keeps the second.
LEMMA LimitOverrides ==
    ASSUME NEW o \in Options, NEW k \in Nat, NEW l \in Nat
    PROVE  /\ [o EXCEPT !.limit = k] \in Options
           /\ Unscaled(o) => Unscaled([o EXCEPT !.limit = k])
           /\ [[o EXCEPT !.limit = k] EXCEPT !.limit = l] = [o EXCEPT !.limit = l]
           /\ o.limit = l => [o EXCEPT !.limit = l] = o
    BY DEF Options, Unscaled

\* Whatever the levels did, what follows the ladder is the profile's configuration.
LEMMA RestoredIsProfiled ==
    ASSUME NEW o \in Options, NEW p \in Profiles
    PROVE  Restored(o, p) = [WithProfile(Fresh, p) EXCEPT !.limit = Unlimited]
<1>1. Restored(o, p) = WithProfile(Fresh, p)
    BY FreshType DEF Restored, RestoreDefaults, WithProfile, Taking, Kept, Profiled, Options
<1>2. WithProfile(Fresh, p) \in Options /\ WithProfile(Fresh, p).limit = Unlimited
    BY FreshType, ProfileType
<1>3. [WithProfile(Fresh, p) EXCEPT !.limit = Unlimited] = WithProfile(Fresh, p)
    BY <1>2, ConstantTypes, LimitOverrides
<1> QED BY <1>1, <1>3

\* A phase 2 level depends on the options before it by their scales alone.
LEMMA ExtendedStartsFresh ==
    ASSUME NEW o \in Options, NEW p \in Profiles, NEW n \in Cols \cup {0}, NEW l \in 5 .. 11,
           l <= 8 => Unscaled(o)
    PROVE  /\ Extended(o, p, n, l) = Extended(Fresh, p, n, l)
           /\ Extended(o, p, n, l) \in Options
           /\ l <= 7 => Unscaled(Extended(o, p, n, l))
<1> DEFINE restored(q) == WithLimits(RestoreDefaults(q), p, n)
           base(q) == [restored(q) EXCEPT !.presolve = "on"]
<1>1. Limit(p, n) \in Nat /\ p.tol \in Nat
    BY LimitType, ConstantTypes
<1>2. ASSUME NEW q \in Options
      PROVE  /\ RestoreDefaults(q) \in Options
             /\ RestoreDefaults(q).objScale = q.objScale
             /\ RestoreDefaults(q).boundScale = q.boundScale
    BY FreshType DEF RestoreDefaults, Taking, Kept, Profiled, Options
<1>3. ASSUME NEW q \in Options
      PROVE  /\ restored(q) \in Options
             /\ restored(q).objScale = q.objScale /\ restored(q).boundScale = q.boundScale
    BY <1>1, <1>2 DEF WithLimits, Options
<1>4. ASSUME NEW q \in Options
      PROVE  /\ base(q) \in Options
             /\ base(q).objScale = q.objScale /\ base(q).boundScale = q.boundScale
    BY <1>3, ConstantTypes DEF Options
<1>5. \A f \in Profiled \cup {"solver", "limit"} : base(o)[f] = base(Fresh)[f]
  <2>1. \A f \in Profiled \cup {"solver"} : RestoreDefaults(o)[f] = RestoreDefaults(Fresh)[f]
      BY DEF RestoreDefaults, Taking, Kept, Profiled
  <2>2. \A f \in Profiled \cup {"solver", "limit"} : restored(o)[f] = restored(Fresh)[f]
      BY <1>2, <2>1, FreshType DEF WithLimits, Options, Profiled
  <2> QED BY <1>3, <2>2, FreshType DEF Options, Profiled
<1> HIDE DEF base
<1>6. ASSUME NEW q
      PROVE  /\ l \in {5, 6} => Extended(q, p, n, l) = base(q)
             /\ l = 7 => Extended(q, p, n, l) = Loosened(base(q), p, 10)
             /\ l = 8 => Extended(q, p, n, l) = [base(q) EXCEPT !.objScale = -10]
             /\ l = 9 => Extended(q, p, n, l) = Scaled(base(q), -10, -5)
             /\ l = 10 => Extended(q, p, n, l) = Loosened(Scaled(base(q), -13, -8), p, 100)
             /\ l = 11 => Extended(q, p, n, l)
                            = Loosened([Scaled(base(q), -10, -5) EXCEPT !.solver = "ipm"], p, 100)
    BY DEF Extended, base
<1>7. Larger(10, p.tol) \in Nat /\ Larger(100, p.tol) \in Nat
    BY <1>1 DEF Larger
<1>8. base(o) \in Options /\ base(Fresh) \in Options
    BY <1>4, FreshType
<1>9. CASE l <= 8
  <2>1. base(o) = base(Fresh) /\ Unscaled(base(o))
      BY <1>4, <1>5, <1>8, <1>9, FreshType DEF Unscaled, Options, Profiled
  <2>2. l \in {5, 6} \/ l = 7 \/ l = 8
      BY <1>9
  <2>3. /\ Loosened(base(o), p, 10) \in Options
        /\ Unscaled(Loosened(base(o), p, 10))
        /\ [base(o) EXCEPT !.objScale = -10] \in Options
      BY <1>7, <1>8, <2>1 DEF Loosened, Options, Unscaled
  <2>4. CASE l \in {5, 6}
      BY <1>6, <1>8, <2>1, <2>4
  <2>5. CASE l = 7
      BY <1>6, <2>1, <2>3, <2>5
  <2>6. CASE l = 8
      BY <1>6, <2>1, <2>3, <2>6
  <2> QED BY <2>2, <2>4, <2>5, <2>6
<1>10. CASE l >= 9
  <2>1. ASSUME NEW i \in {-10, -13}, NEW j \in {-5, -8}
        PROVE  /\ Scaled(base(o), i, j) = Scaled(base(Fresh), i, j)
               /\ Scaled(base(o), i, j) \in Options
    <3>1. Scaled(base(o), i, j) = Scaled(base(Fresh), i, j)
        BY <1>5 DEF Scaled, Taking, Profiled, Kept
    <3>2. Scaled(base(o), i, j) \in Options
        BY <1>8 DEF Scaled, Taking, Profiled, Kept, Options
    <3> QED BY <3>1, <3>2
  <2>2. ASSUME NEW q \in Options
        PROVE  /\ [q EXCEPT !.solver = "ipm"] \in Options
               /\ Loosened(q, p, 100) \in Options
      BY <1>7 DEF Loosened, Options
  <2>3. CASE l = 9
      BY <1>6, <2>1, <2>3
  <2>4. CASE l = 10
    <3>1. Scaled(base(o), -13, -8) = Scaled(base(Fresh), -13, -8)
        BY <2>1
    <3>2. Loosened(Scaled(base(o), -13, -8), p, 100) \in Options
        BY <2>1, <2>2
    <3>3. /\ Extended(o, p, n, l) = Loosened(Scaled(base(o), -13, -8), p, 100)
          /\ Extended(Fresh, p, n, l) = Loosened(Scaled(base(Fresh), -13, -8), p, 100)
        BY <1>6, <2>4
    <3> QED BY <2>4, <3>1, <3>2, <3>3
  <2>5. CASE l = 11
    <3> DEFINE ipm(q) == [Scaled(q, -10, -5) EXCEPT !.solver = "ipm"]
    <3>1. Scaled(base(o), -10, -5) = Scaled(base(Fresh), -10, -5)
        BY <2>1
    <3>2. Loosened(ipm(base(o)), p, 100) \in Options
        BY <2>1, <2>2
    <3>3. /\ Extended(o, p, n, l) = Loosened(ipm(base(o)), p, 100)
          /\ Extended(Fresh, p, n, l) = Loosened(ipm(base(Fresh)), p, 100)
        BY <1>6, <2>5
    <3> QED BY <2>5, <3>1, <3>2, <3>3
  <2> QED BY <1>10, <2>3, <2>4, <2>5
<1> QED BY <1>9, <1>10

LEMMA LevelType ==
    ASSUME NEW o \in Options, NEW p \in Profiles, NEW n \in Cols \cup {0}, NEW l \in Levels,
           l <= 8 => Unscaled(o)
    PROVE  /\ AtLevel(o, p, n, l) \in Options
           /\ l <= 7 => Unscaled(AtLevel(o, p, n, l))
           /\ l >= 5 => AtLevel(o, p, n, l) = Extended(Fresh, p, n, l)
<1>1. Limit(p, n) \in Nat /\ Larger(10, p.tol) \in Nat
    BY LimitType, ConstantTypes DEF Larger
<1>2. CASE l >= 5
  <2>1. l \in 5 .. 11 /\ AtLevel(o, p, n, l) = Extended(o, p, n, l)
      BY <1>2 DEF AtLevel, Levels
  <2> QED BY <2>1, ExtendedStartsFresh
<1>3. CASE l = 0
  <2>0. Unscaled(o)
      BY <1>3
  <2>1. WithLimits(o, p, n) \in Options /\ Unscaled(WithLimits(o, p, n))
      BY <1>1, <2>0, LimitOverrides DEF WithLimits
  <2>2. AtLevel(o, p, n, l) = [WithLimits(o, p, n) EXCEPT !.perturb = 1]
      BY <1>3 DEF AtLevel
  <2>3. [WithLimits(o, p, n) EXCEPT !.perturb = 1] \in Options
      BY <2>1 DEF Options
  <2>4. Unscaled([WithLimits(o, p, n) EXCEPT !.perturb = 1])
      BY <2>1 DEF Options, Unscaled
  <2> QED BY <1>3, <2>2, <2>3, <2>4
<1>4. CASE l = 1
    BY <1>4, ConstantTypes DEF AtLevel, Options, Unscaled
<1>5. CASE l = 2
    BY <1>5 DEF AtLevel
<1>6. CASE l = 3
    BY <1>1, <1>6 DEF AtLevel, Loosened, Options, Unscaled
<1>7. CASE l = 4
    BY <1>7 DEF AtLevel, Options, Unscaled
<1> QED BY <1>2, <1>3, <1>4, <1>5, <1>6, <1>7 DEF Levels

Stats == [solves : Nat, ok : Nat, failed : Nat, firstTry : Nat, retries : Nat,
          recovered : [Levels -> Nat], offered : Nat, rejected : Nat]

LEMMA StatsType ==
    ASSUME NEW s \in Stats, NEW k \in Nat
    PROVE  /\ [s EXCEPT !.rejected = @ + 1] \in Stats
           /\ [s EXCEPT !.rejected = @ + 1, !.offered = @ + 1] \in Stats
           /\ \A offer \in BOOLEAN :
                [s EXCEPT !.solves = @ + 1, !.offered = IF offer THEN @ + 1 ELSE @] \in Stats
           /\ [s EXCEPT !.ok = @ + 1, !.firstTry = @ + 1] \in Stats
           /\ [s EXCEPT !.failed = @ + 1] \in Stats
           /\ [s EXCEPT !.failed = @ + 1, !.retries = @ + k + 1] \in Stats
           /\ [s EXCEPT !.failed = @ + 1, !.retries = @ + k] \in Stats
           /\ k \in Levels =>
                [s EXCEPT !.ok = @ + 1, !.retries = @ + k + 1, !.recovered[k] = @ + 1] \in Stats
<1>1. ASSUME NEW a \in Nat, NEW b \in Nat
      PROVE  /\ [s EXCEPT !.rejected = a, !.offered = b] \in Stats
             /\ [s EXCEPT !.solves = a, !.offered = b] \in Stats
             /\ [s EXCEPT !.ok = a, !.firstTry = b] \in Stats
             /\ [s EXCEPT !.ok = a, !.retries = b] \in Stats
             /\ [s EXCEPT !.failed = a, !.retries = b] \in Stats
    BY DEF Stats
<1>2. /\ \A f \in {"solves", "ok", "failed", "firstTry", "retries", "offered", "rejected"} :
            s[f] \in Nat /\ s[f] + 1 \in Nat
      /\ s.retries + k \in Nat /\ s.retries + k + 1 \in Nat
    BY DEF Stats
<1>3. /\ [s EXCEPT !.rejected = @ + 1] \in Stats
      /\ [s EXCEPT !.failed = @ + 1] \in Stats
    BY <1>2 DEF Stats
<1>4. ASSUME k \in Levels
      PROVE  [s EXCEPT !.ok = @ + 1, !.retries = @ + k + 1, !.recovered[k] = @ + 1] \in Stats
  <2>1. PICK t \in Stats : t = [s EXCEPT !.ok = @ + 1, !.retries = @ + k + 1]
      BY <1>1, <1>2
  <2>2. [s EXCEPT !.ok = @ + 1, !.retries = @ + k + 1, !.recovered[k] = @ + 1]
            = [t EXCEPT !.recovered[k] = @ + 1]
      BY <2>1
  <2>3. [t EXCEPT !.recovered[k] = @ + 1] \in Stats
      BY <1>4 DEF Stats
  <2> QED BY <2>2, <2>3
<1>5. \A offer \in BOOLEAN :
        [s EXCEPT !.solves = @ + 1, !.offered = IF offer THEN @ + 1 ELSE @] \in Stats
  <2>1. ASSUME NEW offer \in BOOLEAN
        PROVE  (IF offer THEN s.offered + 1 ELSE s.offered) \in Nat
      BY <1>2
  <2> QED BY <1>1, <1>2, <2>1
<1> QED BY <1>1, <1>2, <1>3, <1>4, <1>5

OtherTypes ==
    /\ pc \in {"idle", "first", "ladder", "retry"}
    /\ profile \in Profiles /\ cols \in Cols \cup {0} /\ nature \in Natures
    /\ warm \in BOOLEAN /\ unbounded \in BOOLEAN /\ level \in 0 .. 12
    /\ result \in {"none", "Ok"} \cup Errors

LEMMA TypeParts == TypeOK <=> options \in Options /\ stats \in Stats /\ OtherTypes
    BY DEF TypeOK, Options, Stats, OtherTypes, Presolves, Rests

LEMMA TypePartsNext ==
    ASSUME options' \in Options, stats' \in Stats, OtherTypes'
    PROVE  TypeOK'
    BY DEF TypeOK, Options, Stats, OtherTypes, Presolves, Rests

LEMMA LadderInit == Init => VerdictInv
<1> SUFFICES ASSUME Init PROVE VerdictInv
    OBVIOUS
<1> USE DEF Init
<1>1. options \in Options /\ stats \in Stats
    BY FreshType DEF Stats, Levels
<1>2. TypeOK
  <2>1. warm \in BOOLEAN /\ unbounded \in BOOLEAN
      OBVIOUS
  <2>0. level \in 0 .. 12
      OBVIOUS
  <2>2. OtherTypes
      BY <2>1, <2>0, ConstantTypes DEF OtherTypes, Natures
  <2> HIDE DEF Init
  <2> QED BY <1>1, <2>2, TypeParts
<1>3. options = ForPhase(Unlimited)
  <2>1. WithProfile(Fresh, DefaultProfile) \in Options
      BY FreshType, ConstantTypes, ProfileType
  <2>2. \A f \in Profiled : Fresh[f] = DefaultProfile[f]
      BY SolverAssumption DEF Fresh, Profiled
  <2>3. WithProfile(Fresh, DefaultProfile) = Fresh
      BY <2>1, <2>2, FreshType DEF WithProfile, Taking, Profiled, Kept, Options
  <2> QED BY <2>3, FreshType, ConstantTypes, LimitOverrides DEF ForPhase
<1> QED BY <1>2, <1>3 DEF VerdictInv, LadderInv, OptionsInForce, NoFalseInfeasible

\* A call that returns with the phase's options and no false verdict keeps the invariant.
LEMMA ReturnKeeps ==
    ASSUME VerdictInv, NEW r \in {"Ok"} \cup Errors, NEW o, o = ForPhase(Unlimited), Return(r, o),
           r = "Infeasible" => nature # "feasible", stats' \in Stats
    PROVE  VerdictInv'
<1>1. TypeOK /\ OtherTypes
    BY TypeParts DEF VerdictInv, LadderInv
<1>2. ForPhase(Unlimited) \in Options
    BY <1>1, FreshType, ProfileType, ConstantTypes, LimitOverrides DEF ForPhase, OtherTypes
<1>3. options' = ForPhase(Unlimited) /\ ForPhase(Unlimited)' = ForPhase(Unlimited)
    BY DEF Return, ForPhase
<1>4. OtherTypes'
  <2>1. level' \in 0 .. 12 /\ result' \in {"none", "Ok"} \cup Errors
      BY DEF Return
  <2>2. warm' \in BOOLEAN /\ unbounded' \in BOOLEAN /\ pc' = "idle"
        /\ profile' = profile /\ cols' = cols /\ nature' = nature
      BY DEF Return
  <2> QED BY <1>1, <2>1, <2>2 DEF OtherTypes
<1>5. TypeOK'
  <2>1. options' \in Options /\ stats' \in Stats
      BY <1>2, <1>3
  <2> QED BY <1>4, <2>1, TypePartsNext
<1>6. OptionsInForce'
    BY <1>3 DEF OptionsInForce, Return
<1> QED BY <1>5, <1>6 DEF VerdictInv, LadderInv, NoFalseInfeasible, Return

LEMMA LadderNext == VerdictInv /\ [Next]_vars => VerdictInv'
<1> SUFFICES ASSUME VerdictInv, [Next]_vars PROVE VerdictInv'
    OBVIOUS
<1> USE DEF VerdictInv, LadderInv
<1>1. options \in Options /\ stats \in Stats /\ OtherTypes
    BY TypeParts
<1>2. options' \in Options /\ stats' \in Stats /\ OtherTypes' => TypeOK'
    BY TypePartsNext
<1>3. /\ \A k \in Nat : ForPhase(k) \in Options /\ Unscaled(ForPhase(k))
      /\ [ForPhase(Limit(profile, cols)) EXCEPT !.limit = Unlimited] = ForPhase(Unlimited)
      /\ WithLimits(ForPhase(Unlimited), profile, cols) = ForPhase(Limit(profile, cols))
  <2>1. WithProfile(Fresh, profile) \in Options /\ Unscaled(WithProfile(Fresh, profile))
      BY <1>1, FreshType, ProfileType DEF OtherTypes
  <2>2. Limit(profile, cols) \in Nat /\ Unlimited \in Nat
      BY <1>1, LimitType, ConstantTypes DEF OtherTypes
  <2>3. \A k \in Nat : ForPhase(k) \in Options /\ Unscaled(ForPhase(k))
      BY <2>1, LimitOverrides DEF ForPhase
  <2>4. [ForPhase(Limit(profile, cols)) EXCEPT !.limit = Unlimited] = ForPhase(Unlimited)
      BY ZenonT(40), <2>1, <2>2, LimitOverrides DEF ForPhase
  <2>5. WithLimits(ForPhase(Unlimited), profile, cols) = ForPhase(Limit(profile, cols))
      BY ZenonT(40), <2>1, <2>2, LimitOverrides DEF ForPhase, WithLimits
  <2> QED BY <2>3, <2>4, <2>5
<1>4. Unlimited \in Nat /\ Limit(profile, cols) \in Nat
    BY <1>1, LimitType, ConstantTypes DEF OtherTypes
<1>5. CASE SetProfile
  <2>1. PICK p \in Profiles : profile' = p /\ options' = WithProfile(options, p)
      BY <1>5 DEF SetProfile
  <2>2. options = ForPhase(Unlimited) /\ WithProfile(Fresh, profile) \in Options
      BY <1>1, <1>5, FreshType, ProfileType DEF SetProfile, OptionsInForce, OtherTypes
  <2>3. options' = ForPhase(Unlimited)'
    <3>1. options' = WithProfile([WithProfile(Fresh, profile) EXCEPT !.limit = Unlimited], p)
        BY <2>1, <2>2 DEF ForPhase
    <3>2. options'= [WithProfile(Fresh, p) EXCEPT !.limit = Unlimited]
        BY <2>1, <2>2, <3>1, FreshType, ProfileType DEF Options, WithProfile, Taking, Kept, Profiled
    <3> QED BY <2>1, <3>2 DEF ForPhase
  <2>4. options' \in Options
      BY <1>1, <2>1, ProfileType
  <2>5. OtherTypes' /\ stats' = stats /\ pc' = "idle" /\ result' = result /\ nature' = nature
      BY <1>1, <1>5, <2>1 DEF SetProfile, OtherTypes, callVars
  <2>6. TypeOK'
      BY <1>1, <1>2, <2>4, <2>5
  <2> QED BY <2>3, <2>5, <2>6 DEF OptionsInForce, NoFalseInfeasible
<1>6. ASSUME LoadModel \/ Patch \/ ResetLoaded \/ RejectShortBasis \/ RejectInconsistentBasis
      PROVE  VerdictInv'
  <2>1. /\ pc = "idle" /\ pc' = "idle" /\ options' = options /\ profile' = profile
        /\ result' # "Infeasible" \/ (result' = result /\ nature' = nature)
      BY <1>6 DEF LoadModel, Patch, ResetLoaded, RejectShortBasis, RejectInconsistentBasis, callVars
  <2>2. OtherTypes'
      BY <1>1, <1>6 DEF LoadModel, Patch, ResetLoaded, RejectShortBasis, RejectInconsistentBasis,
                        callVars, OtherTypes, Errors
  <2>3. stats' \in Stats
      BY <1>1, <1>6, StatsType DEF LoadModel, Patch, ResetLoaded, RejectShortBasis,
                                   RejectInconsistentBasis
  <2>4. OptionsInForce'
      BY <2>1 DEF OptionsInForce, ForPhase
  <2> QED BY <1>1, <1>2, <2>1, <2>2, <2>3, <2>4 DEF NoFalseInfeasible
<1>7. CASE BeginSolve
  <2>1. pc' = "first" /\ result' = "none" /\ profile' = profile /\ cols' = cols
      BY <1>7 DEF BeginSolve
  <2>2. options' = ForPhase(Limit(profile, cols))
      BY <1>3, <1>7 DEF BeginSolve, OptionsInForce
  <2>3. OtherTypes' /\ stats' \in Stats
      BY <1>1, <1>7, StatsType DEF BeginSolve, OtherTypes
  <2>4. OptionsInForce'
      BY <2>1, <2>2 DEF OptionsInForce, ForPhase
  <2> QED BY <1>2, <1>3, <1>4, <2>1, <2>2, <2>3, <2>4 DEF NoFalseInfeasible
<1>8. CASE FirstOptimal
  <2>1. stats' \in Stats
      BY <1>1, <1>8, StatsType DEF FirstOptimal
  <2>2. [options EXCEPT !.limit = Unlimited] = ForPhase(Unlimited)
      BY <1>3, <1>8 DEF FirstOptimal, OptionsInForce
  <2> QED BY <1>8, <2>1, <2>2, ReturnKeeps DEF FirstOptimal
<1>9. CASE FirstTerminal
  <2>1. stats' \in Stats
      BY <1>1, <1>9, StatsType DEF FirstTerminal
  <2>2. [options EXCEPT !.limit = Unlimited] = ForPhase(Unlimited)
      BY <1>3, <1>9 DEF FirstTerminal, OptionsInForce
  <2>3. PICK status \in Reports(warm) \ {"optimal"} :
            /\ ~FirstRetryable(status, FALSE)
            /\ \E e \in Terminal(status) : Return(e, [options EXCEPT !.limit = Unlimited])
      BY <1>9 DEF FirstTerminal
  <2>4. PICK e \in Terminal(status) : Return(e, [options EXCEPT !.limit = Unlimited])
      BY <2>3
  <2>5. e \in Errors /\ (e = "Infeasible" => nature # "feasible")
      BY <2>3, <2>4 DEF FirstRetryable, Terminal, Reports, Errors
  <2> QED BY <2>1, <2>2, <2>4, <2>5, ReturnKeeps
<1>10. CASE Escalate
  <2>1. /\ pc = "first" /\ pc' = "ladder" /\ level' = 0 /\ unbounded' \in BOOLEAN
        /\ UNCHANGED <<options, profile, cols, nature, warm, result, stats>>
      BY <1>10 DEF Escalate
  <2>2. OtherTypes'
      BY <1>1, <2>1 DEF OtherTypes
  <2>3. Unscaled(options)
      BY <1>3, <1>4, <2>1 DEF OptionsInForce
  <2> QED BY <1>1, <1>2, <2>1, <2>2, <2>3 DEF OptionsInForce, NoFalseInfeasible, Unscaled
<1>11. CASE BeginLevel
  <2>1. /\ pc = "ladder" /\ pc' = "retry" /\ level \in Levels /\ level' = level
        /\ options' = AtLevel(options, profile, cols, level)
        /\ warm' = (warm /\ level # 0)
        /\ UNCHANGED <<profile, cols, nature, unbounded, result, stats>>
      BY <1>11 DEF BeginLevel, callVars
  <2>2. /\ options' \in Options /\ (level <= 7 => Unscaled(options'))
        /\ (level >= 5 => options' = Extended(Fresh, profile, cols, level))
      BY <1>1, <2>1, LevelType DEF OtherTypes
  <2>3. OtherTypes' /\ ~warm'
    <3>1. level = 0 \/ level > 0
        BY <2>1 DEF Levels
    <3>2. ~warm' /\ warm' \in BOOLEAN
        BY <2>1, <3>1
    <3> QED BY <1>1, <2>1, <3>2 DEF OtherTypes
  <2>4. OptionsInForce'
      BY <2>1, <2>2 DEF OptionsInForce
  <2> QED BY <1>1, <1>2, <2>1, <2>2, <2>3, <2>4 DEF NoFalseInfeasible, Unscaled
<1>12. ASSUME pc = "retry"
       PROVE  /\ level \in Levels /\ level \in Nat /\ ~warm
              /\ Restored(options, profile) = ForPhase(Unlimited)
  <2>1. Restored(options, profile) = ForPhase(Unlimited)
      BY <1>1, RestoredIsProfiled DEF ForPhase, OtherTypes
  <2> QED BY <1>12, <2>1 DEF Levels
<1>13. CASE Recover
  <2>1. stats' \in Stats
      BY <1>1, <1>12, <1>13, StatsType DEF Recover
  <2> QED BY <1>12, <1>13, <2>1, ReturnKeeps DEF Recover
<1>14. CASE LevelTerminal
  <2>1. pc = "retry" /\ stats' \in Stats
      BY <1>1, <1>12, <1>14, StatsType DEF LevelTerminal
  <2>2. PICK status \in Reports(warm) \ {"optimal"} :
            /\ ~LevelRetryable(status, FALSE)
            /\ \E e \in Terminal(status) : Return(e, Restored(options, profile))
      BY <1>14 DEF LevelTerminal
  <2>3. PICK e \in Terminal(status) : Return(e, Restored(options, profile))
      BY <2>2
  <2>4. e \in Errors /\ (e = "Infeasible" => nature # "feasible")
      BY <1>12, <2>1, <2>2, <2>3 DEF LevelRetryable, Terminal, Reports, Errors
  <2> QED BY <1>12, <2>1, <2>3, <2>4, ReturnKeeps
<1>15. CASE NextLevel
  <2>1. /\ pc = "retry" /\ pc' = "ladder" /\ level' = level + 1
        /\ UNCHANGED <<options, profile, cols, nature, warm, unbounded, result, stats>>
      BY <1>15 DEF NextLevel
  <2>2. level \in 0 .. 11 /\ ~warm
      BY <1>12, <2>1 DEF Levels
  <2>3. OtherTypes'
      BY <1>1, <2>1, <2>2 DEF OtherTypes
  <2>4. level' <= 8 => Unscaled(options')
    <3>1. level' <= 8 => level <= 7
        BY <2>1, <2>2
    <3> QED BY <2>1, <3>1
  <2> QED BY <1>1, <1>2, <2>1, <2>2, <2>3, <2>4 DEF OptionsInForce, NoFalseInfeasible
<1>16. CASE GiveUp
  <2>1. Restored(options, profile) = ForPhase(Unlimited)
      BY <1>1, RestoredIsProfiled DEF ForPhase, OtherTypes
  <2>2. level \in Nat
      BY <1>1 DEF OtherTypes
  <2>3. stats' \in Stats
      BY <1>1, <1>16, <2>2, StatsType DEF GiveUp
  <2>4. PICK r \in {"Unbounded", "NumericalDifficulty"} : Return(r, Restored(options, profile))
      BY <1>16 DEF GiveUp
  <2> QED BY <2>1, <2>3, <2>4, ReturnKeeps DEF Errors
<1>17. CASE UNCHANGED vars
  <2>1. /\ pc' = pc /\ options' = options /\ profile' = profile /\ cols' = cols
        /\ nature' = nature /\ warm' = warm /\ unbounded' = unbounded /\ level' = level
        /\ result' = result /\ stats' = stats
      BY <1>17 DEF vars, callVars
  <2> QED BY <2>1 DEF TypeOK, OptionsInForce, ForPhase, NoFalseInfeasible
<1> QED BY <1>5, <1>6, <1>7, <1>8, <1>9, <1>10, <1>11, <1>13, <1>14, <1>15, <1>16, <1>17
        DEF Next, Done

LEMMA LadderAlways == Spec => []VerdictInv
<1>1. Init => VerdictInv
    BY LadderInit
<1>2. VerdictInv /\ [Next]_vars => VerdictInv'
    BY LadderNext
<1> QED BY <1>1, <1>2, PTL DEF Spec

\* The solver's state is type correct: the ladder ends, and an iteration limit never leaves it.
THEOREM SolverTypeCorrect == Spec => []TypeOK
<1>1. VerdictInv => TypeOK
    BY DEF VerdictInv, LadderInv
<1> QED BY <1>1, LadderAlways, PTL

\* Every first run has exactly its phase's options and its LP's cap, whatever profiles,
\* levels and failures came before it, and every phase 2 level those of its own alone.
THEOREM OptionsAreInForce == Spec => []OptionsInForce
<1>1. VerdictInv => OptionsInForce
    BY DEF VerdictInv, LadderInv
<1> QED BY <1>1, LadderAlways, PTL

\* No feasible LP is called infeasible because of the basis its first run started from.
THEOREM InfeasibleIsTrue == Spec => []NoFalseInfeasible
<1>1. VerdictInv => NoFalseInfeasible
    BY DEF VerdictInv
<1> QED BY <1>1, LadderAlways, PTL

----------------------------------------------------------------------------
(* Sums *)

\* The element a fold takes out of s, and the recursion of a sum of f over S.
Taken(s) == CHOOSE x \in s : TRUE
Sums(f, S, iter) ==
    iter = [s \in SUBSET S |-> IF s = {} THEN 0 ELSE f[Taken(s)] + iter[s \ {Taken(s)}]]

\* Induction over the naturals, the property given as the set of those that have it.
LEMMA NaturalInduction ==
    ASSUME NEW P, 0 \in P, \A n \in P \cap Nat : n + 1 \in P
    PROVE  Nat \subseteq P
<1> SUFFICES ASSUME Nat \ P # {} PROVE FALSE
    OBVIOUS
<1>1. PICK n \in Nat \ P : \A m \in Nat \ P : ~(<<m, n>> \in OpToRel(<, Nat))
    BY NatLessThanWellFounded, WFMin
<1>2. n # 0 /\ n - 1 \in Nat
    OBVIOUS
<1>3. \A m \in Nat \ P : ~(m < n)
    BY <1>1 DEF OpToRel
<1>4. n - 1 \in P
    BY <1>2, <1>3
<1> QED
    BY <1>2, <1>4

\* Induction over the subsets of a finite set, one element taken out at a time.
LEMMA SubsetInduction ==
    ASSUME NEW S, IsFiniteSet(S), NEW P, {} \in P,
           \A s \in SUBSET S : s # {} /\ s \ {Taken(s)} \in P => s \in P
    PROVE  SUBSET S \subseteq P
<1> DEFINE Q == {n \in Nat : \A s \in SUBSET S : Cardinality(s) = n => s \in P}
<1>0. ASSUME NEW s \in SUBSET S
      PROVE  IsFiniteSet(s) /\ Cardinality(s) \in Nat
    BY FS_Subset, FS_CardinalityType
<1>1. 0 \in Q
    BY <1>0, FS_EmptySet
<1>2. ASSUME NEW n \in Q
      PROVE  n + 1 \in Q
  <2> SUFFICES ASSUME NEW s \in SUBSET S, Cardinality(s) = n + 1
               PROVE  s \in P
      OBVIOUS
  <2>0. n \in Nat
      OBVIOUS
  <2>1. s # {}
      BY <2>0, FS_EmptySet
  <2>2. Taken(s) \in s
      BY <2>1 DEF Taken
  <2>3. Cardinality(s \ {Taken(s)}) = n
    <3>1. Cardinality(s \ {Taken(s)}) = Cardinality(s) - 1
        BY <1>0, <2>2, FS_RemoveElement
    <3> QED BY <2>0, <3>1
  <2> QED BY <2>1, <2>3
<1>3. Nat \subseteq Q
  <2> HIDE DEF Q
  <2> QED BY <1>1, <1>2, NaturalInduction
<1> QED BY <1>0, <1>3

LEMMA TakenFrom ==
    ASSUME NEW S, NEW s \in SUBSET S, s # {}
    PROVE  Taken(s) \in s /\ Taken(s) \in S /\ s \ {Taken(s)} \in SUBSET S
BY DEF Taken

\* A sum exists.
LEMMA SumExists ==
    ASSUME NEW S, IsFiniteSet(S), NEW f, \A x \in S : f[x] \in Int
    PROVE  \E iter : Sums(f, S, iter)
<1> DEFINE Step(g, s) == IF s = {} THEN 0 ELSE f[Taken(s)] + g[s \ {Taken(s)}]
           Up(n) == {s \in SUBSET S : Cardinality(s) <= n}
           Q == {n \in Nat : \E g \in [SUBSET S -> Int] : \A s \in Up(n) : g[s] = Step(g, s)}
<1>0. ASSUME NEW s \in SUBSET S
      PROVE  IsFiniteSet(s) /\ Cardinality(s) \in Nat
    BY FS_Subset, FS_CardinalityType
<1>1. 0 \in Q
  <2> DEFINE g == [s \in SUBSET S |-> 0]
  <2>1. \A s \in Up(0) : s = {}
      BY <1>0, FS_EmptySet
  <2>2. \A s \in Up(0) : g[s] = Step(g, s)
      BY <2>1
  <2>3. g \in [SUBSET S -> Int]
      OBVIOUS
  <2> QED BY <2>2, <2>3
<1>2. ASSUME NEW n \in Q
      PROVE  n + 1 \in Q
  <2>1. PICK g \in [SUBSET S -> Int] : \A s \in Up(n) : g[s] = Step(g, s)
      OBVIOUS
  <2> DEFINE h == [s \in SUBSET S |-> Step(g, s)]
  <2>2. h \in [SUBSET S -> Int]
    <3>1. ASSUME NEW s \in SUBSET S PROVE Step(g, s) \in Int
        BY TakenFrom
    <3> HIDE DEF Step
    <3> QED BY <3>1
  <2>3. ASSUME NEW s \in Up(n + 1)
        PROVE  h[s] = Step(h, s)
    <3>1. CASE s = {}
        BY <3>1
    <3>2. CASE s # {}
      <4>1. Taken(s) \in s /\ s \ {Taken(s)} \in SUBSET S
          BY <3>2, TakenFrom
      <4>2. s \ {Taken(s)} \in Up(n)
          BY <1>0, <4>1, FS_RemoveElement
      <4>3. h[s \ {Taken(s)}] = g[s \ {Taken(s)}]
        <5> HIDE DEF Step
        <5> QED BY <2>1, <4>1, <4>2
      <4> QED BY <3>2, <4>3
    <3> QED BY <3>1, <3>2
  <2>4. n + 1 \in Nat
      OBVIOUS
  <2> HIDE DEF h, Step, Up
  <2> QED BY <2>2, <2>3, <2>4
<1>3. Nat \subseteq Q
  <2> HIDE DEF Q
  <2> QED BY <1>1, <1>2, NaturalInduction
<1>4. PICK g \in [SUBSET S -> Int] : \A s \in Up(Cardinality(S)) : g[s] = Step(g, s)
    BY <1>0, <1>3
<1>5. \A s \in SUBSET S : s \in Up(Cardinality(S))
    BY FS_Subset
<1>6. g = [s \in SUBSET S |-> Step(g, s)]
  <2> HIDE DEF Step, Up
  <2> QED BY <1>4, <1>5
<1> QED BY <1>6 DEF Sums

\* The sum of f over S, as the folds of the community modules compute it.
SumOver(f, S) == (CHOOSE iter : Sums(f, S, iter))[S]

\* Total adds up a function over its domain.
LEMMA TotalIsSumOver ==
    ASSUME NEW f
    PROVE  Total(f) = SumOver(f, DOMAIN f)
BY Zenon DEF Total, FoldFunction, FoldFunctionOnSet, MapThenFoldSet, Sums, Taken, SumOver

\* The two cases of its recursion.
LEMMA SumUnfolds ==
    ASSUME NEW S, NEW f, NEW iter, Sums(f, S, iter)
    PROVE  /\ iter[{}] = 0
           /\ \A s \in SUBSET S : s # {} => iter[s] = f[Taken(s)] + iter[s \ {Taken(s)}]
BY DEF Sums

\* A sum of integers is one.
LEMMA SumType ==
    ASSUME NEW S, IsFiniteSet(S), NEW f, \A x \in S : f[x] \in Int
    PROVE  SumOver(f, S) \in Int
<1> DEFINE iter == CHOOSE i : Sums(f, S, i)
<1>1. Sums(f, S, iter)
    BY SumExists
<1> DEFINE P == {s \in SUBSET S : iter[s] \in Int}
<1> HIDE DEF iter
<1>2. {} \in P
    BY <1>1, SumUnfolds
<1>3. \A s \in SUBSET S : s # {} /\ s \ {Taken(s)} \in P => s \in P
    BY <1>1, SumUnfolds, TakenFrom
<1>4. S \in P
  <2> HIDE DEF P
  <2> QED BY <1>2, <1>3, SubsetInduction
<1> QED BY <1>4 DEF SumOver, iter

\* Raising one term by d raises the sum by d.
LEMMA SumUpdate ==
    ASSUME NEW S, IsFiniteSet(S), NEW k \in S, NEW d \in Int,
           NEW f, NEW g, \A x \in S : f[x] \in Int,
           \A x \in S : g[x] = f[x] + (IF x = k THEN d ELSE 0)
    PROVE  SumOver(g, S) = SumOver(f, S) + d
<1> DEFINE F == CHOOSE i : Sums(f, S, i)
           G == CHOOSE i : Sums(g, S, i)
<1>0. \A x \in S : g[x] \in Int
    OBVIOUS
<1>1. Sums(f, S, F) /\ Sums(g, S, G)
    BY <1>0, SumExists
<1> HIDE DEF F, G
<1> DEFINE P == {s \in SUBSET S : F[s] \in Int /\ G[s] = F[s] + (IF k \in s THEN d ELSE 0)}
<1>2. {} \in P
    BY <1>1, SumUnfolds
<1>3. ASSUME NEW s \in SUBSET S, s # {}, s \ {Taken(s)} \in P
      PROVE  s \in P
  <2>1. /\ Taken(s) \in s /\ Taken(s) \in S
        /\ F[s] = f[Taken(s)] + F[s \ {Taken(s)}]
        /\ G[s] = g[Taken(s)] + G[s \ {Taken(s)}]
      BY <1>1, <1>3, SumUnfolds, TakenFrom
  <2>2. /\ F[s \ {Taken(s)}] \in Int
        /\ G[s \ {Taken(s)}] = F[s \ {Taken(s)}] + (IF k \in s \ {Taken(s)} THEN d ELSE 0)
      BY <1>3
  <2>3. CASE Taken(s) = k
      BY <2>1, <2>2, <2>3
  <2>4. CASE Taken(s) # k
      BY <2>1, <2>2, <2>4
  <2> QED BY <2>3, <2>4
<1>4. S \in P
  <2> HIDE DEF P
  <2> QED BY <1>2, <1>3, SubsetInduction
<1> QED BY <1>4 DEF SumOver, F, G

\* A sum of zeros is zero.
LEMMA SumZero ==
    ASSUME NEW S, IsFiniteSet(S), NEW f, \A x \in S : f[x] = 0
    PROVE  SumOver(f, S) = 0
<1> DEFINE iter == CHOOSE i : Sums(f, S, i)
<1>1. Sums(f, S, iter)
    BY SumExists
<1> DEFINE P == {s \in SUBSET S : iter[s] = 0}
<1> HIDE DEF iter
<1>2. {} \in P
    BY <1>1, SumUnfolds
<1>3. \A s \in SUBSET S : s # {} /\ s \ {Taken(s)} \in P => s \in P
  <2> SUFFICES ASSUME NEW s \in SUBSET S, s # {}, s \ {Taken(s)} \in P PROVE iter[s] = 0
      OBVIOUS
  <2>1. f[Taken(s)] = 0 /\ iter[s \ {Taken(s)}] = 0
      BY TakenFrom
  <2> QED BY <1>1, <2>1, SumUnfolds
<1>4. S \in P
  <2> HIDE DEF P
  <2> QED BY <1>2, <1>3, SubsetInduction
<1> QED BY <1>4 DEF SumOver, iter

----------------------------------------------------------------------------
(* The counters *)

Weighted(recovered) == [l \in Levels |-> (l + 1) * recovered[l]]

\* Between two calls a retry has been paid for by a call that returned: the levels of
\* the call under way are not counted yet, and neither is the call.
BalanceInv ==
    /\ stats.solves = stats.ok + stats.failed + (IF pc = "idle" THEN 0 ELSE 1)
    /\ Total(stats.recovered) = stats.ok - stats.firstTry
    /\ stats.retries >= Total(Weighted(stats.recovered))
    /\ stats.retries <= 12 * (stats.ok + stats.failed - stats.firstTry)

LEMMA LevelsFinite == IsFiniteSet(Levels)
    BY 0 \in Int, 11 \in Int, FS_Interval DEF Levels

\* A recovery at level k adds one recovery, and k + 1 levels.
LEMMA RecoveryCounts ==
    ASSUME NEW recovered \in [Levels -> Nat], NEW k \in Levels
    PROVE  /\ Total(recovered) \in Int /\ Total(Weighted(recovered)) \in Int
           /\ Total([recovered EXCEPT ![k] = @ + 1]) = Total(recovered) + 1
           /\ Total(Weighted([recovered EXCEPT ![k] = @ + 1]))
                = Total(Weighted(recovered)) + (k + 1)
<1> DEFINE more == [recovered EXCEPT ![k] = @ + 1]
<1>1. \A l \in Levels : l \in Nat /\ recovered[l] \in Nat
    BY DEF Levels
<1>2. \A l \in Levels : more[l] = recovered[l] + (IF l = k THEN 1 ELSE 0)
    BY <1>1
<1>3. DOMAIN recovered = Levels /\ DOMAIN more = Levels
    OBVIOUS
<1> HIDE DEF more
<1>4. \A l \in Levels : Weighted(recovered)[l] \in Int
    BY <1>1 DEF Weighted
<1>5. \A l \in Levels :
          Weighted(more)[l] = Weighted(recovered)[l] + (IF l = k THEN k + 1 ELSE 0)
  <2> SUFFICES ASSUME NEW l \in Levels
               PROVE  Weighted(more)[l] = Weighted(recovered)[l] + (IF l = k THEN k + 1 ELSE 0)
      OBVIOUS
  <2>1. Weighted(more)[l] = (l + 1) * more[l] /\ Weighted(recovered)[l] = (l + 1) * recovered[l]
      BY DEF Weighted
  <2>2. CASE l = k
    <3>1. more[l] = recovered[l] + 1 /\ l \in Nat /\ recovered[l] \in Nat
        BY <1>1, <1>2, <2>2
    <3> QED BY <2>1, <2>2, <3>1
  <2>3. CASE l # k
    <3>1. more[l] = recovered[l] /\ Weighted(recovered)[l] \in Int
        BY <1>1, <1>2, <1>4, <2>3
    <3> QED BY <2>1, <2>3, <3>1
  <2> QED BY <2>2, <2>3
<1>6. DOMAIN Weighted(recovered) = Levels /\ DOMAIN Weighted(more) = Levels
    BY DEF Weighted
<1>7. Total(recovered) \in Int /\ Total(Weighted(recovered)) \in Int
    BY <1>1, <1>3, <1>4, <1>6, SumType, TotalIsSumOver, LevelsFinite
<1>8. Total(more) = Total(recovered) + 1
  <2>1. SumOver(more, Levels) = SumOver(recovered, Levels) + 1
      BY <1>1, <1>2, SumUpdate, LevelsFinite
  <2> QED BY <1>3, <2>1, TotalIsSumOver
<1>9. Total(Weighted(more)) = Total(Weighted(recovered)) + (k + 1)
  <2>1. k + 1 \in Int
      BY <1>1
  <2>2. SumOver(Weighted(more), Levels) = SumOver(Weighted(recovered), Levels) + (k + 1)
      BY <1>4, <1>5, <2>1, SumUpdate, LevelsFinite
  <2> QED BY <1>6, <2>2, TotalIsSumOver
<1> QED BY <1>7, <1>8, <1>9 DEF more

LEMMA BalanceInit == Init => BalanceInv
<1> SUFFICES ASSUME Init PROVE BalanceInv
    OBVIOUS
<1> DEFINE none == [l \in Levels |-> 0]
<1>1. stats.recovered = none /\ stats.solves = 0 /\ stats.ok = 0 /\ stats.failed = 0
      /\ stats.firstTry = 0 /\ stats.retries = 0 /\ pc = "idle"
    BY DEF Init
<1>2. \A l \in Levels : none[l] = 0 /\ Weighted(none)[l] = 0
    BY DEF Weighted, Levels
<1>3. DOMAIN none = Levels /\ DOMAIN Weighted(none) = Levels
    BY DEF Weighted
<1> HIDE DEF none
<1>4. Total(none) = 0 /\ Total(Weighted(none)) = 0
    BY <1>2, <1>3, SumZero, TotalIsSumOver, LevelsFinite
<1> QED BY <1>1, <1>4 DEF BalanceInv

LEMMA BalanceNext == VerdictInv /\ BalanceInv /\ [Next]_vars => BalanceInv'
<1> SUFFICES ASSUME VerdictInv, BalanceInv, [Next]_vars PROVE BalanceInv'
    OBVIOUS
<1> USE DEF BalanceInv
<1>1. stats \in Stats /\ level \in 0 .. 12 /\ (pc = "retry" => level \in Levels)
    BY TypeParts DEF VerdictInv, LadderInv, OtherTypes
<1>2. /\ stats.recovered \in [Levels -> Nat]
      /\ stats.solves \in Nat /\ stats.ok \in Nat /\ stats.failed \in Nat
      /\ stats.firstTry \in Nat /\ stats.retries \in Nat
    BY <1>1 DEF Stats
<1>3. Total(stats.recovered) \in Int /\ Total(Weighted(stats.recovered)) \in Int
  <2>1. 0 \in Levels
      BY DEF Levels
  <2> QED BY <1>2, <2>1, RecoveryCounts
<1>4. ASSUME SetProfile \/ LoadModel \/ Patch \/ ResetLoaded \/ Escalate \/ BeginLevel
             \/ NextLevel \/ UNCHANGED vars
      PROVE  BalanceInv'
  <2>1. stats' = stats /\ (pc' = "idle" <=> pc = "idle")
      BY <1>4 DEF SetProfile, LoadModel, Patch, ResetLoaded, Escalate, BeginLevel, NextLevel, vars
  <2> QED BY <2>1
<1>5. ASSUME RejectShortBasis \/ RejectInconsistentBasis
      PROVE  BalanceInv'
  <2>1. /\ pc' = pc
        /\ \/ stats' = [stats EXCEPT !.rejected = @ + 1]
           \/ stats' = [stats EXCEPT !.rejected = @ + 1, !.offered = @ + 1]
      BY <1>5 DEF RejectShortBasis, RejectInconsistentBasis
  <2>2. \A f \in {"recovered", "solves", "ok", "failed", "firstTry", "retries"} :
            stats'[f] = stats[f]
      BY <1>1, <2>1 DEF Stats
  <2> QED BY <2>1, <2>2
<1>6. CASE BeginSolve
  <2>1. /\ pc = "idle" /\ pc' = "first"
        /\ \E n \in {stats.offered, stats.offered + 1} :
              stats' = [stats EXCEPT !.solves = @ + 1, !.offered = n]
      BY <1>6 DEF BeginSolve
  <2>2. /\ stats'.solves = stats.solves + 1
        /\ \A f \in {"recovered", "ok", "failed", "firstTry", "retries"} : stats'[f] = stats[f]
      BY <1>1, <2>1 DEF Stats
  <2> QED BY <1>2, <2>1, <2>2
<1>7. CASE FirstOptimal
  <2>1. /\ pc = "first" /\ pc' = "idle"
        /\ stats' = [stats EXCEPT !.ok = @ + 1, !.firstTry = @ + 1]
      BY <1>7 DEF FirstOptimal, Return
  <2>2. /\ stats'.ok = stats.ok + 1 /\ stats'.firstTry = stats.firstTry + 1
        /\ \A f \in {"recovered", "solves", "failed", "retries"} : stats'[f] = stats[f]
      BY <1>1, <2>1 DEF Stats
  <2> QED BY <1>2, <2>1, <2>2
<1>8. CASE FirstTerminal
  <2>1. pc = "first" /\ pc' = "idle" /\ stats' = [stats EXCEPT !.failed = @ + 1]
      BY <1>8 DEF FirstTerminal, Return
  <2>2. /\ stats'.failed = stats.failed + 1
        /\ \A f \in {"recovered", "solves", "ok", "firstTry", "retries"} : stats'[f] = stats[f]
      BY <1>1, <2>1 DEF Stats
  <2>3. 12 * (stats.ok + stats.failed - stats.firstTry)
            <= 12 * (stats.ok + (stats.failed + 1) - stats.firstTry)
      BY <1>2
  <2> QED BY <1>2, <1>3, <2>1, <2>2, <2>3
<1>9. CASE Recover
  <2>1. /\ pc = "retry" /\ pc' = "idle" /\ level \in Levels
        /\ stats' = [stats EXCEPT !.ok = @ + 1, !.retries = @ + level + 1,
                                  !.recovered[level] = @ + 1]
      BY <1>1, <1>9 DEF Recover, Return
  <2>2. /\ stats'.ok = stats.ok + 1 /\ stats'.retries = stats.retries + level + 1
        /\ stats'.recovered = [stats.recovered EXCEPT ![level] = @ + 1]
        /\ \A f \in {"solves", "failed", "firstTry"} : stats'[f] = stats[f]
      BY <1>1, <2>1 DEF Stats
  <2>3. /\ Total(stats'.recovered) = Total(stats.recovered) + 1
        /\ Total(Weighted(stats'.recovered)) = Total(Weighted(stats.recovered)) + (level + 1)
      BY <1>2, <2>1, <2>2, RecoveryCounts
  <2> QED BY <1>1, <1>2, <1>3, <2>1, <2>2, <2>3 DEF Levels
<1>10. CASE LevelTerminal
  <2>1. /\ pc = "retry" /\ pc' = "idle" /\ level \in Levels
        /\ stats' = [stats EXCEPT !.failed = @ + 1, !.retries = @ + level + 1]
      BY <1>1, <1>10 DEF LevelTerminal, Return
  <2>2. /\ stats'.failed = stats.failed + 1 /\ stats'.retries = stats.retries + level + 1
        /\ \A f \in {"recovered", "solves", "ok", "firstTry"} : stats'[f] = stats[f]
      BY <1>1, <2>1 DEF Stats
  <2> QED BY <1>2, <1>3, <2>1, <2>2 DEF Levels
<1>11. CASE GiveUp
  <2>1. /\ pc = "ladder" /\ pc' = "idle"
        /\ stats' = [stats EXCEPT !.failed = @ + 1, !.retries = @ + level]
      BY <1>11 DEF GiveUp, Return
  <2>2. /\ stats'.failed = stats.failed + 1 /\ stats'.retries = stats.retries + level
        /\ \A f \in {"recovered", "solves", "ok", "firstTry"} : stats'[f] = stats[f]
      BY <1>1, <2>1 DEF Stats
  <2> QED BY <1>1, <1>2, <1>3, <2>1, <2>2
<1> QED BY <1>4, <1>5, <1>6, <1>7, <1>8, <1>9, <1>10, <1>11 DEF Next, Done

\* Every call that returned is counted once, and so are the levels it took: a recovery
\* pays for the levels that failed before it, and no call for more than twelve.
THEOREM StatsAreBalanced == Spec => []StatsBalance
<1>1. Init => BalanceInv
    BY BalanceInit
<1>2. VerdictInv /\ VerdictInv' /\ BalanceInv /\ [Next]_vars => BalanceInv'
    BY BalanceNext
<1>3. VerdictInv /\ BalanceInv => StatsBalance
  <2> SUFFICES ASSUME VerdictInv, BalanceInv PROVE StatsBalance
      OBVIOUS
  <2>1. stats \in Stats
      BY TypeParts DEF VerdictInv, LadderInv
  <2>2. /\ stats.solves \in Nat /\ stats.ok \in Nat /\ stats.failed \in Nat
        /\ stats.firstTry \in Nat /\ stats.retries \in Nat
      BY <2>1 DEF Stats
  <2> QED BY <2>2 DEF BalanceInv, StatsBalance, Weighted
<1> QED BY <1>1, <1>2, <1>3, LadderAlways, PTL DEF Spec

=============================================================================
