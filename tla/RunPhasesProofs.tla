-------------------------- MODULE RunPhasesProofs --------------------------
(* Two things, for any number of ranks, workers and scenarios.               *)
(* That an agreed failure stops every rank: the argument needs, besides the  *)
(* statement itself, that a rank's program goes from the simulation to the   *)
(* join of its drain thread and from there to the reconcile, so that a failed *)
(* worker or drain thread is still there to be reported, and that the thread *)
(* does nothing after it was joined.                                         *)
(* And that a reported simulation is complete: every result sent is in one   *)
(* of four places, the workers that went to their ends have sent all of the  *)
(* rank's share, the shares are a partition of the scenarios into runs of    *)
(* consecutive numbers, and nothing between the reconcile and the report     *)
(* changes any of it.                                                        *)
EXTENDS RunPhases, SequenceTheorems, FiniteSetTheorems, WellFoundedInduction, TLAPS

-----------------------------------------------------------------------------
(* Failures stop all ranks *)

\* The three steps of a simulation follow each other.
Shape(s) ==
    \A i \in 1 .. Len(s) :
        /\ s[i] = "simulate" => i + 1 \in 1 .. Len(s) /\ s[i + 1] = "join"
        /\ s[i] = "join" => i + 1 \in 1 .. Len(s) /\ s[i + 1] = "simulated"

Types ==
    /\ todo \in [Ranks -> Seq(Steps)]
    /\ status \in [Ranks -> {"running", "err", "left"}]
    /\ DOMAIN worker = Ranks /\ DOMAIN channel = Ranks
    /\ drain \in [Ranks -> {"waiting", "writing", "dead", "done"}]

Shaped == \A r \in Ranks : Shape(todo[r])
Agreed == \A r \in Ranks : At(r) \in {"exported", "simulated"} /\ status[r] = "err"
                              => \A q \in Ranks : status[q] = "err"
FailureStays == \A r \in Ranks : SimFailed(r) => At(r) \in {"simulate", "join", "simulated"}
NoErrInside == \A r \in Ranks : status[r] = "err" => At(r) \notin {"simulate", "join"}
DrainInside ==
    \A r \in Ranks :
        drain[r] = "writing" \/ (drain[r] = "waiting" /\ channel[r] # <<>>)
            => At(r) \in {"simulate", "join"}

IInv == Types /\ Shaped /\ Agreed /\ FailureStays /\ NoErrInside /\ DrainInside

\* The invariant is as strong as the property.
LEMMA InvariantImpliesLockstep == IInv => FailsInLockstep
BY DEF IInv, Agreed, FailureStays, NoErrInside, FailsInLockstep

-----------------------------------------------------------------------------
\* Programs have the shape because their parts have it.
LEMMA ShapeOfConcatenation ==
    ASSUME NEW p \in Seq(Steps), NEW q \in Seq(Steps), Shape(p), Shape(q)
    PROVE  p \o q \in Seq(Steps) /\ Shape(p \o q)
<1>1. p \o q \in Seq(Steps) /\ Len(p \o q) = Len(p) + Len(q)
    BY ConcatProperties
<1>2. Len(p) \in Nat /\ Len(q) \in Nat
    BY LenProperties
<1>3. ASSUME NEW i \in 1 .. Len(p \o q)
      PROVE  /\ i <= Len(p) => (p \o q)[i] = p[i]
             /\ i > Len(p) => (p \o q)[i] = q[i - Len(p)]
    BY <1>1, <1>2, ConcatProperties
<1>4. ASSUME NEW i \in 1 .. Len(p \o q)
      PROVE  /\ (p \o q)[i] = "simulate" =>
                    i + 1 \in 1 .. Len(p \o q) /\ (p \o q)[i + 1] = "join"
             /\ (p \o q)[i] = "join" =>
                    i + 1 \in 1 .. Len(p \o q) /\ (p \o q)[i + 1] = "simulated"
    <2>1. CASE i <= Len(p)
        BY <2>1, <1>1, <1>2, <1>3, Shape(p) DEF Shape
    <2>2. CASE i > Len(p)
        <3>1. i - Len(p) \in 1 .. Len(q) /\ i + 1 > Len(p)
            BY <2>2, <1>1, <1>2
        <3>2. /\ q[i - Len(p)] = "simulate" => i - Len(p) + 1 \in 1 .. Len(q)
                                               /\ q[i - Len(p) + 1] = "join"
              /\ q[i - Len(p)] = "join" => i - Len(p) + 1 \in 1 .. Len(q)
                                           /\ q[i - Len(p) + 1] = "simulated"
            BY <3>1, Shape(q) DEF Shape
        <3>3. i + 1 - Len(p) = i - Len(p) + 1
            BY <1>2
        <3>4. i - Len(p) + 1 \in 1 .. Len(q) => i + 1 \in 1 .. Len(p \o q)
            BY <1>1, <1>2, <2>2
        <3> QED BY <3>1, <3>2, <3>3, <3>4, <1>3, <2>2
    <2> QED BY <2>1, <2>2, <1>1, <1>2
<1> QED BY <1>1, <1>4 DEF Shape

\* The parts of a program have the shape.
LEMMA ShapeOfParts ==
    /\ Pretraining \in Seq(Steps) /\ Shape(Pretraining)
    /\ Boundary \in Seq(Steps) /\ Shape(Boundary)
    /\ Training \in Seq(Steps) /\ Shape(Training)
    /\ Simulation \in Seq(Steps) /\ Shape(Simulation)
    /\ <<"policy">> \in Seq(Steps) /\ Shape(<<"policy">>)
    /\ <<"policy", "outputs", "outcome">> \in Seq(Steps)
    /\ Shape(<<"policy", "outputs", "outcome">>)
    /\ <<>> \in Seq(Steps) /\ Shape(<<>>)
<1>1. Pretraining \in Seq(Steps) /\ Shape(Pretraining)
    <2>1. Pretraining \in Seq(Steps)
        BY DEF Pretraining, Steps, FallibleAnywhere, FallibleAtRoot, PlainMeetings
    <2>2. Shape(Pretraining)
        BY DEF Pretraining, Shape
    <2> QED BY <2>1, <2>2
<1>2. Boundary \in Seq(Steps) /\ Shape(Boundary)
    <2>1. Boundary \in Seq(Steps)
        BY DEF Boundary, Steps, FallibleAnywhere, FallibleAtRoot, PlainMeetings
    <2>2. Shape(Boundary)
        BY DEF Boundary, Shape
    <2> QED BY <2>1, <2>2
<1>3. Training \in Seq(Steps) /\ Shape(Training)
    <2>1. Training \in Seq(Steps)
        BY DEF Training, Steps, FallibleAnywhere, FallibleAtRoot, PlainMeetings
    <2>2. Shape(Training)
        BY DEF Training, Shape
    <2> QED BY <2>1, <2>2
<1>4. Simulation \in Seq(Steps) /\ Shape(Simulation)
    <2>1. Simulation \in Seq(Steps)
        BY DEF Simulation, Steps, FallibleAnywhere, FallibleAtRoot, PlainMeetings
    <2>2. Shape(Simulation)
        BY DEF Simulation, Shape
    <2> QED BY <2>1, <2>2
<1>5. <<"policy">> \in Seq(Steps) /\ Shape(<<"policy">>)
    BY DEF Shape, Steps, FallibleAnywhere
<1>6. /\ <<"policy", "outputs", "outcome">> \in Seq(Steps)
      /\ Shape(<<"policy", "outputs", "outcome">>)
    BY DEF Shape, Steps, FallibleAnywhere, FallibleAtRoot
<1>7. <<>> \in Seq(Steps) /\ Shape(<<>>)
    BY DEF Shape
<1> QED BY <1>1, <1>2, <1>3, <1>4, <1>5, <1>6, <1>7

\* Every program has it, and begins with the binding.
LEMMA ProgramsAreShaped ==
    ASSUME NEW p \in Programs
    PROVE  p \in Seq(Steps) /\ Shape(p) /\ Head(p) = "bind" /\ p # <<>>
<1>1. PICK t, l, b, e, s \in BOOLEAN : p = Phases(t, l, b, e, s)
    BY DEF Programs
<1> DEFINE Good(x) == x \in Seq(Steps) /\ Shape(x)
           loads == Optional(<<"policy">>, l)
           bounds == Optional(Boundary, b)
           trains == IF l /\ e THEN <<"policy", "outputs", "outcome">> ELSE Training
           first == Optional(loads \o bounds \o trains, t)
           again == Optional(<<"policy">>, ~t)
           second == Optional(again \o Simulation, s)
<1>2. Good(loads) /\ Good(bounds) /\ Good(trains) /\ Good(again)
    BY ShapeOfParts DEF Optional
<1>3. Good(first)
    <2>1. Good(loads \o bounds)
        BY <1>2, ShapeOfConcatenation
    <2>2. Good(loads \o bounds \o trains)
        BY <1>2, <2>1, ShapeOfConcatenation
    <2> QED BY <2>2, ShapeOfParts DEF Optional
<1>4. Good(second)
    <2>1. Good(again \o Simulation)
        BY <1>2, ShapeOfParts, ShapeOfConcatenation
    <2> QED BY <2>1, ShapeOfParts DEF Optional
<1>5. Good(Pretraining \o first)
    BY <1>3, ShapeOfParts, ShapeOfConcatenation
<1>6. p = Pretraining \o first \o second
    BY <1>1 DEF Phases
<1>7. Good(p)
    BY <1>4, <1>5, <1>6, ShapeOfConcatenation
<1>8. Len(p) >= 1 /\ p[1] = "bind"
    <2>1. Len(Pretraining) >= 1 /\ Pretraining[1] = "bind" /\ Len(Pretraining) \in Nat
        BY DEF Pretraining
    <2>2. /\ Len(Pretraining \o first) >= 1 /\ Len(Pretraining \o first) \in Nat
          /\ (Pretraining \o first)[1] = "bind"
        BY <2>1, <1>3, ShapeOfParts, ConcatProperties, LenProperties
    <2> QED BY <2>2, <1>4, <1>5, <1>6, ConcatProperties, LenProperties
<1> QED BY <1>7, <1>8

\* So has what is left of it, and the simulation goes on as it says.
LEMMA ShapeOfTail ==
    ASSUME NEW s \in Seq(Steps), s # <<>>, Shape(s)
    PROVE  /\ Tail(s) \in Seq(Steps) /\ Shape(Tail(s))
           /\ Head(s) = "simulate" => Tail(s) # <<>> /\ Head(Tail(s)) = "join"
           /\ Head(s) = "join" => Tail(s) # <<>> /\ Head(Tail(s)) = "simulated"
<1>1. /\ Tail(s) \in Seq(Steps) /\ Len(Tail(s)) = Len(s) - 1
      /\ \A i \in 1 .. Len(Tail(s)) : Tail(s)[i] = s[i + 1]
    BY HeadTailProperties
<1>2. Len(s) \in Nat /\ Len(s) >= 1 /\ Head(s) = s[1]
    BY EmptySeq, LenProperties, HeadTailProperties
<1>3. ASSUME NEW i \in 1 .. Len(Tail(s))
      PROVE  /\ Tail(s)[i] = "simulate" =>
                    i + 1 \in 1 .. Len(Tail(s)) /\ Tail(s)[i + 1] = "join"
             /\ Tail(s)[i] = "join" =>
                    i + 1 \in 1 .. Len(Tail(s)) /\ Tail(s)[i + 1] = "simulated"
    <2>1. i + 1 \in 1 .. Len(s) /\ Tail(s)[i] = s[i + 1]
        BY <1>1, <1>2
    <2>2. /\ s[i + 1] = "simulate" => i + 2 \in 1 .. Len(s) /\ s[i + 2] = "join"
          /\ s[i + 1] = "join" => i + 2 \in 1 .. Len(s) /\ s[i + 2] = "simulated"
        BY <2>1, Shape(s) DEF Shape
    <2>3. i + 2 \in 1 .. Len(s) => i + 1 \in 1 .. Len(Tail(s)) /\ Tail(s)[i + 1] = s[i + 2]
        BY <1>1, <1>2
    <2> QED BY <2>1, <2>2, <2>3
<1>4. /\ s[1] = "simulate" => 2 \in 1 .. Len(s) /\ s[2] = "join"
      /\ s[1] = "join" => 2 \in 1 .. Len(s) /\ s[2] = "simulated"
    BY <1>2, Shape(s) DEF Shape
<1>5. ASSUME 2 \in 1 .. Len(s)
      PROVE  Tail(s) # <<>> /\ Head(Tail(s)) = s[2]
    <2>1. Len(Tail(s)) >= 1 /\ Tail(s)[1] = s[2]
        BY <1>5, <1>1, <1>2
    <2>2. PICK t \in Seq(Steps) : t = Tail(s)
        BY <1>1
    <2>3. t # <<>>
        <3>1. Len(t) # 0
            BY <2>1, <2>2
        <3>2. Len(<<>>) = 0
            OBVIOUS
        <3> QED BY <3>1, <3>2, Zenon
    <2>4. Head(t) = t[1]
        BY <2>3, HeadTailProperties
    <2> QED BY <2>1, <2>2, <2>3, <2>4
<1> QED BY <1>1, <1>2, <1>3, <1>4, <1>5 DEF Shape

-----------------------------------------------------------------------------
\* The first states.
LEMMA InvariantHoldsFirst == Init => IInv
<1> SUFFICES ASSUME Init PROVE IInv
    OBVIOUS
<1>1. PICK program \in Programs : todo = [r \in Ranks |-> program]
    BY DEF Init
<1>2. /\ program \in Seq(Steps) /\ Shape(program)
      /\ Head(program) = "bind" /\ program # <<>>
    BY ProgramsAreShaped
<1>3. \A r \in Ranks : At(r) = "bind"
    BY <1>1, <1>2 DEF At
<1>4. \A r \in Ranks : /\ status[r] = "running" /\ drain[r] = "waiting"
                       /\ channel[r] = <<>> /\ ~SimFailed(r)
    BY DEF Init, SimFailed
<1>5. Types /\ Shaped
    BY <1>1, <1>2 DEF Types, Shaped, Init
<1>6. Agreed /\ FailureStays /\ NoErrInside /\ DrainInside
    BY <1>3, <1>4 DEF Agreed, FailureStays, NoErrInside, DrainInside
<1> QED BY <1>5, <1>6 DEF IInv

\* A step outside the simulation: ranks advance from other steps, or stay with an error
\* that is either on every rank or at a step where none is agreed on.
LEMMA QuietStep ==
    ASSUME IInv, UNCHANGED simVars,
           todo' \in [Ranks -> Seq(Steps)],
           status' \in [Ranks -> {"running", "err", "left"}],
           \A r \in Ranks : \/ todo'[r] = todo[r]
                            \/ /\ todo[r] # <<>> /\ todo'[r] = Tail(todo[r])
                               /\ At(r) \notin {"simulate", "join", "simulated"}
                               /\ status'[r] # "err",
           \A r \in Ranks : status[r] = "err" => status'[r] = "err",
           \A r \in Ranks :
               status'[r] = "err" /\ status[r] # "err" =>
                   /\ At(r) \notin {"simulate", "join"}
                   /\ At(r) \in {"exported", "simulated"} =>
                          \A q \in Ranks : status'[q] = "err"
    PROVE  IInv'
<1> USE DEF IInv
<1>1. Types'
    BY DEF Types, simVars, drainVars
<1>2. Shaped'
    <2> SUFFICES ASSUME NEW r \in Ranks PROVE Shape(todo'[r])
        BY DEF Shaped
    <2>1. todo[r] \in Seq(Steps) /\ Shape(todo[r])
        BY DEF Types, Shaped
    <2> QED BY <2>1, ShapeOfTail
<1>3. \A r \in Ranks : /\ SimFailed(r)' = SimFailed(r)
                       /\ drain'[r] = drain[r] /\ channel'[r] = channel[r]
    BY DEF SimFailed, simVars, drainVars
<1>4. \A r \in Ranks : \/ At(r)' = At(r)
                       \/ /\ At(r) \notin {"simulate", "join", "simulated"}
                          /\ status'[r] # "err"
    BY DEF At
<1>5. Agreed'
    <2> SUFFICES ASSUME NEW r \in Ranks, At(r)' \in {"exported", "simulated"},
                        status'[r] = "err", NEW q \in Ranks
                 PROVE  status'[q] = "err"
        BY DEF Agreed
    <2>1. At(r) \in {"exported", "simulated"}
        BY <1>4
    <2> QED BY <2>1 DEF Agreed
<1>6. FailureStays'
    BY <1>3, <1>4 DEF FailureStays
<1>7. NoErrInside'
    BY <1>4 DEF NoErrInside
<1>8. DrainInside'
    BY <1>3, <1>4 DEF DrainInside
<1> QED BY <1>1, <1>2, <1>5, <1>6, <1>7, <1>8

\* A step of the workers or the drain thread of rank r.
LEMMA InsideStep ==
    ASSUME IInv, NEW r \in Ranks, UNCHANGED phaseVars,
           DOMAIN worker' = Ranks, DOMAIN channel' = Ranks,
           drain' \in [Ranks -> {"waiting", "writing", "dead", "done"}],
           At(r) \in {"simulate", "join"},
           \A q \in Ranks \ {r} : /\ worker'[q] = worker[q] /\ channel'[q] = channel[q]
                                  /\ drain'[q] = drain[q]
    PROVE  IInv'
<1> USE DEF IInv
<1>1. \A q \in Ranks : At(q)' = At(q) /\ status'[q] = status[q]
    BY DEF At, phaseVars
<1>2. Types'
    BY DEF Types, phaseVars
<1>3. Shaped' /\ Agreed' /\ NoErrInside'
    BY <1>1 DEF Shaped, Shape, Agreed, NoErrInside, phaseVars
<1>4. \A q \in Ranks \ {r} : SimFailed(q)' = SimFailed(q)
    BY DEF SimFailed
<1>5. FailureStays' /\ DrainInside'
    BY <1>1, <1>4 DEF FailureStays, DrainInside
<1> QED BY <1>2, <1>3, <1>5

\* A rank goes from the simulation to the join, or from the join to the reconcile.
LEMMA AdvanceInside ==
    ASSUME IInv, NEW r \in Ranks, Running(r), todo' = Continued(r), UNCHANGED simVars,
           UNCHANGED status,
           \/ At(r) = "simulate"
           \/ At(r) = "join" /\ drain[r] \in {"done", "dead"}
    PROVE  IInv'
<1> USE DEF IInv
<1>1. todo[r] \in Seq(Steps) /\ todo[r] # <<>> /\ Shape(todo[r])
    BY DEF Types, Shaped, At
<1>2. /\ Tail(todo[r]) \in Seq(Steps) /\ Shape(Tail(todo[r]))
      /\ todo' = [todo EXCEPT ![r] = Tail(@)]
      /\ todo'[r] = Tail(todo[r])
      /\ \A q \in Ranks \ {r} : todo'[q] = todo[q]
    BY <1>1, ShapeOfTail DEF Types, Continued
<1>3. /\ At(r) = "simulate" => At(r)' = "join"
      /\ At(r) = "join" => At(r)' = "simulated"
      /\ \A q \in Ranks \ {r} : At(q)' = At(q)
    BY <1>1, <1>2, ShapeOfTail DEF At
<1>4. Types'
    BY <1>2 DEF Types, simVars, drainVars
<1>5. Shaped'
    BY <1>2 DEF Shaped
<1>6. \A q \in Ranks : /\ SimFailed(q)' = SimFailed(q)
                       /\ drain'[q] = drain[q] /\ channel'[q] = channel[q]
    BY DEF SimFailed, simVars, drainVars
<1>7. status[r] = "running"
    BY DEF Running
<1>8. Agreed' /\ NoErrInside'
    BY <1>3, <1>7 DEF Agreed, NoErrInside
<1>9. FailureStays'
    BY <1>3, <1>6 DEF FailureStays
<1>10. DrainInside'
    BY <1>3, <1>6 DEF DrainInside
<1> QED BY <1>4, <1>5, <1>8, <1>9, <1>10

\* The reconcile: all go on without a failure, or all return.
LEMMA ReconcileStep == IInv /\ Reconcile => IInv'
<1> SUFFICES ASSUME IInv, Reconcile PROVE IInv'
    OBVIOUS
<1> USE DEF IInv
<1>1. \A r \in Ranks : At(r) = "simulated" /\ status[r] = "running" /\ todo[r] # <<>>
    BY DEF Reconcile, Met, Doing, Running, At
<1>2. \A r \in Ranks : /\ SimFailed(r)' = SimFailed(r)
                       /\ drain'[r] = drain[r] /\ channel'[r] = channel[r]
    BY DEF SimFailed, Reconcile, simVars, drainVars
<1>3. \A r \in Ranks : ~(drain[r] = "writing")
                       /\ ~(drain[r] = "waiting" /\ channel[r] # <<>>)
    BY <1>1 DEF DrainInside
<1>4. CASE \A r \in Ranks : SimOk(r)
    <2>1. /\ todo' = [r \in Ranks |-> Tail(todo[r])]
          /\ status' = [r \in Ranks |-> "running"]
        BY <1>4 DEF Reconcile, SimOk
    <2>2. \A r \in Ranks : Tail(todo[r]) \in Seq(Steps) /\ Shape(Tail(todo[r]))
        BY <1>1, ShapeOfTail DEF Types, Shaped
    <2>3. Types' /\ Shaped'
        BY <2>1, <2>2 DEF Types, Shaped, Reconcile, simVars, drainVars
    <2>4. \A r \in Ranks : ~SimFailed(r) /\ status'[r] = "running"
        BY <1>4, <2>1 DEF SimOk
    <2>5. Agreed' /\ FailureStays' /\ NoErrInside' /\ DrainInside'
        BY <2>4, <1>2, <1>3 DEF Agreed, FailureStays, NoErrInside, DrainInside
    <2> QED BY <2>3, <2>5
<1>5. CASE ~ \A r \in Ranks : SimOk(r)
    <2>1. /\ todo' = [r \in Ranks |-> todo[r]]
          /\ status' = [r \in Ranks |-> "err"]
        BY <1>5 DEF Reconcile
    <2>2. \A r \in Ranks : At(r)' = "simulated" /\ status'[r] = "err"
        BY <2>1, <1>1 DEF At
    <2>3. Types' /\ Shaped'
        BY <2>1 DEF Types, Shaped, Reconcile, simVars, drainVars
    <2>4. Agreed' /\ FailureStays' /\ NoErrInside' /\ DrainInside'
        BY <2>2, <1>2, <1>3 DEF Agreed, FailureStays, NoErrInside, DrainInside
    <2> QED BY <2>3, <2>4
<1> QED BY <1>4, <1>5

-----------------------------------------------------------------------------
\* The steps of a rank's workers and drain thread.
LEMMA SimulateStep ==
    ASSUME IInv, NEW r \in Ranks, Simulate(r)
    PROVE  IInv'
<1> USE DEF IInv
<1>1. /\ DOMAIN worker = Ranks /\ DOMAIN channel = Ranks
      /\ drain \in [Ranks -> {"waiting", "writing", "dead", "done"}]
    BY DEF Types
<1>2. ASSUME Refuse(r) PROVE IInv'
    BY <1>1, <1>2, InsideStep DEF Refuse, Doing, drainVars
<1>3. ASSUME NEW w \in Workers, Solve(r, w) PROVE IInv'
    BY <1>1, <1>3, InsideStep DEF Solve, Doing, drainVars
<1>4. ASSUME NEW w \in Workers, Send(r, w) PROVE IInv'
    BY <1>1, <1>4, InsideStep DEF Send, Doing, drainVars
<1>5. ASSUME Take(r) PROVE IInv'
    BY <1>1, <1>5, InsideStep DEF Take, DrainInside
<1>6. ASSUME Write(r) PROVE IInv'
    BY <1>1, <1>6, InsideStep DEF Write, DrainInside
<1>7. ASSUME Panic(r) PROVE IInv'
    BY <1>1, <1>7, InsideStep DEF Panic, DrainInside
<1>8. ASSUME EndDrain(r) PROVE IInv'
    BY <1>1, <1>8, InsideStep DEF EndDrain
<1>9. ASSUME Return(r) PROVE IInv'
    BY <1>9, AdvanceInside DEF Return, Doing
<1>10. ASSUME Join(r) PROVE IInv'
    BY <1>10, AdvanceInside DEF Join, Doing
<1> QED BY <1>2, <1>3, <1>4, <1>5, <1>6, <1>7, <1>8, <1>9, <1>10 DEF Simulate

\* Any step keeps the invariant.
LEMMA InvariantIsInductive == IInv /\ [Next]_vars => IInv'
<1> SUFFICES ASSUME IInv, [Next]_vars PROVE IInv'
    OBVIOUS
<1> USE DEF IInv
<1>1. /\ todo \in [Ranks -> Seq(Steps)]
      /\ status \in [Ranks -> {"running", "err", "left"}]
    BY DEF Types
<1>2. \A r \in Ranks : Running(r) => status[r] = "running"
    BY DEF Running
<1>3. \A r \in Ranks : todo[r] # <<>> => Tail(todo[r]) \in Seq(Steps)
    BY <1>1, HeadTailProperties
<1>4. \A r \in Ranks : At(r) # "end" => todo[r] # <<>>
    BY DEF At
<1>5. ASSUME NEW r \in Ranks, Work(r) PROVE IInv'
    <2>1. /\ At(r) \notin {"simulate", "join", "simulated", "end"}
          /\ todo' = [todo EXCEPT ![r] = Tail(@)] /\ UNCHANGED <<status, simVars>>
          /\ status[r] = "running"
        BY <1>2, <1>5 DEF Work, FallibleAnywhere, FallibleAtRoot, Continued
    <2> QED BY <2>1, <1>1, <1>3, <1>4, QuietStep
<1>6. ASSUME NEW r \in Ranks, Fail(r) PROVE IInv'
    <2>1. /\ At(r) \notin {"simulate", "join", "simulated", "exported"}
          /\ status' = [status EXCEPT ![r] = IF At(r) = "bind" THEN "left" ELSE "err"]
          /\ status[r] = "running" /\ UNCHANGED <<todo, simVars>>
        BY <1>2, <1>6 DEF Fail, FallibleAnywhere, FallibleAtRoot
    <2> QED BY <2>1, <1>1, QuietStep
<1>7. ASSUME NEW r \in Ranks, Export(r) PROVE IInv'
    <2>1. /\ At(r) = "exports" /\ status[r] = "running"
          /\ todo' = [todo EXCEPT ![r] = Tail(@)] /\ UNCHANGED <<status, simVars>>
        BY <1>2, <1>7 DEF Export, Doing, Continued
    <2> QED BY <2>1, <1>1, <1>3, <1>4, QuietStep
<1>8. ASSUME NEW r \in Ranks, Outcome(r) PROVE IInv'
    <2>1. /\ At(r) = "outcome" /\ status[r] = "running" /\ UNCHANGED simVars
          /\ \/ status' = [status EXCEPT ![r] = "err"] /\ UNCHANGED todo
             \/ todo' = [todo EXCEPT ![r] = Tail(@)] /\ UNCHANGED status
        BY <1>2, <1>8 DEF Outcome, Doing, Continued
    <2> QED BY <2>1, <1>1, <1>3, <1>4, QuietStep
<1>9. ASSUME NEW r \in Ranks, Abort(r) PROVE IInv'
    <2>1. UNCHANGED <<todo, status, simVars>>
        BY <1>9 DEF Abort
    <2> QED BY <2>1, <1>1, QuietStep
<1>10. ASSUME NEW r \in Ranks, Simulate(r) PROVE IInv'
    BY <1>10, SimulateStep
<1>11. ASSUME NEW step, Met(step), step \notin {"simulate", "join", "simulated", "end"},
              UNCHANGED simVars,
              \/ todo' = Advanced /\ UNCHANGED status
              \/ status' = AllFail /\ UNCHANGED todo
       PROVE  IInv'
    <2>1. \A r \in Ranks : At(r) = step /\ status[r] = "running" /\ todo[r] # <<>>
        BY <1>2, <1>4, <1>11 DEF Met, Doing
    <2> QED BY <2>1, <1>1, <1>3, <1>11, QuietStep DEF Advanced, AllFail
<1>12. CASE Load
    BY <1>11, <1>12 DEF Load
<1>13. CASE Exported
    BY <1>11, <1>13 DEF Exported
<1>14. CASE Train
    BY <1>11, <1>14 DEF Train
<1>15. CASE Meet
    BY <1>11, <1>15 DEF Meet, PlainMeetings
<1>16. CASE Reconcile
    BY <1>16, ReconcileStep
<1>17. CASE Merge
    BY <1>11, <1>17 DEF Merge
<1>18. CASE GatherCosts
    BY <1>11, <1>18 DEF GatherCosts
<1>19. CASE UNCHANGED vars
    BY <1>19, <1>1, QuietStep DEF vars, phaseVars, simVars
<1> QED
    BY <1>5, <1>6, <1>7, <1>8, <1>9, <1>10, <1>12, <1>13, <1>14, <1>15, <1>16, <1>17,
       <1>18, <1>19 DEF Next

\* When a rank returns because of a failed simulation or failed exports, every rank
\* does, for any number of ranks, workers and scenarios.
THEOREM AgreedFailuresStopAll == Spec => []FailsInLockstep
<1>1. Init => IInv
    BY InvariantHoldsFirst
<1>2. IInv /\ [Next]_vars => IInv'
    BY InvariantIsInductive
<1>3. IInv => FailsInLockstep
    BY InvariantImpliesLockstep
<1> QED BY <1>1, <1>2, <1>3, PTL DEF Spec

-----------------------------------------------------------------------------
(* Cutting the scenarios into shares *)

\* Induction over the naturals, the property given as the set of those that have it.
LEMMA NaturalInduction ==
    ASSUME NEW P, 0 \in P, \A n \in P \cap Nat : n + 1 \in P
    PROVE  Nat \subseteq P
<1> SUFFICES ASSUME Nat \ P # {} PROVE FALSE
    OBVIOUS
<1>1. PICK n \in Nat \ P : \A m \in Nat \ P : ~(<<m, n>> \in OpToRel(<, Nat))
    BY NatLessThanWellFounded, WFMin
<1>2. n # 0 /\ n - 1 \in Nat
    OBVIOUS
<1>3. \A m \in Nat \ P : ~(m < n)
    BY <1>1 DEF OpToRel
<1>4. n - 1 \in P
    BY <1>2, <1>3
<1> QED BY <1>2, <1>4

\* Cuts of 0 .. s[K] - 1 into K consecutive blocks, the k-th from s[k] to s[k + 1] - 1.
Cuts(s, K) == s \in [0 .. K -> Nat] /\ s[0] = 0 /\ \A k \in 0 .. K - 1 : s[k] <= s[k + 1]

\* Blocks lie one behind the other, and each number is in one of them.
LEMMA BlocksPartition ==
    ASSUME NEW K \in Nat, NEW s, Cuts(s, K)
    PROVE  /\ \A k, l \in 0 .. K : k <= l => s[k] <= s[l]
           /\ \A x \in 0 .. s[K] - 1 : \E k \in 0 .. K - 1 : s[k] <= x /\ x < s[k + 1]
<1> USE DEF Cuts
<1>1. ASSUME NEW k \in 0 .. K, NEW l \in 0 .. K, k <= l
      PROVE  s[k] <= s[l]
  <2> DEFINE P == {d \in Nat : k + d \in 0 .. K => s[k] <= s[k + d]}
  <2>1. 0 \in P
      OBVIOUS
  <2>2. ASSUME NEW d \in P \cap Nat
        PROVE  d + 1 \in P
    <3> SUFFICES ASSUME k + (d + 1) \in 0 .. K PROVE s[k] <= s[k + (d + 1)]
        OBVIOUS
    <3>1. k + d \in 0 .. K - 1 /\ k + d \in 0 .. K /\ k + (d + 1) = (k + d) + 1
        OBVIOUS
    <3>2. s[k] <= s[k + d] /\ s[k + d] <= s[(k + d) + 1]
        BY <3>1
    <3>3. s[k] \in Nat /\ s[k + d] \in Nat /\ s[(k + d) + 1] \in Nat
        BY <3>1
    <3> QED BY <3>1, <3>2, <3>3
  <2>3. Nat \subseteq P
    <3> HIDE DEF P
    <3> QED BY <2>1, <2>2, NaturalInduction
  <2>4. l - k \in Nat /\ k + (l - k) = l
      BY <1>1
  <2> QED BY <2>3, <2>4
<1>2. ASSUME NEW x \in 0 .. s[K] - 1
      PROVE  \E k \in 0 .. K - 1 : s[k] <= x /\ x < s[k + 1]
  <2> SUFFICES ASSUME \A k \in 0 .. K - 1 : s[k] <= x => s[k + 1] <= x
               PROVE  FALSE
    <3>1. \A k \in 0 .. K - 1 : s[k + 1] \in Nat
        OBVIOUS
    <3> QED BY <3>1
  <2> DEFINE P == {k \in Nat : k \in 0 .. K => s[k] <= x}
  <2>1. 0 \in P
      OBVIOUS
  <2>2. \A k \in P \cap Nat : k + 1 \in P
      OBVIOUS
  <2>3. Nat \subseteq P
    <3> HIDE DEF P
    <3> QED BY <2>1, <2>2, NaturalInduction
  <2>4. s[K] <= x /\ s[K] \in Nat
      BY <2>3
  <2> QED BY <2>4
<1> QED BY <1>1, <1>2

\* n consecutive numbers from lo on.
Run(lo, n) == [j \in 1 .. n |-> lo + j - 1]

\* Blocks of consecutive numbers, one behind the other, flatten to all of them in order.
LEMMA BlocksFlatten ==
    ASSUME NEW K \in Nat \ {0}, NEW s, Cuts(s, K), NEW base \in Nat, NEW seqs,
           seqs \in [1 .. K -> Seq(Nat)],
           \A i \in 1 .. K : seqs[i] = Run(base + s[i - 1], s[i] - s[i - 1])
    PROVE  FlattenSeq(seqs) = Run(base, s[K])
<1> USE DEF Run
<1> DEFINE Eq(f) == f = [i \in 1 .. K |-> IF i = 1 THEN seqs[i] ELSE f[i - 1] \o seqs[i]]
           run(n) == [j \in 1 .. n |-> base + j - 1]
           W == [i \in 1 .. K |-> run(s[i])]
<1>0. Len(seqs) = K /\ K # 0
    OBVIOUS
<1>1. FlattenSeq(seqs) = (CHOOSE f : f = [i \in 1 .. Len(seqs) |->
                              IF i = 1 THEN seqs[i] ELSE f[i - 1] \o seqs[i]])[Len(seqs)]
    BY <1>0 DEF FlattenSeq
<1>2. ASSUME NEW i \in 1 .. K
      PROVE  /\ s[i - 1] \in Nat /\ s[i] \in Nat /\ s[i - 1] <= s[i]
             /\ i = 1 => s[i - 1] = 0
             /\ i # 1 => i - 1 \in 1 .. K
  <2>1. i - 1 \in 0 .. K - 1 /\ i \in 0 .. K /\ (i - 1) + 1 = i /\ i - 1 \in 0 .. K
      OBVIOUS
  <2> QED BY <2>1 DEF Cuts
<1>3. ASSUME NEW i \in 1 .. K, i # 1
      PROVE  run(s[i - 1]) \o seqs[i] = run(s[i])
  <2> DEFINE a == s[i - 1]
             b == s[i]
  <2>1. a \in Nat /\ b \in Nat /\ a <= b
      BY <1>2
  <2>2. seqs[i] = [j \in 1 .. b - a |-> base + a + j - 1]
      OBVIOUS
  <2> HIDE DEF a, b
  <2>3. run(a) \o [j \in 1 .. b - a |-> base + a + j - 1] = run(b)
      BY <2>1
  <2> QED BY <2>2, <2>3 DEF a, b
<1>4. Eq(W)
  <2> SUFFICES ASSUME NEW i \in 1 .. K
               PROVE  W[i] = IF i = 1 THEN seqs[i] ELSE W[i - 1] \o seqs[i]
      OBVIOUS
  <2>1. CASE i = 1
    <3>1. seqs[i] = [j \in 1 .. s[i] - 0 |-> base + 0 + j - 1]
        BY <1>2, <2>1
    <3>2. s[i] - 0 = s[i] /\ \A j \in 1 .. s[i] : base + 0 + j - 1 = base + j - 1
        BY <1>2
    <3>3. seqs[i] = run(s[i])
        BY <3>1, <3>2
    <3> QED BY <2>1, <3>3
  <2>2. CASE i # 1
      BY <1>2, <1>3, <2>2
  <2> QED BY <2>1, <2>2
<1> DEFINE F == CHOOSE f : Eq(f)
<1>5. Eq(F)
  <2> HIDE DEF W
  <2> QED BY <1>4
<1>6. \A i \in 1 .. K : W[i] = run(s[i])
    OBVIOUS
<1> HIDE DEF F, W, run
<1>7. \A i \in Nat : i \in 1 .. K => F[i] = W[i]
  <2> DEFINE P == {i \in Nat : i \in 1 .. K => F[i] = W[i]}
  <2>1. 0 \in P
      OBVIOUS
  <2>2. ASSUME NEW i \in P \cap Nat PROVE i + 1 \in P
    <3> SUFFICES ASSUME i + 1 \in 1 .. K PROVE F[i + 1] = W[i + 1]
        OBVIOUS
    <3>1. CASE i = 0
        BY <1>4, <1>5, <3>1
    <3>2. CASE i # 0
      <4>1. i \in 1 .. K /\ i + 1 # 1 /\ (i + 1) - 1 = i
          BY <3>2
      <4>2. F[i] = W[i]
          BY <4>1
      <4>3. F[i + 1] = F[i] \o seqs[i + 1] /\ W[i + 1] = W[i] \o seqs[i + 1]
          BY ZenonT(40), <1>4, <1>5, <4>1
      <4> QED BY <4>2, <4>3
    <3> QED BY <3>1, <3>2
  <2>3. Nat \subseteq P
    <3> HIDE DEF P
    <3> QED BY <2>1, <2>2, NaturalInduction
  <2> QED BY <2>3
<1>8. F[K] = run(s[K])
    BY <1>6, <1>7
<1> QED BY <1>0, <1>1, <1>8 DEF F, run

\* The scenarios are cut into one block per rank.
LEMMA RankBlocks ==
    /\ Cuts([k \in 0 .. NumRanks |-> FirstScenario(k)], NumRanks)
    /\ FirstScenario(NumRanks) = NumScenarios
    /\ \A k \in 0 .. NumRanks : FirstScenario(k) \in Nat
    /\ \A r \in Ranks : /\ ScenarioCount(r) \in Nat
                        /\ FirstScenario(r + 1) = FirstScenario(r) + ScenarioCount(r)
<1> DEFINE fat == NumScenarios % NumRanks
           lean == NumScenarios \div NumRanks
<1>1. /\ NumRanks \in Nat \ {0} /\ NumScenarios \in Nat
      /\ fat \in Nat /\ lean \in Nat /\ fat < NumRanks
      /\ NumScenarios = NumRanks * lean + fat
    BY PhasesAssumption
<1>2. \A k : FirstScenario(k) = IF k < fat THEN k * (lean + 1)
                                ELSE fat * (lean + 1) + (k - fat) * lean
    BY DEF FirstScenario
<1>3. \A r : ScenarioCount(r) = lean + (IF r < fat THEN 1 ELSE 0)
    BY DEF ScenarioCount
<1> HIDE DEF fat, lean
<1>4. ASSUME NEW k \in 0 .. NumRanks
      PROVE  FirstScenario(k) \in Nat
  <2>1. CASE k < fat
    <3>1. k * (lean + 1) \in Nat
        BY <1>1
    <3> QED BY <1>2, <2>1, <3>1
  <2>2. CASE ~(k < fat)
    <3>1. k - fat \in Nat
        BY <1>1, <2>2
    <3>2. fat * (lean + 1) \in Nat /\ (k - fat) * lean \in Nat
        BY <1>1, <3>1
    <3> QED BY <1>2, <2>2, <3>2
  <2> QED BY <2>1, <2>2
<1>5. ASSUME NEW r \in 0 .. NumRanks - 1
      PROVE  /\ ScenarioCount(r) \in Nat
             /\ FirstScenario(r + 1) = FirstScenario(r) + ScenarioCount(r)
  <2>1. r \in Int /\ r + 1 \in Int
      OBVIOUS
  <2>2. CASE r + 1 < fat
    <3>1. r < fat
        BY <1>1, <2>2
    <3>2. (r + 1) * (lean + 1) = r * (lean + 1) + (lean + 1)
        BY <1>1
    <3> QED BY <1>1, <1>2, <1>3, <2>2, <3>1, <3>2
  <2>3. CASE r + 1 = fat
    <3>1. r < fat /\ ~(r + 1 < fat)
        BY <1>1, <2>3
    <3>2. FirstScenario(r) = r * (lean + 1) /\ ScenarioCount(r) = lean + 1
        BY <1>2, <1>3, <3>1
    <3>3. FirstScenario(r + 1) = fat * (lean + 1) + 0 * lean
        BY <1>1, <1>2, <2>3, <3>1
    <3>4. fat * (lean + 1) = r * (lean + 1) + (lean + 1) /\ 0 * lean = 0
        BY <1>1, <2>3
    <3> QED BY <1>1, <3>2, <3>3, <3>4
  <2>4. CASE r + 1 > fat
    <3>1. ~(r < fat) /\ ~(r + 1 < fat) /\ r - fat \in Nat
        BY <1>1, <2>4
    <3>2. ((r + 1) - fat) * lean = (r - fat) * lean + lean
        BY <1>1, <3>1
    <3> QED BY <1>1, <1>2, <1>3, <3>1, <3>2
  <2> QED BY <1>1, <2>1, <2>2, <2>3, <2>4
<1>6. FirstScenario(NumRanks) = NumScenarios
  <2>1. FirstScenario(NumRanks) = fat * (lean + 1) + (NumRanks - fat) * lean
      BY <1>1, <1>2
  <2>2. fat * (lean + 1) + (NumRanks - fat) * lean = NumRanks * lean + fat
      BY <1>1
  <2> QED BY <1>1, <2>1, <2>2
<1>7. FirstScenario(0) = 0
  <2>1. CASE fat = 0
    <3>1. 0 * (lean + 1) + (0 - 0) * lean = 0
        BY <1>1
    <3> QED BY <1>2, <2>1, <3>1
  <2>2. CASE fat # 0
    <3>1. 0 < fat /\ 0 * (lean + 1) = 0
        BY <1>1, <2>2
    <3> QED BY <1>2, <3>1
  <2> QED BY <2>1, <2>2
<1>8. Cuts([k \in 0 .. NumRanks |-> FirstScenario(k)], NumRanks)
    BY <1>1, <1>4, <1>5, <1>7 DEF Cuts
<1> QED BY <1>4, <1>5, <1>6, <1>8 DEF Ranks

\* A rank's scenarios are cut into one block per worker.
LEMMA WorkerBlocks ==
    ASSUME NEW n \in Nat
    PROVE  /\ Cuts([w \in 0 .. NumWorkers |-> PartStart(n, w)], NumWorkers)
           /\ PartStart(n, NumWorkers) = n
           /\ \A w \in Workers : PartEnd(n, w) = PartStart(n, w + 1)
<1> DEFINE fat == n % NumWorkers
           lean == n \div NumWorkers
<1>1. /\ NumWorkers \in Nat \ {0} /\ fat \in Nat /\ lean \in Nat /\ fat < NumWorkers
      /\ n = NumWorkers * lean + fat
    BY PhasesAssumption
<1>2. /\ \A w : PartStart(n, w) = lean * w + (IF w < fat THEN w ELSE fat)
      /\ \A w : PartEnd(n, w) = PartStart(n, w) + lean + (IF w < fat THEN 1 ELSE 0)
    BY DEF PartStart, PartEnd
<1> HIDE DEF fat, lean
<1>3. ASSUME NEW w \in 0 .. NumWorkers
      PROVE  lean * w \in Nat /\ PartStart(n, w) \in Nat
  <2>1. lean * w \in Nat
      BY <1>1
  <2>2. (IF w < fat THEN w ELSE fat) \in Nat
      BY <1>1
  <2> QED BY <1>2, <2>1, <2>2
<1>4. ASSUME NEW w \in 0 .. NumWorkers - 1
      PROVE  /\ PartEnd(n, w) = PartStart(n, w + 1)
             /\ PartStart(n, w) <= PartStart(n, w + 1)
  <2>1. lean * (w + 1) = lean * w + lean
      BY <1>1
  <2>2. lean * w \in Nat
      BY <1>1, <1>3
  <2>3. CASE w < fat
    <3>1. PartStart(n, w) = lean * w + w /\ PartEnd(n, w) = PartStart(n, w) + lean + 1
        BY <1>2, <2>3
    <3>2. PartStart(n, w + 1) = lean * (w + 1) + (w + 1)
      <4>1. w + 1 < fat \/ w + 1 = fat
          BY <1>1, <2>3
      <4> QED BY <1>2, <4>1
    <3> QED BY <1>1, <2>1, <2>2, <3>1, <3>2
  <2>4. CASE ~(w < fat)
    <3>1. PartStart(n, w) = lean * w + fat /\ PartEnd(n, w) = PartStart(n, w) + lean + 0
        BY <1>2, <2>4
    <3>2. PartStart(n, w + 1) = lean * (w + 1) + fat
        BY <1>1, <1>2, <2>4
    <3> QED BY <1>1, <2>1, <2>2, <3>1, <3>2
  <2> QED BY <2>3, <2>4
<1>5. PartStart(n, 0) = 0
    BY <1>1, <1>2
<1>6. PartStart(n, NumWorkers) = n
  <2>1. lean * NumWorkers = NumWorkers * lean
      BY <1>1
  <2> QED BY <1>1, <1>2, <2>1
<1>7. Cuts([w \in 0 .. NumWorkers |-> PartStart(n, w)], NumWorkers)
    BY <1>1, <1>3, <1>4, <1>5 DEF Cuts
<1> QED BY <1>4, <1>6, <1>7 DEF Workers

-----------------------------------------------------------------------------
(* The end of a program *)

\* The steps from the simulation on, which end every program that simulates.
Chain == <<"simulate", "join", "simulated", "merge", "simulationGuard", "simulationStats",
           "paths", "costs", "report">>
ChainSteps == {"simulate", "join", "simulated", "merge", "simulationGuard", "simulationStats",
               "paths", "costs", "report"}
Simulates(s) == s # <<>> /\ s[Len(s)] = "report"
Chained(s) ==
    /\ Simulates(s) =>
          \A i \in 1 .. Len(s) : IF i + 9 > Len(s) THEN s[i] = Chain[i + 9 - Len(s)]
                                 ELSE s[i] \notin ChainSteps
    /\ ~Simulates(s) => \A i \in 1 .. Len(s) : s[i] \notin ChainSteps

First(s) == IF s = <<>> THEN "end" ELSE Head(s)

\* The steps of the chain, by their places.
LEMMA ChainLinks ==
    /\ \A j \in 1 .. 9 : Chain[j] \in ChainSteps
    /\ \A j \in 1 .. 9 : /\ Chain[j] = "simulate" <=> j = 1
                         /\ Chain[j] = "join" <=> j = 2
                         /\ Chain[j] = "simulated" <=> j = 3
                         /\ Chain[j] = "merge" <=> j = 4
                         /\ Chain[j] = "simulationGuard" <=> j = 5
                         /\ Chain[j] = "simulationStats" <=> j = 6
                         /\ Chain[j] = "paths" <=> j = 7
                         /\ Chain[j] = "costs" <=> j = 8
                         /\ Chain[j] = "report" <=> j = 9
<1>1. \A j \in 1 .. 9 : j = 1 \/ j = 2 \/ j = 3 \/ j = 4 \/ j = 5 \/ j = 6 \/ j = 7 \/ j = 8 \/ j = 9
    OBVIOUS
<1>2. /\ Chain[1] = "simulate" /\ Chain[2] = "join" /\ Chain[3] = "simulated"
      /\ Chain[4] = "merge" /\ Chain[5] = "simulationGuard" /\ Chain[6] = "simulationStats"
      /\ Chain[7] = "paths" /\ Chain[8] = "costs" /\ Chain[9] = "report"
    BY DEF Chain
<1> QED BY <1>1, <1>2 DEF ChainSteps

\* Advancing goes along the chain, and comes onto it only at its beginning.
LEMMA ChainOfTail ==
    ASSUME NEW s \in Seq(Steps), s # <<>>, Chained(s)
    PROVE  /\ Tail(s) \in Seq(Steps) /\ Chained(Tail(s))
           /\ First(s) = "simulate" <=> First(Tail(s)) = "join"
           /\ First(s) = "join" <=> First(Tail(s)) = "simulated"
           /\ First(s) = "simulated" <=> First(Tail(s)) = "merge"
           /\ First(s) = "merge" <=> First(Tail(s)) = "simulationGuard"
           /\ First(s) = "simulationGuard" <=> First(Tail(s)) = "simulationStats"
           /\ First(s) = "simulationStats" <=> First(Tail(s)) = "paths"
           /\ First(s) = "paths" <=> First(Tail(s)) = "costs"
           /\ First(s) = "costs" <=> First(Tail(s)) = "report"
           /\ First(s) = "report" => First(Tail(s)) = "end"
           /\ First(Tail(s)) = "simulate" => First(s) \notin ChainSteps
<1> DEFINE t == Tail(s)
<1>0. PICK n \in Nat : n = Len(s)
    BY LenProperties
<1>1. n \in Nat /\ n >= 1 /\ Head(s) = s[1]
    BY <1>0, EmptySeq, HeadTailProperties
<1>2. t \in Seq(Steps) /\ Len(t) = n - 1 /\ \A i \in 1 .. n - 1 : t[i] = s[i + 1]
    BY <1>0, HeadTailProperties
<1> HIDE DEF t
<1>3. t = <<>> <=> n = 1
    BY <1>1, <1>2, EmptySeq, LenProperties
<1>4. First(s) = s[1] /\ First(t) = (IF n = 1 THEN "end" ELSE s[2])
  <2>1. n # 1 => Head(t) = t[1]
      BY <1>2, <1>3, HeadTailProperties
  <2> QED BY <1>1, <1>2, <1>3, <2>1 DEF First
<1>5. CASE ~Simulates(s)
  <2>1. \A i \in 1 .. n : s[i] \notin ChainSteps
      BY <1>0, <1>5 DEF Chained
  <2>2. \A i \in 1 .. n - 1 : t[i] \notin ChainSteps
      BY <1>1, <1>2, <2>1
  <2>3. ~Simulates(t)
    <3>1. n # 1 => n - 1 \in 1 .. n - 1
        BY <1>1
    <3> QED BY <1>2, <1>3, <2>2, <3>1 DEF Simulates, ChainSteps
  <2>4. First(s) \notin ChainSteps /\ First(t) \notin ChainSteps
    <3>1. "end" \notin ChainSteps
        BY DEF ChainSteps
    <3>2. 1 \in 1 .. n /\ (n # 1 => 2 \in 1 .. n)
        BY <1>1
    <3> QED BY <1>4, <2>1, <3>1, <3>2
  <2>5. Chained(t)
      BY <1>2, <2>2, <2>3 DEF Chained
  <2> QED BY <1>2, <2>4, <2>5 DEF ChainSteps, t
<1>6. CASE Simulates(s)
  <2>1. s[n] = "report"
        /\ \A i \in 1 .. n : IF i + 9 > n THEN s[i] = Chain[i + 9 - n] ELSE s[i] \notin ChainSteps
      BY <1>0, <1>6 DEF Chained, Simulates
  <2>2. n # 1 => Simulates(t)
    <3>1. n # 1 => n - 1 \in 1 .. n - 1 /\ (n - 1) + 1 = n
        BY <1>1
    <3> QED BY <1>2, <1>3, <2>1, <3>1 DEF Simulates
  <2>3. n = 1 => ~Simulates(t)
      BY <1>3 DEF Simulates
  <2>4. Chained(t)
    <3>1. CASE n = 1
        BY <1>2, <2>3, <3>1 DEF Chained
    <3>2. CASE n # 1
      <4>1. ASSUME NEW i \in 1 .. Len(t)
            PROVE  IF i + 9 > Len(t) THEN t[i] = Chain[i + 9 - Len(t)]
                   ELSE t[i] \notin ChainSteps
        <5>1. i + 1 \in 1 .. n /\ t[i] = s[i + 1]
              /\ (i + 1) + 9 - n = i + 9 - Len(t) /\ ((i + 1) + 9 > n <=> i + 9 > Len(t))
            BY <1>1, <1>2
        <5> QED BY <2>1, <5>1
      <4> QED BY <2>2, <3>2, <4>1 DEF Chained
    <3> QED BY <3>1, <3>2
  <2>5. CASE n = 1
    <3>1. First(s) = "report" /\ First(t) = "end"
        BY <1>4, <2>1, <2>5
    <3> QED BY <1>2, <2>4, <3>1 DEF ChainSteps, t
  <2>6. CASE n # 1 /\ n <= 9
    <3>1. PICK j \in 1 .. 9 : j = 10 - n
        BY <1>1, <2>6
    <3>2. j + 1 \in 1 .. 9 /\ s[1] = Chain[j] /\ s[2] = Chain[j + 1]
      <4>1. 1 \in 1 .. n /\ 2 \in 1 .. n /\ 1 + 9 > n /\ 2 + 9 > n
            /\ 1 + 9 - n = j /\ 2 + 9 - n = j + 1
          BY <1>1, <2>6, <3>1
      <4> QED BY <1>1, <2>1, <2>6, <3>1, <4>1
    <3>3. First(s) = Chain[j] /\ First(t) = Chain[j + 1]
        BY <1>4, <2>6, <3>2
    <3>4. "end" # Chain[j + 1]
        BY <3>2, ChainLinks DEF ChainSteps
    <3> QED BY <1>2, <2>4, <3>1, <3>2, <3>3, <3>4, ChainLinks DEF t
  <2>7. CASE n > 9
    <3>1. 1 \in 1 .. n /\ 2 \in 1 .. n /\ ~(1 + 9 > n) /\ n # 1
        BY <1>1, <2>7
    <3>2. First(s) \notin ChainSteps
        BY <1>4, <2>1, <3>1
    <3>3. First(t) = "simulate" \/ First(t) \notin ChainSteps
      <4>1. CASE n = 10
        <5>1. 2 + 9 > n /\ 2 + 9 - n = 1 /\ 1 \in 1 .. 9
            BY <4>1
        <5>2. s[2] = Chain[1]
            BY <2>1, <3>1, <5>1
        <5>3. Chain[1] = "simulate"
            BY <5>1, ChainLinks
        <5> QED BY <1>4, <3>1, <5>2, <5>3
      <4>2. CASE n # 10
        <5>1. ~(2 + 9 > n)
            BY <1>1, <2>7, <4>2
        <5> QED BY <1>4, <2>1, <3>1, <5>1
      <4> QED BY <4>1, <4>2
    <3> QED BY <1>2, <2>4, <3>2, <3>3 DEF ChainSteps, t
  <2> QED BY <1>1, <2>5, <2>6, <2>7
<1> QED BY <1>5, <1>6 DEF t

-----------------------------------------------------------------------------
(* Where a result is *)

FlowTypes ==
    /\ census \in BOOLEAN
    /\ worker \in [Ranks -> [Workers -> [at : {"solve", "send", "failed"}, next : Nat]]]
    /\ channel \in [Ranks -> Seq(Nat)]
    /\ \A r \in Ranks : Len(channel[r]) <= Capacity
    /\ drain \in [Ranks -> {"waiting", "writing", "dead", "done"}]
    /\ hand \in [Ranks -> SUBSET Nat]
    /\ written \in [Ranks -> SUBSET Nat]
    /\ unwritten \in [Ranks -> SUBSET Nat]

\* The scenarios of a rank, and those whose results its workers have sent.
Share(r) == FirstScenario(r) .. FirstScenario(r) + ScenarioCount(r) - 1
Part(r, w) == FirstScenario(r) + Begin(r, w) .. FirstScenario(r) + worker[r][w].next - 1
Sent(r) == UNION {Part(r, w) : w \in Workers}

InPart(r, w) ==
    /\ Begin(r, w) <= worker[r][w].next /\ worker[r][w].next <= End(r, w)
    /\ worker[r][w].at = "send" => worker[r][w].next < End(r, w)

\* Each result sent is in one place.
Places(r) ==
    /\ Sent(r) = written[r] \cup unwritten[r] \cup hand[r] \cup ToSet(channel[r])
    /\ written[r] \cap unwritten[r] = {}
    /\ hand[r] \cap (written[r] \cup unwritten[r]) = {}
    /\ ToSet(channel[r]) \cap (written[r] \cup unwritten[r] \cup hand[r]) = {}
    /\ IsInjective(channel[r])
    /\ drain[r] # "writing" => hand[r] = {}
    /\ drain[r] = "done" => channel[r] = <<>>

RankFlow(r) ==
    /\ \A w \in Workers : InPart(r, w)
    /\ drain[r] # "dead" => Places(r)

Flow == FlowTypes /\ \A r \in Ranks : RankFlow(r)

\* The workers' parts of a rank's scenarios: apart from each other, and together all of them.
LEMMA WorkerParts ==
    ASSUME census \in BOOLEAN, NEW r \in Ranks
    PROVE  /\ \A w \in Workers : /\ Begin(r, w) \in Nat /\ End(r, w) \in Nat
                                 /\ Begin(r, w) <= End(r, w)
                                 /\ End(r, w) <= ScenarioCount(r)
           /\ \A v, w \in Workers : v # w => End(r, v) <= Begin(r, w) \/ End(r, w) <= Begin(r, v)
           /\ \A x \in 0 .. ScenarioCount(r) - 1 :
                 \E w \in Workers : Begin(r, w) <= x /\ x < End(r, w)
<1>1. PICK n \in Nat : n = ScenarioCount(r)
    BY RankBlocks
<1>2. NumWorkers \in Nat \ {0} /\ 0 \in Workers
    BY PhasesAssumption DEF Workers
<1>3. CASE census
  <2>1. \A w \in Workers : Begin(r, w) = 0 /\ End(r, w) = (IF w = 0 THEN n ELSE 0)
      BY <1>1, <1>3 DEF Begin, End
  <2> QED BY <1>1, <1>2, <2>1
<1>4. CASE ~census
  <2> DEFINE c == [w \in 0 .. NumWorkers |-> PartStart(n, w)]
  <2>1. /\ Cuts(c, NumWorkers) /\ c[NumWorkers] = n
      BY <1>2, WorkerBlocks
  <2>2. \A w \in Workers : /\ w \in 0 .. NumWorkers /\ w + 1 \in 0 .. NumWorkers /\ w \in Nat
                           /\ Begin(r, w) = c[w] /\ End(r, w) = c[w + 1]
    <3>1. \A w \in Workers : w \in 0 .. NumWorkers /\ w + 1 \in 0 .. NumWorkers /\ w \in Nat
        BY <1>2 DEF Workers
    <3>2. \A w \in Workers : Begin(r, w) = PartStart(n, w) /\ End(r, w) = PartStart(n, w + 1)
        BY <1>1, <1>4, WorkerBlocks DEF Begin, End
    <3> QED BY <3>1, <3>2
  <2> HIDE DEF c
  <2>3. \A k \in 0 .. NumWorkers : c[k] \in Nat
      BY <2>1 DEF Cuts
  <2>4. /\ \A k, l \in 0 .. NumWorkers : k <= l => c[k] <= c[l]
        /\ \A x \in 0 .. c[NumWorkers] - 1 :
              \E k \in 0 .. NumWorkers - 1 : c[k] <= x /\ x < c[k + 1]
      BY <1>2, <2>1, BlocksPartition
  <2>5. \A w \in Workers : /\ Begin(r, w) \in Nat /\ End(r, w) \in Nat
                           /\ Begin(r, w) <= End(r, w) /\ End(r, w) <= n
    <3> SUFFICES ASSUME NEW w \in Workers
                 PROVE  /\ c[w] \in Nat /\ c[w + 1] \in Nat
                        /\ c[w] <= c[w + 1] /\ c[w + 1] <= c[NumWorkers]
        BY <2>1, <2>2
    <3>1. w <= w + 1 /\ w + 1 <= NumWorkers /\ NumWorkers \in 0 .. NumWorkers
        BY <1>2, <2>2
    <3> QED BY <2>2, <2>3, <2>4, <3>1
  <2>6. \A v, w \in Workers : v # w => End(r, v) <= Begin(r, w) \/ End(r, w) <= Begin(r, v)
    <3> SUFFICES ASSUME NEW v \in Workers, NEW w \in Workers, v # w
                 PROVE  c[v + 1] <= c[w] \/ c[w + 1] <= c[v]
        BY <2>2
    <3>1. v + 1 <= w \/ w + 1 <= v
        BY <2>2
    <3> QED BY <2>2, <2>4, <3>1
  <2>7. \A x \in 0 .. n - 1 : \E w \in Workers : Begin(r, w) <= x /\ x < End(r, w)
      BY <2>1, <2>2, <2>4 DEF Workers
  <2> QED BY <1>1, <2>5, <2>6, <2>7
<1> QED BY <1>3, <1>4

\* All parts walked to their ends are the rank's scenarios.
LEMMA SentAll ==
    ASSUME FlowTypes, NEW r \in Ranks, \A w \in Workers : worker[r][w].next = End(r, w)
    PROVE  Sent(r) = Share(r)
<1>1. PICK b \in Nat : b = FirstScenario(r)
    BY RankBlocks, PhasesAssumption DEF Ranks
<1>2. PICK n \in Nat : n = ScenarioCount(r)
    BY RankBlocks
<1>3. census \in BOOLEAN
    BY DEF FlowTypes
<1>4. \A w \in Workers : Part(r, w) = b + Begin(r, w) .. b + End(r, w) - 1
    BY <1>1 DEF Part
<1>5. ASSUME NEW x \in Sent(r)
      PROVE  x \in Share(r)
  <2>1. PICK w \in Workers : x \in b + Begin(r, w) .. b + End(r, w) - 1
      BY <1>4, <1>5 DEF Sent
  <2> QED BY <1>1, <1>2, <1>3, <2>1, WorkerParts DEF Share
<1>6. ASSUME NEW x \in Share(r)
      PROVE  x \in Sent(r)
  <2>1. x \in b .. b + n - 1
      BY <1>1, <1>2, <1>6 DEF Share
  <2>2. x - b \in 0 .. n - 1 /\ x \in Int
      BY <2>1
  <2>3. PICK w \in Workers : Begin(r, w) <= x - b /\ x - b < End(r, w)
      BY <1>2, <1>3, <2>2, WorkerParts
  <2>4. Begin(r, w) \in Nat /\ End(r, w) \in Nat
      BY <1>3, WorkerParts
  <2>5. x \in b + Begin(r, w) .. b + End(r, w) - 1
      BY <2>2, <2>3, <2>4
  <2> QED BY <1>4, <2>5 DEF Sent
<1> QED BY <1>5, <1>6

\* What is in the channel after a send and after a receive.
LEMMA ChannelSend ==
    ASSUME NEW c \in Seq(Nat), NEW x \in Nat
    PROVE  /\ ToSet(Append(c, x)) = ToSet(c) \cup {x}
           /\ IsInjective(c) /\ x \notin ToSet(c) => IsInjective(Append(c, x))
<1>1. PICK n \in Nat : n = Len(c)
    BY LenProperties
<1>2. /\ DOMAIN Append(c, x) = 1 .. n + 1 /\ DOMAIN c = 1 .. n
      /\ \A i \in 1 .. n : Append(c, x)[i] = c[i]
      /\ Append(c, x)[n + 1] = x
    BY <1>1
<1>3. 1 .. n + 1 = (1 .. n) \cup {n + 1}
    OBVIOUS
<1>4. ToSet(Append(c, x)) = ToSet(c) \cup {x}
    BY <1>2, <1>3 DEF ToSet
<1>5. ASSUME IsInjective(c), x \notin ToSet(c)
      PROVE  IsInjective(Append(c, x))
    BY <1>2, <1>3, <1>5 DEF ToSet, IsInjective
<1> QED BY <1>4, <1>5

\* A receive takes one result out of the channel.
LEMMA ChannelTake ==
    ASSUME NEW c \in Seq(Nat), c # <<>>, IsInjective(c)
    PROVE  /\ Head(c) \in Nat /\ Head(c) \in ToSet(c)
           /\ Tail(c) \in Seq(Nat) /\ Len(Tail(c)) <= Len(c)
           /\ ToSet(Tail(c)) = ToSet(c) \ {Head(c)}
           /\ IsInjective(Tail(c))
<1>1. PICK n \in Nat : n = Len(c)
    BY LenProperties
<1>2. n >= 1 /\ Head(c) = c[1] /\ DOMAIN c = 1 .. n /\ c[1] \in Nat
    BY <1>1, EmptySeq, HeadTailProperties
<1>3. /\ Tail(c) \in Seq(Nat) /\ Len(Tail(c)) = n - 1 /\ DOMAIN Tail(c) = 1 .. n - 1
      /\ \A i \in 1 .. n - 1 : Tail(c)[i] = c[i + 1]
    BY <1>1, HeadTailProperties
<1>4. \A i, j \in 1 .. n : c[i] = c[j] => i = j
    BY <1>2 DEF IsInjective
<1>5. IsInjective(Tail(c))
    BY <1>2, <1>3, <1>4 DEF IsInjective
<1>6. ToSet(Tail(c)) = ToSet(c) \ {Head(c)}
  <2>1. ToSet(Tail(c)) = {c[i + 1] : i \in 1 .. n - 1}
      BY <1>3 DEF ToSet
  <2>2. ToSet(c) = {c[i] : i \in 1 .. n}
      BY <1>2 DEF ToSet
  <2>3. ASSUME NEW i \in 1 .. n - 1
        PROVE  c[i + 1] \in {c[k] : k \in 1 .. n} \ {c[1]}
    <3>1. i + 1 \in 1 .. n /\ i + 1 # 1 /\ 1 \in 1 .. n
        BY <1>2
    <3> QED BY <1>4, <3>1
  <2>4. ASSUME NEW i \in 1 .. n, c[i] # c[1]
        PROVE  c[i] \in {c[k + 1] : k \in 1 .. n - 1}
    <3>1. i - 1 \in 1 .. n - 1 /\ (i - 1) + 1 = i
        BY <2>4
    <3> QED BY <3>1
  <2> QED BY <1>2, <2>1, <2>2, <2>3, <2>4
<1>7. Head(c) \in ToSet(c)
  <2>1. 1 \in 1 .. n
      BY <1>2
  <2> QED BY <1>2, <2>1 DEF ToSet
<1> QED BY <1>1, <1>2, <1>3, <1>5, <1>6, <1>7

\* Nothing is sent in the beginning.
LEMMA FlowInit == Init => Flow
<1> SUFFICES ASSUME Init PROVE Flow
    OBVIOUS
<1>1. census \in BOOLEAN
    BY DEF Init
<1>2. \A r \in Ranks, w \in Workers : Begin(r, w) \in Nat /\ Begin(r, w) <= End(r, w)
    BY <1>1, WorkerParts
<1>3. /\ worker = [r \in Ranks |-> [w \in Workers |-> [at |-> "solve", next |-> Begin(r, w)]]]
      /\ \A r \in Ranks : /\ channel[r] = <<>> /\ hand[r] = {}
                          /\ written[r] = {} /\ unwritten[r] = {}
                          /\ drain[r] = "waiting"
      /\ channel \in [Ranks -> Seq(Nat)] /\ hand \in [Ranks -> SUBSET Nat]
      /\ written \in [Ranks -> SUBSET Nat] /\ unwritten \in [Ranks -> SUBSET Nat]
      /\ drain \in [Ranks -> {"waiting", "writing", "dead", "done"}]
    BY DEF Init
<1>4. worker \in [Ranks -> [Workers -> [at : {"solve", "send", "failed"}, next : Nat]]]
    BY <1>2, <1>3
<1>5. Len(<<>>) = 0 /\ Capacity \in Nat /\ 0 <= Capacity
    BY PhasesAssumption
<1>6. FlowTypes
    BY <1>1, <1>3, <1>4, <1>5 DEF FlowTypes
<1>7. ASSUME NEW r \in Ranks
      PROVE  RankFlow(r)
  <2>1. \A w \in Workers : worker[r][w].at = "solve" /\ worker[r][w].next = Begin(r, w)
      BY <1>3
  <2>2. \A w \in Workers : InPart(r, w)
      BY <1>2, <2>1 DEF InPart
  <2>3. Sent(r) = {}
    <3>1. FirstScenario(r) \in Nat
        BY RankBlocks, PhasesAssumption DEF Ranks
    <3>2. \A w \in Workers : Part(r, w) = {}
        BY <1>2, <2>1, <3>1 DEF Part
    <3> QED BY <3>2 DEF Sent
  <2>4. ToSet(<<>>) = {} /\ IsInjective(<<>>)
      BY DEF ToSet, IsInjective
  <2> QED BY <1>3, <2>2, <2>3, <2>4 DEF RankFlow, Places
<1> QED BY <1>6, <1>7 DEF Flow

\* A step of rank r leaves the results of the other ranks where they are.
LEMMA FlowFrame ==
    ASSUME Flow, FlowTypes', UNCHANGED census, NEW r \in Ranks, RankFlow(r)',
           \A q \in Ranks \ {r} :
               /\ worker'[q] = worker[q] /\ channel'[q] = channel[q] /\ drain'[q] = drain[q]
               /\ hand'[q] = hand[q] /\ written'[q] = written[q] /\ unwritten'[q] = unwritten[q]
    PROVE  Flow'
<1> SUFFICES ASSUME NEW q \in Ranks \ {r} PROVE RankFlow(q)'
    BY DEF Flow
<1>1. RankFlow(q)
    BY DEF Flow
<1>2. \A w \in Workers : /\ Begin(q, w)' = Begin(q, w) /\ End(q, w)' = End(q, w)
                         /\ worker'[q][w] = worker[q][w]
    BY DEF Begin, End
<1>3. \A w \in Workers : InPart(q, w) => InPart(q, w)'
    BY <1>2 DEF InPart
<1>4. \A w \in Workers : Part(q, w)' = Part(q, w)
    BY <1>2 DEF Part
<1>5. Sent(q)' = Sent(q)
    BY <1>4 DEF Sent
<1>6. Places(q) => Places(q)'
    BY <1>5 DEF Places
<1> QED BY <1>1, <1>3, <1>6 DEF RankFlow

\* A step that leaves the simulation alone moves no result.
LEMMA FlowKept == ASSUME Flow, UNCHANGED <<census, simVars>> PROVE Flow'
<1>1. FlowTypes'
    BY DEF Flow, FlowTypes, simVars, drainVars
<1>2. ASSUME NEW r \in Ranks PROVE RankFlow(r)'
  <2>1. RankFlow(r) /\ worker' = worker /\ census' = census
      BY DEF Flow, simVars
  <2>2. \A w \in Workers : Begin(r, w)' = Begin(r, w) /\ End(r, w)' = End(r, w)
      BY <2>1 DEF Begin, End
  <2>3. \A w \in Workers : InPart(r, w) => InPart(r, w)'
      BY <2>1, <2>2 DEF InPart
  <2>4. \A w \in Workers : Part(r, w)' = Part(r, w)
      BY <2>1, <2>2 DEF Part
  <2>5. Sent(r)' = Sent(r)
      BY <2>4 DEF Sent
  <2>6. Places(r) => Places(r)'
      BY <2>5 DEF Places, simVars, drainVars
  <2> QED BY <2>1, <2>3, <2>6 DEF RankFlow, simVars, drainVars
<1> QED BY <1>1, <1>2 DEF Flow

\* A step of a rank's workers that sends nothing: it moves no result.
LEMMA WorkersOnly ==
    ASSUME Flow, UNCHANGED <<census, channel, drainVars>>, NEW r \in Ranks,
           worker' \in [Ranks -> [Workers -> [at : {"solve", "send", "failed"}, next : Nat]]],
           \A q \in Ranks \ {r} : worker'[q] = worker[q],
           \A w \in Workers : /\ worker'[r][w].next = worker[r][w].next
                              /\ worker'[r][w].at = "send" =>
                                    worker[r][w].next < End(r, w)
    PROVE  Flow'
<1>1. FlowTypes'
    BY DEF Flow, FlowTypes, drainVars
<1>2. RankFlow(r)
    BY DEF Flow
<1>3. \A w \in Workers : Begin(r, w)' = Begin(r, w) /\ End(r, w)' = End(r, w)
    BY DEF Begin, End
<1>4. \A w \in Workers : InPart(r, w)'
    BY <1>2, <1>3 DEF InPart, RankFlow
<1>5. \A w \in Workers : Part(r, w)' = Part(r, w)
    BY <1>3 DEF Part
<1>6. Sent(r)' = Sent(r)
    BY <1>5 DEF Sent
<1>7. Places(r) => Places(r)'
    BY <1>6 DEF Places, drainVars
<1>8. RankFlow(r)'
    BY <1>2, <1>4, <1>7 DEF RankFlow, drainVars
<1> QED BY <1>1, <1>8, FlowFrame DEF drainVars

\* Numbers compare as they do after a shift.
LEMMA Shifted ==
    ASSUME NEW b \in Nat, NEW c \in Nat, NEW d \in Nat
    PROVE  (b + c <= b + d => c <= d) /\ (b + c <= b + d - 1 => c < d)
OBVIOUS

\* A result sent is in the channel.
LEMMA FlowSend ==
    ASSUME Flow, NEW r \in Ranks, NEW w \in Workers, worker[r][w].at = "send",
           drain[r] \notin {"dead", "done"}, Len(channel[r]) < Capacity, UNCHANGED <<census, drainVars>>,
           channel' = [channel EXCEPT ![r] = Append(@, FirstScenario(r) + worker[r][w].next)],
           worker' = [worker EXCEPT ![r][w] = [at |-> "solve", next |-> @.next + 1]]
    PROVE  Flow'
<1> DEFINE x == FirstScenario(r) + worker[r][w].next
<1>1. FlowTypes /\ RankFlow(r)
    BY DEF Flow
<1>2. PICK b \in Nat : b = FirstScenario(r)
    BY RankBlocks, PhasesAssumption DEF Ranks
<1>3. /\ worker[r][w] \in [at : {"solve", "send", "failed"}, next : Nat]
      /\ worker[r] \in [Workers -> [at : {"solve", "send", "failed"}, next : Nat]]
      /\ channel[r] \in Seq(Nat) /\ census \in BOOLEAN
    BY <1>1 DEF FlowTypes
<1>4. x = b + worker[r][w].next /\ x \in Nat
    BY <1>2, <1>3
<1> HIDE DEF x
<1>5. /\ channel'[r] = Append(channel[r], x)
      /\ \A q \in Ranks \ {r} : channel'[q] = channel[q] /\ worker'[q] = worker[q]
      /\ worker'[r][w] = [at |-> "solve", next |-> worker[r][w].next + 1]
      /\ \A v \in Workers \ {w} : worker'[r][v] = worker[r][v]
    BY <1>1 DEF FlowTypes, x
<1>6. Append(channel[r], x) \in Seq(Nat) /\ Len(Append(channel[r], x)) <= Capacity
  <2>1. PICK n \in Nat : n = Len(channel[r])
      BY <1>3, LenProperties
  <2>2. Append(channel[r], x) \in Seq(Nat) /\ Len(Append(channel[r], x)) = n + 1
      BY <1>3, <1>4, <2>1, AppendProperties
  <2> QED BY <2>1, <2>2, PhasesAssumption
<1>7. FlowTypes'
  <2>1. worker' \in [Ranks -> [Workers -> [at : {"solve", "send", "failed"}, next : Nat]]]
    <3>1. [at |-> "solve", next |-> worker[r][w].next + 1] \in
              [at : {"solve", "send", "failed"}, next : Nat]
        BY <1>3
    <3>2. worker' = [worker EXCEPT ![r] =
                        [worker[r] EXCEPT ![w] =
                            [at |-> "solve", next |-> worker[r][w].next + 1]]]
        BY <1>1, <1>3 DEF FlowTypes
    <3>3. [worker[r] EXCEPT ![w] = [at |-> "solve", next |-> worker[r][w].next + 1]] \in
              [Workers -> [at : {"solve", "send", "failed"}, next : Nat]]
        BY <1>3, <3>1
    <3> QED BY <1>1, <3>2, <3>3 DEF FlowTypes
  <2>2. channel' \in [Ranks -> Seq(Nat)]
      BY <1>1, <1>6 DEF FlowTypes, x
  <2>3. \A q \in Ranks : Len(channel'[q]) <= Capacity
      BY <1>1, <1>5, <1>6 DEF FlowTypes
  <2> QED BY <1>1, <2>1, <2>2, <2>3 DEF FlowTypes, drainVars
<1>8. \A v \in Workers : /\ Begin(r, v)' = Begin(r, v) /\ End(r, v)' = End(r, v)
                         /\ Begin(r, v) \in Nat /\ End(r, v) \in Nat
                         /\ worker[r][v].next \in Nat
                         /\ Begin(r, v) <= worker[r][v].next /\ worker[r][v].next <= End(r, v)
  <2>1. \A v \in Workers : Begin(r, v)' = Begin(r, v) /\ End(r, v)' = End(r, v)
      BY DEF Begin, End
  <2>2. \A v \in Workers : worker[r][v] \in [at : {"solve", "send", "failed"}, next : Nat]
      BY <1>3
  <2>3. \A v \in Workers : worker[r][v].next \in Nat
      BY <2>2
  <2> QED BY <1>1, <1>3, <2>1, <2>3, WorkerParts DEF RankFlow, InPart
<1>9. worker[r][w].next < End(r, w)
    BY <1>1 DEF RankFlow, InPart
<1>10. \A v \in Workers : InPart(r, v)'
  <2> SUFFICES ASSUME NEW v \in Workers PROVE InPart(r, v)'
      OBVIOUS
  <2>1. CASE v = w
      BY <1>5, <1>8, <1>9, <2>1 DEF InPart
  <2>2. CASE v # w
      BY <1>1, <1>5, <1>8, <2>2 DEF InPart, RankFlow
  <2> QED BY <2>1, <2>2
<1>11. \A v \in Workers : Part(r, v) = b + Begin(r, v) .. b + worker[r][v].next - 1
    BY <1>2 DEF Part
<1>12. \A v \in Workers : Part(r, v)' = b + Begin(r, v) .. b + worker'[r][v].next - 1
    BY <1>2, <1>8 DEF Part
<1>13. x \notin Sent(r)
  <2> SUFFICES ASSUME NEW v \in Workers, x \in b + Begin(r, v) .. b + worker[r][v].next - 1
               PROVE  FALSE
      BY <1>11 DEF Sent
  <2>0. b + Begin(r, v) <= x /\ x <= b + worker[r][v].next - 1
      BY <1>4, <1>8
  <2>1. v # w
    <3>1. PICK n \in Nat : n = worker[r][w].next
        BY <1>3
    <3>2. x = b + n /\ ~(b + n <= b + n - 1)
        BY <1>4, <3>1
    <3> QED BY <1>2, <2>0, <3>1, <3>2
  <2>2. End(r, v) <= Begin(r, w) \/ End(r, w) <= Begin(r, v)
      BY <1>3, <2>1, WorkerParts
  <2>3. PICK m \in Nat, n \in Nat : m = worker[r][v].next /\ n = worker[r][w].next
      BY <1>8
  <2>4. PICK bv \in Nat, ev \in Nat, bw \in Nat, ew \in Nat :
            bv = Begin(r, v) /\ ev = End(r, v) /\ bw = Begin(r, w) /\ ew = End(r, w)
      BY <1>8
  <2>5. bv <= m /\ m <= ev /\ bw <= n /\ n < ew /\ (ev <= bw \/ ew <= bv)
      BY <1>8, <1>9, <2>2, <2>3, <2>4
  <2>6. b + bv <= b + n /\ b + n <= b + m - 1
      BY <1>4, <2>0, <2>3, <2>4
  <2>7. bv <= n /\ n < m
      BY <2>3, <2>4, <2>6, Shifted
  <2>8. CASE ev <= bw
      BY SMTT(20), <2>3, <2>4, <2>5, <2>7, <2>8
  <2>9. CASE ew <= bv
      BY <2>3, <2>4, <2>5, <2>7, <2>9
  <2> QED BY <2>5, <2>8, <2>9
<1>14. Sent(r)' = Sent(r) \cup {x}
  <2>1. Part(r, w)' = Part(r, w) \cup {x}
      BY <1>4, <1>5, <1>8, <1>11, <1>12
  <2>2. \A v \in Workers \ {w} : Part(r, v)' = Part(r, v)
      BY <1>5, <1>11, <1>12
  <2> QED BY <2>1, <2>2 DEF Sent
<1>15. Places(r)
    BY <1>1 DEF RankFlow
<1>16. ToSet(channel'[r]) = ToSet(channel[r]) \cup {x} /\ IsInjective(channel'[r])
  <2>1. x \notin ToSet(channel[r])
      BY <1>13, <1>15 DEF Places
  <2> QED BY <1>3, <1>4, <1>5, <1>15, <2>1, ChannelSend DEF Places
<1>17. Places(r)'
  <2>1. /\ drain' = drain /\ hand' = hand /\ written' = written /\ unwritten' = unwritten
        /\ drain[r] # "done"
      BY DEF drainVars
  <2> QED BY <1>13, <1>14, <1>15, <1>16, <2>1 DEF Places
<1>18. RankFlow(r)'
    BY <1>10, <1>17 DEF RankFlow
<1> QED BY <1>5, <1>7, <1>18, FlowFrame DEF drainVars

\* The drain thread takes the oldest result.
LEMMA FlowTake ==
    ASSUME Flow, NEW r \in Ranks, UNCHANGED <<census, worker, written, unwritten>>,
           drain[r] = "waiting", channel[r] # <<>>,
           drain' = [drain EXCEPT ![r] = "writing"],
           hand' = [hand EXCEPT ![r] = {Head(channel[r])}],
           channel' = [channel EXCEPT ![r] = Tail(@)]
    PROVE  Flow'
<1>1. FlowTypes /\ RankFlow(r) /\ Places(r)
    BY DEF Flow, RankFlow
<1>2. channel[r] \in Seq(Nat) /\ IsInjective(channel[r]) /\ hand[r] = {}
    BY <1>1 DEF FlowTypes, Places
<1>3. /\ channel'[r] = Tail(channel[r]) /\ hand'[r] = {Head(channel[r])}
      /\ drain'[r] = "writing"
      /\ \A q \in Ranks \ {r} : /\ channel'[q] = channel[q] /\ hand'[q] = hand[q]
                                /\ drain'[q] = drain[q]
    BY <1>1 DEF FlowTypes
<1>4. /\ Head(channel[r]) \in Nat /\ Head(channel[r]) \in ToSet(channel[r])
      /\ Tail(channel[r]) \in Seq(Nat) /\ Len(Tail(channel[r])) <= Len(channel[r])
      /\ ToSet(Tail(channel[r])) = ToSet(channel[r]) \ {Head(channel[r])}
      /\ IsInjective(Tail(channel[r]))
    BY <1>2, ChannelTake
<1>5. FlowTypes'
  <2>1. \A q \in Ranks : Len(channel'[q]) <= Capacity
    <3>1. Len(Tail(channel[r])) \in Nat /\ Len(channel[r]) \in Nat
        BY <1>2, <1>4, LenProperties
    <3>2. Len(Tail(channel[r])) <= Capacity
        BY <1>1, <1>4, <3>1, PhasesAssumption DEF FlowTypes
    <3> QED BY <1>1, <1>3, <3>2 DEF FlowTypes
  <2> QED BY <1>1, <1>4, <2>1 DEF FlowTypes
<1>6. \A w \in Workers : InPart(r, w)' /\ Part(r, w)' = Part(r, w)
    BY <1>1 DEF RankFlow, InPart, Part, Begin, End
<1>7. Sent(r)' = Sent(r)
    BY <1>6 DEF Sent
<1>8. Places(r)'
    BY <1>1, <1>2, <1>3, <1>4, <1>7 DEF Places
<1> QED BY <1>3, <1>5, <1>6, <1>8, FlowFrame DEF RankFlow

\* It puts it to the written results or to the others, or panics and loses it.
LEMMA FlowWrite ==
    ASSUME Flow, NEW r \in Ranks, UNCHANGED <<census, worker, channel>>,
           drain[r] = "writing",
           \/ written' = [written EXCEPT ![r] = @ \cup hand[r]] /\ UNCHANGED unwritten
           \/ unwritten' = [unwritten EXCEPT ![r] = @ \cup hand[r]] /\ UNCHANGED written,
           drain' = [drain EXCEPT ![r] = "waiting"],
           hand' = [hand EXCEPT ![r] = {}]
    PROVE  Flow'
<1>1. FlowTypes /\ RankFlow(r) /\ Places(r)
    BY DEF Flow, RankFlow
<1>2. /\ hand'[r] = {} /\ drain'[r] = "waiting" /\ channel'[r] = channel[r]
      /\ \/ written'[r] = written[r] \cup hand[r] /\ unwritten'[r] = unwritten[r]
         \/ unwritten'[r] = unwritten[r] \cup hand[r] /\ written'[r] = written[r]
      /\ \A q \in Ranks \ {r} : /\ hand'[q] = hand[q] /\ drain'[q] = drain[q]
                                /\ written'[q] = written[q] /\ unwritten'[q] = unwritten[q]
    BY <1>1 DEF FlowTypes
<1>3. FlowTypes'
  <2>1. /\ hand[r] \in SUBSET Nat /\ written[r] \in SUBSET Nat /\ unwritten[r] \in SUBSET Nat
      BY <1>1 DEF FlowTypes
  <2>2. written' \in [Ranks -> SUBSET Nat] /\ unwritten' \in [Ranks -> SUBSET Nat]
      BY <1>1, <2>1 DEF FlowTypes
  <2>3. hand' \in [Ranks -> SUBSET Nat]
      BY <1>1 DEF FlowTypes
  <2> QED BY <1>1, <2>2, <2>3 DEF FlowTypes
<1>4. \A w \in Workers : InPart(r, w)' /\ Part(r, w)' = Part(r, w)
    BY <1>1 DEF RankFlow, InPart, Part, Begin, End
<1>5. Sent(r)' = Sent(r)
    BY <1>4 DEF Sent
<1>6. Places(r)'
    BY <1>1, <1>2, <1>5 DEF Places
<1> QED BY <1>2, <1>3, <1>4, <1>6, FlowFrame DEF RankFlow

\* A panic loses what is in the channel and in hand.
LEMMA FlowPanic ==
    ASSUME Flow, NEW r \in Ranks, UNCHANGED <<census, worker, written, unwritten>>,
           drain' = [drain EXCEPT ![r] = "dead"],
           hand' = [hand EXCEPT ![r] = {}],
           channel' = [channel EXCEPT ![r] = <<>>]
    PROVE  Flow'
<1>1. FlowTypes /\ RankFlow(r)
    BY DEF Flow
<1>2. /\ drain'[r] = "dead" /\ channel'[r] = <<>>
      /\ \A q \in Ranks \ {r} : /\ channel'[q] = channel[q] /\ hand'[q] = hand[q]
                                /\ drain'[q] = drain[q]
    BY <1>1 DEF FlowTypes
<1>3. FlowTypes'
  <2>1. Len(<<>>) <= Capacity /\ <<>> \in Seq(Nat)
      BY PhasesAssumption
  <2> QED BY <1>1, <1>2, <2>1 DEF FlowTypes
<1>4. \A w \in Workers : InPart(r, w)'
    BY <1>1 DEF RankFlow, InPart, Begin, End
<1> QED BY <1>2, <1>3, <1>4, FlowFrame DEF RankFlow

\* The drain thread ends with an empty channel.
LEMMA FlowEnd ==
    ASSUME Flow, NEW r \in Ranks, drain[r] = "waiting", channel[r] = <<>>,
           UNCHANGED <<census, worker, channel, hand, written, unwritten>>,
           drain' = [drain EXCEPT ![r] = "done"]
    PROVE  Flow'
<1>1. FlowTypes /\ RankFlow(r) /\ Places(r)
    BY DEF Flow, RankFlow
<1>2. drain'[r] = "done" /\ \A q \in Ranks \ {r} : drain'[q] = drain[q]
    BY <1>1 DEF FlowTypes
<1>3. FlowTypes'
    BY <1>1 DEF FlowTypes
<1>4. \A w \in Workers : InPart(r, w)' /\ Part(r, w)' = Part(r, w)
    BY <1>1 DEF RankFlow, InPart, Part, Begin, End
<1>5. Sent(r)' = Sent(r)
    BY <1>4 DEF Sent
<1>6. Places(r)'
    BY <1>1, <1>2, <1>5 DEF Places
<1> QED BY <1>2, <1>3, <1>4, <1>6, FlowFrame DEF RankFlow

-----------------------------------------------------------------------------
(* From the results to the report *)

Ended == {"join", "simulated", "merge", "simulationGuard", "simulationStats", "paths", "costs",
          "report", "end"}
Merged == {"simulationGuard", "simulationStats", "paths", "costs", "report"}

\* The workers of a rank that left its simulation have sent all their results, and its drain
\* thread is over once it was joined.
Finished ==
    \A r \in Ranks :
        /\ At(r) \in Ended \ {"end"} /\ ~SimFailed(r) =>
              \A w \in Workers : worker[r][w].next = End(r, w)
        /\ At(r) \in Ended \ {"join", "end"} => drain[r] \in {"done", "dead"}
        /\ drain[r] = "done" => At(r) \in Ended

Accounted(r) ==
    /\ drain[r] = "done"
    /\ \A w \in Workers : worker[r][w].next = End(r, w)
    /\ written[r] \cup unwritten[r] = Share(r)
    /\ written[r] \cap unwritten[r] = {}

InMerged == (\E r \in Ranks : At(r) \in Merged) \/ "report" \in outputs
InReport == (\E r \in Ranks : At(r) = "report") \/ "report" \in outputs
Results ==
    /\ InMerged => /\ \A r \in Ranks : Accounted(r)
                   /\ counts.completed + counts.failed = NumScenarios
    /\ InReport => costs = [i \in 1 .. NumScenarios |-> i - 1]
    /\ "report" \in outputs => At(Root) = "end"

OtherTypes ==
    /\ aborted \in BOOLEAN /\ exportsOk \in BOOLEAN /\ trainError \in BOOLEAN
    /\ outputs \subseteq {"outputs", "report"}
    /\ counts \in [completed : Nat, failed : Nat]
    /\ costs \in Seq(Nat)

AllChained == \A r \in Ranks : Chained(todo[r])

Control == AllChained /\ Finished /\ Results

\* The step of a rank that goes on with its program.
LEMMA Advances ==
    ASSUME IInv, AllChained, NEW r \in Ranks, todo[r] # <<>>, todo'[r] = Tail(todo[r])
    PROVE  /\ Chained(todo'[r]) /\ At(r) # "end"
           /\ At(r) = "simulate" <=> At(r)' = "join"
           /\ At(r) = "join" <=> At(r)' = "simulated"
           /\ At(r) = "simulated" <=> At(r)' = "merge"
           /\ At(r) = "merge" <=> At(r)' = "simulationGuard"
           /\ At(r) = "simulationGuard" <=> At(r)' = "simulationStats"
           /\ At(r) = "simulationStats" <=> At(r)' = "paths"
           /\ At(r) = "paths" <=> At(r)' = "costs"
           /\ At(r) = "costs" <=> At(r)' = "report"
           /\ At(r) = "report" => At(r)' = "end"
           /\ At(r)' = "simulate" => At(r) \notin ChainSteps
<1>1. todo[r] \in Seq(Steps) /\ Chained(todo[r])
    BY DEF IInv, Types, AllChained
<1>2. At(r) = First(todo[r]) /\ At(r)' = First(Tail(todo[r]))
    BY DEF At, First
<1>3. At(r) # "end"
  <2>1. At(r) \in Steps
      BY <1>1, HeadTailProperties DEF At
  <2> QED BY <2>1 DEF Steps, FallibleAnywhere, FallibleAtRoot, PlainMeetings
<1> QED BY <1>1, <1>2, <1>3, ChainOfTail

\* A rank that does not go on is where it was.
LEMMA SameAt ==
    ASSUME NEW r \in Ranks, todo'[r] = todo[r]
    PROVE  At(r)' = At(r)
BY DEF At

\* A step that leaves the simulation alone.
LEMMA ControlQuiet ==
    ASSUME IInv, Control, UNCHANGED <<simVars, mergeVars, census>>,
           \A r \in Ranks : \/ todo'[r] = todo[r]
                            \/ /\ todo[r] # <<>> /\ todo'[r] = Tail(todo[r])
                               /\ At(r) \notin {"simulate", "join", "simulated", "merge", "costs"},
           "report" \in outputs' =>
               "report" \in outputs \/ (At(Root) = "report" /\ At(Root)' = "end")
    PROVE  Control'
<1>1. AllChained /\ Finished /\ Results
    BY DEF Control
<1>2. ASSUME NEW r \in Ranks, todo'[r] # todo[r]
      PROVE  /\ Chained(todo'[r]) /\ At(r) # "end"
             /\ At(r)' \in Ended => At(r)' \in {"simulationStats", "paths", "costs", "end"}
             /\ At(r)' = "simulationStats" => At(r) = "simulationGuard"
             /\ At(r)' = "paths" => At(r) = "simulationStats"
             /\ At(r)' = "costs" => At(r) = "paths"
             /\ At(r) \in {"simulationGuard", "simulationStats", "paths", "report"}
                   => At(r)' \in {"simulationStats", "paths", "costs", "end"}
  <2>1. /\ todo[r] # <<>> /\ todo'[r] = Tail(todo[r])
        /\ At(r) \notin {"simulate", "join", "simulated", "merge", "costs"}
      BY <1>2
  <2> QED BY <1>1, <2>1, Advances DEF Ended
<1>3. \A r \in Ranks : /\ SimFailed(r)' = SimFailed(r) /\ drain'[r] = drain[r]
                       /\ \A w \in Workers : End(r, w)' = End(r, w)
                                             /\ worker'[r][w] = worker[r][w]
                       /\ Accounted(r)' = Accounted(r)
  <2>1. /\ drain' = drain /\ worker' = worker /\ written' = written /\ unwritten' = unwritten
        /\ census' = census
      BY DEF simVars, drainVars
  <2> QED BY <2>1 DEF SimFailed, End, Accounted, Share
<1>4. AllChained'
  <2> SUFFICES ASSUME NEW r \in Ranks PROVE Chained(todo'[r])
      BY DEF AllChained
  <2>1. CASE todo'[r] = todo[r]
      BY <1>1, <2>1 DEF AllChained
  <2>2. CASE todo'[r] # todo[r]
    <3>1. todo[r] # <<>> /\ todo'[r] = Tail(todo[r])
        BY <2>2
    <3> QED BY <1>1, <3>1, Advances
  <2> QED BY <2>1, <2>2
<1>5. \A r \in Ranks : /\ At(r)' \in Ended \ {"end"} => At(r) \in Ended \ {"end"}
                       /\ At(r)' \in Ended \ {"join", "end"} => At(r) \in Ended \ {"join", "end"}
                       /\ At(r)' \in Merged => At(r) \in Merged
                       /\ At(r)' = "report" => At(r) = "report"
                       /\ At(r) \in Ended => At(r)' \in Ended
                       /\ At(r) = "end" => At(r)' = "end"
  <2> SUFFICES ASSUME NEW r \in Ranks, At(r)' # At(r)
               PROVE  /\ At(r)' \in Ended \ {"end"} => At(r) \in Ended \ {"end"}
                      /\ At(r)' \in Ended \ {"join", "end"} => At(r) \in Ended \ {"join", "end"}
                      /\ At(r)' \in Merged => At(r) \in Merged
                      /\ At(r)' = "report" => At(r) = "report"
                      /\ At(r) \in Ended => At(r)' \in Ended
                      /\ At(r) = "end" => At(r)' = "end"
      OBVIOUS
  <2>1. /\ todo'[r] # todo[r]
        /\ At(r) \notin {"simulate", "join", "simulated", "merge", "costs"}
      BY SameAt
  <2> QED BY <1>2, <2>1 DEF Ended, Merged
<1>6. Finished'
    BY <1>1, <1>3, <1>5 DEF Finished
<1>7. Results'
  <2>1. Root \in Ranks
      BY PhasesAssumption DEF Root, Ranks
  <2>2. InMerged' => InMerged
      BY <1>5, <2>1 DEF InMerged, Merged
  <2>3. InReport' => InReport
      BY <1>5, <2>1 DEF InReport
  <2>4. "report" \in outputs' => At(Root)' = "end"
      BY <1>1, <1>5, <2>1 DEF Results
  <2>5. counts' = counts /\ costs' = costs
      BY DEF mergeVars
  <2> QED BY <1>1, <1>3, <2>2, <2>3, <2>4, <2>5 DEF Results
<1> QED BY <1>4, <1>6, <1>7 DEF Control

\* A step of the workers or the drain thread of rank r.
LEMMA ControlInside ==
    ASSUME IInv, Control, UNCHANGED <<phaseVars, mergeVars>>, NEW r \in Ranks,
           At(r) \in {"simulate", "join"}, drain[r] # "done",
           At(r) = "join" => /\ worker'[r] = worker[r]
                             /\ drain[r] = "dead" => drain'[r] = "dead",
           drain'[r] = "done" => At(r) = "join",
           \A q \in Ranks \ {r} : worker'[q] = worker[q] /\ drain'[q] = drain[q]
    PROVE  Control'
<1>1. AllChained /\ Finished /\ Results
    BY DEF Control
<1>2. \A q \in Ranks : todo'[q] = todo[q] /\ At(q)' = At(q)
    BY DEF phaseVars, At
<1>3. AllChained'
    BY <1>1, <1>2 DEF AllChained
<1>4. \A q \in Ranks, w \in Workers : End(q, w)' = End(q, w)
    BY DEF End, phaseVars
<1>5. \A q \in Ranks \ {r} : SimFailed(q)' = SimFailed(q)
    BY DEF SimFailed
<1>6. Finished'
  <2>1. ASSUME NEW q \in Ranks \ {r}
        PROVE  /\ At(q)' \in Ended \ {"end"} /\ ~SimFailed(q)' =>
                     \A w \in Workers : worker'[q][w].next = End(q, w)'
               /\ At(q)' \in Ended \ {"join", "end"} => drain'[q] \in {"done", "dead"}
               /\ drain'[q] = "done" => At(q)' \in Ended
      BY <1>1, <1>2, <1>4, <1>5 DEF Finished
  <2>2. /\ At(r)' \in Ended \ {"end"} /\ ~SimFailed(r)' =>
               \A w \in Workers : worker'[r][w].next = End(r, w)'
        /\ At(r)' \in Ended \ {"join", "end"} => drain'[r] \in {"done", "dead"}
        /\ drain'[r] = "done" => At(r)' \in Ended
    <3>1. At(r) \notin Ended \ {"join", "end"} /\ (At(r) \in Ended => At(r) = "join")
          /\ "join" \in Ended
        BY DEF Ended
    <3>2. At(r) = "join" /\ ~SimFailed(r)' => ~SimFailed(r)
        BY DEF SimFailed
    <3> QED BY <1>1, <1>2, <1>4, <3>1, <3>2 DEF Finished
  <2> QED BY <2>1, <2>2 DEF Finished
<1>7. ~InMerged
    BY <1>1 DEF Results, Accounted
<1>8. ~InMerged' /\ ~InReport' /\ "report" \notin outputs'
  <2>1. outputs' = outputs
      BY DEF phaseVars
  <2>2. "report" \in Merged
      BY DEF Merged
  <2> QED BY <1>2, <1>7, <2>1, <2>2 DEF InMerged, InReport
<1>9. Results'
    BY <1>8 DEF Results
<1> QED BY <1>3, <1>6, <1>9 DEF Control

\* A rank leaves its simulation, or joins its drain thread.
LEMMA ControlAdvance ==
    ASSUME IInv, Control, UNCHANGED <<simVars, mergeVars, census, outputs>>,
           FlowTypes, NEW r \in Ranks, \A w \in Workers : InPart(r, w),
           todo' = Continued(r),
           \/ At(r) = "simulate" /\ \A w \in Workers : Idle(r, w)
           \/ At(r) = "join" /\ drain[r] \in {"done", "dead"}
    PROVE  Control'
<1>1. AllChained /\ Finished /\ Results
    BY DEF Control
<1>2. /\ todo[r] # <<>> /\ todo'[r] = Tail(todo[r])
      /\ \A q \in Ranks \ {r} : todo'[q] = todo[q]
    BY DEF IInv, Types, Continued, At
<1>3. /\ Chained(todo'[r])
      /\ At(r) = "simulate" => At(r)' = "join"
      /\ At(r) = "join" => At(r)' = "simulated"
      /\ \A q \in Ranks \ {r} : At(q)' = At(q)
    BY <1>1, <1>2, Advances, SameAt
<1>4. AllChained'
    BY <1>1, <1>2, <1>3 DEF AllChained
<1>5. \A q \in Ranks : /\ SimFailed(q)' = SimFailed(q) /\ drain'[q] = drain[q]
                       /\ \A w \in Workers : End(q, w)' = End(q, w)
                                             /\ worker'[q][w] = worker[q][w]
                       /\ Accounted(q)' = Accounted(q)
  <2>1. /\ drain' = drain /\ worker' = worker /\ written' = written /\ unwritten' = unwritten
        /\ census' = census
      BY DEF simVars, drainVars
  <2> QED BY <2>1 DEF SimFailed, End, Accounted, Share
<1>6. ~SimFailed(r) => \A w \in Workers : worker[r][w].next = End(r, w)
  <2>1. CASE At(r) = "join"
      BY <1>1, <2>1 DEF Finished, Ended
  <2>2. CASE At(r) = "simulate"
    <3> SUFFICES ASSUME ~SimFailed(r), NEW w \in Workers
                 PROVE  worker[r][w].next = End(r, w)
        OBVIOUS
    <3>1. worker[r][w].at # "failed" /\ Idle(r, w)
        BY <2>2 DEF SimFailed
    <3>2. worker[r][w].next >= End(r, w) /\ worker[r][w].next <= End(r, w)
        BY <3>1 DEF Idle, InPart
    <3>3. census \in BOOLEAN /\ worker[r][w].next \in Nat
      <4>1. worker[r][w] \in [at : {"solve", "send", "failed"}, next : Nat]
          BY DEF FlowTypes
      <4> QED BY <4>1 DEF FlowTypes
    <3>4. End(r, w) \in Nat
        BY <3>3, WorkerParts
    <3> QED BY <3>2, <3>3, <3>4
  <2> QED BY <2>1, <2>2
<1>7. Finished'
  <2> SUFFICES ASSUME NEW q \in Ranks
        PROVE  /\ At(q)' \in Ended \ {"end"} /\ ~SimFailed(q)' =>
                     \A w \in Workers : worker'[q][w].next = End(q, w)'
               /\ At(q)' \in Ended \ {"join", "end"} => drain'[q] \in {"done", "dead"}
               /\ drain'[q] = "done" => At(q)' \in Ended
      BY DEF Finished
  <2>1. CASE q = r
      BY <1>1, <1>3, <1>5, <1>6, <2>1 DEF Finished, Ended
  <2>2. CASE q # r
      BY <1>1, <1>3, <1>5, <2>2 DEF Finished
  <2> QED BY <2>1, <2>2
<1>8. Results'
  <2>1. outputs' = outputs /\ counts' = counts /\ costs' = costs
      BY DEF mergeVars
  <2>2. At(r)' \notin Merged /\ At(r)' # "report"
      BY <1>3 DEF Merged
  <2>3. InMerged' => InMerged
      BY <1>3, <2>1, <2>2 DEF InMerged
  <2>4. InReport' => InReport
      BY <1>3, <2>1, <2>2 DEF InReport
  <2>5. "report" \in outputs => At(Root)' = "end"
      BY <1>1, <1>3, PhasesAssumption DEF Results, Root, Ranks
  <2> QED BY <1>1, <1>5, <2>1, <2>3, <2>4, <2>5 DEF Results
<1> QED BY <1>4, <1>7, <1>8 DEF Control

-----------------------------------------------------------------------------
(* The merged counts *)

Taken(s) == CHOOSE x \in s : TRUE
Adds(f, S, iter) ==
    iter = [s \in SUBSET S |-> IF s = {} THEN 0 ELSE f[Taken(s)] + iter[s \ {Taken(s)}]]
Counts(g, S, iter) ==
    iter = [s \in SUBSET S |-> IF s = {} THEN 0
                               ELSE Cardinality(g[Taken(s)]) + iter[s \ {Taken(s)}]]
CountOver(g, S) == (CHOOSE iter : Counts(g, S, iter))[S]

\* What the merge computes.
LEMMA MergeCounts ==
    ASSUME NEW g
    PROVE  MapThenSumSet(LAMBDA r : Cardinality(g[r]), Ranks) = CountOver(g, Ranks)
BY Zenon DEF MapThenSumSet, MapThenFoldSet, CountOver, Counts, Taken

\* The element the folds take out first is in the set.
LEMMA TakenFrom ==
    ASSUME NEW S, NEW s \in SUBSET S, s # {}
    PROVE  Taken(s) \in s /\ Taken(s) \in S /\ s \ {Taken(s)} \in SUBSET S
BY DEF Taken

\* Induction over the subsets of a finite set, one element taken out at a time.
LEMMA SubsetInduction ==
    ASSUME NEW S, IsFiniteSet(S), NEW P, {} \in P,
           \A s \in SUBSET S : s # {} /\ s \ {Taken(s)} \in P => s \in P
    PROVE  SUBSET S \subseteq P
<1> DEFINE Q == {n \in Nat : \A s \in SUBSET S : Cardinality(s) = n => s \in P}
<1>0. ASSUME NEW s \in SUBSET S
      PROVE  IsFiniteSet(s) /\ Cardinality(s) \in Nat
    BY FS_Subset, FS_CardinalityType
<1>1. 0 \in Q
    BY <1>0, FS_EmptySet
<1>2. ASSUME NEW n \in Q
      PROVE  n + 1 \in Q
  <2> SUFFICES ASSUME NEW s \in SUBSET S, Cardinality(s) = n + 1
               PROVE  s \in P
      OBVIOUS
  <2>0. n \in Nat
      OBVIOUS
  <2>1. s # {}
      BY <2>0, FS_EmptySet
  <2>2. Taken(s) \in s
      BY <2>1 DEF Taken
  <2>3. Cardinality(s \ {Taken(s)}) = n
    <3>1. Cardinality(s \ {Taken(s)}) = Cardinality(s) - 1
        BY <1>0, <2>2, FS_RemoveElement
    <3> QED BY <2>0, <3>1
  <2> QED BY <2>1, <2>3
<1>3. Nat \subseteq Q
  <2> HIDE DEF Q
  <2> QED BY <1>1, <1>2, NaturalInduction
<1> QED BY <1>0, <1>3

\* A sum exists.
LEMMA SumExists ==
    ASSUME NEW S, IsFiniteSet(S), NEW f, \A x \in S : f[x] \in Int
    PROVE  \E iter : Adds(f, S, iter)
<1> DEFINE Step(g, s) == IF s = {} THEN 0 ELSE f[Taken(s)] + g[s \ {Taken(s)}]
           Up(n) == {s \in SUBSET S : Cardinality(s) <= n}
           Q == {n \in Nat : \E g \in [SUBSET S -> Int] : \A s \in Up(n) : g[s] = Step(g, s)}
<1>0. ASSUME NEW s \in SUBSET S
      PROVE  IsFiniteSet(s) /\ Cardinality(s) \in Nat
    BY FS_Subset, FS_CardinalityType
<1>1. 0 \in Q
  <2> DEFINE g == [s \in SUBSET S |-> 0]
  <2>1. \A s \in Up(0) : s = {}
      BY <1>0, FS_EmptySet
  <2>2. \A s \in Up(0) : g[s] = Step(g, s)
      BY <2>1
  <2>3. g \in [SUBSET S -> Int]
      OBVIOUS
  <2> QED BY <2>2, <2>3
<1>2. ASSUME NEW n \in Q
      PROVE  n + 1 \in Q
  <2>1. PICK g \in [SUBSET S -> Int] : \A s \in Up(n) : g[s] = Step(g, s)
      OBVIOUS
  <2> DEFINE h == [s \in SUBSET S |-> Step(g, s)]
  <2>2. h \in [SUBSET S -> Int]
    <3>1. ASSUME NEW s \in SUBSET S PROVE Step(g, s) \in Int
        BY TakenFrom
    <3> HIDE DEF Step
    <3> QED BY <3>1
  <2>3. ASSUME NEW s \in Up(n + 1)
        PROVE  h[s] = Step(h, s)
    <3>1. CASE s = {}
        BY <3>1
    <3>2. CASE s # {}
      <4>1. Taken(s) \in s /\ s \ {Taken(s)} \in SUBSET S
          BY <3>2, TakenFrom
      <4>2. s \ {Taken(s)} \in Up(n)
          BY <1>0, <4>1, FS_RemoveElement
      <4>3. h[s \ {Taken(s)}] = g[s \ {Taken(s)}]
        <5> HIDE DEF Step
        <5> QED BY <2>1, <4>1, <4>2
      <4> QED BY <3>2, <4>3
    <3> QED BY <3>1, <3>2
  <2>4. n + 1 \in Nat
      OBVIOUS
  <2> HIDE DEF h, Step, Up
  <2> QED BY <2>2, <2>3, <2>4
<1>3. Nat \subseteq Q
  <2> HIDE DEF Q
  <2> QED BY <1>1, <1>2, NaturalInduction
<1>4. PICK g \in [SUBSET S -> Int] : \A s \in Up(Cardinality(S)) : g[s] = Step(g, s)
    BY <1>0, <1>3
<1>5. \A s \in SUBSET S : s \in Up(Cardinality(S))
    BY FS_Subset
<1>6. g = [s \in SUBSET S |-> Step(g, s)]
  <2> HIDE DEF Step, Up
  <2> QED BY <1>4, <1>5
<1> QED BY <1>6 DEF Adds

\* So the counts of finite sets are what their recursion says.
LEMMA CountExists ==
    ASSUME NEW S, IsFiniteSet(S), NEW g, \A x \in S : IsFiniteSet(g[x])
    PROVE  \E iter : Counts(g, S, iter)
<1> DEFINE f == [x \in S |-> Cardinality(g[x])]
<1>1. \A x \in S : f[x] = Cardinality(g[x]) /\ f[x] \in Int
    BY FS_CardinalityType
<1>2. \A s \in SUBSET S : s # {} => f[Taken(s)] = Cardinality(g[Taken(s)])
    BY TakenFrom
<1> HIDE DEF f
<1>3. PICK iter : Adds(f, S, iter)
    BY <1>1, SumExists
<1>4. Counts(g, S, iter)
    BY <1>2, <1>3 DEF Adds, Counts
<1> QED BY <1>4

\* The two cases of the recursion.
LEMMA CountUnfolds ==
    ASSUME NEW S, NEW g, NEW iter, Counts(g, S, iter)
    PROVE  /\ iter[{}] = 0
           /\ \A s \in SUBSET S : s # {} =>
                 iter[s] = Cardinality(g[Taken(s)]) + iter[s \ {Taken(s)}]
BY DEF Counts

\* The ranks' shares are apart from each other and together all scenarios.
LEMMA Shares ==
    /\ \A r \in Ranks : Share(r) \subseteq 0 .. NumScenarios - 1
    /\ \A q, r \in Ranks : q # r => Share(q) \cap Share(r) = {}
    /\ UNION {Share(r) : r \in Ranks} = 0 .. NumScenarios - 1
<1> DEFINE c == [k \in 0 .. NumRanks |-> FirstScenario(k)]
<1>1. NumRanks \in Nat /\ NumScenarios \in Nat
    BY PhasesAssumption
<1>2. /\ Cuts(c, NumRanks) /\ \A k \in 0 .. NumRanks : c[k] = FirstScenario(k) /\ c[k] \in Nat
      /\ c[NumRanks] = NumScenarios
    BY <1>1, RankBlocks
<1>3. \A r \in Ranks : /\ r \in 0 .. NumRanks /\ r + 1 \in 0 .. NumRanks /\ r \in Nat
                       /\ Share(r) = c[r] .. c[r + 1] - 1
  <2>1. \A r \in Ranks : r \in 0 .. NumRanks /\ r + 1 \in 0 .. NumRanks /\ r \in Nat
      BY <1>1 DEF Ranks
  <2> HIDE DEF c
  <2> QED BY <1>2, <2>1, RankBlocks DEF Share
<1> HIDE DEF c
<1>4. /\ \A k, l \in 0 .. NumRanks : k <= l => c[k] <= c[l]
      /\ \A x \in 0 .. c[NumRanks] - 1 : \E k \in 0 .. NumRanks - 1 : c[k] <= x /\ x < c[k + 1]
    BY <1>1, <1>2, BlocksPartition
<1>5. \A r \in Ranks : Share(r) \subseteq 0 .. NumScenarios - 1
  <2> SUFFICES ASSUME NEW r \in Ranks PROVE Share(r) \subseteq 0 .. NumScenarios - 1
      OBVIOUS
  <2>1. c[r + 1] <= NumScenarios
      BY <1>1, <1>2, <1>3, <1>4
  <2>2. c[r] \in Nat /\ c[r + 1] \in Nat
      BY <1>2, <1>3
  <2> QED BY <1>1, <1>3, <2>1, <2>2
<1>6. ASSUME NEW q \in Ranks, NEW r \in Ranks, q < r
      PROVE  Share(q) \cap Share(r) = {}
  <2>1. q + 1 <= r
      BY <1>3, <1>6
  <2>2. c[q + 1] <= c[r]
      BY <1>3, <1>4, <2>1
  <2>3. c[q] \in Nat /\ c[q + 1] \in Nat /\ c[r] \in Nat /\ c[r + 1] \in Nat
      BY <1>2, <1>3
  <2> QED BY SMTT(20), <1>3, <2>2, <2>3
<1>7. \A q, r \in Ranks : q # r => Share(q) \cap Share(r) = {}
  <2>1. \A q, r \in Ranks : q # r => q < r \/ r < q
      BY <1>3
  <2> QED BY <1>6, <2>1
<1>8. ASSUME NEW x \in 0 .. NumScenarios - 1
      PROVE  \E r \in Ranks : x \in Share(r)
  <2>1. PICK k \in 0 .. NumRanks - 1 : c[k] <= x /\ x < c[k + 1]
      BY <1>2, <1>4
  <2>2. k \in Ranks /\ c[k] \in Nat /\ c[k + 1] \in Nat
      BY <1>2, <1>3 DEF Ranks
  <2>3. x \in c[k] .. c[k + 1] - 1
      BY <2>1, <2>2
  <2> QED BY <1>3, <2>2, <2>3
<1> QED BY <1>5, <1>7, <1>8

\* Every scenario is counted once.
LEMMA CountsAddUp ==
    ASSUME NEW g, NEW h,
           \A r \in Ranks : g[r] \cup h[r] = Share(r) /\ g[r] \cap h[r] = {}
    PROVE  /\ CountOver(g, Ranks) \in Nat /\ CountOver(h, Ranks) \in Nat
           /\ CountOver(g, Ranks) + CountOver(h, Ranks) = NumScenarios
<1> DEFINE G == CHOOSE iter : Counts(g, Ranks, iter)
           H == CHOOSE iter : Counts(h, Ranks, iter)
           All(s) == UNION {Share(r) : r \in s}
<1>0. IsFiniteSet(Ranks)
    BY PhasesAssumption, FS_Interval DEF Ranks
<1>1. IsFiniteSet(0 .. NumScenarios - 1) /\ Cardinality(0 .. NumScenarios - 1) = NumScenarios
    BY PhasesAssumption, FS_Interval
<1>2. \A r \in Ranks : /\ IsFiniteSet(Share(r)) /\ IsFiniteSet(g[r]) /\ IsFiniteSet(h[r])
                       /\ Cardinality(g[r]) \in Nat /\ Cardinality(h[r]) \in Nat
                       /\ Cardinality(Share(r)) = Cardinality(g[r]) + Cardinality(h[r])
  <2> SUFFICES ASSUME NEW r \in Ranks
               PROVE  /\ IsFiniteSet(Share(r)) /\ IsFiniteSet(g[r]) /\ IsFiniteSet(h[r])
                      /\ Cardinality(g[r]) \in Nat /\ Cardinality(h[r]) \in Nat
                      /\ Cardinality(Share(r)) = Cardinality(g[r]) + Cardinality(h[r])
      OBVIOUS
  <2>1. Share(r) \in SUBSET (0 .. NumScenarios - 1)
      BY Shares
  <2>2. IsFiniteSet(Share(r))
      BY <1>1, <2>1, FS_Subset
  <2>3. g[r] \in SUBSET Share(r) /\ h[r] \in SUBSET Share(r)
      OBVIOUS
  <2>4. IsFiniteSet(g[r]) /\ IsFiniteSet(h[r])
      BY <2>2, <2>3, FS_Subset
  <2>5. Cardinality(g[r]) \in Nat /\ Cardinality(h[r]) \in Nat
      BY <2>4, FS_CardinalityType
  <2>6. Cardinality(g[r] \cup h[r]) = Cardinality(g[r]) + Cardinality(h[r])
                                      - Cardinality(g[r] \cap h[r])
      BY <2>4, FS_Union
  <2>7. Cardinality(g[r] \cap h[r]) = 0
      BY FS_EmptySet
  <2>8. Cardinality(Share(r)) = Cardinality(g[r]) + Cardinality(h[r])
    <3>1. Cardinality(Share(r)) = Cardinality(g[r]) + Cardinality(h[r]) - 0
        BY <2>6, <2>7
    <3> QED BY <2>5, <3>1
  <2> QED BY <2>2, <2>4, <2>5, <2>8
<1>3. Counts(g, Ranks, G) /\ Counts(h, Ranks, H)
  <2>1. (\E iter : Counts(g, Ranks, iter)) /\ (\E iter : Counts(h, Ranks, iter))
      BY <1>0, <1>2, CountExists
  <2> QED BY <2>1
<1> HIDE DEF G, H
<1> DEFINE P == {s \in SUBSET Ranks : /\ G[s] \in Nat /\ H[s] \in Nat /\ IsFiniteSet(All(s))
                                      /\ Cardinality(All(s)) = G[s] + H[s]}
<1>4. {} \in P
  <2>1. All({}) = {}
      OBVIOUS
  <2>2. G[{}] = 0 /\ H[{}] = 0
      BY <1>3, CountUnfolds
  <2> HIDE DEF All
  <2> QED BY <2>1, <2>2, FS_EmptySet
<1>5. ASSUME NEW s \in SUBSET Ranks, s # {}, s \ {Taken(s)} \in P
      PROVE  s \in P
  <2> DEFINE t == s \ {Taken(s)}
             r == Taken(s)
  <2>1. r \in s /\ r \in Ranks /\ t \in SUBSET Ranks
      BY <1>5, TakenFrom
  <2>2. G[s] = Cardinality(g[r]) + G[t] /\ H[s] = Cardinality(h[r]) + H[t]
      BY <1>3, <1>5, CountUnfolds
  <2>3. /\ G[t] \in Nat /\ H[t] \in Nat /\ IsFiniteSet(All(t))
        /\ Cardinality(All(t)) = G[t] + H[t]
      BY <1>5
  <2>4. All(s) = All(t) \cup Share(r) /\ All(t) \cap Share(r) = {}
      BY <2>1, Shares
  <2> HIDE DEF t, r, All
  <2>5. /\ IsFiniteSet(All(s))
        /\ Cardinality(All(s)) = Cardinality(All(t)) + Cardinality(Share(r))
                                 - Cardinality(All(t) \cap Share(r))
    <3>1. IsFiniteSet(All(t)) /\ IsFiniteSet(Share(r))
        BY <1>2, <2>1, <2>3
    <3>2. /\ IsFiniteSet(All(t) \cup Share(r))
          /\ Cardinality(All(t) \cup Share(r)) =
                 Cardinality(All(t)) + Cardinality(Share(r)) - Cardinality(All(t) \cap Share(r))
        BY ONLY <3>1, FS_Union
    <3> QED BY <2>4, <3>2, Zenon
  <2>6. Cardinality(All(t) \cap Share(r)) = 0
      BY <2>4, FS_EmptySet
  <2>7. /\ Cardinality(g[r]) \in Nat /\ Cardinality(h[r]) \in Nat
        /\ Cardinality(Share(r)) = Cardinality(g[r]) + Cardinality(h[r])
      BY <1>2, <2>1
  <2>8. G[s] \in Nat /\ H[s] \in Nat /\ Cardinality(All(s)) = G[s] + H[s]
      BY <2>2, <2>3, <2>5, <2>6, <2>7
  <2> QED BY <2>5, <2>8
<1>6. Ranks \in P
  <2> HIDE DEF P
  <2> QED BY <1>0, <1>4, <1>5, SubsetInduction
<1>7. All(Ranks) = 0 .. NumScenarios - 1
    BY Shares
<1> QED BY <1>1, <1>6, <1>7 DEF CountOver, G, H

-----------------------------------------------------------------------------
(* The meetings after the simulation *)

\* The reconcile.
LEMMA ControlReconcile == IInv /\ Control /\ Reconcile => Control'
<1> SUFFICES ASSUME IInv, Control, Reconcile PROVE Control'
    OBVIOUS
<1>1. /\ AllChained /\ Finished /\ Results
      /\ drain' = drain /\ worker' = worker /\ written' = written /\ unwritten' = unwritten
      /\ census' = census /\ outputs' = outputs
    BY DEF Control, Reconcile, simVars, drainVars
<1>2. \A r \in Ranks : At(r) = "simulated" /\ todo[r] # <<>>
    BY DEF Reconcile, Met, Doing, At
<1>3. \A r \in Ranks : todo'[r] = todo[r] \/ todo'[r] = Tail(todo[r])
    BY DEF Reconcile
<1>4. \A r \in Ranks : /\ At(r)' \in {"simulated", "merge"} /\ Chained(todo'[r])
  <2> SUFFICES ASSUME NEW r \in Ranks
               PROVE  At(r)' \in {"simulated", "merge"} /\ Chained(todo'[r])
      OBVIOUS
  <2>1. CASE todo'[r] = todo[r]
      BY <1>1, <1>2, <2>1, SameAt DEF AllChained
  <2>2. CASE todo'[r] = Tail(todo[r])
      BY <1>1, <1>2, <2>2, Advances
  <2> QED BY <1>3, <2>1, <2>2
<1>5. \A r \in Ranks : /\ SimFailed(r)' = SimFailed(r)
                       /\ \A w \in Workers : End(r, w)' = End(r, w)
    BY <1>1 DEF SimFailed, End
<1>6. Finished'
    BY <1>1, <1>2, <1>4, <1>5 DEF Finished, Ended
<1>7. Root \in Ranks /\ "report" \notin outputs
    BY <1>1, <1>2, PhasesAssumption DEF Results, Root, Ranks
<1>8. Results'
    BY <1>1, <1>4, <1>7 DEF Results, InMerged, InReport, Merged
<1> QED BY <1>4, <1>6, <1>8 DEF Control, AllChained

\* A meeting after which every rank is a step further on the chain, from one that is neither
\* the simulation nor the report.
LEMMA ControlMeeting ==
    ASSUME IInv, Control, NEW step \in {"merge", "costs"}, Met(step), todo' = Advanced,
           UNCHANGED <<simVars, census, outputs>>
    PROVE  /\ \A r \in Ranks : /\ At(r) = step /\ ~SimFailed(r) /\ SimFailed(r)' = SimFailed(r)
                               /\ drain[r] = "done" /\ Accounted(r)' = Accounted(r)
                               /\ \A w \in Workers : worker[r][w].next = End(r, w)
                               /\ At(r)' = (IF step = "merge" THEN "simulationGuard"
                                                              ELSE "report")
           /\ Root \in Ranks /\ "report" \notin outputs'
           /\ AllChained' /\ Finished'
<1>1. /\ AllChained /\ Finished /\ Results
      /\ drain' = drain /\ worker' = worker /\ written' = written /\ unwritten' = unwritten
      /\ census' = census /\ outputs' = outputs
    BY DEF Control, simVars, drainVars
<1>2. \A r \in Ranks : /\ At(r) = step /\ At(r) \in {"merge", "costs"} /\ todo[r] # <<>>
                       /\ todo'[r] = Tail(todo[r])
    BY DEF Met, Doing, At, Advanced
<1>3. \A r \in Ranks : /\ At(r)' = (IF step = "merge" THEN "simulationGuard" ELSE "report")
                       /\ Chained(todo'[r])
    BY <1>1, <1>2, Advances
<1>4. \A r \in Ranks : ~SimFailed(r)
    BY <1>2 DEF IInv, FailureStays
<1>5. \A r \in Ranks : /\ drain[r] = "done"
                       /\ \A w \in Workers : worker[r][w].next = End(r, w)
    BY <1>1, <1>2, <1>4 DEF Finished, Ended, SimFailed
<1>6. \A r \in Ranks : /\ SimFailed(r)' = SimFailed(r)
                       /\ \A w \in Workers : End(r, w)' = End(r, w)
                       /\ Accounted(r)' = Accounted(r)
    BY <1>1 DEF SimFailed, End, Accounted, Share
<1>7. Finished'
    BY <1>1, <1>3, <1>5, <1>6 DEF Finished, Ended
<1>8. Root \in Ranks /\ "report" \notin outputs
    BY <1>1, <1>2, PhasesAssumption DEF Results, Root, Ranks
<1> QED BY <1>1, <1>2, <1>3, <1>4, <1>5, <1>6, <1>7, <1>8 DEF AllChained

\* The merge: the writers' counts add up to the study.
LEMMA ControlMerge ==
    ASSUME IInv, Flow, Control, Merge
    PROVE  Control' /\ counts' \in [completed : Nat, failed : Nat]
<1>1. /\ Met("merge") /\ todo' = Advanced /\ UNCHANGED <<simVars, census, outputs>>
      /\ counts' = [completed |-> MapThenSumSet(LAMBDA r : Cardinality(written[r]), Ranks),
                    failed    |-> MapThenSumSet(LAMBDA r : Cardinality(unwritten[r]), Ranks)]
    BY DEF Merge
<1>2. /\ \A r \in Ranks : /\ At(r)' = "simulationGuard" /\ ~SimFailed(r) /\ drain[r] = "done"
                          /\ Accounted(r)' = Accounted(r)
                          /\ \A w \in Workers : worker[r][w].next = End(r, w)
      /\ "report" \notin outputs' /\ AllChained' /\ Finished'
    BY <1>1, ControlMeeting
<1>3. \A r \in Ranks : Accounted(r)
  <2> SUFFICES ASSUME NEW r \in Ranks PROVE Accounted(r)
      OBVIOUS
  <2>1. FlowTypes /\ Places(r)
      BY <1>2 DEF Flow, RankFlow
  <2>2. Sent(r) = Share(r)
      BY <1>2, <2>1, SentAll
  <2>3. ToSet(channel[r]) = {} /\ hand[r] = {}
    <3>1. channel[r] = <<>> /\ hand[r] = {}
        BY <1>2, <2>1 DEF Places
    <3> QED BY <3>1 DEF ToSet
  <2> QED BY <1>2, <2>1, <2>2, <2>3 DEF Accounted, Places
<1>4. /\ CountOver(written, Ranks) \in Nat /\ CountOver(unwritten, Ranks) \in Nat
      /\ CountOver(written, Ranks) + CountOver(unwritten, Ranks) = NumScenarios
  <2>1. \A r \in Ranks : /\ written[r] \cup unwritten[r] = Share(r)
                         /\ written[r] \cap unwritten[r] = {}
      BY <1>3 DEF Accounted
  <2> QED BY <2>1, CountsAddUp
<1>5. counts' = [completed |-> CountOver(written, Ranks), failed |-> CountOver(unwritten, Ranks)]
    BY <1>1, MergeCounts, Zenon
<1>6. /\ counts' \in [completed : Nat, failed : Nat]
      /\ counts'.completed + counts'.failed = NumScenarios
    BY <1>4, <1>5
<1>7. Results'
    BY <1>2, <1>3, <1>6 DEF Results, InReport
<1> QED BY <1>2, <1>6, <1>7 DEF Control

\* The costs of a rank whose workers have walked their parts are those of its share, in order.
LEMMA LocalCostsInOrder ==
    ASSUME FlowTypes, NEW r \in Ranks, \A w \in Workers : worker[r][w].next = End(r, w)
    PROVE  LocalCosts(r) = Run(FirstScenario(r), ScenarioCount(r))
<1>1. PICK n \in Nat : n = ScenarioCount(r)
    BY RankBlocks
<1>2. PICK b \in Nat : b = FirstScenario(r)
    BY RankBlocks, PhasesAssumption DEF Ranks
<1>3. NumWorkers \in Nat \ {0} /\ census \in BOOLEAN
    BY PhasesAssumption DEF FlowTypes
<1> DEFINE c == [k \in 0 .. NumWorkers |->
                    IF census THEN (IF k = 0 THEN 0 ELSE n) ELSE PartStart(n, k)]
           seqs == [i \in 1 .. NumWorkers |->
                       [j \in 1 .. worker[r][i - 1].next - Begin(r, i - 1) |->
                           b + Begin(r, i - 1) + j - 1]]
<1>4. LocalCosts(r) = FlattenSeq(seqs)
    BY <1>2 DEF LocalCosts
<1>5. Cuts(c, NumWorkers) /\ c[NumWorkers] = n
  <2>1. CASE census
    <3>1. \A k \in 0 .. NumWorkers : c[k] = (IF k = 0 THEN 0 ELSE n)
        BY <2>1
    <3>2. c \in [0 .. NumWorkers -> Nat]
        BY <1>1, <2>1
    <3>3. \A k \in 0 .. NumWorkers - 1 : c[k] <= c[k + 1]
      <4> SUFFICES ASSUME NEW k \in 0 .. NumWorkers - 1 PROVE c[k] <= c[k + 1]
          OBVIOUS
      <4>1. k \in 0 .. NumWorkers /\ k + 1 \in 0 .. NumWorkers /\ k + 1 # 0
          BY <1>3
      <4>2. c[k + 1] = n /\ (c[k] = 0 \/ c[k] = n)
          BY <3>1, <4>1
      <4> HIDE DEF c
      <4> QED BY <1>1, <4>2
    <3>4. 0 \in 0 .. NumWorkers /\ NumWorkers \in 0 .. NumWorkers /\ NumWorkers # 0
        BY <1>3
    <3> QED BY <3>1, <3>2, <3>3, <3>4 DEF Cuts
  <2>2. CASE ~census
    <3>1. c = [k \in 0 .. NumWorkers |-> PartStart(n, k)]
        BY <2>2
    <3>2. NumWorkers \in 0 .. NumWorkers
        BY <1>3
    <3>3. c[NumWorkers] = PartStart(n, NumWorkers)
        BY <3>1, <3>2
    <3> HIDE DEF c
    <3> QED BY <1>1, <3>1, <3>3, WorkerBlocks
  <2> QED BY <1>3, <2>1, <2>2
<1>6. ASSUME NEW i \in 1 .. NumWorkers
      PROVE  /\ seqs[i] = Run(b + c[i - 1], c[i] - c[i - 1])
             /\ seqs[i] \in Seq(Nat)
  <2> USE DEF Run
  <2>1. /\ i - 1 \in Workers /\ i - 1 \in 0 .. NumWorkers /\ i \in 0 .. NumWorkers
        /\ (i - 1) + 1 = i /\ i # 0 /\ (i - 1 = 0 <=> i = 1)
      BY <1>3 DEF Workers
  <2>2. worker[r][i - 1].next = End(r, i - 1)
      BY <2>1
  <2>3. seqs[i] = [j \in 1 .. End(r, i - 1) - Begin(r, i - 1) |-> b + Begin(r, i - 1) + j - 1]
      BY <2>2
  <2>4. c[i] \in Nat /\ c[i - 1] \in Nat /\ c[i - 1] <= c[i]
    <3> HIDE DEF c
    <3>1. i - 1 \in 0 .. NumWorkers - 1
        BY <1>3
    <3> QED BY <1>5, <2>1, <3>1 DEF Cuts
  <2>5. seqs[i] = [j \in 1 .. c[i] - c[i - 1] |-> b + c[i - 1] + j - 1]
    <3>1. CASE ~census
      <4>1. Begin(r, i - 1) = c[i - 1] /\ End(r, i - 1) = c[i]
        <5>1. Begin(r, i - 1) = PartStart(n, i - 1) /\ End(r, i - 1) = PartEnd(n, i - 1)
            BY <1>1, <3>1 DEF Begin, End
        <5>2. PartEnd(n, i - 1) = PartStart(n, i)
            BY ZenonT(40), <1>1, <2>1, WorkerBlocks
        <5>3. c[i - 1] = PartStart(n, i - 1) /\ c[i] = PartStart(n, i)
            BY <2>1, <3>1
        <5> QED BY <5>1, <5>2, <5>3
      <4> HIDE DEF c
      <4> QED BY <2>3, <4>1
    <3>2. CASE census /\ i = 1
      <4>1. Begin(r, i - 1) = 0 /\ End(r, i - 1) = n /\ c[i - 1] = 0 /\ c[i] = n
          BY <1>1, <2>1, <3>2 DEF Begin, End
      <4> HIDE DEF c
      <4> QED BY <2>3, <4>1
    <3>3. CASE census /\ i # 1
      <4>1. Begin(r, i - 1) = 0 /\ End(r, i - 1) = 0 /\ c[i - 1] = n /\ c[i] = n
          BY <1>1, <2>1, <3>3 DEF Begin, End
      <4>2. 1 .. 0 - 0 = {} /\ 1 .. n - n = {}
          BY <1>1
      <4> HIDE DEF c
      <4>3. seqs[i] = [j \in {} |-> b + 0 + j - 1]
          BY <2>3, <4>1, <4>2
      <4>4. [j \in 1 .. c[i] - c[i - 1] |-> b + c[i - 1] + j - 1] = [j \in {} |-> b + n + j - 1]
          BY <4>1, <4>2
      <4> HIDE DEF seqs
      <4> QED BY <4>3, <4>4
    <3> QED BY <1>3, <3>1, <3>2, <3>3
  <2>6. seqs[i] \in Seq(Nat)
    <3>1. PICK u \in Nat, v \in Nat : u = c[i - 1] /\ v = c[i] /\ u <= v
        BY <2>4
    <3>2. seqs[i] = [j \in 1 .. v - u |-> b + u + j - 1]
        BY <2>5, <3>1
    <3> HIDE DEF c, seqs
    <3>3. v - u \in Nat /\ \A j \in 1 .. v - u : b + u + j - 1 \in Nat
        BY <1>2, <3>1
    <3> QED BY <3>2, <3>3
  <2> QED BY <2>5, <2>6
<1>7. seqs \in [1 .. NumWorkers -> Seq(Nat)]
  <2>1. \A i \in 1 .. NumWorkers : seqs[i] \in Seq(Nat)
      BY <1>6
  <2> QED BY <2>1
<1>8. \A i \in 1 .. NumWorkers : seqs[i] = Run(b + c[i - 1], c[i] - c[i - 1])
    BY <1>6
<1> HIDE DEF c, seqs
<1>9. FlattenSeq(seqs) = Run(b, c[NumWorkers])
    BY <1>2, <1>3, <1>5, <1>7, <1>8, BlocksFlatten
<1> QED BY <1>1, <1>2, <1>4, <1>5, <1>9

\* The gather: the cost at a place is that of the scenario of that number.
LEMMA ControlGather ==
    ASSUME IInv, Flow, Control, GatherCosts
    PROVE  Control' /\ costs' \in Seq(Nat)
<1>1. /\ Met("costs") /\ todo' = Advanced /\ UNCHANGED <<simVars, census, outputs, counts>>
      /\ costs' = FlattenSeq([i \in 1 .. NumRanks |-> LocalCosts(i - 1)])
    BY DEF GatherCosts
<1>2. /\ \A r \in Ranks : /\ At(r) = "costs" /\ Accounted(r)' = Accounted(r)
                          /\ \A w \in Workers : worker[r][w].next = End(r, w)
      /\ Root \in Ranks /\ "report" \notin outputs' /\ AllChained' /\ Finished'
    BY <1>1, ControlMeeting
<1>3. /\ \A r \in Ranks : Accounted(r)
      /\ counts.completed + counts.failed = NumScenarios
    BY <1>2 DEF Control, Results, InMerged, Merged
<1>4. NumRanks \in Nat \ {0} /\ NumScenarios \in Nat
    BY PhasesAssumption
<1> DEFINE c == [k \in 0 .. NumRanks |-> FirstScenario(k)]
           seqs == [i \in 1 .. NumRanks |-> LocalCosts(i - 1)]
<1>5. /\ Cuts(c, NumRanks) /\ c[NumRanks] = NumScenarios
      /\ \A k \in 0 .. NumRanks : c[k] = FirstScenario(k) /\ c[k] \in Nat
    BY <1>4, RankBlocks
<1>6. ASSUME NEW i \in 1 .. NumRanks
      PROVE  /\ seqs[i] = Run(0 + c[i - 1], c[i] - c[i - 1])
             /\ seqs[i] \in Seq(Nat)
  <2>1. /\ i - 1 \in Ranks /\ i - 1 \in 0 .. NumRanks /\ i \in 0 .. NumRanks
        /\ (i - 1) + 1 = i
      BY <1>4 DEF Ranks
  <2>2. LocalCosts(i - 1) = Run(FirstScenario(i - 1), ScenarioCount(i - 1))
      BY <1>2, <2>1, LocalCostsInOrder DEF Flow
  <2>3. PICK u \in Nat, m \in Nat : /\ u = c[i - 1] /\ m = ScenarioCount(i - 1)
                                    /\ c[i] = u + m /\ u = FirstScenario(i - 1)
    <3>1. FirstScenario((i - 1) + 1) = FirstScenario(i - 1) + ScenarioCount(i - 1)
          /\ ScenarioCount(i - 1) \in Nat
        BY <2>1, RankBlocks
    <3> HIDE DEF c
    <3> QED BY <1>5, <2>1, <3>1
  <2> HIDE DEF c
  <2>4. seqs[i] = Run(u, m)
      BY <2>2, <2>3
  <2> HIDE DEF seqs
  <2>5. c[i] - c[i - 1] = m /\ 0 + c[i - 1] = u
      BY <2>3
  <2>6. Run(u, m) \in Seq(Nat)
    <3>1. \A j \in 1 .. m : u + j - 1 \in Nat
        BY <2>3
    <3> QED BY SMTT(20), <2>3, <3>1 DEF Run
  <2> QED BY <2>4, <2>5, <2>6
<1>7. seqs \in [1 .. NumRanks -> Seq(Nat)]
  <2>1. \A i \in 1 .. NumRanks : seqs[i] \in Seq(Nat)
      BY <1>6
  <2> QED BY <2>1
<1>8. \A i \in 1 .. NumRanks : seqs[i] = Run(0 + c[i - 1], c[i] - c[i - 1])
    BY <1>6
<1>9. costs' = FlattenSeq(seqs)
    BY <1>1
<1> HIDE DEF c, seqs
<1>10. FlattenSeq(seqs) = Run(0, c[NumRanks])
    BY 0 \in Nat, <1>4, <1>5, <1>7, <1>8, BlocksFlatten
<1>11. costs' = [i \in 1 .. NumScenarios |-> i - 1]
  <2>1. \A j \in 1 .. NumScenarios : 0 + j - 1 = j - 1
      BY <1>4
  <2>2. Run(0, NumScenarios) = [i \in 1 .. NumScenarios |-> i - 1]
      BY <2>1 DEF Run
  <2> QED BY <1>5, <1>9, <1>10, <2>2
<1>12. costs' \in Seq(Nat)
    BY <1>4, <1>11
<1>13. Results'
    BY <1>1, <1>2, <1>3, <1>11 DEF Results
<1> QED BY <1>2, <1>12, <1>13 DEF Control

-----------------------------------------------------------------------------
(* The accounting invariant *)

\* A sequence without a step of the chain, and one that ends with it.
Free(s) == \A i \in 1 .. Len(s) : s[i] \notin ChainSteps
EndsInChain(s) ==
    /\ Len(s) >= 9
    /\ \A i \in 1 .. Len(s) : IF i + 9 > Len(s) THEN s[i] = Chain[i + 9 - Len(s)]
                              ELSE s[i] \notin ChainSteps

\* Either makes a program of which the tails are known.
LEMMA ChainedFromParts ==
    ASSUME NEW s \in Seq(Steps), Free(s) \/ EndsInChain(s)
    PROVE  Chained(s)
<1>1. PICK n \in Nat : n = Len(s)
    BY LenProperties
<1>2. CASE Free(s)
  <2>1. s # <<>> => Len(s) \in 1 .. Len(s)
      BY <1>1, EmptySeq
  <2>2. ~Simulates(s)
      BY <1>2, <2>1 DEF Free, Simulates, ChainSteps
  <2> QED BY <1>2, <2>2 DEF Free, Chained
<1>3. CASE EndsInChain(s)
  <2>1. n >= 9 /\ n \in 1 .. n /\ n + 9 > n /\ n + 9 - n = 9 /\ 9 \in 1 .. 9
      BY <1>1, <1>3 DEF EndsInChain
  <2>2. s[n] = Chain[9]
      BY <1>1, <1>3, <2>1 DEF EndsInChain
  <2>3. Chain[9] = "report" /\ s # <<>>
      BY <1>1, <2>1, ChainLinks
  <2> QED BY <1>1, <1>3, <2>2, <2>3 DEF EndsInChain, Chained, Simulates
<1> QED BY <1>2, <1>3

\* What is put before a chain is free of it.
LEMMA FreeConcatenation ==
    ASSUME NEW p \in Seq(Steps), NEW q \in Seq(Steps), Free(p)
    PROVE  /\ Free(q) => Free(p \o q)
           /\ EndsInChain(q) => EndsInChain(p \o q)
<1>1. PICK m \in Nat, n \in Nat : m = Len(p) /\ n = Len(q)
    BY LenProperties
<1>2. /\ Len(p \o q) = m + n
      /\ \A i \in 1 .. m + n : (p \o q)[i] = IF i <= m THEN p[i] ELSE q[i - m]
    BY <1>1, ConcatProperties
<1>3. \A i \in 1 .. m : p[i] \notin ChainSteps
    BY <1>1 DEF Free
<1>4. \A i \in 1 .. m + n : (i <= m => i \in 1 .. m) /\ (~(i <= m) => i - m \in 1 .. n)
    BY <1>1
<1>5. Free(q) => Free(p \o q)
    BY <1>1, <1>2, <1>3, <1>4 DEF Free
<1>6. ASSUME EndsInChain(q)
      PROVE  EndsInChain(p \o q)
  <2>1. /\ n >= 9
        /\ \A i \in 1 .. n : IF i + 9 > n THEN q[i] = Chain[i + 9 - n] ELSE q[i] \notin ChainSteps
      BY <1>1, <1>6 DEF EndsInChain
  <2>2. ASSUME NEW i \in 1 .. m + n
        PROVE  IF i + 9 > m + n THEN (p \o q)[i] = Chain[i + 9 - (m + n)]
               ELSE (p \o q)[i] \notin ChainSteps
    <3>1. CASE i <= m
      <4>1. ~(i + 9 > m + n)
          BY <2>1, <3>1
      <4> QED BY <1>2, <1>3, <1>4, <3>1, <4>1
    <3>2. CASE ~(i <= m)
      <4>1. i - m \in 1 .. n /\ (p \o q)[i] = q[i - m]
          BY <1>2, <1>4, <3>2
      <4>2. (i - m) + 9 - n = i + 9 - (m + n) /\ ((i - m) + 9 > n <=> i + 9 > m + n)
          BY <1>1
      <4> QED BY <2>1, <4>1, <4>2
    <3> QED BY <3>1, <3>2
  <2>3. m + n >= 9
      BY <1>1, <2>1
  <2> QED BY <1>2, <2>2, <2>3 DEF EndsInChain
<1> QED BY <1>5, <1>6

\* The parts of a program.
LEMMA PartsOfPrograms ==
    /\ Free(Pretraining) /\ Free(Boundary) /\ Free(Training)
    /\ Free(<<"policy">>) /\ Free(<<"policy", "outputs", "outcome">>) /\ Free(<<>>)
    /\ EndsInChain(Simulation)
<1>1. Free(Pretraining)
    BY DEF Pretraining, Free, ChainSteps
<1>2. Free(Boundary) /\ Free(<<"policy">>) /\ Free(<<"policy", "outputs", "outcome">>)
      /\ Free(<<>>)
    BY DEF Boundary, Free, ChainSteps
<1>3. Free(Training)
    BY DEF Training, Free, ChainSteps
<1>4. EndsInChain(Simulation)
  <2>1. Len(Simulation) = 11
      BY DEF Simulation
  <2>2. \A i \in 1 .. 11 : i = 1 \/ i = 2 \/ i = 3 \/ i = 4 \/ i = 5 \/ i = 6 \/ i = 7 \/ i = 8
                           \/ i = 9 \/ i = 10 \/ i = 11
      OBVIOUS
  <2>3. /\ Simulation[1] = "pool" /\ Simulation[2] = "writer" /\ Simulation[3] = "simulate"
        /\ Simulation[4] = "join" /\ Simulation[5] = "simulated" /\ Simulation[6] = "merge"
        /\ Simulation[7] = "simulationGuard" /\ Simulation[8] = "simulationStats"
        /\ Simulation[9] = "paths" /\ Simulation[10] = "costs" /\ Simulation[11] = "report"
      BY DEF Simulation
  <2>4. /\ Chain[1] = "simulate" /\ Chain[2] = "join" /\ Chain[3] = "simulated"
        /\ Chain[4] = "merge" /\ Chain[5] = "simulationGuard" /\ Chain[6] = "simulationStats"
        /\ Chain[7] = "paths" /\ Chain[8] = "costs" /\ Chain[9] = "report"
      BY DEF Chain
  <2>5. \A i \in 1 .. 11 : IF i + 9 > 11 THEN Simulation[i] = Chain[i + 9 - 11]
                           ELSE Simulation[i] \notin ChainSteps
    <3> SUFFICES ASSUME NEW i \in 1 .. 11
                 PROVE  IF i + 9 > 11 THEN Simulation[i] = Chain[i + 9 - 11]
                        ELSE Simulation[i] \notin ChainSteps
        OBVIOUS
    <3>1. CASE i = 1 \/ i = 2
      <4>1. ~(i + 9 > 11)
          BY <3>1
      <4> QED BY <2>3, <3>1, <4>1 DEF ChainSteps
    <3>2. CASE ~(i = 1 \/ i = 2)
      <4>1. i + 9 > 11 /\ i + 9 - 11 = i - 2
          BY <3>2
      <4>2. Simulation[i] = Chain[i - 2]
          BY <2>2, <2>3, <2>4, <3>2
      <4> QED BY <4>1, <4>2
    <3> QED BY <3>1, <3>2
  <2> QED BY <2>1, <2>5 DEF EndsInChain
<1> QED BY <1>1, <1>2, <1>3, <1>4

\* Every program ends in the chain or has nothing of it.
LEMMA ProgramsAreChained ==
    ASSUME NEW p \in Programs
    PROVE  Chained(p)
<1>1. PICK t, l, b, e, s \in BOOLEAN : p = Phases(t, l, b, e, s)
    BY DEF Programs
<1> DEFINE Good(x) == x \in Seq(Steps) /\ Free(x)
           loads == Optional(<<"policy">>, l)
           bounds == Optional(Boundary, b)
           trains == IF l /\ e THEN <<"policy", "outputs", "outcome">> ELSE Training
           first == Optional(loads \o bounds \o trains, t)
           again == Optional(<<"policy">>, ~t)
           second == Optional(again \o Simulation, s)
<1>2. Good(loads) /\ Good(bounds) /\ Good(trains) /\ Good(again)
    BY ShapeOfParts, PartsOfPrograms DEF Optional
<1>3. Good(first)
  <2>1. Good(loads \o bounds)
      BY <1>2, FreeConcatenation, ConcatProperties
  <2>2. Good(loads \o bounds \o trains)
      BY <1>2, <2>1, FreeConcatenation, ConcatProperties
  <2> QED BY <2>2, ShapeOfParts, PartsOfPrograms DEF Optional
<1>4. second \in Seq(Steps) /\ (Free(second) \/ EndsInChain(second))
  <2>1. again \o Simulation \in Seq(Steps) /\ EndsInChain(again \o Simulation)
      BY <1>2, ShapeOfParts, PartsOfPrograms, FreeConcatenation, ConcatProperties
  <2> QED BY <2>1, ShapeOfParts, PartsOfPrograms DEF Optional
<1>5. Good(Pretraining \o first)
    BY <1>3, ShapeOfParts, PartsOfPrograms, FreeConcatenation, ConcatProperties
<1>6. p = Pretraining \o first \o second
    BY <1>1 DEF Phases
<1>7. p \in Seq(Steps) /\ (Free(p) \/ EndsInChain(p))
    BY <1>4, <1>5, <1>6, FreeConcatenation, ConcatProperties
<1> QED BY <1>7, ChainedFromParts

\* Every result is on its way, on disk or counted as lost, and what is reported is complete.
AccountingInv == IInv /\ Flow /\ OtherTypes /\ Control

\* The first states.
LEMMA AccountingInit == Init => AccountingInv
<1> SUFFICES ASSUME Init PROVE AccountingInv
    OBVIOUS
<1>1. IInv /\ Flow
    BY InvariantHoldsFirst, FlowInit
<1>2. OtherTypes
  <2>1. /\ aborted = FALSE /\ exportsOk = TRUE /\ trainError = FALSE /\ outputs = {}
        /\ counts = [completed |-> 0, failed |-> 0] /\ costs = <<>>
      BY DEF Init
  <2>2. aborted \in BOOLEAN /\ exportsOk \in BOOLEAN /\ trainError \in BOOLEAN
      BY <2>1
  <2>3. counts \in [completed : Nat, failed : Nat] /\ costs \in Seq(Nat)
      BY <2>1
  <2> QED BY <2>1, <2>2, <2>3 DEF OtherTypes
<1>3. PICK program \in Programs : todo = [r \in Ranks |-> program]
    BY DEF Init
<1>4. Chained(program) /\ Head(program) = "bind" /\ program # <<>>
    BY ProgramsAreShaped, ProgramsAreChained
<1>5. \A r \in Ranks : At(r) = "bind"
    BY <1>3, <1>4 DEF At
<1>6. AllChained
    BY <1>3, <1>4 DEF AllChained
<1>7. Finished
    BY <1>5 DEF Finished, Ended, Init
<1>8. Results
    BY <1>5 DEF Results, InMerged, InReport, Merged, Init
<1> QED BY <1>1, <1>2, <1>6, <1>7, <1>8 DEF AccountingInv, Control

\* A step of the simulation of rank r.
LEMMA AccountingSimulate ==
    ASSUME AccountingInv, NEW r \in Ranks, Simulate(r)
    PROVE  Flow' /\ OtherTypes' /\ Control'
<1>1. IInv /\ Flow /\ OtherTypes /\ Control /\ FlowTypes /\ RankFlow(r)
    BY DEF AccountingInv, Flow
<1>2. /\ worker \in [Ranks -> [Workers -> [at : {"solve", "send", "failed"}, next : Nat]]]
      /\ \A w \in Workers : worker[r][w] \in [at : {"solve", "send", "failed"}, next : Nat]
      /\ worker[r] \in [Workers -> [at : {"solve", "send", "failed"}, next : Nat]]
      /\ drain \in [Ranks -> {"waiting", "writing", "dead", "done"}]
      /\ channel \in [Ranks -> Seq(Nat)] /\ hand \in [Ranks -> SUBSET Nat]
      /\ written \in [Ranks -> SUBSET Nat] /\ unwritten \in [Ranks -> SUBSET Nat]
    BY <1>1 DEF FlowTypes
<1>3. OtherTypes'
    BY <1>1 DEF OtherTypes, Simulate, Refuse, Return, Join, Take, Write, Panic, EndDrain, Solve,
                Send, phaseVars, mergeVars
<1>4. At(r) = "simulate" => drain[r] # "done"
    BY <1>1 DEF Control, Finished, Ended
<1>5. CASE Refuse(r)
  <2>1. /\ At(r) = "simulate" /\ UNCHANGED <<phaseVars, channel, drainVars, mergeVars>>
        /\ worker' = [worker EXCEPT ![r] = [w \in Workers |-> [worker[r][w] EXCEPT !.at = "failed"]]]
      BY <1>5 DEF Refuse, Doing
  <2>2. \A w \in Workers : [worker[r][w] EXCEPT !.at = "failed"] \in
                               [at : {"solve", "send", "failed"}, next : Nat]
      BY <1>2
  <2>3. /\ worker' \in [Ranks -> [Workers -> [at : {"solve", "send", "failed"}, next : Nat]]]
        /\ \A q \in Ranks \ {r} : worker'[q] = worker[q]
        /\ \A w \in Workers : worker'[r][w] = [worker[r][w] EXCEPT !.at = "failed"]
      BY <1>2, <2>1, <2>2
  <2>4. \A w \in Workers : worker'[r][w].next = worker[r][w].next /\ worker'[r][w].at # "send"
      BY ZenonT(40), <1>2, <2>3
  <2>5. Flow'
      BY <1>1, <2>1, <2>3, <2>4, WorkersOnly DEF phaseVars
  <2>6. Control'
      BY <1>1, <1>4, <2>1, <2>3, ControlInside DEF drainVars
  <2> QED BY <1>3, <2>5, <2>6
<1>6. ASSUME NEW w \in Workers, Solve(r, w)
      PROVE  Flow' /\ Control'
  <2>1. /\ At(r) = "simulate" /\ UNCHANGED <<phaseVars, channel, drainVars, mergeVars>>
        /\ worker[r][w].at = "solve" /\ ~(worker[r][w].next >= End(r, w))
        /\ \/ worker' = [worker EXCEPT ![r][w].at = "send"]
           \/ worker' = [worker EXCEPT ![r][w].at = "failed"]
      BY <1>6 DEF Solve, Doing, Idle
  <2>2. PICK a \in {"send", "failed"} : worker' = [worker EXCEPT ![r][w].at = a]
      BY <2>1
  <2>3. worker' = [worker EXCEPT ![r] = [worker[r] EXCEPT ![w] = [worker[r][w] EXCEPT !.at = a]]]
      BY <1>2, <2>2
  <2>4. [worker[r][w] EXCEPT !.at = a] \in [at : {"solve", "send", "failed"}, next : Nat]
      BY <1>2
  <2>5. [worker[r] EXCEPT ![w] = [worker[r][w] EXCEPT !.at = a]] \in
            [Workers -> [at : {"solve", "send", "failed"}, next : Nat]]
      BY <1>2, <2>4
  <2>6. /\ worker' \in [Ranks -> [Workers -> [at : {"solve", "send", "failed"}, next : Nat]]]
        /\ \A q \in Ranks \ {r} : worker'[q] = worker[q]
        /\ worker'[r] = [worker[r] EXCEPT ![w] = [worker[r][w] EXCEPT !.at = a]]
      BY <1>2, <2>3, <2>5
  <2>7. \A v \in Workers : worker'[r][v].next = worker[r][v].next
                           /\ (v # w => worker'[r][v] = worker[r][v])
      BY <1>2, <2>6
  <2>8. \A v \in Workers : worker'[r][v].at = "send" => worker[r][v].next < End(r, v)
    <3>1. worker[r][w].next \in Nat /\ End(r, w) \in Nat
      <4>1. census \in BOOLEAN
          BY <1>1 DEF FlowTypes
      <4> QED BY <1>2, <4>1, WorkerParts
    <3> QED BY <1>1, <2>1, <2>7, <3>1 DEF RankFlow, InPart
  <2>9. Flow'
      BY <1>1, <2>1, <2>6, <2>7, <2>8, WorkersOnly DEF phaseVars
  <2>10. Control'
      BY <1>1, <1>4, <2>1, <2>6, ControlInside DEF drainVars
  <2> QED BY <2>9, <2>10
<1>7. ASSUME NEW w \in Workers, Send(r, w)
      PROVE  Flow' /\ Control'
  <2>1. /\ At(r) = "simulate" /\ UNCHANGED <<phaseVars, drainVars, mergeVars>>
        /\ worker[r][w].at = "send" /\ drain[r] # "done"
      BY <1>4, <1>7 DEF Send, Doing
  <2>2. CASE drain[r] = "dead"
    <3>1. worker' = [worker EXCEPT ![r][w].at = "failed"] /\ UNCHANGED channel
        BY <1>7, <2>2 DEF Send
    <3>2. worker' = [worker EXCEPT ![r] =
                        [worker[r] EXCEPT ![w] = [worker[r][w] EXCEPT !.at = "failed"]]]
        BY <1>2, <3>1
    <3>3. [worker[r][w] EXCEPT !.at = "failed"] \in
              [at : {"solve", "send", "failed"}, next : Nat]
        BY <1>2
    <3>4. [worker[r] EXCEPT ![w] = [worker[r][w] EXCEPT !.at = "failed"]] \in
              [Workers -> [at : {"solve", "send", "failed"}, next : Nat]]
        BY <1>2, <3>3
    <3>5. /\ worker' \in [Ranks -> [Workers -> [at : {"solve", "send", "failed"}, next : Nat]]]
          /\ \A q \in Ranks \ {r} : worker'[q] = worker[q]
          /\ worker'[r] = [worker[r] EXCEPT ![w] = [worker[r][w] EXCEPT !.at = "failed"]]
        BY <1>2, <3>2, <3>4
    <3>6. \A v \in Workers : worker'[r][v].next = worker[r][v].next
                             /\ (v # w => worker'[r][v] = worker[r][v])
        BY <1>2, <3>5
    <3>7. \A v \in Workers : worker'[r][v].at = "send" => worker[r][v].next < End(r, v)
        BY <1>1, <1>2, <3>5, <3>6 DEF RankFlow, InPart
    <3>8. Flow'
        BY <1>1, <2>1, <3>1, <3>5, <3>6, <3>7, WorkersOnly DEF phaseVars
    <3>9. Control'
        BY <1>1, <2>1, <3>1, <3>5, ControlInside DEF drainVars
    <3> QED BY <3>8, <3>9
  <2>3. CASE drain[r] # "dead"
    <3>1. /\ Len(channel[r]) < Capacity
          /\ channel' = [channel EXCEPT ![r] = Append(@, FirstScenario(r) + worker[r][w].next)]
          /\ worker' = [worker EXCEPT ![r][w] = [at |-> "solve", next |-> @.next + 1]]
        BY <1>7, <2>3 DEF Send
    <3>2. Flow'
        BY <1>1, <2>1, <2>3, <3>1, FlowSend DEF phaseVars
    <3>3. \A q \in Ranks \ {r} : worker'[q] = worker[q] /\ drain'[q] = drain[q]
        BY <1>2, <2>1, <3>1 DEF drainVars
    <3>4. Control'
        BY <1>1, <2>1, <3>3, ControlInside DEF drainVars
    <3> QED BY <3>2, <3>4
  <2> QED BY <2>2, <2>3
<1>8. CASE Take(r)
  <2>1. At(r) \in {"simulate", "join"}
      BY <1>1, <1>8 DEF Take, IInv, DrainInside
  <2>2. Flow'
      BY <1>1, <1>8, FlowTake DEF Take, phaseVars
  <2>3. \A q \in Ranks \ {r} : worker'[q] = worker[q] /\ drain'[q] = drain[q]
      BY <1>2, <1>8 DEF Take
  <2>4. drain'[r] = "writing" /\ drain[r] = "waiting" /\ worker' = worker
        /\ UNCHANGED <<phaseVars, mergeVars>>
      BY <1>2, <1>8 DEF Take
  <2>5. Control'
      BY <1>1, <2>1, <2>3, <2>4, ControlInside
  <2> QED BY <1>3, <2>2, <2>5
<1>9. CASE Write(r)
  <2>1. At(r) \in {"simulate", "join"}
      BY <1>1, <1>9 DEF Write, IInv, DrainInside
  <2>2. Flow'
    <3>1. /\ UNCHANGED <<census, worker, channel>> /\ drain[r] = "writing"
          /\ drain' = [drain EXCEPT ![r] = "waiting"] /\ hand' = [hand EXCEPT ![r] = {}]
          /\ \/ written' = [written EXCEPT ![r] = @ \cup hand[r]] /\ UNCHANGED unwritten
             \/ unwritten' = [unwritten EXCEPT ![r] = @ \cup hand[r]] /\ UNCHANGED written
        BY <1>9 DEF Write, phaseVars
    <3> QED BY <1>1, <3>1, FlowWrite
  <2>3. \A q \in Ranks \ {r} : worker'[q] = worker[q] /\ drain'[q] = drain[q]
      BY <1>2, <1>9 DEF Write
  <2>4. drain'[r] = "waiting" /\ drain[r] = "writing" /\ worker' = worker
        /\ UNCHANGED <<phaseVars, mergeVars>>
      BY <1>2, <1>9 DEF Write
  <2>5. Control'
      BY <1>1, <2>1, <2>3, <2>4, ControlInside
  <2> QED BY <1>3, <2>2, <2>5
<1>10. CASE Panic(r)
  <2>1. At(r) \in {"simulate", "join"}
      BY <1>1, <1>10 DEF Panic, IInv, DrainInside
  <2>2. Flow'
      BY <1>1, <1>10, FlowPanic DEF Panic, phaseVars
  <2>3. \A q \in Ranks \ {r} : worker'[q] = worker[q] /\ drain'[q] = drain[q]
      BY <1>2, <1>10 DEF Panic
  <2>4. drain'[r] = "dead" /\ drain[r] = "writing" /\ worker' = worker
        /\ UNCHANGED <<phaseVars, mergeVars>>
      BY <1>2, <1>10 DEF Panic
  <2>5. Control'
      BY <1>1, <2>1, <2>3, <2>4, ControlInside
  <2> QED BY <1>3, <2>2, <2>5
<1>11. CASE EndDrain(r)
  <2>1. Flow'
      BY <1>1, <1>11, FlowEnd DEF EndDrain, phaseVars
  <2>2. \A q \in Ranks \ {r} : worker'[q] = worker[q] /\ drain'[q] = drain[q]
      BY <1>2, <1>11 DEF EndDrain
  <2>3. At(r) = "join" /\ drain'[r] = "done" /\ drain[r] = "waiting" /\ worker' = worker
        /\ UNCHANGED <<phaseVars, mergeVars>>
      BY <1>2, <1>11 DEF EndDrain
  <2>4. Control'
      BY <1>1, <2>2, <2>3, ControlInside
  <2> QED BY <1>3, <2>1, <2>4
<1>12. ASSUME Return(r) \/ Join(r)
       PROVE  Flow' /\ Control'
  <2>1. /\ todo' = Continued(r) /\ UNCHANGED <<simVars, mergeVars, census, outputs>>
        /\ \/ At(r) = "simulate" /\ \A w \in Workers : Idle(r, w)
           \/ At(r) = "join" /\ drain[r] \in {"done", "dead"}
      BY <1>12 DEF Return, Join, Doing
  <2>2. \A w \in Workers : InPart(r, w)
      BY <1>1 DEF RankFlow
  <2> QED BY <1>1, <2>1, <2>2, FlowKept, ControlAdvance
<1> QED BY <1>3, <1>5, <1>6, <1>7, <1>8, <1>9, <1>10, <1>11, <1>12 DEF Simulate

\* Any step keeps the invariant.
LEMMA AccountingNext == AccountingInv /\ [Next]_vars => AccountingInv'
<1> SUFFICES ASSUME AccountingInv, [Next]_vars PROVE AccountingInv'
    OBVIOUS
<1>1. IInv /\ Flow /\ OtherTypes /\ Control /\ IInv'
    BY InvariantIsInductive DEF AccountingInv
<1> SUFFICES Flow' /\ OtherTypes' /\ Control'
    BY <1>1 DEF AccountingInv
<1>2. Root \in Ranks
    BY PhasesAssumption DEF Root, Ranks
<1>3. \A r \in Ranks : At(r) # "end" => todo[r] # <<>>
    BY DEF At
<1>4. todo \in [Ranks -> Seq(Steps)]
    BY <1>1 DEF IInv, Types
<1>5. ASSUME NEW r \in Ranks, Work(r) PROVE Flow' /\ OtherTypes' /\ Control'
  <2>1. /\ At(r) \notin {"simulate", "join", "simulated", "merge", "costs", "end"}
        /\ todo' = [todo EXCEPT ![r] = Tail(@)]
        /\ outputs' = outputs \cup (IF r = Root THEN {At(r)} \cap {"outputs", "report"} ELSE {})
        /\ UNCHANGED <<aborted, exportsOk, trainError, census, simVars, mergeVars>>
      BY <1>5 DEF Work, FallibleAnywhere, FallibleAtRoot, Continued
  <2>2. /\ todo[r] # <<>> /\ todo'[r] = Tail(todo[r])
        /\ \A q \in Ranks \ {r} : todo'[q] = todo[q]
      BY <1>3, <1>4, <2>1
  <2>3. "report" \in outputs' =>
            "report" \in outputs \/ (At(Root) = "report" /\ At(Root)' = "end")
    <3>1. At(r) = "report" => At(r)' = "end"
        BY <1>1, <2>2, Advances DEF Control
    <3> QED BY <2>1, <3>1
  <2>4. Control'
      BY <1>1, <2>1, <2>2, <2>3, ControlQuiet
  <2>5. OtherTypes'
      BY <1>1, <2>1 DEF OtherTypes, mergeVars
  <2> QED BY <1>1, <2>1, <2>4, <2>5, FlowKept
<1>6. ASSUME UNCHANGED <<todo, census, outputs, simVars, mergeVars>>, OtherTypes'
      PROVE  Flow' /\ OtherTypes' /\ Control'
  <2>1. Control'
      BY <1>1, <1>6, ControlQuiet
  <2> QED BY <1>1, <1>6, <2>1, FlowKept
<1>7. ASSUME NEW r \in Ranks, Fail(r) \/ Abort(r) PROVE Flow' /\ OtherTypes' /\ Control'
    BY <1>1, <1>6, <1>7 DEF Fail, Abort, OtherTypes, mergeVars
<1>8. ASSUME NEW r \in Ranks, Export(r) \/ Outcome(r) PROVE Flow' /\ OtherTypes' /\ Control'
  <2>1. /\ At(r) \in {"exports", "outcome"}
        /\ todo' = todo \/ todo' = [todo EXCEPT ![r] = Tail(@)]
        /\ UNCHANGED <<census, outputs, simVars, mergeVars>>
      BY <1>8 DEF Export, Outcome, Doing, Continued
  <2>2. OtherTypes'
      BY <1>1, <1>8 DEF Export, Outcome, OtherTypes, mergeVars
  <2>3. \A q \in Ranks : \/ todo'[q] = todo[q]
                         \/ /\ todo[q] # <<>> /\ todo'[q] = Tail(todo[q])
                            /\ At(q) \notin {"simulate", "join", "simulated", "merge", "costs"}
      BY <1>3, <1>4, <2>1
  <2>4. Control'
      BY <1>1, <2>1, <2>3, ControlQuiet
  <2> QED BY <1>1, <2>1, <2>2, <2>4, FlowKept
<1>9. ASSUME NEW r \in Ranks, Simulate(r) PROVE Flow' /\ OtherTypes' /\ Control'
    BY <1>9, AccountingSimulate
<1>10. ASSUME NEW step, Met(step),
              step \notin {"simulate", "join", "simulated", "merge", "costs", "end"},
              todo' = Advanced \/ UNCHANGED todo, OtherTypes',
              UNCHANGED <<census, outputs, simVars, mergeVars>>
       PROVE  Flow' /\ OtherTypes' /\ Control'
  <2>1. \A r \in Ranks : At(r) = step
      BY <1>10 DEF Met, Doing
  <2>2. \A q \in Ranks : \/ todo'[q] = todo[q]
                         \/ /\ todo[q] # <<>> /\ todo'[q] = Tail(todo[q])
                            /\ At(q) \notin {"simulate", "join", "simulated", "merge", "costs"}
      BY <1>3, <1>10, <2>1 DEF Advanced
  <2>3. Control'
      BY <1>1, <1>10, <2>2, ControlQuiet
  <2> QED BY <1>1, <1>10, <2>3, FlowKept
<1>11. CASE Load
    BY <1>1, <1>10, <1>11 DEF Load, OtherTypes, mergeVars
<1>12. CASE Exported
    BY <1>1, <1>10, <1>12 DEF Exported, OtherTypes, mergeVars
<1>13. CASE Train
    BY <1>1, <1>10, <1>13 DEF Train, OtherTypes, mergeVars
<1>14. CASE Meet
    BY <1>1, <1>10, <1>14 DEF Meet, OtherTypes, mergeVars, PlainMeetings
<1>15. CASE Reconcile
    BY <1>1, <1>15, ControlReconcile, FlowKept DEF Reconcile, OtherTypes, mergeVars
<1>16. CASE Merge
  <2>1. Control' /\ counts' \in [completed : Nat, failed : Nat]
      BY <1>1, <1>16, ControlMerge
  <2> QED BY <1>1, <1>16, <2>1, FlowKept DEF Merge, OtherTypes
<1>17. CASE GatherCosts
  <2>1. Control' /\ costs' \in Seq(Nat)
      BY <1>1, <1>17, ControlGather
  <2> QED BY <1>1, <1>17, <2>1, FlowKept DEF GatherCosts, OtherTypes
<1>18. CASE UNCHANGED vars
    BY <1>1, <1>6, <1>18 DEF vars, phaseVars, OtherTypes, mergeVars
<1> QED
    BY <1>5, <1>7, <1>8, <1>9, <1>11, <1>12, <1>13, <1>14, <1>15, <1>16, <1>17, <1>18 DEF Next

\* The variables keep their types: the channel of a rank never holds more than its
\* capacity, and every number in flight is a scenario.
THEOREM PhasesTypeCorrect == Spec => []TypeOK
<1>1. Init => AccountingInv
    BY AccountingInit
<1>2. AccountingInv /\ [Next]_vars => AccountingInv'
    BY AccountingNext
<1>3. AccountingInv => TypeOK
    BY DEF AccountingInv, IInv, Types, Flow, FlowTypes, OtherTypes, TypeOK
<1> QED BY <1>1, <1>2, <1>3, PTL DEF Spec

\* A simulation that is reported is complete, for any number of ranks, workers and scenarios
\* and any capacity of the channels: no scenario is lost, counted twice or out of its place.
THEOREM ResultsAreAccounted == Spec => []ResultsAccounted
<1>1. Init => AccountingInv
    BY AccountingInit
<1>2. AccountingInv /\ [Next]_vars => AccountingInv'
    BY AccountingNext
<1>3. AccountingInv => ResultsAccounted
  <2> SUFFICES ASSUME AccountingInv, "report" \in outputs
               PROVE  /\ UNION {written[r] \cup unwritten[r] : r \in Ranks} = 0 .. NumScenarios - 1
                      /\ counts.completed + counts.failed = NumScenarios
                      /\ costs = [i \in 1 .. NumScenarios |-> i - 1]
      BY DEF ResultsAccounted
  <2>1. /\ \A r \in Ranks : Accounted(r)
        /\ counts.completed + counts.failed = NumScenarios
        /\ costs = [i \in 1 .. NumScenarios |-> i - 1]
      BY DEF AccountingInv, Control, Results, InMerged, InReport
  <2>2. \A r \in Ranks : written[r] \cup unwritten[r] = Share(r)
      BY <2>1 DEF Accounted
  <2>3. UNION {written[r] \cup unwritten[r] : r \in Ranks} = UNION {Share(r) : r \in Ranks}
      BY <2>2
  <2> QED BY <2>1, <2>3, Shares
<1> QED BY <1>1, <1>2, <1>3, PTL DEF Spec
=============================================================================
