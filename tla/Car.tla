-------------------------------- MODULE Car --------------------------------
(***************************************************************************)
(* One evaluation of a gene: Engine::score builds a World, and World::step   *)
(* runs Car::update and then Box2D, whose contacts come back through         *)
(* ContactListener::PostSolve.  Box2D is external: between two updates it    *)
(* moves the car anyhow and reports any contacts with what is on the body.   *)
(*                                                                         *)
(* A car has N cart pieces and up to N wheels, each hung by a spring from    *)
(* an axle fixture on the body.  Geometry and masses are left out: a torque  *)
(* is the parts whose mass it was computed from and the number of wheels.    *)
(* Positions are whole metres.                                              *)
(***************************************************************************)
EXTENDS Integers, Sequences, FiniteSets

CONSTANTS
    N,               \* cart pieces, and wheels; 8 in the code
    MaxBroken,       \* brokeNum stops the car here, 7
    MAX_ITTERATION,  \* 18000
    SlowNear,        \* maxSlow up to Far, 180
    SlowFar,         \* maxSlow beyond Far, 300
    Far,             \* 10
    Back,            \* a car behind -Back has failed, 10
    TRACK_LENGTH,    \* 1500
    MaxMove,         \* bound: how far the car moves in one step
    MaxCars,         \* bound: the cars a World builds, one in a worker
    MaxLate          \* bound: the updates of a car that has stopped

ASSUME CarAssumption ==
    /\ N \in Nat \ {0}
    /\ MaxBroken \in 1 .. N - 1
    /\ MAX_ITTERATION \in Nat \ {0}
    /\ SlowNear \in Nat /\ SlowNear > 1
    /\ SlowFar \in Nat /\ SlowFar > 1
    /\ Far \in Nat /\ Back \in Nat
    /\ TRACK_LENGTH \in Nat \ {0}
    /\ MaxMove \in Nat \ {0}
    /\ MaxCars \in Nat \ {0}
    /\ MaxLate \in Nat

Index == 0 .. N - 1
NO_WHEELS == -1
BROKEN_WHEELS == -2

VARIABLES
    phase,         \* where World::step is; "gone" once the World is destroyed
    at,            \* i in the loop of Car::update
    connected,     \* World::init has connected stoped() to carStoped()
    wheelOn,       \* the piece each wheel is on
    cart,          \* the pieces whose cartFixture is not NULL
    axleFixture,   \* the wheels whose axleFixture is on the body
    spring,        \* the wheels whose spring exists
    motor,         \* the torque each wheel's motor was given last
    hung,          \* the wheels whose axle carries the broken axle fixture
    pieces,        \* the fixtures that have broken off the cart, in order
    breakCart,     \* breakCartFixture[0..N-1]
    breakAxle,     \* breakCartFixture[N..2N-1]
    brokeNum,
    wheelsCount,
    itteration,
    slow,
    possition,     \* of the body, as Box2D left it
    crawls,        \* its velocity is below 1
    maxPossition,
    prevPossition,
    stopped,       \* the last update has thrown the score
    cars,          \* the cars built so far
    undefined,     \* a NULL fixture or a destroyed joint was used
    unheard        \* a stop was emitted before it was connected

parts  == <<wheelOn, cart, axleFixture, spring, motor, hung, pieces,
            brokeNum, wheelsCount>>
flags  == <<breakCart, breakAxle>>
motion == <<possition, crawls>>
score  == <<itteration, slow, maxPossition, prevPossition, stopped, unheard>>
vars   == <<phase, at, connected, wheelOn, cart, axleFixture, spring, motor,
            hung, pieces, breakCart, breakAxle, brokeNum, wheelsCount,
            itteration, slow, possition, crawls, maxPossition, prevPossition,
            stopped, cars, undefined, unheard>>

Larger(a, b) == IF a < b THEN b ELSE a
Smaller(a, b) == IF a < b THEN a ELSE b

-----------------------------------------------------------------------------
(* Building a car *)

Attached(w) == {i \in Index : w[i] >= 0}

\* updateTorque(): what every attached motor is given
Off == <<>>
Torque(pcs, axs, n) == IF n = 0 THEN Off ELSE <<pcs, axs, n>>

\* The genes put each wheel on any piece, or leave it out.
Wheelings == [Index -> Index \cup {NO_WHEELS}]

\* faulty variant: init() forgets slow
ScoreFromZeroKeepsSlow ==
    /\ itteration' = 0 /\ slow' = slow
    /\ maxPossition' = 0 /\ prevPossition' = 0

\* the counters of Car::init
ScoreFromZero ==
    /\ itteration' = 0 /\ slow' = 0
    /\ maxPossition' = 0 /\ prevPossition' = 0

\* Car::init, createCart, createWheels and updateTorque; the constructor goes
\* on with a first update().
NewCar(w) ==
    /\ wheelOn' = w
    /\ cart' = Index
    /\ axleFixture' = Attached(w) /\ spring' = Attached(w)
    /\ wheelsCount' = Cardinality(Attached(w))
    /\ motor' = [i \in Index |->
                    IF w[i] >= 0
                    THEN Torque(Index, Attached(w), Cardinality(Attached(w)))
                    ELSE Off]
    /\ hung' = {} /\ pieces' = <<>>
    /\ breakCart' = {} /\ breakAxle' = {}
    /\ brokeNum' = 0
    /\ ScoreFromZero
    /\ possition' = 0 /\ crawls' = TRUE
    /\ stopped' = FALSE
    /\ phase' = "piece" /\ at' = 0
    /\ connected' = FALSE

Init ==
    /\ wheelOn \in Wheelings
    /\ cart = Index
    /\ axleFixture = Attached(wheelOn) /\ spring = Attached(wheelOn)
    /\ wheelsCount = Cardinality(Attached(wheelOn))
    /\ motor = [i \in Index |->
                    IF wheelOn[i] >= 0
                    THEN Torque(Index, Attached(wheelOn),
                                Cardinality(Attached(wheelOn)))
                    ELSE Off]
    /\ hung = {} /\ pieces = <<>>
    /\ breakCart = {} /\ breakAxle = {}
    /\ brokeNum = 0
    /\ itteration = 0 /\ slow = 0
    /\ possition = 0 /\ crawls = TRUE
    /\ maxPossition = 0 /\ prevPossition = 0
    /\ stopped = FALSE
    /\ phase = "piece" /\ at = 0
    /\ connected = FALSE
    /\ cars = 1
    /\ undefined = FALSE
    /\ unheard = FALSE

-----------------------------------------------------------------------------
(* Car::update: for each i, the piece and then the axle *)

\* faulty variant: the axle's flag stays up
BreakAxlesKeep(J) ==
    /\ breakAxle' = breakAxle
    /\ spring' = spring \ J
    /\ axleFixture' = axleFixture \ J
    /\ hung' = hung \cup J
    /\ wheelOn' = [j \in Index |-> IF j \in J THEN BROKEN_WHEELS ELSE wheelOn[j]]
    /\ wheelsCount' = wheelsCount - Cardinality(J)

\* The springs of J are destroyed and breakFixture(N + j) moves their axle
\* fixtures from the body to the axles.
BreakAxles(J) ==
    /\ breakAxle' = breakAxle \ J
    /\ spring' = spring \ J
    /\ axleFixture' = axleFixture \ J
    /\ hung' = hung \cup J
    /\ wheelOn' = [j \in Index |-> IF j \in J THEN BROKEN_WHEELS ELSE wheelOn[j]]
    /\ wheelsCount' = wheelsCount - Cardinality(J)

\* faulty variant: updateTorque() is not called after a break
UpdateTorqueOff(J) ==
    motor' = [i \in Index |-> IF i \in J THEN Off ELSE motor[i]]

\* The motors of J are switched off; updateTorque() sets the others.
UpdateTorque(J) ==
    motor' = [i \in Index |->
                 IF wheelOn'[i] >= 0
                 THEN Torque(cart', axleFixture', wheelsCount')
                 ELSE IF i \in J THEN Off ELSE motor[i]]

\* Both destroy the joint and then the fixture of every j in J.
Intact(J) == J \subseteq spring /\ J \subseteq axleFixture

SpringUsable == wheelOn[at] >= 0 => at \in spring

\* faulty variant: the loop over the wheels ends at the first hit
OnPieceFirst(p) ==
    {j \in Index : wheelOn[j] = p /\ \A k \in 0 .. j - 1 : wheelOn[k] # p}

\* the wheels that hang on piece p
OnPiece(p) == {j \in Index : wheelOn[j] = p}

MayBreak(p) == brokeNum < MaxBroken /\ p \in breakCart

PieceBreaks ==
    LET J == OnPiece(at)
    IN  /\ phase = "piece" /\ at < N
        /\ MayBreak(at)
        /\ brokeNum' = brokeNum + 1
        /\ breakCart' = breakCart \ {at}
        /\ cart' = cart \ {at}
        /\ pieces' = Append(pieces, at)
        /\ BreakAxles(J)
        /\ UpdateTorque(J)
        /\ undefined' = (undefined \/ ~SpringUsable \/ at \notin cart \/ ~Intact(J))
        /\ phase' = "axle"
        /\ UNCHANGED <<at, connected, motion, score, cars>>

PieceHolds ==
    /\ phase = "piece" /\ at < N
    /\ ~MayBreak(at)
    /\ undefined' = (undefined \/ ~SpringUsable)
    /\ phase' = "axle"
    /\ UNCHANGED <<at, connected, parts, flags, motion, score, cars>>

AxleBreaks ==
    /\ phase = "axle" /\ at \in breakAxle
    /\ BreakAxles({at})
    /\ UNCHANGED <<cart, pieces, brokeNum, breakCart>>
    /\ UpdateTorque({at})
    /\ undefined' = (undefined \/ ~Intact({at}))
    /\ phase' = "piece" /\ at' = at + 1
    /\ UNCHANGED <<connected, motion, score, cars>>

AxleHolds ==
    /\ phase = "axle" /\ at \notin breakAxle
    /\ phase' = "piece" /\ at' = at + 1
    /\ UNCHANGED <<connected, parts, flags, motion, score, cars, undefined>>

MaxSlow(x) == IF x > Far THEN SlowFar ELSE SlowNear

\* faulty variant: nothing limits the time
StopsUnlimited(s, it) ==
    \/ s >= MaxSlow(possition)
    \/ possition >= TRACK_LENGTH
    \/ possition < -Back
    \/ brokeNum >= MaxBroken

Stops(s, it) ==
    \/ s >= MaxSlow(possition)
    \/ possition >= TRACK_LENGTH
    \/ it > MAX_ITTERATION
    \/ possition < -Back
    \/ brokeNum >= MaxBroken

\* carStoped() throws the score: World::step is left before Box2D.
AfterUpdate(stop) == IF connected /\ ~stop THEN "physics" ELSE "idle"

\* The end of update().  stoped() reaches carStoped() only once World::init
\* has connected it; the update in the constructor comes before.
UpdateEnds ==
    /\ phase = "piece" /\ at = N
    /\ itteration' = itteration + 1
    /\ maxPossition' = Larger(maxPossition, possition)
    /\ IF maxPossition' - prevPossition > 1
       THEN slow' = 0 /\ prevPossition' = maxPossition'
       ELSE /\ slow' = slow + (IF crawls THEN 1 ELSE 0)
            /\ UNCHANGED prevPossition
    /\ connected' = TRUE
    /\ unheard' = (unheard \/ (Stops(slow', itteration') /\ ~connected))
    /\ stopped' = (Stops(slow', itteration') /\ connected)
    /\ phase' = AfterUpdate(Stops(slow', itteration'))
    /\ UNCHANGED <<at, parts, flags, motion, cars, undefined>>

-----------------------------------------------------------------------------
(* World::step and Box2D *)

\* score() calls step() until it throws; MainWindow::timerEvent calls it
\* again later, thrown or not.
Step ==
    /\ phase = "idle"
    /\ itteration <= MAX_ITTERATION + MaxLate
    /\ phase' = "piece" /\ at' = 0
    /\ UNCHANGED <<connected, parts, flags, motion, score, cars, undefined>>

\* A contact harder than the strength of a fixture that is still on the body;
\* any other contact changes nothing.
PostSolve ==
    /\ phase = "physics"
    /\ \/ \E i \in cart : breakCart' = breakCart \cup {i} /\ UNCHANGED breakAxle
       \/ \E i \in axleFixture : breakAxle' = breakAxle \cup {i} /\ UNCHANGED breakCart
    /\ UNCHANGED <<phase, at, connected, parts, motion, score, cars, undefined>>

\* The rest of b2World::Step.
Moved ==
    /\ phase = "physics"
    /\ possition' \in (possition - MaxMove) .. (possition + MaxMove)
    /\ crawls' \in BOOLEAN
    /\ phase' = "idle"
    /\ UNCHANGED <<at, connected, parts, flags, score, cars, undefined>>

\* deletePhisicsBody() destroys the springs of the wheels that are not broken.
SpringsToDestroy == Attached(wheelOn)

\* World::setGene, between two steps
SetGene ==
    /\ phase = "idle" /\ cars < MaxCars
    /\ cars' = cars + 1
    /\ undefined' = (undefined \/ ~(SpringsToDestroy \subseteq spring))
    /\ \E w \in Wheelings : NewCar(w)
    /\ UNCHANGED unheard

\* score() catches the number, and the World is destroyed on the way.
Return ==
    /\ phase = "idle" /\ stopped
    /\ phase' = "gone"
    /\ undefined' = (undefined \/ ~(SpringsToDestroy \subseteq spring))
    /\ UNCHANGED <<at, connected, parts, flags, motion, score, cars>>

Next ==
    \/ PieceBreaks \/ PieceHolds \/ AxleBreaks \/ AxleHolds \/ UpdateEnds
    \/ Step \/ PostSolve \/ Moved
    \/ SetGene \/ Return

\* The thread that evaluates runs on, and so does Box2D.
Fairness ==
    /\ WF_vars(PieceBreaks \/ PieceHolds \/ AxleBreaks \/ AxleHolds)
    /\ WF_vars(UpdateEnds) /\ WF_vars(Step) /\ WF_vars(Moved)

Spec == Init /\ [][Next]_vars
FairSpec == Spec /\ Fairness

-----------------------------------------------------------------------------
(* Properties *)

Torques == {Off} \cup ((SUBSET Index) \X (SUBSET Index) \X Int)

\* Every variable keeps its type.
TypeOK ==
    /\ phase \in {"piece", "axle", "physics", "idle", "gone"}
    /\ at \in 0 .. N /\ (phase = "axle" => at < N)
    /\ connected \in BOOLEAN /\ stopped \in BOOLEAN /\ crawls \in BOOLEAN
    /\ undefined \in BOOLEAN /\ unheard \in BOOLEAN
    /\ wheelOn \in [Index -> Index \cup {NO_WHEELS, BROKEN_WHEELS}]
    /\ cart \subseteq Index /\ axleFixture \subseteq Index
    /\ spring \subseteq Index /\ hung \subseteq Index
    /\ motor \in [Index -> Torques]
    /\ pieces \in Seq(Index)
    /\ breakCart \subseteq Index /\ breakAxle \subseteq Index
    /\ brokeNum \in 0 .. MaxBroken /\ wheelsCount \in Int
    /\ itteration \in Nat /\ slow \in Nat /\ cars \in 1 .. MaxCars
    /\ possition \in Int /\ maxPossition \in Nat /\ prevPossition \in Nat

\* car.cpp:24, 36, 50, 147, 156: no fixture is destroyed through a pointer
\* that is NULL already and no spring twice, whichever pieces and axles were
\* hit together and in whichever order the loop meets them.
NothingBreaksTwice == ~undefined

\* car.cpp:19-43: a wheel that turns has its spring and its axle fixture and
\* sits on a piece of the body; each fixture's colour has one owner, so that
\* deletePhisicsBody() frees it once; the counters count.
WheelsHang ==
    /\ spring = Attached(wheelOn) /\ axleFixture = Attached(wheelOn)
    /\ \A i \in Attached(wheelOn) : wheelOn[i] \in cart
    /\ hung = {i \in Index : wheelOn[i] = BROKEN_WHEELS}
PiecesCount ==
    /\ \A i \in Index : i \in cart <=> ~\E k \in DOMAIN pieces : pieces[k] = i
    /\ Len(pieces) = brokeNum
    /\ wheelsCount = Cardinality(axleFixture)
CarHoldsTogether == WheelsHang /\ PiecesCount

\* car.cpp:179-188: whatever has broken, the wheels that turn have the torque
\* for what is left of the car, and no other motor pulls.
TorqueIsCurrent ==
    \A i \in Index :
        motor[i] = IF wheelOn[i] >= 0
                   THEN Torque(cart, axleFixture, wheelsCount)
                   ELSE Off

\* world.cpp:115-116: the update() in the constructor of a car runs before its
\* signal is connected; a stop emitted there would be lost.
StopIsHeard == ~unheard

\* car.cpp:163-176, mainwindow.cpp:91-102: the player goes on with a car that
\* has stopped: it stays stopped, and its score stays what it was.
StaysStopped ==
    [][stopped /\ cars' = cars => stopped' /\ maxPossition' = maxPossition]_vars

\* engine.cpp:26-31: score() comes back: every car stops, unless the player
\* replaces it.
EvaluationEnds == \A k \in 1 .. MaxCars : (cars = k) ~> (stopped \/ cars # k)

=============================================================================
