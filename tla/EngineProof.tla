------------------------------ MODULE EngineProof ------------------------------
(***************************************************************************)
(* The cars, the player and the genes of the engine, for carts, tracks,    *)
(* grids and chromes of any size: first a car and its joints (Car), then   *)
(* the windows of the player and the genes they show (Player), then how a  *)
(* gene is written and read (Gene).                                        *)
(***************************************************************************)
EXTENDS Car, Player, Gene, FiniteSetTheorems, SequenceTheorems, Lemmas, TLAPS

-----------------------------------------------------------------------------
(* The inductive invariant *)

\* Only what is still on the body can be due to break.
FlagsOnBody == breakCart \subseteq cart /\ breakAxle \subseteq axleFixture

\* Before the signal is connected nothing has happened to the car.
FirstUpdate ==
    ~connected =>
        /\ phase \in {"piece", "axle"}
        /\ itteration = 0 /\ slow = 0
        /\ possition = 0 /\ maxPossition = 0 /\ prevPossition = 0
        /\ breakCart = {} /\ brokeNum = 0
        /\ ~stopped

\* A car that has stopped stays where it was, for the reason it stopped.
LateUpdates ==
    stopped =>
        /\ connected /\ phase # "physics"
        /\ maxPossition >= possition
        /\ maxPossition - prevPossition <= 1
        /\ Stops(slow, itteration)

PartsInv == TypeOK /\ CarHoldsTogether /\ TorqueIsCurrent /\ FlagsOnBody
MotionInv == StopIsHeard /\ FirstUpdate /\ LateUpdates
IInv == PartsInv /\ NothingBreaksTwice /\ MotionInv

-----------------------------------------------------------------------------
(* Parts *)

LEMMA PartsAreFinite ==
    ASSUME NEW S \in SUBSET Index
    PROVE  IsFiniteSet(S) /\ Cardinality(S) \in Nat
<1>1. IsFiniteSet(Index)
  BY FS_Interval, CarAssumption DEF Index
<1>2. IsFiniteSet(S)
  BY <1>1, FS_Subset
<1> QED
  BY <1>2, FS_CardinalityType

LEMMA TorqueType ==
    ASSUME NEW p \in SUBSET Index, NEW a \in SUBSET Index, NEW n \in Int
    PROVE  Torque(p, a, n) \in Torques /\ Off \in Torques
BY DEF Torque, Torques

\* What createWheels() makes of a gene.
LEMMA Built ==
    ASSUME NEW w \in Wheelings
    PROVE  /\ w \in [Index -> Index \cup {NO_WHEELS, BROKEN_WHEELS}]
           /\ Attached(w) \subseteq Index
           /\ Cardinality(Attached(w)) \in Nat
           /\ \A i \in Attached(w) : w[i] \in Index
           /\ {i \in Index : w[i] = BROKEN_WHEELS} = {}
           /\ [i \in Index |->
                  IF w[i] >= 0
                  THEN Torque(Index, Attached(w), Cardinality(Attached(w)))
                  ELSE Off] \in [Index -> Torques]
<1>1. Attached(w) \subseteq Index
  BY DEF Attached
<1>2. Cardinality(Attached(w)) \in Nat
  BY <1>1, PartsAreFinite
<1>3. \A i \in Index : w[i] \in Index \cup {NO_WHEELS}
  BY DEF Wheelings
<1>4. \A i \in Index : w[i] # BROKEN_WHEELS
  BY <1>3, CarAssumption DEF Index, NO_WHEELS, BROKEN_WHEELS
<1>5. \A i \in Attached(w) : w[i] \in Index
  BY <1>3 DEF Attached, Index, NO_WHEELS
<1>6. Torque(Index, Attached(w), Cardinality(Attached(w))) \in Torques
        /\ Off \in Torques
  BY <1>1, <1>2, TorqueType
<1> QED
  BY <1>1, <1>2, <1>4, <1>5, <1>6 DEF Wheelings

\* Breaking attached wheels off keeps the rest as it hangs.
LEMMA AxlesBreakClean ==
    ASSUME TypeOK, CarHoldsTogether, FlagsOnBody,
           NEW J \in SUBSET Attached(wheelOn), BreakAxles(J)
    PROVE  /\ wheelOn' \in [Index -> Index \cup {NO_WHEELS, BROKEN_WHEELS}]
           /\ spring' = Attached(wheelOn') /\ axleFixture' = Attached(wheelOn')
           /\ Attached(wheelOn') = Attached(wheelOn) \ J
           /\ \A i \in Attached(wheelOn') : wheelOn'[i] = wheelOn[i]
           /\ hung' = {i \in Index : wheelOn'[i] = BROKEN_WHEELS}
           /\ wheelsCount' = Cardinality(axleFixture') /\ wheelsCount' \in Int
           /\ breakAxle' \subseteq axleFixture'
           /\ axleFixture' \subseteq Index
<1>1. Attached(wheelOn) \subseteq Index /\ J \subseteq Index
  BY DEF Attached
<1>2. wheelOn' \in [Index -> Index \cup {NO_WHEELS, BROKEN_WHEELS}]
  BY <1>1 DEF BreakAxles, TypeOK
<1>3. \A i \in Index : wheelOn'[i] = IF i \in J THEN BROKEN_WHEELS ELSE wheelOn[i]
  BY DEF BreakAxles
<1>4. Attached(wheelOn') = Attached(wheelOn) \ J
  BY <1>1, <1>3 DEF Attached, BROKEN_WHEELS
<1>5. spring' = Attached(wheelOn') /\ axleFixture' = Attached(wheelOn')
  BY <1>4 DEF BreakAxles, CarHoldsTogether, WheelsHang
<1>6. \A i \in Attached(wheelOn') : wheelOn'[i] = wheelOn[i]
  BY <1>1, <1>3, <1>4
<1>7. hung' = {i \in Index : wheelOn'[i] = BROKEN_WHEELS}
  BY <1>1, <1>3 DEF BreakAxles, CarHoldsTogether, WheelsHang
<1>8. wheelsCount' = Cardinality(axleFixture') /\ wheelsCount' \in Int
  <2>1. wheelsCount = Cardinality(axleFixture) /\ axleFixture = Attached(wheelOn)
    BY DEF CarHoldsTogether, PiecesCount, WheelsHang
  <2>2. IsFiniteSet(axleFixture) /\ Cardinality(axleFixture) \in Nat
          /\ Cardinality(J) \in Nat
    BY <1>1, <2>1, PartsAreFinite
  <2>3. axleFixture \cap J = J
    BY <2>1
  <2>4. Cardinality(axleFixture \ J) = Cardinality(axleFixture) - Cardinality(J)
    BY <2>2, <2>3, FS_Difference
  <2> QED
    BY <2>1, <2>2, <2>4 DEF BreakAxles
<1>9. breakAxle' \subseteq axleFixture'
  BY DEF BreakAxles, FlagsOnBody
<1> QED
  BY <1>1, <1>2, <1>4, <1>5, <1>6, <1>7, <1>8, <1>9

\* updateTorque() and the motors switched off leave no stale torque.
LEMMA TorqueFollows ==
    ASSUME TypeOK, CarHoldsTogether, FlagsOnBody, TorqueIsCurrent,
           NEW J \in SUBSET Attached(wheelOn), BreakAxles(J), UpdateTorque(J),
           cart' \in SUBSET Index
    PROVE  motor' \in [Index -> Torques] /\ TorqueIsCurrent'
<1>1. \A i \in Index :
         wheelOn'[i] = IF i \in J THEN BROKEN_WHEELS ELSE wheelOn[i]
  BY DEF BreakAxles
<1>2. Torque(cart', axleFixture', wheelsCount') \in Torques /\ Off \in Torques
  <2>1. axleFixture' \subseteq Index /\ wheelsCount' \in Int
    BY AxlesBreakClean
  <2> QED
    BY <2>1, TorqueType
<1>3. ASSUME NEW i \in Index
      PROVE  motor'[i] = IF wheelOn'[i] >= 0
                         THEN Torque(cart', axleFixture', wheelsCount')
                         ELSE Off
  <2>1. CASE wheelOn'[i] >= 0
    BY <2>1 DEF UpdateTorque
  <2>2. CASE ~(wheelOn'[i] >= 0) /\ i \in J
    BY <2>2 DEF UpdateTorque
  <2>3. CASE ~(wheelOn'[i] >= 0) /\ i \notin J
    <3>1. ~(wheelOn[i] >= 0)
      BY <1>1, <2>3
    <3>2. motor[i] = Off
      BY <3>1 DEF TorqueIsCurrent
    <3> QED
      BY <2>3, <3>2 DEF UpdateTorque
  <2> QED
    BY <2>1, <2>2, <2>3
<1>4. TorqueIsCurrent'
  BY <1>3 DEF TorqueIsCurrent
<1>5. motor' \in [Index -> Torques]
  <2>1. motor' = [i \in Index |-> motor'[i]]
    BY DEF UpdateTorque
  <2>2. \A i \in Index : motor'[i] \in Torques
    BY <1>2, <1>3
  <2> QED
    BY <2>1, <2>2
<1> QED
  BY <1>4, <1>5

-----------------------------------------------------------------------------
(* The invariant holds of a new car *)

LEMMA InitInv == Init => IInv
<1> SUFFICES ASSUME Init PROVE IInv
  OBVIOUS
<1>0. wheelOn \in Wheelings
  BY DEF Init
<1>1. TypeOK
  <2>1. 0 \in Index /\ 0 \in 0 .. N /\ 0 \in 0 .. MaxBroken /\ 1 \in 1 .. MaxCars
    BY CarAssumption DEF Index
  <2> QED
    BY <1>0, <2>1, Built DEF Init, TypeOK
<1>2. CarHoldsTogether
  BY <1>0, Built DEF Init, CarHoldsTogether, WheelsHang, PiecesCount
<1>3. TorqueIsCurrent
  BY <1>0, Built DEF Init, TorqueIsCurrent
<1>4. FlagsOnBody
  BY DEF Init, FlagsOnBody
<1>5. MotionInv
  BY DEF Init, MotionInv, StopIsHeard, FirstUpdate, LateUpdates
<1> QED
  BY <1>1, <1>2, <1>3, <1>4, <1>5 DEF IInv, PartsInv, NothingBreaksTwice, Init

LEMMA NewCarInv ==
    ASSUME TypeOK, NEW w \in Wheelings, NewCar(w), cars' \in 1 .. MaxCars,
           undefined' \in BOOLEAN, unheard' \in BOOLEAN
    PROVE  PartsInv' /\ FirstUpdate' /\ LateUpdates'
<1>1. TypeOK'
  <2>1. 0 \in Index /\ 0 \in 0 .. N /\ 0 \in 0 .. MaxBroken
    BY CarAssumption DEF Index
  <2>2. /\ wheelOn' \in [Index -> Index \cup {NO_WHEELS, BROKEN_WHEELS}]
        /\ axleFixture' \subseteq Index /\ spring' \subseteq Index
        /\ wheelsCount' \in Int /\ motor' \in [Index -> Torques]
    BY Built DEF NewCar
  <2>3. /\ phase' = "piece" /\ at' = 0 /\ connected' = FALSE /\ stopped' = FALSE
        /\ crawls' = TRUE /\ cart' = Index /\ hung' = {} /\ pieces' = <<>>
        /\ breakCart' = {} /\ breakAxle' = {} /\ brokeNum' = 0
        /\ itteration' = 0 /\ slow' = 0
        /\ possition' = 0 /\ maxPossition' = 0 /\ prevPossition' = 0
    BY DEF NewCar, ScoreFromZero
  <2> QED
    BY <2>1, <2>2, <2>3 DEF TypeOK
<1>2. CarHoldsTogether'
  BY Built DEF NewCar, CarHoldsTogether, WheelsHang, PiecesCount
<1>3. TorqueIsCurrent'
  BY Built DEF NewCar, TorqueIsCurrent
<1>4. FlagsOnBody'
  BY DEF NewCar, FlagsOnBody
<1>5. FirstUpdate' /\ LateUpdates'
  BY DEF NewCar, ScoreFromZero, FirstUpdate, LateUpdates
<1> QED
  BY <1>1, <1>2, <1>3, <1>4, <1>5 DEF PartsInv

-----------------------------------------------------------------------------
(* Every step of the loop keeps the car together *)

LEMMA OnPieceAttached ==
    ASSUME TypeOK, NEW p \in Index
    PROVE  OnPiece(p) \subseteq Attached(wheelOn)
BY DEF OnPiece, Attached, Index

LEMMA PieceBreaksInv ==
    ASSUME PartsInv, NothingBreaksTwice, PieceBreaks
    PROVE  PartsInv' /\ NothingBreaksTwice'
<1> DEFINE J == OnPiece(at)
<1>1. at \in Index /\ at \in cart /\ TypeOK
  BY CarAssumption DEF PieceBreaks, MayBreak, PartsInv, TypeOK, FlagsOnBody, Index
<1>2. J \in SUBSET Attached(wheelOn)
  BY <1>1, OnPieceAttached
<1>3. BreakAxles(J) /\ UpdateTorque(J) /\ cart' = cart \ {at}
        /\ breakCart' = breakCart \ {at}
  BY DEF PieceBreaks
<1>4. /\ wheelOn' \in [Index -> Index \cup {NO_WHEELS, BROKEN_WHEELS}]
      /\ spring' = Attached(wheelOn') /\ axleFixture' = Attached(wheelOn')
      /\ Attached(wheelOn') = Attached(wheelOn) \ J
      /\ \A i \in Attached(wheelOn') : wheelOn'[i] = wheelOn[i]
      /\ hung' = {i \in Index : wheelOn'[i] = BROKEN_WHEELS}
      /\ wheelsCount' = Cardinality(axleFixture') /\ wheelsCount' \in Int
      /\ breakAxle' \subseteq axleFixture'
      /\ axleFixture' \subseteq Index
  BY <1>2, <1>3, AxlesBreakClean DEF PartsInv
<1>5. cart \in SUBSET Index /\ cart' \in SUBSET Index
  BY <1>1, <1>3 DEF TypeOK
<1>6. motor' \in [Index -> Torques] /\ TorqueIsCurrent'
  BY <1>2, <1>3, <1>5, TorqueFollows DEF PartsInv
<1>7. /\ pieces' \in Seq(Index) /\ Len(pieces') = Len(pieces) + 1
      /\ pieces'[Len(pieces) + 1] = at
      /\ DOMAIN pieces' = DOMAIN pieces \cup {Len(pieces) + 1}
      /\ \A k \in DOMAIN pieces : pieces'[k] = pieces[k]
  BY <1>1 DEF PieceBreaks, TypeOK
<1>8. PiecesCount'
  <2>1. \A i \in Index : i \in cart' <=> ~\E k \in DOMAIN pieces' : pieces'[k] = i
    BY <1>1, <1>3, <1>7 DEF PartsInv, CarHoldsTogether, PiecesCount
  <2>2. Len(pieces') = brokeNum'
    BY <1>7 DEF PieceBreaks, PartsInv, CarHoldsTogether, PiecesCount
  <2> QED
    BY <1>4, <2>1, <2>2 DEF PiecesCount
<1>9. WheelsHang'
  <2>1. ASSUME NEW i \in Attached(wheelOn') PROVE wheelOn'[i] \in cart'
    <3>1. i \in Attached(wheelOn) /\ i \notin J /\ wheelOn'[i] = wheelOn[i]
      BY <1>4, <2>1
    <3>2. wheelOn[i] \in cart /\ wheelOn[i] # at
      BY <3>1 DEF PartsInv, CarHoldsTogether, WheelsHang, OnPiece, Attached
    <3> QED
      BY <1>3, <3>1, <3>2
  <2> QED
    BY <1>4, <2>1 DEF WheelsHang
<1>10. TypeOK'
  <2>1. hung' \subseteq Index
    BY <1>4
  <2>2. brokeNum' \in 0 .. MaxBroken
    BY CarAssumption DEF PieceBreaks, MayBreak, PartsInv, TypeOK
  <2>3. breakCart' \subseteq Index
    BY <1>1, <1>3 DEF TypeOK
  <2> QED
    BY <1>1, <1>4, <1>5, <1>6, <1>7, <2>1, <2>2, <2>3
    DEF PieceBreaks, TypeOK, motion, score
<1>11. FlagsOnBody'
  BY <1>3, <1>4 DEF PartsInv, FlagsOnBody
<1>12. NothingBreaksTwice'
  <2>1. SpringUsable /\ Intact(J)
    BY <1>1, <1>2 DEF SpringUsable, Intact, PartsInv, CarHoldsTogether,
       WheelsHang, Attached
  <2> QED
    BY <1>1, <2>1 DEF PieceBreaks, NothingBreaksTwice
<1> QED
  BY <1>6, <1>8, <1>9, <1>10, <1>11, <1>12 DEF PartsInv, CarHoldsTogether

LEMMA AxleBreaksInv ==
    ASSUME PartsInv, NothingBreaksTwice, AxleBreaks
    PROVE  PartsInv' /\ NothingBreaksTwice'
<1>1. TypeOK /\ at \in Index /\ at \in Attached(wheelOn) /\ at + 1 \in 0 .. N
  BY CarAssumption
  DEF AxleBreaks, PartsInv, TypeOK, FlagsOnBody, CarHoldsTogether, WheelsHang, Index
<1>2. {at} \in SUBSET Attached(wheelOn)
  BY <1>1
<1>3. BreakAxles({at}) /\ UpdateTorque({at}) /\ cart' = cart
        /\ breakCart' = breakCart /\ pieces' = pieces /\ brokeNum' = brokeNum
  BY DEF AxleBreaks
<1>4. /\ wheelOn' \in [Index -> Index \cup {NO_WHEELS, BROKEN_WHEELS}]
      /\ spring' = Attached(wheelOn') /\ axleFixture' = Attached(wheelOn')
      /\ Attached(wheelOn') = Attached(wheelOn) \ {at}
      /\ \A i \in Attached(wheelOn') : wheelOn'[i] = wheelOn[i]
      /\ hung' = {i \in Index : wheelOn'[i] = BROKEN_WHEELS}
      /\ wheelsCount' = Cardinality(axleFixture') /\ wheelsCount' \in Int
      /\ breakAxle' \subseteq axleFixture'
      /\ axleFixture' \subseteq Index
  BY <1>2, <1>3, AxlesBreakClean DEF PartsInv
<1>5. cart' \in SUBSET Index
  BY <1>1, <1>3 DEF TypeOK
<1>6. motor' \in [Index -> Torques] /\ TorqueIsCurrent'
  BY <1>2, <1>3, <1>5, TorqueFollows DEF PartsInv
<1>7. CarHoldsTogether'
  <2>1. PiecesCount'
    BY <1>3, <1>4 DEF PartsInv, CarHoldsTogether, PiecesCount
  <2>2. \A i \in Attached(wheelOn') : wheelOn'[i] \in cart'
    BY <1>3, <1>4 DEF PartsInv, CarHoldsTogether, WheelsHang
  <2> QED
    BY <1>4, <2>1, <2>2 DEF CarHoldsTogether, WheelsHang
<1>8. TypeOK'
  <2>1. hung' \subseteq Index
    BY <1>4
  <2> QED
    BY <1>1, <1>3, <1>4, <1>5, <1>6, <2>1
    DEF AxleBreaks, TypeOK, motion, score
<1>9. FlagsOnBody'
  BY <1>3, <1>4 DEF PartsInv, FlagsOnBody
<1>10. NothingBreaksTwice'
  <2>1. Intact({at})
    BY <1>1 DEF Intact, PartsInv, CarHoldsTogether, WheelsHang
  <2> QED
    BY <2>1 DEF AxleBreaks, NothingBreaksTwice
<1> QED
  BY <1>6, <1>7, <1>8, <1>9, <1>10 DEF PartsInv

LEMMA HoldsInv ==
    ASSUME PartsInv, NothingBreaksTwice, PieceHolds \/ AxleHolds
    PROVE  PartsInv' /\ NothingBreaksTwice'
<1>1. UNCHANGED <<parts, flags, motion, score, connected, cars>>
  BY DEF PieceHolds, AxleHolds
<1>2. TypeOK'
  <2>1. /\ phase' \in {"piece", "axle"} /\ at' \in 0 .. N
        /\ (phase' = "axle" => at' < N)
    BY CarAssumption DEF PieceHolds, AxleHolds, PartsInv, TypeOK
  <2>2. undefined' \in BOOLEAN
    BY Zenon DEF PieceHolds, AxleHolds, PartsInv, TypeOK
  <2> QED
    BY <1>1, <2>1, <2>2 DEF PartsInv, TypeOK, parts, flags, motion, score
<1>3. CarHoldsTogether' /\ TorqueIsCurrent' /\ FlagsOnBody'
  BY <1>1 DEF PartsInv, CarHoldsTogether, WheelsHang, PiecesCount,
     TorqueIsCurrent, FlagsOnBody, parts, flags
<1>4. NothingBreaksTwice'
  <2>1. PieceHolds => SpringUsable
    BY CarAssumption DEF PieceHolds, SpringUsable, PartsInv, TypeOK, CarHoldsTogether,
       WheelsHang, Attached, Index
  <2> QED
    BY <2>1 DEF PieceHolds, AxleHolds, NothingBreaksTwice
<1> QED
  BY <1>2, <1>3, <1>4 DEF PartsInv

\* The other steps leave the parts alone.
LEMMA OtherPartsInv ==
    ASSUME PartsInv, NothingBreaksTwice,
           UpdateEnds \/ Step \/ PostSolve \/ Moved \/ Return
    PROVE  PartsInv' /\ NothingBreaksTwice'
<1>1. /\ UNCHANGED <<wheelOn, cart, axleFixture, spring, motor, hung, pieces>>
      /\ UNCHANGED <<brokeNum, wheelsCount, cars>>
  BY DEF UpdateEnds, Step, PostSolve, Moved, Return, parts
<1>2. breakCart' \subseteq cart /\ breakAxle' \subseteq axleFixture
  BY DEF UpdateEnds, Step, PostSolve, Moved, Return, flags, PartsInv, FlagsOnBody
<1>3. NothingBreaksTwice'
  BY DEF UpdateEnds, Step, PostSolve, Moved, Return, NothingBreaksTwice,
     SpringsToDestroy, PartsInv, CarHoldsTogether, WheelsHang
<1>4. TypeOK'
  <2>1. /\ phase' \in {"piece", "axle", "physics", "idle", "gone"}
        /\ at' \in 0 .. N /\ (phase' = "axle" => at' < N)
    BY CarAssumption
    DEF UpdateEnds, AfterUpdate, Step, PostSolve, Moved, Return, PartsInv, TypeOK
  <2>2. /\ connected' \in BOOLEAN /\ stopped' \in BOOLEAN
        /\ unheard' \in BOOLEAN /\ undefined' \in BOOLEAN
    BY ZenonT(30)
    DEF UpdateEnds, Step, PostSolve, Moved, Return, PartsInv, TypeOK, score
  <2>3. crawls' \in BOOLEAN /\ possition' \in Int
    BY CarAssumption
    DEF UpdateEnds, Step, PostSolve, Moved, Return, PartsInv, TypeOK, motion
  <2>4. /\ itteration' \in Nat /\ slow' \in Nat
        /\ maxPossition' \in Nat /\ prevPossition' \in Nat
    BY DEF UpdateEnds, Step, PostSolve, Moved, Return, PartsInv, TypeOK, score,
       Larger
  <2>5. breakCart' \subseteq Index /\ breakAxle' \subseteq Index
    BY <1>2 DEF PartsInv, TypeOK
  <2> QED
    BY <1>1, <2>1, <2>2, <2>3, <2>4, <2>5 DEF PartsInv, TypeOK
<1>5. CarHoldsTogether' /\ TorqueIsCurrent' /\ FlagsOnBody'
  BY <1>1, <1>2 DEF PartsInv, CarHoldsTogether, WheelsHang, PiecesCount,
     TorqueIsCurrent, FlagsOnBody
<1> QED
  BY <1>3, <1>4, <1>5 DEF PartsInv

-----------------------------------------------------------------------------
(* How a car stops *)

\* Nothing stops a car in the update of its constructor.
LEMMA FirstUpdateGoesOn ==
    ASSUME TypeOK, FirstUpdate, ~connected, UpdateEnds
    PROVE  ~Stops(slow', itteration')
BY CarAssumption DEF TypeOK, FirstUpdate, UpdateEnds, Stops, MaxSlow, Larger

\* The update that ends finds the car where the next one will find it.
LEMMA UpdateEndsInv ==
    ASSUME TypeOK, MotionInv, UpdateEnds
    PROVE  MotionInv' /\ (stopped => stopped' /\ maxPossition' = maxPossition)
<1>1. TypeOK /\ MotionInv
  OBVIOUS
<1>2. /\ possition' = possition /\ brokeNum' = brokeNum
      /\ connected' = TRUE
      /\ maxPossition' = Larger(maxPossition, possition)
      /\ itteration' = itteration + 1
  BY DEF UpdateEnds, parts, motion
<1>4. StopIsHeard'
  <2>1. CASE connected
    BY <2>1 DEF UpdateEnds, MotionInv, StopIsHeard
  <2>2. CASE ~connected
    BY <2>2, FirstUpdateGoesOn DEF UpdateEnds, MotionInv, StopIsHeard
  <2> QED
    BY <2>1, <2>2
<1>5. maxPossition' >= possition' /\ maxPossition' - prevPossition' <= 1
  BY <1>2 DEF UpdateEnds, Larger, TypeOK
<1>6. LateUpdates'
  <2>1. stopped' => phase' # "physics" /\ Stops(slow', itteration')
    BY DEF UpdateEnds, AfterUpdate
  <2> QED
    BY <1>2, <1>5, <2>1 DEF LateUpdates, Stops, MaxSlow
<1>7. ASSUME stopped
      PROVE  stopped' /\ maxPossition' = maxPossition
  <2>1. /\ connected /\ maxPossition >= possition
        /\ maxPossition - prevPossition <= 1
        /\ Stops(slow, itteration)
    BY <1>7 DEF MotionInv, LateUpdates
  <2>2. maxPossition' = maxPossition
    BY <1>2, <2>1 DEF Larger, TypeOK
  <2>3. slow' >= slow /\ itteration' >= itteration
    BY <1>2, <2>1, <2>2 DEF UpdateEnds, TypeOK
  <2>4. slow' \in Int /\ itteration' \in Int
    BY <1>2, <2>1, <2>2 DEF UpdateEnds, TypeOK
  <2>5. Stops(slow', itteration')
    BY <2>1, <2>3, <2>4, CarAssumption DEF Stops, MaxSlow, TypeOK
  <2> QED
    BY <2>1, <2>2, <2>5 DEF UpdateEnds
<1> QED
  BY <1>2, <1>4, <1>6, <1>7 DEF MotionInv, FirstUpdate

\* A piece may break under a car that has stopped: that is no reason to go on.
LEMMA LoopMotionInv ==
    ASSUME TypeOK, FlagsOnBody, MotionInv,
           PieceBreaks \/ PieceHolds \/ AxleBreaks \/ AxleHolds
    PROVE  MotionInv'
<1>1. /\ UNCHANGED <<motion, score, connected>>
      /\ phase' \in {"piece", "axle"} /\ phase \in {"piece", "axle"}
  BY DEF PieceBreaks, PieceHolds, AxleBreaks, AxleHolds
<1>2. brokeNum' >= brokeNum /\ brokeNum' \in Int
  BY CarAssumption
  DEF PieceBreaks, PieceHolds, AxleBreaks, AxleHolds, TypeOK, parts
<1>3. breakCart = {} => breakCart' = {} /\ brokeNum' = brokeNum
  BY DEF PieceBreaks, MayBreak, PieceHolds, AxleBreaks, AxleHolds, parts, flags
<1>4. FirstUpdate'
  BY <1>1, <1>3 DEF MotionInv, FirstUpdate, motion, score
<1>5. LateUpdates'
  BY <1>1, <1>2, CarAssumption
  DEF MotionInv, LateUpdates, Stops, MaxSlow, motion, score, TypeOK
<1> QED
  BY <1>1, <1>4, <1>5 DEF MotionInv, StopIsHeard, score

LEMMA StepMotionInv ==
    ASSUME TypeOK, MotionInv, Step \/ PostSolve \/ Moved \/ Return
    PROVE  MotionInv'
<1>1. UNCHANGED <<score, connected, brokeNum>>
  BY DEF Step, PostSolve, Moved, Return, parts
<1>2. connected
  BY DEF MotionInv, FirstUpdate, Step, PostSolve, Moved, Return
<1>3. stopped => phase' # "physics" /\ possition' = possition
  BY DEF MotionInv, LateUpdates, Step, PostSolve, Moved, Return, motion
<1>4. LateUpdates'
  BY <1>1, <1>2, <1>3 DEF MotionInv, LateUpdates, Stops, MaxSlow, score
<1> QED
  BY <1>1, <1>2, <1>4 DEF MotionInv, FirstUpdate, StopIsHeard, score

LEMMA SetGeneInv ==
    ASSUME IInv, SetGene
    PROVE  IInv'
<1>1. PICK w \in Wheelings : NewCar(w)
  BY DEF SetGene
<1>2. cars' \in 1 .. MaxCars
  BY CarAssumption DEF SetGene, IInv, PartsInv, TypeOK
<1>3. NothingBreaksTwice'
  BY DEF SetGene, SpringsToDestroy, IInv, PartsInv, CarHoldsTogether, WheelsHang,
     NothingBreaksTwice
<1>4. undefined' \in BOOLEAN /\ unheard' \in BOOLEAN /\ StopIsHeard'
  BY <1>3 DEF SetGene, IInv, PartsInv, TypeOK, NothingBreaksTwice, MotionInv,
     StopIsHeard
<1>5. PartsInv' /\ FirstUpdate' /\ LateUpdates'
  BY <1>1, <1>2, <1>4, NewCarInv DEF IInv, PartsInv
<1> QED
  BY <1>3, <1>4, <1>5 DEF IInv, MotionInv

-----------------------------------------------------------------------------
(* Theorems *)

LEMMA StepInv == IInv /\ [Next]_vars => IInv'
<1> SUFFICES ASSUME IInv, [Next]_vars PROVE IInv'
  OBVIOUS
<1> USE DEF IInv
<1>0. TypeOK /\ FlagsOnBody
  BY DEF PartsInv
<1>1. CASE PieceBreaks
  BY <1>0, <1>1, PieceBreaksInv, LoopMotionInv
<1>2. CASE AxleBreaks
  BY <1>0, <1>2, AxleBreaksInv, LoopMotionInv
<1>3. CASE PieceHolds \/ AxleHolds
  BY <1>0, <1>3, HoldsInv, LoopMotionInv
<1>4. CASE UpdateEnds
  BY <1>0, <1>4, OtherPartsInv, UpdateEndsInv
<1>5. CASE Step \/ PostSolve \/ Moved \/ Return
  BY <1>0, <1>5, OtherPartsInv, StepMotionInv
<1>6. CASE SetGene
  BY <1>6, SetGeneInv
<1>7. CASE UNCHANGED vars
  BY <1>7 DEF vars, PartsInv, TypeOK, CarHoldsTogether, WheelsHang, PiecesCount,
     TorqueIsCurrent, FlagsOnBody, NothingBreaksTwice, MotionInv, StopIsHeard,
     FirstUpdate, LateUpdates, Stops, MaxSlow
<1> QED
  BY <1>1, <1>2, <1>3, <1>4, <1>5, <1>6, <1>7 DEF Next

LEMMA Invariance == Spec => []IInv
BY InitInv, StepInv, PTL DEF Spec

\* Every variable of a World keeps its type (car.h:48-69), whatever breaks.
THEOREM TypeCorrect == Spec => []TypeOK
<1>1. IInv => TypeOK
  BY DEF IInv, PartsInv
<1> QED
  BY <1>1, Invariance, PTL

\* No NULL fixture is destroyed and no spring twice (car.cpp:24, 36, 50, 147,
\* 156), for any car and any contacts.
THEOREM NothingIsDestroyedTwice == Spec => []NothingBreaksTwice
<1>1. IInv => NothingBreaksTwice
  BY DEF IInv
<1> QED
  BY <1>1, Invariance, PTL

\* The pieces, the wheels and their counters agree after every break
\* (car.cpp:19-43).
THEOREM CarsHoldTogether == Spec => []CarHoldsTogether
<1>1. IInv => CarHoldsTogether
  BY DEF IInv, PartsInv
<1> QED
  BY <1>1, Invariance, PTL

\* The motors have the torque for what is left of the car (car.cpp:179-188).
THEOREM TorquesAreCurrent == Spec => []TorqueIsCurrent
<1>1. IInv => TorqueIsCurrent
  BY DEF IInv, PartsInv
<1> QED
  BY <1>1, Invariance, PTL

\* No stop is emitted before World::init has connected it (world.cpp:115-116).
THEOREM StopsAreHeard == Spec => []StopIsHeard
<1>1. IInv => StopIsHeard
  BY DEF IInv, MotionInv
<1> QED
  BY <1>1, Invariance, PTL

\* A car that has stopped stays stopped with its score (car.cpp:163-176),
\* however long the player goes on with it.
THEOREM CarsStayStopped == Spec => StaysStopped
<1>1. IInv /\ [Next]_vars
        => [stopped /\ cars' = cars => stopped' /\ maxPossition' = maxPossition]_vars
  <2> SUFFICES ASSUME IInv, Next, stopped, cars' = cars
               PROVE  stopped' /\ maxPossition' = maxPossition
    BY DEF vars
  <2>1. CASE UpdateEnds
    BY <2>1, UpdateEndsInv DEF IInv, PartsInv
  <2>2. CASE SetGene
    BY <2>2 DEF SetGene, IInv, PartsInv, TypeOK
  <2>3. CASE PieceBreaks \/ PieceHolds \/ AxleBreaks \/ AxleHolds
    BY <2>3 DEF PieceBreaks, PieceHolds, AxleBreaks, AxleHolds, score
  <2>4. CASE Step \/ PostSolve \/ Moved \/ Return
    BY <2>4 DEF Step, PostSolve, Moved, Return, score
  <2> QED
    BY <2>1, <2>2, <2>3, <2>4 DEF Next
<1> QED
  BY <1>1, Invariance, PTL DEF Spec, StaysStopped

--------------------------------------------------------------------------------

\* The inductive invariant: `waiting` is a flag.
AskInv == waiting \in BOOLEAN /\ OneRequest

\* rebuildLayout() asks for genes only while nothing is under way.
LEMMA RebuildKeeps ==
    ASSUME NEW left, NEW on, NEW force, NEW wait \in BOOLEAN, NEW open,
           open = IF wait THEN 1 ELSE 0,
           Rebuild(left, on, force, wait, open)
    PROVE  waiting' \in BOOLEAN /\ requests' = IF waiting' THEN 1 ELSE 0
<1>1. PICK st \in {Served(left, on, finished, force)} :
        /\ waiting' = (wait \/ Asks(st.left, wait))
        /\ requests' = open + (IF Asks(st.left, wait) THEN 1 ELSE 0)
  BY DEF Rebuild
<1> DEFINE ask == Asks(st.left, wait)
<1>2. wait => ~ ask
  BY DEF Asks
<1>3. waiting' = (wait \/ ask) /\ requests' = open + (IF ask THEN 1 ELSE 0)
  BY <1>1
<1>4. ask \in BOOLEAN
  BY DEF Asks
<1> HIDE DEF ask
<1>5. CASE wait = TRUE
  <2>1. ask = FALSE /\ open = 1
    BY <1>2, <1>4, <1>5
  <2>2. waiting' = TRUE
    BY <1>3, <1>5, <2>1, Zenon
  <2>3. requests' = 1 + 0
    BY <1>3, <2>1, Zenon
  <2>4. requests' = 1
    BY <2>3
  <2> QED
    BY <2>2, <2>4, Zenon
<1>6. CASE wait = FALSE /\ ask = TRUE
  <2>1. open = 0
    BY <1>6
  <2>2. waiting' = TRUE
    BY <1>3, <1>6, Zenon
  <2>3. requests' = 0 + 1
    BY <1>3, <1>6, <2>1, Zenon
  <2>4. requests' = 1
    BY <2>3
  <2> QED
    BY <2>2, <2>4, Zenon
<1>7. CASE wait = FALSE /\ ask = FALSE
  <2>1. open = 0
    BY <1>7
  <2>2. waiting' = FALSE
    BY <1>3, <1>7, Zenon
  <2>3. requests' = 0 + 0
    BY <1>3, <1>7, <2>1, Zenon
  <2>4. requests' = 0
    BY <2>3
  <2> QED
    BY <2>2, <2>4, Zenon
<1> QED
  BY <1>4, <1>5, <1>6, <1>7

LEMMA AskInit == PlayerInit => AskInv
BY DEF PlayerInit, AskInv, OneRequest

LEMMA AskNext == AskInv /\ [PlayerNext]_playerVars => AskInv'
<1> SUFFICES ASSUME AskInv, [PlayerNext]_playerVars PROVE AskInv'
  OBVIOUS
<1>1. CASE Build \/ Timeout \/ Reset
  BY <1>1, RebuildKeeps DEF Build, Timeout, Reset, AskInv, OneRequest
<1>2. ASSUME NEW k \in Answers, Reply(k)
      PROVE  AskInv'
  <2>1. ~ crashed /\ requests > 0
        /\ Rebuild(Ranks(k), [s \in Son |-> Nothing], FALSE, FALSE, requests - 1)
    BY <1>2 DEF Reply
  <2>2. requests - 1 = 0
    BY <2>1 DEF AskInv, OneRequest
  <2> QED
    BY <2>1, <2>2, RebuildKeeps DEF AskInv, OneRequest
<1>3. ASSUME NEW k \in Answers, ReplyEarly(k)
      PROVE  AskInv'
  <2>1. requests = 1
    BY <1>3 DEF ReplyEarly, AskInv, OneRequest
  <2>2. PICK ask \in BOOLEAN : /\ waiting' = ask
                               /\ requests' = requests - 1 + (IF ask THEN 1 ELSE 0)
    BY <1>3 DEF ReplyEarly, Asks
  <2> QED
    BY <2>1, <2>2 DEF AskInv, OneRequest
<1>4. ASSUME NEW s \in Son, CarStops(s)
      PROVE  AskInv'
  BY <1>4 DEF CarStops, AskInv, OneRequest
<1>5. CASE UNCHANGED playerVars
  BY <1>5 DEF playerVars, AskInv, OneRequest
<1> QED
  BY <1>1, <1>2, <1>3, <1>4, <1>5 DEF PlayerNext

\* The player never has two requests under way, nor forgets one: not in the dialogs of
\* its constructor, not when an answer fails or is too short (rebuildLayout, finished).
THEOREM RequestsAreSingle == PlayerSpec => []OneRequest
BY AskInit, AskNext, PTL DEF PlayerSpec, AskInv

LEMMA QuotientIsLess ==
    ASSUME NEW a \in Nat, NEW b \in Nat, NEW c \in Nat \ {0}, a < b * c
    PROVE  a \div c \in Nat /\ a \div c < b
<1>1. a \div c \in Nat /\ c * (a \div c) <= a
  OBVIOUS
<1> DEFINE q == a \div c
<1> HIDE DEF q
<1>2. c * q < b * c /\ q \in Nat
  BY <1>1 DEF q
<1>3. ~ (q >= b)
  <2> SUFFICES ASSUME q >= b PROVE FALSE
    OBVIOUS
  <2>1. PICK d \in Nat : q = b + d
    <3>1. q - b \in Nat /\ q = b + (q - b)
      BY <1>2
    <3> QED
      BY <3>1
  <2>2. c * q = b * c + c * d /\ c * d \in Nat
    BY <2>1
  <2> QED
    BY <1>2, <2>2
<1> QED
  BY <1>1, <1>2, <1>3 DEF q

LEMMA PickIsInside ==
    ASSUME NEW left \in Seq(Nat), left # <<>>, NEW id \in Son
    PROVE  Pick(left, id) \in 1 .. Len(left)
<1> DEFINE L == Len(left)
<1> USE PlayerAssumption
<1>1. L \in Nat /\ L > 0 /\ id \in Nat /\ id < Rows * Columns /\ Rows * Columns \in Nat
  BY DEF Son
<1> HIDE DEF L
<1>2. L * id \in Nat /\ L * id < L * (Rows * Columns)
  BY <1>1
<1>3. L * (Rows * Columns) = (L * Columns) * Rows /\ L * Columns \in Nat
  BY <1>1
<1>4. (L * id) \div Rows \in Nat /\ (L * id) \div Rows < L * Columns
  BY <1>2, <1>3, QuotientIsLess
<1>5. ((L * id) \div Rows) \div Columns \in Nat /\ ((L * id) \div Rows) \div Columns < L
  BY <1>1, <1>4, QuotientIsLess
<1> QED
  BY <1>1, <1>5 DEF Pick, L


(***************************************************************************)
(* One round of rebuildLayout().                                           *)
(***************************************************************************)
NoneTwice(left, on) ==
    /\ \A i, j \in DOMAIN left : i # j => left[i] # left[j]
    /\ \A s, t \in Son : s # t /\ on[s] = on[t] => on[s] = Nothing
    /\ \A s \in Son : \A k \in DOMAIN left : left[k] # on[s]

Layouts == [left : Seq(Nat \ {0}), on : [Son -> Nat], done : [Son -> BOOLEAN]]
GoodLayouts == {st \in Layouts : NoneTwice(st.left, st.on)}

LEMMA ServeIsGood ==
    ASSUME NEW st \in GoodLayouts, NEW id \in Son, NEW force
    PROVE  Serve(st, id, force) \in GoodLayouts
<1>1. CASE ~ (st.left # <<>> /\ (st.done[id] \/ force))
  <2>1. Serve(st, id, force) = st
    BY <1>1 DEF Serve
  <2> QED
    BY <2>1
<1>2. CASE st.left # <<>> /\ (st.done[id] \/ force)
  <2> DEFINE p == Pick(st.left, id)
             left == Taken(st.left, id)
             on == [st.on EXCEPT ![id] = st.left[p]]
             done == [st.done EXCEPT ![id] = FALSE]
  <2>1. /\ st.left \in Seq(Nat \ {0}) /\ st.left \in Seq(Nat) /\ st.on \in [Son -> Nat]
        /\ st.done \in [Son -> BOOLEAN] /\ NoneTwice(st.left, st.on)
    BY DEF GoodLayouts, Layouts
  <2>2. p \in 1 .. Len(st.left)
    BY <1>2, <2>1, PickIsInside
  <2>3. left = RemoveAt(st.left, p)
    BY DEF Taken
  <2>4. Serve(st, id, force) = [left |-> left, on |-> on, done |-> done]
    BY <1>2, Zenon DEF Serve
  <2> HIDE DEF p, left
  <2>5. /\ left \in Seq(Nat \ {0})
        /\ \A i \in DOMAIN left :
                left[i] = st.left[IF i < p THEN i ELSE i + 1]
                /\ (IF i < p THEN i ELSE i + 1) \in DOMAIN st.left /\ i \in Nat
    BY <2>1, <2>2, <2>3, RemoveAtFacts
  <2>6. st.left[p] \in Nat \ {0} /\ p \in DOMAIN st.left
    BY <2>1, <2>2
  <2>7. on \in [Son -> Nat] /\ done \in [Son -> BOOLEAN]
    BY <2>1, <2>6
  <2>8. NoneTwice(left, on)
    <3>1. ASSUME NEW i \in DOMAIN left, NEW j \in DOMAIN left, i # j
          PROVE  left[i] # left[j]
      <4>1. (IF i < p THEN i ELSE i + 1) # (IF j < p THEN j ELSE j + 1)
        BY <2>2, <2>5, <3>1
      <4> QED
        BY <2>1, <2>5, <4>1, SMTT(20) DEF NoneTwice
    <3>2. ASSUME NEW k \in DOMAIN left
          PROVE  left[k] # st.left[p] /\ \A s \in Son : left[k] # st.on[s]
      <4>1. (IF k < p THEN k ELSE k + 1) # p
        BY <2>2, <2>5
      <4> QED
        BY <2>1, <2>5, <2>6, <4>1, SMTT(20) DEF NoneTwice
    <3>3. \A s \in Son : on[s] = IF s = id THEN st.left[p] ELSE st.on[s]
      BY <2>1
    <3>4. \A s \in Son : st.on[s] # st.left[p]
      BY <2>1, <2>6 DEF NoneTwice
    <3> HIDE DEF on
    <3>5. \A s, t \in Son : s # t /\ on[s] = on[t] => on[s] = Nothing
      BY <2>1, <3>3, <3>4 DEF NoneTwice
    <3> QED
      BY <3>1, <3>2, <3>3, <3>5 DEF NoneTwice
  <2> HIDE DEF on, done
  <2> QED
    BY <2>4, <2>5, <2>7, <2>8 DEF GoodLayouts, Layouts
<1> QED
  BY <1>1, <1>2

Each(after, st, force) ==
    [k \in 0 .. Rows * Columns |-> IF k = 0 THEN st ELSE Serve(after[k - 1], k - 1, force)]

LEMMA ServedIsGood ==
    ASSUME NEW left, NEW on, NEW done, NEW force,
           [left |-> left, on |-> on, done |-> done] \in GoodLayouts
    PROVE  Served(left, on, done, force) \in GoodLayouts
<1> DEFINE st == [left |-> left, on |-> on, done |-> done]
           M == Rows * Columns
           after == CHOOSE f : f = Each(f, st, force)
           step == [x \in (0 .. M) \X GoodLayouts |->
                        IF x[1] \in Son THEN Serve(x[2], x[1], force) ELSE x[2]]
<1>1. Served(left, on, done, force) = after[M]
  BY Zenon DEF Served, Each
<1>2. M \in Nat /\ Son = 0 .. M - 1
  BY PlayerAssumption DEF Son
<1>3. st \in GoodLayouts
  OBVIOUS
<1> HIDE DEF st, M
<1>4. step \in [(0 .. M) \X GoodLayouts -> GoodLayouts]
  BY ServeIsGood
<1>5. \A k \in 0 .. M - 1, x \in GoodLayouts : step[<<k, x>>] = Serve(x, k, force)
  BY <1>2
<1> HIDE DEF step
<1>6. PICK f \in [0 .. M -> GoodLayouts] : Iterates(f, M, st, step)
  BY <1>2, <1>3, <1>4, RecursionExists
<1>7. f = Each(f, st, force)
  <2>1. \A k \in 0 .. M : k # 0 => step[<<k - 1, f[k - 1]>>] = Serve(f[k - 1], k - 1, force)
    <3> SUFFICES ASSUME NEW k \in 0 .. M, k # 0
                 PROVE  step[<<k - 1, f[k - 1]>>] = Serve(f[k - 1], k - 1, force)
      OBVIOUS
    <3>1. k - 1 \in 0 .. M - 1 /\ k - 1 \in 0 .. M
      BY <1>2
    <3>2. f[k - 1] \in GoodLayouts
      BY <1>6, <3>1
    <3> QED
      BY <1>5, <3>1, <3>2
  <2> QED
    BY <1>6, <2>1 DEF Each, M, Iterates
<1>8. after = Each(after, st, force)
  BY <1>7
<1> HIDE DEF after
<1>9. \A k \in 0 .. M : after[k] = IF k = 0 THEN st ELSE Serve(after[k - 1], k - 1, force)
  BY <1>8 DEF Each, M
<1> DEFINE T == {k \in 0 .. M : after[k] \in GoodLayouts}
<1>10. 0 \in T
  BY <1>2, <1>3, <1>9
<1>11. ASSUME NEW k \in 0 .. M - 1, k \in T
       PROVE  k + 1 \in T
  <2>1. k + 1 \in 0 .. M /\ k + 1 # 0 /\ k + 1 - 1 = k /\ k \in Son
    BY <1>2
  <2>2. after[k + 1] = Serve(after[k], k, force)
    BY <1>9, <2>1
  <2>3. after[k] \in GoodLayouts
    BY <1>11
  <2> QED
    BY <2>1, <2>2, <2>3, ServeIsGood
<1> HIDE DEF T
<1>12. 0 .. M \subseteq T
  BY <1>2, <1>10, <1>11, InductionUpTo
<1> QED
  BY <1>1, <1>2, <1>12 DEF T

(***************************************************************************)
(* The steps.                                                              *)
(***************************************************************************)
GenesInv ==
    /\ [left |-> genes, on |-> shows, done |-> finished] \in GoodLayouts
    /\ ~ built => \A s \in Son : shows[s] = Nothing

LEMMA RebuildIsGood ==
    ASSUME NEW left, NEW on, NEW force, NEW wait, NEW open,
           [left |-> left, on |-> on, done |-> finished] \in GoodLayouts,
           Rebuild(left, on, force, wait, open)
    PROVE  [left |-> genes', on |-> shows', done |-> finished'] \in GoodLayouts
<1>1. PICK st \in {Served(left, on, finished, force)} :
        genes' = st.left /\ shows' = st.on /\ finished' = st.done
  BY DEF Rebuild
<1>2. st \in GoodLayouts
  BY <1>1, ServedIsGood
<1>3. st = [left |-> st.left, on |-> st.on, done |-> st.done]
  BY <1>2 DEF GoodLayouts, Layouts
<1> QED
  BY <1>1, <1>2, <1>3

LEMMA RanksAreGood ==
    ASSUME GenesInv, NEW k \in Answers, NEW on \in [Son -> Nat], \A s \in Son : on[s] = Nothing
    PROVE  [left |-> Ranks(k), on |-> on, done |-> finished] \in GoodLayouts
<1>1. finished \in [Son -> BOOLEAN]
  BY DEF GenesInv, GoodLayouts, Layouts
<1>2. k \in Nat
  BY PlayerAssumption
<1>3. Ranks(k) \in Seq(Nat \ {0}) /\ DOMAIN Ranks(k) = 1 .. k
      /\ \A i \in 1 .. k : Ranks(k)[i] = i
  BY <1>2 DEF Ranks
<1>4. NoneTwice(Ranks(k), on)
  BY <1>2, <1>3 DEF NoneTwice, Nothing
<1> QED
  BY <1>1, <1>3, <1>4 DEF GoodLayouts, Layouts

LEMMA GenesStep ==
    ASSUME GenesInv, [PlayerNext]_playerVars
    PROVE  GenesInv'
<1>1. CASE Build \/ Timeout \/ Reset
  <2>1. built'
    <3>1. Build => built'
      BY Zenon DEF Build
    <3>2. Timeout \/ Reset => built /\ UNCHANGED <<built, crashed>>
      BY Zenon DEF Timeout, Reset
    <3> QED
      BY <1>1, <3>1, <3>2
  <2>2. \/ Rebuild(genes, shows, FALSE, waiting, requests)
        \/ Rebuild(genes, shows, TRUE, waiting, requests)
    BY <1>1, Zenon DEF Build, Timeout, Reset
  <2> QED
    BY <2>1, <2>2, RebuildIsGood DEF GenesInv
<1>2. ASSUME NEW k \in Answers, Reply(k)
      PROVE  GenesInv'
  <2> DEFINE on == [s \in Son |-> Nothing]
  <2>1. built' /\ Rebuild(Ranks(k), on, FALSE, FALSE, requests - 1)
    BY <1>2 DEF Reply
  <2>2. on \in [Son -> Nat] /\ \A s \in Son : on[s] = Nothing
    BY DEF Nothing
  <2> HIDE DEF on
  <2>3. [left |-> Ranks(k), on |-> on, done |-> finished] \in GoodLayouts
    BY <2>2, RanksAreGood
  <2> QED
    BY <2>1, <2>3, RebuildIsGood DEF GenesInv
<1>3. ASSUME NEW k \in Answers, ReplyEarly(k)
      PROVE  GenesInv'
  <2>1. genes' = Ranks(k) /\ ~ built /\ UNCHANGED <<built, shows, finished>>
    BY <1>3 DEF ReplyEarly
  <2>2. shows \in [Son -> Nat] /\ \A s \in Son : shows[s] = Nothing
    BY <2>1 DEF GenesInv, GoodLayouts, Layouts
  <2>3. [left |-> Ranks(k), on |-> shows, done |-> finished] \in GoodLayouts
    BY <2>2, RanksAreGood
  <2> QED
    BY <2>1, <2>2, <2>3 DEF GenesInv
<1>4. ASSUME NEW s \in Son, CarStops(s)
      PROVE  GenesInv'
  <2>1. UNCHANGED <<built, genes, shows>> /\ finished' = [finished EXCEPT ![s] = TRUE]
    BY <1>4 DEF CarStops
  <2> QED
    BY <2>1 DEF GenesInv, GoodLayouts, Layouts
<1>5. CASE UNCHANGED playerVars
  BY <1>5 DEF playerVars, GenesInv
<1> QED
  BY <1>1, <1>2, <1>3, <1>4, <1>5 DEF PlayerNext

(* However windows and timers come, no entry of one answer is given to two *)
(* windows, nor kept in the list once given, for grids of any size         *)
(* (Dialog::rebuildLayout, getGene).                                       *)
THEOREM EntriesAreGivenOnce == PlayerSpec => []NoEntryIsGivenTwice
<1>1. PlayerInit => GenesInv
  BY DEF PlayerInit, GenesInv, GoodLayouts, Layouts, NoneTwice, Nothing
<1>2. GenesInv => NoEntryIsGivenTwice
  BY DEF GenesInv, GoodLayouts, NoneTwice, NoEntryIsGivenTwice
<1> QED
  BY <1>1, <1>2, GenesStep, PTL DEF PlayerSpec

--------------------------------------------------------------------------------

(***************************************************************************)
(* Genes as text: what is written is what is read.                         *)
(***************************************************************************)

\* The first k of L pieces of W digits each, one after the other.
Joined(text, f, k, W) ==
    /\ Len(text) = k * W
    /\ \A i \in 1 .. k, j \in 1 .. W : text[(i - 1) * W + j] = f[i][j]

\* Digit j of piece i is in the text.
LEMMA PositionInText ==
    ASSUME NEW k \in Nat, NEW W \in Nat \ {0}, NEW i \in 1 .. k, NEW j \in 1 .. W
    PROVE  (i - 1) * W + j \in 1 .. k * W
<1>1. PICK d \in Nat : k = i + d
  <2>1. k - i \in Nat /\ k = i + (k - i)
    OBVIOUS
  <2> QED
    BY <2>1
<1>2. d * W \in Nat /\ i * W \in Nat /\ (i - 1) * W \in Nat
  OBVIOUS
<1>3. k * W = i * W + d * W
  BY <1>1
<1>4. (i - 1) * W = i * W - W
  OBVIOUS
<1> QED
  BY <1>2, <1>3, <1>4

\* A piece more.
LEMMA JoinOneMore ==
    ASSUME NEW D, NEW W \in Nat \ {0}, NEW L \in Nat, NEW f \in [1 .. L -> [1 .. W -> D]],
           NEW k \in 0 .. L - 1, NEW text \in Seq(D), Joined(text, f, k, W)
    PROVE  Joined(text \o f[k + 1], f, k + 1, W) /\ text \o f[k + 1] \in Seq(D)
<1>1. f[k + 1] \in Seq(D) /\ Len(f[k + 1]) = W /\ k + 1 \in 1 .. L
  BY FunctionIsSeq
<1>2. k * W \in Nat /\ (k + 1) * W = k * W + W
  OBVIOUS
<1>3. Len(text) = k * W
  BY DEF Joined
<1>4. text \o f[k + 1] \in Seq(D) /\ Len(text \o f[k + 1]) = (k + 1) * W
  <2>1. text \o f[k + 1] \in Seq(D) /\ Len(text \o f[k + 1]) = Len(text) + W
    BY <1>1, ConcatProperties
  <2> QED
    BY <1>2, <1>3, <2>1
<1>5. ASSUME NEW i \in 1 .. k + 1, NEW j \in 1 .. W
      PROVE  (text \o f[k + 1])[(i - 1) * W + j] = f[i][j]
  <2>1. CASE i \in 1 .. k
    <3>1. (i - 1) * W + j \in 1 .. k * W
      <4>1. k \in Nat
        OBVIOUS
      <4> QED
        BY <2>1, <4>1, PositionInText
    <3> DEFINE p == (i - 1) * W + j
    <3>2. p \in 1 .. Len(text)
      BY <1>3, <3>1
    <3>3. text[p] = f[i][j]
      BY <2>1 DEF Joined
    <3> HIDE DEF p
    <3>4. p \in 1 .. Len(text) + Len(f[k + 1]) /\ p <= Len(text)
      BY <1>1, <3>2
    <3>5. (text \o f[k + 1])[p] = text[p]
      BY <1>1, <3>4, ConcatProperties
    <3> QED
      BY <3>3, <3>5 DEF p
  <2>2. CASE i = k + 1
    <3>1. (i - 1) * W + j = k * W + j
      BY <2>2
    <3>2. (text \o f[k + 1])[Len(text) + j] = f[k + 1][j]
      BY <1>1, SecondOfTwo
    <3> QED
      BY <1>3, <2>2, <3>1, <3>2
  <2>3. i \in 1 .. k \/ i = k + 1
    OBVIOUS
  <2> QED
    BY <2>1, <2>2, <2>3
<1> QED
  BY <1>4, <1>5 DEF Joined

\* The text of pieces of one length: digit j of piece i is where reading looks for it.
LEMMA FlattenedText ==
    ASSUME NEW D, NEW W \in Nat \ {0}, NEW L \in Nat \ {0},
           NEW f \in [1 .. L -> [1 .. W -> D]]
    PROVE  FlattenSeq(f) \in Seq(D) /\ Joined(FlattenSeq(f), f, L, W)
<1>1. f \in Seq(Seq(D)) /\ Len(f) = L
  <2>1. f \in [1 .. L -> Seq(D)]
    BY FunctionIsSeq
  <2> QED
    BY <2>1, FunctionIsSeq
<1> DEFINE flat == CHOOSE g : Flattens(g, f)
<1>2. FlattenSeq(f) = flat[L]
  BY <1>1, Zenon DEF FlattenSeq, Flattens
<1>3. Flattens(flat, f)
  BY <1>1, FlatteningExists
<1> HIDE DEF flat
<1>4. flat = [i \in 1 .. L |-> IF i = 1 THEN f[i] ELSE flat[i - 1] \o f[i]]
  BY <1>1, <1>3 DEF Flattens
<1> DEFINE T == {k \in Nat : k + 1 \in 1 .. L =>
                     flat[k + 1] \in Seq(D) /\ Joined(flat[k + 1], f, k + 1, W)}
<1>5. 0 \in T
  <2>1. <<>> \in Seq(D) /\ Joined(<<>>, f, 0, W)
    BY DEF Joined
  <2>2. flat[1] = f[1] /\ f[1] \in Seq(D) /\ <<>> \o f[1] = f[1]
    <3>1. flat[1] = f[1]
      BY <1>4
    <3> QED
      BY <3>1, FunctionIsSeq, ConcatEmptySeq
  <2>3. 0 \in 0 .. L - 1
    OBVIOUS
  <2>4. Joined(<<>> \o f[0 + 1], f, 0 + 1, W)
    BY <2>1, <2>3, JoinOneMore
  <2> QED
    BY <2>2, <2>4
<1>6. \A k \in T \cap Nat : k + 1 \in T
  <2> SUFFICES ASSUME NEW k \in Nat, k \in T, k + 1 + 1 \in 1 .. L
               PROVE  /\ flat[k + 1 + 1] \in Seq(D)
                      /\ Joined(flat[k + 1 + 1], f, k + 1 + 1, W)
    OBVIOUS
  <2>1. flat[k + 1] \in Seq(D) /\ Joined(flat[k + 1], f, k + 1, W)
    OBVIOUS
  <2>2. flat[k + 1 + 1] = flat[k + 1] \o f[k + 1 + 1]
    <3>1. ASSUME NEW x \in 1 .. L, x # 1
          PROVE  flat[x] = flat[x - 1] \o f[x]
      BY <1>4, <3>1
    <3> DEFINE m == k + 1 + 1
    <3>2. m \in 1 .. L /\ m # 1 /\ m - 1 = k + 1
      OBVIOUS
    <3> HIDE DEF m, T
    <3>3. flat[m] = flat[m - 1] \o f[m]
      BY <3>1, <3>2
    <3>4. flat[m] = flat[k + 1] \o f[m]
      BY <3>2, <3>3
    <3> QED
      BY <3>4 DEF m
  <2>3. k + 1 \in 0 .. L - 1
    OBVIOUS
  <2>4. /\ flat[k + 1] \o f[k + 1 + 1] \in Seq(D)
        /\ Joined(flat[k + 1] \o f[k + 1 + 1], f, k + 1 + 1, W)
    <3> HIDE DEF T
    <3> QED
      BY <2>1, <2>3, JoinOneMore
  <2> QED
    BY <2>2, <2>4
<1> HIDE DEF T
<1>7. L - 1 \in T
  BY <1>5, <1>6, Induction
<1> QED
  BY <1>2, <1>7 DEF T

\* There is a number of digits that `hex` needs.
LEMMA NeededDigits ==
    ASSUME NEW n \in Bits
    PROVE  Needed(n) \in 1 .. Width
<1> DEFINE fits == {w \in 1 .. Width : \A j \in 1 .. Width - w : n[j] = 0}
<1>1. Width \in Nat \ {0} /\ fits \subseteq Nat
  BY GeneAssumption
<1>2. Width \in fits
  BY <1>1
<1>3. PICK w \in fits : \A v \in fits : w <= v
  <2> HIDE DEF fits
  <2> QED
    BY <1>1, <1>2, LeastElement
<1>4. w > 1 => n[Width - w + 1] # 0
  <2> SUFFICES ASSUME w > 1, n[Width - w + 1] = 0 PROVE FALSE
    OBVIOUS
  <2>1. w - 1 \in 1 .. Width
    BY <1>1
  <2>2. ASSUME NEW j \in 1 .. Width - (w - 1)
        PROVE  n[j] = 0
    <3>1. j \in 1 .. Width - w \/ j = Width - w + 1
      BY <1>1
    <3> QED
      BY <3>1
  <2>3. w - 1 \in fits
    BY <2>1, <2>2
  <2> QED
    BY <1>1, <1>3, <2>3
<1>5. \E v \in 1 .. Width : /\ \A j \in 1 .. Width - v : n[j] = 0
                            /\ v > 1 => n[Width - v + 1] # 0
  BY <1>4
<1> QED
  BY <1>5 DEF Needed

\* A text of Width digits for every number but the first, too, is the digits as they are.
LEMMA EvenText ==
    ASSUME NEW c \in Chrome, ~ Ragged(c)
    PROVE  chrome_to_gene(c) = FlattenSeq(c)
<1> DEFINE needs(i) == IF i = 1 THEN Width ELSE Needed(c[i])
<1>1. ASSUME NEW i \in Position
      PROVE  Digits(c[i], needs(i)) = c[i]
  <2>1. c[i] \in Bits /\ Width \in Nat \ {0}
    BY GeneAssumption DEF Chrome
  <2>2. needs(i) = Width
    <3>1. Needed(c[i]) \in 1 .. Width
      BY <2>1, NeededDigits
    <3> QED
      BY <2>1, <3>1 DEF Ragged
  <2>3. c[i] \in Seq(0 .. Base - 1) /\ Len(c[i]) = Width
    BY <2>1, FunctionIsSeq DEF Bits
  <2>4. Width - Width + 1 = 1
    BY <2>1
  <2>5. SubSeq(c[i], 1, Len(c[i])) = c[i]
    BY <2>3, SubSeqFull
  <2> QED
    BY <2>2, <2>3, <2>4, <2>5 DEF Digits
<1>2. [i \in Position |-> Digits(c[i], needs(i))] = [i \in Position |-> c[i]]
  BY <1>1
<1>3. [i \in Position |-> c[i]] = c
  BY DEF Chrome
<1> QED
  BY <1>2, <1>3 DEF chrome_to_gene

\* Such a text reads back as the chrome.
LEMMA ReadsBack ==
    ASSUME NEW c \in Chrome, ~ Ragged(c)
    PROVE  /\ Decodable(chrome_to_gene(c))
           /\ gene_to_chrome(chrome_to_gene(c)) = c
<1> DEFINE D == 0 .. Base - 1  L == CHROME_LEN  W == Width  text == FlattenSeq(c)
<1>1. L \in Nat \ {0} /\ W \in Nat \ {0} /\ c \in [1 .. L -> [1 .. W -> D]]
  BY GeneAssumption DEF Chrome, Position, Bits
<1>2. text \in Seq(D) /\ Joined(text, c, L, W)
  <2> HIDE DEF D, L, W
  <2> QED
    BY <1>1, FlattenedText
<1> HIDE DEF text
<1>3. Len(text) = L * W /\ L * W \in Nat
  BY <1>1, <1>2 DEF Joined
<1>4. Decodable(text)
  <2>1. (L - 1) * W = L * W - W
    BY <1>1
  <2> QED
    BY <1>1, <1>3, <2>1 DEF Decodable
<1>5. ASSUME NEW i \in Position
      PROVE  Value(SubSeq(text, (i - 1) * W + 1, Upto(i * W, Len(text)))) = c[i]
  <2> DEFINE a == (i - 1) * W
             piece == SubSeq(text, a + 1, i * W)
  <2>0. i \in 1 .. L
    BY DEF Position
  <2>1. a \in Nat /\ i * W = a + W
    BY <1>1, <2>0
  <2>2. i * W <= Len(text)
    <3>1. W \in 1 .. W
      BY <1>1
    <3>2. (i - 1) * W + W \in 1 .. L * W
      BY <1>1, <2>0, <3>1, PositionInText
    <3> QED
      BY <1>3, <2>1, <3>2
  <2>3. Upto(i * W, Len(text)) = i * W
    BY <1>1, <1>3, <2>0, <2>1, <2>2 DEF Upto
  <2>4. /\ Len(piece) = W
        /\ \A j \in 1 .. W : piece[j] = text[a + j]
    <3> HIDE DEF a
    <3>1. a + 1 \in Int /\ i * W \in Int /\ i * W - (a + 1) + 1 = W /\ a + 1 <= i * W
      BY <1>1, <2>1
    <3>2. \A p \in a + 1 .. i * W : text[p] \in D
      <4>1. \A p \in 1 .. Len(text) : text[p] \in D
        BY <1>2, ElementOfSeq
      <4>2. Len(text) \in Nat /\ a \in Nat
        BY <1>3, <2>1
      <4>3. \A p \in a + 1 .. i * W : p \in 1 .. Len(text)
        BY <2>2, <3>1, <4>2
      <4> QED
        BY <4>1, <4>3
    <3>3. /\ Len(piece) = i * W - (a + 1) + 1
          /\ \A j \in 1 .. i * W - (a + 1) + 1 : piece[j] = text[a + 1 + j - 1]
      BY <3>1, <3>2, SubSeqProperties
    <3>4. \A j \in 1 .. W : a + 1 + j - 1 = a + j
      BY <2>1
    <3> QED
      BY <3>1, <3>3, <3>4
  <2>5. \A j \in 1 .. W : text[a + j] = c[i][j]
    BY <1>2, <2>0 DEF Joined
  <2>6. \A j \in 1 .. W : piece[j] = c[i][j]
    BY <2>4, <2>5
  <2> HIDE DEF a, piece
  <2>7. Value(piece) = [j \in 1 .. W |-> piece[j]]
    <3>1. Width - Len(piece) = 0
      BY <1>1, <2>4
    <3>2. \A j \in 1 .. W : ~ (j <= 0) /\ j - 0 = j
      BY <1>1
    <3> QED
      BY <3>1, <3>2 DEF Value
  <2>8. c[i] = [j \in 1 .. W |-> c[i][j]]
    BY <1>1, <2>0
  <2>9. Value(piece) = c[i]
    BY <2>6, <2>7, <2>8
  <2> QED
    BY <2>3, <2>9 DEF piece, a
<1>6. gene_to_chrome(text) = [i \in Position |-> c[i]]
  BY <1>5 DEF gene_to_chrome
<1>7. [i \in Position |-> c[i]] = c
  BY <1>1 DEF Position
<1>8. chrome_to_gene(c) = text
  BY EvenText DEF text
<1> QED
  BY <1>4, <1>6, <1>7, <1>8

\* As long as no number with a leading zero was written after the first.
GeneInv ==
    ~ ragged =>
        /\ ~ thrown
        /\ \A s \in Slots :
            meant[s] \in Chrome /\ ~ Ragged(meant[s]) /\ gene[s] = chrome_to_gene(meant[s])

\* Every slot has its gene.
ShapeInv == DOMAIN gene = Slots /\ DOMAIN meant = Slots

\* Storing a chrome keeps both ...
LEMMA StoreKeeps ==
    ASSUME ShapeInv, GeneInv, NEW t \in Slots, NEW c, ~ ragged => c \in Chrome, Store(t, c)
    PROVE  ShapeInv' /\ GeneInv'
<1>1. ShapeInv'
  BY DEF ShapeInv, Store
<1>2. ASSUME ~ ragged', NEW s \in Slots
      PROVE  /\ ~ thrown'
             /\ meant'[s] \in Chrome /\ ~ Ragged(meant'[s])
             /\ gene'[s] = chrome_to_gene(meant'[s])
  <2>1. ~ ragged /\ ~ Ragged(c) /\ c \in Chrome /\ thrown' = thrown
    BY <1>2, Zenon DEF Store
  <2>2. /\ gene' = [gene EXCEPT ![t] = chrome_to_gene(c)]
        /\ meant' = [meant EXCEPT ![t] = c]
    BY DEF Store
  <2>3. CASE s = t
    <3>1. gene'[s] = chrome_to_gene(c) /\ meant'[s] = c
      BY <2>2, <2>3 DEF ShapeInv
    <3> QED
      BY <2>1, <3>1 DEF GeneInv
  <2>4. CASE s # t
    <3>1. gene'[s] = gene[s] /\ meant'[s] = meant[s]
      BY <2>2, <2>4 DEF ShapeInv
    <3> QED
      BY <2>1, <3>1 DEF GeneInv
  <2> QED
    BY <2>3, <2>4
<1>3. ~ ragged' => ~ thrown'
  BY DEF Store, GeneInv
<1> QED
  BY <1>1, <1>2, <1>3 DEF GeneInv

\* ... they hold of the first genes ...
LEMMA GeneInitInv == GeneInit => ShapeInv /\ GeneInv
<1> SUFFICES ASSUME NEW c \in initial,
                    gene = [s \in Slots |-> chrome_to_gene(c)],
                    meant = [s \in Slots |-> c], ragged = Ragged(c), thrown = FALSE
             PROVE  ShapeInv /\ GeneInv
  BY DEF GeneInit
<1>1. c \in Chrome
  BY DEF initial, Chrome, Drawn
<1> QED
  BY <1>1 DEF ShapeInv, GeneInv

\* ... and every step keeps them.
LEMMA GeneNextInv == ShapeInv /\ GeneInv /\ [GeneNext]_geneVars => ShapeInv' /\ GeneInv'
<1> SUFFICES ASSUME ShapeInv, GeneInv, [GeneNext]_geneVars PROVE ShapeInv' /\ GeneInv'
  OBVIOUS
<1>1. ASSUME ~ ragged, NEW s \in Slots
      PROVE  Decodable(gene[s]) /\ gene_to_chrome(gene[s]) = meant[s] /\ meant[s] \in Chrome
  BY <1>1, ReadsBack DEF GeneInv
<1>2. ASSUME NEW s \in Slots, NEW t \in Slots, mutate(s, t)
      PROVE  ShapeInv' /\ GeneInv'
  <2>1. PICK i \in Position, x \in Drawn :
            Store(t, [gene_to_chrome(gene[s]) EXCEPT ![i] = x])
    BY <1>2 DEF mutate
  <2>2. ASSUME ~ ragged
        PROVE  [gene_to_chrome(gene[s]) EXCEPT ![i] = x] \in Chrome
    <3>1. x \in Bits
      BY DEF Drawn
    <3>2. gene_to_chrome(gene[s]) \in [Position -> Bits]
      BY <1>1, <2>2 DEF Chrome
    <3> QED
      BY <3>1, <3>2 DEF Chrome
  <2> DEFINE c == [gene_to_chrome(gene[s]) EXCEPT ![i] = x]
  <2> HIDE DEF c
  <2>3. Store(t, c) /\ (~ ragged => c \in Chrome)
    BY <2>1, <2>2, Zenon DEF c
  <2> QED
    BY <2>3, StoreKeeps
<1>3. ASSUME NEW s1 \in Slots, NEW s2 \in Slots, NEW t \in Slots, combine(s1, s2, t)
      PROVE  ShapeInv' /\ GeneInv'
  <2>1. PICK l \in Position, r \in Position :
            Store(t, [i \in Position |-> IF i \in Span(l, r) THEN gene_to_chrome(gene[s2])[i]
                                         ELSE gene_to_chrome(gene[s1])[i]])
    BY <1>3 DEF combine
  <2> DEFINE c == [i \in Position |-> IF i \in Span(l, r) THEN gene_to_chrome(gene[s2])[i]
                                      ELSE gene_to_chrome(gene[s1])[i]]
  <2>2. ASSUME ~ ragged
        PROVE  c \in Chrome
    <3>1. /\ gene_to_chrome(gene[s1]) \in [Position -> Bits]
          /\ gene_to_chrome(gene[s2]) \in [Position -> Bits]
      BY <1>1, <2>2 DEF Chrome
    <3> QED
      BY <3>1 DEF Chrome
  <2> HIDE DEF c
  <2>3. Store(t, c) /\ (~ ragged => c \in Chrome)
    BY <2>1, <2>2, Zenon DEF c
  <2> QED
    BY <2>3, StoreKeeps
<1>4. ASSUME NEW s \in Slots, Crash(s)
      PROVE  ShapeInv' /\ GeneInv'
  <2>1. ragged
    BY <1>1, <1>4 DEF Crash
  <2>2. ragged' = ragged /\ gene' = gene /\ meant' = meant
    BY <1>4 DEF Crash
  <2> QED
    BY <2>1, <2>2 DEF ShapeInv, GeneInv
<1>5. CASE UNCHANGED geneVars
  BY <1>5 DEF geneVars, ShapeInv, GeneInv
<1> QED
  BY <1>2, <1>3, <1>4, <1>5 DEF GeneNext

\* As long as no float with a leading zero digit was written after the first, every gene
\* reads back as the chrome it was written from and nothing throws, however long the
\* chromes are and however often they are mutated and combined (engine.cpp:73-89).
THEOREM GenesAreReadBack == GeneSpec => []GenesReadBack
<1>1. GeneInv => GenesReadBack
  BY ReadsBack DEF GeneInv, GenesReadBack
<1> QED
  BY <1>1, GeneInitInv, GeneNextInv, PTL DEF GeneSpec

================================================================================
