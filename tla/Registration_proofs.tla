------------------------- MODULE Registration_proofs -------------------------
(***************************************************************************)
(* Proofs about Registration: one row per person and one card per kit,     *)
(* whatever transactions overlap; what the answer of a registration means; *)
(* and that transactions never wait for each other in a circle.            *)
(***************************************************************************)
EXTENDS Registration, ConnectionPool, FiniteSetTheorems, SequenceTheorems, TLAPS

USE RegistrationAssumption

-----------------------------------------------------------------------------
(* The programs, and where their steps are.                                *)

Registers(k) == k \in {"registerUser", "aadhaarVerifyOtp"}

\* The steps that both registrations have are at the same place.
Place(k, i) == IF k = "registerUser" THEN i ELSE i + 1

Is(k, i, step) == i <= Len(Program[k]) /\ Program[k][i] = step

Past(k, i, step) == \E j \in 1..(i - 1) : Program[k][j] = step

LEMMA Kinds ==
  DOMAIN Program = {"registerUser", "aadhaarVerifyOtp", "createVirtualAccount",
                    "populateKitNumbersFromJSON", "createKitNumber", "validateUserCardAssignment"}
BY DEF Program

StepNames ==
  {"findPerson", "findReferrer", "insertUser", "findKit", "saveKit", "insertCard", "commit",
   "queueReferral", "findAccount", "createAtProvider", "saveAccount"}

LEMMA Joined ==
  ASSUME NEW p \in Seq(StepNames), NEW q \in Seq(StepNames), NEW n \in Nat, NEW m \in Nat,
         Len(p) = n, Len(q) = m
  PROVE  /\ Len(p \o q) = n + m
         /\ \A i \in 1..n : (p \o q)[i] = p[i]
         /\ \A i \in 1..m : (p \o q)[n + i] = q[i]
<1>1. /\ Len(p \o q) = n + m
      /\ \A i \in 1..(n + m) : (p \o q)[i] = IF i <= n THEN p[i] ELSE q[i - n]
  BY ConcatProperties
<1> QED  BY <1>1

LEMMA NewProgram ==
  LET p == registerUserNew
  IN /\ p \in Seq(StepNames) /\ Len(p) = 7
     /\ p[1] = "findReferrer" /\ p[2] = "insertUser" /\ p[3] = "findKit" /\ p[4] = "saveKit"
     /\ p[5] = "insertCard" /\ p[6] = "commit" /\ p[7] = "queueReferral"
BY DEF registerUserNew, StepNames

LEMMA RegisterProgram ==
  LET p == Program["registerUser"]
  IN /\ Len(p) = 8
     /\ p[1] = "findPerson" /\ p[2] = "findReferrer" /\ p[3] = "insertUser" /\ p[4] = "findKit"
     /\ p[5] = "saveKit" /\ p[6] = "insertCard" /\ p[7] = "commit" /\ p[8] = "queueReferral"
<1> DEFINE q == <<"findPerson">>
<1>1. q \in Seq(StepNames) /\ Len(q) = 1 /\ q[1] = "findPerson" /\ 1 \in Nat /\ 7 \in Nat
  BY DEF StepNames
<1>2. registerUserNew \in Seq(StepNames) /\ Len(registerUserNew) = 7
  BY NewProgram
<1>3. Program["registerUser"] = q \o registerUserNew
  BY DEF Program, registerUser
<1> HIDE DEF q
<1>4. /\ Len(q \o registerUserNew) = 1 + 7
      /\ \A i \in 1..1 : (q \o registerUserNew)[i] = q[i]
      /\ \A i \in 1..7 : (q \o registerUserNew)[1 + i] = registerUserNew[i]
  BY <1>1, <1>2, Joined, ZenonT(60)
<1> DEFINE r == q \o registerUserNew
<1>5. Len(r) = 8 /\ r[1] = "findPerson"
  BY <1>1, <1>4
<1>6. \A i \in 1..7 : r[1 + i] = registerUserNew[i]
  BY <1>4
<1> HIDE DEF r
<1>7. r[2] = registerUserNew[1] /\ r[3] = registerUserNew[2] /\ r[4] = registerUserNew[3]
  BY <1>6
<1>8. r[5] = registerUserNew[4] /\ r[6] = registerUserNew[5] /\ r[7] = registerUserNew[6]
  BY <1>6
<1>9. r[8] = registerUserNew[7]
  BY <1>6
<1> USE DEF r
<1> QED  BY <1>3, <1>5, <1>7, <1>8, <1>9, NewProgram, ZenonT(30)

LEMMA AadhaarProgram ==
  LET p == Program["aadhaarVerifyOtp"]
  IN /\ Len(p) = 10
     /\ p[1] = "findReferrer" /\ p[2] = "insertUser" /\ p[3] = "findKit" /\ p[4] = "saveKit"
     /\ p[5] = "insertCard" /\ p[6] = "commit" /\ p[7] = "queueReferral"
     /\ p[8] = "findAccount" /\ p[9] = "createAtProvider" /\ p[10] = "saveAccount"
<1>1. LET q == createVirtualAccount
      IN /\ q \in Seq(StepNames) /\ Len(q) = 3 /\ 7 \in Nat /\ 3 \in Nat
         /\ q[1] = "findAccount" /\ q[2] = "createAtProvider" /\ q[3] = "saveAccount"
  BY DEF createVirtualAccount, StepNames
<1>2. registerUserNew \in Seq(StepNames) /\ Len(registerUserNew) = 7
  BY NewProgram
<1>3. Program["aadhaarVerifyOtp"] = registerUserNew \o createVirtualAccount
  BY DEF Program, aadhaarVerifyOtp
<1>4. /\ Len(registerUserNew \o createVirtualAccount) = 7 + 3
      /\ \A i \in 1..7 : (registerUserNew \o createVirtualAccount)[i] = registerUserNew[i]
      /\ \A i \in 1..3 : (registerUserNew \o createVirtualAccount)[7 + i] = createVirtualAccount[i]
  BY <1>1, <1>2, Joined, ZenonT(60)
<1> DEFINE r == registerUserNew \o createVirtualAccount
<1>5. Len(r) = 10
  BY <1>4
<1>6. /\ \A i \in 1..7 : r[i] = registerUserNew[i]
      /\ \A i \in 1..3 : r[7 + i] = createVirtualAccount[i]
  BY <1>4
<1> HIDE DEF r
<1>7. r[1] = "findReferrer" /\ r[2] = "insertUser" /\ r[3] = "findKit" /\ r[4] = "saveKit"
  BY <1>6, NewProgram
<1>8. r[5] = "insertCard" /\ r[6] = "commit" /\ r[7] = "queueReferral"
  BY <1>6, NewProgram
<1>9. r[8] = "findAccount" /\ r[9] = "createAtProvider" /\ r[10] = "saveAccount"
  BY <1>1, <1>6
<1> USE DEF r
<1> QED  BY <1>3, <1>5, <1>7, <1>8, <1>9, ZenonT(30)

LEMMA OtherPrograms ==
  /\ Program["createVirtualAccount"] = <<"findAccount", "createAtProvider", "saveAccount">>
  /\ Program["populateKitNumbersFromJSON"] = <<"findNumber", "saveNumber">>
  /\ Program["createKitNumber"] = <<"saveNumber">>
  /\ Program["validateUserCardAssignment"] = <<"findCard", "activateCard">>
BY DEF Program, createVirtualAccount, populateKitNumbersFromJSON, createKitNumber,
       validateUserCardAssignment

LEMMA Places ==
  ASSUME NEW k \in DOMAIN Program, NEW i \in Nat \ {0}, i <= Len(Program[k]) + 1
  PROVE  /\ Is(k, i, "insertUser") <=> Registers(k) /\ Place(k, i) = 3
         /\ Is(k, i, "findKit") <=> Registers(k) /\ Place(k, i) = 4
         /\ Is(k, i, "saveKit") <=> Registers(k) /\ Place(k, i) = 5
         /\ Is(k, i, "insertCard") <=> Registers(k) /\ Place(k, i) = 6
         /\ Is(k, i, "commit") <=> Registers(k) /\ Place(k, i) = 7
         /\ Is(k, i, "queueReferral") <=> Registers(k) /\ Place(k, i) = 8
         /\ Is(k, i, "findAccount") <=> \/ k = "aadhaarVerifyOtp" /\ i = 8
                                        \/ k = "createVirtualAccount" /\ i = 1
         /\ Is(k, i, "createAtProvider") <=> \/ k = "aadhaarVerifyOtp" /\ i = 9
                                             \/ k = "createVirtualAccount" /\ i = 2
         /\ Is(k, i, "saveAccount") <=> \/ k = "aadhaarVerifyOtp" /\ i = 10
                                        \/ k = "createVirtualAccount" /\ i = 3
         /\ Is(k, i, "findNumber") <=> k = "populateKitNumbersFromJSON" /\ i = 1
         /\ Is(k, i, "saveNumber") <=> \/ k = "populateKitNumbersFromJSON" /\ i = 2
                                       \/ k = "createKitNumber" /\ i = 1
<1> USE DEF Is, Registers, Place
<1>1. CASE k = "registerUser"
  BY <1>1, RegisterProgram
<1>2. CASE k = "aadhaarVerifyOtp"
  BY <1>2, AadhaarProgram
<1>3. CASE k = "createVirtualAccount"
  <2>1. Program[k] = <<"findAccount", "createAtProvider", "saveAccount">>
    BY <1>3, OtherPrograms
  <2> QED  BY <1>3, <2>1
<1>4. CASE k = "populateKitNumbersFromJSON"
  <2>1. Program[k] = <<"findNumber", "saveNumber">>
    BY <1>4, OtherPrograms
  <2> QED  BY <1>4, <2>1
<1>5. CASE k = "createKitNumber"
  <2>1. Program[k] = <<"saveNumber">>
    BY <1>5, OtherPrograms
  <2> QED  BY <1>5, <2>1
<1>6. CASE k = "validateUserCardAssignment"
  <2>1. Program[k] = <<"findCard", "activateCard">>
    BY <1>6, OtherPrograms
  <2> QED  BY <1>6, <2>1
<1> QED  BY <1>1, <1>2, <1>3, <1>4, <1>5, <1>6, Kinds

LEMMA PlacesPast ==
  ASSUME NEW k \in DOMAIN Program, NEW i \in Nat \ {0}, i <= Len(Program[k]) + 1
  PROVE  /\ Past(k, i, "insertUser") <=> Registers(k) /\ Place(k, i) > 3
         /\ Past(k, i, "findKit") <=> Registers(k) /\ Place(k, i) > 4
         /\ Past(k, i, "saveKit") <=> Registers(k) /\ Place(k, i) > 5
         /\ Past(k, i, "insertCard") <=> Registers(k) /\ Place(k, i) > 6
         /\ Past(k, i, "commit") <=> Registers(k) /\ Place(k, i) > 7
         /\ Past(k, i, "queueReferral") <=> Registers(k) /\ Place(k, i) > 8
<1> USE DEF Past, Registers, Place
<1>1. CASE k = "registerUser"
  BY <1>1, RegisterProgram
<1>2. CASE k = "aadhaarVerifyOtp"
  BY <1>2, AadhaarProgram
<1>3. CASE k = "createVirtualAccount"
  <2>1. Program[k] = <<"findAccount", "createAtProvider", "saveAccount">>
    BY <1>3, OtherPrograms
  <2> QED  BY <1>3, <2>1
<1>4. CASE k = "populateKitNumbersFromJSON"
  <2>1. Program[k] = <<"findNumber", "saveNumber">>
    BY <1>4, OtherPrograms
  <2> QED  BY <1>4, <2>1
<1>5. CASE k = "createKitNumber"
  <2>1. Program[k] = <<"saveNumber">>
    BY <1>5, OtherPrograms
  <2> QED  BY <1>5, <2>1
<1>6. CASE k = "validateUserCardAssignment"
  <2>1. Program[k] = <<"findCard", "activateCard">>
    BY <1>6, OtherPrograms
  <2> QED  BY <1>6, <2>1
<1> QED  BY <1>1, <1>2, <1>3, <1>4, <1>5, <1>6, Kinds

LEMMA Lengths ==
  ASSUME NEW k \in DOMAIN Program
  PROVE  /\ Len(Program[k]) \in Nat \ {0}
         /\ k = "registerUser" => Len(Program[k]) = 8
         /\ k = "aadhaarVerifyOtp" => Len(Program[k]) = 10
         /\ k = "createVirtualAccount" => Len(Program[k]) = 3
<1>1. CASE k = "registerUser"
  BY <1>1, RegisterProgram
<1>2. CASE k = "aadhaarVerifyOtp"
  BY <1>2, AadhaarProgram
<1>3. CASE k = "createVirtualAccount"
  <2>1. Program[k] = <<"findAccount", "createAtProvider", "saveAccount">>
    BY <1>3, OtherPrograms
  <2> QED  BY <1>3, <2>1
<1>4. CASE k = "populateKitNumbersFromJSON"
  <2>1. Program[k] = <<"findNumber", "saveNumber">>
    BY <1>4, OtherPrograms
  <2> QED  BY <1>4, <2>1
<1>5. CASE k = "createKitNumber"
  <2>1. Program[k] = <<"saveNumber">>
    BY <1>5, OtherPrograms
  <2> QED  BY <1>5, <2>1
<1>6. CASE k = "validateUserCardAssignment"
  <2>1. Program[k] = <<"findCard", "activateCard">>
    BY <1>6, OtherPrograms
  <2> QED  BY <1>6, <2>1
<1> QED  BY <1>1, <1>2, <1>3, <1>4, <1>5, <1>6, Kinds

-----------------------------------------------------------------------------
(* How a step moves its task, and leaves the others where they are.        *)

Kind(t) == op[t].kind

LEMMA Typed ==
  ASSUME TypeOK, Placed, NEW t \in Tasks
  PROVE  /\ op[t] \in Operations /\ Kind(t) \in DOMAIN Program /\ op[t].person \in Persons
         /\ op[t].number \in Numbers
         /\ pc[t] \in Nat \ {0} /\ pc[t] <= Len(Program[Kind(t)]) + 1
BY DEF TypeOK, Placed, Kind

LEMMA AtIs ==
  ASSUME NEW t, NEW step
  PROVE  /\ At(t, step) <=> t \notin over /\ Is(Kind(t), pc[t], step)
         /\ Did(t, step) <=> Past(Kind(t), pc[t], step)
BY DEF At, Running, Did, Is, Past, Kind

\* A task goes to the next step, to the end of its program, or gives up.
Moved(t) ==
  \/ Advance(t)
  \/ Answer(t) /\ At(t, "findAccount")
  \/ Refuse(t)

LEMMA StepMoves ==
  ASSUME NEW t \in Tasks, Step(t)
  PROVE  Moved(t) /\ Running(t)
<1>1. CASE \/ findPerson(t) \/ findReferrer(t) \/ insertUser(t) \/ findKit(t) \/ saveKit(t)
           \/ insertCard(t) \/ commit(t) \/ queueReferral(t)
  BY <1>1 DEF findPerson, findReferrer, insertUser, findKit, saveKit, insertCard, commit,
              queueReferral, Moved, At
<1>2. CASE findAccount(t)
  BY <1>2 DEF findAccount, Moved, At
<1>3. CASE \/ createAtProvider(t) \/ saveAccount(t) \/ findNumber(t) \/ saveNumber(t)
           \/ findCard(t) \/ activateCard(t) \/ fail(t)
  BY <1>3 DEF createAtProvider, ProviderFails, saveAccount, findNumber, saveNumber, findCard,
              activateCard, fail, Moved, At
<1> QED  BY <1>1, <1>2, <1>3 DEF Step

LEMMA Positions ==
  ASSUME TypeOK, Placed, NEW t \in Tasks, Step(t), NEW s \in Tasks
  PROVE  /\ op' = op /\ Kind(s)' = Kind(s) /\ pc'[s] \in Nat \ {0}
         /\ pc'[s] <= Len(Program[Kind(s)]) + 1
         /\ s # t => pc'[s] = pc[s] /\ (s \in over' <=> s \in over)
         /\ \/ t \in over' /\ pc' = pc
            \/ t \notin over' /\ pc'[t] = pc[t] + 1
            \/ t \notin over' /\ At(t, "findAccount") /\ pc'[t] = Len(Program[Kind(t)]) + 1
<1>1. Moved(t) /\ Running(t)
  BY StepMoves
<1>2. Len(Program[Kind(t)]) \in Nat \ {0}
  BY Typed, Lengths
<1>3. pc[t] <= Len(Program[Kind(t)]) /\ t \notin over
  BY <1>1 DEF Running, Kind
<1>4. Kind(s)' = Kind(s) /\ op' = op
  BY <1>1 DEF Moved, Advance, Answer, Refuse, Kind
<1>5. CASE Advance(t)
  BY <1>2, <1>3, <1>4, <1>5, Typed DEF Advance, TypeOK
<1>6. CASE Answer(t) /\ At(t, "findAccount")
  BY <1>2, <1>3, <1>4, <1>6, Typed DEF Answer, TypeOK, Kind
<1>7. CASE Refuse(t)
  BY <1>2, <1>3, <1>4, <1>7, Typed DEF Refuse, TypeOK
<1> QED  BY <1>1, <1>5, <1>6, <1>7 DEF Moved

Marks == {"insertUser", "findKit", "saveKit", "insertCard", "commit", "queueReferral"}

\* What a task has done after a step.
LEMMA DidNext ==
  ASSUME TypeOK, Placed, NEW t \in Tasks, Step(t), NEW s \in Tasks, NEW step \in Marks
  PROVE  Did(s, step)' <=> Did(s, step) \/ (s = t /\ At(t, step) /\ t \notin over')
<1> DEFINE k == Kind(s)
<1>1. k \in DOMAIN Program /\ pc[s] \in Nat \ {0} /\ pc[s] <= Len(Program[k]) + 1
  BY Typed
<1>2. pc'[s] \in Nat \ {0} /\ pc'[s] <= Len(Program[k]) + 1 /\ Kind(s)' = k
  BY Positions
<1>3. /\ Did(s, step) <=> Past(k, pc[s], step)
      /\ Did(s, step)' <=> Past(k, pc'[s], step)
  BY <1>2 DEF Did, Past, Kind
<1>4. At(t, step) <=> t \notin over /\ Is(Kind(t), pc[t], step)
  BY AtIs
<1>5. t \notin over
  BY StepMoves DEF Running
<1>6. CASE s # t
  BY <1>3, <1>6, Positions
<1>7. CASE s = t /\ t \in over'
  BY <1>3, <1>5, <1>7, Positions
<1>8. CASE s = t /\ t \notin over' /\ pc'[t] = pc[t] + 1
  <2> HIDE DEF k
  <2>1. Past(k, pc'[s], step) <=> Past(k, pc[s], step) \/ Is(k, pc[s], step)
    <3>1. pc[s] <= Len(Program[k])
      BY <1>8, StepMoves DEF Running, k, Kind
    <3> QED  BY <1>1, <1>8, <3>1 DEF Past, Is
  <2> QED  BY <1>3, <1>4, <1>5, <1>8, <2>1 DEF k
<1>9. CASE s = t /\ t \notin over' /\ At(t, "findAccount") /\ pc'[t] = Len(Program[Kind(t)]) + 1
  <2> HIDE DEF k
  <2>1. Is(k, pc[s], "findAccount")
    BY <1>9, AtIs DEF k
  <2>2. \/ k = "aadhaarVerifyOtp" /\ pc[s] = 8 /\ pc'[s] = 11
        \/ k = "createVirtualAccount" /\ pc[s] = 1 /\ pc'[s] = 4
    <3>1. pc'[s] = Len(Program[k]) + 1
      BY <1>9 DEF k
    <3>2. \/ k = "aadhaarVerifyOtp" /\ pc[s] = 8
          \/ k = "createVirtualAccount" /\ pc[s] = 1
      BY <1>1, <2>1, Places
    <3>3. CASE k = "aadhaarVerifyOtp"
      <4>1. Len(Program[k]) = 10
        BY <1>1, <3>3, Lengths
      <4> QED  BY <3>1, <3>2, <3>3, <4>1
    <3>4. CASE k = "createVirtualAccount"
      <4>1. Len(Program[k]) = 3
        BY <1>1, <3>4, Lengths
      <4> QED  BY <3>1, <3>2, <3>4, <4>1
    <3> QED  BY <3>2, <3>3, <3>4
  <2>3. Past(k, pc'[s], step) <=> Past(k, pc[s], step)
    BY <1>1, <1>2, <2>2, PlacesPast DEF Marks, Registers, Place
  <2>4. ~Is(k, pc[s], step)
    BY <2>1 DEF Is, Marks
  <2> QED  BY <1>3, <1>4, <1>9, <2>3, <2>4 DEF k
<1> QED  BY <1>6, <1>7, <1>8, <1>9, Positions

\* The other tasks are where they were, and what they had done.
LEMMA OthersStay ==
  ASSUME TypeOK, Placed, NEW t \in Tasks, Step(t), NEW s \in Tasks \ {t}, NEW step
  PROVE  /\ At(s, step)' <=> At(s, step)
         /\ Did(s, step)' <=> Did(s, step)
         /\ Writing(s, step)' <=> Writing(s, step)
BY Positions DEF At, Running, Did, Writing, Kind

\* Where a task was when it arrives at a step.
LEMMA Arrivals ==
  ASSUME TypeOK, Placed, NEW t \in Tasks, Step(t)
  PROVE  /\ At(t, "commit")' => At(t, "insertCard") /\ t \notin over'
         /\ At(t, "createAtProvider")' => At(t, "findAccount") /\ t \notin over'
         /\ At(t, "saveAccount")' => At(t, "createAtProvider") /\ t \notin over'
         /\ At(t, "saveNumber")' /\ Kind(t) = "populateKitNumbersFromJSON" =>
              At(t, "findNumber") /\ t \notin over'
<1> DEFINE k == Kind(t)
<1>1. k \in DOMAIN Program /\ pc[t] \in Nat \ {0} /\ pc[t] <= Len(Program[k]) + 1
  BY Typed
<1>2. pc'[t] \in Nat \ {0} /\ pc'[t] <= Len(Program[k]) + 1 /\ Kind(t)' = k
  BY Positions
<1>3. \A step : /\ At(t, step) <=> t \notin over /\ Is(k, pc[t], step)
                /\ At(t, step)' <=> t \notin over' /\ Is(k, pc'[t], step)
  BY <1>2 DEF At, Running, Is, Kind
<1>4. t \notin over
  BY StepMoves DEF Running
<1> HIDE DEF k
<1>5. CASE t \in over'
  BY <1>3, <1>5
<1>6. CASE t \notin over' /\ pc'[t] = pc[t] + 1
  <2>1. /\ Is(k, pc'[t], "commit") => Is(k, pc[t], "insertCard")
        /\ Is(k, pc'[t], "createAtProvider") => Is(k, pc[t], "findAccount")
        /\ Is(k, pc'[t], "saveAccount") => Is(k, pc[t], "createAtProvider")
        /\ Is(k, pc'[t], "saveNumber") /\ k = "populateKitNumbersFromJSON" =>
             Is(k, pc[t], "findNumber")
    BY <1>1, <1>2, <1>6, Places DEF Place, Registers
  <2> QED  BY <1>3, <1>4, <1>6, <2>1 DEF k
<1>7. CASE t \notin over' /\ pc'[t] = Len(Program[k]) + 1
  <2>1. \A step : ~Is(k, pc'[t], step)
    BY <1>1, <1>7, Lengths DEF Is
  <2> QED  BY <1>3, <2>1
<1> QED  BY <1>5, <1>6, <1>7, Positions DEF k

\* A task at a step takes it, or is refused and nothing else is changed.
Gone(t) == t \in over' /\ UNCHANGED rest

LEMMA StepTaken ==
  ASSUME NEW t \in Tasks, Step(t)
  PROVE  \/ Gone(t)
         \/ insertUser(t) /\ ~Taken(t)
         \/ findKit(t) /\ Advance(t)
         \/ saveKit(t)
         \/ insertCard(t) /\ ~HasCard(kit[t])
         \/ commit(t) \/ queueReferral(t) \/ findAccount(t) \/ saveAccount(t)
         \/ findNumber(t) /\ ~Stored(op[t].number)
         \/ saveNumber(t) \/ activateCard(t)
         \/ /\ \E step \in {"findPerson", "findReferrer", "createAtProvider", "findCard"} :
                 At(t, step)
            /\ UNCHANGED rest
<1>1. CASE findPerson(t) \/ findReferrer(t) \/ createAtProvider(t) \/ findCard(t)
  BY <1>1 DEF findPerson, findReferrer, createAtProvider, findCard
<1>2. CASE insertUser(t) \/ insertCard(t) \/ findNumber(t)
  BY <1>2 DEF insertUser, insertCard, findNumber, Refuse, Gone
<1>3. CASE findKit(t)
  BY <1>3 DEF findKit, Refuse, Gone, rest, history
<1>4. CASE fail(t)
  BY <1>4 DEF fail, Refuse, Gone
<1> QED  BY <1>1, <1>2, <1>3, <1>4 DEF Step

\* A task is at one step, and what a step changes.
LEMMA OneStep ==
  ASSUME NEW t, NEW a, NEW b, At(t, a), At(t, b)
  PROVE  a = b
BY DEF At

LEMMA Frame ==
  ASSUME NEW t \in Tasks, Step(t)
  PROVE  /\ (users' = users /\ assigned' = assigned) \/ commit(t)
         /\ (kits' = kits /\ doubled' = doubled) \/ saveNumber(t)
         /\ (kit' = kit /\ contended' = contended) \/ (findKit(t) /\ Advance(t))
         /\ accounts' = accounts \/ saveAccount(t)
         /\ queued' = queued \/ queueReferral(t)
         /\ raced' = raced \/ findAccount(t)
         /\ active' = active \/ activateCard(t)
<1> USE DEF rest, history
<1>1. CASE \/ findPerson(t) \/ findReferrer(t) \/ insertUser(t) \/ saveKit(t) \/ insertCard(t)
           \/ createAtProvider(t) \/ findNumber(t) \/ findCard(t) \/ fail(t)
  BY <1>1 DEF findPerson, findReferrer, insertUser, saveKit, insertCard, createAtProvider,
              findNumber, findCard, fail
<1>2. CASE \/ commit(t) \/ queueReferral(t) \/ findAccount(t) \/ saveAccount(t)
           \/ saveNumber(t) \/ activateCard(t)
  BY <1>2 DEF commit, queueReferral, findAccount, saveAccount, saveNumber, activateCard
<1>3. CASE findKit(t)
  BY <1>3 DEF findKit
<1> QED  BY <1>1, <1>2, <1>3 DEF Step

LEMMA TakenAt ==
  ASSUME NEW t \in Tasks, Step(t), t \notin over'
  PROVE  /\ At(t, "insertUser") => insertUser(t) /\ ~Taken(t)
         /\ At(t, "findKit") => findKit(t) /\ Advance(t)
         /\ At(t, "saveKit") => saveKit(t)
         /\ At(t, "insertCard") => insertCard(t) /\ ~HasCard(kit[t])
         /\ At(t, "commit") => commit(t)
         /\ At(t, "queueReferral") => queueReferral(t)
         /\ At(t, "findAccount") => findAccount(t)
         /\ At(t, "saveAccount") => saveAccount(t)
         /\ At(t, "findNumber") => findNumber(t) /\ ~Stored(op[t].number)
         /\ At(t, "saveNumber") => saveNumber(t)
<1>1. /\ insertUser(t) => At(t, "insertUser")
      /\ findKit(t) => At(t, "findKit")
      /\ saveKit(t) => At(t, "saveKit")
      /\ insertCard(t) => At(t, "insertCard")
      /\ commit(t) => At(t, "commit")
      /\ queueReferral(t) => At(t, "queueReferral")
      /\ findAccount(t) => At(t, "findAccount")
      /\ saveAccount(t) => At(t, "saveAccount")
      /\ findNumber(t) => At(t, "findNumber")
      /\ saveNumber(t) => At(t, "saveNumber")
      /\ activateCard(t) => At(t, "activateCard")
  BY DEF insertUser, findKit, saveKit, insertCard, commit, queueReferral, findAccount,
         saveAccount, findNumber, saveNumber, activateCard
<1>2. PICK step \in {"insertUser", "findKit", "saveKit", "insertCard", "commit", "queueReferral",
                     "findAccount", "saveAccount", "findNumber", "saveNumber", "activateCard",
                     "findPerson", "findReferrer", "createAtProvider", "findCard"} : At(t, step)
  BY <1>1, StepTaken DEF Gone
<1>3. \A other : At(t, other) => other = step
  BY <1>2, OneStep
<1> QED  BY <1>1, <1>2, <1>3, StepTaken DEF Gone

-----------------------------------------------------------------------------
(* The parts of the invariant, one by one.                                 *)

LEMMA TypeNext ==
  ASSUME IInv, NEW t \in Tasks, Step(t)
  PROVE  TypeOK' /\ Placed'
<1> USE DEF IInv
<1>1. Owner(t) \subseteq users
  BY DEF Owner
<1>2. /\ op' = op /\ pc' \in [Tasks -> Nat \ {0}] /\ over' \subseteq Tasks
  <2>1. Len(Program[op[t].kind]) + 1 \in Nat \ {0}
    BY Lengths, Typed DEF Kind
  <2>2. CASE Advance(t)
    BY <2>2 DEF Advance, TypeOK
  <2>3. CASE Answer(t)
    BY <2>1, <2>3 DEF Answer, TypeOK
  <2>4. CASE Refuse(t)
    BY <2>4 DEF Refuse, TypeOK
  <2> QED  BY <2>2, <2>3, <2>4, StepMoves DEF Moved
<1>3. Placed'
  <2>1. \A s \in Tasks : pc'[s] <= Len(Program[op'[s].kind]) + 1
    BY Positions DEF Kind
  <2>2. ASSUME NEW s \in over' PROVE pc'[s] <= Len(Program[op'[s].kind])
    <3>1. s \in Tasks
      BY <1>2
    <3>2. CASE s \in over
      <4>1. s # t
        BY <3>2, StepMoves DEF Running
      <4> QED  BY <1>2, <3>1, <3>2, <4>1, Positions DEF Placed
    <3>3. CASE s \notin over
      <4>1. s = t /\ pc' = pc
        BY <2>2, <3>1, <3>3, Positions
      <4> QED  BY <1>2, <4>1, StepMoves DEF Running
    <3> QED  BY <3>2, <3>3
  <2> QED  BY <2>1, <2>2 DEF Placed
<1>4. users \subseteq users' /\ users' \subseteq Tasks
  BY Frame DEF commit, TypeOK
<1>5. kits \subseteq kits' /\ kits' \subseteq Kits /\ doubled' \subseteq Numbers
  BY Frame, Typed DEF saveNumber, TypeOK, Kits
<1>6. kit' \in [Tasks -> Kits \cup {NoKit}] /\ contended' \subseteq Tasks
  <2>1. ASSUME NEW k \in Free, kit' = [kit EXCEPT ![t] = k]
        PROVE  kit' \in [Tasks -> Kits \cup {NoKit}]
    BY <2>1 DEF Free, TypeOK
  <2>2. \A k : Contenders(t, k) \cup {t} \subseteq Tasks
    BY DEF Contenders
  <2> QED  BY <2>1, <2>2, Frame DEF findKit, TypeOK
<1>7. assigned' \subseteq kits'
  <2>1. CASE commit(t)
    <3>1. At(t, "commit") /\ t \notin over /\ kits' = kits /\ assigned' = assigned \cup {kit[t]}
      BY <2>1, AtIs DEF commit
    <3>2. Did(t, "findKit")
      BY <3>1, Typed, AtIs, Places, PlacesPast
    <3> QED  BY <3>1, <3>2 DEF KitsUnique, TypeOK
  <2> QED  BY <1>5, <2>1, Frame DEF TypeOK
<1>8. active' \subseteq users'
  BY <1>1, <1>4, Frame DEF activateCard, TypeOK
<1>9. accounts' \subseteq [user : users', phone : Phones, by : Tasks]
  BY <1>1, <1>4, Frame, Typed DEF saveAccount, TypeOK
<1>10. queued' \subseteq Tasks
  BY Frame DEF queueReferral, TypeOK
<1>11. raced' \subseteq Persons \X Phones
  BY Frame, Typed DEF findAccount, Wanted, TypeOK
<1> QED  BY <1>2, <1>3, <1>4, <1>5, <1>6, <1>7, <1>8, <1>9, <1>10, <1>11 DEF TypeOK

\* Two rows of a person are never written, let alone committed.
LEMMA UsersNext ==
  ASSUME IInv, NEW t \in Tasks, Step(t)
  PROVE  UsersUnique'
<1> USE DEF IInv
<1>1. users' = {s \in Tasks : Did(s, "commit")'}
  <2>1. \A s \in Tasks : Did(s, "commit")' <=> Did(s, "commit") \/ (s = t /\ At(t, "commit") /\ t \notin over')
    BY DidNext DEF Marks
  <2>2. commit(t) => t \notin over' /\ At(t, "commit")
    BY AtIs DEF commit, Advance
  <2>3. users' = users \cup {s \in {t} : At(t, "commit") /\ t \notin over'}
    BY <2>2, Frame, TakenAt DEF commit
  <2> QED  BY <2>1, <2>3 DEF UsersUnique, TypeOK
<1>2. ASSUME NEW a \in Tasks, Inserted(a)'
      PROVE  Inserted(a) \/ (a = t /\ insertUser(t) /\ ~Taken(t))
  <2>1. /\ Did(a, "insertUser")' <=> Did(a, "insertUser") \/ (a = t /\ At(t, "insertUser") /\ t \notin over')
        /\ Did(a, "commit")' <=> Did(a, "commit") \/ (a = t /\ At(t, "commit") /\ t \notin over')
    BY DidNext DEF Marks
  <2>2. over \subseteq over'
    BY StepMoves DEF Moved, Advance, Answer, Refuse
  <2>3. CASE a = t /\ At(t, "insertUser") /\ t \notin over'
    BY <2>3, TakenAt
  <2>4. CASE Did(a, "insertUser")
    BY <1>2, <2>1, <2>2, <2>4, StepMoves DEF Inserted, Running
  <2> QED  BY <1>2, <2>1, <2>3, <2>4 DEF Inserted
<1>3. ASSUME NEW s \in Tasks \ {t}, Inserted(s), op[s].person = op[t].person, insertUser(t), ~Taken(t)
      PROVE  FALSE
  <2>1. s \notin users
    BY <1>3 DEF Taken
  <2>2. Writing(s, "insertUser")
    BY <1>3, <2>1 DEF UsersUnique, Inserted, Writing
  <2>3. s \in WaitsForUser(t)
    BY <1>3, <2>2 DEF WaitsForUser, insertUser
  <2> QED  BY <1>3, <2>3 DEF insertUser
<1>4. ASSUME NEW a \in Tasks, NEW b \in Tasks, Inserted(a)', Inserted(b)', op'[a].person = op'[b].person
      PROVE  a = b
  <2>1. op' = op
    BY Positions
  <2> QED  BY <1>2, <1>3, <1>4, <2>1 DEF UsersUnique
<1> QED  BY <1>1, <1>4 DEF UsersUnique

\* What a task of the transaction has done, by where it is.
LEMMA WritingPlaces ==
  ASSUME TypeOK, Placed, NEW t \in Tasks
  PROVE  /\ Did(t, "commit") => Did(t, "insertCard")
         /\ Did(t, "insertCard") => Did(t, "saveKit")
         /\ Did(t, "saveKit") => Did(t, "findKit")
         /\ Did(t, "findKit") => Did(t, "insertUser")
         /\ Did(t, "queueReferral") => Did(t, "commit")
         /\ At(t, "insertUser") => ~Did(t, "insertUser")
         /\ At(t, "findKit") => ~Did(t, "findKit") /\ ~Did(t, "commit")
         /\ At(t, "saveKit") => Did(t, "findKit") /\ ~Did(t, "saveKit")
         /\ At(t, "insertCard") => Did(t, "saveKit") /\ ~Did(t, "insertCard") /\ ~Did(t, "commit")
         /\ At(t, "commit") => Did(t, "saveKit") /\ Did(t, "insertCard") /\ ~Did(t, "commit")
         /\ At(t, "queueReferral") => Did(t, "commit")
<1> DEFINE k == Kind(t)
           i == pc[t]
<1>1. k \in DOMAIN Program /\ i \in Nat \ {0} /\ i <= Len(Program[k]) + 1
  BY Typed
<1>2. \A step : (At(t, step) => Is(k, i, step)) /\ (Did(t, step) <=> Past(k, i, step))
  BY AtIs
<1> HIDE DEF k, i
<1>3. Place(k, i) \in Nat
  BY <1>1 DEF Place
<1> QED  BY <1>1, <1>2, <1>3, Places, PlacesPast

\* The kit of a task that has one is fixed.
LEMMA KitStays ==
  ASSUME TypeOK, Placed, NEW t \in Tasks, Step(t), NEW s \in Tasks
  PROVE  /\ Did(s, "findKit") => kit'[s] = kit[s]
         /\ s # t => kit'[s] = kit[s]
<1>1. At(t, "findKit") => ~Did(t, "findKit")
  BY WritingPlaces
<1>2. \/ kit' = kit
      \/ At(t, "findKit") /\ \E k \in Free : kit' = [kit EXCEPT ![t] = k]
  BY Frame DEF findKit
<1> QED  BY <1>1, <1>2 DEF TypeOK

LEMMA WritingNext ==
  ASSUME TypeOK, Placed, NEW t \in Tasks, Step(t), NEW s \in Tasks, NEW step \in Marks,
         Writing(s, step)'
  PROVE  Writing(s, step) \/ (s = t /\ At(t, step) /\ t \notin over')
<1>1. /\ Did(s, step)' <=> Did(s, step) \/ (s = t /\ At(t, step) /\ t \notin over')
      /\ Did(s, "commit")' <=> Did(s, "commit") \/ (s = t /\ At(t, "commit") /\ t \notin over')
  BY DidNext DEF Marks
<1>2. s \in over => s \in over'
  BY StepMoves DEF Moved, Advance, Answer, Refuse
<1> QED  BY <1>1, <1>2 DEF Writing

\* The users whose kit is k, after a step.
LEMMA HasCardNext ==
  ASSUME IInv, NEW t \in Tasks, Step(t), NEW k, \E s \in users' : kit'[s] = k
  PROVE  HasCard(k) \/ (commit(t) /\ kit[t] = k)
<1> USE DEF IInv
<1>1. PICK s \in users' : kit'[s] = k
  OBVIOUS
<1>2. s \in users \/ (commit(t) /\ s = t)
  BY <1>1, Frame DEF commit
<1>3. s \in Tasks
  BY <1>2 DEF TypeOK
<1>4. CASE s \in users
  <2>1. Did(s, "findKit")
    BY <1>3, <1>4, WritingPlaces DEF UsersUnique
  <2> QED  BY <1>1, <1>3, <1>4, <2>1, KitStays DEF HasCard
<1>5. CASE commit(t) /\ s = t
  BY <1>1, <1>5 DEF commit
<1> QED  BY <1>2, <1>4, <1>5

\* No kit gets two cards.
LEMMA KitsNext ==
  ASSUME IInv, NEW t \in Tasks, Step(t)
  PROVE  KitsUnique'
<1> USE DEF IInv
<1>0. \A s \in users : Did(s, "findKit") /\ s \in Tasks
  BY WritingPlaces DEF UsersUnique
<1>1. assigned' = {kit'[s] : s \in users'}
  <2>1. CASE commit(t)
    <3>1. users' = users \cup {t} /\ assigned' = assigned \cup {kit[t]} /\ kit' = kit
      BY <2>1 DEF commit
    <3> QED  BY <3>1 DEF KitsUnique
  <2>2. CASE users' = users /\ assigned' = assigned
    BY <1>0, <2>2, KitStays DEF KitsUnique
  <2> QED  BY <2>1, <2>2, Frame
<1>2. ASSUME NEW s \in Tasks, Did(s, "findKit")'
      PROVE  kit'[s] \in kits'
  <2>1. kits \subseteq kits'
    BY Frame DEF saveNumber
  <2>2. CASE Did(s, "findKit")
    BY <2>1, <2>2, KitStays DEF KitsUnique
  <2>3. CASE s = t /\ At(t, "findKit") /\ t \notin over'
    BY <2>1, <2>3, TakenAt DEF findKit, Free, TypeOK, Refuse
  <2> QED  BY <1>2, <2>2, <2>3, DidNext DEF Marks
<1>3. ASSUME NEW a \in Tasks, NEW b \in Tasks, Writing(a, "saveKit")', Writing(b, "saveKit")',
             kit'[a] = kit'[b]
      PROVE  a = b
  <2>1. /\ Writing(a, "saveKit") \/ (a = t /\ At(t, "saveKit") /\ t \notin over')
        /\ Writing(b, "saveKit") \/ (b = t /\ At(t, "saveKit") /\ t \notin over')
    BY <1>3, WritingNext DEF Marks
  <2>2. Did(a, "findKit") /\ Did(b, "findKit")
    BY <2>1, WritingPlaces DEF Writing
  <2>3. kit[a] = kit[b]
    BY <1>3, <2>2, KitStays
  <2>4. ASSUME NEW s \in Tasks \ {t}, Writing(s, "saveKit"), kit[s] = kit[t],
               At(t, "saveKit"), t \notin over'
        PROVE  FALSE
    <3>1. s \in WaitsForKit(t)
      BY <2>4 DEF WaitsForKit
    <3> QED  BY <2>4, <3>1, TakenAt DEF saveKit
  <2> QED  BY <2>1, <2>3, <2>4 DEF KitsUnique
<1>4. ASSUME NEW s \in Tasks, At(s, "commit")'
      PROVE  ~HasCard(kit[s])' /\ kit'[s] = kit[s]
  <2>1. CASE s = t
    <3>1. At(t, "insertCard") /\ t \notin over'
      BY <1>4, <2>1, Arrivals
    <3>2. insertCard(t) /\ ~HasCard(kit[t]) /\ kit' = kit /\ ~commit(t)
      BY <3>1, TakenAt, OneStep DEF insertCard, commit, rest
    <3> QED  BY <2>1, <3>2, HasCardNext DEF HasCard
  <2>2. CASE s # t
    <3>1. At(s, "commit")
      BY <1>4, <2>2, OthersStay
    <3>2. ~HasCard(kit[s]) /\ Writing(s, "saveKit")
      BY <3>1, WritingPlaces, AtIs DEF KitsUnique, Writing
    <3>3. commit(t) => kit[t] # kit[s]
      <4>1. commit(t) => Writing(t, "saveKit")
        BY WritingPlaces, AtIs DEF commit, Writing
      <4> QED  BY <2>2, <3>2, <4>1 DEF KitsUnique
    <3> QED  BY <2>2, <3>2, <3>3, KitStays, HasCardNext DEF HasCard
  <2> QED  BY <2>1, <2>2
<1>5. ASSUME NEW a \in users', NEW b \in users', kit'[a] = kit'[b]
      PROVE  a = b
  <2>1. CASE commit(t)
    <3>1. users' = users \cup {t} /\ kit' = kit /\ ~HasCard(kit[t])
      BY <2>1 DEF commit, KitsUnique
    <3> QED  BY <1>5, <3>1 DEF HasCard, KitsUnique
  <2>2. CASE users' = users
    BY <1>0, <1>5, <2>2, KitStays DEF KitsUnique
  <2> QED  BY <2>1, <2>2, Frame
<1> QED
  <2>1. \A s \in Tasks : At(s, "commit")' => ~HasCard(kit[s])'
    BY <1>4
  <2> QED  BY <1>1, <1>2, <1>3, <1>5, <2>1 DEF KitsUnique

\* A registration that is refused its kit had picked it together with another.
LEMMA ContendedNext ==
  ASSUME IInv, NEW t \in Tasks, Step(t)
  PROVE  KitsContended'
<1> USE DEF IInv
<1>1. contended \subseteq contended'
  BY Frame DEF findKit
<1>2. ASSUME NEW s \in Tasks, Writing(s, "findKit")
      PROVE  Did(s, "findKit") /\ kit'[s] = kit[s]
  BY <1>2, KitStays DEF Writing
<1>3. ASSUME At(t, "findKit"), t \notin over'
      PROVE  /\ ~HasCard(kit'[t])
             /\ \A s \in Tasks \ {t} : Writing(s, "findKit") /\ kit[s] = kit'[t] =>
                  s \in contended' /\ t \in contended'
  <2>1. PICK k \in Free :
          /\ kit' = [kit EXCEPT ![t] = k]
          /\ contended' = contended \cup
               IF Contenders(t, k) = {} THEN {} ELSE Contenders(t, k) \cup {t}
    BY <1>3, TakenAt DEF findKit, Advance, Refuse
  <2>2. kit'[t] = k
    BY <2>1 DEF TypeOK
  <2>3. ~HasCard(k)
    BY <2>1 DEF Free, HasCard, KitsUnique
  <2> QED  BY <2>1, <2>2, <2>3 DEF Contenders
<1>4. ASSUME NEW a \in Tasks, NEW b \in Tasks, Writing(a, "findKit")', Writing(b, "findKit")',
             kit'[a] = kit'[b], a # b
      PROVE  a \in contended'
  <2>1. /\ Writing(a, "findKit") \/ (a = t /\ At(t, "findKit") /\ t \notin over')
        /\ Writing(b, "findKit") \/ (b = t /\ At(t, "findKit") /\ t \notin over')
    BY <1>4, WritingNext DEF Marks
  <2>2. CASE Writing(a, "findKit") /\ Writing(b, "findKit")
    BY <1>1, <1>2, <1>4, <2>2 DEF KitsContended
  <2>3. CASE a = t /\ At(t, "findKit") /\ t \notin over'
    BY <1>2, <1>3, <1>4, <2>1, <2>3
  <2>4. CASE b = t /\ At(t, "findKit") /\ t \notin over'
    BY <1>2, <1>3, <1>4, <2>1, <2>4
  <2> QED  BY <2>1, <2>2, <2>3, <2>4
<1>5. ASSUME NEW s \in Tasks, Writing(s, "findKit")', ~Did(s, "insertCard")', \E u \in users' : kit'[u] = kit'[s]
      PROVE  s \in contended'
  <2>1. CASE Writing(s, "findKit")
    <3>1. HasCard(kit[s]) \/ (commit(t) /\ kit[t] = kit[s])
      BY <1>2, <1>5, <2>1, HasCardNext
    <3>2. ~Did(s, "insertCard")
      BY <1>5, DidNext DEF Marks
    <3>3. CASE commit(t) /\ kit[t] = kit[s]
      <4>1. Writing(t, "findKit") /\ Did(t, "insertCard")
        BY <3>3, WritingPlaces, AtIs DEF commit, Writing
      <4> QED  BY <1>1, <2>1, <3>2, <3>3, <4>1 DEF KitsContended
    <3> QED  BY <1>1, <2>1, <3>1, <3>2, <3>3 DEF KitsContended
  <2>2. CASE s = t /\ At(t, "findKit") /\ t \notin over'
    <3>1. ~HasCard(kit'[t]) /\ ~commit(t)
      BY <1>3, <2>2, OneStep DEF commit
    <3> QED  BY <1>5, <2>2, <3>1, HasCardNext
  <2> QED  BY <1>5, <2>1, <2>2, WritingNext DEF Marks
<1> QED  BY <1>4, <1>5 DEF KitsContended, HasCard

\* A number gets a second row only from calls that could not see the first.
LEMMA NumbersNext ==
  ASSUME IInv, NEW t \in Tasks, Step(t)
  PROVE  NumbersUnique'
<1> USE DEF IInv
<1> DEFINE n == op[t].number
<1>1. doubled \subseteq doubled' /\ kits \subseteq kits'
  BY Frame DEF saveNumber
<1>2. CASE saveNumber(t)
  <2>1. /\ At(t, "saveNumber")
        /\ kits' = kits \cup {[number |-> n, by |-> t]}
        /\ op[t].kind = "createKitNumber" => n \in doubled'
        /\ \A s \in Tasks \ {t} : At(s, "saveNumber") /\ op[s].number = n => n \in doubled'
    BY <1>2 DEF saveNumber
  <2>2. op[t].kind \in {"createKitNumber", "populateKitNumbersFromJSON"}
    <3>1. Is(Kind(t), pc[t], "saveNumber")
      BY <2>1, AtIs
    <3> QED  BY <3>1, Typed, Places DEF Kind
  <2>3. Stored(n) => n \in doubled'
    BY <1>1, <2>1, <2>2 DEF NumbersUnique
  <2>4. ASSUME NEW k \in kits', NEW l \in kits', k.number = l.number, k # l
        PROVE  k.number \in doubled'
    <3>1. CASE k \in kits /\ l \in kits
      BY <1>1, <2>4, <3>1 DEF NumbersUnique
    <3>2. CASE k = [number |-> n, by |-> t] \/ l = [number |-> n, by |-> t]
      BY <2>1, <2>3, <2>4, <3>2 DEF Stored
    <3> QED  BY <2>1, <3>1, <3>2
  <2>5. ASSUME NEW s \in Tasks, At(s, "saveNumber")', op'[s].kind = "populateKitNumbersFromJSON",
               Stored(op[s].number)'
        PROVE  op'[s].number \in doubled'
    <3>1. op' = op
      BY Positions
    <3>2. s # t
      BY <1>2, <2>1, <2>5, <3>1, Arrivals, OneStep DEF Kind
    <3>3. At(s, "saveNumber")
      BY <2>5, <3>2, OthersStay
    <3>4. CASE op[s].number = n
      BY <2>1, <3>1, <3>2, <3>3, <3>4
    <3>5. CASE op[s].number # n
      <4>1. Stored(op[s].number)
        BY <2>1, <2>5, <3>1, <3>5 DEF Stored
      <4> QED  BY <1>1, <2>5, <3>1, <3>3, <4>1 DEF NumbersUnique
    <3> QED  BY <3>4, <3>5
  <2> QED  BY <2>4, <2>5 DEF NumbersUnique
<1>3. CASE kits' = kits /\ doubled' = doubled
  <2>1. ASSUME NEW s \in Tasks, At(s, "saveNumber")', op'[s].kind = "populateKitNumbersFromJSON",
               Stored(op[s].number)'
        PROVE  op'[s].number \in doubled'
    <3>1. op' = op
      BY Positions
    <3>2. Stored(op[s].number)
      BY <1>3, <2>1, <3>1 DEF Stored
    <3>3. CASE s = t
      BY <2>1, <3>1, <3>2, <3>3, Arrivals, TakenAt DEF Kind
    <3>4. CASE s # t
      BY <1>3, <2>1, <3>1, <3>2, <3>4, OthersStay DEF NumbersUnique
    <3> QED  BY <3>3, <3>4
  <2> QED  BY <1>3, <2>1 DEF NumbersUnique
<1> QED  BY <1>2, <1>3, Frame

LEMMA ReferralsNext ==
  ASSUME IInv, NEW t \in Tasks, Step(t)
  PROVE  ReferralsQueued'
<1> USE DEF IInv
<1>1. queued \subseteq queued'
  BY Frame DEF queueReferral
<1>2. SUFFICES ASSUME NEW s \in Tasks, Did(s, "queueReferral")', op'[s].referral = "valid"
               PROVE  s \in queued'
  BY DEF ReferralsQueued
<1>3. op' = op
  BY Positions
<1>4. CASE s = t /\ At(t, "queueReferral") /\ t \notin over'
  BY <1>2, <1>3, <1>4, TakenAt DEF queueReferral
<1> QED  BY <1>1, <1>2, <1>3, <1>4, DidNext DEF Marks, ReferralsQueued

LEMMA CreatingNext ==
  ASSUME IInv, NEW t \in Tasks, Step(t), NEW s \in Tasks, Creating(s)'
  PROVE  /\ Creating(s) \/ (s = t /\ findAccount(t))
         /\ s = t => ~saveAccount(t)
<1> USE DEF IInv
<1>1. CASE s = t
  <2>1. (At(t, "findAccount") \/ At(t, "createAtProvider")) /\ t \notin over'
    BY <1>1, Arrivals DEF Creating
  <2> QED  BY <1>1, <2>1, TakenAt, OneStep DEF Creating, saveAccount
<1>2. CASE s # t
  BY <1>2, OthersStay DEF Creating
<1> QED  BY <1>1, <1>2

\* A new account for a person: of whom it is.
LEMMA HasAccountNext ==
  ASSUME IInv, NEW t \in Tasks, Step(t), NEW a \in accounts'
  PROVE  /\ a.user \in users'
         /\ \/ a \in accounts
            \/ saveAccount(t) /\ a.user \in Owner(t) /\ a.phone = op[t].phone /\ a.by = t
<1>1. TypeOK'
  BY TypeNext
<1>2. a.user \in users'
  BY <1>1 DEF TypeOK
<1> QED  BY <1>2, Frame DEF saveAccount

\* Who looked and found nothing is overtaken only by one that looked with it.
LEMMA RacedNext ==
  ASSUME IInv, NEW t \in Tasks, Step(t)
  PROVE  AccountsRaced'
<1> USE DEF IInv
<1>1. raced \subseteq raced' /\ op' = op
  BY Frame, Positions DEF findAccount
<1>5. \A s : Wanted(s)' = Wanted(s)
  BY <1>1 DEF Wanted
<1>2. findAccount(t) => \A s \in Tasks \ {t} : Creating(s) /\ Wanted(s) = Wanted(t) =>
                          Wanted(t) \in raced'
  BY DEF findAccount, Creating
<1>3. ASSUME NEW a \in Tasks, NEW b \in Tasks, Creating(a)', Creating(b)',
             Wanted(a) = Wanted(b), a # b
      PROVE  Wanted(a) \in raced'
  BY <1>5, <1>1, <1>2, <1>3, CreatingNext DEF AccountsRaced
<1>4. ASSUME NEW s \in Tasks, Creating(s)', HasAccount(s)'
      PROVE  Wanted(s) \in raced'
  <2>1. PICK a \in accounts' : /\ a.user \in users' /\ op[a.user].person = op[s].person
                              /\ a.phone = op[s].phone
    BY <1>1, <1>4 DEF HasAccount, Owner
  <2>2. CASE Creating(s)
    <3>1. CASE a \in accounts
      <4>1. HasAccount(s)
        BY <2>1, <3>1 DEF HasAccount, Owner, TypeOK
      <4> QED  BY <1>1, <2>2, <4>1 DEF AccountsRaced
    <3>2. CASE saveAccount(t) /\ a.user \in Owner(t) /\ a.phone = op[t].phone
      <4>1. Wanted(t) = Wanted(s) /\ Creating(t)
        BY <2>1, <3>2 DEF Owner, Wanted, saveAccount, Creating
      <4>2. s # t
        BY <1>4, <3>2, CreatingNext
      <4> QED  BY <1>1, <2>2, <4>1, <4>2 DEF AccountsRaced
    <3> QED  BY <3>1, <3>2, HasAccountNext
  <2>3. CASE s = t /\ findAccount(t)
    <3>1. accounts' = accounts
      BY <2>3 DEF findAccount
    <3>2. ~HasAccount(t)
      <4>1. At(t, "createAtProvider")' \/ At(t, "saveAccount")'
        BY <1>4, <2>3 DEF Creating
      <4>2. ~Answer(t)
        <5>1. Kind(t)' = Kind(t) /\ Len(Program[Kind(t)]) \in Nat
          BY Positions, Typed, Lengths
        <5>2. pc'[t] <= Len(Program[Kind(t)])
          BY <4>1, <5>1 DEF At, Running, Kind
        <5>3. Answer(t) => pc'[t] = Len(Program[Kind(t)]) + 1
          BY DEF Answer, Kind, TypeOK
        <5> QED  BY <5>1, <5>2, <5>3
      <4> QED  BY <2>3, <4>2 DEF findAccount
    <3>3. HasAccount(t)
      BY <2>1, <2>3, <3>1 DEF HasAccount, Owner, TypeOK
    <3> QED  BY <3>2, <3>3
  <2> QED  BY <1>4, <2>2, <2>3, CreatingNext
<1> QED  BY <1>5, <1>3, <1>4 DEF AccountsRaced

-----------------------------------------------------------------------------
(* The properties.                                                         *)

LEMMA OneCardNext ==
  ASSUME IInv, NumbersUnique', KitsUnique', TypeOK', NEW t \in Tasks, Step(t)
  PROVE  OneCardPerNumber'
<1> USE DEF IInv
<1>1. ASSUME NEW a \in users', NEW b \in users', kit'[a].number = kit'[b].number
      PROVE  a = b \/ kit'[a].number \in doubled'
  <2>1. kit'[a] \in kits' /\ kit'[b] \in kits'
    BY DEF KitsUnique, TypeOK
  <2> QED  BY <1>1, <2>1 DEF NumbersUnique, KitsUnique
<1>2. ASSUME NEW s \in over' \ Faulty, Program[op'[s].kind][pc'[s]] = "insertCard"
      PROVE  s \in contended'
  <2>0. s \in Tasks /\ op' = op
    BY Positions DEF TypeOK
  <2>1. contended \subseteq contended'
    BY Frame DEF findKit
  <2>2. CASE s \in over
    <3>1. s # t
      BY <2>2, StepMoves DEF Running
    <3>2. pc'[s] = pc[s]
      BY <2>0, <3>1, Positions
    <3> QED  BY <1>2, <2>0, <2>1, <2>2, <3>2 DEF OneCardPerNumber
  <2>3. CASE s \notin over
    <3>1. s = t /\ pc' = pc /\ t \in over'
      BY <1>2, <2>0, <2>3, Positions
    <3>2. At(t, "insertCard")
      BY <1>2, <2>0, <3>1, StepMoves DEF At
    <3>3. ~fail(t)
      BY <1>2, <3>1 DEF fail
    <3>4. insertCard(t)
      BY <3>2, <3>3, OneStep DEF Step, findPerson, findReferrer, insertUser, findKit, saveKit,
         commit, queueReferral, findAccount, createAtProvider, saveAccount, findNumber,
         saveNumber, findCard, activateCard
    <3>5. HasCard(kit[t])
      BY <3>1, <3>4, StepMoves DEF insertCard, Advance, Running
    <3>6. Writing(t, "findKit") /\ ~Did(t, "insertCard")
      BY <3>2, AtIs, WritingPlaces DEF Writing
    <3> QED  BY <2>1, <3>1, <3>5, <3>6 DEF KitsContended
  <2> QED  BY <2>2, <2>3
<1> QED  BY <1>1, <1>2 DEF OneCardPerNumber

\* A call that waits for a person waits for calls further on; one that waits for
\* a kit waits for calls that wait no more.
LEMMA NobodyStandsStill ==
  ASSUME TypeOK, Placed
  PROVE  NoStandstill
<1> SUFFICES ASSUME NEW S \in (SUBSET Tasks) \ {{}}
             PROVE  \E t \in S : (WaitsForUser(t) \cup WaitsForKit(t)) \cap S = {}
  BY DEF NoStandstill
<1>1. ASSUME NEW s \in Tasks, Writing(s, "saveKit")
      PROVE  WaitsForUser(s) = {} /\ WaitsForKit(s) = {}
  BY <1>1, WritingPlaces DEF Writing, WaitsForUser, WaitsForKit
<1>2. ASSUME NEW s \in Tasks, At(s, "saveKit")
      PROVE  WaitsForUser(s) = {}
  BY <1>2, OneStep DEF WaitsForUser
<1>3. ASSUME NEW s \in Tasks, Writing(s, "insertUser")
      PROVE  WaitsForUser(s) = {}
  BY <1>3, WritingPlaces DEF Writing, WaitsForUser
<1>4. CASE \E t \in S : At(t, "saveKit")
  <2>1. PICK t \in S : At(t, "saveKit")
    BY <1>4
  <2>2. CASE WaitsForKit(t) \cap S = {}
    BY <1>2, <2>1, <2>2
  <2>3. CASE WaitsForKit(t) \cap S # {}
    <3>1. PICK s \in S : Writing(s, "saveKit")
      BY <2>3 DEF WaitsForKit
    <3> QED  BY <1>1, <3>1
  <2> QED  BY <2>2, <2>3
<1>5. CASE \A t \in S : ~At(t, "saveKit")
  <2>1. \A t \in S : WaitsForKit(t) = {}
    BY <1>5 DEF WaitsForKit
  <2>2. PICK t \in S : TRUE
    <3>1. S # {}
      OBVIOUS
    <3> QED  BY <3>1, Zenon
  <2>3. CASE WaitsForUser(t) \cap S = {}
    BY <2>1, <2>3
  <2>4. CASE WaitsForUser(t) \cap S # {}
    <3>1. PICK s \in S : Writing(s, "insertUser")
      BY <2>4 DEF WaitsForUser
    <3> QED  BY <1>3, <2>1, <3>1
  <2> QED  BY <2>3, <2>4
<1> QED  BY <1>4, <1>5

LEMMA AnswersNext ==
  ASSUME IInv, UsersUnique', ReferralsQueued', TypeOK', Placed', NEW t \in Tasks, Step(t)
  PROVE  AnswerMeansRegistered'
<1> USE DEF IInv
<1>0. op' = op /\ accounts \subseteq accounts' /\ users \subseteq users'
  BY Positions, Frame DEF saveAccount, commit
<1>1. queued' \subseteq users'
  <2>1. queueReferral(t) => t \in users
    BY WritingPlaces DEF queueReferral, UsersUnique
  <2> QED  BY <1>0, <2>1, Frame DEF queueReferral, AnswerMeansRegistered
<1>2. SUFFICES ASSUME NEW s \in Tasks \ over', Registers(op[s].kind), ~Running(s)'
               PROVE  /\ s \in users' /\ (op[s].referral = "valid" => s \in queued')
                      /\ op[s].kind = "registerUser" \/ op[s].pin = "other"
                         \/ \E a \in accounts' : a.user = s
  BY <1>0, <1>1 DEF AnswerMeansRegistered, Registers
<1> DEFINE k == Kind(s)
<1>3. k \in DOMAIN Program /\ Registers(k) /\ k = op[s].kind /\ k = op'[s].kind
  BY <1>0, <1>2, Typed DEF Kind
<1>4. pc'[s] \in Nat \ {0} /\ pc'[s] = Len(Program[k]) + 1
  <2>1. pc'[s] \in Nat \ {0} /\ pc'[s] <= Len(Program[k]) + 1 /\ Len(Program[k]) \in Nat
    BY <1>3, Positions, Lengths
  <2>2. ~(pc'[s] <= Len(Program[k]))
    BY <1>2, <1>3 DEF Running
  <2> QED  BY <2>1, <2>2
<1>5. Place(k, pc'[s]) > 8
  <2> HIDE DEF k
  <2>1. CASE k = "registerUser"
    <3>1. Len(Program[k]) = 8
      BY <1>3, <2>1, Lengths
    <3> QED  BY <1>4, <2>1, <3>1 DEF Place
  <2>2. CASE k = "aadhaarVerifyOtp"
    <3>1. Len(Program[k]) = 10
      BY <1>3, <2>2, Lengths
    <3> QED  BY <1>4, <2>2, <3>1 DEF Place
  <2> QED  BY <1>3, <2>1, <2>2 DEF Registers
<1>6. Did(s, "commit")' /\ Did(s, "queueReferral")'
  <2>1. Past(k, pc'[s], "commit") /\ Past(k, pc'[s], "queueReferral")
    <3> HIDE DEF k
    <3>1. pc'[s] <= Len(Program[k]) + 1 /\ Place(k, pc'[s]) > 7
      <4>1. Place(k, pc'[s]) \in Nat
        BY <1>4 DEF Place
      <4>2. Len(Program[k]) \in Nat
        BY <1>3, Lengths
      <4> QED  BY <1>4, <1>5, <4>1, <4>2
    <3> QED  BY <1>3, <1>4, <1>5, <3>1, PlacesPast
  <2> QED  BY <1>0, <1>3, <2>1 DEF Did, Past
<1>7. s \in users' /\ (op[s].referral = "valid" => s \in queued')
  BY <1>0, <1>6 DEF UsersUnique, ReferralsQueued
<1>8. ASSUME k = "aadhaarVerifyOtp", op[s].pin # "other"
      PROVE  \E a \in accounts' : a.user = s
  <2>1. CASE ~Running(s)
    <3>1. s \notin over
      BY <1>2, StepMoves DEF Moved, Advance, Answer, Refuse
    <3>2. \E a \in accounts : a.user = s
      BY <1>3, <1>8, <2>1, <3>1 DEF AnswerMeansRegistered
    <3> QED  BY <1>0, <3>2
  <2>2. CASE Running(s)
    <3>1. s = t /\ t \notin over'
      BY <1>2, <2>2, Positions DEF Running, Kind
    <3>2. At(t, "findAccount") \/ At(t, "saveAccount")
      <4>1. CASE pc'[t] = pc[t] + 1
        <5>1. pc[t] = 10
          <6>1. Len(Program[k]) = 10
            BY <1>3, <1>8, Lengths
          <6>2. pc[t] \in Nat
            BY Typed
          <6> QED  BY <1>4, <3>1, <4>1, <6>1, <6>2
        <5>2. Is(Kind(t), pc[t], "saveAccount")
          BY <1>8, <3>1, <5>1, Typed, Places
        <5> QED  BY <2>2, <3>1, <5>2, AtIs DEF Running
      <4>2. CASE At(t, "findAccount")
        BY <4>2
      <4> QED  BY <3>1, <4>1, <4>2, Positions
    <3>3. Owner(t) = {t} /\ t \in users
      <4>1. t \in users
        <5>1. At(t, "findAccount") \/ At(t, "saveAccount") => ~At(t, "commit")
          BY OneStep
        <5> QED  BY <1>6, <3>1, <3>2, <5>1, DidNext DEF Marks, UsersUnique
      <4>2. \A u \in users : u \in Tasks /\ Inserted(u)
        BY WritingPlaces DEF UsersUnique, Inserted
      <4> QED  BY <4>1, <4>2 DEF Owner, UsersUnique
    <3>4. CASE saveAccount(t)
      <4>1. [user |-> t, phone |-> op[t].phone, by |-> t] \in accounts'
        BY <3>3, <3>4 DEF saveAccount
      <4> QED  BY <3>1, <4>1
    <3>5. CASE findAccount(t)
      <4>1. HasAccount(t)
        <5>1. ~Advance(t)
          <6>1. Is(Kind(t), pc[t], "findAccount")
            BY <3>5, AtIs DEF findAccount
          <6>2. pc[t] = 8
            BY <1>8, <3>1, <6>1, Typed, Places
          <6>3. Len(Program[k]) = 10
            BY <1>3, <1>8, Lengths
          <6>4. Advance(t) => pc'[t] = 9
            BY <6>2 DEF Advance, TypeOK
          <6> QED  BY <1>4, <3>1, <6>3, <6>4
        <5> QED  BY <1>8, <3>1, <3>5, <5>1 DEF findAccount
      <4> QED  BY <1>0, <3>1, <3>3, <4>1 DEF HasAccount
    <3> QED  BY <3>1, <3>2, <3>4, <3>5, TakenAt
  <2> QED  BY <2>1, <2>2
<1> QED  BY <1>3, <1>7, <1>8 DEF Registers

LEMMA StoredOnceNext ==
  ASSUME IInv, UsersUnique', TypeOK', Placed', NEW t \in Tasks, Step(t)
  PROVE  StoredOnce'
<1> USE DEF IInv
<1>0. op' = op /\ raced \subseteq raced'
  BY Positions, Frame DEF findAccount
<1>1. ASSUME NEW a \in users', NEW b \in users', op'[a].person = op'[b].person
      PROVE  a = b
  <2>1. /\ a \in Tasks /\ b \in Tasks /\ Did(a, "commit")' /\ Did(b, "commit")'
    BY DEF UsersUnique
  <2>2. Did(a, "insertUser")' /\ Did(b, "insertUser")'
    <3>1. \A s \in Tasks : Did(s, "commit")' => Did(s, "insertUser")'
      BY DidNext, WritingPlaces DEF Marks
    <3> QED  BY <2>1, <3>1
  <2> QED  BY <1>1, <2>1, <2>2 DEF UsersUnique, Inserted
<1>2. ASSUME NEW a \in accounts', NEW b \in accounts', a.user = b.user, a.phone = b.phone
      PROVE  a = b \/ <<op'[a.user].person, a.phone>> \in raced'
  <2>1. \A c \in {a, b} : /\ c.user \in users'
                          /\ c \in [user : users', phone : Phones, by : Tasks]
                          /\ \/ c \in accounts
                             \/ /\ saveAccount(t) /\ c.user \in Owner(t)
                                /\ c.phone = op[t].phone /\ c.by = t
    BY HasAccountNext DEF TypeOK
  <2>2. CASE a \in accounts /\ b \in accounts
    BY <1>0, <1>2, <2>2 DEF StoredOnce
  <2>3. ASSUME NEW c \in {a, b}, NEW d \in {a, b}, c \in accounts,
               saveAccount(t), d.user \in Owner(t), d.phone = op[t].phone
        PROVE  <<op'[c.user].person, c.phone>> \in raced'
    <3>1. /\ HasAccount(t) /\ Creating(t)
          /\ op[d.user].person = op[t].person /\ d.phone = op[t].phone
      BY <1>2, <2>3 DEF HasAccount, Owner, saveAccount, Creating
    <3> QED  BY <1>0, <1>2, <2>3, <3>1 DEF AccountsRaced, Wanted
  <2>4. CASE a.by = t /\ b.by = t
    BY <1>2, <2>1, <2>4
  <2> QED  BY <1>2, <2>1, <2>2, <2>3, <2>4
<1> QED  BY <1>1, <1>2 DEF StoredOnce

LEMMA InitHolds == Init => IInv
<1> SUFFICES ASSUME Init PROVE IInv
  OBVIOUS
<1>1. \A t \in Tasks : \A step : ~Did(t, step)
  BY DEF Init, Did
<1>2. TypeOK
  BY DEF Init, TypeOK, Kits
<1>3. Placed
  <2>1. \A t \in Tasks : Len(Program[op[t].kind]) \in Nat \ {0}
    BY Lengths DEF Init
  <2> QED  BY <2>1 DEF Init, Placed
<1>4. \A t \in Tasks : \A step : ~Writing(t, step)
  BY <1>1 DEF Writing
<1>5. UsersUnique
  BY <1>1 DEF Init, UsersUnique, Inserted
<1>6. KitsUnique /\ KitsContended
  BY <1>1, <1>4 DEF Init, KitsUnique, KitsContended, HasCard
<1>7. NumbersUnique
  <2>1. \A k, l \in kits : k.number = l.number => k = l
    BY DEF Init
  <2>2. ASSUME NEW t \in Tasks, At(t, "saveNumber"), op[t].kind = "populateKitNumbersFromJSON"
        PROVE  FALSE
    <3>1. Is(Kind(t), 1, "saveNumber")
      BY <2>2, AtIs DEF Init
    <3>2. 1 \in Nat \ {0} /\ 1 <= Len(Program[Kind(t)]) + 1
      BY <1>2, <1>3, Typed DEF Init
    <3> QED  BY <1>2, <1>3, <2>2, <3>1, <3>2, Typed, Places DEF Kind
  <2> QED  BY <2>1, <2>2 DEF NumbersUnique
<1>8. ReferralsQueued
  BY <1>1 DEF ReferralsQueued
<1>9. AccountsRaced
  <2>1. \A t \in Tasks : ~Creating(t)
    <3> SUFFICES ASSUME NEW t \in Tasks, Creating(t) PROVE FALSE
      OBVIOUS
    <3>1. Is(Kind(t), 1, "createAtProvider") \/ Is(Kind(t), 1, "saveAccount")
      BY AtIs DEF Creating, Init
    <3>2. Kind(t) \in DOMAIN Program /\ 1 \in Nat \ {0} /\ 1 <= Len(Program[Kind(t)]) + 1
      BY <1>2, <1>3, Typed DEF Init
    <3> QED  BY <3>1, <3>2, Places
  <2> QED  BY <2>1 DEF AccountsRaced
<1>10. OneCardPerNumber /\ StoredOnce
  BY DEF Init, OneCardPerNumber, StoredOnce
<1>11. AnswerMeansRegistered
  <2>1. \A t \in Tasks : Running(t)
    <3>1. \A t \in Tasks : Len(Program[op[t].kind]) \in Nat \ {0}
      BY Lengths DEF Init
    <3> QED  BY <3>1 DEF Init, Running
  <2> QED  BY <2>1 DEF Init, AnswerMeansRegistered
<1> QED  BY <1>2, <1>3, <1>5, <1>6, <1>7, <1>8, <1>9, <1>10, <1>11, NobodyStandsStill DEF IInv

LEMMA Stutter ==
  ASSUME IInv, UNCHANGED vars
  PROVE  IInv'
<1> USE DEF vars, rest, history, IInv
<1>1. TypeOK' /\ Placed'
  BY DEF TypeOK, Placed
<1>2. \A t, step : /\ Did(t, step)' <=> Did(t, step)
                   /\ At(t, step)' <=> At(t, step)
                   /\ Running(t)' <=> Running(t)
                   /\ Writing(t, step)' <=> Writing(t, step)
  BY DEF Did, At, Running, Writing
<1>3. UsersUnique' /\ KitsUnique' /\ KitsContended'
  BY <1>2 DEF UsersUnique, Inserted, KitsUnique, KitsContended, HasCard
<1>4. NumbersUnique' /\ ReferralsQueued'
  BY <1>2 DEF NumbersUnique, Stored, ReferralsQueued
<1>5. AccountsRaced'
  BY <1>2 DEF AccountsRaced, Creating, HasAccount, Wanted, Owner
<1>6. OneCardPerNumber' /\ StoredOnce'
  BY DEF OneCardPerNumber, StoredOnce
<1>7. AnswerMeansRegistered'
  BY <1>2 DEF AnswerMeansRegistered
<1>8. NoStandstill'
  BY <1>2 DEF NoStandstill, WaitsForUser, WaitsForKit
<1> QED  BY <1>1, <1>3, <1>4, <1>5, <1>6, <1>7, <1>8

LEMMA StandstillNext ==
  ASSUME IInv, NEW t \in Tasks, Step(t)
  PROVE  NoStandstill'
<1>1. TypeOK' /\ Placed'
  BY TypeNext
<1> QED  BY <1>1, NobodyStandsStill, PTL

LEMMA Invariant == Spec => []IInv
<1>1. IInv /\ [Next]_vars => IInv'
  <2> SUFFICES ASSUME IInv, [Next]_vars PROVE IInv'
    OBVIOUS
  <2>1. ASSUME NEW t \in Tasks, Step(t)
        PROVE  IInv'
    <3>1. TypeOK' /\ Placed'
      BY <2>1, TypeNext
    <3>2. UsersUnique' /\ KitsUnique' /\ KitsContended' /\ NumbersUnique' /\ ReferralsQueued'
          /\ AccountsRaced'
      BY <2>1, UsersNext, KitsNext, ContendedNext, NumbersNext, ReferralsNext, RacedNext
    <3>3. OneCardPerNumber' /\ NoStandstill' /\ AnswerMeansRegistered' /\ StoredOnce'
      BY <2>1, <3>1, <3>2, OneCardNext, StandstillNext, AnswersNext, StoredOnceNext
    <3> QED  BY <3>1, <3>2, <3>3 DEF IInv
  <2>2. CASE UNCHANGED vars
    BY <2>2, Stutter
  <2> QED  BY <2>1, <2>2 DEF Next, Terminated
<1> QED  BY <1>1, InitHolds, PTL DEF Spec

\* Every variable of Registration stays in its range, and what is assigned, active
\* or has an account is stored.
THEOREM TypeCorrect == Spec => []TypeOK
BY Invariant, PTL DEF IInv

\* Whatever transactions overlap, two cards carry one number only if the stock
\* holds it twice, and a kit is refused only to one who picked it with another.
THEOREM OneCardPerNumberHolds == Spec => []OneCardPerNumber
BY Invariant, PTL DEF IInv

\* However many registrations wait for rows of each other, some can go on.
THEOREM NoStandstillHolds == Spec => []NoStandstill
BY Invariant, PTL DEF IInv

\* Who is told to be registered is, with the referral queued and an account made.
THEOREM AnswerMeansRegisteredHolds == Spec => []AnswerMeansRegistered
BY Invariant, PTL DEF IInv

\* A person becomes one user, whatever calls overlap, with one virtual account for
\* each number the user names, unless two calls looked for that one together.
THEOREM StoredOnceHolds == Spec => []StoredOnce
BY Invariant, PTL DEF IInv

-----------------------------------------------------------------------------
(* The connections that registrations and other calls take (ConnectionPool). *)

HIDE RegistrationAssumption

USE PoolAssumption

PoolInv == PoolTypeOK /\ Holding

LEMMA HoldersFinite ==
  ASSUME PoolTypeOK
  PROVE  /\ IsFiniteSet(main) /\ Cardinality(main) \in Nat
         /\ IsFiniteSet(second) /\ Cardinality(second) \in Nat
BY FS_Subset, FS_CardinalityType DEF PoolTypeOK

LEMMA OneMoreOneLess ==
  ASSUME NEW S, NEW x, IsFiniteSet(S)
  PROVE  /\ Cardinality(S \cup {x}) \in Nat /\ Cardinality(S \cup {x}) <= Cardinality(S) + 1
         /\ Cardinality(S \ {x}) \in Nat /\ Cardinality(S \ {x}) <= Cardinality(S)
<1>1. Cardinality(S) \in Nat
  BY FS_CardinalityType
<1>2. IsFiniteSet(S \cup {x}) /\ IsFiniteSet(S \ {x})
  BY FS_AddElement, FS_RemoveElement
<1>3. Cardinality(S \cup {x}) \in Nat /\ Cardinality(S \ {x}) \in Nat
  BY <1>2, FS_CardinalityType
<1>4. Cardinality(S \cup {x}) <= Cardinality(S) + 1
  BY <1>1, FS_AddElement
<1>5. Cardinality(S \ {x}) <= Cardinality(S)
  BY <1>1, FS_RemoveElement
<1> QED  BY <1>3, <1>4, <1>5

LEMMA PoolInitHolds == PoolInit => PoolInv
<1> SUFFICES ASSUME PoolInit PROVE PoolInv
  OBVIOUS
<1>1. PoolTypeOK
  BY DEF PoolInit, PoolTypeOK, Steps
<1>2. InUse <= PoolSize
  BY FS_EmptySet DEF PoolInit, InUse
<1> QED  BY <1>1, <1>2 DEF PoolInit, PoolInv, Holding, Leaked

\* A call joins the line: it was not in it.
LEMMA Joins ==
  ASSUME PoolInv, NEW t \in Calls, phase[t] \notin {"connecting", "asking"},
         queue' = Append(queue, t), NEW step \in {"connecting", "asking"}, Goto(t, step)
  PROVE  /\ queue' \in Seq(Calls)
         /\ \A i, j \in 1..Len(queue') : queue'[i] = queue'[j] => i = j
         /\ \A i \in 1..Len(queue') : phase'[queue'[i]] \in {"connecting", "asking"}
<1>1. /\ queue' \in Seq(Calls) /\ Len(queue') = Len(queue) + 1 /\ Len(queue) \in Nat
      /\ \A i \in 1..Len(queue) : queue'[i] = queue[i]
      /\ queue'[Len(queue) + 1] = t
  BY AppendProperties, LenProperties DEF PoolInv, PoolTypeOK
<1>2. \A i \in 1..Len(queue) : queue[i] \in Calls /\ queue[i] # t
  BY ElementOfSeq DEF PoolInv, PoolTypeOK, Holding
<1>3. \A i, j \in 1..Len(queue') : queue'[i] = queue'[j] => i = j
  BY <1>1, <1>2 DEF PoolInv, PoolTypeOK
<1>4. \A i \in 1..Len(queue') : phase'[queue'[i]] \in {"connecting", "asking"}
<2> TAKE i \in 1..Len(queue')
<2>1. phase'[t] = step /\ \A s \in Calls : s # t => phase'[s] = phase[s]
  BY DEF Goto, PoolInv, PoolTypeOK
<2>2. i \in 1..Len(queue) => phase[queue[i]] \in {"connecting", "asking"}
  BY DEF PoolInv, Holding
<2>3. CASE i \in 1..Len(queue)
  BY <1>1, <1>2, <2>1, <2>2, <2>3
<2>4. CASE i = Len(queue) + 1
  BY <1>1, <2>1, <2>4
<2> QED  BY <1>1, <2>3, <2>4
<1> QED  BY <1>1, <1>3, <1>4

\* A call that is not in the line moves: the line is as it was.
LEMMA Stays ==
  ASSUME PoolInv, NEW t \in Calls, phase[t] \notin {"connecting", "asking"},
         queue' = queue, NEW step, Goto(t, step)
  PROVE  \A i \in 1..Len(queue') : phase'[queue'[i]] \in {"connecting", "asking"}
BY ElementOfSeq DEF PoolInv, PoolTypeOK, Holding, Goto

LEMMA ConnectStep ==
  ASSUME PoolInv, NEW t \in Calls, connect(t)
  PROVE  PoolInv'
<1>1. PoolTypeOK'
  BY Joins DEF connect, PoolInv, PoolTypeOK, Steps, Goto
<1>2. Holding'
  <2>1. \A i \in 1..Len(queue') : phase'[queue'[i]] \in {"connecting", "asking"}
    BY Joins DEF connect
  <2> QED  BY <2>1 DEF connect, PoolInv, PoolTypeOK, Holding, Leaked, InUse, Goto
<1> QED  BY <1>1, <1>2 DEF PoolInv

LEMMA ReadStep ==
  ASSUME PoolInv, NEW t \in Calls, read(t)
  PROVE  PoolInv'
<1>1. PoolTypeOK'
  <2>1. reads' \in [Calls -> 0..MaxReads]
    BY DEF read, PoolInv, PoolTypeOK
  <2> QED  BY <2>1, Joins DEF read, PoolInv, PoolTypeOK, Steps, Goto
<1>2. Holding'
  <2>1. \A i \in 1..Len(queue') : phase'[queue'[i]] \in {"connecting", "asking"}
    BY Joins DEF read
  <2> QED  BY <2>1 DEF read, PoolInv, PoolTypeOK, Holding, Leaked, InUse, Goto
<1> QED  BY <1>1, <1>2 DEF PoolInv

LEMMA LendStep ==
  ASSUME PoolInv, NEW t \in Calls, lend(t)
  PROVE  PoolInv'
<1>1. /\ queue' = Tail(queue) /\ t = Head(queue) /\ queue # <<>> /\ queue \in Seq(Calls)
      /\ phase[t] \in {"connecting", "asking"} /\ InUse < PoolSize
  <2>1. Len(queue) \in Nat /\ Len(queue) >= 1 /\ t = queue[1]
    BY EmptySeq, LenProperties, HeadTailProperties DEF lend, PoolInv, PoolTypeOK
  <2> QED  BY <2>1 DEF lend, Dequeued, PoolInv, PoolTypeOK, Holding
<1>2. /\ queue' \in Seq(Calls) /\ Len(queue') = Len(queue) - 1 /\ Len(queue) \in Nat
      /\ \A i \in 1..Len(queue') : queue'[i] = queue[i + 1] /\ i + 1 \in 1..Len(queue)
      /\ t = queue[1] /\ Len(queue) >= 1
  BY <1>1, HeadTailProperties, LenProperties, EmptySeq
<1>3. \A i \in 1..Len(queue') : queue'[i] # t /\ queue'[i] \in Calls
  BY <1>2, ElementOfSeq DEF PoolInv, PoolTypeOK
<1>4. \E step \in {"running", "reading"} : Goto(t, step)
  BY DEF lend
<1>5. PoolTypeOK'
  <2>1. \A i, j \in 1..Len(queue') : queue'[i] = queue'[j] => i = j
    <3>1. \A i, j \in 1..Len(queue) : queue[i] = queue[j] => i = j
      BY DEF PoolInv, PoolTypeOK
    <3>2. SUFFICES ASSUME NEW i \in 1..Len(queue'), NEW j \in 1..Len(queue'),
                          queue'[i] = queue'[j]
                   PROVE  i = j
      OBVIOUS
    <3>3. queue[i + 1] = queue[j + 1] /\ i + 1 \in 1..Len(queue) /\ j + 1 \in 1..Len(queue)
      BY <1>2, <3>2
    <3> QED  BY <3>1, <3>3, <1>2
  <2>2. phase' \in [Calls -> Steps] /\ main' \subseteq Calls /\ second' \subseteq Calls
    <3>1. PICK step \in {"running", "reading"} : phase' = [phase EXCEPT ![t] = step]
      BY <1>4 DEF Goto
    <3>2. phase' \in [Calls -> Steps]
      BY <3>1 DEF PoolInv, PoolTypeOK, Steps
    <3> QED  BY <3>2 DEF lend, PoolInv, PoolTypeOK
  <2> QED  BY <2>1, <2>2, <1>2 DEF lend, PoolInv, PoolTypeOK
<1>6. \A i \in 1..Len(queue') : phase'[queue'[i]] \in {"connecting", "asking"}
  <2>1. PICK step \in {"running", "reading"} : phase' = [phase EXCEPT ![t] = step]
    BY <1>4 DEF Goto
  <2>2. SUFFICES ASSUME NEW i \in 1..Len(queue')
                 PROVE  phase'[queue'[i]] \in {"connecting", "asking"}
    OBVIOUS
  <2>3. phase[queue[i + 1]] \in {"connecting", "asking"}
    BY <1>2 DEF PoolInv, Holding
  <2>4. phase'[queue'[i]] = phase[queue'[i]]
    BY <2>1, <1>3 DEF PoolInv, PoolTypeOK
  <2> QED  BY <2>3, <2>4, <1>2
<1>7. InUse' <= PoolSize
  <2>1. /\ Cardinality(main \cup {t}) <= Cardinality(main) + 1
        /\ Cardinality(second \cup {t}) <= Cardinality(second) + 1
        /\ Cardinality(main \cup {t}) \in Nat /\ Cardinality(second \cup {t}) \in Nat
    BY HoldersFinite, OneMoreOneLess DEF PoolInv
  <2>2. Cardinality(main) \in Nat /\ Cardinality(second) \in Nat
        /\ Cardinality(main) + Cardinality(second) < PoolSize
    BY <1>1, HoldersFinite DEF PoolInv, InUse
  <2>3. \/ main' = main \cup {t} /\ second' = second
        \/ main' = main /\ second' = second \cup {t}
    BY DEF lend
  <2>4. CASE main' = main \cup {t} /\ second' = second
    BY <2>1, <2>2, <2>4 DEF InUse
  <2>5. CASE main' = main /\ second' = second \cup {t}
    BY <2>1, <2>2, <2>5 DEF InUse
  <2> QED  BY <2>3, <2>4, <2>5
<1>8. /\ main' = {s \in Calls : phase'[s] \in {"running", "asking", "reading"}} \cup Leaked'
      /\ second' = {s \in Calls : phase'[s] = "reading"}
      /\ \A s \in Calls : phase'[s] \in {"asking", "reading"} => s \in Transactions \cup Registrations
  <2>1. CASE phase[t] = "connecting"
    BY <2>1 DEF lend, PoolInv, PoolTypeOK, Holding, Leaked, Goto
  <2>2. CASE phase[t] = "asking"
    BY <2>2 DEF lend, PoolInv, PoolTypeOK, Holding, Leaked, Goto
  <2> QED  BY <1>1, <2>1, <2>2
<1> QED  BY <1>5, <1>6, <1>7, <1>8 DEF PoolInv, Holding

LEMMA Releases ==
  ASSUME PoolInv, NEW t \in Calls, main' \in {main, main \ {t}}, second' \in {second, second \ {t}}
  PROVE  InUse' <= PoolSize
<1>1. /\ Cardinality(main \ {t}) <= Cardinality(main) /\ Cardinality(main \ {t}) \in Nat
      /\ Cardinality(second \ {t}) <= Cardinality(second) /\ Cardinality(second \ {t}) \in Nat
  BY HoldersFinite, OneMoreOneLess DEF PoolInv
<1>2. Cardinality(main) \in Nat /\ Cardinality(second) \in Nat
      /\ Cardinality(main) + Cardinality(second) <= PoolSize
  BY HoldersFinite DEF PoolInv, Holding, InUse
<1>3. /\ Cardinality(main') \in Nat /\ Cardinality(main') <= Cardinality(main)
      /\ Cardinality(second') \in Nat /\ Cardinality(second') <= Cardinality(second)
  <2>1. CASE main' = main /\ second' = second
    BY <1>1, <1>2, <2>1
  <2>2. CASE main' = main \ {t} /\ second' = second
    BY <1>1, <1>2, <2>2
  <2>3. CASE main' = main /\ second' = second \ {t}
    BY <1>1, <1>2, <2>3
  <2>4. CASE main' = main \ {t} /\ second' = second \ {t}
    BY <1>1, <1>2, <2>4
  <2> QED  BY <2>1, <2>2, <2>3, <2>4
<1> QED  BY <1>2, <1>3 DEF InUse

LEMMA ReadDoneStep ==
  ASSUME PoolInv, NEW t \in Calls, readDone(t)
  PROVE  PoolInv'
<1>1. PoolTypeOK'
  BY DEF readDone, AfterRead, PoolInv, PoolTypeOK, Steps, Goto
<1>2. InUse' <= PoolSize
  BY Releases DEF readDone, AfterRead
<1>3. Holding'
  BY <1>2, Stays DEF readDone, AfterRead, PoolInv, PoolTypeOK, Holding, Leaked, Goto
<1> QED  BY <1>1, <1>3 DEF PoolInv

LEMMA RollbackStep ==
  ASSUME PoolInv, NEW t \in Calls, rollback(t)
  PROVE  PoolInv'
<1>1. PoolTypeOK'
  BY DEF rollback, AfterRollback, PoolInv, PoolTypeOK, Steps, Goto
<1>2. InUse' <= PoolSize
  BY Releases DEF rollback, AfterRollback
<1>3. Holding'
  BY <1>2, Stays DEF rollback, AfterRollback, PoolInv, PoolTypeOK, Holding, Leaked, Goto
<1> QED  BY <1>1, <1>3 DEF PoolInv

LEMMA FinishStep ==
  ASSUME PoolInv, NEW t \in Calls, finish(t)
  PROVE  PoolInv'
<1>1. PoolTypeOK'
  BY DEF finish, PoolInv, PoolTypeOK, Steps, Goto
<1>2. InUse' <= PoolSize
  BY Releases DEF finish
<1>3. Holding'
  BY <1>2, Stays DEF finish, PoolInv, PoolTypeOK, Holding, Leaked, Goto
<1> QED  BY <1>1, <1>3 DEF PoolInv

LEMMA PoolInvariant == PoolSpec => []PoolInv
<1>1. PoolInv /\ UNCHANGED poolVars => PoolInv'
  BY DEF poolVars, PoolInv, PoolTypeOK, Holding, Leaked, InUse
<1>2. PoolInv /\ [PoolNext]_poolVars => PoolInv'
  BY <1>1, ConnectStep, ReadStep, LendStep, ReadDoneStep, RollbackStep, FinishStep
     DEF PoolNext, PoolStep, Rest
<1> QED  BY <1>2, PoolInitHolds, PTL DEF PoolSpec

\* Every variable of ConnectionPool stays in its range and no call waits twice,
\* for every number of calls and connections.
THEOREM PoolTypeCorrect == PoolSpec => []PoolTypeOK
BY PoolInvariant, PTL DEF PoolInv

\* On every path, however many calls compete, only a committed registration
\* keeps a connection after its end.
THEOREM OnlyRegistrationsLeakHolds == PoolSpec => []OnlyRegistrationsLeak
<1>1. PoolInv => OnlyRegistrationsLeak
  BY DEF PoolInv, PoolTypeOK, Holding, OnlyRegistrationsLeak, Ended, Leaked
<1> QED  BY <1>1, PoolInvariant, PTL

LEMMA JamHolders ==
  ASSUME PoolInv, Jammed
  PROVE  /\ Cardinality(main) = PoolSize
         /\ \A t \in main : t \in Leaked \/ phase[t] = "asking"
<1>1. second = {}
  BY DEF Jammed, PoolInv, Holding
<1>2. Cardinality(main) >= PoolSize /\ Cardinality(main) <= PoolSize
  BY <1>1, FS_EmptySet, HoldersFinite DEF Jammed, InUse, PoolInv, Holding
<1>3. Cardinality(main) = PoolSize
  BY <1>2, HoldersFinite DEF PoolInv
<1> QED  BY <1>3 DEF Jammed, PoolInv, PoolTypeOK, Holding

\* However many connections the pool has, the calls stop for ever only when all
\* of them are lost to registrations or kept by transactions that want another.
THEOREM JamOnlyWhenFullHolds == PoolSpec => []JamOnlyWhenFull
<1>1. PoolInv => JamOnlyWhenFull
  BY JamHolders DEF JamOnlyWhenFull
<1> QED  BY <1>1, PoolInvariant, PTL

\* While fewer transactions and registrations have come than the pool has
\* connections it does not jam, whatever the other calls do.
THEOREM NoJamHolds == PoolSpec => []NoJam
<1>1. PoolInv => NoJam
  <2> SUFFICES ASSUME PoolInv, Cardinality(Started) < PoolSize, Jammed
               PROVE  FALSE
    BY DEF NoJam
  <2>1. main \subseteq Started
    BY JamHolders DEF PoolInv, PoolTypeOK, Holding, Leaked, Started
  <2>2. IsFiniteSet(Started)
    BY FS_Subset DEF Started
  <2>3. Cardinality(main) <= Cardinality(Started) /\ Cardinality(Started) \in Nat
    BY <2>1, <2>2, FS_Subset, FS_CardinalityType
  <2> QED  BY <2>3, JamHolders
<1> QED  BY <1>1, PoolInvariant, PTL

=============================================================================
