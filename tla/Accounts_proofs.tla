-------------------------- MODULE Accounts_proofs --------------------------
(* Proofs about Accounts: no column of a user is lost but by a stale save,  *)
(* a blocked user gets no session, a code is accepted once, children stay   *)
(* with their user.                                                         *)
EXTENDS Accounts, TLAPS

USE AccountsAssumption

\* The programs, and what the calls that have them write.
LEMMA Programs ==
  ASSUME NEW k \in DOMAIN Calls
  PROVE  LET p == Calls[k].program
             w == Calls[k].columns
         IN /\ Calls[k].relations = {} \/ p = <<"findUser", "saveUser">>
            /\ \/ p = <<"findUser", "saveUser">> /\ "devices" \notin w
               \/ p = <<"findUser", "comparePin", "saveUser">> /\ "devices" \notin w
               \/ p = <<"findChild", "saveChild">>
               \/ p = <<"updateColumn">> /\ "devices" \notin w
               \/ p = <<"findAccount", "comparePin", "updateColumn">> /\ "devices" \notin w
               \/ p = <<"sendCode", "findCode", "storeCode">>
               \/ p = <<"findCode", "checkCode", "useCode", "updateColumn">> /\ "devices" \notin w
               \/ p = <<"findCode", "checkCode", "useCode", "findAccount", "updateColumn">>
                    /\ "devices" \notin w
               \/ p = <<"findLogin", "saveToken">> /\ w = {}
               \/ p = <<"findCode", "checkCode", "useCode", "findLogin", "updateDevices", "saveToken">>
                    /\ w = {"devices"}
               \/ p = <<"deleteTokens">>
               \/ p = <<"findAny", "renumber">>
               \/ p = <<"findAny", "deleteRows">>
<1> USE DEF Call, WholeRow, AskCode, CheckCodeAndSet, StoreChild
<1>1. CASE k = "deleteUser"
  <2>1. Calls[k] = deleteUser
    BY <1>1 DEF Calls
  <2> QED  BY <2>1 DEF deleteUser
<1>2. CASE k = "deleteUserNew"
  <2>1. Calls[k] = deleteUserNew
    BY <1>2 DEF Calls
  <2> QED  BY <2>1 DEF deleteUserNew
<1>3. CASE k = "deleteProfileIcon"
  <2>1. Calls[k] = deleteProfileIcon
    BY <1>3 DEF Calls
  <2> QED  BY <2>1 DEF deleteProfileIcon
<1>4. CASE k = "updateProfileIcon"
  <2>1. Calls[k] = updateProfileIcon
    BY <1>4 DEF Calls
  <2> QED  BY <2>1 DEF updateProfileIcon
<1>5. CASE k = "updateStaticQR"
  <2>1. Calls[k] = updateStaticQR
    BY <1>5 DEF Calls
  <2> QED  BY <2>1 DEF updateStaticQR
<1>6. CASE k = "handleKycEvent"
  <2>1. Calls[k] = handleKycEvent
    BY <1>6 DEF Calls
  <2> QED  BY <2>1 DEF handleKycEvent
<1>7. CASE k = "updateUserProfile"
  <2>1. Calls[k] = updateUserProfile
    BY <1>7 DEF Calls
  <2> QED  BY <2>1 DEF updateUserProfile
<1>8. CASE k = "editUserProfile"
  <2>1. Calls[k] = editUserProfile
    BY <1>8 DEF Calls
  <2> QED  BY <2>1 DEF editUserProfile
<1>9. CASE k = "updateUserKycDetails"
  <2>1. Calls[k] = updateUserKycDetails
    BY <1>9 DEF Calls
  <2> QED  BY <2>1 DEF updateUserKycDetails
<1>10. CASE k = "setPin"
  <2>1. Calls[k] = setPin
    BY <1>10 DEF Calls
  <2> QED  BY <2>1 DEF setPin
<1>11. CASE k = "changeTransferPin"
  <2>1. Calls[k] = changeTransferPin
    BY <1>11 DEF Calls
  <2> QED  BY <2>1 DEF changeTransferPin
<1>12. CASE k = "requestOtp"
  <2>1. Calls[k] = requestOtp
    BY <1>12 DEF Calls
  <2> QED  BY <2>1 DEF requestOtp
<1>13. CASE k = "changeAppLockPin"
  <2>1. Calls[k] = changeAppLockPin
    BY <1>13 DEF Calls
  <2> QED  BY <2>1 DEF changeAppLockPin, requestOtp
<1>14. CASE k = "changeTransactionLockPin"
  <2>1. Calls[k] = changeTransactionLockPin
    BY <1>14 DEF Calls
  <2> QED  BY <2>1 DEF changeTransactionLockPin, requestOtp
<1>15. CASE k = "sendVerificationCode"
  <2>1. Calls[k] = sendVerificationCode
    BY <1>15 DEF Calls
  <2> QED  BY <2>1 DEF sendVerificationCode, requestOtp
<1>16. CASE k = "verifyAppLockPinOtp"
  <2>1. Calls[k] = verifyAppLockPinOtp
    BY <1>16 DEF Calls
  <2> QED  BY <2>1 DEF verifyAppLockPinOtp
<1>17. CASE k = "verifyCodeAndUpdateUserPin"
  <2>1. Calls[k] = verifyCodeAndUpdateUserPin
    BY <1>17 DEF Calls
  <2> QED  BY <2>1 DEF verifyCodeAndUpdateUserPin
<1>18. CASE k = "verifyTransactionLockPinOtp"
  <2>1. Calls[k] = verifyTransactionLockPinOtp
    BY <1>18 DEF Calls
  <2>2. /\ Calls[k].program = <<"findCode", "checkCode", "useCode", "findAccount", "updateColumn">>
        /\ Calls[k].columns = {"transferPin"} /\ Calls[k].relations = {}
    BY <2>1 DEF verifyTransactionLockPinOtp
  <2> QED  BY <2>2
<1>19. CASE k = "getUserData"
  <2>1. Calls[k] = getUserData
    BY <1>19 DEF Calls
  <2> QED  BY <2>1 DEF getUserData
<1>20. CASE k = "validateOTP"
  <2>1. Calls[k] = validateOTP
    BY <1>20 DEF Calls
  <2> QED  BY <2>1 DEF validateOTP
<1>21. CASE k = "validateOTPNew"
  <2>1. Calls[k] = validateOTPNew
    BY <1>21 DEF Calls
  <2> QED  BY <2>1 DEF validateOTPNew, validateOTP
<1>22. CASE k = "revokeAccessToken"
  <2>1. Calls[k] = revokeAccessToken
    BY <1>22 DEF Calls
  <2> QED  BY <2>1 DEF revokeAccessToken
<1>23. CASE k = "createBeneficiary"
  <2>1. Calls[k] = createBeneficiary
    BY <1>23 DEF Calls
  <2> QED  BY <2>1 DEF createBeneficiary
<1>24. CASE k = "updateBeneficiary"
  <2>1. Calls[k] = updateBeneficiary
    BY <1>24 DEF Calls
  <2> QED  BY <2>1 DEF updateBeneficiary
<1>25. CASE k = "removeBeneficiary"
  <2>1. Calls[k] = removeBeneficiary
    BY <1>25 DEF Calls
  <2> QED  BY <2>1 DEF removeBeneficiary
<1>26. k \in {"deleteUser", "deleteUserNew", "deleteProfileIcon", "updateProfileIcon",
           "updateStaticQR", "handleKycEvent", "updateUserProfile", "editUserProfile",
           "updateUserKycDetails", "setPin", "changeTransferPin", "requestOtp",
           "changeAppLockPin", "changeTransactionLockPin", "sendVerificationCode",
           "verifyAppLockPinOtp", "verifyCodeAndUpdateUserPin", "verifyTransactionLockPinOtp",
           "getUserData", "validateOTP", "validateOTPNew", "revokeAccessToken",
           "createBeneficiary", "updateBeneficiary", "removeBeneficiary"}
  BY DEF Calls
<1> QED  BY <1>1, <1>2, <1>3, <1>4, <1>5, <1>6, <1>7, <1>8, <1>9, <1>10, <1>11, <1>12, <1>13,
            <1>14, <1>15, <1>16, <1>17, <1>18, <1>19, <1>20, <1>21, <1>22, <1>23, <1>24, <1>25,
            <1>26

\* Where the steps are in the programs.
LEMMA Places ==
  ASSUME NEW t \in Tasks, op[t].kind \in DOMAIN Calls, pc[t] \in Nat \ {0},
         pc[t] <= Len(Program(t)) + 1
  PROVE  /\ At(t, "saveUser") => Did(t, "findUser") /\ ~HasWritten(t) /\ "devices" \notin Sets(t)
         /\ At(t, "updateColumn") => ~HasRead(t) /\ "devices" \notin Sets(t)
         /\ At(t, "updateDevices") => Did(t, "findLogin") /\ ~HasWritten(t) /\ Sets(t) = {"devices"}
         /\ At(t, "saveToken") => Did(t, "findLogin") /\ "isBlocked" \notin Sets(t)
         /\ At(t, "saveChild") => ~HasRead(t)
         /\ Did(t, "findLogin") => ~At(t, "findUser") /\ ~At(t, "findLogin")
<1> USE DEF At, Did, HasRead, HasWritten, Running, Program, Sets
<1> DEFINE p == Calls[op[t].kind].program
           w == Calls[op[t].kind].columns
<1>1. CASE /\ p = <<"findUser", "saveUser">>
          /\ "devices" \notin w
  BY <1>1
<1>2. CASE /\ p = <<"findUser", "comparePin", "saveUser">>
          /\ "devices" \notin w
  BY <1>2
<1>3. CASE p = <<"findChild", "saveChild">>
  BY <1>3
<1>4. CASE /\ p = <<"updateColumn">>
          /\ "devices" \notin w
  BY <1>4
<1>5. CASE /\ p = <<"findAccount", "comparePin", "updateColumn">>
          /\ "devices" \notin w
  BY <1>5
<1>6. CASE p = <<"sendCode", "findCode", "storeCode">>
  BY <1>6
<1>7. CASE /\ p = <<"findCode", "checkCode", "useCode", "updateColumn">>
          /\ "devices" \notin w
  BY <1>7
<1>8. CASE /\ p = <<"findCode", "checkCode", "useCode", "findAccount", "updateColumn">>
          /\ "devices" \notin w
  BY <1>8
<1>9. CASE /\ p = <<"findLogin", "saveToken">>
          /\ w = {}
  BY <1>9
<1>10. CASE /\ p = <<"findCode", "checkCode", "useCode", "findLogin", "updateDevices", "saveToken">>
          /\ w = {"devices"}
  BY <1>10
<1>11. CASE p = <<"deleteTokens">>
  BY <1>11
<1>12. CASE p = <<"findAny", "renumber">>
  BY <1>12
<1>13. CASE p = <<"findAny", "deleteRows">>
  BY <1>13
<1> QED  BY <1>1, <1>2, <1>3, <1>4, <1>5, <1>6, <1>7, <1>8, <1>9, <1>10, <1>11, <1>12, <1>13,
            Programs

LEMMA CodePlaces ==
  ASSUME NEW t \in Tasks, op[t].kind \in DOMAIN Calls, pc[t] \in Nat \ {0},
         pc[t] <= Len(Program(t)) + 1
  PROVE  /\ ~(Asks(t) /\ Checks(t))
         /\ At(t, "sendCode") <=> Asks(t) /\ t \notin over /\ pc[t] = 1
         /\ At(t, "findCode") <=> t \notin over /\ ((Asks(t) /\ pc[t] = 2) \/ (Checks(t) /\ pc[t] = 1))
         /\ At(t, "storeCode") <=> Asks(t) /\ t \notin over /\ pc[t] = 3
         /\ At(t, "checkCode") <=> Checks(t) /\ t \notin over /\ pc[t] = 2
         /\ At(t, "useCode") <=> Checks(t) /\ t \notin over /\ pc[t] = 3
<1> USE DEF At, Running, Program, Asks, Checks
<1> DEFINE p == Calls[op[t].kind].program
<1>1. CASE p = <<"findUser", "saveUser">>
  BY <1>1
<1>2. CASE p = <<"findUser", "comparePin", "saveUser">>
  BY <1>2
<1>3. CASE p = <<"findChild", "saveChild">>
  BY <1>3
<1>4. CASE p = <<"updateColumn">>
  BY <1>4
<1>5. CASE p = <<"findAccount", "comparePin", "updateColumn">>
  BY <1>5
<1>6. CASE p = <<"sendCode", "findCode", "storeCode">>
  BY <1>6
<1>7. CASE p = <<"findCode", "checkCode", "useCode", "updateColumn">>
  BY <1>7
<1>8. CASE p = <<"findCode", "checkCode", "useCode", "findAccount", "updateColumn">>
  BY <1>8
<1>9. CASE p = <<"findLogin", "saveToken">>
  BY <1>9
<1>10. CASE p = <<"findCode", "checkCode", "useCode", "findLogin", "updateDevices", "saveToken">>
  BY <1>10
<1>11. CASE p = <<"deleteTokens">>
  BY <1>11
<1>12. CASE p = <<"findAny", "renumber">>
  BY <1>12
<1>13. CASE p = <<"findAny", "deleteRows">>
  BY <1>13
<1> QED  BY <1>1, <1>2, <1>3, <1>4, <1>5, <1>6, <1>7, <1>8, <1>9, <1>10, <1>11, <1>12, <1>13,
            Programs

LEMMA ChildPlaces ==
  ASSUME NEW t \in Tasks, op[t].kind \in DOMAIN Calls, pc[t] \in Nat \ {0}, t \notin over
  PROVE  /\ Calls[op[t].kind].relations # {} =>
              /\ pc[t] = 1 => At(t, "findUser")
              /\ Program(t) = <<"findUser", "saveUser">>
         /\ Program(t) = <<"findChild", "saveChild">> => (pc[t] = 1 => At(t, "findChild"))
         /\ \A i \in 1..Len(Program(t)) :
              Program(t)[i] = "saveChild" => Program(t) = <<"findChild", "saveChild">>
<1>1. Calls[op[t].kind].relations # {} => Program(t) = <<"findUser", "saveUser">>
  BY Programs DEF Program
<1>2. ASSUME NEW i \in 1..Len(Program(t)), Program(t)[i] = "saveChild"
      PROVE  Program(t) = <<"findChild", "saveChild">>
  <2>1. CASE Program(t) = <<"findUser", "saveUser">>
    BY <1>2, <2>1
  <2>2. CASE Program(t) = <<"findUser", "comparePin", "saveUser">>
    BY <1>2, <2>2
  <2>3. CASE Program(t) = <<"findChild", "saveChild">>
    BY <1>2, <2>3
  <2>4. CASE Program(t) = <<"updateColumn">>
    BY <1>2, <2>4
  <2>5. CASE Program(t) = <<"findAccount", "comparePin", "updateColumn">>
    BY <1>2, <2>5
  <2>6. CASE Program(t) = <<"sendCode", "findCode", "storeCode">>
    BY <1>2, <2>6
  <2>7. CASE Program(t) = <<"findCode", "checkCode", "useCode", "updateColumn">>
    BY <1>2, <2>7
  <2>8. CASE Program(t) = <<"findCode", "checkCode", "useCode", "findAccount", "updateColumn">>
    BY <1>2, <2>8
  <2>9. CASE Program(t) = <<"findLogin", "saveToken">>
    BY <1>2, <2>9
  <2>10. CASE Program(t) = <<"findCode", "checkCode", "useCode", "findLogin", "updateDevices", "saveToken">>
    BY <1>2, <2>10
  <2>11. CASE Program(t) = <<"deleteTokens">>
    BY <1>2, <2>11
  <2>12. CASE Program(t) = <<"findAny", "renumber">>
    BY <1>2, <2>12
  <2>13. CASE Program(t) = <<"findAny", "deleteRows">>
    BY <1>2, <2>13
  <2> QED  BY <2>1, <2>2, <2>3, <2>4, <2>5, <2>6, <2>7, <2>8, <2>9, <2>10, <2>11, <2>12, <2>13,
              Programs DEF Program
<1>3. Program(t) = <<"findUser", "saveUser">> /\ pc[t] = 1 => At(t, "findUser")
  BY DEF At, Running
<1>4. Program(t) = <<"findChild", "saveChild">> /\ pc[t] = 1 => At(t, "findChild")
  BY DEF At, Running
<1> QED  BY <1>1, <1>2, <1>3, <1>4

LEMMA CodeDone ==
  ASSUME NEW t \in Tasks, op[t].kind \in DOMAIN Calls, pc[t] \in Nat \ {0},
         pc[t] <= Len(Program(t)) + 1
  PROVE  /\ Did(t, "storeCode") <=> Asks(t) /\ pc[t] > 3
         /\ Did(t, "useCode") <=> Checks(t) /\ pc[t] > 3
<1> USE DEF Did, Program, Asks, Checks
<1> DEFINE p == Calls[op[t].kind].program
<1>1. CASE p = <<"findUser", "saveUser">>
  BY <1>1
<1>2. CASE p = <<"findUser", "comparePin", "saveUser">>
  BY <1>2
<1>3. CASE p = <<"findChild", "saveChild">>
  BY <1>3
<1>4. CASE p = <<"updateColumn">>
  BY <1>4
<1>5. CASE p = <<"findAccount", "comparePin", "updateColumn">>
  BY <1>5
<1>6. CASE p = <<"sendCode", "findCode", "storeCode">>
  BY <1>6
<1>7. CASE p = <<"findCode", "checkCode", "useCode", "updateColumn">>
  BY <1>7
<1>8. CASE p = <<"findCode", "checkCode", "useCode", "findAccount", "updateColumn">>
  BY <1>8
<1>9. CASE p = <<"findLogin", "saveToken">>
  BY <1>9
<1>10. CASE p = <<"findCode", "checkCode", "useCode", "findLogin", "updateDevices", "saveToken">>
  BY <1>10
<1>11. CASE p = <<"deleteTokens">>
  BY <1>11
<1>12. CASE p = <<"findAny", "renumber">>
  BY <1>12
<1>13. CASE p = <<"findAny", "deleteRows">>
  BY <1>13
<1> QED  BY <1>1, <1>2, <1>3, <1>4, <1>5, <1>6, <1>7, <1>8, <1>9, <1>10, <1>11, <1>12, <1>13,
            Programs

-----------------------------------------------------------------------------
\* A task moves on in its program, or gives up.
Moved(t) ==
  /\ Running(t) /\ op' = op
  /\ \/ pc' = [pc EXCEPT ![t] = @ + 1] /\ over' = over
     \/ pc' = pc /\ over' = over \cup {t}

LEMMA StepMoves ==
  ASSUME NEW t \in Tasks, Step(t)
  PROVE  Moved(t)
<1> USE DEF Moved, Advance, Refuse, At
<1>1. CASE findUser(t) \/ comparePin(t) \/ saveUser(t) \/ updateColumn(t) \/ findAccount(t)
  BY <1>1 DEF findUser, comparePin, saveUser, updateColumn, findAccount
<1>2. CASE sendCode(t) \/ findCode(t) \/ storeCode(t) \/ checkCode(t) \/ useCode(t)
  BY <1>2 DEF sendCode, findCode, storeCode, checkCode, useCode
<1>3. CASE findLogin(t) \/ updateDevices(t) \/ createRefreshToken(t) \/ deleteTokens(t)
  BY <1>3 DEF findLogin, updateDevices, createRefreshToken, deleteTokens
<1>4. CASE findChild(t) \/ saveChild(t) \/ findAny(t) \/ renumber(t) \/ deleteRows(t)
  BY <1>4 DEF findChild, saveChild, findAny, renumber, deleteRows
<1>5. CASE fail(t)
  BY <1>5 DEF fail
<1> QED  BY <1>1, <1>2, <1>3, <1>4, <1>5 DEF Step

LEMMA AtOne ==
  ASSUME NEW t \in Tasks, NEW x, NEW y, At(t, x), At(t, y)
  PROVE  x = y
BY DEF At

\* Positions after a step, of the task that takes it and of the others.
LEMMA Positions ==
  ASSUME NEW t \in Tasks, TypeOK, Moved(t)
  PROVE  /\ \A s \in Tasks \ {t} : pc'[s] = pc[s] /\ (s \in over' <=> s \in over)
         /\ t \notin over
         /\ \/ pc' # pc /\ pc'[t] = pc[t] + 1 /\ t \notin over'
            \/ pc' = pc /\ t \in over'
         /\ pc' \in [Tasks -> Nat \ {0}] /\ pc \in [Tasks -> Nat \ {0}]
         /\ pc[t] <= Len(Program(t))
<1>1. pc \in [Tasks -> Nat \ {0}] /\ over \subseteq Tasks
  BY DEF TypeOK
<1>2. t \notin over /\ pc[t] <= Len(Program(t))
  BY DEF Moved, Running
<1>3. CASE pc' = [pc EXCEPT ![t] = @ + 1] /\ over' = over
  <2>1. pc'[t] = pc[t] + 1 /\ pc[t] + 1 # pc[t] /\ pc[t] + 1 \in Nat \ {0}
    BY <1>1, <1>3
  <2> QED  BY <1>1, <1>2, <1>3, <2>1
<1>4. CASE pc' = pc /\ over' = over \cup {t}
  BY <1>1, <1>2, <1>4
<1> QED  BY <1>3, <1>4 DEF Moved

\* Programs do not change.
LEMMA SameCalls ==
  ASSUME NEW t \in Tasks, Moved(t)
  PROVE  /\ op' = op
         /\ \A s \in Tasks : /\ Program(s)' = Program(s) /\ Sets(s)' = Sets(s)
                             /\ Asks(s)' = Asks(s) /\ Checks(s)' = Checks(s)
BY DEF Moved, Program, Sets, Asks, Checks

LEMMA DidNext ==
  ASSUME NEW t \in Tasks, TypeOK, Moved(t), NEW s \in Tasks, NEW x
  PROVE  Did(s, x)' <=> Did(s, x) \/ (s = t /\ pc' # pc /\ At(t, x))
<1>1. Program(s)' = Program(s)
  BY SameCalls
<1>2. CASE s # t \/ pc' = pc
  <2>1. pc'[s] = pc[s]
    BY <1>2, Positions
  <2> QED  BY <1>1, <1>2, <2>1 DEF Did
<1>3. CASE s = t /\ pc' # pc
  <2>1. pc'[s] = pc[s] + 1 /\ pc[s] \in Nat \ {0}
    BY <1>3, Positions
  <2>2. \A i : i \in 1..(pc'[s] - 1) <=> i \in 1..(pc[s] - 1) \/ i = pc[s]
    BY <2>1
  <2> QED  BY <1>1, <1>3, <2>2 DEF Did, At, Moved
<1> QED  BY <1>2, <1>3

\* What each step leaves alone.
LEMMA Frame ==
  ASSUME NEW t \in Tasks, Step(t)
  PROVE  /\ code' = code \/ storeCode(t) \/ useCode(t)
         /\ found' = found \/ findCode(t)
         /\ lastSent' = lastSent \/ sendCode(t)
         /\ tangled' = tangled \/ sendCode(t) \/ findCode(t)
         /\ row' = row \/ saveUser(t) \/ updateColumn(t) \/ updateDevices(t) \/ saveChild(t)
         /\ entity' = entity \/ findUser(t) \/ findLogin(t)
         /\ \/ missed' = missed
            \/ findUser(t) \/ findLogin(t)
            \/ saveUser(t) \/ updateColumn(t) \/ updateDevices(t) \/ saveChild(t)
         /\ tokens' = tokens \/ createRefreshToken(t) \/ deleteTokens(t)
         /\ loaded' = loaded \/ findUser(t) \/ findLogin(t) \/ findChild(t)
         /\ children' = children \/ saveUser(t) \/ saveChild(t) \/ renumber(t) \/ deleteRows(t)
         /\ torn' = torn \/ saveChild(t)
         /\ raced' = raced \/ findChild(t) \/ renumber(t)
<1> USE DEF history
<1>1. CASE findUser(t) \/ comparePin(t)
  BY <1>1 DEF findUser, comparePin, Read
<1>2. CASE saveUser(t) \/ updateColumn(t) \/ findAccount(t)
  BY <1>2 DEF saveUser, updateColumn, findAccount
<1>3. CASE sendCode(t) \/ findCode(t) \/ storeCode(t) \/ checkCode(t) \/ useCode(t)
  BY <1>3 DEF sendCode, findCode, storeCode, checkCode, useCode
<1>4. CASE findLogin(t) \/ updateDevices(t) \/ createRefreshToken(t) \/ deleteTokens(t)
  BY <1>4 DEF findLogin, updateDevices, createRefreshToken, deleteTokens, Read
<1>5. CASE findChild(t) \/ saveChild(t) \/ findAny(t)
  BY <1>5 DEF findChild, saveChild, findAny
<1>6. CASE renumber(t) \/ deleteRows(t) \/ fail(t)
  BY <1>6 DEF renumber, deleteRows, fail
<1> QED  BY <1>1, <1>2, <1>3, <1>4, <1>5, <1>6 DEF Step

\* A task that moves on from a step of these has taken it.
LEMMA StepTaken ==
  ASSUME NEW t \in Tasks, Step(t), pc' # pc
  PROVE  /\ At(t, "findUser") => findUser(t)
         /\ At(t, "findLogin") => findLogin(t) /\ MayEnter(row[op[t].user])
         /\ At(t, "sendCode") => sendCode(t)
         /\ At(t, "findCode") => findCode(t)
         /\ At(t, "storeCode") => storeCode(t)
         /\ At(t, "checkCode") => checkCode(t) /\ Valid(found[t])
         /\ At(t, "useCode") => useCode(t)
         /\ At(t, "findChild") => findChild(t)
<1> USE AtOne DEF Refuse
<1>1. CASE findUser(t) \/ comparePin(t) \/ saveUser(t) \/ updateColumn(t) \/ findAccount(t)
  BY <1>1 DEF findUser, comparePin, saveUser, updateColumn, findAccount
<1>2. CASE sendCode(t) \/ findCode(t) \/ storeCode(t) \/ checkCode(t) \/ useCode(t)
  BY <1>2 DEF sendCode, findCode, storeCode, checkCode, useCode
<1>3. CASE findLogin(t) \/ updateDevices(t) \/ createRefreshToken(t) \/ deleteTokens(t)
  BY <1>3 DEF findLogin, updateDevices, createRefreshToken, deleteTokens
<1>4. CASE findChild(t) \/ saveChild(t) \/ findAny(t) \/ renumber(t) \/ deleteRows(t)
  BY <1>4 DEF findChild, saveChild, findAny, renumber, deleteRows
<1>5. CASE fail(t)
  BY <1>5 DEF fail
<1> QED  BY <1>1, <1>2, <1>3, <1>4, <1>5 DEF Step

-----------------------------------------------------------------------------
(* Columns and sessions.                                                   *)

LEMMA OpFacts ==
  ASSUME TypeOK, NEW t \in Tasks
  PROVE  /\ op[t] \in Operations /\ op[t].kind \in DOMAIN Calls /\ op[t].user \in Users
         /\ op[t].item \in Items /\ op[t].newItem \in Items
         /\ pc[t] \in Nat \ {0}
BY DEF TypeOK

\* Whatever a step of another task changes in the table, a task has missed.
LEMMA OthersMiss ==
  ASSUME NEW t \in Tasks, TypeOK, Step(t), NEW s \in Tasks \ {t}
  PROVE  /\ entity'[s] = entity[s] /\ missed[s] \subseteq missed'[s]
         /\ \A u \in Users, c \in Columns : row'[u][c] # row[u][c] => <<u, c>> \in missed'[s]
<1>1. CASE findUser(t) \/ findLogin(t)
  BY <1>1 DEF findUser, findLogin, Read, TypeOK
<1>2. CASE saveUser(t)
  <2> DEFINE newRow == [c \in Columns |->
                          IF c = "transferPin" THEN row[op[t].user][c] ELSE Saved(t, c)]
  <2>1. /\ row' = [row EXCEPT ![op[t].user] = newRow] /\ entity' = entity
        /\ missed' = [r \in Tasks |-> IF r = t THEN missed[r] ELSE missed[r] \cup
             {<<op[t].user, c>> : c \in {x \in Columns : newRow[x] # row[op[t].user][x]}}]
    BY <1>2 DEF saveUser, Misses
  <2> HIDE DEF newRow
  <2>2. op[t].user \in Users /\ row \in [Users -> Row]
    BY OpFacts DEF TypeOK
  <2> QED  BY <2>1, <2>2
<1>3. CASE updateColumn(t)
  <2>1. /\ row' = [row EXCEPT ![op[t].user] = [c \in Columns |-> IF c \in Sets(t) THEN {t} ELSE @[c]]]
        /\ missed' = [r \in Tasks |-> IF r = t THEN missed[r] ELSE missed[r] \cup
             {<<op[t].user, c>> : c \in Sets(t)}]
        /\ entity' = entity
    BY <1>3 DEF updateColumn, Misses
  <2>2. op[t].user \in Users /\ row \in [Users -> Row]
    BY OpFacts DEF TypeOK
  <2> QED  BY <2>1, <2>2
<1>4. CASE updateDevices(t)
  <2>1. /\ row' = [row EXCEPT ![op[t].user]["devices"] = Devices(t)]
        /\ missed' = [r \in Tasks |-> IF r = t THEN missed[r] ELSE missed[r] \cup
             {<<op[t].user, "devices">>}]
        /\ entity' = entity
    BY <1>4 DEF updateDevices, Misses
  <2>2. op[t].user \in Users /\ row \in [Users -> Row]
    BY OpFacts DEF TypeOK
  <2> QED  BY <2>1, <2>2 DEF Row
<1>5. CASE saveChild(t) /\ ~UNCHANGED <<row, missed>>
  <2>1. /\ row' = [u \in Users |-> [row[u] EXCEPT !["kyc"] = {t}]]
        /\ missed' = [r \in Tasks |-> IF r = t THEN missed[r] ELSE missed[r] \cup
             {<<u, "kyc">> : u \in Users}]
        /\ entity' = entity
    BY <1>5 DEF saveChild, Misses
  <2>2. row \in [Users -> Row]
    BY DEF TypeOK
  <2> QED  BY <2>1, <2>2 DEF Row
<1>6. CASE saveChild(t) /\ UNCHANGED <<row, missed>>
  BY <1>6 DEF saveChild
<1> QED  BY <1>1, <1>2, <1>3, <1>4, <1>5, <1>6, Frame

LEMMA FreshStep ==
  ASSUME NEW t \in Tasks, IInv, Step(t)
  PROVE  Fresh'
<1>t. TypeOK /\ Fresh /\ Moved(t) /\ op' = op
  BY StepMoves, SameCalls DEF IInv
<1> SUFFICES ASSUME NEW s \in Tasks, HasRead(s)', NEW c \in Columns
             PROVE  \/ entity'[s][c] = row'[op[s].user][c]
                    \/ <<op[s].user, c>> \in missed'[s]
                    \/ HasWritten(s)' /\ c \in Sets(s)
  BY <1>t, SameCalls DEF Fresh
<1>u. op[s].user \in Users
  BY <1>t, OpFacts
<1>w. HasWritten(s) => HasWritten(s)'
  BY <1>t, DidNext DEF HasWritten
<1>1. CASE s # t
  <2>1. HasRead(s)
    BY <1>1, <1>t, DidNext DEF HasRead
  <2>2. \/ entity[s][c] = row[op[s].user][c]
        \/ <<op[s].user, c>> \in missed[s]
        \/ HasWritten(s) /\ c \in Sets(s)
    BY <2>1, <1>t DEF Fresh
  <2>3. /\ entity'[s] = entity[s] /\ missed[s] \subseteq missed'[s]
        /\ row'[op[s].user][c] # row[op[s].user][c] => <<op[s].user, c>> \in missed'[s]
    BY <1>1, <1>t, <1>u, OthersMiss
  <2> QED  BY <2>2, <2>3, <1>w
<1>2. CASE s = t /\ (findUser(t) \/ findLogin(t))
  <2>1. entity'[t] = row[op[t].user] /\ row' = row
    BY <1>2, <1>t DEF findUser, findLogin, Read, TypeOK
  <2> QED  BY <2>1, <1>2
<1>3. CASE s = t /\ ~findUser(t) /\ ~findLogin(t)
  <2>1. HasRead(t) /\ entity' = entity
    BY <1>3, <1>t, DidNext, StepTaken, Frame DEF HasRead
  <2>2. \/ entity[t][c] = row[op[t].user][c]
        \/ <<op[t].user, c>> \in missed[t]
        \/ HasWritten(t) /\ c \in Sets(t)
    BY <2>1, <1>t DEF Fresh
  <2>p. /\ At(t, "updateColumn") => ~HasRead(t)
        /\ At(t, "updateDevices") => Sets(t) = {"devices"}
        /\ At(t, "saveChild") => ~HasRead(t)
    BY <1>t, OpFacts, Places DEF IInv
  <2>3. ~updateColumn(t) /\ ~saveChild(t)
    BY <2>1, <2>p DEF updateColumn, saveChild
  <2>4. CASE row' = row /\ missed' = missed
    BY <2>1, <2>2, <2>4, <1>3, <1>w
  <2>5. CASE saveUser(t)
    <3> DEFINE newRow == [x \in Columns |->
                            IF x = "transferPin" THEN row[op[t].user][x] ELSE Saved(t, x)]
    <3>1. /\ row' = [row EXCEPT ![op[t].user] = newRow] /\ missed'[t] = missed[t]
          /\ At(t, "saveUser") /\ pc' = [pc EXCEPT ![t] = @ + 1]
      BY <2>5 DEF saveUser, Misses, Advance
    <3>2. HasWritten(t)'
      <4>1. pc' # pc
        BY <3>1, <1>t, Positions DEF TypeOK
      <4> QED  BY <4>1, <3>1, <1>t, DidNext DEF HasWritten
    <3>3. row'[op[t].user][c] = newRow[c]
      BY <3>1, <1>3, <1>u, <1>t DEF TypeOK
    <3>4. CASE c = "transferPin"
      BY <3>3, <3>4, <3>1, <2>1, <2>2, <1>3, <1>w
    <3>5. CASE c # "transferPin" /\ c \notin Sets(t)
      BY <3>3, <3>5, <2>1, <1>3 DEF Saved
    <3> QED  BY <3>2, <3>4, <3>5, <1>3
  <2>6. CASE updateDevices(t)
    <3>1. /\ row' = [row EXCEPT ![op[t].user]["devices"] = Devices(t)] /\ missed'[t] = missed[t]
          /\ At(t, "updateDevices") /\ pc' = [pc EXCEPT ![t] = @ + 1]
      BY <2>6 DEF updateDevices, Misses, Advance
    <3>2. HasWritten(t)'
      <4>1. pc' # pc
        BY <3>1, <1>t, Positions DEF TypeOK
      <4> QED  BY <4>1, <3>1, <1>t, DidNext DEF HasWritten
    <3>3. Sets(t) = {"devices"}
      BY <3>1, <2>p
    <3>4. c # "devices" => row'[op[t].user][c] = row[op[t].user][c]
      BY <3>1, <1>3, <1>u, <1>t DEF TypeOK, Row
    <3> QED  BY <3>1, <3>2, <3>3, <3>4, <2>1, <2>2, <1>3, <1>w
  <2> QED  BY <2>1, <2>3, <2>4, <2>5, <2>6, <1>3, Frame
<1> QED  BY <1>1, <1>2, <1>3

LEMMA EnteredStep ==
  ASSUME NEW t \in Tasks, IInv, Step(t)
  PROVE  Entered'
<1>t. TypeOK /\ Entered /\ Moved(t) /\ op' = op
  BY StepMoves, SameCalls DEF IInv
<1> SUFFICES ASSUME NEW s \in Tasks, Did(s, "findLogin")' PROVE ~Blocked(entity[s])'
  BY DEF Entered
<1>1. CASE Did(s, "findLogin") /\ s # t
  <2>1. entity'[s] = entity[s]
    BY <1>1, <1>t, OthersMiss
  <2> QED  BY <1>1, <1>t, <2>1 DEF Entered, Blocked
<1>2. CASE Did(s, "findLogin") /\ s = t
  <2>1. ~At(t, "findUser") /\ ~At(t, "findLogin")
    BY <1>2, <1>t, OpFacts, Places DEF IInv
  <2>2. entity' = entity
    BY <2>1, Frame DEF findUser, findLogin
  <2> QED  BY <1>2, <1>t, <2>2 DEF Entered, Blocked
<1>3. CASE ~Did(s, "findLogin")
  <2>1. s = t /\ findLogin(t) /\ MayEnter(row[op[t].user])
    BY <1>3, <1>t, DidNext, StepTaken
  <2>2. entity'[t] = row[op[t].user]
    BY <2>1, <1>t DEF findLogin, Read, TypeOK
  <2> QED  BY <2>1, <2>2, <1>t DEF MayEnter, Blocked
<1> QED  BY <1>1, <1>2, <1>3

-----------------------------------------------------------------------------
(* Codes.                                                                  *)

\* A step at a place of a code's program is the step that stands there.
LEMMA CodeStep ==
  ASSUME NEW t \in Tasks, IInv, Step(t)
  PROVE  /\ sendCode(t) => Asks(t) /\ t \notin over /\ pc[t] = 1
         /\ findCode(t) => t \notin over /\ ((Asks(t) /\ pc[t] = 2) \/ (Checks(t) /\ pc[t] = 1))
         /\ storeCode(t) => Asks(t) /\ t \notin over /\ pc[t] = 3
         /\ useCode(t) => Checks(t) /\ t \notin over /\ pc[t] = 3
         /\ pc' # pc /\ Asks(t) /\ pc[t] = 1 => sendCode(t)
         /\ pc' # pc /\ Asks(t) /\ pc[t] = 3 => storeCode(t)
         /\ pc' # pc /\ Checks(t) /\ pc[t] = 1 => findCode(t)
         /\ pc' # pc /\ Checks(t) /\ pc[t] = 2 => Valid(found[t])
         /\ pc' # pc /\ Checks(t) /\ pc[t] = 3 => useCode(t)
<1>1. TypeOK /\ Moved(t)
  BY StepMoves DEF IInv
<1>2. t \notin over /\ pc[t] \in Nat \ {0} /\ op[t].kind \in DOMAIN Calls
      /\ pc[t] <= Len(Program(t)) + 1
  BY <1>1, Positions, OpFacts DEF IInv
<1> QED  BY <1>2, CodePlaces, StepTaken DEF sendCode, findCode, storeCode, useCode

\* The next value of the code table, of the codes in hand and of the marks.
LEMMA CodeEffects ==
  ASSUME NEW t \in Tasks, IInv, Step(t)
  PROVE  /\ \A u \in Users :
              \/ code'[u] = code[u]
              \/ u = op[t].user /\ storeCode(t) /\ code'[u] = [by |-> t, state |-> "new"]
              \/ u = op[t].user /\ useCode(t) /\ code'[u] = [found[t] EXCEPT !.state = "used"]
         /\ \A s \in Tasks :
              \/ found'[s] = found[s]
              \/ s = t /\ findCode(t) /\ found'[s] = code[op[t].user]
         /\ \A u \in Users :
              \/ lastSent'[u] = lastSent[u]
              \/ u = op[t].user /\ sendCode(t) /\ lastSent'[u] = t
         /\ tangled \subseteq tangled'
         /\ sendCode(t) \/ findCode(t) => Overlaps(t) = {} \/ Overlaps(t) \cup {t} \subseteq tangled'
<1>1. /\ op[t].user \in Users /\ code \in [Users -> Code \cup {NoCode}]
      /\ found \in [Tasks -> Code \cup {NoCode}] /\ lastSent \in [Users -> Tasks \cup {"none"}]
  BY OpFacts DEF IInv, TypeOK
<1>2. CASE storeCode(t)
  <2>1. /\ found' = found /\ lastSent' = lastSent /\ tangled' = tangled
        /\ code' = code \/ code' = [code EXCEPT ![op[t].user] = [by |-> t, state |-> "new"]]
    BY <1>2 DEF storeCode, NewCode, history
  <2>2. ~sendCode(t) /\ ~findCode(t)
    BY <1>2, CodeStep
  <2> QED  BY <1>1, <1>2, <2>1, <2>2
<1>3. CASE useCode(t)
  <2>1. /\ found' = found /\ lastSent' = lastSent /\ tangled' = tangled
        /\ code' = [code EXCEPT ![op[t].user] = [found[t] EXCEPT !.state = "used"]]
    BY <1>3 DEF useCode, history
  <2>2. ~sendCode(t) /\ ~findCode(t)
    BY <1>3, CodeStep
  <2>3. \A u \in Users : code'[u] = code[u]
           \/ (u = op[t].user /\ code'[u] = [found[t] EXCEPT !.state = "used"])
    BY <1>1, <2>1
  <2> QED  BY <1>3, <2>1, <2>2, <2>3
<1>4. CASE findCode(t)
  <2>1. /\ code' = code /\ lastSent' = lastSent /\ Tangle(t)
        /\ found' = [found EXCEPT ![t] = code[op[t].user]]
    BY <1>4 DEF findCode
  <2> QED  BY <1>1, <1>4, <2>1 DEF Tangle
<1>5. CASE sendCode(t)
  <2>1. /\ code' = code /\ found' = found /\ Tangle(t)
        /\ lastSent' = [lastSent EXCEPT ![op[t].user] = t]
    BY <1>5 DEF sendCode
  <2> QED  BY <1>1, <1>5, <2>1 DEF Tangle
<1>6. CASE ~storeCode(t) /\ ~useCode(t) /\ ~findCode(t) /\ ~sendCode(t)
  BY <1>6, Frame
<1> QED  BY <1>2, <1>3, <1>4, <1>5, <1>6

LEMMA StoredOnceStep ==
  ASSUME NEW t \in Tasks, IInv, Step(t)
  PROVE  /\ \A u \in Users : code'[u] # NoCode => code'[u].by \in Stored'
         /\ \A s \in Tasks : found'[s] # NoCode => found'[s].by \in Stored'
<1>t. TypeOK /\ CodesOK /\ Moved(t) /\ op[t].user \in Users
  BY StepMoves, OpFacts DEF IInv
<1>p. \A s \in Tasks : pc'[s] >= pc[s] /\ pc[s] \in Nat /\ pc'[s] \in Nat
  <2>1. ASSUME NEW s \in Tasks PROVE pc'[s] \in {pc[s], pc[s] + 1} /\ pc[s] \in Nat
    BY <1>t, Positions
  <2> QED  BY <2>1
<1>a. \A s \in Tasks : Asks(s)' = Asks(s)
  BY <1>t, SameCalls
<1>s. Stored \subseteq Stored'
  BY <1>p, <1>a DEF Stored
<1>1. ASSUME NEW u \in Users, code'[u] # NoCode PROVE code'[u].by \in Stored'
  <2>1. CASE code'[u] = code[u]
    BY <2>1, <1>1, <1>s, <1>t DEF CodesOK
  <2>2. CASE code'[u] # code[u] /\ storeCode(t) /\ code'[u] = [by |-> t, state |-> "new"]
    <3>1. code'[u].by = t /\ Asks(t) /\ pc[t] = 3
      BY <2>2, CodeStep
    <3>2. pc' # pc
      BY <2>2, <1>t, Positions DEF storeCode, Advance, Refuse
    <3>3. pc'[t] = 4
      BY <3>1, <3>2, <1>t, Positions
    <3> QED  BY <3>1, <3>3, <1>a DEF Stored
  <2>3. CASE useCode(t) /\ code'[u] = [found[t] EXCEPT !.state = "used"]
    <3>1. Checks(t) /\ pc[t] = 3
      BY <2>3, CodeStep
    <3>2. found[t] # NoCode /\ found[t] \in Code
      BY <3>1, <1>t DEF CodesOK, Valid, TypeOK
    <3>3. code'[u].by = found[t].by
      BY <2>3, <3>2 DEF Code
    <3> QED  BY <3>2, <3>3, <1>s, <1>t DEF CodesOK
  <2> QED  BY <2>1, <2>2, <2>3, CodeEffects
<1>2. ASSUME NEW s \in Tasks, found'[s] # NoCode PROVE found'[s].by \in Stored'
  <2>1. CASE found'[s] = found[s]
    BY <2>1, <1>2, <1>s, <1>t DEF CodesOK
  <2>2. CASE found'[s] = code[op[t].user]
    BY <2>2, <1>2, <1>s, <1>t DEF CodesOK
  <2> QED  BY <2>1, <2>2, CodeEffects
<1> QED  BY <1>1, <1>2

LEMMA CheckedStep ==
  ASSUME NEW t \in Tasks, IInv, Step(t), NEW s \in Tasks, Checks(s)
  PROVE  /\ pc'[s] > 2 => Valid(found'[s])
         /\ pc'[s] > 3 => code'[op[s].user] # found'[s]
<1>t. TypeOK /\ CodesOK /\ Moved(t) /\ op[s].user \in Users
  BY StepMoves, OpFacts DEF IInv
<1>p. /\ s # t => pc'[s] = pc[s]
      /\ pc'[t] \in {pc[t], pc[t] + 1} /\ (pc'[t] = pc[t] + 1 => pc' # pc)
      /\ pc[s] \in Nat \ {0} /\ pc[t] \in Nat \ {0}
  BY <1>t, Positions
<1>1. ASSUME pc'[s] > 2 PROVE Valid(found'[s]) /\ found'[s] = found[s]
  <2>1. pc[s] > 1
    BY <1>1, <1>p
  <2>2. ~Asks(s)
    BY <1>t, OpFacts, CodePlaces DEF IInv
  <2>3. found'[s] = found[s]
    <3>1. ~(s = t /\ findCode(t))
      BY <2>1, <2>2, CodeStep
    <3> QED  BY <3>1, CodeEffects
  <2>4. Valid(found[s])
    BY <1>1, <1>p, <1>t, CodeStep DEF CodesOK
  <2> QED  BY <2>3, <2>4
<1>2. ASSUME pc'[s] > 3 PROVE code'[op[s].user] # found'[s]
  <2>1. Valid(found[s]) /\ found'[s] = found[s] /\ found[s] \in Code
    BY <1>1, <1>2, <1>p, <1>t DEF TypeOK, Valid
  <2>2. CASE code'[op[s].user] = code[op[s].user]
    <3>1. CASE pc[s] > 3
      BY <3>1, <2>1, <2>2, <1>t DEF CodesOK
    <3>2. CASE ~(pc[s] > 3)
      <4>1. s = t /\ pc' # pc /\ pc[t] = 3
        BY <3>2, <1>2, <1>p
      <4>2. useCode(t)
        BY <4>1, CodeStep
      <4>3. code'[op[t].user] = [found[t] EXCEPT !.state = "used"]
        BY <4>2, <1>t, <4>1 DEF useCode, TypeOK
      <4> QED  BY <4>1, <4>3, <2>1 DEF Valid, Code
    <3> QED  BY <3>1, <3>2
  <2>3. CASE storeCode(t) /\ code'[op[s].user] = [by |-> t, state |-> "new"]
    <3>1. pc[t] = 3
      BY <2>3, CodeStep
    <3>2. pc[found[s].by] > 3
      BY <2>1, <1>t DEF CodesOK, Valid, Stored
    <3> QED  BY <2>1, <2>3, <3>1, <3>2
  <2>4. CASE useCode(t) /\ code'[op[s].user] = [found[t] EXCEPT !.state = "used"]
    <3>1. found[t] \in Code
      BY <2>4, CodeStep, <1>t DEF CodesOK, Valid, TypeOK
    <3> QED  BY <2>1, <2>4, <3>1 DEF Valid, Code
  <2> QED  BY <2>2, <2>3, <2>4, <1>t, CodeEffects
<1> QED  BY <1>1, <1>2

\* Two calls hold one code only when the later of them found it while the other
\* was working on it.
LEMMA TogetherStep ==
  ASSUME NEW t \in Tasks, IInv, Step(t), NEW r \in Tasks, NEW s \in Tasks,
         Checking(r)', Checking(s)', Valid(found'[r]),
         op[r].user = op[s].user, found'[r] = found'[s], r # s
  PROVE  {r, s} \subseteq tangled'
<1>t. TypeOK /\ CodesOK /\ Moved(t) /\ op[s].user \in Users
  BY StepMoves, OpFacts DEF IInv
<1>p. /\ \A x \in Tasks \ {t} : pc'[x] = pc[x] /\ (x \in over' <=> x \in over)
      /\ pc'[t] \in {pc[t], pc[t] + 1} /\ (pc'[t] = pc[t] + 1 => pc' # pc) /\ t \notin over
      /\ pc \in [Tasks -> Nat \ {0}]
  BY <1>t, Positions
<1>c. Checks(r) /\ Checks(s) /\ ~Asks(r) /\ ~Asks(s)
  BY <1>t, SameCalls, OpFacts, CodePlaces DEF IInv, Checking
<1>1. ASSUME NEW x \in {r, s}, x # t \/ pc[t] > 1 PROVE Checking(x) /\ found'[x] = found[x]
  <2>1. Checking(x)
    BY <1>1, <1>p, <1>t, <1>c, SameCalls DEF Checking
  <2>2. found'[x] = found[x]
    <3>1. ~(x = t /\ findCode(t)) /\ x \in Tasks
      BY <1>1, <1>c, CodeStep
    <3> QED  BY <3>1, CodeEffects
  <2> QED  BY <2>1, <2>2
<1>2. CASE (r # t /\ s # t) \/ pc[t] > 1
  <2>1. /\ Checking(r) /\ Checking(s) /\ found[r] = found[s] /\ Valid(found[r])
    BY <1>1, <1>2
  <2>2. {r, s} \subseteq tangled
    BY <2>1, <1>t DEF CodesOK
  <2> QED  BY <2>2, CodeEffects
<1>3. ASSUME NEW x \in {r, s}, NEW y \in {r, s}, x # y, x = t, pc[t] = 1
      PROVE  {r, s} \subseteq tangled'
  <2>1. pc' # pc /\ findCode(t)
    <3>1. pc'[t] > 1
      BY <1>3 DEF Checking
    <3> QED  BY <3>1, <1>3, <1>c, <1>p, CodeStep
  <2>2. found'[t] = code[op[t].user] /\ Checking(y) /\ found'[y] = found[y]
    BY <2>1, <1>1, <1>3, <1>t DEF findCode, TypeOK
  <2>3. ~(pc[y] > 3)
    BY <2>2, <1>3, <1>t, <1>c DEF CodesOK
  <2>4. y \notin over /\ pc[y] \in {2, 3}
    BY <2>2, <2>3, <1>p DEF Checking
  <2>5. y \in Overlaps(t)
    BY <2>4, <1>3, <1>c, <1>p DEF Overlaps, InCode
  <2>6. Overlaps(t) \cup {t} \subseteq tangled'
    BY <2>1, <2>5, CodeEffects
  <2> QED  BY <2>5, <2>6, <1>3
<1>4. pc[t] > 1 \/ pc[t] = 1
  BY <1>p
<1> QED  BY <1>2, <1>3, <1>4

LEMMA CodesStep ==
  ASSUME NEW t \in Tasks, IInv, Step(t)
  PROVE  CodesOK'
<1>1. op' = op /\ \A s \in Tasks : Checks(s)' = Checks(s)
  BY StepMoves, SameCalls
<1>2. \A s \in Tasks : Checks(s)' =>
        (pc'[s] > 2 => Valid(found'[s])) /\ (pc'[s] > 3 => code'[op'[s].user] # found'[s])
  BY <1>1, CheckedStep
<1>3. \A r, s \in Tasks :
        /\ Checking(r)' /\ Checking(s)' /\ Valid(found'[r])
        /\ op'[r].user = op'[s].user /\ found'[r] = found'[s]
        => r = s \/ {r, s} \subseteq tangled'
  BY <1>1, TogetherStep
<1> QED  BY <1>2, <1>3, StoredOnceStep DEF CodesOK, Valid

\* The code that was sent last is alone, and after it only calls come that find it.
LEMMA LatestStep ==
  ASSUME NEW t \in Tasks, IInv, Step(t)
  PROVE  LatestOK'
<1>t. TypeOK /\ LatestOK /\ Moved(t) /\ op[t].user \in Users
  BY StepMoves, OpFacts DEF IInv
<1>m. op' = op /\ \A s \in Tasks : Asks(s)' = Asks(s) /\ Checks(s)' = Checks(s)
  BY <1>t, SameCalls
<1>p. /\ \A s \in Tasks \ {t} : pc'[s] = pc[s] /\ (s \in over' <=> s \in over)
      /\ t \notin over /\ pc \in [Tasks -> Nat \ {0}]
      /\ \/ pc' # pc /\ pc'[t] = pc[t] + 1 /\ t \notin over'
         \/ pc' = pc /\ t \in over'
  BY <1>t, Positions
<1>i. \A s \in Tasks : ~(Asks(s) /\ Checks(s))
  BY OpFacts, CodePlaces DEF IInv
<1>j. \A s \in Tasks : InCode(s)' <=> (Asks(s) \/ Checks(s)) /\ s \notin over' /\ pc'[s] \in {2, 3}
  BY <1>m DEF InCode
<1> SUFFICES ASSUME NEW u \in Users, NEW r \in Tasks, r = lastSent'[u], r \notin tangled'
             PROVE  /\ Asks(r) /\ op[r].user = u /\ pc'[r] > 1
                    /\ InCode(r)' => Overlaps(r)' = {}
                    /\ pc'[r] > 3 =>
                         /\ code'[u] # NoCode /\ code'[u].by = r
                         /\ \A s \in Overlaps(r)' :
                              Checks(s) /\ found'[s] # NoCode /\ found'[s].by = r
  <2>1. tangled' \subseteq Tasks
    BY <1>t, Frame DEF sendCode, findCode, Tangle, Overlaps, TypeOK
  <2> QED  BY <1>m DEF LatestOK, Overlaps
<1>o. \A s : s \in Overlaps(r)' <=> s \in Tasks \ {r} /\ InCode(s)' /\ op[s].user = op[r].user
  BY <1>m DEF Overlaps
<1>n. \A s \in Tasks \ {t} : InCode(s)' <=> InCode(s)
  BY <1>j, <1>p DEF InCode
\* A task that comes to work on a code in this step.
<1>e. ASSUME InCode(t)', ~InCode(t)
      PROVE  /\ pc[t] = 1 /\ (sendCode(t) \/ (findCode(t) /\ Checks(t)))
             /\ Overlaps(t) = {} \/ Overlaps(t) \cup {t} \subseteq tangled'
  <2>1. pc[t] = 1 /\ pc' # pc /\ (Asks(t) \/ Checks(t))
    BY <1>e, <1>j, <1>p DEF InCode
  <2> QED  BY <2>1, CodeStep, CodeEffects
<1>1. CASE lastSent'[u] # lastSent[u]
  <2>1. u = op[t].user /\ sendCode(t) /\ r = t
    BY <1>1, CodeEffects
  <2>2. Asks(t) /\ pc[t] = 1 /\ pc'[t] = 2
    <3>1. pc' # pc
      BY <2>1, <1>p DEF sendCode, Advance
    <3> QED  BY <2>1, <3>1, <1>p, CodeStep
  <2>3. Overlaps(t) = {}
    BY <2>1, CodeEffects
  <2>4. Overlaps(r)' = {}
    BY <2>1, <2>3, <1>o, <1>n DEF Overlaps
  <2> QED  BY <2>1, <2>2, <2>4
<1>2. CASE lastSent'[u] = lastSent[u]
  <2>1. r \in {lastSent[u]} \cap (Tasks \ tangled)
    BY <1>2, CodeEffects
  <2>2. /\ Asks(r) /\ op[r].user = u /\ pc[r] > 1
        /\ InCode(r) => Overlaps(r) = {}
        /\ pc[r] > 3 =>
             /\ code[u] # NoCode /\ code[u].by = r
             /\ \A s \in Overlaps(r) : Checks(s) /\ found[s] # NoCode /\ found[s].by = r
    BY <2>1, <1>t DEF LatestOK
  <2>3. pc'[r] > 1 /\ pc[r] \in Nat
    BY <2>2, <1>p
  <2>4. ASSUME InCode(r), NEW s \in Overlaps(r)' PROVE FALSE
    <3>1. s \in Tasks \ {r} /\ InCode(s)' /\ op[s].user = op[r].user /\ ~InCode(s)
      BY <2>2, <2>4, <1>o DEF Overlaps
    <3>2. s = t
      BY <3>1, <1>n
    <3>3. r \in Overlaps(t)
      BY <2>4, <3>1, <3>2 DEF Overlaps
    <3> QED  BY <3>1, <3>2, <3>3, <1>e
  <2>5. InCode(r)' => InCode(r)
    BY <2>2, <1>j, <1>p DEF InCode
  <2>6. ASSUME pc'[r] > 3, ~(pc[r] > 3)
        PROVE  code'[u] # NoCode /\ code'[u].by = r /\ InCode(r)
    <3>1. r = t /\ pc[t] = 3 /\ pc' # pc
      BY <2>6, <2>3, <1>p
    <3>2. storeCode(t) /\ Advance(t)
      <4>1. storeCode(t)
        BY <3>1, <2>2, CodeStep
      <4> QED  BY <3>1, <4>1 DEF storeCode, Refuse
    <3>3. code' = [code EXCEPT ![u] = [by |-> t, state |-> "new"]]
      <4>1. ~Refuse(t)
        BY <3>1 DEF Refuse
      <4> QED  BY <3>1, <3>2, <2>2, <4>1 DEF storeCode, NewCode
    <3>4. code'[u] = [by |-> t, state |-> "new"]
      BY <3>3, <1>t DEF TypeOK
    <3>5. NoCode # [by |-> t, state |-> "new"]
      OBVIOUS
    <3> QED  BY <3>1, <3>4, <3>5, <2>2, <1>p DEF InCode
  <2>7. ASSUME pc[r] > 3 PROVE code'[u] # NoCode /\ code'[u].by = r
    <3>1. CASE code'[u] = code[u]
      BY <3>1, <2>2, <2>7
    <3>2. CASE u = op[t].user /\ storeCode(t)
      <4>1. Asks(t) /\ t \notin over /\ pc[t] = 3
        BY <3>2, CodeStep
      <4>2. t \in Overlaps(r)
        BY <4>1, <3>2, <2>2, <2>7 DEF Overlaps, InCode
      <4> QED  BY <4>1, <4>2, <2>2, <2>7, <1>i
    <3>3. CASE u = op[t].user /\ useCode(t) /\ code'[u] = [found[t] EXCEPT !.state = "used"]
      <4>1. Checks(t) /\ t \notin over /\ pc[t] = 3
        BY <3>3, CodeStep
      <4>2. t \in Overlaps(r)
        BY <4>1, <3>3, <2>2, <2>7 DEF Overlaps, InCode
      <4>3. found[t] # NoCode /\ found[t].by = r /\ found[t] \in Code
        BY <4>2, <2>2, <2>7, <1>t DEF TypeOK
      <4>4. code'[u] \in Code /\ code'[u].by = r
        BY <4>3, <3>3 DEF Code
      <4>5. NoCode \notin Code
        BY DEF Code
      <4> QED  BY <4>4, <4>5
    <3> QED  BY <3>1, <3>2, <3>3, CodeEffects
  <2>8. ASSUME pc[r] > 3, NEW s \in Overlaps(r)'
        PROVE  Checks(s) /\ found'[s] # NoCode /\ found'[s].by = r
    <3>1. s \in Tasks \ {r} /\ InCode(s)' /\ op[s].user = u
      BY <2>2, <2>8, <1>o
    <3>2. CASE InCode(s)
      <4>1. s \in Overlaps(r)
        BY <3>1, <3>2, <2>2 DEF Overlaps
      <4>2. Checks(s) /\ found[s] # NoCode /\ found[s].by = r
        BY <4>1, <2>2, <2>8
      <4>3. ~(s = t /\ findCode(t))
        BY <4>2, <3>1, <3>2, <1>i, CodeStep DEF InCode
      <4>4. found'[s] = found[s]
        BY <4>3, <3>1, CodeEffects
      <4> QED  BY <4>2, <4>4
    <3>3. CASE ~InCode(s)
      <4>1. s = t
        BY <3>1, <3>3, <1>n
      <4>2. ~sendCode(t)
        <5>1. ASSUME sendCode(t) PROVE lastSent'[u] = t
          BY <5>1, <3>1, <4>1, <1>t DEF sendCode, TypeOK
        <5> QED  BY <5>1, <3>1, <4>1
      <4>3. findCode(t) /\ Checks(t)
        BY <3>1, <3>3, <4>1, <4>2, <1>e
      <4>4. found'[t] = code[u]
        BY <4>1, <4>3, <3>1, <1>t DEF findCode, TypeOK
      <4> QED  BY <4>1, <4>3, <4>4, <2>2, <2>8
    <3> QED  BY <3>2, <3>3
  <2> QED  BY <2>2, <2>3, <2>4, <2>5, <2>6, <2>7, <2>8
<1> QED  BY <1>1, <1>2

-----------------------------------------------------------------------------
(* The invariant.                                                          *)

LEMMA ChildrenType ==
  ASSUME NEW t \in Tasks, IInv, Step(t)
  PROVE  children' \subseteq [by : Tasks, owner : Users \cup {NoUser},
                              type : {"beneficiary", "document"}, item : Items]
<1> DEFINE Child == [by : Tasks, owner : Users \cup {NoUser},
                     type : {"beneficiary", "document"}, item : Items]
<1>t. /\ children \subseteq Child /\ op[t].user \in Users /\ op[t].item \in Items
      /\ op[t].newItem \in Items
  BY OpFacts DEF IInv, TypeOK
<1>1. CASE saveUser(t)
  <2>1. children' = {AfterSave(t, d) : d \in children}
    BY <1>1 DEF saveUser
  <2>2. ASSUME NEW d \in children PROVE AfterSave(t, d) \in Child
    BY <1>t DEF AfterSave
  <2> QED  BY <2>1, <2>2
<1>2. CASE saveChild(t)
  BY <1>2, <1>t DEF saveChild, Store, ChildType
<1>3. CASE renumber(t)
  <2>1. children' = (children \ SameItem(t)) \cup
                       {[d EXCEPT !.item = op[t].newItem] : d \in SameItem(t)}
    BY <1>3 DEF renumber
  <2>2. ASSUME NEW d \in SameItem(t) PROVE [d EXCEPT !.item = op[t].newItem] \in Child
    BY <1>t DEF SameItem
  <2> QED  BY <2>1, <2>2, <1>t
<1>4. CASE deleteRows(t)
  BY <1>4, <1>t DEF deleteRows
<1> QED  BY <1>1, <1>2, <1>3, <1>4, <1>t, Frame

LEMMA TypeStep ==
  ASSUME NEW t \in Tasks, IInv, Step(t)
  PROVE  TypeOK'
<1>t. TypeOK /\ Moved(t) /\ CodesOK
  BY StepMoves DEF IInv
<1>o. op[t].user \in Users /\ op[t].item \in Items /\ op[t].newItem \in Items
  BY <1>t, OpFacts
<1>1. /\ pc' \in [Tasks -> Nat \ {0}] /\ op' \in [Tasks -> Operations] /\ over' \subseteq Tasks
  BY <1>t, Positions DEF Moved, TypeOK
<1>2. entity' \in [Tasks -> Row] /\ loaded' \in [Tasks -> SUBSET Tasks]
  <2>1. row \in [Users -> Row] /\ entity \in [Tasks -> Row] /\ loaded \in [Tasks -> SUBSET Tasks]
        /\ \A d \in children : d.by \in Tasks
    BY <1>t DEF TypeOK
  <2>2. CASE findUser(t) \/ findLogin(t)
    <3>1. Read(t)
      BY <2>2 DEF findUser, findLogin
    <3> QED  BY <2>1, <3>1, <1>o DEF Read
  <2>3. CASE findChild(t)
    <3>1. /\ loaded' = [loaded EXCEPT ![t] = {d.by : d \in Known(t)}] /\ entity' = entity
      BY <2>3 DEF findChild
    <3>2. {d.by : d \in Known(t)} \subseteq Tasks
      BY <2>1 DEF Known
    <3> QED  BY <2>1, <3>1, <3>2
  <2> QED  BY <2>1, <2>2, <2>3, Frame
<1>3. row' \in [Users -> Row]
  <2>1. row \in [Users -> Row] /\ entity[t] \in Row /\ row[op[t].user] \in Row
    BY <1>t, <1>o DEF TypeOK
  <2>2. CASE saveUser(t)
    <3> DEFINE newRow == [c \in Columns |->
                            IF c = "transferPin" THEN row[op[t].user][c] ELSE Saved(t, c)]
    <3>1. row' = [row EXCEPT ![op[t].user] = newRow]
      BY <2>2 DEF saveUser
    <3>2. newRow \in Row
      BY <2>1 DEF Saved, Row
    <3> HIDE DEF newRow
    <3> QED  BY <2>1, <3>1, <3>2
  <2>3. CASE updateColumn(t)
    <3> DEFINE newRow == [c \in Columns |-> IF c \in Sets(t) THEN {t} ELSE row[op[t].user][c]]
    <3>1. row' = [row EXCEPT ![op[t].user] = newRow]
      BY <2>3, <2>1 DEF updateColumn
    <3>2. newRow \in Row
      BY <2>1 DEF Row
    <3> HIDE DEF newRow
    <3> QED  BY <2>1, <3>1, <3>2
  <2>4. CASE updateDevices(t)
    <3>1. row' = [row EXCEPT ![op[t].user]["devices"] = Devices(t)] /\ Devices(t) \subseteq Tasks
      BY <2>4, <2>1 DEF updateDevices, Devices, Row, Columns
    <3> QED  BY <2>1, <3>1 DEF Row
  <2>5. CASE saveChild(t)
    <3>1. row' = row \/ row' = [u \in Users |-> [row[u] EXCEPT !["kyc"] = {t}]]
      BY <2>5 DEF saveChild
    <3> QED  BY <2>1, <3>1 DEF Row
  <2> QED  BY <2>1, <2>2, <2>3, <2>4, <2>5, Frame
<1>4. code' \in [Users -> Code \cup {NoCode}] /\ found' \in [Tasks -> Code \cup {NoCode}]
  <2>1. code \in [Users -> Code \cup {NoCode}] /\ found \in [Tasks -> Code \cup {NoCode}]
    BY <1>t DEF TypeOK
  <2>2. CASE storeCode(t)
    BY <2>1, <2>2, <1>o DEF storeCode, NewCode, Code
  <2>3. CASE useCode(t)
    <3>1. found[t] \in Code
      BY <2>1, <2>3, <1>t, CodeStep DEF CodesOK, Valid
    <3>2. [found[t] EXCEPT !.state = "used"] \in Code
      BY <3>1 DEF Code
    <3>3. code' = [code EXCEPT ![op[t].user] = [found[t] EXCEPT !.state = "used"]] /\ found' = found
      BY <2>3 DEF useCode
    <3> QED  BY <2>1, <3>2, <3>3, <1>o
  <2>4. CASE findCode(t)
    BY <2>1, <2>4, <1>o DEF findCode
  <2> QED  BY <2>1, <2>2, <2>3, <2>4, Frame
<1>5. tokens' \in [Users -> SUBSET Tasks]
  <2>1. tokens \in [Users -> SUBSET Tasks]
    BY <1>t DEF TypeOK
  <2>2. CASE createRefreshToken(t)
    BY <2>1, <2>2, <1>o DEF createRefreshToken
  <2>3. CASE deleteTokens(t)
    BY <2>1, <2>3, <1>o DEF deleteTokens
  <2> QED  BY <2>1, <2>2, <2>3, Frame
<1>6. lastSent' \in [Users -> Tasks \cup {"none"}]
  <2>1. lastSent \in [Users -> Tasks \cup {"none"}]
    BY <1>t DEF TypeOK
  <2>2. CASE sendCode(t)
    BY <2>1, <2>2, <1>o DEF sendCode
  <2> QED  BY <2>1, <2>2, Frame
<1>7. missed' \in [Tasks -> SUBSET (Users \X Columns)]
  <2>0. missed \in [Tasks -> SUBSET (Users \X Columns)] /\ Sets(t) \subseteq Columns
    <3>1. \A k \in DOMAIN Calls : Calls[k].columns \subseteq Columns
      BY DEF Calls, Call, Columns, deleteUser, deleteUserNew, deleteProfileIcon, updateProfileIcon,
        updateStaticQR, handleKycEvent, updateUserProfile, editUserProfile, updateUserKycDetails,
        setPin, changeTransferPin, requestOtp, changeAppLockPin, changeTransactionLockPin,
        sendVerificationCode, verifyAppLockPinOtp, verifyCodeAndUpdateUserPin,
        verifyTransactionLockPinOtp, getUserData, validateOTP, validateOTPNew, revokeAccessToken,
        createBeneficiary, updateBeneficiary, removeBeneficiary
    <3> QED  BY <3>1, <1>t, OpFacts DEF Sets, TypeOK
  <2>1. ASSUME NEW changed \in SUBSET (Users \X Columns), Misses(t, changed)
        PROVE  missed' \in [Tasks -> SUBSET (Users \X Columns)]
    BY <2>0, <2>1 DEF Misses
  <2>2. CASE findUser(t) \/ findLogin(t)
    BY <2>0, <2>2 DEF findUser, findLogin, Read
  <2>3. CASE saveUser(t) \/ updateColumn(t) \/ updateDevices(t) \/ saveChild(t)
    <3>1. \/ missed' = missed
          \/ \E changed \in SUBSET (Users \X Columns) : Misses(t, changed)
      <4>1. CASE saveUser(t)
        <5> DEFINE newRow == [c \in Columns |->
                                IF c = "transferPin" THEN row[op[t].user][c] ELSE Saved(t, c)]
                   C == {<<op[t].user, c>> : c \in {x \in Columns : newRow[x] # row[op[t].user][x]}}
        <5>1. Misses(t, C)
          BY <4>1 DEF saveUser
        <5> HIDE DEF newRow
        <5>2. C \in SUBSET (Users \X Columns)
          BY <1>o
        <5> QED  BY <5>1, <5>2
      <4>2. CASE updateColumn(t)
        <5>1. {<<op[t].user, c>> : c \in Sets(t)} \in SUBSET (Users \X Columns)
          BY <1>o, <2>0
        <5> QED  BY <4>2, <5>1 DEF updateColumn
      <4>3. CASE updateDevices(t)
        <5>1. {<<op[t].user, "devices">>} \in SUBSET (Users \X Columns)
          BY <1>o DEF Columns
        <5> QED  BY <4>3, <5>1 DEF updateDevices
      <4>4. CASE saveChild(t)
        <5>1. {<<u, "kyc">> : u \in Users} \in SUBSET (Users \X Columns)
          BY DEF Columns
        <5> QED  BY <4>4, <5>1 DEF saveChild
      <4> QED  BY <2>3, <4>1, <4>2, <4>3, <4>4
    <3> QED  BY <2>0, <2>1, <3>1
  <2> QED  BY <2>0, <2>2, <2>3, Frame
<1>8. tangled' \subseteq Tasks /\ torn' \subseteq Tasks /\ raced' \subseteq Items
  <2>1. tangled \subseteq Tasks /\ torn \subseteq Tasks /\ raced \subseteq Items
    BY <1>t DEF TypeOK
  <2>2. tangled' \subseteq Tasks
    <3>1. sendCode(t) \/ findCode(t) => Tangle(t)
      BY DEF sendCode, findCode
    <3>2. Tangle(t) => tangled' \subseteq Tasks
      BY <2>1 DEF Tangle, Overlaps
    <3> QED  BY <2>1, <3>1, <3>2, Frame
  <2>3. torn' \subseteq Tasks
    <3>1. saveChild(t) => torn' \subseteq torn \cup {t}
      BY DEF saveChild, Store
    <3> QED  BY <2>1, <3>1, Frame
  <2>4. raced' \subseteq Items
    BY <2>1, <1>o, Frame DEF findChild, renumber
  <2> QED  BY <2>2, <2>3, <2>4
<1> QED  BY <1>1, <1>2, <1>3, <1>4, <1>5, <1>6, <1>7, <1>8, ChildrenType DEF TypeOK

-----------------------------------------------------------------------------
(* Documents and beneficiaries.                                            *)

\* The record that saveChild adds.
NewChild(t) == [by |-> t, owner |-> op[t].user, type |-> ChildType(t), item |-> op[t].item]

\* Only a look-up brings a task to the save of a user with relations or of a child.
LEMMA ChildMoves ==
  ASSUME NEW t \in Tasks, IInv, Step(t)
  PROVE  /\ \A s \in Tasks \ {t} : /\ At(s, "saveUser")' => At(s, "saveUser")
                                   /\ At(s, "saveChild")' => At(s, "saveChild")
         /\ At(t, "saveUser")' /\ Calls[op[t].kind].relations # {} => findUser(t)
         /\ At(t, "saveChild")' => findChild(t)
<1>t. TypeOK /\ Moved(t) /\ op' = op /\ \A s \in Tasks : Program(s)' = Program(s)
  BY StepMoves, SameCalls DEF IInv
<1>p. /\ \A s \in Tasks \ {t} : pc'[s] = pc[s] /\ (s \in over' <=> s \in over)
      /\ t \notin over /\ pc[t] \in Nat \ {0} /\ op[t].kind \in DOMAIN Calls
      /\ (pc' # pc /\ pc'[t] = pc[t] + 1) \/ t \in over'
  BY <1>t, Positions, OpFacts
<1>1. ASSUME NEW s \in Tasks \ {t}
      PROVE  /\ At(s, "saveUser")' => At(s, "saveUser")
             /\ At(s, "saveChild")' => At(s, "saveChild")
  BY <1>1, <1>t, <1>p DEF At, Running
<1>2. ASSUME At(t, "saveUser")', Calls[op[t].kind].relations # {} PROVE findUser(t)
  <2>1. pc' # pc /\ pc'[t] = pc[t] + 1 /\ Program(t) = <<"findUser", "saveUser">>
    BY <1>2, <1>p, ChildPlaces DEF At, Running
  <2>2. pc'[t] <= 2
    <3>1. pc'[t] <= Len(Program(t))
      BY <1>2, <1>t DEF At, Running
    <3> QED  BY <3>1, <2>1
  <2>3. pc[t] = 1
    BY <2>1, <2>2, <1>p
  <2> QED  BY <2>1, <2>3, <1>2, <1>p, ChildPlaces, StepTaken
<1>3. ASSUME At(t, "saveChild")' PROVE findChild(t)
  <2>1. pc' # pc /\ pc'[t] = pc[t] + 1 /\ pc'[t] <= Len(Program(t))
        /\ Program(t)[pc'[t]] = "saveChild"
    BY <1>3, <1>t, <1>p DEF At, Running
  <2>2. Program(t) = <<"findChild", "saveChild">>
    <3>1. pc'[t] \in 1..Len(Program(t))
      BY <2>1, <1>p, <1>t, OpFacts, Programs DEF Program
    <3> QED  BY <3>1, <2>1, <1>p, ChildPlaces
  <2>3. pc[t] = 1
    BY <2>1, <2>2, <1>p
  <2> QED  BY <2>1, <2>2, <2>3, <1>p, ChildPlaces, StepTaken
<1> QED  BY <1>1, <1>2, <1>3

\* Where a child comes from: it was there, it is torn, it has got another number,
\* or it is the one the step has stored.
Kept(t, d) ==
  \/ d \in children
  \/ d.by \in torn' /\ d.owner \in {op[d.by].user, NoUser}
  \/ /\ d.item \in raced'
     /\ \E e \in children : e.by = d.by /\ e.owner = d.owner /\ e.type = d.type
  \/ /\ saveChild(t) /\ loaded[t] = {} /\ d = NewChild(t)
     /\ Holding(op[t].user, ChildType(t)) = {} \/ t \in torn'

LEMMA ChildrenKept ==
  ASSUME NEW t \in Tasks, IInv, Step(t)
  PROVE  /\ torn \subseteq torn' /\ raced \subseteq raced'
         /\ \A d \in children' : Kept(t, d)
<1>t. /\ op[t].user \in Users /\ ChildrenAsStored /\ Owned /\ Held
      /\ children \subseteq [by : Tasks, owner : Users \cup {NoUser},
                            type : {"beneficiary", "document"}, item : Items]
  BY OpFacts DEF IInv, TypeOK
<1>1. torn \subseteq torn' /\ raced \subseteq raced'
  BY Frame DEF saveChild, Store, findChild, renumber
<1>2. CASE saveUser(t)
  <2> SUFFICES ASSUME NEW e \in children PROVE Kept(t, AfterSave(t, e))
    BY <1>2, <1>1 DEF saveUser
  <2> DEFINE d == AfterSave(t, e)
  <2>1. CASE d = e
    BY <2>1 DEF Kept
  <2>2. CASE d # e /\ e.by \in loaded[t]
    <3>1. d = [e EXCEPT !.owner = op[t].user] /\ op[e.by].user = op[t].user
      BY <2>2, <1>t DEF AfterSave, Owned
    <3>2. d.owner = op[t].user /\ d.by = e.by /\ e.owner # op[t].user
      BY <3>1, <2>2, <1>t
    <3>3. e.owner = NoUser
      BY <3>1, <3>2, <1>t DEF Owned
    <3> QED  BY <3>1, <3>2, <3>3, <1>t, <1>1 DEF Kept, ChildrenAsStored
  <2>3. CASE d # e /\ e.by \notin loaded[t]
    <3>1. /\ d = [e EXCEPT !.owner = NoUser] /\ e.owner = op[t].user
          /\ e.type \in Calls[op[t].kind].relations
      BY <2>3 DEF AfterSave
    <3>2. e.by \in torn
      BY <3>1, <2>3, <1>2, <1>t DEF Held, saveUser
    <3>3. d.owner = NoUser /\ d.by = e.by
      BY <3>1, <1>t
    <3> QED  BY <3>2, <3>3, <1>1 DEF Kept
  <2> QED  BY <2>1, <2>2, <2>3
<1>3. CASE saveChild(t)
  <2>1. CASE loaded[t] = {}
    BY <1>3, <2>1 DEF saveChild, Store, Kept, NewChild
  <2>2. CASE loaded[t] # {}
    BY <1>3, <2>2 DEF saveChild, Kept
  <2> QED  BY <2>1, <2>2, <1>1
<1>4. CASE renumber(t)
  <2> SUFFICES ASSUME NEW e \in SameItem(t) PROVE Kept(t, [e EXCEPT !.item = op[t].newItem])
    BY <1>4, <1>1 DEF renumber, Kept
  <2>1. e \in children /\ op[t].newItem \in raced'
    BY <1>4 DEF SameItem, renumber
  <2> DEFINE d == [e EXCEPT !.item = op[t].newItem]
  <2>2. d.item = op[t].newItem /\ d.by = e.by /\ d.owner = e.owner /\ d.type = e.type
    BY <2>1, <1>t
  <2> QED  BY <2>1, <2>2 DEF Kept
<1>5. CASE deleteRows(t) \/ children' = children
  BY <1>5, <1>1 DEF deleteRows, Kept
<1> QED  BY <1>1, <1>2, <1>3, <1>4, <1>5, Frame

LEMMA ChildrenStep ==
  ASSUME NEW t \in Tasks, IInv, Step(t)
  PROVE  ChildrenAsStored' /\ Owned' /\ Held' /\ Alone'
<1>t. /\ TypeOK /\ ChildrenAsStored /\ Owned /\ Held /\ Alone
      /\ op[t].user \in Users /\ op' = op
      /\ loaded \in [Tasks -> SUBSET Tasks]
  BY StepMoves, SameCalls, OpFacts DEF IInv, TypeOK
<1>k. /\ torn \subseteq torn' /\ raced \subseteq raced'
      /\ \A d \in children' : Kept(t, d)
  BY ChildrenKept
<1>l. \A s \in Tasks \ {t} : loaded'[s] = loaded[s]
  BY <1>t, Frame DEF findUser, findLogin, findChild, Read
<1>n. NewChild(t).by = t /\ NewChild(t).owner = op[t].user /\ NewChild(t).type = ChildType(t)
      /\ NewChild(t).item = op[t].item /\ op[t].user # NoUser
  BY <1>t DEF NewChild
<1>1. ChildrenAsStored'
  <2>1. ASSUME NEW d \in children', d.owner = NoUser PROVE d.by \in torn'
    <3>1. Kept(t, d)
      BY <1>k
    <3> QED  BY <3>1, <2>1, <1>t, <1>k, <1>n DEF Kept, ChildrenAsStored
  <2>2. ASSUME NEW d \in children', NEW e \in children', d.owner = e.owner, d.owner # NoUser,
               d.type = e.type, d.item = e.item, d # e,
               d.item \notin raced', {d.by, e.by} \cap torn' = {}
        PROVE  FALSE
    <3>1. \A x \in {d, e} : x \in children \/ (saveChild(t) /\ loaded[t] = {} /\ x = NewChild(t))
      <4>1. Kept(t, d) /\ Kept(t, e)
        BY <1>k
      <4> QED  BY <4>1, <2>2 DEF Kept
    <3>2. CASE d \in children /\ e \in children
      BY <3>2, <2>2, <1>t, <1>k DEF ChildrenAsStored
    <3>3. \A x \in {d, e} : x \in children => ~saveChild(t) \/ loaded[t] # {} \/ x \notin Known(t)
      BY <2>2, <1>t, <1>k DEF Alone, saveChild
    <3>4. CASE d \in children /\ e = NewChild(t) /\ saveChild(t) /\ loaded[t] = {}
      BY <3>3, <3>4, <2>2, <1>n DEF Known
    <3>5. CASE e \in children /\ d = NewChild(t) /\ saveChild(t) /\ loaded[t] = {}
      BY <3>3, <3>5, <2>2, <1>n DEF Known
    <3> QED  BY <3>1, <3>2, <3>4, <3>5, <2>2
  <2> QED  BY <2>1, <2>2 DEF ChildrenAsStored
<1>2. Owned'
  <2>1. ASSUME NEW d \in children' PROVE d.owner \in {op[d.by].user, NoUser}
    <3>1. Kept(t, d)
      BY <1>k
    <3> QED  BY <3>1, <1>t, <1>n DEF Kept, Owned
  <2>2. ASSUME NEW s \in loaded'[t] PROVE op[s].user = op[t].user
    <3>1. CASE s \in loaded[t]
      BY <3>1, <1>t DEF Owned
    <3>2. CASE s \notin loaded[t]
      <4>1. PICK d \in children : d.owner = op[t].user /\ d.by = s
        <5>1. findUser(t) \/ findLogin(t) \/ findChild(t)
          BY <2>2, <3>2, Frame
        <5>2. CASE findUser(t) \/ findLogin(t)
          <6>1. loaded'[t] = {c.by : c \in {d \in children : /\ d.owner = op[t].user
                                                /\ d.type \in Calls[op[t].kind].relations}}
            BY <5>2, <1>t DEF findUser, findLogin, Read
          <6> QED  BY <6>1, <2>2
        <5>3. CASE findChild(t)
          <6>1. loaded'[t] = {d.by : d \in Known(t)}
            BY <5>3, <1>t DEF findChild
          <6> QED  BY <6>1, <2>2 DEF Known
        <5> QED  BY <5>1, <5>2, <5>3
      <4> QED  BY <4>1, <1>t, <1>n DEF Owned
    <3> QED  BY <3>1, <3>2
  <2> QED  BY <2>1, <2>2, <1>t, <1>l DEF Owned
<1>3. Held'
  <2> SUFFICES ASSUME NEW s \in Tasks, At(s, "saveUser")', NEW d \in children',
                      d.owner = op[s].user, d.type \in Calls[op[s].kind].relations
               PROVE  d.by \in loaded'[s] \cup torn'
    BY <1>t DEF Held
  <2>1. CASE s = t
    <3>1. findUser(t)
      BY <2>1, ChildMoves
    <3>2. /\ children' = children
          /\ loaded'[t] = {c.by : c \in {e \in children : /\ e.owner = op[t].user
                                                /\ e.type \in Calls[op[t].kind].relations}}
      BY <3>1, <1>t DEF findUser, Read
    <3> QED  BY <3>2, <2>1
  <2>2. CASE s # t
    <3>1. At(s, "saveUser") /\ loaded'[s] = loaded[s]
      BY <2>2, <1>l, ChildMoves
    <3>2. \A e \in children : e.owner = d.owner /\ e.type = d.type => e.by \in loaded[s] \cup torn
      BY <3>1, <1>t DEF Held
    <3>3. d = NewChild(t) => s \in Holding(op[t].user, ChildType(t))
      BY <3>1, <1>n DEF Holding
    <3>4. Kept(t, d)
      BY <1>k
    <3> QED  BY <3>1, <3>2, <3>3, <3>4, <1>k, <1>n DEF Kept
  <2> QED  BY <2>1, <2>2
<1>4. Alone'
  <2>c. \A s \in Tasks : ChildType(s)' = ChildType(s)
    BY <1>t DEF ChildType
  <2>1. ASSUME NEW s \in Tasks, At(s, "saveChild")', loaded'[s] = {}, NEW d \in children',
               d.type = ChildType(s), d.owner = op[s].user, d.item = op[s].item
        PROVE  d.item \in raced' \/ d.by \in torn'
    <3>1. CASE s = t
      <4>1. findChild(t)
        BY <2>1, <3>1, ChildMoves
      <4>2. children' = children /\ loaded'[t] = {e.by : e \in Known(t)}
        BY <4>1, <1>t DEF findChild
      <4> QED  BY <4>2, <2>1, <3>1 DEF Known
    <3>2. CASE s # t
      <4>1. At(s, "saveChild") /\ loaded[s] = {}
        BY <2>1, <3>2, <1>l, ChildMoves
      <4>2. d \in children => d.item \in raced \/ d.by \in torn
        BY <4>1, <2>1, <1>t DEF Alone, Known
      <4>3. saveChild(t) /\ d = NewChild(t) => d.item \in raced
        BY <4>1, <2>1, <3>2, <1>t, <1>n DEF Alone, saveChild
      <4>4. Kept(t, d)
        BY <1>k
      <4> QED  BY <4>2, <4>3, <4>4, <1>k DEF Kept
    <3> QED  BY <3>1, <3>2
  <2>2. ASSUME NEW s \in Tasks, NEW r \in Tasks, At(s, "saveChild")', At(r, "saveChild")',
               ChildType(s) = ChildType(r), op[s].user = op[r].user, op[s].item = op[r].item,
               s # r
        PROVE  op[s].item \in raced'
    <3>1. CASE s # t /\ r # t
      <4>1. At(s, "saveChild") /\ At(r, "saveChild")
        BY <2>2, <3>1, ChildMoves
      <4> QED  BY <4>1, <2>2, <1>t, <1>k DEF Alone
    <3>2. CASE s = t
      <4>1. findChild(t) /\ At(r, "saveChild")
        BY <2>2, <3>2, ChildMoves
      <4> QED  BY <4>1, <2>2, <3>2 DEF findChild
    <3>3. CASE r = t
      <4>1. findChild(t) /\ At(s, "saveChild")
        BY <2>2, <3>3, ChildMoves
      <4> QED  BY <4>1, <2>2, <3>3 DEF findChild
    <3> QED  BY <3>1, <3>2, <3>3
  <2> QED  BY <2>1, <2>2, <2>c, <1>t DEF Alone, Known
<1> QED  BY <1>1, <1>2, <1>3, <1>4

LEMMA PcStep ==
  ASSUME NEW t \in Tasks, IInv, Step(t)
  PROVE  (\A s \in Tasks : pc[s] <= Len(Program(s)) + 1)'
<1>1. TypeOK /\ Moved(t)
  BY StepMoves DEF IInv
<1> SUFFICES ASSUME NEW s \in Tasks PROVE pc'[s] <= Len(Program(s)) + 1
  BY <1>1, SameCalls
<1>2. pc[s] <= Len(Program(s)) + 1 /\ Len(Program(s)) \in Nat /\ pc[s] \in Nat
  BY <1>1, OpFacts, Programs DEF IInv, Program
<1>3. CASE s = t
  BY <1>1, <1>2, <1>3, Positions
<1>4. CASE s # t
  BY <1>1, <1>2, <1>4, Positions
<1> QED  BY <1>3, <1>4

LEMMA InitHolds == Init => IInv
<1> SUFFICES ASSUME Init PROVE IInv
  OBVIOUS
<1>1. TypeOK
  BY DEF Init, TypeOK, Row
<1>2. \A t \in Tasks : pc[t] = 1 /\ ~(pc[t] > 1) /\ ~(pc[t] > 2) /\ ~(pc[t] > 3)
                       /\ pc[t] \notin {2, 3} /\ 1..(pc[t] - 1) = {}
  BY DEF Init
<1>3. \A t \in Tasks : pc[t] <= Len(Program(t)) + 1
  <2>1. ASSUME NEW t \in Tasks PROVE Len(Program(t)) \in Nat
    BY <1>1, OpFacts, Programs DEF Program
  <2> QED  BY <1>2, <2>1
<1>4. Fresh /\ Entered
  BY <1>2 DEF Fresh, Entered, HasRead, Did
<1>5. CodesOK
  BY <1>2 DEF Init, CodesOK, Checking, Valid
<1>6. LatestOK
  <2>1. ASSUME NEW u \in Users, NEW r \in {lastSent[u]} \cap (Tasks \ tangled) PROVE FALSE
    BY <2>1 DEF Init
  <2> QED  BY <2>1 DEF LatestOK
<1>7. ChildrenAsStored /\ Owned
  BY DEF Init, ChildrenAsStored, Owned
<1>8. Held /\ Alone
  <2>1. children = {} /\ \A t \in Tasks : pc[t] = 1
    BY DEF Init
  <2>2. \A t \in Tasks : ~At(t, "saveChild")
    BY <2>1, <1>1, OpFacts, Programs DEF At, Program
  <2> QED  BY <2>1, <2>2 DEF Held, Alone
<1> QED  BY <1>1, <1>3, <1>4, <1>5, <1>6, <1>7, <1>8 DEF IInv

LEMMA NextHolds == IInv /\ [Next]_vars => IInv'
<1> SUFFICES ASSUME IInv, [Next]_vars PROVE IInv'
  OBVIOUS
<1>1. ASSUME NEW t \in Tasks, Step(t) PROVE IInv'
  BY <1>1, TypeStep, PcStep, FreshStep, EnteredStep, CodesStep, LatestStep,
     ChildrenStep DEF IInv
<1>2. CASE UNCHANGED vars
  <2>1. TypeOK' /\ (\A s \in Tasks : pc[s] <= Len(Program(s)) + 1)'
    BY <1>2 DEF IInv, TypeOK, Program, vars, history
  <2>2. Fresh' /\ Entered'
    BY <1>2 DEF IInv, Fresh, Entered, HasRead, HasWritten, Did, Program, Sets, Blocked, vars, history
  <2>3. CodesOK'
    BY <1>2 DEF IInv, CodesOK, Stored, Checking, Asks, Checks, Program, Valid, vars, history
  <2>4. LatestOK'
    BY <1>2 DEF IInv, LatestOK, InCode, Overlaps, Asks, Checks, Program, vars, history
  <2>5. ChildrenAsStored' /\ Owned' /\ Held'
    BY <1>2 DEF IInv, ChildrenAsStored, Owned, Held, At, Running, Program, vars, history
  <2>6. Alone'
    BY <1>2 DEF IInv, Alone, Known, ChildType, At, Running, Program, vars, history
  <2> QED  BY <2>1, <2>2, <2>3, <2>4, <2>5, <2>6 DEF IInv
<1> QED  BY <1>1, <1>2 DEF Next, Terminated

LEMMA Safety == Spec => []IInv
<1> QED  BY InitHolds, NextHolds, PTL DEF Spec

\* Every state is typed, for any users, calls and faults.
THEOREM TypeCorrect == Spec => []TypeOK
<1>1. IInv => TypeOK
  BY DEF IInv
<1> QED  BY <1>1, Safety, PTL

\* A column of a user changes by a call that means to, by one with a stale read,
\* or by the upload that reaches all users.
THEOREM ColumnsStandHolds == Spec => ColumnsStand
<1> DEFINE Stands ==
      \A u \in Users, c \in Columns : row'[u][c] # row[u][c] =>
        \E t \in Tasks : Moves(t) /\
          \/ u = op[t].user /\ <<u, c>> \in missed[t]
          \/ u = op[t].user /\ c \in Sets(t) /\ (c = "devices" => row[u][c] \subseteq row'[u][c])
          \/ op[t].kind = "updateUserKycDetails" /\ c = "kyc"
<1>1. ASSUME IInv, [Next]_vars PROVE [Stands]_vars
  <2> SUFFICES ASSUME NEW t \in Tasks, Step(t), NEW u \in Users, NEW c \in Columns,
                      row'[u][c] # row[u][c]
               PROVE  Moves(t) /\
                        \/ u = op[t].user /\ <<u, c>> \in missed[t]
                        \/ /\ u = op[t].user /\ c \in Sets(t)
                           /\ (c = "devices" => row[u][c] \subseteq row'[u][c])
                        \/ op[t].kind = "updateUserKycDetails" /\ c = "kyc"
    BY <1>1 DEF Next, Terminated
  <2>t. TypeOK /\ Fresh /\ Moved(t) /\ op[t].user \in Users /\ row \in [Users -> Row]
    BY <1>1, StepMoves, OpFacts DEF IInv, TypeOK
  <2>p. /\ At(t, "saveUser") => Did(t, "findUser") /\ ~HasWritten(t) /\ "devices" \notin Sets(t)
        /\ At(t, "updateColumn") => "devices" \notin Sets(t)
        /\ At(t, "updateDevices") => Did(t, "findLogin") /\ ~HasWritten(t) /\ Sets(t) = {"devices"}
    BY <1>1, <2>t, OpFacts, Places DEF IInv
  <2>f. HasRead(t) /\ ~HasWritten(t) =>
          \A x \in Columns : entity[t][x] = row[op[t].user][x] \/ <<op[t].user, x>> \in missed[t]
    BY <2>t DEF Fresh
  <2>m. Advance(t) => Moves(t)
    <3>1. pc[t] + 1 # pc[t] /\ pc \in [Tasks -> Nat \ {0}]
      BY <2>t DEF TypeOK
    <3> QED  BY <3>1 DEF Advance, Moves
  <2>1. CASE saveUser(t)
    <3> DEFINE newRow == [x \in Columns |->
                            IF x = "transferPin" THEN row[op[t].user][x] ELSE Saved(t, x)]
    <3>1. row' = [row EXCEPT ![op[t].user] = newRow] /\ At(t, "saveUser") /\ Advance(t)
      BY <2>1 DEF saveUser
    <3>2. u = op[t].user /\ row'[u][c] = newRow[c]
      <4> HIDE DEF newRow
      <4> QED  BY <3>1, <2>t
    <3>3. c \in Sets(t) \/ entity[t][c] # row[u][c]
      BY <3>2 DEF Saved
    <3> QED  BY <3>1, <3>2, <3>3, <2>p, <2>f, <2>m DEF HasRead
  <2>2. CASE updateColumn(t)
    <3> DEFINE newRow == [x \in Columns |-> IF x \in Sets(t) THEN {t} ELSE row[op[t].user][x]]
    <3>1. row' = [row EXCEPT ![op[t].user] = newRow] /\ At(t, "updateColumn") /\ Advance(t)
      BY <2>2, <2>t DEF updateColumn
    <3>2. u = op[t].user /\ row'[u][c] = newRow[c]
      <4> HIDE DEF newRow
      <4> QED  BY <3>1, <2>t
    <3> QED  BY <3>1, <3>2, <2>p, <2>m
  <2>3. CASE updateDevices(t)
    <3>1. /\ row' = [row EXCEPT ![op[t].user]["devices"] = Devices(t)]
          /\ At(t, "updateDevices") /\ Advance(t)
      BY <2>3 DEF updateDevices
    <3>2. u = op[t].user /\ c = "devices" /\ row'[u][c] = entity[t][c] \cup {t}
      BY <3>1, <2>t DEF Row, Devices
    <3> QED  BY <3>1, <3>2, <2>p, <2>f, <2>m DEF HasRead
  <2>4. CASE saveChild(t)
    <3>1. /\ op[t].kind = "updateUserKycDetails" /\ Advance(t)
          /\ row' = [x \in Users |-> [row[x] EXCEPT !["kyc"] = {t}]]
      BY <2>4, row'[u][c] # row[u][c] DEF saveChild
    <3>2. c = "kyc"
      BY <3>1, <2>t DEF Row
    <3> QED  BY <3>1, <3>2, <2>m
  <2> QED  BY <2>1, <2>2, <2>3, <2>4, Frame
<1> QED  BY <1>1, Safety, PTL DEF Spec, ColumnsStand

\* A blocked user gets no new session but by a login that looked before the block.
THEOREM BlockedStaysOutHolds == Spec => BlockedStaysOut
<1> DEFINE StaysOut ==
      \A t \in Tasks : LET u == op[t].user IN
        Blocked(row[u]) /\ t \in tokens'[u] \ tokens[u] => <<u, "isBlocked">> \in missed[t]
<1>1. ASSUME IInv, [Next]_vars PROVE [StaysOut]_vars
  <2> SUFFICES ASSUME NEW s \in Tasks, Step(s), NEW t \in Tasks, Blocked(row[op[t].user]),
                      t \in tokens'[op[t].user] \ tokens[op[t].user]
               PROVE  <<op[t].user, "isBlocked">> \in missed[t]
    BY <1>1 DEF Next, Terminated
  <2>t. TypeOK /\ Fresh /\ Entered /\ op[s].user \in Users /\ op[t].user \in Users
        /\ tokens \in [Users -> SUBSET Tasks]
    BY <1>1, OpFacts DEF IInv, TypeOK
  <2>1. createRefreshToken(s)
    BY <2>t, Frame DEF deleteTokens
  <2>2. s = t
    BY <2>1, <2>t DEF createRefreshToken
  <2>3. Did(t, "findLogin") /\ "isBlocked" \notin Sets(t)
    BY <1>1, <2>1, <2>2, <2>t, OpFacts, Places DEF IInv, createRefreshToken
  <2>4. entity[t]["isBlocked"] # row[op[t].user]["isBlocked"]
    BY <2>3, <2>t DEF Entered, Blocked
  <2> QED  BY <2>3, <2>4, <2>t DEF Fresh, HasRead, Columns
<1> QED  BY <1>1, Safety, PTL DEF Spec, BlockedStaysOut

\* A stored code is accepted once, except by checks that overlap.
THEOREM CodeUsedOnceHolds == Spec => []CodeUsedOnce
<1>1. ASSUME IInv PROVE CodeUsedOnce
  <2> SUFFICES ASSUME NEW t \in Tasks, NEW s \in Tasks, Did(t, "useCode"), Did(s, "useCode"),
                      op[t].user = op[s].user, found[t].by = found[s].by
               PROVE  t = s \/ {t, s} \subseteq tangled
    BY DEF CodeUsedOnce
  <2>1. ASSUME NEW r \in Tasks, Did(r, "useCode")
        PROVE  Checking(r) /\ Valid(found[r]) /\ found[r] \in Code
    <3>1. Checks(r) /\ pc[r] > 3 /\ pc[r] \in Nat
      BY <1>1, <2>1, OpFacts, CodeDone DEF IInv
    <3> QED  BY <1>1, <3>1 DEF IInv, CodesOK, Checking, Valid, TypeOK
  <2>2. Valid(found[t]) /\ found[t] = found[s]
    BY <2>1 DEF Valid, Code
  <2> QED  BY <1>1, <2>1, <2>2 DEF IInv, CodesOK
<1> QED  BY <1>1, Safety, PTL

\* The code a phone has received last is the stored one, unless another call
\* worked on the code beside it.
THEOREM LatestCodeStoredHolds == Spec => []LatestCodeStored
<1>1. ASSUME IInv PROVE LatestCodeStored
  <2> SUFFICES ASSUME NEW u \in Users, NEW r \in {lastSent[u]} \cap (Tasks \ tangled),
                      Did(r, "storeCode")
               PROVE  code[u] # NoCode /\ code[u].by = r
    BY DEF LatestCodeStored
  <2>1. pc[r] > 3
    BY <1>1, OpFacts, CodeDone DEF IInv
  <2> QED  BY <1>1, <2>1 DEF IInv, LatestOK
<1> QED  BY <1>1, Safety, PTL
\* A child loses its user, or a user gets an account twice, only by a race, a
\* profile save beside it or a new number.
THEOREM ChildrenAsStoredHolds == Spec => []ChildrenAsStored
<1>1. IInv => ChildrenAsStored
  BY DEF IInv
<1> QED  BY <1>1, Safety, PTL
=============================================================================
