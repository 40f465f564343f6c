------------------------------ MODULE Accounts ------------------------------
(***************************************************************************)
(* What calls do to a user: the row of the table users with the rows that  *)
(* belong to it (documents, beneficiaries), the codes that are sent to the *)
(* phone, PINs, devices and refresh tokens (users.service.ts,              *)
(* auth.service.ts, token.service.ts, otp.repository.ts,                   *)
(* otp-flow.service.ts, beneficiary.service.ts).                           *)
(*                                                                         *)
(* No call locks anything and only the upload of documents runs in a       *)
(* transaction.  A call is a program, the list of its statements; the      *)
(* statements of different calls interleave.  Data is known by the call it *)
(* comes from: a column holds the calls whose data it shows, a code is the *)
(* call that made it.                                                      *)
(***************************************************************************)
EXTENDS Naturals, Sequences, FiniteSets

CONSTANTS Users, Tasks,
          Operations,   \* the calls a task may make
          Items,        \* bank accounts of beneficiaries, types of documents
          HasAccount,   \* users with a virtual account
          Faulty,       \* tasks on which a statement may fail
          NoUser, NoCode

Columns == {"isBlocked", "kyc", "icon", "staticQR", "pin", "devices", "profile",
            "transferPin"}   \* the last one is the virtual account's

\* The statements of a call, the columns it means to write, the relations its
\* find loads along with the user: of those, loans, merchant, card and address are
\* left out.
Call(program, columns, relations) ==
  [program |-> program, columns |-> columns, relations |-> relations]

WholeRow == <<"findUser", "saveUser">>
AskCode == <<"sendCode", "findCode", "storeCode">>
CheckCodeAndSet == <<"findCode", "checkCode", "useCode", "updateColumn">>
StoreChild == <<"findChild", "saveChild">>

deleteUser == Call(WholeRow, {"isBlocked"}, {})
deleteUserNew == Call(<<"findUser", "comparePin", "saveUser">>, {"isBlocked"}, {})
deleteProfileIcon == Call(WholeRow, {"icon"}, {})
updateProfileIcon == Call(WholeRow, {"icon"}, {})
updateStaticQR == Call(WholeRow, {"staticQR"}, {})
handleKycEvent == Call(WholeRow, {"kyc"}, {})
updateUserProfile ==
  Call(WholeRow, {"profile", "isBlocked", "kyc"}, {"beneficiary", "document"})
editUserProfile == Call(WholeRow, {"profile", "isBlocked", "kyc"}, {"beneficiary"})
updateUserKycDetails == Call(StoreChild, {"kyc"}, {})

setPin == Call(<<"updateColumn">>, {"pin"}, {})
changeTransferPin == Call(<<"findAccount", "comparePin", "updateColumn">>, {"transferPin"}, {})

requestOtp == Call(AskCode, {}, {})
changeAppLockPin == requestOtp
changeTransactionLockPin == requestOtp
sendVerificationCode == requestOtp

verifyAppLockPinOtp == Call(CheckCodeAndSet, {"pin"}, {})
verifyCodeAndUpdateUserPin == Call(CheckCodeAndSet, {"pin"}, {})

verifyTransactionLockPinOtp ==
  Call(<<"findCode", "checkCode", "useCode", "findAccount", "updateColumn">>, {"transferPin"}, {})

getUserData == Call(<<"findLogin", "saveToken">>, {}, {})
validateOTP ==
  Call(<<"findCode", "checkCode", "useCode", "findLogin", "updateDevices", "saveToken">>,
       {"devices"}, {})
validateOTPNew == validateOTP
revokeAccessToken == Call(<<"deleteTokens">>, {}, {})

createBeneficiary == Call(StoreChild, {}, {})
updateBeneficiary == Call(<<"findAny", "renumber">>, {}, {})
removeBeneficiary == Call(<<"findAny", "deleteRows">>, {}, {})

Calls ==
  [deleteUser |-> deleteUser, deleteUserNew |-> deleteUserNew,
   deleteProfileIcon |-> deleteProfileIcon, updateProfileIcon |-> updateProfileIcon,
   updateStaticQR |-> updateStaticQR, handleKycEvent |-> handleKycEvent,
   updateUserProfile |-> updateUserProfile, editUserProfile |-> editUserProfile,
   updateUserKycDetails |-> updateUserKycDetails, setPin |-> setPin,
   changeTransferPin |-> changeTransferPin, requestOtp |-> requestOtp,
   changeAppLockPin |-> changeAppLockPin,
   changeTransactionLockPin |-> changeTransactionLockPin,
   sendVerificationCode |-> sendVerificationCode,
   verifyAppLockPinOtp |-> verifyAppLockPinOtp,
   verifyCodeAndUpdateUserPin |-> verifyCodeAndUpdateUserPin,
   verifyTransactionLockPinOtp |-> verifyTransactionLockPinOtp,
   getUserData |-> getUserData, validateOTP |-> validateOTP,
   validateOTPNew |-> validateOTPNew, revokeAccessToken |-> revokeAccessToken,
   createBeneficiary |-> createBeneficiary, updateBeneficiary |-> updateBeneficiary,
   removeBeneficiary |-> removeBeneficiary]

\* "isBlocked" is what a profile update carries, "item" is renumbered to "newItem".
ASSUME AccountsAssumption ==
  /\ Operations \subseteq [kind : DOMAIN Calls, user : Users,
                           isBlocked : {"true", "false"}, item : Items, newItem : Items]
  /\ HasAccount \subseteq Users /\ Faulty \subseteq Tasks /\ "none" \notin Tasks
  /\ NoUser \notin Users /\ NoCode \notin [by : Tasks, state : {"new", "used"}]

VARIABLES row,       \* row[u][c]: the calls whose data column c of user u shows
          children,  \* rows of user_doc_record and beneficiary
          code,      \* the row of otp_info of a user's phone
          tokens,    \* the stored refresh tokens of a user
          op, pc,    \* the call of each task, and where it is in its program
          over,      \* tasks whose call was refused or has broken off
          entity,    \* the row a task has read
          loaded,    \* the children it has read with it
          found,     \* the code it has looked up
          lastSent,  \* history: the code a phone has received last
          missed,    \* history: what a task has not seen change since its read
          tangled,   \* history: tasks whose work on a code overlapped another's
          torn,      \* history: children stored while a profile save held the user
          raced      \* history: items two calls looked up before either stored

history == <<lastSent, missed, tangled, torn, raced>>
vars == <<row, children, code, tokens, op, pc, over, entity, loaded, found, history>>

Program(t) == Calls[op[t].kind].program

Running(t) == t \notin over /\ pc[t] <= Len(Program(t))

At(t, step) == Running(t) /\ Program(t)[pc[t]] = step

Did(t, step) == \E i \in 1..(pc[t] - 1) : Program(t)[i] = step

Advance(t) == pc' = [pc EXCEPT ![t] = @ + 1] /\ UNCHANGED <<op, over>>

Refuse(t) == over' = over \cup {t} /\ UNCHANGED <<op, pc>>

Init ==
  /\ row = [u \in Users |-> [c \in Columns |-> {}]]
  /\ children = {} /\ code = [u \in Users |-> NoCode] /\ tokens = [u \in Users |-> {}]
  /\ op \in [Tasks -> Operations] /\ pc = [t \in Tasks |-> 1] /\ over = {}
  /\ entity = [t \in Tasks |-> [c \in Columns |-> {}]]
  /\ loaded = [t \in Tasks |-> {}] /\ found = [t \in Tasks |-> NoCode]
  /\ lastSent = [u \in Users |-> "none"] /\ missed = [t \in Tasks |-> {}]
  /\ tangled = {} /\ torn = {} /\ raced = {}

-----------------------------------------------------------------------------
(* The row of the user.                                                    *)

Blocked(r) ==
  \E t \in r["isBlocked"] :
    op[t].kind \in {"deleteUser", "deleteUserNew"} \/ op[t].isBlocked = "true"

\* The columns a call sets.
Sets(t) == Calls[op[t].kind].columns

\* The tasks that read before do not see what task t changes.
Misses(t, changed) ==
  missed' = [s \in Tasks |-> IF s = t THEN missed[s] ELSE missed[s] \cup changed]

Read(t) ==
  /\ entity' = [entity EXCEPT ![t] = row[op[t].user]]
  /\ loaded' = [loaded EXCEPT ![t] =
       {c.by : c \in {d \in children : /\ d.owner = op[t].user
                                       /\ d.type \in Calls[op[t].kind].relations}}]
  /\ missed' = [missed EXCEPT ![t] = {}]

findUser(t) ==
  /\ At(t, "findUser")
  /\ Read(t)
  /\ Advance(t)
  /\ UNCHANGED <<row, children, code, tokens, found, lastSent, tangled, torn, raced>>

\* bcrypt.compare with the PIN the caller gives.
comparePin(t) ==
  /\ At(t, "comparePin")
  /\ Advance(t) \/ Refuse(t)
  /\ UNCHANGED <<row, children, code, tokens, entity, loaded, found, history>>

\* A mutant: the row is built anew from the request.
Saved_anew(t, c) == IF c \in Sets(t) THEN {t} ELSE {}

\* The value save gives to a column of users: every column the entity has read
\* and that differs by now is written back.
Saved(t, c) == IF c \in Sets(t) THEN {t} ELSE entity[t][c]

\* A mutant: the relations come from the request and are empty.
AfterSave_emptied(t, d) ==
  IF d.type \notin Calls[op[t].kind].relations THEN d
  ELSE IF d.owner = op[t].user THEN [d EXCEPT !.owner = NoUser] ELSE d

\* save compares the loaded relations with the table: a child it has not read is
\* cut off from the user, one it has read is tied to the user again.
AfterSave(t, d) ==
  IF d.type \notin Calls[op[t].kind].relations THEN d
  ELSE IF d.by \in loaded[t] THEN [d EXCEPT !.owner = op[t].user]
  ELSE IF d.owner = op[t].user THEN [d EXCEPT !.owner = NoUser] ELSE d

saveUser(t) ==
  LET u == op[t].user
      newRow == [c \in Columns |-> IF c = "transferPin" THEN row[u][c] ELSE Saved(t, c)]
  IN /\ At(t, "saveUser")
     /\ row' = [row EXCEPT ![u] = newRow]
     /\ children' = {AfterSave(t, d) : d \in children}
     /\ Misses(t, {<<u, c>> : c \in {x \in Columns : newRow[x] # row[u][x]}})
     /\ Advance(t)
     /\ UNCHANGED <<code, tokens, entity, loaded, found, lastSent, tangled, torn, raced>>

updateColumn(t) ==
  LET u == op[t].user
  IN /\ At(t, "updateColumn")
     /\ row' = [row EXCEPT ![u] = [c \in Columns |-> IF c \in Sets(t) THEN {t} ELSE @[c]]]
     /\ Misses(t, {<<u, c>> : c \in Sets(t)})
     /\ Advance(t)
     /\ UNCHANGED <<children, code, tokens, entity, loaded, found, lastSent, tangled, torn, raced>>

\* setTransactionLockPin sets the PIN of null, changeTransferPin answers an error.
findAccount(t) ==
  /\ At(t, "findAccount")
  /\ IF op[t].user \in HasAccount THEN Advance(t) ELSE Refuse(t)
  /\ UNCHANGED <<row, children, code, tokens, entity, loaded, found, history>>

-----------------------------------------------------------------------------
(* Codes.                                                                  *)

\* The calls that send a code and store it, and those that check one.
Asks(t) == Program(t)[1] = "sendCode"
Checks(t) == Program(t)[1] = "findCode"

\* The task has begun to work on its user's code and will still write it: both
\* kinds of calls do so at their third step.
InCode(t) == (Asks(t) \/ Checks(t)) /\ t \notin over /\ pc[t] \in {2, 3}

Overlaps(t) == {s \in Tasks \ {t} : InCode(s) /\ op[s].user = op[t].user}

Tangle(t) ==
  tangled' = tangled \cup IF Overlaps(t) = {} THEN {} ELSE Overlaps(t) \cup {t}

\* The message leaves before anything is stored.
sendCode(t) ==
  /\ At(t, "sendCode")
  /\ lastSent' = [lastSent EXCEPT ![op[t].user] = t]
  /\ Tangle(t)
  /\ Advance(t)
  /\ UNCHANGED <<row, children, code, tokens, entity, loaded, found, missed, torn, raced>>

findCode(t) ==
  /\ At(t, "findCode")
  /\ found' = [found EXCEPT ![t] = code[op[t].user]]
  /\ Tangle(t)
  /\ Advance(t)
  /\ UNCHANGED <<row, children, code, tokens, entity, loaded, lastSent, missed, torn, raced>>

\* A mutant: an existing record keeps its value.
NewCode_kept(t) ==
  IF found[t] = NoCode THEN [by |-> t, state |-> "new"] ELSE [found[t] EXCEPT !.state = "new"]

NewCode(t) == [by |-> t, state |-> "new"]

\* upsertOtpInfo updates the record it has found or inserts one; an insert
\* fails on the unique phone number when another call was faster, and the
\* request answers without success.
storeCode(t) ==
  /\ At(t, "storeCode")
  /\ IF found[t] = NoCode /\ code[op[t].user] # NoCode
     THEN Refuse(t) /\ UNCHANGED code
     ELSE Advance(t) /\ code' = [code EXCEPT ![op[t].user] = NewCode(t)]
  /\ UNCHANGED <<row, children, tokens, entity, loaded, found, history>>

\* A mutant: a used record is accepted again.
Valid_again(r) == r # NoCode

Valid(r) == r # NoCode /\ r.state = "new"

\* The code is missing, expired, used or wrong; or it is accepted.
checkCode(t) ==
  /\ At(t, "checkCode")
  /\ \/ Refuse(t)
     \/ Valid(found[t]) /\ Advance(t)
  /\ UNCHANGED <<row, children, code, tokens, entity, loaded, found, history>>

\* updateOTPUsedRecord writes the record back as it was read.
useCode(t) ==
  /\ At(t, "useCode")
  /\ code' = [code EXCEPT ![op[t].user] = [found[t] EXCEPT !.state = "used"]]
  /\ Advance(t)
  /\ UNCHANGED <<row, children, tokens, entity, loaded, found, history>>

-----------------------------------------------------------------------------
(* Sessions.                                                               *)

\* A mutant: blocked users are let in.
MayEnter_always(r) == TRUE

MayEnter(r) == ~Blocked(r)

findLogin(t) ==
  /\ At(t, "findLogin")
  /\ Read(t)
  /\ IF MayEnter(row[op[t].user]) THEN Advance(t) ELSE Refuse(t)
  /\ UNCHANGED <<row, children, code, tokens, found, lastSent, tangled, torn, raced>>

Devices(t) == entity[t]["devices"] \cup {t}

updateDevices(t) ==
  /\ At(t, "updateDevices")
  /\ row' = [row EXCEPT ![op[t].user]["devices"] = Devices(t)]
  /\ Misses(t, {<<op[t].user, "devices">>})
  /\ Advance(t)
  /\ UNCHANGED <<children, code, tokens, entity, loaded, found, lastSent, tangled, torn, raced>>

createRefreshToken(t) ==
  /\ At(t, "saveToken")
  /\ tokens' = [tokens EXCEPT ![op[t].user] = @ \cup {t}]
  /\ Advance(t)
  /\ UNCHANGED <<row, children, code, entity, loaded, found, history>>

deleteTokens(t) ==
  /\ At(t, "deleteTokens")
  /\ tokens' = [tokens EXCEPT ![op[t].user] = {}]
  /\ Advance(t)
  /\ UNCHANGED <<row, children, code, entity, loaded, found, history>>

-----------------------------------------------------------------------------
(* Documents and beneficiaries.                                            *)

ChildType(t) == IF op[t].kind = "updateUserKycDetails" THEN "document" ELSE "beneficiary"

Known(t) ==
  {d \in children : /\ d.type = ChildType(t)
                    /\ d.owner = op[t].user /\ d.item = op[t].item}

\* createBeneficiary refuses an account it finds, an upload updates the document.
findChild(t) ==
  /\ At(t, "findChild")
  /\ loaded' = [loaded EXCEPT ![t] = {d.by : d \in Known(t)}]
  /\ IF Known(t) # {} /\ op[t].kind = "createBeneficiary" THEN Refuse(t) ELSE Advance(t)
  /\ raced' = raced \cup
       {i \in {op[t].item} : \E s \in Tasks \ {t} :
          /\ At(s, "saveChild") /\ ChildType(s) = ChildType(t)
          /\ op[s].user = op[t].user /\ op[s].item = i}
  /\ UNCHANGED <<row, children, code, tokens, entity, found, lastSent, missed, tangled, torn>>

\* The profile saves that have read user u and its children of this type.
Holding(u, type) ==
  {s \in Tasks : At(s, "saveUser") /\ op[s].user = u /\ type \in Calls[op[s].kind].relations}

Store(t) ==
  /\ children' = children \cup
       {[by |-> t, owner |-> op[t].user, type |-> ChildType(t), item |-> op[t].item]}
  /\ torn' = torn \cup IF Holding(op[t].user, ChildType(t)) = {} THEN {} ELSE {t}

\* The upload asks for a verification when all types are among the required
\* ones; the update that does so has no criterion and reaches every user.
saveChild(t) ==
  /\ At(t, "saveChild")
  /\ IF loaded[t] = {} THEN Store(t) ELSE UNCHANGED <<children, torn>>
  /\ \/ /\ op[t].kind = "updateUserKycDetails"
        /\ row' = [u \in Users |-> [row[u] EXCEPT !["kyc"] = {t}]]
        /\ Misses(t, {<<u, "kyc">> : u \in Users})
     \/ UNCHANGED <<row, missed>>
  /\ Advance(t)
  /\ UNCHANGED <<code, tokens, entity, loaded, found, lastSent, tangled, raced>>

\* update and remove look for the account number among the rows of all users.
SameItem(t) == {d \in children : d.type = "beneficiary" /\ d.item = op[t].item}

findAny(t) ==
  /\ At(t, "findAny")
  /\ IF SameItem(t) # {} THEN Advance(t) ELSE Refuse(t)
  /\ UNCHANGED <<row, children, code, tokens, entity, loaded, found, history>>

renumber(t) ==
  /\ At(t, "renumber")
  /\ children' = (children \ SameItem(t)) \cup
                    {[d EXCEPT !.item = op[t].newItem] : d \in SameItem(t)}
  /\ raced' = raced \cup {op[t].newItem}
  /\ Advance(t)
  /\ UNCHANGED <<row, code, tokens, entity, loaded, found, lastSent, missed, tangled, torn>>

deleteRows(t) ==
  /\ At(t, "deleteRows")
  /\ children' = children \ SameItem(t)
  /\ Advance(t)
  /\ UNCHANGED <<row, code, tokens, entity, loaded, found, history>>

-----------------------------------------------------------------------------
\* A statement fails: what came before it stays.
fail(t) ==
  /\ t \in Faulty /\ Running(t)
  /\ Refuse(t)
  /\ UNCHANGED <<row, children, code, tokens, entity, loaded, found, history>>

Step(t) ==
  \/ findUser(t) \/ comparePin(t) \/ saveUser(t) \/ updateColumn(t) \/ findAccount(t)
  \/ sendCode(t) \/ findCode(t) \/ storeCode(t) \/ checkCode(t) \/ useCode(t)
  \/ findLogin(t) \/ updateDevices(t) \/ createRefreshToken(t) \/ deleteTokens(t)
  \/ findChild(t) \/ saveChild(t) \/ findAny(t) \/ renumber(t) \/ deleteRows(t)
  \/ fail(t)

Terminated == (\A t \in Tasks : ~Running(t)) /\ UNCHANGED vars

Next == (\E t \in Tasks : Step(t)) \/ Terminated

Spec == Init /\ [][Next]_vars

-----------------------------------------------------------------------------
(* Properties.                                                             *)

Code == [by : Tasks, state : {"new", "used"}]
Row == [Columns -> SUBSET Tasks]

TypeOK ==
  /\ row \in [Users -> Row] /\ entity \in [Tasks -> Row]
  /\ children \subseteq [by : Tasks, owner : Users \cup {NoUser},
                          type : {"beneficiary", "document"}, item : Items]
  /\ code \in [Users -> Code \cup {NoCode}] /\ found \in [Tasks -> Code \cup {NoCode}]
  /\ tokens \in [Users -> SUBSET Tasks] /\ loaded \in [Tasks -> SUBSET Tasks]
  /\ op \in [Tasks -> Operations] /\ pc \in [Tasks -> Nat \ {0}] /\ over \subseteq Tasks
  /\ lastSent \in [Users -> Tasks \cup {"none"}]
  /\ missed \in [Tasks -> SUBSET (Users \X Columns)]
  /\ tangled \subseteq Tasks /\ torn \subseteq Tasks /\ raced \subseteq Items

Moves(t) == pc'[t] # pc[t]

\* A column of a user changes by a call that means to write it, for that user,
\* or by one that has read it before its last change and now writes back the old
\* value (save of users.service.ts): a block, a PIN or a result of the KYC is
\* lost in no other way, and a login with a fresh read forgets no device.  Only
\* the upload of documents writes other users.
ColumnsStand ==
  [][\A u \in Users, c \in Columns : row'[u][c] # row[u][c] =>
       \E t \in Tasks : Moves(t) /\
         \/ u = op[t].user /\ <<u, c>> \in missed[t]
         \/ u = op[t].user /\ c \in Sets(t) /\ (c = "devices" => row[u][c] \subseteq row'[u][c])
         \/ op[t].kind = "updateUserKycDetails" /\ c = "kyc"]_vars

\* A blocked user gets no new session, unless the login looked at the user
\* before the block (getUserData).
BlockedStaysOut ==
  [][\A t \in Tasks : LET u == op[t].user IN
       Blocked(row[u]) /\ t \in tokens'[u] \ tokens[u] => <<u, "isBlocked">> \in missed[t]]_vars

\* A stored code is accepted once, except by checks that overlap (updateOTPUsedRecord).
CodeUsedOnce ==
  \A t, s \in Tasks :
    /\ Did(t, "useCode") /\ Did(s, "useCode")
    /\ op[t].user = op[s].user /\ found[t].by = found[s].by
    => t = s \/ {t, s} \subseteq tangled

\* The code that a phone has received last is the one that is stored, unless
\* another call worked on the code at the same time: a second request whose
\* messages overtake, or a check that writes the former code back
\* (requestOtp, updateOTPUsedRecord).
LatestCodeStored ==
  \A u \in Users : \A r \in {lastSent[u]} \cap (Tasks \ tangled) :
    Did(r, "storeCode") => code[u] # NoCode /\ code[u].by = r

\* A document or beneficiary loses its user only when a profile was being saved
\* while it was stored (updateUserProfile, editUserProfile); and a user has an
\* account among the beneficiaries, or a type among the documents, once, unless
\* two calls looked for it together, a profile save tore it off and tied it again,
\* or an update gave another one its number.
ChildrenAsStored ==
  /\ \A d \in children : d.owner = NoUser => d.by \in torn
  /\ \A d, e \in children :
       /\ d.owner = e.owner /\ d.owner # NoUser /\ d.type = e.type /\ d.item = e.item
       => d = e \/ d.item \in raced \/ {d.by, e.by} \cap torn # {}

-----------------------------------------------------------------------------
(* Why they hold, by the position of the calls in their programs.          *)

HasRead(t) == Did(t, "findUser") \/ Did(t, "findLogin")

HasWritten(t) == Did(t, "saveUser") \/ Did(t, "updateDevices")

\* What a task has read is what the table holds, but for what it has missed and
\* what it has written itself.
Fresh ==
  \A t \in Tasks : HasRead(t) => \A c \in Columns :
    \/ entity[t][c] = row[op[t].user][c]
    \/ <<op[t].user, c>> \in missed[t]
    \/ HasWritten(t) /\ c \in Sets(t)

Entered == \A t \in Tasks : Did(t, "findLogin") => ~Blocked(entity[t])

\* The calls that have stored a code.
Stored == {t \in Tasks : Asks(t) /\ pc[t] > 3}

\* The call has found a code, and has accepted it or may do so.
Checking(t) == Checks(t) /\ pc[t] > 1 /\ (t \notin over \/ pc[t] > 3)

\* A code in the table or in hand was stored once, so that one in hand that has
\* been used is not in the table again; two calls hold it only together.
CodesOK ==
  /\ \A u \in Users : code[u] # NoCode => code[u].by \in Stored
  /\ \A t \in Tasks : found[t] # NoCode => found[t].by \in Stored
  /\ \A t \in Tasks : Checks(t) =>
       /\ pc[t] > 2 => Valid(found[t])
       /\ pc[t] > 3 => code[op[t].user] # found[t]
  /\ \A t, s \in Tasks :
       /\ Checking(t) /\ Checking(s) /\ Valid(found[t])
       /\ op[t].user = op[s].user /\ found[t] = found[s]
       => t = s \/ {t, s} \subseteq tangled

\* Nobody works on a code beside the call that sent it last, and later only calls
\* that have found this code.
LatestOK ==
  \A u \in Users : \A r \in {lastSent[u]} \cap (Tasks \ tangled) :
    /\ Asks(r) /\ op[r].user = u /\ pc[r] > 1
    /\ InCode(r) => Overlaps(r) = {}
    /\ pc[r] > 3 =>
         /\ code[u] # NoCode /\ code[u].by = r
         /\ \A s \in Overlaps(r) : Checks(s) /\ found[s] # NoCode /\ found[s].by = r

\* Children are tied to the user they were stored for, or to nobody; what a save
\* has loaded is the user's own.
Owned ==
  /\ \A d \in children : d.owner \in {op[d.by].user, NoUser}
  /\ \A t \in Tasks : \A s \in loaded[t] : op[s].user = op[t].user

\* A profile save cuts off torn children only.
Held ==
  \A t \in Tasks : At(t, "saveUser") => \A d \in children :
    d.owner = op[t].user /\ d.type \in Calls[op[t].kind].relations => d.by \in loaded[t] \cup torn

\* A call that has found nothing and stores next is the first to do so, but for
\* children that came by a race or another way.
Alone ==
  \A t \in Tasks : At(t, "saveChild") =>
    /\ loaded[t] = {} => \A d \in Known(t) : d.item \in raced \/ d.by \in torn
    /\ \A s \in Tasks :
         /\ At(s, "saveChild") /\ ChildType(s) = ChildType(t)
         /\ op[s].user = op[t].user /\ op[s].item = op[t].item
         => s = t \/ op[t].item \in raced

\* The inductive invariant of the proofs.
IInv ==
  /\ TypeOK
  /\ \A t \in Tasks : pc[t] <= Len(Program(t)) + 1
  /\ Fresh /\ Entered /\ CodesOK /\ LatestOK
  /\ ChildrenAsStored /\ Owned /\ Held /\ Alone
=============================================================================
