---------------------------- MODULE Registration ----------------------------
(***************************************************************************)
(* How a person becomes a user (users.service.ts): the transaction that    *)
(* stores user, wallet and card and takes a kit number from the stock      *)
(* (cards.service.ts), the jobs and the virtual account that follow its    *)
(* commit; the uploads that fill the stock (kit-number.service.ts).        *)
(*                                                                         *)
(* What a transaction has written and not committed is read off the        *)
(* position of its call; a rollback takes the call out and leaves nothing. *)
(* A statement that meets an uncommitted row of another transaction waits. *)
(* A user is known by the call that registered it.  The refresh token that *)
(* ends a registration is that of Accounts; the answers of the Aadhaar     *)
(* provider are stored and never read, and left out.                       *)
(***************************************************************************)
EXTENDS Naturals, Sequences, FiniteSets

CONSTANTS Persons,      \* who registers: a phone, an Aadhaar, a PAN
          Tasks,
          Operations,   \* the calls a task may make
          Phones,       \* the phone numbers calls name for a virtual account
          Numbers,      \* kit numbers
          Stock,        \* those in stock from the beginning
          Faulty,       \* tasks on which a statement or a provider may fail
          NoKit

\* The transaction and what follows it; newUser is queued as well, and is in Lists.
registerUserNew ==
  <<"findReferrer", "insertUser", "findKit", "saveKit", "insertCard", "commit", "queueReferral">>

\* A mutant: the kit is taken before the user is stored.
registerUser_kitFirst ==
  <<"findPerson", "findKit", "saveKit", "insertUser", "insertCard", "commit", "queueReferral">>

registerUser == <<"findPerson">> \o registerUserNew

createVirtualAccount == <<"findAccount", "createAtProvider", "saveAccount">>

aadhaarVerifyOtp == registerUserNew \o createVirtualAccount

populateKitNumbersFromJSON == <<"findNumber", "saveNumber">>

createKitNumber == <<"saveNumber">>

validateUserCardAssignment == <<"findCard", "activateCard">>

Program ==
  [registerUser |-> registerUser, aadhaarVerifyOtp |-> aadhaarVerifyOtp,
   createVirtualAccount |-> createVirtualAccount,
   populateKitNumbersFromJSON |-> populateKitNumbersFromJSON,
   createKitNumber |-> createKitNumber,
   validateUserCardAssignment |-> validateUserCardAssignment]

\* A row of kit_number is known by its number and the call that stored it.
Kits == [number : Numbers, by : Tasks \cup {"stock"}]

ASSUME RegistrationAssumption ==
  /\ Operations \subseteq [kind : DOMAIN Program, person : Persons, phone : Phones,
                           number : Numbers, referral : {"none", "valid", "unknown"},
                           pin : {"sixDigits", "other"}]
  /\ Stock \subseteq Numbers /\ Faulty \subseteq Tasks /\ NoKit \notin Kits

VARIABLES users,      \* the committed users: the calls that stored them
          kits,       \* the rows of kit_number
          assigned,   \* those with isAssigned
          active,     \* users whose card is active
          accounts,   \* the rows of virtual_accounts: user, number and call
          queued,     \* users whose referral is in the queue of the wallet
          op, pc,     \* the call of each task, and where it is in its program
          over,       \* tasks whose call was refused or has broken off
          kit,        \* the kit a registration has picked
          contended,  \* history: registrations that had picked the kit of another
          doubled,    \* history: numbers stored by calls that could not see each other
          raced       \* history: for whom and which number two calls looked for an account

history == <<contended, doubled, raced>>
rest == <<users, kits, assigned, active, accounts, queued, kit, history>>
vars == <<rest, op, pc, over>>

Running(t) == t \notin over /\ pc[t] <= Len(Program[op[t].kind])

At(t, step) == Running(t) /\ Program[op[t].kind][pc[t]] = step

Did(t, step) == \E i \in 1..(pc[t] - 1) : Program[op[t].kind][i] = step

Advance(t) == pc' = [pc EXCEPT ![t] = @ + 1] /\ UNCHANGED <<op, over>>

Refuse(t) == over' = over \cup {t} /\ UNCHANGED <<op, pc>>

Init ==
  /\ users = {} /\ kits = [number : Stock, by : {"stock"}] /\ assigned = {}
  /\ active = {} /\ accounts = {} /\ queued = {}
  /\ op \in [Tasks -> Operations] /\ pc = [t \in Tasks |-> 1] /\ over = {}
  /\ kit = [t \in Tasks |-> NoKit]
  /\ contended = {} /\ doubled = {} /\ raced = {}

-----------------------------------------------------------------------------
(* The transaction of a registration.                                      *)

\* Between the first write of its transaction and the commit.
Writing(t, step) == t \notin over /\ Did(t, step) /\ ~Did(t, "commit")

\* A mutant: the phone number carries no constraint.
Taken_never(t) == FALSE

\* The unique columns of users: phone, Aadhaar, PAN, card holder.
Taken(t) == \E s \in users : op[s].person = op[t].person

findPerson(t) ==
  /\ At(t, "findPerson")
  /\ IF Taken(t) THEN Refuse(t) ELSE Advance(t)
  /\ UNCHANGED rest

\* validateRefferelCode: a code that belongs to nobody rolls back.
findReferrer(t) ==
  /\ At(t, "findReferrer")
  /\ IF op[t].referral = "unknown" THEN Refuse(t) ELSE Advance(t)
  /\ UNCHANGED rest

\* The insert waits for the insert of the same person by another transaction.
WaitsForUser(t) ==
  {s \in Tasks \ {t} : /\ At(t, "insertUser") /\ Writing(s, "insertUser")
                       /\ op[s].person = op[t].person}

insertUser(t) ==
  /\ At(t, "insertUser")
  /\ WaitsForUser(t) = {}
  /\ IF Taken(t) THEN Refuse(t) ELSE Advance(t)
  /\ UNCHANGED rest

Free == kits \ assigned

Contenders(t, k) == {s \in Tasks \ {t} : Writing(s, "findKit") /\ kit[s] = k}

\* The first kit the database returns; null, when none is free, throws.
findKit(t) ==
  /\ At(t, "findKit")
  /\ \/ Free = {} /\ Refuse(t) /\ UNCHANGED <<kit, contended>>
     \/ \E k \in Free :
          /\ kit' = [kit EXCEPT ![t] = k]
          /\ contended' = contended \cup
               IF Contenders(t, k) = {} THEN {} ELSE Contenders(t, k) \cup {t}
          /\ Advance(t)
  /\ UNCHANGED <<users, kits, assigned, active, accounts, queued, doubled, raced>>

WaitsForKit(t) ==
  {s \in Tasks \ {t} : At(t, "saveKit") /\ Writing(s, "saveKit") /\ kit[s] = kit[t]}

saveKit(t) ==
  /\ At(t, "saveKit")
  /\ WaitsForKit(t) = {}
  /\ Advance(t)
  /\ UNCHANGED rest

\* A mutant: the card's kit carries no constraint.
HasCard_never(k) == FALSE

\* The unique column kitNumberId of the card.
HasCard(k) == \E s \in users : kit[s] = k

insertCard(t) ==
  /\ At(t, "insertCard")
  /\ IF HasCard(kit[t]) THEN Refuse(t) ELSE Advance(t)
  /\ UNCHANGED rest

commit(t) ==
  /\ At(t, "commit")
  /\ users' = users \cup {t}
  /\ assigned' = assigned \cup {kit[t]}
  /\ Advance(t)
  /\ UNCHANGED <<kits, active, accounts, queued, kit, history>>

queueReferral(t) ==
  /\ At(t, "queueReferral")
  /\ queued' = queued \cup IF op[t].referral = "valid" THEN {t} ELSE {}
  /\ Advance(t)
  /\ UNCHANGED <<users, kits, assigned, active, accounts, kit, history>>

-----------------------------------------------------------------------------
(* Virtual accounts.                                                       *)

\* A mutant: the user is handed on before its transaction is committed.
Owner_uncommitted(t) ==
  {s \in Tasks : Did(s, "insertUser") /\ op[s].person = op[t].person}

\* The user on whose behalf a call asks for an account.
Owner(t) == {s \in users : op[s].person = op[t].person}

\* { number: phoneNumber, userid: userId }: the number is what the request says, and
\* need not be the user's own.
HasAccount(t) == \E a \in accounts : a.user \in Owner(t) /\ a.phone = op[t].phone

\* What a call asks an account for.
Wanted(t) == <<op[t].person, op[t].phone>>

\* A refusal that is a BadRequest is returned: the caller goes on.
Answer(t) == pc' = [pc EXCEPT ![t] = Len(Program[op[t].kind]) + 1] /\ UNCHANGED <<op, over>>

findAccount(t) ==
  /\ At(t, "findAccount") /\ Owner(t) # {}
  /\ IF op[t].pin = "other" \/ HasAccount(t) THEN Answer(t) ELSE Advance(t)
  /\ raced' = raced \cup
       {w \in {Wanted(t)} : \E s \in Tasks \ {t} :
          Wanted(s) = w /\ (At(s, "createAtProvider") \/ At(s, "saveAccount"))}
  /\ UNCHANGED <<users, kits, assigned, active, accounts, queued, kit, contended, doubled>>

\* A mutant: any error is answered like a BadRequest.
ProviderFails_answered(t) == Answer(t)

\* Any other error is thrown.
ProviderFails(t) == Refuse(t)

createAtProvider(t) ==
  /\ At(t, "createAtProvider")
  /\ Advance(t) \/ (t \in Faulty /\ ProviderFails(t))
  /\ UNCHANGED rest

saveAccount(t) ==
  /\ At(t, "saveAccount")
  /\ accounts' = accounts \cup [user : Owner(t), phone : {op[t].phone}, by : {t}]
  /\ Advance(t)
  /\ UNCHANGED <<users, kits, assigned, active, queued, kit, history>>

-----------------------------------------------------------------------------
(* The stock of kits, and the activation of a card.                        *)

Stored(n) == \E k \in kits : k.number = n

\* A number that exists is skipped.
findNumber(t) ==
  /\ At(t, "findNumber")
  /\ IF Stored(op[t].number) THEN Refuse(t) ELSE Advance(t)
  /\ UNCHANGED rest

\* No constraint keeps a number unique, and create does not look.
saveNumber(t) ==
  LET n == op[t].number IN
  /\ At(t, "saveNumber")
  /\ kits' = kits \cup {[number |-> n, by |-> t]}
  /\ doubled' = doubled \cup
       {m \in {n} : \/ op[t].kind = "createKitNumber"
                    \/ \E s \in Tasks \ {t} : At(s, "saveNumber") /\ op[s].number = m}
  /\ Advance(t)
  /\ UNCHANGED <<users, assigned, active, accounts, queued, kit, contended, raced>>

findCard(t) ==
  /\ At(t, "findCard")
  /\ IF Owner(t) = {} THEN Refuse(t) ELSE Advance(t)
  /\ UNCHANGED rest

activateCard(t) ==
  /\ At(t, "activateCard")
  /\ active' = active \cup Owner(t)
  /\ Advance(t)
  /\ UNCHANGED <<users, kits, assigned, accounts, queued, kit, history>>

-----------------------------------------------------------------------------
\* A statement, a queue or a provider fails: before the commit nothing is left.
fail(t) ==
  /\ t \in Faulty /\ Running(t)
  /\ Refuse(t)
  /\ UNCHANGED rest

Step(t) ==
  \/ findPerson(t) \/ findReferrer(t) \/ insertUser(t) \/ findKit(t) \/ saveKit(t)
  \/ insertCard(t) \/ commit(t) \/ queueReferral(t)
  \/ findAccount(t) \/ createAtProvider(t) \/ saveAccount(t)
  \/ findNumber(t) \/ saveNumber(t) \/ findCard(t) \/ activateCard(t) \/ fail(t)

\* Nothing is left to do but requests for an account of persons who are no users.
Terminated ==
  /\ \A t \in Tasks : Running(t) => At(t, "findAccount") /\ Owner(t) = {}
  /\ UNCHANGED vars

Next == (\E t \in Tasks : Step(t)) \/ Terminated

Spec == Init /\ [][Next]_vars

-----------------------------------------------------------------------------
(* Properties.                                                             *)

TypeOK ==
  /\ users \subseteq Tasks /\ kits \subseteq Kits /\ assigned \subseteq kits
  /\ active \subseteq users /\ accounts \subseteq [user : users, phone : Phones, by : Tasks]
  /\ queued \subseteq Tasks
  /\ op \in [Tasks -> Operations] /\ pc \in [Tasks -> Nat \ {0}] /\ over \subseteq Tasks
  /\ kit \in [Tasks -> Kits \cup {NoKit}]
  /\ contended \subseteq Tasks /\ doubled \subseteq Numbers /\ raced \subseteq Persons \X Phones

\* Two cards never carry one kit number, although kits are picked without a
\* lock; unless the number is twice in stock, by uploads that overlap or create.
\* And a registration that has found a kit is refused it only because another
\* one had picked the same kit while its own was under way.
OneCardPerNumber ==
  /\ \A t, s \in users :
       kit[t].number = kit[s].number => t = s \/ kit[t].number \in doubled
  /\ \A t \in over \ Faulty : Program[op[t].kind][pc[t]] = "insertCard" => t \in contended

\* Registrations wait for each other's persons and kits, and never in a circle:
\* among those that wait, some wait for one that does not.
NoStandstill ==
  \A S \in (SUBSET Tasks) \ {{}} :
    \E t \in S : (WaitsForUser(t) \cup WaitsForKit(t)) \cap S = {}

\* The answer that a person is registered means it: the user is stored, the
\* referral is on its way to the wallet, and there is a virtual account, unless
\* the transfer PIN was malformed, which goes unnoticed (aadhaarVerifyOtp).  And
\* the wallet never hears of a user whose registration is rolled back.
AnswerMeansRegistered ==
  /\ \A t \in Tasks \ over :
       op[t].kind \in {"registerUser", "aadhaarVerifyOtp"} /\ ~Running(t) =>
         /\ t \in users /\ (op[t].referral = "valid" => t \in queued)
         /\ op[t].kind = "registerUser" \/ op[t].pin = "other"
            \/ \E a \in accounts : a.user = t
  /\ queued \subseteq users

\* However the calls for a person overlap, one user comes of them, although
\* registerUserNew does not even look; and one virtual account for each number the
\* user names ('Virtual account already created for this number and user'), unless
\* two calls looked for it together (createVirtualAccount).
StoredOnce ==
  /\ \A t, s \in users : op[t].person = op[s].person => t = s
  /\ \A a, b \in accounts : a.user = b.user /\ a.phone = b.phone =>
       a = b \/ <<op[a.user].person, a.phone>> \in raced

-----------------------------------------------------------------------------
(* What makes the properties inductive.                                    *)

\* A call is at a step of its program, or behind the last; and one that is over
\* was refused at a step.
Placed ==
  /\ \A t \in Tasks : pc[t] <= Len(Program[op[t].kind]) + 1
  /\ \A t \in over : pc[t] <= Len(Program[op[t].kind])

\* The row of the user is stored, committed or not, and not rolled back.
Inserted(t) == Did(t, "insertUser") /\ (t \notin over \/ Did(t, "commit"))

\* A person has at most one row, also among those that are not committed.
UsersUnique ==
  /\ users = {t \in Tasks : Did(t, "commit")}
  /\ \A t, s \in Tasks : Inserted(t) /\ Inserted(s) /\ op[t].person = op[s].person => t = s

\* A kit has at most one writer, and none that commits once it has a card.
KitsUnique ==
  /\ assigned = {kit[t] : t \in users}
  /\ \A t \in Tasks : Did(t, "findKit") => kit[t] \in kits
  /\ \A t, s \in Tasks : Writing(t, "saveKit") /\ Writing(s, "saveKit") /\ kit[t] = kit[s] => t = s
  /\ \A t \in Tasks : At(t, "commit") => ~HasCard(kit[t])
  /\ \A t, s \in users : kit[t] = kit[s] => t = s

\* Who finds its kit with a card, or may yet, had picked the kit of another.
KitsContended ==
  /\ \A t, s \in Tasks :
       Writing(t, "findKit") /\ Writing(s, "findKit") /\ kit[t] = kit[s] => t = s \/ t \in contended
  /\ \A t \in Tasks :
       Writing(t, "findKit") /\ ~Did(t, "insertCard") /\ HasCard(kit[t]) => t \in contended

\* A number comes twice only from calls that could not see each other's row.
NumbersUnique ==
  /\ \A k, l \in kits : k.number = l.number => k = l \/ k.number \in doubled
  /\ \A t \in Tasks :
       At(t, "saveNumber") /\ op[t].kind = "populateKitNumbersFromJSON" /\ Stored(op[t].number)
         => op[t].number \in doubled

\* What queueReferral was asked to do is done.
ReferralsQueued ==
  \A t \in Tasks : Did(t, "queueReferral") /\ op[t].referral = "valid" => t \in queued

\* Between the look for an account and its insert.
Creating(t) == At(t, "createAtProvider") \/ At(t, "saveAccount")

\* An account turns up behind the look, or two calls are behind it, only when
\* they looked together.
AccountsRaced ==
  /\ \A t \in Tasks : Creating(t) /\ HasAccount(t) => Wanted(t) \in raced
  /\ \A t, s \in Tasks :
       Creating(t) /\ Creating(s) /\ Wanted(t) = Wanted(s) => t = s \/ Wanted(t) \in raced

IInv ==
  /\ TypeOK /\ Placed
  /\ UsersUnique /\ KitsUnique /\ KitsContended /\ NumbersUnique /\ ReferralsQueued /\ AccountsRaced
  /\ OneCardPerNumber /\ NoStandstill /\ AnswerMeansRegistered /\ StoredOnce
=============================================================================
