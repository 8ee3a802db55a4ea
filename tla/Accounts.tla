------------------------------ MODULE Accounts ------------------------------
(***************************************************************************)
(* Opening an account: v1_auth_register, v1_register and admin_create_user *)
(* of web_server.py over BillingService.create_user, which takes three     *)
(* transactions: the user, the first key, the starter credits.             *)
(*                                                                         *)
(* The look-ups a handler does first are not in those transactions; what   *)
(* decides are the primary key and the unique e-mail index of the table.   *)
(***************************************************************************)
EXTENDS Naturals, FiniteSets

CONSTANTS
  Handlers,   \* requests to open an account
  Ids,        \* user ids: what uuid4 may draw, and what an administrator names
  Emails,
  Attempts,   \* ids a handler tries before it gives up (5 in the code)
  Starter,    \* REGISTER_INITIAL_CREDITS
  MaxFaults   \* bound: transactions that fail and processes that die

AttemptsAssumption == Attempts \in Nat \ {0}
BoundsAssumption == Starter \in Nat /\ MaxFaults \in Nat

VARIABLES
  account,    \* the accounts by id; NoAccount if there is none
  handler,    \* how far each handler is
  faults      \* failures so far

vars == <<account, handler, faults>>

None == "none"
SentinelsAssumption == None \notin Handlers \cup Emails
NoAccount == [email |-> None, keys |-> 0, credits |-> 0, by |-> None]
Kinds == {"portal", "curl", "admin"}

\* pc: the step a handler takes next; tries: ids drawn so far.
Handler == [pc: {"start", "precheck", "draw", "check", "insert", "key", "grant", "done"},
            kind: Kinds \cup {None}, email: Emails \cup {None}, id: Ids \cup {None},
            tries: 0..Attempts,
            answer: {None, "created", "email_taken", "user_exists",
                     "register_collision", "error"}]

Exists(id) == account[id] # NoAccount
EmailKnown(email) == \E id \in Ids : Exists(id) /\ account[id].email = email

Init ==
  /\ account = [id \in Ids |-> NoAccount]
  /\ handler = [h \in Handlers |-> [pc |-> "start", kind |-> None, email |-> None,
                                    id |-> None, tries |-> 0, answer |-> None]]
  /\ faults = 0

-----------------------------------------------------------------------------

At(h, pc) == handler[h].pc = pc
Goto(h, pc) == handler' = [handler EXCEPT ![h].pc = pc]
Reply(h, answer) ==
  handler' = [handler EXCEPT ![h].pc = "done", ![h].answer = answer]

\* The request arrives.  The portal gives an e-mail address; administrators
\* choose the id.
StartPortal(h, email) ==
  /\ At(h, "start")
  /\ handler' = [handler EXCEPT ![h].pc = "precheck", ![h].kind = "portal",
                                ![h].email = email]
  /\ UNCHANGED <<account, faults>>

StartCurl(h) ==
  /\ At(h, "start")
  /\ handler' = [handler EXCEPT ![h].pc = "draw", ![h].kind = "curl"]
  /\ UNCHANGED <<account, faults>>

StartAdmin(h, id) ==
  /\ At(h, "start")
  /\ handler' = [handler EXCEPT ![h].pc = "check", ![h].kind = "admin", ![h].id = id]
  /\ UNCHANGED <<account, faults>>

\* The cheap pre-check of v1_auth_register.
PreCheck(h) ==
  /\ At(h, "precheck")
  /\ IF EmailKnown(handler[h].email) THEN Reply(h, "email_taken") ELSE Goto(h, "draw")
  /\ UNCHANGED <<account, faults>>

\* A fresh user id.
Draw(h, id) ==
  /\ At(h, "draw")
  /\ handler' = [handler EXCEPT ![h].pc = "check", ![h].id = id, ![h].tries = @ + 1]
  /\ UNCHANGED <<account, faults>>

\* create_user looks the id up; what its ValueError means is up to the caller.
Collided(h) ==
  IF handler[h].kind = "admin" THEN Reply(h, "user_exists")
  ELSE IF handler[h].tries < Attempts THEN Goto(h, "draw")
  ELSE Reply(h, "register_collision")

CheckId(h) ==
  /\ At(h, "check")
  /\ IF Exists(handler[h].id) THEN Collided(h) ELSE Goto(h, "insert")
  /\ UNCHANGED <<account, faults>>

\* INSERT INTO users, in one transaction.  A second row with the e-mail is
\* answered 409; sqlite's error about the id is not a ValueError and ends
\* the request in a 500.
EmailClash(h) == handler[h].email # None /\ EmailKnown(handler[h].email)

IdClash(h) == Exists(handler[h].id)

Insert(h) ==
  /\ At(h, "insert")
  /\ \/ /\ EmailClash(h)
        /\ Reply(h, "email_taken")
        /\ UNCHANGED account
     \/ /\ IdClash(h)
        /\ Reply(h, "error")
        /\ UNCHANGED account
     \/ /\ ~EmailClash(h) /\ ~IdClash(h)
        /\ account' = [account EXCEPT ![handler[h].id] =
                         [NoAccount EXCEPT !.email = handler[h].email, !.by = h]]
        /\ Goto(h, "key")
  /\ UNCHANGED faults

\* issue_first_key is true unless an administrator asks for no key.
IssueKey(h) ==
  /\ At(h, "key")
  /\ \/ account' = [account EXCEPT ![handler[h].id].keys = @ + 1]
     \/ handler[h].kind = "admin" /\ UNCHANGED account
  /\ Goto(h, "grant")
  /\ UNCHANGED faults

\* topup() of the starter credits, then the answer.
Grant(h) ==
  /\ At(h, "grant")
  /\ account' = [account EXCEPT ![handler[h].id].credits = @ + Starter]
  /\ Reply(h, "created")
  /\ UNCHANGED faults

\* A transaction fails or the process dies: the client sees an error, and
\* what was committed stays.
RetryAfter(h) ==                                                  \* faulty
  IF handler[h].kind = "portal" THEN Goto(h, "draw") ELSE Reply(h, "error")
AfterFault(h) == Reply(h, "error")

Fault(h) ==
  /\ faults < MaxFaults
  /\ handler[h].pc \in {"precheck", "check", "insert", "key", "grant"}
  /\ faults' = faults + 1
  /\ AfterFault(h)
  /\ UNCHANGED account

Step(h) ==
  \/ PreCheck(h)
  \/ \E id \in Ids : Draw(h, id)
  \/ CheckId(h)
  \/ Insert(h)
  \/ IssueKey(h)
  \/ Grant(h)

Start(h) ==
  \/ \E email \in Emails : StartPortal(h, email)
  \/ StartCurl(h)
  \/ \E id \in Ids : StartAdmin(h, id)

Next == \E h \in Handlers : Start(h) \/ Step(h) \/ Fault(h)

\* A request that has arrived is served by a thread of its own.
Spec == Init /\ [][Next]_vars /\ \A h \in Handlers : WF_vars(Step(h))

-----------------------------------------------------------------------------

Answered(h, answer) == handler[h].answer = answer
OpenedBy(h) == {id \in Ids : account[id].by = h}

\* Types, and that an account is the work of one handler at a time.
AccountsTypeOK ==
  /\ account \in [Ids -> [email: Emails \cup {None}, keys: 0..1,
                          credits: {0, Starter}, by: Handlers \cup {None}]]
  /\ handler \in [Handlers -> Handler]
  /\ faults \in 0..MaxFaults

\* An e-mail address belongs to one account, although every registration
\* looks it up before the transaction that inserts it.
OneAccountPerEmail ==
  \A i, j \in Ids :
    account[i].email # None /\ account[i].email = account[j].email => i = j

\* Who is told that the account was created has exactly one, with its own
\* e-mail address, the starter credits granted once, and (unless an
\* administrator declined it) one key.
CreatedIsComplete ==
  \A h \in Handlers : Answered(h, "created") =>
    /\ OpenedBy(h) = {handler[h].id}
    /\ LET a == account[handler[h].id]
       IN /\ a.email = handler[h].email
          /\ a.credits = Starter
          /\ a.keys = 1 \/ handler[h].kind = "admin"

\* A 409 or 503 is the truth: the name really is somebody else's, and the
\* refused request left no half-open account behind.
RefusalIsClean ==
  \A h \in Handlers :
    handler[h].answer \in {"email_taken", "user_exists", "register_collision"} =>
      /\ OpenedBy(h) = {}
      /\ Answered(h, "email_taken") => EmailKnown(handler[h].email)
      /\ ~Answered(h, "email_taken") => Exists(handler[h].id)

\* Only a fault or a lost race for an id leaves an account without its key or
\* its credits behind, one per such failure, and its owner was told "error".
HalfOpen == {id \in Ids : Exists(id) /\ account[id].credits < Starter}
HalfOpenNeedsFault ==
  /\ \A id \in HalfOpen :
       handler[account[id].by].pc \in {"key", "grant"} \/ Answered(account[id].by, "error")
  /\ Cardinality({id \in HalfOpen : Answered(account[id].by, "error")}) <= faults

\* Every request that arrives is answered, whatever fails and whoever races.
EveryoneAnswered ==
  \A h \in Handlers : ~At(h, "start") ~> At(h, "done")

\* What store.create_user says of its errors: a duplicate is told apart and
\* reaches the client as an API error code.  Without faults nobody should
\* see an internal error.
DuplicateIsConflict ==
  faults = 0 => \A h \in Handlers : ~Answered(h, "error")
=============================================================================
