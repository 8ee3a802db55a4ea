------------------------------ MODULE MCPortal ------------------------------
(* The rate limit, the API keys, the sessions and the accounts of the web   *)
(* portal.  They share no state, so a behaviour exercises one of them:      *)
(* `part` says which; the others rest in an initial state.                  *)
EXTENDS ApiKeys, Naturals, TLC

CONSTANTS Scopes, Limit, Window, Keep, MaxWait, MaxTime,  \* RateLimit
          Passwords, MaxAge, MaxClock, MaxTokens, MaxSalt,        \* Sessions
          Handlers, Ids, Emails, Attempts, Starter, MaxFaults

VARIABLES
  part,
  now, events, waiting, admitted, refused,                                  \* RateLimit
  clock, hash, enabled, salts, tokens, revoked, cookie, request, loggedOut, \* Sessions
  account, handler, faults                                                  \* Accounts

rateVars == <<now, events, waiting, admitted, refused>>
sessionVars == <<clock, hash, enabled, salts, tokens, revoked, cookie, request, loggedOut>>
accountVars == <<account, handler, faults>>
portalVars == <<part, rateVars, vars, sessionVars, accountVars>>

R == INSTANCE RateLimit
S == INSTANCE Sessions WITH now <- clock, MaxTime <- MaxClock
A == INSTANCE Accounts

ASSUME RateAssumption == R!LimitAssumption /\ R!TimesAssumption /\ R!KeepAssumption
ASSUME KeysAssumption == SentinelsAssumption
ASSUME SessionsAssumption == S!AgeAssumption /\ S!BoundsAssumption
ASSUME AccountsAssumption ==
  A!AttemptsAssumption /\ A!BoundsAssumption /\ A!SentinelsAssumption

\* Where several initial states differ, the keys rest in an empty table.
NoKeysYet == users = {} /\ primary = CHOOSE m \in Masters : TRUE

PortalInit ==
  /\ part \in {"rate", "keys", "sessions", "accounts"}
  /\ R!Init
  /\ Init /\ (part # "keys" => NoKeysYet)
  /\ S!Init
  /\ A!Init

PortalNext ==
  \/ part = "rate" /\ R!Next /\ UNCHANGED <<part, vars, sessionVars, accountVars>>
  \/ part = "keys" /\ Next /\ UNCHANGED <<part, rateVars, sessionVars, accountVars>>
  \/ part = "sessions" /\ S!Next /\ UNCHANGED <<part, rateVars, vars, accountVars>>
  \/ part = "accounts" /\ A!Next /\ UNCHANGED <<part, rateVars, vars, sessionVars>>

PortalSpec == PortalInit /\ [][PortalNext]_portalVars

\* The names of one part stand for those of another: Users for Scopes and Ids,
\* Keys for Handlers.
Symmetry == Permutations(Users) \cup Permutations(Keys) \cup Permutations(Clients)

-----------------------------------------------------------------------------
\* No window of time admits more than its limit, wherever it begins, and nobody
\* is refused while the limit is not used up (RateLimit).
LimitIsExact == R!WindowBounded /\ R!RefusedForAReason

\* A serving process holds no key as text and none of a revoked one, and the
\* operator's procedure keeps every stored key readable (ApiKeys).
KeysStaySafe == KeysTypeOK /\ ServesNoPlaintext /\ AllStaysReadable

\* A password change ends every session of the user and nobody else's
\* (Sessions).
ChangeEndsSessions == S!ChangeEndsSessions

\* A refused cookie is not revived, an accepted one is refused only for its
\* age, a new password, a disabled account or its own logout, and one that was
\* logged out stays out, also after its row is pruned (Sessions).
SessionsLiveOnce == [](S!SessionsTypeOK /\ S!LoggedOutStaysOut) /\ S!NoRevival /\ S!EndsForAReason

\* Racing registrations: an e-mail address has one account, "created" is a
\* whole account, a refusal is true and leaves nothing behind, and a half-open
\* account takes a fault between its three transactions (Accounts).
RegistrationsAreWhole ==
  /\ A!AccountsTypeOK /\ A!OneAccountPerEmail /\ A!CreatedIsComplete
  /\ A!RefusalIsClean /\ A!HalfOpenNeedsFault
=============================================================================
