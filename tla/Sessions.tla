------------------------------ MODULE Sessions ------------------------------
(***************************************************************************)
(* Dashboard sessions: agent/auth/sessions.py with the identity_version,   *)
(* is_revoked and revoke callbacks that web_server.py gives it, and the    *)
(* handlers that log in, log out and change a password.                    *)
(*                                                                         *)
(* A cookie is signed, not stored: what the server keeps is the password   *)
(* hash a cookie is bound to and a list of the cookies logged out, from    *)
(* which expired entries are dropped.                                      *)
(*                                                                         *)
(* Time is in units of which MaxAge make up max_age_seconds.               *)
(***************************************************************************)
EXTENDS Integers, Sequences, FiniteSets

CONSTANTS
  Users,      \* registered accounts
  Clients,    \* browsers, one request at a time each
  Passwords,  \* passwords anybody may choose
  MaxAge,     \* SessionManager.max_age_seconds
  MaxTime,    \* bound: the last moment that is modelled
  MaxTokens,  \* bound: cookies signed in all
  MaxSalt     \* bound: password hashes computed in all

AgeAssumption == MaxAge \in Nat /\ MaxTime \in Nat
BoundsAssumption == MaxTokens \in Nat /\ MaxSalt \in Nat

VARIABLES
  now,        \* wall clock
  hash,       \* users.password_hash: the password and the salt drawn for it
  enabled,    \* users whose status is "active"
  salts,      \* salts drawn so far
  tokens,     \* the cookies signed so far; the index is the nonce
  revoked,    \* rows of revoked_sessions
  cookie,     \* the cookie each browser holds, 0 for none
  request,    \* the request each browser waits for, with what it has read
  loggedOut   \* history: cookies whose logout was answered

vars == <<now, hash, enabled, salts, tokens, revoked, cookie, request, loggedOut>>

Hash == [password: Passwords, salt: 0..MaxSalt]
Token == [user: Users, version: Hash, at: 0..MaxTime]
NoRequest == [op |-> "none"]
Request ==
  {NoRequest}
    \cup [op: {"login"}, user: Users]
    \cup [op: {"change"}, user: Users, password: Passwords]
    \cup [op: {"changed"}, user: Users]
    \cup [op: {"logout"}, token: 1..MaxTokens, expires: Int]

-----------------------------------------------------------------------------
(* SessionManager.                                                         *)
(* An operator marked "faulty" is the one below it with a plausible bug.   *)

\* identity_version: generate_password_hash draws a salt, so that no two
\* hashes are equal, not even of the same password.
UnsaltedVersion(u) == [hash[u] EXCEPT !.salt = 0]                 \* faulty
IdentityVersion(u) == hash[u]

SignedFor(u) == [user |-> u, version |-> IdentityVersion(u), at |-> now]

Unexpired(t) == now - tokens[t].at <= MaxAge

\* load()
Accepts(t) ==
  /\ Unexpired(t)
  /\ \A r \in revoked : r.token # t
  /\ tokens[t].user \in enabled
  /\ tokens[t].version = IdentityVersion(tokens[t].user)

\* set_cookie(): sign() reads the version anew, and raises for a disabled user.
SetCookie(c, u) ==
  /\ Len(tokens) < MaxTokens
  /\ IF u \in enabled
       THEN /\ tokens' = Append(tokens, SignedFor(u))
            /\ cookie' = [cookie EXCEPT ![c] = Len(tokens) + 1]
       ELSE UNCHANGED <<tokens, cookie>>

RevokedTillNow(t) == now                                          \* faulty
RevokedUntil(t) == now + MaxAge

\* revoke_session(): DELETE what has expired, INSERT OR REPLACE.
Recorded(t, expires) ==
  {r \in revoked : r.expires >= now /\ r.token # t}
    \cup {[token |-> t, expires |-> expires]}

-----------------------------------------------------------------------------
(* The handlers.                                                           *)

Idle(c) == request[c] = NoRequest
Ask(c, r) == request' = [request EXCEPT ![c] = r]

Init ==
  /\ now = 0
  /\ hash \in [Users -> [password: Passwords, salt: {0}]]
  /\ enabled = Users
  /\ salts = 0
  /\ tokens = <<>>
  /\ revoked = {}
  /\ cookie = [c \in Clients |-> 0]
  /\ request = [c \in Clients |-> NoRequest]
  /\ loggedOut = {}

\* v1_auth_login: the row is read and the password verified against it; a
\* wrong password or a disabled account ends the request here.
Login(c, u) ==
  /\ Idle(c)
  /\ u \in enabled
  /\ Ask(c, [op |-> "login", user |-> u])
  /\ UNCHANGED <<now, hash, enabled, salts, tokens, revoked, cookie, loggedOut>>

\* v1_me_change_password, behind login_required: the old password is verified.
StartChange(c, password) ==
  /\ Idle(c)
  /\ cookie[c] # 0 /\ Accepts(cookie[c])
  /\ Ask(c, [op |-> "change", user |-> tokens[cookie[c]].user, password |-> password])
  /\ UNCHANGED <<now, hash, enabled, salts, tokens, revoked, cookie, loggedOut>>

\* update_password, whatever happened since the old one was verified.
Change(c) ==
  /\ request[c].op = "change"
  /\ salts < MaxSalt
  /\ salts' = salts + 1
  /\ hash' = [hash EXCEPT ![request[c].user] =
                [password |-> request[c].password, salt |-> salts + 1]]
  /\ Ask(c, [op |-> "changed", user |-> request[c].user])
  /\ UNCHANGED <<now, enabled, tokens, revoked, cookie, loggedOut>>

\* The last step of a login and of a change.
Answer(c) ==
  /\ request[c].op \in {"login", "changed"}
  /\ SetCookie(c, request[c].user)
  /\ Ask(c, NoRequest)
  /\ UNCHANGED <<now, hash, enabled, salts, revoked, loggedOut>>

\* clear_cookie(): only a cookie that load() accepts is worth a row; the
\* expiry is computed before the transaction waits for its lock.
StartLogout(c) ==
  /\ Idle(c)
  /\ cookie[c] # 0
  /\ IF Accepts(cookie[c])
       THEN /\ Ask(c, [op |-> "logout", token |-> cookie[c],
                       expires |-> RevokedUntil(cookie[c])])
            /\ UNCHANGED cookie
       ELSE /\ cookie' = [cookie EXCEPT ![c] = 0]
            /\ UNCHANGED request
  /\ UNCHANGED <<now, hash, enabled, salts, tokens, revoked, loggedOut>>

Logout(c) ==
  /\ request[c].op = "logout"
  /\ revoked' = Recorded(request[c].token, request[c].expires)
  /\ loggedOut' = loggedOut \cup {request[c].token}
  /\ cookie' = [cookie EXCEPT ![c] = 0]
  /\ Ask(c, NoRequest)
  /\ UNCHANGED <<now, hash, enabled, salts, tokens>>

\* A copy of a cookie in another browser.
Copy(c, d) ==
  /\ Idle(d)
  /\ cookie[c] # 0
  /\ cookie' = [cookie EXCEPT ![d] = cookie[c]]
  /\ UNCHANGED <<now, hash, enabled, salts, tokens, revoked, request, loggedOut>>

\* admin_set_user_status
SetStatus(u) ==
  /\ enabled' = IF u \in enabled THEN enabled \ {u} ELSE enabled \cup {u}
  /\ UNCHANGED <<now, hash, salts, tokens, revoked, cookie, request, loggedOut>>

\* The request is lost: an error, a crash, a restart.
Lose(c) ==
  /\ ~Idle(c)
  /\ Ask(c, NoRequest)
  /\ UNCHANGED <<now, hash, enabled, salts, tokens, revoked, cookie, loggedOut>>

Tick ==
  /\ now < MaxTime
  /\ now' = now + 1
  /\ UNCHANGED <<hash, enabled, salts, tokens, revoked, cookie, request, loggedOut>>

Next ==
  \/ \E c \in Clients :
       \/ \E u \in Users : Login(c, u)
       \/ \E p \in Passwords : StartChange(c, p)
       \/ Change(c)
       \/ Answer(c)
       \/ StartLogout(c)
       \/ Logout(c)
       \/ \E d \in Clients : Copy(c, d)
       \/ Lose(c)
  \/ \E u \in Users : SetStatus(u)
  \/ Tick

Spec == Init /\ [][Next]_vars

-----------------------------------------------------------------------------

Tokens == DOMAIN tokens

SessionsTypeOK ==
  /\ now \in 0..MaxTime
  /\ hash \in [Users -> Hash]
  /\ enabled \subseteq Users
  /\ salts \in 0..MaxSalt
  /\ Tokens \subseteq 1..MaxTokens
  /\ \A t \in Tokens : tokens[t] \in Token
  /\ \A r \in revoked : r.token \in Tokens /\ r.expires \in Int
  /\ \A r, s \in revoked : r.token = s.token => r = s
  /\ cookie \in [Clients -> {0} \cup Tokens]
  /\ request \in [Clients -> Request]
  /\ loggedOut \subseteq Tokens

\* A cookie that was logged out is never accepted again, also by another
\* browser that kept a copy, and also once its row was dropped from
\* revoked_sessions: rows are dropped only when the signature has expired.
LoggedOutStaysOut == \A t \in loggedOut : ~Accepts(t)

\* A password change ends every session of the user, the changer's own
\* included (it is given a new cookie), and nobody else's.
ChangeEndsSessions ==
  [][\A u \in Users : hash'[u] # hash[u] =>
       \A t \in Tokens : IF tokens[t].user = u THEN ~Accepts(t)'
                                               ELSE Accepts(t)' = Accepts(t)]_vars

\* A refused cookie stays refused: neither a later password change, back to
\* an earlier password for instance, nor a pruned row revives it.  Only an
\* administrator who enables the account again does.
NoRevival ==
  [][\A t \in Tokens :
       ~Accepts(t) /\ Accepts(t)' => tokens[t].user \notin enabled]_vars

\* A session ends for one of four reasons, and never because of what another
\* session of the user, or another user, does: it expired, the password
\* changed, the account was disabled, or this very cookie was logged out.
EndsForAReason ==
  [][\A t \in Tokens :
       Accepts(t) /\ ~Accepts(t)' =>
         \/ ~Unexpired(t)'
         \/ hash'[tokens[t].user] # hash[tokens[t].user]
         \/ tokens[t].user \notin enabled'
         \/ t \in loggedOut']_vars
=============================================================================
