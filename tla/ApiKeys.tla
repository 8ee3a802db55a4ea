------------------------------ MODULE ApiKeys ------------------------------
(***************************************************************************)
(* API keys: the table api_keys of agent/billing/store.py, the requests    *)
(* that mint and revoke keys, and the encryption of the keys the portal    *)
(* can show again (key_cipher.py, scripts/secure_billing_keys.py).         *)
(*                                                                         *)
(* The table stores hashes.  A row may also hold the key itself: as text   *)
(* when an earlier release wrote it, encrypted under a master key since.   *)
(* Rows change in transactions; what a request has read before its         *)
(* transaction (who is logged in, which keys there are) may be stale then. *)
(***************************************************************************)
EXTENDS FiniteSets

CONSTANTS
  Users,     \* user ids
  Keys,      \* the keys token_urlsafe may return: no two calls return one key
  Masters,   \* Fernet keys an operator may put into BILLING_KEY_ENCRYPTION_KEYS
  Clients    \* requests that may be between authentication and transaction

VARIABLES
  row,       \* api_keys, by key: state, owner and what is stored of it
  users,     \* the rows of the table users
  active,    \* those whose status is "active"
  up,        \* a serving process is running
  primary,   \* the first configured master key
  older,     \* the other configured ones
  rotated,   \* the primary under which the last offline rotation ran, or None
  pending    \* requests that are authenticated and wait for their transaction

vars == <<row, users, active, up, primary, older, rotated, pending>>

None == "none"
Legacy == "plaintext"
SentinelsAssumption == {None, Legacy} \cap Masters = {} /\ None \notin Users

Row == [state: {"absent", "live", "revoked"}, owner: Users \cup {None},
        secret: Masters \cup {None, Legacy},
        by: {"register", "rotate", "issue", None}]
Request == [client: Clients, user: Users,
            op: {"register", "open", "rotate", "issue"}, target: {None}]
             \cup [client: Clients, user: Users, op: {"revoke"}, target: Keys]

Absent == [state |-> "absent", owner |-> None, secret |-> None, by |-> None]
Live(k) == row[k].state = "live"
RowsOf(u) == {k \in Keys : row[k].owner = u}
Busy == {r.client : r \in pending}

\* MultiFernet encrypts with its first key and decrypts with any.
Encrypted == primary
Readable(secret) == secret \in {primary} \cup older

\* The table an earlier release left behind: per user one portal key, kept
\* as text; revoking did not clear the text.
Init ==
  /\ \E old \in SUBSET Keys, owner \in [Keys -> Users], gone \in SUBSET Keys :
       /\ \A k, l \in old \ gone : owner[k] = owner[l] => k = l
       /\ row = [k \in Keys |->
            IF k \in old
              THEN [state |-> IF k \in gone THEN "revoked" ELSE "live",
                    owner |-> owner[k], secret |-> Legacy, by |-> "rotate"]
              ELSE Absent]
       /\ users = {owner[k] : k \in old}
  /\ active = users
  /\ up = FALSE
  /\ primary \in Masters
  /\ older = {}
  /\ rotated = None
  /\ pending = {}

-----------------------------------------------------------------------------
(* issue_api_key: one transaction that may first revoke the user's keys.   *)
(* An operator marked "faulty" is the one below it with a plausible bug.   *)

RevokedMasked(u) ==                                               \* faulty
  [k \in Keys |-> IF k \in RowsOf(u) /\ row[k].secret = None
                    THEN [row[k] EXCEPT !.state = "revoked"] ELSE row[k]]
Revoked(u) ==
  [k \in Keys |-> IF k \in RowsOf(u)
                    THEN [row[k] EXCEPT !.state = "revoked", !.secret = None]
                    ELSE row[k]]

Inserted(rows, r, k, by, secret) ==
  [rows EXCEPT ![k] = [state |-> "live", owner |-> r.user, secret |-> secret, by |-> by]]

-----------------------------------------------------------------------------
(* The requests: authentication reads, the transaction comes later.        *)

Accepts(k) == Live(k) /\ row[k].owner \in active

Begin(r) ==
  /\ up
  /\ r.client \notin Busy
  /\ pending' = pending \cup {r}
  /\ UNCHANGED <<row, up, primary, older, rotated>>

\* create_user inserts the account, and then its first key: encrypted for
\* /v1/auth/register (portal), only its hash for /v1/register and /admin/users.
StartRegister(c, u, portal) ==
  /\ u \notin users
  /\ users' = users \cup {u}
  /\ active' = active \cup {u}
  /\ Begin([client |-> c, user |-> u, op |-> IF portal THEN "register" ELSE "open",
            target |-> None])

\* /v1/me/api_key/rotate: a session, no key.
StartRotate(c, u) ==
  /\ u \in active
  /\ Begin([client |-> c, user |-> u, op |-> "rotate", target |-> None])
  /\ UNCHANGED <<users, active>>

\* POST /v1/api_keys
StartIssue(c, k) ==
  /\ Accepts(k)
  /\ Begin([client |-> c, user |-> row[k].owner, op |-> "issue", target |-> None])
  /\ UNCHANGED <<users, active>>

\* DELETE /v1/api_keys/<key_id>: the prefix is looked up among the user's rows.
StartRevoke(c, k, target) ==
  /\ Accepts(k)
  /\ target \in RowsOf(row[k].owner)
  /\ Begin([client |-> c, user |-> row[k].owner, op |-> "revoke", target |-> target])
  /\ UNCHANGED <<users, active>>

FirstKey(r, k) ==
  /\ r.op \in {"register", "open"}
  /\ row' = Inserted(row, r, k, "register", IF r.op = "register" THEN Encrypted ELSE None)

Rotate(r, k) ==
  /\ r.op = "rotate"
  /\ row' = Inserted(Revoked(r.user), r, k, "rotate", Encrypted)

Issue(r, k) ==
  /\ r.op = "issue"
  /\ row' = Inserted(row, r, k, "issue", None)

Revoke(r) ==
  /\ r.op = "revoke"
  /\ row' = IF Live(r.target)
              THEN [row EXCEPT ![r.target].state = "revoked", ![r.target].secret = None]
              ELSE row

Commit(r) ==
  /\ r \in pending
  /\ pending' = pending \ {r}
  /\ \/ Revoke(r)
     \/ \E k \in Keys : /\ row[k].state = "absent"
                        /\ FirstKey(r, k) \/ Rotate(r, k) \/ Issue(r, k)
  /\ UNCHANGED <<users, active, up, primary, older, rotated>>

\* The lock timed out: the transaction never began.
GiveUp(r) ==
  /\ r \in pending
  /\ pending' = pending \ {r}
  /\ UNCHANGED <<row, users, active, up, primary, older, rotated>>

SetStatus(u) ==
  /\ up /\ u \in users
  /\ active' = IF u \in active THEN active \ {u} ELSE active \cup {u}
  /\ UNCHANGED <<row, users, up, primary, older, rotated, pending>>

-----------------------------------------------------------------------------
(* migrate_api_key_storage: on every start, and with rotate=True by the    *)
(* offline tool.  One transaction: one unreadable row and nothing changes. *)

Stored(k) == row[k].secret # None

MigratedOnce(k, rotate) ==                                        \* faulty
  CASE Stored(k) /\ ~Live(k) -> [row[k] EXCEPT !.secret = None]
    [] Live(k) /\ row[k].secret = Legacy -> [row[k] EXCEPT !.secret = Encrypted]
    [] OTHER -> row[k]
Migrated(k, rotate) ==
  CASE Stored(k) /\ ~Live(k) -> [row[k] EXCEPT !.secret = None]
    [] Live(k) /\ (row[k].secret = Legacy \/ (rotate /\ Stored(k))) ->
         [row[k] EXCEPT !.secret = Encrypted]
    [] OTHER -> row[k]

AllReadable ==
  \A k \in Keys : Live(k) => row[k].secret \in {None, Legacy} \/ Readable(row[k].secret)

Migrate(rotate) ==
  /\ AllReadable
  /\ row' = [k \in Keys |-> Migrated(k, rotate)]

Start ==
  /\ ~up
  /\ Migrate(FALSE)
  /\ up' = TRUE
  /\ UNCHANGED <<users, active, primary, older, rotated, pending>>

\* Stopped or crashed: requests between two steps are gone.
Stop ==
  /\ up
  /\ up' = FALSE
  /\ pending' = {}
  /\ UNCHANGED <<row, users, active, primary, older, rotated>>

\* secure_billing_keys.py: opening the store migrates, then --rotate rotates;
\* the tool may die in between.
OfflineTool(rotate) ==
  /\ ~up
  /\ Migrate(rotate)
  /\ rotated' = IF rotate THEN primary ELSE rotated
  /\ UNCHANGED <<users, active, up, primary, older, pending>>

\* The operator puts a new master key in front and keeps the old ones ...
AddMaster(m) ==
  /\ ~up
  /\ m \notin {primary} \cup older
  /\ primary' = m
  /\ older' = older \cup {primary}
  /\ UNCHANGED <<row, users, active, up, rotated, pending>>

\* ... and removes them once a rotation ran under the new one.
RetireMasters ==
  /\ ~up
  /\ rotated = primary
  /\ older' = {}
  /\ UNCHANGED <<row, users, active, up, primary, rotated, pending>>

Next ==
  \/ \E c \in Clients, u \in Users, portal \in BOOLEAN : StartRegister(c, u, portal)
  \/ \E c \in Clients, u \in Users : StartRotate(c, u)
  \/ \E c \in Clients, k \in Keys : StartIssue(c, k)
  \/ \E c \in Clients, k, target \in Keys : StartRevoke(c, k, target)
  \/ \E r \in pending : Commit(r) \/ GiveUp(r)
  \/ \E u \in Users : SetStatus(u)
  \/ Start
  \/ Stop
  \/ \E rotate \in BOOLEAN : OfflineTool(rotate)
  \/ \E m \in Masters : AddMaster(m)
  \/ RetireMasters

Spec == Init /\ [][Next]_vars

-----------------------------------------------------------------------------

KeysTypeOK ==
  /\ row \in [Keys -> Row]
  /\ active \subseteq users /\ users \subseteq Users
  /\ up \in BOOLEAN
  /\ primary \in Masters
  /\ older \subseteq Masters
  /\ rotated \in Masters \cup {None}
  /\ pending \subseteq Request
  /\ \A k \in Keys : row[k].owner \in users \/ row[k] = Absent
  /\ \A r \in pending : r.op = "revoke" => row[r.target].owner = r.user

\* The portal shows one key: however many rotations race each other, issues
\* and registrations, at most one live key of a user comes from a rotation,
\* and a second one the portal could show is the first key of an account
\* that rotated before its registration had inserted it.
OnePortalKey ==
  \A k, l \in Keys :
    /\ Live(k) /\ Live(l) /\ row[k].owner = row[l].owner
    /\ Stored(k) /\ Stored(l) /\ row[k].by = row[l].by
    => k = l

\* A running service holds no key as text, and nothing at all of a revoked
\* one: the start migrated what earlier releases had left.
ServesNoPlaintext ==
  up => \A k \in Keys : /\ row[k].secret # Legacy
                        /\ Stored(k) => Live(k)

\* The operator's procedure is safe: as long as old master keys are removed
\* only after a rotation under the new one, every stored key stays readable,
\* so that no start and no portal page fails, whatever is minted and however
\* often the tool dies between its two transactions.
AllStaysReadable == AllReadable
=============================================================================
