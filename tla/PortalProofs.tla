---------------------------- MODULE PortalProofs ----------------------------
(***************************************************************************)
(* Theorems about the web portal: the API keys, the sessions, the rate     *)
(* limit and the accounts, for any numbers of them and any bounds.         *)
(***************************************************************************)
EXTENDS MCPortal, SumTheorems, SequenceTheorems

-----------------------------------------------------------------------------
(* ApiKeys.                                                                *)

Registers(r) == r.op \in {"register", "open"}

Types ==
  /\ row \in [Keys -> Row]
  /\ primary \in Masters
  /\ active \subseteq users /\ users \subseteq Users
  /\ \A k \in Keys :
       \/ row[k] = Absent
       \/ row[k].owner \in users /\ row[k].by \in {"register", "rotate", "issue"}
  /\ \A r \in pending : r.user \in users

\* A user registers once: one request, or one row.
OneRegistration ==
  /\ \A r, s \in pending : Registers(r) /\ Registers(s) /\ r.user = s.user => r = s
  /\ \A r \in pending, k \in Keys :
       Registers(r) /\ row[k].by = "register" => row[k].owner # r.user
  /\ \A k, l \in Keys :
       row[k].by = "register" /\ row[l].by = "register" /\ row[k].owner = row[l].owner
       => k = l

\* A rotation leaves no other live key, whoever made it.
OneRotation ==
  \A k, l \in Keys :
    /\ Live(k) /\ row[k].by = "rotate"
    /\ Live(l) /\ row[l].by = "rotate"
    /\ row[k].owner = row[l].owner
    => k = l

IssuedUnstored == \A k \in Keys : row[k].by = "issue" => ~Stored(k)

KeysInv ==
  /\ pending \subseteq Request
  /\ Types
  /\ OneRegistration
  /\ OneRotation
  /\ IssuedUnstored

-----------------------------------------------------------------------------
(* What a step may do to the table, whatever it is.                        *)

\* Rows keep their owner and origin; none comes back to life, or is stored.
OnlyLess ==
  \A k \in Keys :
    /\ row'[k].owner = row[k].owner
    /\ row'[k].by = row[k].by
    /\ Live(k)' => Live(k)
    /\ Stored(k)' => Stored(k)
    /\ row[k] = Absent => row'[k] = Absent
    /\ row'[k] \in Row
    /\ row'[k].secret \in {row[k].secret, None, primary}

\* One row is added, the others at most lose their life.
Added(k, u, by, secret) ==
  /\ row[k].state = "absent"
  /\ row'[k] = [state |-> "live", owner |-> u, secret |-> secret, by |-> by]
  /\ \A l \in Keys \ {k} :
       /\ row'[l].owner = row[l].owner
       /\ row'[l].by = row[l].by
       /\ Live(l)' => Live(l)
       /\ Stored(l)' => Stored(l)
       /\ row[l] = Absent => row'[l] = Absent
       /\ row'[l] \in Row
       /\ row'[l].secret \in {row[l].secret, None}
       /\ Stored(l)' => row'[l] = row[l]

\* A revocation takes only away.
LEMMA RevokeTakes ==
  ASSUME Types, NEW r \in pending, Revoke(r)
  PROVE  row' \in [Keys -> Row] /\ OnlyLess
<1>1. CASE row' = row
  BY <1>1 DEF OnlyLess, Types, Live, Stored
<1>2. CASE /\ row[r.target].state = "live"
           /\ row' = [row EXCEPT ![r.target].state = "revoked", ![r.target].secret = None]
  <2>1. ASSUME NEW k \in Keys, k = r.target
        PROVE  row'[k] = [[row[k] EXCEPT !.state = "revoked"] EXCEPT !.secret = None]
    BY <1>2, <2>1 DEF Types
  <2>2. ASSUME NEW k \in Keys, k # r.target PROVE row'[k] = row[k]
    BY <1>2, <2>2 DEF Types
  <2>3. ASSUME NEW k \in Keys
        PROVE  /\ row'[k].owner = row[k].owner /\ row'[k].by = row[k].by
               /\ Live(k)' => Live(k)
               /\ Stored(k)' => Stored(k)
               /\ row[k] = Absent => row'[k] = Absent
               /\ row'[k] \in Row
               /\ row'[k].secret \in {row[k].secret, None, primary}
    <3>1. row[k] \in Row
      BY DEF Types
    <3>2. CASE k = r.target
      <4>1. row[k].state = "live"
        BY <1>2, <3>2
      <4>2. /\ row'[k].owner = row[k].owner /\ row'[k].by = row[k].by
            /\ row'[k].state = "revoked" /\ row'[k].secret = None
            /\ row'[k] \in Row
        BY <2>1, <3>1, <3>2 DEF Row
      <4>3. row[k] # Absent
        BY <4>1 DEF Absent
      <4> QED
        BY <4>1, <4>2, <4>3 DEF Live, Stored
    <3>3. CASE k # r.target
      BY <2>2, <3>1, <3>3 DEF Live, Stored
    <3> QED
      BY <3>2, <3>3
  <2>4. DOMAIN row' = Keys /\ row' = [k \in Keys |-> row'[k]]
    BY <1>2 DEF Types
  <2> QED
    BY <2>3, <2>4 DEF OnlyLess
<1> QED
  BY <1>1, <1>2 DEF Revoke, Live

\* A migration takes only away, and re-encrypts under the primary.
LEMMA MigrateTakes ==
  ASSUME Types, NEW rotate \in BOOLEAN, Migrate(rotate)
  PROVE  row' \in [Keys -> Row] /\ OnlyLess
<1>1. row' = [k \in Keys |-> Migrated(k, rotate)]
  BY DEF Migrate
<1>2. ASSUME NEW k \in Keys
      PROVE  /\ row'[k].owner = row[k].owner /\ row'[k].by = row[k].by
             /\ Live(k)' => Live(k)
             /\ Stored(k)' => Stored(k)
             /\ row[k] = Absent => row'[k] = Absent
             /\ row'[k] \in Row
             /\ row'[k].secret \in {row[k].secret, None, primary}
  <2>1. row[k] \in Row /\ primary \in Masters
    BY DEF Types
  <2>2. \/ row'[k] = row[k]
        \/ row'[k] = [row[k] EXCEPT !.secret = None]
        \/ Stored(k) /\ Live(k) /\ row'[k] = [row[k] EXCEPT !.secret = primary]
    BY <1>1 DEF Migrated, Stored, Legacy, None, Encrypted
  <2> QED
    BY <2>1, <2>2 DEF Row, Live, Stored, Absent
<1> QED
  BY <1>1, <1>2 DEF OnlyLess

\* A first key is an added row: stored for the portal, a hash otherwise.
LEMMA FirstKeyAdds ==
  ASSUME Types, NEW r \in pending, r \in Request, NEW k \in Keys,
         row[k].state = "absent", FirstKey(r, k)
  PROVE  /\ row' \in [Keys -> Row]
         /\ Added(k, r.user, "register", IF r.op = "register" THEN primary ELSE None)
<1>1. row \in [Keys -> Row] /\ primary \in Masters /\ r.user \in Users
  BY DEF Types, Request
<1>2. row' = [row EXCEPT ![k] = [state |-> "live", owner |-> r.user,
                secret |-> IF r.op = "register" THEN primary ELSE None, by |-> "register"]]
  BY DEF FirstKey, Inserted, Encrypted
<1>3. row'[k] = [state |-> "live", owner |-> r.user,
                 secret |-> IF r.op = "register" THEN primary ELSE None, by |-> "register"]
  BY <1>1, <1>2
<1>4. \A l \in Keys \ {k} : row'[l] = row[l]
  BY <1>1, <1>2
<1>5. row'[k] \in Row
  BY <1>1, <1>3 DEF Row
<1> QED
  BY <1>1, <1>2, <1>3, <1>4, <1>5 DEF Added, Live, Stored

\* POST /v1/api_keys adds a row that stores nothing of the key.
LEMMA IssueAdds ==
  ASSUME Types, NEW r \in pending, r \in Request, NEW k \in Keys,
         row[k].state = "absent", Issue(r, k)
  PROVE  row' \in [Keys -> Row] /\ Added(k, r.user, "issue", None)
<1>1. row \in [Keys -> Row] /\ r.user \in Users
  BY DEF Types, Request
<1>2. row' = [row EXCEPT ![k] = [state |-> "live", owner |-> r.user,
                                 secret |-> None, by |-> "issue"]]
  BY DEF Issue, Inserted
<1>3. row'[k] = [state |-> "live", owner |-> r.user, secret |-> None, by |-> "issue"]
  BY <1>1, <1>2
<1>4. \A l \in Keys \ {k} : row'[l] = row[l]
  BY <1>1, <1>2
<1>5. row'[k] \in Row
  BY <1>1, <1>3 DEF Row
<1> QED
  BY <1>1, <1>2, <1>3, <1>4, <1>5 DEF Added, Live, Stored

\* A rotation adds a stored key and leaves the user no other live one.
LEMMA RotateAdds ==
  ASSUME SentinelsAssumption, Types, NEW r \in pending, r \in Request,
         NEW k \in Keys, row[k].state = "absent", Rotate(r, k)
  PROVE  /\ row' \in [Keys -> Row]
         /\ Added(k, r.user, "rotate", primary)
         /\ \A l \in Keys \ {k} : row[l].owner = r.user => ~Live(l)'
<1>1. row \in [Keys -> Row] /\ primary \in Masters /\ r.user \in Users
  BY DEF Types, Request
<1> DEFINE new == [state |-> "live", owner |-> r.user, secret |-> primary, by |-> "rotate"]
<1>2. row' = [Revoked(r.user) EXCEPT ![k] = new]
  BY DEF Rotate, Inserted, Encrypted
<1>3. row'[k] = new /\ new \in Row
  BY <1>1, <1>2 DEF Revoked, Row
<1>4. ASSUME NEW l \in Keys \ {k}
      PROVE  /\ row'[l].owner = row[l].owner /\ row'[l].by = row[l].by
             /\ Live(l)' => Live(l)
             /\ Stored(l)' => Stored(l)
             /\ row[l] = Absent => row'[l] = Absent
             /\ row'[l] \in Row
             /\ row'[l].secret \in {row[l].secret, None}
             /\ Stored(l)' => row'[l] = row[l]
             /\ row[l].owner = r.user => ~Live(l)'
  <2>1. row[l] \in Row
    BY <1>1
  <2>2. row'[l] = IF row[l].owner = r.user
                    THEN [[row[l] EXCEPT !.state = "revoked"] EXCEPT !.secret = None]
                    ELSE row[l]
    BY <1>2 DEF Revoked, RowsOf
  <2>3. CASE row[l].owner = r.user
    <3>1. /\ row'[l].owner = row[l].owner /\ row'[l].by = row[l].by
          /\ row'[l].state = "revoked" /\ row'[l].secret = None
          /\ row'[l] \in Row
      BY <2>1, <2>2, <2>3 DEF Row
    <3>2. row[l] = Absent => FALSE
      BY <1>1, <2>3 DEF Absent, SentinelsAssumption
    <3> QED
      BY <3>1, <3>2 DEF Live, Stored
  <2>4. CASE row[l].owner # r.user
    BY <2>1, <2>2, <2>4 DEF Live, Stored
  <2> QED
    BY <2>3, <2>4
<1>5. row' = [l \in Keys |-> row'[l]]
  BY <1>2 DEF Revoked
<1>6. \A l \in Keys : row'[l] \in Row
  BY <1>3, <1>4 DEF Live, Stored
<1>7. row' \in [Keys -> Row]
  BY <1>5, <1>6
<1>8. Added(k, r.user, "rotate", primary)
  BY <1>3, <1>4 DEF Added, Live, Stored
<1>9. \A l \in Keys \ {k} : row[l].owner = r.user => ~Live(l)'
  BY <1>4 DEF Live, Stored
<1> QED
  BY <1>7, <1>8, <1>9

-----------------------------------------------------------------------------
(* The invariant is kept by what takes away, by what adds, by requests     *)
(* that begin, and by what leaves the table alone.                         *)

\* What only takes away keeps the invariant.
LEMMA LessKeeps ==
  ASSUME KeysInv, row' \in [Keys -> Row], OnlyLess,
         pending' \subseteq pending, users' = users,
         active' \subseteq users, primary' \in Masters
  PROVE  KeysInv'
<1>1. Types'
  BY DEF KeysInv, Types, OnlyLess
<1>2. OneRegistration'
  BY DEF KeysInv, OneRegistration, OnlyLess
<1>3. OneRotation'
  BY DEF KeysInv, OneRotation, OnlyLess
<1>4. IssuedUnstored'
  BY DEF KeysInv, IssuedUnstored, OnlyLess
<1> QED
  BY <1>1, <1>2, <1>3, <1>4 DEF KeysInv

\* What adds one row on behalf of a waiting request keeps the invariant.
LEMMA AddedKeeps ==
  ASSUME KeysInv, NEW r \in pending, NEW k \in Keys, NEW by, NEW secret,
         row' \in [Keys -> Row], Added(k, r.user, by, secret),
         by \in {"register", "rotate", "issue"},
         by = "register" => Registers(r),
         by = "rotate" => \A l \in Keys \ {k} : row[l].owner = r.user => ~Live(l)',
         by = "issue" => secret = None,
         pending' = pending \ {r}, UNCHANGED <<users, active, primary>>
  PROVE  KeysInv'
<1>1. row'[k].owner = r.user /\ row'[k].by = by /\ row'[k].secret = secret
  BY DEF Added
<1>2. \A l \in Keys \ {k} :
        /\ row'[l].owner = row[l].owner /\ row'[l].by = row[l].by
        /\ Live(l)' => Live(l)
        /\ Stored(l)' => Stored(l)
        /\ row[l] = Absent => row'[l] = Absent
  BY DEF Added
<1>3. Types'
  BY <1>1, <1>2 DEF KeysInv, Types
<1>4. OneRegistration'
  <2>1. \A q, s \in pending' : Registers(q) /\ Registers(s) /\ q.user = s.user => q = s
    BY DEF KeysInv, OneRegistration
  <2>2. ASSUME NEW q \in pending', NEW l \in Keys, Registers(q), row'[l].by = "register"
        PROVE  row'[l].owner # q.user
    <3>1. CASE l = k
      BY <1>1, <2>2, <3>1 DEF KeysInv, OneRegistration
    <3>2. CASE l # k
      BY <1>2, <2>2, <3>2 DEF KeysInv, OneRegistration
    <3> QED
      BY <3>1, <3>2
  <2>3. ASSUME NEW l \in Keys, NEW m \in Keys,
               row'[l].by = "register", row'[m].by = "register",
               row'[l].owner = row'[m].owner, l # m
        PROVE  FALSE
    <3>1. CASE l = k
      BY <1>1, <1>2, <2>3, <3>1 DEF KeysInv, OneRegistration
    <3>2. CASE m = k
      BY <1>1, <1>2, <2>3, <3>2 DEF KeysInv, OneRegistration
    <3>3. CASE l # k /\ m # k
      BY <1>2, <2>3, <3>3 DEF KeysInv, OneRegistration
    <3> QED
      BY <3>1, <3>2, <3>3
  <2> QED
    BY <2>1, <2>2, <2>3 DEF OneRegistration
<1>5. OneRotation'
  <2>1. SUFFICES ASSUME NEW l \in Keys, NEW m \in Keys,
                        Live(l)', row'[l].by = "rotate",
                        Live(m)', row'[m].by = "rotate",
                        row'[l].owner = row'[m].owner, l # m
                 PROVE  FALSE
    BY DEF OneRotation
  <2>2. CASE l = k
    BY <1>1, <1>2, <2>1, <2>2
  <2>3. CASE m = k
    BY <1>1, <1>2, <2>1, <2>3
  <2>4. CASE l # k /\ m # k
    BY <1>2, <2>1, <2>4 DEF KeysInv, OneRotation
  <2> QED
    BY <2>2, <2>3, <2>4
<1>6. IssuedUnstored'
  BY <1>1, <1>2 DEF KeysInv, IssuedUnstored, Stored
<1> QED
  BY <1>3, <1>4, <1>5, <1>6 DEF KeysInv

\* A request that begins keeps it: only an unknown user can register.
LEMMA BeginKeeps ==
  ASSUME KeysInv, NEW r \in Request, Begin(r),
         \/ UNCHANGED <<users, active>> /\ r.user \in users /\ ~Registers(r)
         \/ /\ r.user \notin users
            /\ users' = users \cup {r.user} /\ active' = active \cup {r.user}
  PROVE  KeysInv'
<1>1. row' = row /\ primary' = primary /\ pending' = pending \cup {r} /\ r.user \in Users
  BY DEF Begin, Request
<1>2. Types'
  BY <1>1 DEF KeysInv, Types
<1>3. OneRegistration'
  <2>1. \A k \in Keys : row[k].by = "register" => row[k].owner \in users
    BY DEF KeysInv, Types, Absent, None
  <2>2. CASE ~Registers(r)
    BY <1>1, <2>2 DEF KeysInv, OneRegistration
  <2>3. CASE r.user \notin users
    <3>1. \A q \in pending : q.user # r.user
      BY <2>3 DEF KeysInv, Types
    <3>2. \A q, s \in pending' : Registers(q) /\ Registers(s) /\ q.user = s.user => q = s
      BY <1>1, <3>1 DEF KeysInv, OneRegistration
    <3>3. \A q \in pending', k \in Keys :
            Registers(q) /\ row[k].by = "register" => row[k].owner # q.user
      BY <1>1, <2>1, <2>3 DEF KeysInv, OneRegistration
    <3> QED
      BY <1>1, <3>2, <3>3 DEF KeysInv, OneRegistration
  <2> QED
    BY <2>2, <2>3
<1>4. OneRotation' /\ IssuedUnstored'
  BY <1>1 DEF KeysInv, OneRotation, IssuedUnstored, Live, Stored
<1> QED
  BY <1>1, <1>2, <1>3, <1>4 DEF KeysInv

\* The table an earlier release left behind satisfies the invariant.
LEMMA KeysInit == Init => KeysInv
<1> SUFFICES ASSUME Init PROVE KeysInv
  OBVIOUS
<1>1. pending = {} /\ primary \in Masters /\ active = users
  BY DEF Init
<1>2. PICK old \in SUBSET Keys, owner \in [Keys -> Users], gone \in SUBSET Keys :
        /\ \A k, l \in old \ gone : owner[k] = owner[l] => k = l
        /\ row = [k \in Keys |->
             IF k \in old
               THEN [state |-> IF k \in gone THEN "revoked" ELSE "live",
                     owner |-> owner[k], secret |-> Legacy, by |-> "rotate"]
               ELSE Absent]
        /\ users = {owner[k] : k \in old}
  BY DEF Init
<1>3. ASSUME NEW k \in Keys
      PROVE  /\ row[k] \in Row
             /\ k \notin old => row[k] = Absent
             /\ k \in old => /\ row[k].by = "rotate" /\ row[k].owner = owner[k]
                             /\ Live(k) => k \notin gone
  <2>1. CASE k \in old
    <3>1. row[k] = [state |-> IF k \in gone THEN "revoked" ELSE "live",
                    owner |-> owner[k], secret |-> Legacy, by |-> "rotate"]
      BY <1>2, <2>1
    <3>2. owner[k] \in Users
      BY <1>2
    <3> QED
      BY <2>1, <3>1, <3>2 DEF Row, Live
  <2>2. CASE k \notin old
    BY <1>2, <2>2 DEF Row, Absent
  <2> QED
    BY <2>1, <2>2
<1>4. row \in [Keys -> Row]
  BY <1>2, <1>3
<1>5. Types
  <2>1. users \subseteq Users
    BY <1>2
  <2>2. \A k \in old : row[k].owner \in users
    BY <1>2, <1>3
  <2> QED
    BY <1>1, <1>3, <1>4, <2>1, <2>2 DEF Types
<1>6. OneRegistration
  <2>1. \A k \in Keys : row[k].by # "register"
    BY <1>3 DEF Absent, None
  <2> QED
    BY <1>1, <2>1 DEF OneRegistration
<1>7. OneRotation
  BY <1>2, <1>3 DEF OneRotation, Live, Absent
<1>8. IssuedUnstored
  BY <1>3 DEF IssuedUnstored, Absent, None
<1> QED
  BY <1>1, <1>5, <1>6, <1>7, <1>8 DEF KeysInv

\* Every step keeps the invariant.
LEMMA PortalStep ==
  ASSUME SentinelsAssumption, KeysInv, [Next]_vars
  PROVE  KeysInv'
<1>1. Types /\ pending \subseteq Request /\ primary \in Masters /\ active \subseteq users
  BY DEF KeysInv, Types
<1>2. ASSUME NEW c \in Clients, NEW u \in Users, NEW portal \in BOOLEAN,
             StartRegister(c, u, portal)
      PROVE  KeysInv'
  <2> DEFINE r == [client |-> c, user |-> u,
                   op |-> IF portal THEN "register" ELSE "open", target |-> None]
  <2>1. r \in Request /\ r.user = u
    BY DEF Request
  <2>2. Begin(r)
    BY <1>2 DEF StartRegister
  <2>3. /\ u \notin users /\ users' = users \cup {u} /\ active' = active \cup {u}
    BY <1>2 DEF StartRegister
  <2> QED
    BY <2>1, <2>2, <2>3, BeginKeeps
<1>3. ASSUME NEW c \in Clients, NEW u \in Users, StartRotate(c, u)
      PROVE  KeysInv'
  <2> DEFINE r == [client |-> c, user |-> u, op |-> "rotate", target |-> None]
  <2>1. r \in Request /\ r.user = u /\ ~Registers(r)
    BY DEF Request, Registers
  <2>2. Begin(r) /\ UNCHANGED <<users, active>> /\ u \in users
    BY <1>1, <1>3 DEF StartRotate
  <2> QED
    BY <2>1, <2>2, BeginKeeps
<1>4. ASSUME NEW c \in Clients, NEW k \in Keys, StartIssue(c, k)
      PROVE  KeysInv'
  <2> DEFINE r == [client |-> c, user |-> row[k].owner, op |-> "issue", target |-> None]
  <2>1. row[k].owner \in users /\ row[k].owner \in Users
    BY <1>1, <1>4 DEF StartIssue, Accepts, Types
  <2>2. r \in Request /\ r.user = row[k].owner /\ ~Registers(r)
    BY <2>1 DEF Request, Registers
  <2>3. Begin(r) /\ UNCHANGED <<users, active>>
    BY <1>4 DEF StartIssue
  <2> QED
    BY <2>1, <2>2, <2>3, BeginKeeps
<1>5. ASSUME NEW c \in Clients, NEW k \in Keys, NEW target \in Keys,
             StartRevoke(c, k, target)
      PROVE  KeysInv'
  <2> DEFINE r == [client |-> c, user |-> row[k].owner, op |-> "revoke", target |-> target]
  <2>1. row[k].owner \in users /\ row[k].owner \in Users
    BY <1>1, <1>5 DEF StartRevoke, Accepts, Types
  <2>2. r \in Request /\ r.user = row[k].owner /\ ~Registers(r)
    BY <2>1 DEF Request, Registers
  <2>3. Begin(r) /\ UNCHANGED <<users, active>>
    BY <1>5 DEF StartRevoke
  <2> QED
    BY <2>1, <2>2, <2>3, BeginKeeps
<1>6. ASSUME NEW r \in pending, Commit(r)
      PROVE  KeysInv'
  <2>1. pending' = pending \ {r} /\ UNCHANGED <<users, active, primary>> /\ r \in Request
    BY <1>1, <1>6 DEF Commit
  <2>2. CASE Revoke(r)
    BY <1>1, <2>1, <2>2, RevokeTakes, LessKeeps
  <2>3. ASSUME NEW k \in Keys, row[k].state = "absent", FirstKey(r, k)
        PROVE  KeysInv'
    <3>1. Registers(r)
      BY <2>3 DEF FirstKey, Registers
    <3> QED
      BY <1>1, <2>1, <2>3, <3>1, FirstKeyAdds, AddedKeeps
  <2>4. ASSUME NEW k \in Keys, row[k].state = "absent", Rotate(r, k)
        PROVE  KeysInv'
    BY <1>1, <2>1, <2>4, RotateAdds, AddedKeeps
  <2>5. ASSUME NEW k \in Keys, row[k].state = "absent", Issue(r, k)
        PROVE  KeysInv'
    BY <1>1, <2>1, <2>5, IssueAdds, AddedKeeps
  <2> QED
    BY <1>6, <2>2, <2>3, <2>4, <2>5 DEF Commit
<1>7. ASSUME UNCHANGED row, pending' \subseteq pending, users' = users,
             active' \subseteq users, primary' \in Masters
      PROVE  KeysInv'
  <2>1. row' \in [Keys -> Row] /\ OnlyLess
    BY <1>1, <1>7 DEF OnlyLess, Types, Live, Stored
  <2> QED
    BY <1>7, <2>1, LessKeeps
<1>8. ASSUME NEW rotate \in BOOLEAN, Migrate(rotate),
             UNCHANGED <<users, active, primary, pending>>
      PROVE  KeysInv'
  <2>1. row' \in [Keys -> Row] /\ OnlyLess
    BY <1>1, <1>8, MigrateTakes
  <2> QED
    BY <1>1, <1>8, <2>1, LessKeeps
<1>9. ASSUME NEW r \in pending, GiveUp(r) PROVE KeysInv'
  BY <1>1, <1>7, <1>9 DEF GiveUp
<1>10. ASSUME NEW u \in Users, SetStatus(u) PROVE KeysInv'
  BY <1>1, <1>7, <1>10 DEF SetStatus
<1>11. CASE Start
  BY <1>8, <1>11 DEF Start
<1>12. CASE Stop
  BY <1>1, <1>7, <1>12 DEF Stop
<1>13. ASSUME NEW rotate \in BOOLEAN, OfflineTool(rotate) PROVE KeysInv'
  BY <1>8, <1>13 DEF OfflineTool
<1>14. ASSUME NEW m \in Masters, AddMaster(m) PROVE KeysInv'
  BY <1>1, <1>7, <1>14 DEF AddMaster
<1>15. CASE RetireMasters
  BY <1>1, <1>7, <1>15 DEF RetireMasters
<1>16. CASE UNCHANGED vars
  BY <1>1, <1>7, <1>16 DEF vars
<1> QED
  BY <1>2, <1>3, <1>4, <1>5, <1>6, <1>9, <1>10, <1>11, <1>12, <1>13, <1>14,
     <1>15, <1>16 DEF Next

\* The portal has at most one key of a kind to show, however many rotations,
\* issues, registrations and revocations race (service.py rotate_api_key,
\* store.py issue_api_key): a rotation revokes what it finds inside its own
\* transaction, a user registers once, and issued keys are not stored.
THEOREM OneKeyToShow == SentinelsAssumption => (Spec => []OnePortalKey)
<1>1. KeysInv => OnePortalKey
  <2>1. SUFFICES ASSUME KeysInv, NEW k \in Keys, NEW l \in Keys,
                        Live(k), Live(l), row[k].owner = row[l].owner,
                        Stored(k), Stored(l), row[k].by = row[l].by
                 PROVE  k = l
    BY DEF OnePortalKey
  <2>2. row[k].by \in {"register", "rotate", "issue"}
    BY <2>1 DEF KeysInv, Types, Live, Absent
  <2>3. row[k].by # "issue"
    BY <2>1 DEF KeysInv, IssuedUnstored
  <2>4. CASE row[k].by = "register"
    BY <2>1, <2>4 DEF KeysInv, OneRegistration
  <2>5. CASE row[k].by = "rotate"
    BY <2>1, <2>5 DEF KeysInv, OneRotation
  <2> QED
    BY <2>2, <2>3, <2>4, <2>5
<1>2. SUFFICES ASSUME SentinelsAssumption PROVE Spec => []OnePortalKey
  OBVIOUS
<1>3. KeysInv /\ [Next]_vars => KeysInv'
  BY <1>2, PortalStep
<1> QED
  BY <1>1, <1>3, KeysInit, PTL DEF Spec

-----------------------------------------------------------------------------
(* What the table stores of the keys, and under which master key.          *)

\* After a rotation under the present primary, nothing live is stored under
\* another: only then are the old master keys removed.
CipherInv ==
  /\ AllReadable
  /\ rotated \in {None, primary} \cup older
  /\ rotated = primary =>
       \A k \in Keys : Live(k) => row[k].secret \in {None, Legacy, primary}

StorageInv == KeysInv /\ ServesNoPlaintext /\ CipherInv

\* A step that stores nothing but None and keys encrypted under the primary
\* keeps the storage safe, unless it changes a master key or starts a process.
LEMMA StorageKeeps ==
  ASSUME SentinelsAssumption, StorageInv,
         \A k \in Keys :
           /\ row'[k].secret \in {row[k].secret, None, primary}
           /\ ~Live(k)' /\ Stored(k)' => ~Live(k) /\ Stored(k)
           /\ Live(k)' /\ row'[k].secret = row[k].secret => Live(k) \/ ~Stored(k)',
         up' => up, UNCHANGED <<primary, older, rotated>>
  PROVE  ServesNoPlaintext' /\ CipherInv'
<1>1. Legacy # None /\ primary \in Masters /\ primary # Legacy
  BY DEF SentinelsAssumption, StorageInv, KeysInv, Types, Legacy, None
<1>2. ServesNoPlaintext'
  BY <1>1 DEF StorageInv, ServesNoPlaintext, Stored
<1>3. AllReadable'
  BY <1>1 DEF StorageInv, CipherInv, AllReadable, Readable, Stored
<1>4. CipherInv'
  BY <1>1, <1>3 DEF StorageInv, CipherInv, Stored
<1> QED
  BY <1>2, <1>4

\* A migration leaves nothing that is stored of a dead key and no text, and
\* a rotating one nothing under an old master key.
LEMMA MigrateCleans ==
  ASSUME StorageInv, NEW rotate \in BOOLEAN, Migrate(rotate), UNCHANGED <<primary, older>>
  PROVE  /\ AllReadable'
         /\ \A k \in Keys : row'[k].secret # Legacy \/ primary = Legacy
         /\ \A k \in Keys : Stored(k)' => Live(k)'
         /\ rotate => \A k \in Keys : Live(k)' => row'[k].secret \in {None, primary}
         /\ \A k \in Keys : row'[k].secret \in {row[k].secret, None, primary}
         /\ \A k \in Keys : Live(k)' => Live(k)
<1>1. row \in [Keys -> Row] /\ AllReadable
  BY DEF StorageInv, KeysInv, Types, Migrate
<1>2. ASSUME NEW k \in Keys
      PROVE  /\ row'[k].state = row[k].state
             /\ \/ Stored(k) /\ ~Live(k) /\ row'[k].secret = None
                \/ /\ Live(k) /\ (row[k].secret = Legacy \/ (rotate /\ Stored(k)))
                   /\ row'[k].secret = primary
                \/ /\ ~(Stored(k) /\ ~Live(k))
                   /\ ~(Live(k) /\ (row[k].secret = Legacy \/ (rotate /\ Stored(k))))
                   /\ row'[k].secret = row[k].secret
  <2>1. row[k] \in Row
    BY <1>1
  <2>2. row'[k] = Migrated(k, rotate)
    BY DEF Migrate
  <2>3. CASE Stored(k) /\ ~Live(k)
    BY <2>1, <2>2, <2>3 DEF Migrated, Row
  <2>4. CASE Live(k) /\ (row[k].secret = Legacy \/ (rotate /\ Stored(k)))
    BY <2>1, <2>2, <2>4 DEF Migrated, Row, Encrypted
  <2>5. CASE /\ ~(Stored(k) /\ ~Live(k))
             /\ ~(Live(k) /\ (row[k].secret = Legacy \/ (rotate /\ Stored(k))))
    BY <2>1, <2>2, <2>5 DEF Migrated
  <2> QED
    BY <2>3, <2>4, <2>5
<1>3. \A k \in Keys : row'[k].secret \in {row[k].secret, None, primary} /\ (Live(k)' => Live(k))
  BY <1>2 DEF Live
<1>4. \A k \in Keys : row'[k].secret # Legacy \/ primary = Legacy
  BY <1>2 DEF Stored, Legacy, None
<1>5. \A k \in Keys : Stored(k)' => Live(k)'
  BY <1>2 DEF Stored, Live
<1>6. rotate => \A k \in Keys : Live(k)' => row'[k].secret \in {None, primary}
  BY <1>2 DEF Stored, Live
<1>7. AllReadable'
  BY <1>1, <1>3 DEF AllReadable, Readable
<1> QED
  BY <1>3, <1>4, <1>5, <1>6, <1>7

\* And nothing of it is served before it was migrated.
LEMMA StorageInit == SentinelsAssumption /\ Init => StorageInv
<1> SUFFICES ASSUME SentinelsAssumption, Init PROVE StorageInv
  OBVIOUS
<1>1. KeysInv
  BY KeysInit
<1>2. up = FALSE /\ rotated = None /\ primary \in Masters /\ None # primary
  BY DEF Init, SentinelsAssumption
<1>3. \A k \in Keys : row[k].secret \in {None, Legacy}
  <2>1. PICK old \in SUBSET Keys, owner \in [Keys -> Users], gone \in SUBSET Keys :
          /\ \A k, l \in old \ gone : owner[k] = owner[l] => k = l
          /\ row = [k \in Keys |->
               IF k \in old
                 THEN [state |-> IF k \in gone THEN "revoked" ELSE "live",
                       owner |-> owner[k], secret |-> Legacy, by |-> "rotate"]
                 ELSE Absent]
          /\ users = {owner[k] : k \in old}
    BY DEF Init
  <2> QED
    BY <2>1 DEF Absent
<1> QED
  BY <1>1, <1>2, <1>3 DEF StorageInv, ServesNoPlaintext, CipherInv, AllReadable

\* The transactions store under the primary, if they store; the start and the
\* tool migrate; the operator's steps leave the table alone.
LEMMA StorageStep ==
  ASSUME SentinelsAssumption, StorageInv, [Next]_vars
  PROVE  StorageInv'
<1>1. Types /\ pending \subseteq Request /\ primary \in Masters /\ primary # Legacy /\ primary # None
  BY DEF StorageInv, KeysInv, Types, SentinelsAssumption
<1>2. KeysInv'
  BY PortalStep DEF StorageInv
<1> SUFFICES ServesNoPlaintext' /\ CipherInv'
  BY <1>2 DEF StorageInv
<1>3. ASSUME UNCHANGED row, up' => up, UNCHANGED <<primary, older, rotated>>
      PROVE  ServesNoPlaintext' /\ CipherInv'
  BY <1>3, StorageKeeps DEF Live, Stored
<1>4. ASSUME NEW r \in pending, NEW k \in Keys, NEW by, NEW secret,
             Added(k, r.user, by, secret), secret \in {None, primary},
             UNCHANGED <<up, primary, older, rotated>>
      PROVE  ServesNoPlaintext' /\ CipherInv'
  <2>1. row'[k].secret = secret /\ row'[k].state = "live"
    BY <1>4 DEF Added
  <2> QED
    BY <1>1, <1>4, <2>1 DEF StorageInv, ServesNoPlaintext, CipherInv, AllReadable,
                            Readable, Added, Live, Stored
<1>5. ASSUME NEW r \in pending, Commit(r)
      PROVE  ServesNoPlaintext' /\ CipherInv'
  <2>1. r \in Request /\ UNCHANGED <<up, primary, older, rotated>>
    BY <1>1, <1>5 DEF Commit
  <2>2. CASE Revoke(r)
    <3>1. CASE row' = row
      BY <1>3, <2>1, <3>1
    <3>2. CASE /\ row[r.target].state = "live"
               /\ row' = [row EXCEPT ![r.target].state = "revoked", ![r.target].secret = None]
      <4>1. ASSUME NEW k \in Keys, k = r.target
            PROVE  row'[k].state = "revoked" /\ row'[k].secret = None
        <5>1. row'[k] = [[row[k] EXCEPT !.state = "revoked"] EXCEPT !.secret = None]
          BY <1>1, <3>2, <4>1 DEF Types
        <5>2. row[k] \in Row
          BY <1>1 DEF Types
        <5> QED
          BY <5>1, <5>2 DEF Row
      <4>2. \A k \in Keys : k # r.target => row'[k] = row[k]
        BY <1>1, <3>2 DEF Types
      <4> QED
        BY <2>1, <4>1, <4>2, StorageKeeps DEF Live, Stored
    <3> QED
      BY <2>2, <3>1, <3>2 DEF Revoke, Live
  <2>3. ASSUME NEW k \in Keys, row[k].state = "absent", FirstKey(r, k)
        PROVE  ServesNoPlaintext' /\ CipherInv'
    <3>1. Added(k, r.user, "register", IF r.op = "register" THEN primary ELSE None)
      BY <1>1, <2>1, <2>3, FirstKeyAdds
    <3> QED
      BY <1>4, <2>1, <3>1
  <2>4. ASSUME NEW k \in Keys, row[k].state = "absent", Rotate(r, k)
        PROVE  ServesNoPlaintext' /\ CipherInv'
    <3>1. Added(k, r.user, "rotate", primary)
      BY <1>1, <2>1, <2>4, RotateAdds
    <3> QED
      BY <1>4, <2>1, <3>1
  <2>5. ASSUME NEW k \in Keys, row[k].state = "absent", Issue(r, k)
        PROVE  ServesNoPlaintext' /\ CipherInv'
    <3>1. Added(k, r.user, "issue", None)
      BY <1>1, <2>1, <2>5, IssueAdds
    <3> QED
      BY <1>4, <2>1, <3>1
  <2> QED
    BY <1>5, <2>2, <2>3, <2>4, <2>5 DEF Commit
<1>6. CASE Start
  <2>1. Migrate(FALSE) /\ UNCHANGED <<primary, older, rotated>>
    BY <1>6 DEF Start
  <2> QED
    BY <1>1, <2>1, MigrateCleans DEF StorageInv, ServesNoPlaintext, CipherInv
<1>7. ASSUME NEW rotate \in BOOLEAN, OfflineTool(rotate)
      PROVE  ServesNoPlaintext' /\ CipherInv'
  <2>1. /\ Migrate(rotate) /\ UNCHANGED <<primary, older>> /\ ~up'
        /\ rotated' = IF rotate THEN primary ELSE rotated
    BY <1>7 DEF OfflineTool
  <2>2. CASE rotate
    BY <1>1, <2>1, <2>2, MigrateCleans DEF StorageInv, ServesNoPlaintext, CipherInv
  <2>3. CASE ~rotate
    BY <1>1, <2>1, <2>3, MigrateCleans DEF StorageInv, ServesNoPlaintext, CipherInv
  <2> QED
    BY <2>2, <2>3
<1>8. ASSUME NEW m \in Masters, AddMaster(m)
      PROVE  ServesNoPlaintext' /\ CipherInv'
  <2>1. /\ m # None /\ m \notin {primary} \cup older
        /\ primary' = m /\ older' = older \cup {primary} /\ ~up' /\ UNCHANGED <<row, rotated>>
    BY <1>8 DEF AddMaster, SentinelsAssumption
  <2> QED
    BY <2>1 DEF StorageInv, ServesNoPlaintext, CipherInv, AllReadable, Readable, Live
<1>9. CASE RetireMasters
  <2>1. rotated = primary /\ older' = {} /\ ~up' /\ UNCHANGED <<row, primary, rotated>>
    BY <1>9 DEF RetireMasters
  <2> QED
    BY <2>1 DEF StorageInv, ServesNoPlaintext, CipherInv, AllReadable, Readable, Live
<1>11. ASSUME NEW c \in Clients, NEW u \in Users, NEW portal \in BOOLEAN,
              StartRegister(c, u, portal)
       PROVE  ServesNoPlaintext' /\ CipherInv'
  BY <1>3, <1>11 DEF StartRegister, Begin
<1>12. ASSUME NEW c \in Clients, NEW u \in Users, StartRotate(c, u)
       PROVE  ServesNoPlaintext' /\ CipherInv'
  BY <1>3, <1>12 DEF StartRotate, Begin
<1>13. ASSUME NEW c \in Clients, NEW k \in Keys, StartIssue(c, k)
       PROVE  ServesNoPlaintext' /\ CipherInv'
  BY <1>3, <1>13 DEF StartIssue, Begin
<1>14. ASSUME NEW c \in Clients, NEW k \in Keys, NEW target \in Keys,
              StartRevoke(c, k, target)
       PROVE  ServesNoPlaintext' /\ CipherInv'
  BY <1>3, <1>14 DEF StartRevoke, Begin
<1>15. ASSUME NEW r \in pending, GiveUp(r) PROVE ServesNoPlaintext' /\ CipherInv'
  BY <1>3, <1>15 DEF GiveUp
<1>16. ASSUME NEW u \in Users, SetStatus(u) PROVE ServesNoPlaintext' /\ CipherInv'
  BY <1>3, <1>16 DEF SetStatus
<1>17. CASE Stop
  BY <1>3, <1>17 DEF Stop
<1>18. CASE UNCHANGED vars
  BY <1>3, <1>18 DEF vars
<1> QED
  BY <1>5, <1>6, <1>7, <1>8, <1>9, <1>11, <1>12, <1>13, <1>14, <1>15, <1>16,
     <1>17, <1>18 DEF Next

\* The storage invariant holds always.
LEMMA StorageInvariant == SentinelsAssumption => (Spec => []StorageInv)
<1> SUFFICES ASSUME SentinelsAssumption PROVE Spec => []StorageInv
  OBVIOUS
<1>1. StorageInv /\ [Next]_vars => StorageInv'
  BY StorageStep
<1>2. Init => StorageInv
  BY StorageInit
<1> QED
  BY <1>1, <1>2, PTL DEF Spec

\* A running service holds no key as text and nothing of a revoked one, with
\* any number of requests between authentication and transaction when the
\* process stopped (store.py migrate_api_key_storage, issue_api_key, revoke).
THEOREM NoPlaintextServed == SentinelsAssumption => (Spec => []ServesNoPlaintext)
<1> SUFFICES ASSUME SentinelsAssumption PROVE Spec => []ServesNoPlaintext
  OBVIOUS
<1>1. StorageInv => ServesNoPlaintext
  BY DEF StorageInv
<1>2. Spec => []StorageInv
  BY StorageInvariant
<1> QED
  BY <1>1, <1>2, PTL

\* Whatever master keys the operator puts in front, in whatever order and
\* however often, every live key stays readable, if he removes the old ones
\* only after a rotation under the present primary.
THEOREM NothingBecomesUnreadable == SentinelsAssumption => (Spec => []AllStaysReadable)
<1> SUFFICES ASSUME SentinelsAssumption PROVE Spec => []AllStaysReadable
  OBVIOUS
<1>1. StorageInv => AllStaysReadable
  BY DEF StorageInv, CipherInv, AllStaysReadable
<1>2. Spec => []StorageInv
  BY StorageInvariant
<1> QED
  BY <1>1, <1>2, PTL

-----------------------------------------------------------------------------
(* The whole of what is checked of the keys.                               *)

\* A request revokes a row of its own user, and a row that is absent is nobody's.
RevokesOwn == \A r \in pending : r.op = "revoke" => row[r.target].owner = r.user
AbsentIsNobodys == \A k \in Keys : row[k].state = "absent" => row[k].owner = None

KeysSafe ==
  /\ StorageInv
  /\ up \in BOOLEAN /\ older \subseteq Masters /\ rotated \in Masters \cup {None}
  /\ RevokesOwn
  /\ AbsentIsNobodys

\* Rows are never deleted and never change their owner.
RowsStay ==
  \A k \in Keys :
    /\ row[k].state # "absent" => row'[k].state # "absent" /\ row'[k].owner = row[k].owner
    /\ row'[k].state = "absent" => row'[k].owner = row[k].owner

\* A migration changes how keys are stored, never whose they are.
LEMMA MigrateStays ==
  ASSUME Types, NEW rotate \in BOOLEAN, Migrate(rotate)
  PROVE  RowsStay
<1>1. ASSUME NEW k \in Keys
      PROVE  row'[k].state = row[k].state /\ row'[k].owner = row[k].owner
  <2>1. row[k] \in Row /\ row'[k] = Migrated(k, rotate)
    BY <1>1 DEF Types, Migrate
  <2>2. \/ row'[k] = row[k]
        \/ row'[k] = [row[k] EXCEPT !.secret = None]
        \/ row'[k] = [row[k] EXCEPT !.secret = Encrypted]
    BY <2>1 DEF Migrated
  <2> QED
    BY <2>1, <2>2 DEF Row
<1> QED
  BY <1>1 DEF RowsStay

\* A committed request changes rows of its own user only.
LEMMA CommitStays ==
  ASSUME Types, pending \subseteq Request, NEW r \in pending, Commit(r)
  PROVE  RowsStay
<1>1. row \in [Keys -> Row] /\ primary \in Masters /\ r \in Request
  BY DEF Types
<1>2. CASE Revoke(r)
  <2>1. ASSUME NEW k \in Keys
        PROVE  /\ row[k].state # "absent" => row'[k].state # "absent"
               /\ row'[k].owner = row[k].owner
    <3>1. \/ row'[k] = row[k]
          \/ row'[k] = [[row[k] EXCEPT !.state = "revoked"] EXCEPT !.secret = None]
      <4>1. CASE r.target = k
        BY <1>1, <1>2, <4>1 DEF Revoke
      <4>2. CASE r.target # k
        BY <1>1, <1>2, <4>2 DEF Revoke
      <4> QED
        BY <4>1, <4>2
    <3> QED
      BY <1>1, <3>1 DEF Row
  <2> QED
    BY <2>1 DEF RowsStay, Revoke, Live, Row
<1>3. ASSUME NEW k \in Keys, row[k].state = "absent", NEW rows, NEW by, NEW secret,
             row' = Inserted(rows, r, k, by, secret), rows \in [Keys -> Row],
             \A l \in Keys : /\ rows[l].owner = row[l].owner
                             /\ row[l].state # "absent" => rows[l].state # "absent"
      PROVE  RowsStay
  <2>1. row'[k].state = "live"
    BY <1>3 DEF Inserted
  <2>2. \A l \in Keys : l # k => row'[l] = rows[l]
    BY <1>3 DEF Inserted
  <2> QED
    BY <1>1, <1>3, <2>1, <2>2 DEF RowsStay
<1>4. ASSUME NEW k \in Keys, row[k].state = "absent", FirstKey(r, k) \/ Issue(r, k)
      PROVE  RowsStay
  BY <1>1, <1>3, <1>4 DEF FirstKey, Issue
<1>5. ASSUME NEW k \in Keys, row[k].state = "absent", Rotate(r, k)
      PROVE  RowsStay
  <2>1. ASSUME NEW l \in Keys
        PROVE  /\ Revoked(r.user)[l] \in Row
               /\ Revoked(r.user)[l].owner = row[l].owner
               /\ Revoked(r.user)[l].state \in {row[l].state, "revoked"}
    <3>1. row[l] \in Row
      BY <1>1
    <3>2. \/ Revoked(r.user)[l] = row[l]
          \/ Revoked(r.user)[l] = [row[l] EXCEPT !.state = "revoked", !.secret = None]
      BY DEF Revoked
    <3> QED
      BY <3>1, <3>2 DEF Row
  <2>2. Revoked(r.user) \in [Keys -> Row]
    BY <2>1 DEF Revoked
  <2>3. \A l \in Keys : row[l].state # "absent" => Revoked(r.user)[l].state # "absent"
    BY <2>1
  <2> QED
    BY <1>3, <1>5, <2>1, <2>2, <2>3 DEF Rotate
<1> QED
  BY <1>2, <1>4, <1>5 DEF Commit

\* What leaves the owners of the rows alone keeps the answers true.
LEMMA RowsStayKeep ==
  ASSUME SentinelsAssumption, KeysSafe, RowsStay, pending' \subseteq pending
  PROVE  RevokesOwn' /\ AbsentIsNobodys'
<1>1. AbsentIsNobodys'
  BY DEF KeysSafe, AbsentIsNobodys, RowsStay
<1>2. ASSUME NEW r \in pending', r.op = "revoke"
      PROVE  row'[r.target].owner = r.user
  <2>1. r \in pending /\ r \in Request /\ row[r.target].owner = r.user
    BY <1>2 DEF KeysSafe, RevokesOwn, StorageInv, KeysInv
  <2>2. r.user \in Users /\ r.target \in Keys
    BY <1>2, <2>1 DEF Request
  <2>3. row[r.target].state # "absent"
    BY <2>1, <2>2 DEF KeysSafe, AbsentIsNobodys, SentinelsAssumption
  <2> QED
    BY <2>1, <2>2, <2>3 DEF RowsStay
<1> QED
  BY <1>1, <1>2 DEF RevokesOwn

\* Every step of the service and the operator keeps the keys safe.
LEMMA SafeStep ==
  ASSUME SentinelsAssumption, KeysSafe, [Next]_vars
  PROVE  KeysSafe'
<1>1. /\ StorageInv /\ Types /\ pending \subseteq Request
      /\ up \in BOOLEAN /\ older \subseteq Masters /\ rotated \in Masters \cup {None}
      /\ RevokesOwn /\ AbsentIsNobodys
  BY DEF KeysSafe, StorageInv, KeysInv
<1>2. StorageInv'
  BY <1>1, StorageStep
<1> SUFFICES /\ up' \in BOOLEAN /\ older' \subseteq Masters /\ rotated' \in Masters \cup {None}
             /\ RevokesOwn' /\ AbsentIsNobodys'
  BY <1>2 DEF KeysSafe
<1>3. ASSUME UNCHANGED row, pending' \subseteq pending
      PROVE  RevokesOwn' /\ AbsentIsNobodys'
  BY <1>1, <1>3 DEF RevokesOwn, AbsentIsNobodys
<1>4. ASSUME UNCHANGED row, NEW c \in Clients, NEW u \in Users, NEW op \in {"register", "open", "rotate", "issue"},
             Begin([client |-> c, user |-> u, op |-> op, target |-> None])
      PROVE  RevokesOwn' /\ AbsentIsNobodys'
  BY <1>1, <1>4 DEF RevokesOwn, AbsentIsNobodys, Begin
<1>5. ASSUME NEW c \in Clients, NEW u \in Users, NEW portal \in BOOLEAN, StartRegister(c, u, portal)
      PROVE  RevokesOwn' /\ AbsentIsNobodys' /\ UNCHANGED <<up, older, rotated>>
  <2>1. UNCHANGED <<row, up, older, rotated>>
    BY <1>5 DEF StartRegister, Begin
  <2> QED
    BY <1>4, <1>5, <2>1 DEF StartRegister
<1>6. ASSUME NEW c \in Clients, NEW u \in Users, StartRotate(c, u)
      PROVE  RevokesOwn' /\ AbsentIsNobodys' /\ UNCHANGED <<up, older, rotated>>
  <2>1. UNCHANGED <<row, up, older, rotated>>
    BY <1>6 DEF StartRotate, Begin
  <2> QED
    BY <1>4, <1>6, <2>1 DEF StartRotate
<1>7. ASSUME NEW c \in Clients, NEW k \in Keys, StartIssue(c, k)
      PROVE  RevokesOwn' /\ AbsentIsNobodys' /\ UNCHANGED <<up, older, rotated>>
  <2>1. UNCHANGED <<row, up, older, rotated>> /\ row[k].owner \in Users
    BY <1>1, <1>7 DEF StartIssue, Begin, Accepts, Types
  <2> QED
    BY <1>4, <1>7, <2>1 DEF StartIssue
<1>8. ASSUME NEW c \in Clients, NEW k \in Keys, NEW target \in Keys, StartRevoke(c, k, target)
      PROVE  RevokesOwn' /\ AbsentIsNobodys' /\ UNCHANGED <<up, older, rotated>>
  BY <1>1, <1>8 DEF StartRevoke, Begin, RevokesOwn, AbsentIsNobodys, RowsOf
<1>9. ASSUME NEW r \in pending, Commit(r)
      PROVE  RevokesOwn' /\ AbsentIsNobodys' /\ UNCHANGED <<up, older, rotated>>
  <2>1. RowsStay
    BY <1>1, <1>9, CommitStays
  <2>2. pending' \subseteq pending /\ UNCHANGED <<up, older, rotated>>
    BY <1>9 DEF Commit
  <2> QED
    BY <2>1, <2>2, RowsStayKeep
<1>10. ASSUME NEW r \in pending, GiveUp(r)
       PROVE  RevokesOwn' /\ AbsentIsNobodys' /\ UNCHANGED <<up, older, rotated>>
  BY <1>3, <1>10 DEF GiveUp
<1>11. ASSUME NEW u \in Users, SetStatus(u)
       PROVE  RevokesOwn' /\ AbsentIsNobodys' /\ UNCHANGED <<up, older, rotated>>
  BY <1>3, <1>11 DEF SetStatus
<1>12. CASE Start
  <2>1. Migrate(FALSE) /\ up' = TRUE /\ UNCHANGED <<older, rotated, pending>>
    BY <1>12 DEF Start
  <2>2. RowsStay
    BY <1>1, <2>1, MigrateStays
  <2> QED
    BY <1>1, <2>1, <2>2, RowsStayKeep
<1>13. CASE Stop
  BY <1>1, <1>3, <1>13 DEF Stop
<1>14. ASSUME NEW rotate \in BOOLEAN, OfflineTool(rotate)
       PROVE  /\ up' \in BOOLEAN /\ older' \subseteq Masters /\ rotated' \in Masters \cup {None}
              /\ RevokesOwn' /\ AbsentIsNobodys'
  <2>1. Migrate(rotate) /\ UNCHANGED <<up, older, pending>> /\ rotated' \in {primary, rotated}
    BY <1>14 DEF OfflineTool
  <2>2. RowsStay
    BY <1>1, <2>1, MigrateStays
  <2> QED
    BY <1>1, <2>1, <2>2, RowsStayKeep DEF Types
<1>15. ASSUME NEW m \in Masters, AddMaster(m)
       PROVE  /\ up' \in BOOLEAN /\ older' \subseteq Masters /\ rotated' \in Masters \cup {None}
              /\ RevokesOwn' /\ AbsentIsNobodys'
  BY <1>1, <1>3, <1>15 DEF AddMaster, Types
<1>16. CASE RetireMasters
  BY <1>1, <1>3, <1>16 DEF RetireMasters
<1>17. CASE UNCHANGED vars
  BY <1>1, <1>3, <1>17 DEF vars
<1> QED
  BY <1>1, <1>5, <1>6, <1>7, <1>8, <1>9, <1>10, <1>11, <1>12, <1>13, <1>14, <1>15,
     <1>16, <1>17 DEF Next

\* What the run checks of the keys, for any number of users, keys, master keys
\* and requests: every row has its owner's account, a request that revokes
\* names a row of its own user however long it waits, a serving process holds
\* no key as text and nothing of a revoked one, and all stays readable.
THEOREM KeysAreSafe == SentinelsAssumption => (Spec => []KeysStaySafe)
<1> SUFFICES ASSUME SentinelsAssumption PROVE Spec => []KeysStaySafe
  OBVIOUS
<1>1. Init => KeysSafe
  <2> SUFFICES ASSUME Init PROVE KeysSafe
    OBVIOUS
  <2>1. StorageInv
    BY StorageInit
  <2>2. up = FALSE /\ older = {} /\ rotated = None /\ pending = {}
    BY DEF Init
  <2>3. \A k \in Keys : row[k].state = "absent" => row[k].owner = None
    BY DEF Init, Absent
  <2> QED
    BY <2>1, <2>2, <2>3 DEF KeysSafe, RevokesOwn, AbsentIsNobodys
<1>2. KeysSafe /\ [Next]_vars => KeysSafe'
  BY SafeStep
<1>3. KeysSafe => KeysStaySafe
  BY DEF KeysSafe, StorageInv, KeysInv, Types, RevokesOwn, CipherInv, KeysStaySafe, KeysTypeOK,
         AllStaysReadable
<1> QED
  BY <1>1, <1>2, <1>3, PTL DEF Spec

-----------------------------------------------------------------------------
(* Sessions.                                                               *)

Hashes == [password: Passwords, salt: Nat]
Cookies == [user: Users, version: Hashes, at: Int]

\* No hash, and no cookie signed for one, has a salt yet to be drawn.
SaltsDrawn ==
  /\ salts \in Nat
  /\ hash \in [Users -> Hashes]
  /\ tokens \in Seq(Cookies)
  /\ \A u \in Users : hash[u].salt <= salts
  /\ \A t \in S!Tokens : tokens[t].version.salt <= salts

SignedInThePast ==
  /\ clock \in Int
  /\ \A t \in S!Tokens : tokens[t].at <= clock

\* A row of the revocation list outlives the signature of its cookie.
OutlivesCookie(t, expires) ==
  /\ t \in S!Tokens
  /\ expires \in Int
  /\ tokens[t].at + MaxAge <= expires

RowsOutlive == \A r \in revoked : OutlivesCookie(r.token, r.expires)

\* What requests that wait have read.
Known(r) ==
  /\ r.op \in {"login", "change", "changed"} => r.user \in Users
  /\ r.op = "change" => r.password \in Passwords
  /\ r.op = "logout" => OutlivesCookie(r.token, r.expires)

RequestsKnown ==
  /\ DOMAIN cookie = Clients
  /\ \A c \in Clients : cookie[c] # 0 => cookie[c] \in S!Tokens
  /\ DOMAIN request = Clients
  /\ \A c \in Clients : Known(request[c])

\* A cookie that was logged out is listed, or its signature has expired.
Listed(t) == \E r \in revoked : r.token = t
LoggedOutListed == \A t \in loggedOut : t \in S!Tokens /\ (Listed(t) \/ ~S!Unexpired(t))

SessionsInv ==
  /\ SaltsDrawn
  /\ SignedInThePast
  /\ RowsOutlive
  /\ RequestsKnown
  /\ LoggedOutListed

-----------------------------------------------------------------------------
\* In the beginning there are no cookies.
LEMMA InitSessions == S!Init => SessionsInv
<1> SUFFICES ASSUME S!Init PROVE SessionsInv
  OBVIOUS
<1>1. tokens \in Seq(Cookies) /\ S!Tokens = {}
  BY EmptySeq DEF S!Init, S!Tokens
<1>2. SaltsDrawn
  BY <1>1 DEF S!Init, SaltsDrawn, Hashes
<1>3. SignedInThePast
  <2>1. clock = 0
    BY DEF S!Init
  <2> QED
    BY <1>1, <2>1 DEF SignedInThePast
<1>4. RowsOutlive /\ LoggedOutListed
  BY DEF S!Init, RowsOutlive, LoggedOutListed
<1>5. RequestsKnown
  BY DEF S!Init, RequestsKnown, Known, S!NoRequest
<1> QED
  BY <1>2, <1>3, <1>4, <1>5 DEF SessionsInv

\* A cookie, once signed, is never changed.
CookiesKept == S!Tokens \subseteq S!Tokens' /\ \A t \in S!Tokens : tokens'[t] = tokens[t]

\* set_cookie() signs at most one cookie, for the hash and the time of now.
LEMMA CookieSigned ==
  ASSUME SaltsDrawn, SignedInThePast, NEW c \in Clients, NEW u \in Users, S!SetCookie(c, u)
  PROVE  /\ tokens' \in Seq(Cookies)
         /\ CookiesKept
         /\ \A t \in S!Tokens' : t \in S!Tokens \/ (t = Len(tokens) + 1 /\ tokens'[t] = S!SignedFor(u))
         /\ cookie' = cookie \/ cookie' = [cookie EXCEPT ![c] = Len(tokens) + 1]
         /\ cookie' # cookie => Len(tokens) + 1 \in S!Tokens'
<1> USE DEF SaltsDrawn, SignedInThePast
<1>1. CASE UNCHANGED <<tokens, cookie>>
  BY <1>1 DEF CookiesKept, S!Tokens
<1>2. CASE /\ tokens' = Append(tokens, S!SignedFor(u))
           /\ cookie' = [cookie EXCEPT ![c] = Len(tokens) + 1]
  <2>1. S!SignedFor(u) \in Cookies
    BY DEF S!SignedFor, S!IdentityVersion, Cookies
  <2>2. /\ tokens' \in Seq(Cookies)
        /\ Len(tokens') = Len(tokens) + 1
        /\ \A i \in 1..Len(tokens) : tokens'[i] = tokens[i]
        /\ tokens'[Len(tokens) + 1] = S!SignedFor(u)
    BY <1>2, <2>1, AppendProperties
  <2>3. /\ Len(tokens) \in Nat
        /\ S!Tokens = 1..Len(tokens) /\ S!Tokens' = 1..(Len(tokens) + 1)
    BY <2>2, LenProperties DEF S!Tokens
  <2> QED
    BY <1>2, <2>2, <2>3 DEF CookiesKept
<1> QED
  BY <1>1, <1>2 DEF S!SetCookie

\* Nothing that a step leaves in place loses what the invariant says of it.
LEMMA StillOutlives ==
  ASSUME CookiesKept
  PROVE  /\ \A t, e : OutlivesCookie(t, e) => OutlivesCookie(t, e)'
         /\ \A r : Known(r) => Known(r)'
  BY DEF CookiesKept, OutlivesCookie, Known

\* What a cookie is.
LEMMA CookieType ==
  ASSUME SaltsDrawn, NEW t \in S!Tokens
  PROVE  tokens[t] \in Cookies /\ tokens[t].at \in Int
<1>1. S!Tokens = 1..Len(tokens)
  BY LenProperties DEF SaltsDrawn, S!Tokens
<1>2. tokens[t] \in Cookies
  BY <1>1, ElementOfSeq DEF SaltsDrawn
<1> QED
  BY <1>2 DEF Cookies

\* An expired signature does not become valid again.
LEMMA StaysExpired ==
  ASSUME S!AgeAssumption, SaltsDrawn, SignedInThePast, SignedInThePast', CookiesKept, clock <= clock',
         NEW t \in S!Tokens, ~S!Unexpired(t)
  PROVE  ~S!Unexpired(t)'
<1>1. tokens[t].at \in Int /\ tokens'[t] = tokens[t]
  BY CookieType DEF CookiesKept
<1> QED
  BY <1>1 DEF S!AgeAssumption, SignedInThePast, S!Unexpired

\* No step changes a cookie; those it signs are for a hash and a time that are.
LEMMA CookiesStep ==
  ASSUME SessionsInv, [S!Next]_S!vars
  PROVE  CookiesKept /\ SaltsDrawn' /\ SignedInThePast' /\ clock <= clock'
<1> USE DEF SessionsInv
<1>1. ASSUME UNCHANGED <<clock, hash, salts, tokens>>
      PROVE  CookiesKept /\ SaltsDrawn' /\ SignedInThePast' /\ clock <= clock'
  BY <1>1 DEF CookiesKept, SaltsDrawn, SignedInThePast, S!Tokens
<1>2. ASSUME NEW c \in Clients, S!Change(c)
      PROVE  CookiesKept /\ SaltsDrawn' /\ SignedInThePast' /\ clock <= clock'
  <2>1. request[c].user \in Users /\ request[c].password \in Passwords
    BY <1>2 DEF S!Change, RequestsKnown, Known
  <2>2. SaltsDrawn'
    <3> DEFINE new == [password |-> request[c].password, salt |-> salts + 1]
    <3>1. /\ salts \in Nat /\ salts' = salts + 1 /\ tokens' = tokens
          /\ hash' = [hash EXCEPT ![request[c].user] = new]
      BY <1>2 DEF S!Change, SaltsDrawn
    <3>2. new \in Hashes
      BY <2>1, <3>1 DEF Hashes
    <3>3. /\ hash' \in [Users -> Hashes]
          /\ \A u \in Users : hash'[u] = hash[u] \/ hash'[u].salt = salts + 1
      BY <2>1, <3>1, <3>2 DEF SaltsDrawn
    <3>4. \A u \in Users : hash[u].salt \in Nat
      BY DEF SaltsDrawn, Hashes
    <3>5. \A u \in Users : hash'[u].salt <= salts'
      BY <3>1, <3>3, <3>4 DEF SaltsDrawn
    <3>6. \A t \in S!Tokens : tokens[t].version.salt \in Nat
      BY CookieType DEF Cookies, Hashes
    <3>7. \A t \in S!Tokens' : tokens'[t].version.salt <= salts'
      BY <3>1, <3>6 DEF SaltsDrawn, S!Tokens
    <3> QED
      BY <3>1, <3>3, <3>5, <3>7 DEF SaltsDrawn
  <2> QED
    BY <1>2, <2>2 DEF S!Change, CookiesKept, SignedInThePast, S!Tokens
<1>3. ASSUME NEW c \in Clients, S!Answer(c)
      PROVE  CookiesKept /\ SaltsDrawn' /\ SignedInThePast' /\ clock <= clock'
  <2>1. request[c].user \in Users /\ S!SetCookie(c, request[c].user)
    BY <1>3 DEF S!Answer, RequestsKnown, Known
  <2>2. /\ tokens' \in Seq(Cookies)
        /\ CookiesKept
        /\ \A t \in S!Tokens' : \/ t \in S!Tokens
                               \/ tokens'[t] = S!SignedFor(request[c].user)
    BY <2>1, CookieSigned
  <2>3. UNCHANGED <<clock, hash, salts>>
    BY <1>3 DEF S!Answer
  <2>4. SaltsDrawn'
    BY <2>1, <2>2, <2>3 DEF SaltsDrawn, CookiesKept, S!SignedFor, S!IdentityVersion
  <2>5. SignedInThePast'
    BY <2>2, <2>3 DEF SignedInThePast, CookiesKept, S!SignedFor
  <2> QED
    BY <2>2, <2>3, <2>4, <2>5 DEF SignedInThePast
<1>4. ASSUME S!Tick
      PROVE  CookiesKept /\ SaltsDrawn' /\ SignedInThePast' /\ clock <= clock'
  <2>1. UNCHANGED <<hash, salts, tokens>> /\ clock' = clock + 1
    BY <1>4 DEF S!Tick
  <2>2. \A t \in S!Tokens : tokens[t].at \in Int
    BY CookieType
  <2>3. SignedInThePast' /\ clock <= clock'
    BY <2>1, <2>2 DEF SignedInThePast, S!Tokens
  <2> QED
    BY <2>1, <2>3 DEF CookiesKept, SaltsDrawn, S!Tokens
<1> QED
  BY <1>1, <1>2, <1>3, <1>4
     DEF S!Next, S!vars, S!Login, S!StartChange, S!StartLogout, S!Logout, S!Copy, S!SetStatus, S!Lose

\* Every step of a browser, of an administrator and of the clock keeps the
\* invariant.
LEMMA SessionsStep ==
  ASSUME S!AgeAssumption, SessionsInv, [S!Next]_S!vars
  PROVE  SessionsInv'
<1> USE DEF SessionsInv
<1>a. CookiesKept /\ SaltsDrawn' /\ SignedInThePast' /\ clock <= clock'
  BY CookiesStep
<1>b. ASSUME NEW t \in S!Tokens, ~S!Unexpired(t)
      PROVE  ~S!Unexpired(t)'
  BY <1>a, <1>b, StaysExpired
<1>c. /\ \A t, e : OutlivesCookie(t, e) => OutlivesCookie(t, e)'
      /\ \A r : Known(r) => Known(r)'
  BY <1>a, StillOutlives
<1>1. RowsOutlive'
  <2>1. ASSUME NEW c \in Clients, S!Logout(c) PROVE RowsOutlive'
    BY <1>c, <2>1 DEF S!Logout, S!Recorded, RowsOutlive, RequestsKnown, Known
  <2>2. ASSUME UNCHANGED revoked PROVE RowsOutlive'
    BY <1>c, <2>2 DEF RowsOutlive
  <2> QED
    BY <2>1, <2>2
       DEF S!Next, S!vars, S!Login, S!StartChange, S!Change, S!Answer, S!StartLogout, S!Copy, S!SetStatus, S!Lose, S!Tick
<1>2. LoggedOutListed'
  <2>1. ASSUME NEW c \in Clients, S!Logout(c) PROVE LoggedOutListed'
    <3>1. PICK token, expires :
          /\ OutlivesCookie(token, expires)
          /\ revoked' = S!Recorded(token, expires)
          /\ loggedOut' = loggedOut \cup {token}
          /\ UNCHANGED <<clock, tokens>>
      BY <2>1 DEF S!Logout, RequestsKnown, Known
    <3>2. token \in S!Tokens' /\ Listed(token)'
      <4>1. [token |-> token, expires |-> expires] \in revoked'
        BY <3>1 DEF S!Recorded
      <4> QED
        BY <1>a, <3>1, <4>1 DEF OutlivesCookie, CookiesKept, Listed
    <3>3. ASSUME NEW t \in loggedOut PROVE t \in S!Tokens' /\ (Listed(t)' \/ ~S!Unexpired(t)')
      <4>1. t \in S!Tokens /\ t \in S!Tokens'
        BY <1>a DEF LoggedOutListed, CookiesKept
      <4>2. CASE ~S!Unexpired(t)
        BY <1>b, <4>1, <4>2
      <4>3. CASE Listed(t)
        <5>1. PICK r \in revoked : r.token = t
          BY <4>3 DEF Listed
        <5>2. CASE r.expires < clock
          <6>1. tokens[t].at + MaxAge <= r.expires /\ r.expires \in Int
            BY <5>1 DEF RowsOutlive, OutlivesCookie
          <6>2. tokens[t].at \in Int /\ clock \in Int
            BY <4>1, CookieType DEF SignedInThePast
          <6>3. ~S!Unexpired(t)
            BY <5>2, <6>1, <6>2 DEF S!AgeAssumption, S!Unexpired
          <6> QED
            BY <1>b, <4>1, <6>3
        <5>3. CASE r.expires >= clock
          BY <3>1, <3>2, <4>1, <5>1, <5>3 DEF S!Recorded, Listed
        <5>4. r.expires \in Int /\ clock \in Int
          BY <5>1 DEF RowsOutlive, OutlivesCookie, SignedInThePast
        <5> QED
          BY <5>2, <5>3, <5>4
      <4> QED
        BY <4>1, <4>2, <4>3 DEF LoggedOutListed
    <3> QED
      BY <3>1, <3>2, <3>3 DEF LoggedOutListed
  <2>2. ASSUME UNCHANGED <<revoked, loggedOut>> PROVE LoggedOutListed'
    BY <1>a, <1>b, <2>2 DEF LoggedOutListed, Listed, CookiesKept
  <2> QED
    BY <2>1, <2>2
       DEF S!Next, S!vars, S!Login, S!StartChange, S!Change, S!Answer, S!StartLogout, S!Copy, S!SetStatus, S!Lose, S!Tick
<1>3. RequestsKnown'
  <2>1. ASSUME UNCHANGED <<cookie, request>> PROVE RequestsKnown'
    BY <1>a, <1>c, <2>1 DEF RequestsKnown, CookiesKept
  <2>2. ASSUME NEW c \in Clients, NEW r, S!Ask(c, r), Known(r)', UNCHANGED cookie
        PROVE  RequestsKnown'
    BY <1>a, <1>c, <2>2 DEF RequestsKnown, CookiesKept, S!Ask
  <2>3. Known(S!NoRequest)'
    BY DEF Known, S!NoRequest
  <2>4. ASSUME NEW c \in Clients, NEW u \in Users, S!Login(c, u) PROVE RequestsKnown'
    BY <2>2, <2>4 DEF S!Login, Known
  <2>5. ASSUME NEW c \in Clients, NEW p \in Passwords, S!StartChange(c, p)
        PROVE  RequestsKnown'
    <3>1. tokens[cookie[c]].user \in Users
      BY <2>5, CookieType DEF S!StartChange, RequestsKnown, Cookies
    <3>2. PICK r : /\ r = [op |-> "change", user |-> tokens[cookie[c]].user, password |-> p]
                   /\ S!Ask(c, r)
      BY <2>5 DEF S!StartChange
    <3>3. Known(r)'
      BY <3>1, <3>2 DEF Known
    <3> QED
      BY <2>2, <2>5, <3>2, <3>3 DEF S!StartChange
  <2>6. ASSUME NEW c \in Clients, S!Change(c) PROVE RequestsKnown'
    <3>1. request[c].user \in Users
      BY <2>6 DEF S!Change, RequestsKnown, Known
    <3>2. PICK r : r = [op |-> "changed", user |-> request[c].user] /\ S!Ask(c, r)
      BY <2>6 DEF S!Change
    <3>3. Known(r)'
      BY <3>1, <3>2 DEF Known
    <3> QED
      BY <2>2, <2>6, <3>2, <3>3 DEF S!Change
  <2>7. ASSUME NEW c \in Clients, S!Answer(c) PROVE RequestsKnown'
    <3>1. request[c].user \in Users /\ S!SetCookie(c, request[c].user)
      BY <2>7 DEF S!Answer, RequestsKnown, Known
    <3>2. /\ cookie' = cookie \/ cookie' = [cookie EXCEPT ![c] = Len(tokens) + 1]
          /\ cookie' # cookie => Len(tokens) + 1 \in S!Tokens'
      BY <3>1, CookieSigned
    <3>3. /\ DOMAIN cookie' = Clients
          /\ \A d \in Clients : cookie'[d] # 0 => cookie'[d] \in S!Tokens'
      BY <1>a, <3>2 DEF RequestsKnown, CookiesKept
    <3>4. request' = [request EXCEPT ![c] = S!NoRequest]
      BY <2>7 DEF S!Answer, S!Ask
    <3> QED
      BY <1>c, <2>3, <3>3, <3>4 DEF RequestsKnown
  <2>8. ASSUME NEW c \in Clients, S!StartLogout(c) PROVE RequestsKnown'
    <3>1. CASE UNCHANGED request /\ cookie' = [cookie EXCEPT ![c] = 0]
      BY <1>a, <1>c, <3>1 DEF RequestsKnown, CookiesKept
    <3>2. CASE /\ UNCHANGED <<cookie, tokens, clock>>
               /\ S!Ask(c, [op |-> "logout", token |-> cookie[c], expires |-> clock + MaxAge])
      <4>1. cookie[c] \in S!Tokens
        BY <2>8 DEF S!StartLogout, RequestsKnown
      <4>2. OutlivesCookie(cookie[c], clock + MaxAge)
        BY <4>1, CookieType DEF OutlivesCookie, SignedInThePast, S!AgeAssumption
      <4>3. PICK r : /\ r = [op |-> "logout", token |-> cookie[c], expires |-> clock + MaxAge]
                     /\ S!Ask(c, r)
        BY <3>2
      <4>4. Known(r)
        BY <4>2, <4>3 DEF Known
      <4> QED
        BY <1>c, <2>2, <3>2, <4>3, <4>4
    <3> QED
      BY <2>8, <3>1, <3>2 DEF S!StartLogout, S!RevokedUntil
  <2>9. ASSUME NEW c \in Clients, S!Logout(c) PROVE RequestsKnown'
    <3>1. /\ cookie' = [cookie EXCEPT ![c] = 0]
          /\ request' = [request EXCEPT ![c] = S!NoRequest]
      BY <2>9 DEF S!Logout, S!Ask
    <3> QED
      BY <1>a, <1>c, <2>3, <3>1 DEF RequestsKnown, CookiesKept
  <2>10. ASSUME NEW c \in Clients, NEW d \in Clients, S!Copy(c, d) PROVE RequestsKnown'
    BY <1>a, <1>c, <2>10 DEF S!Copy, RequestsKnown, CookiesKept
  <2>11. ASSUME NEW c \in Clients, S!Lose(c) PROVE RequestsKnown'
    BY <2>2, <2>3, <2>11 DEF S!Lose
  <2> QED
    BY <2>1, <2>4, <2>5, <2>6, <2>7, <2>8, <2>9, <2>10, <2>11 DEF S!Next, S!vars, S!SetStatus, S!Tick
<1> QED
  BY <1>a, <1>1, <1>2, <1>3

\* The invariant holds in every reachable state, if a cookie's lifetime is a
\* natural number.
THEOREM SessionsInvariant == S!AgeAssumption => (S!Spec => []SessionsInv)
<1> SUFFICES ASSUME S!AgeAssumption PROVE S!Spec => []SessionsInv
  OBVIOUS
<1>1. SessionsInv /\ [S!Next]_S!vars => SessionsInv'
  BY SessionsStep
<1> QED
  BY <1>1, InitSessions, PTL DEF S!Spec

-----------------------------------------------------------------------------
(* What follows for the users of the portal.                               *)

\* Nobody gets in with a cookie that was logged out, although its row is
\* deleted some time later.
THEOREM LogoutIsFinal == S!AgeAssumption => (S!Spec => []S!LoggedOutStaysOut)
<1> SUFFICES ASSUME S!AgeAssumption PROVE S!Spec => []S!LoggedOutStaysOut
  OBVIOUS
<1>1. SessionsInv => S!LoggedOutStaysOut
  BY DEF SessionsInv, LoggedOutListed, Listed, S!LoggedOutStaysOut, S!Accepts
<1> QED
  BY <1>1, SessionsInvariant, PTL

\* What a cookie is accepted by, but for its own age and row.
Current(t) ==
  tokens[t].user \in enabled /\ tokens[t].version = S!IdentityVersion(tokens[t].user)

\* A change of password refuses the user's cookies and leaves the others.
LEMMA ChangeEffect ==
  ASSUME SessionsInv, NEW c \in Clients, S!Change(c)
  PROVE  /\ CookiesKept /\ UNCHANGED <<clock, revoked, enabled>>
         /\ \A u \in Users : hash'[u] # hash[u] => u = request[c].user
         /\ \A t \in S!Tokens : IF tokens[t].user = request[c].user
                              THEN ~Current(t)' ELSE Current(t)' <=> Current(t)
<1> USE DEF SessionsInv
<1>1. /\ UNCHANGED <<clock, revoked, enabled, tokens>>
      /\ request[c].user \in Users
      /\ hash' = [hash EXCEPT ![request[c].user] =
                     [password |-> request[c].password, salt |-> salts + 1]]
  BY DEF S!Change, RequestsKnown, Known
<1>2. hash'[request[c].user].salt = salts + 1
  BY <1>1 DEF SaltsDrawn
<1>3. \A u \in Users : u # request[c].user => hash'[u] = hash[u]
  BY <1>1 DEF SaltsDrawn
<1>4. ASSUME NEW t \in S!Tokens
      PROVE  IF tokens[t].user = request[c].user
             THEN ~Current(t)' ELSE Current(t)' <=> Current(t)
  <2>1. tokens[t].version.salt \in Nat /\ tokens[t].version.salt <= salts
    BY CookieType DEF SaltsDrawn, Cookies, Hashes
  <2>2. tokens[t].version.salt # salts + 1 /\ tokens[t].user \in Users
    BY <2>1, CookieType DEF SaltsDrawn, Cookies
  <2>3. CASE tokens[t].user = request[c].user
    BY <1>1, <1>2, <2>2, <2>3 DEF Current, S!IdentityVersion
  <2>4. CASE tokens[t].user # request[c].user
    BY <1>1, <1>3, <2>2, <2>4 DEF Current, S!IdentityVersion
  <2> QED
    BY <2>3, <2>4
<1> QED
  BY <1>1, <1>3, <1>4 DEF CookiesKept, S!Tokens

\* Changing the password ends every session of the user, and no other.
THEOREM ChangeIsExact == S!AgeAssumption => (S!Spec => ChangeEndsSessions)
<1> DEFINE Exact(u) ==
             hash'[u] # hash[u] =>
               \A t \in S!Tokens : IF tokens[t].user = u THEN ~S!Accepts(t)'
                                                       ELSE S!Accepts(t)' = S!Accepts(t)
<1> SUFFICES ASSUME S!AgeAssumption PROVE S!Spec => ChangeEndsSessions
  OBVIOUS
<1>1. ASSUME SessionsInv, S!Next, NEW u \in Users PROVE Exact(u)
  <2>1. ASSUME NEW c \in Clients, S!Change(c) PROVE Exact(u)
    <3> SUFFICES ASSUME hash'[u] # hash[u], NEW t \in S!Tokens
                 PROVE  IF tokens[t].user = u THEN ~S!Accepts(t)'
                                              ELSE S!Accepts(t)' = S!Accepts(t)
      OBVIOUS
    <3>1. /\ CookiesKept /\ UNCHANGED <<clock, revoked, enabled>>
          /\ u = request[c].user
          /\ IF tokens[t].user = u THEN ~Current(t)' ELSE Current(t)' <=> Current(t)
      BY <1>1, <2>1, ChangeEffect
    <3>2. CASE tokens[t].user = u
      BY <3>1, <3>2 DEF S!Accepts, Current
    <3>3. CASE tokens[t].user # u
      <4>1. S!Accepts(t)' <=> S!Accepts(t)
        BY <3>1, <3>3 DEF S!Accepts, Current, CookiesKept, S!Unexpired
      <4> QED
        BY <3>3, <4>1 DEF S!Accepts
    <3> QED
      BY <3>2, <3>3
  <2>2. ASSUME UNCHANGED hash PROVE Exact(u)
    BY <2>2
  <2> QED
    BY <1>1, <2>1, <2>2
       DEF S!Next, S!Login, S!StartChange, S!Answer, S!StartLogout, S!Logout, S!Copy, S!SetStatus, S!Lose, S!Tick
<1>2. SessionsInv /\ [S!Next]_S!vars => [\A u \in Users : Exact(u)]_S!vars
  BY <1>1
<1> QED
  BY <1>2, SessionsInvariant, PTL DEF S!Spec, ChangeEndsSessions, S!ChangeEndsSessions

\* revoke_session() drops only rows of cookies that have expired.
LEMMA RowsDropped ==
  ASSUME S!AgeAssumption, SessionsInv, NEW c \in Clients, S!Logout(c),
         NEW r \in revoked, r.token # request[c].token, r \notin revoked'
  PROVE  ~S!Unexpired(r.token)
<1> USE DEF SessionsInv
<1>1. OutlivesCookie(r.token, r.expires) /\ tokens[r.token].at \in Int /\ clock \in Int
  BY CookieType DEF RowsOutlive, OutlivesCookie, SignedInThePast
<1>2. ~(r.expires >= clock)
  BY DEF S!Logout, S!Recorded
<1> QED
  BY <1>1, <1>2 DEF OutlivesCookie, S!Unexpired, S!AgeAssumption

\* No step but the administrator's makes a refused cookie good again.
THEOREM NobodyIsRevived == S!AgeAssumption => (S!Spec => S!NoRevival)
<1> DEFINE Stays(t) == ~S!Accepts(t) /\ S!Accepts(t)' => tokens[t].user \notin enabled
<1> SUFFICES ASSUME S!AgeAssumption PROVE S!Spec => S!NoRevival
  OBVIOUS
<1>1. ASSUME SessionsInv, S!Next, NEW t \in S!Tokens PROVE Stays(t)
  <2> SUFFICES ASSUME ~S!Accepts(t), S!Accepts(t)', tokens[t].user \in enabled PROVE FALSE
    OBVIOUS
  <2>1. CookiesKept /\ SaltsDrawn' /\ SignedInThePast' /\ clock <= clock'
    BY <1>1, CookiesStep
  <2>2. tokens'[t] = tokens[t] /\ tokens[t].user \in Users
    BY <1>1, <2>1, CookieType DEF CookiesKept, SessionsInv, Cookies
  <2>3. S!Unexpired(t)
    BY <1>1, <2>1, StaysExpired DEF S!Accepts, SessionsInv
  <2>4. tokens[t].version = hash[tokens[t].user]
    <3>1. ASSUME NEW c \in Clients, S!Change(c) PROVE tokens[t].version = hash[tokens[t].user]
      BY <1>1, <2>2, <3>1, ChangeEffect DEF S!Accepts, Current, S!IdentityVersion
    <3>2. ASSUME UNCHANGED hash PROVE tokens[t].version = hash[tokens[t].user]
      BY <2>2, <3>2 DEF S!Accepts, S!IdentityVersion
    <3> QED
      BY <1>1, <3>1, <3>2
         DEF S!Next, S!Login, S!StartChange, S!Answer, S!StartLogout, S!Logout, S!Copy, S!SetStatus, S!Lose, S!Tick
  <2>5. PICK r \in revoked : r.token = t
    BY <2>3, <2>4 DEF S!Accepts, S!IdentityVersion
  <2>6. r \notin revoked'
    BY <2>5 DEF S!Accepts
  <2>7. PICK c \in Clients : S!Logout(c)
    BY <1>1, <2>6
       DEF S!Next, S!Login, S!StartChange, S!Change, S!Answer, S!StartLogout, S!Copy, S!SetStatus, S!Lose, S!Tick
  <2>8. t # request[c].token
    <3>1. [token |-> request[c].token, expires |-> request[c].expires] \in revoked'
      BY <2>7 DEF S!Logout, S!Recorded
    <3>2. \A x \in revoked' : x.token # t
      BY DEF S!Accepts
    <3> QED
      BY <3>1, <3>2
  <2> QED
    BY <1>1, <2>3, <2>5, <2>6, <2>7, <2>8, RowsDropped
<1>2. SessionsInv /\ [S!Next]_S!vars => [\A t \in S!Tokens : Stays(t)]_S!vars
  BY <1>1
<1> QED
  BY <1>2, SessionsInvariant, PTL DEF S!Spec, S!NoRevival

\* A session ends because of its age, a new password, a disabled account, or
\* its own logout.
THEOREM NoOtherEnd == S!AgeAssumption => (S!Spec => S!EndsForAReason)
<1> DEFINE Excused(t) ==
             S!Accepts(t) /\ ~S!Accepts(t)' =>
               \/ ~S!Unexpired(t)'
               \/ hash'[tokens[t].user] # hash[tokens[t].user]
               \/ tokens[t].user \notin enabled'
               \/ t \in loggedOut'
<1> SUFFICES ASSUME S!AgeAssumption PROVE S!Spec => S!EndsForAReason
  OBVIOUS
<1>1. ASSUME SessionsInv, S!Next, NEW t \in S!Tokens PROVE Excused(t)
  <2> SUFFICES ASSUME S!Accepts(t), ~S!Accepts(t)', S!Unexpired(t)',
                      hash'[tokens[t].user] = hash[tokens[t].user],
                      tokens[t].user \in enabled'
               PROVE  t \in loggedOut'
    OBVIOUS
  <2>1. tokens'[t] = tokens[t]
    BY <1>1, CookiesStep DEF CookiesKept
  <2>2. PICK r \in revoked' : r.token = t
    BY <2>1 DEF S!Accepts, S!IdentityVersion
  <2>3. r \notin revoked
    BY <2>2 DEF S!Accepts
  <2>4. PICK c \in Clients : S!Logout(c)
    BY <1>1, <2>3
       DEF S!Next, S!Login, S!StartChange, S!Change, S!Answer, S!StartLogout, S!Copy, S!SetStatus, S!Lose, S!Tick
  <2> QED
    BY <2>2, <2>3, <2>4 DEF S!Logout, S!Recorded
<1>2. SessionsInv /\ [S!Next]_S!vars => [\A t \in S!Tokens : Excused(t)]_S!vars
  BY <1>1
<1> QED
  BY <1>2, SessionsInvariant, PTL DEF S!Spec, S!EndsForAReason

-----------------------------------------------------------------------------
(* The types of the sessions, and the whole of what is checked of them.    *)

\* Before anybody logs in every cookie, salt and row has its type.
LEMMA SessionsTypeInit == S!AgeAssumption /\ S!BoundsAssumption /\ S!Init => S!SessionsTypeOK
<1> SUFFICES ASSUME S!AgeAssumption, S!BoundsAssumption, S!Init PROVE S!SessionsTypeOK
  OBVIOUS
<1>1. S!Tokens = {}
  BY EmptySeq DEF S!Init, S!Tokens
<1>2. clock \in 0..MaxClock /\ salts \in 0..MaxSalt /\ hash \in [Users -> S!Hash]
  BY DEF S!Init, S!AgeAssumption, S!BoundsAssumption, S!Hash
<1>3. cookie \in [Clients -> {0} \cup S!Tokens] /\ request \in [Clients -> S!Request]
  BY DEF S!Init, S!Request
<1> QED
  BY <1>1, <1>2, <1>3 DEF S!Init, S!SessionsTypeOK

\* Every step keeps the types of the sessions.
LEMMA SessionsTypeStep ==
  ASSUME S!AgeAssumption, S!BoundsAssumption, SessionsInv, S!SessionsTypeOK, [S!Next]_S!vars
  PROVE  S!SessionsTypeOK'
<1> DEFINE Boring == UNCHANGED <<clock, hash, salts, tokens>>
<1>a. SessionsInv' /\ CookiesKept
  BY SessionsStep, CookiesStep
<1>b. /\ clock \in 0..MaxClock /\ MaxClock \in Nat /\ salts \in 0..MaxSalt /\ MaxSalt \in Nat
      /\ MaxTokens \in Nat /\ hash \in [Users -> S!Hash] /\ tokens \in Seq(Cookies)
      /\ S!Tokens \subseteq 1..MaxTokens /\ \A t \in S!Tokens : tokens[t] \in S!Token
  BY DEF S!SessionsTypeOK, S!AgeAssumption, S!BoundsAssumption, SessionsInv, SaltsDrawn
<1>1. clock' \in 0..MaxClock
  <2>1. CASE S!Tick
    BY <1>b, <2>1 DEF S!Tick
  <2>2. CASE UNCHANGED clock
    BY <1>b, <2>2
  <2> QED
    BY <2>1, <2>2
       DEF S!Next, S!vars, S!Login, S!StartChange, S!Change, S!Answer, S!StartLogout,
           S!Logout, S!Copy, S!SetStatus, S!Lose
<1>2. salts' \in 0..MaxSalt /\ hash' \in [Users -> S!Hash]
  <2>1. ASSUME NEW c \in Clients, S!Change(c)
        PROVE  salts' \in 0..MaxSalt /\ hash' \in [Users -> S!Hash]
    <3>1. request[c].password \in Passwords
      BY <2>1 DEF S!Change, SessionsInv, RequestsKnown, Known
    <3>2. salts + 1 \in 0..MaxSalt
      BY <1>b, <2>1 DEF S!Change
    <3>3. [password |-> request[c].password, salt |-> salts + 1] \in S!Hash
      BY <3>1, <3>2 DEF S!Hash
    <3> QED
      BY <1>b, <2>1, <3>2, <3>3 DEF S!Change
  <2>2. CASE UNCHANGED <<salts, hash>>
    BY <1>b, <2>2
  <2> QED
    BY <2>1, <2>2
       DEF S!Next, S!vars, S!Login, S!StartChange, S!Answer, S!StartLogout,
           S!Logout, S!Copy, S!SetStatus, S!Lose, S!Tick
<1>3. S!Tokens' \subseteq 1..MaxTokens /\ \A t \in S!Tokens' : tokens'[t] \in S!Token
  <2>1. ASSUME NEW c \in Clients, S!Answer(c)
        PROVE  S!Tokens' \subseteq 1..MaxTokens /\ \A t \in S!Tokens' : tokens'[t] \in S!Token
    <3>1. request[c].user \in Users /\ S!SetCookie(c, request[c].user)
      BY <2>1 DEF S!Answer, SessionsInv, RequestsKnown, Known
    <3>2. S!SignedFor(request[c].user) \in S!Token
      BY <1>b, <3>1 DEF S!SignedFor, S!IdentityVersion, S!Token
    <3>3. \A t \in S!Tokens' : \/ t \in S!Tokens
                               \/ t = Len(tokens) + 1 /\ tokens'[t] = S!SignedFor(request[c].user)
      BY <3>1, CookieSigned DEF SessionsInv
    <3>4. Len(tokens) \in Nat /\ Len(tokens) < MaxTokens
      BY <1>b, <3>1, LenProperties DEF S!SetCookie
    <3>5. Len(tokens) + 1 \in 1..MaxTokens
      BY <1>b, <3>4
    <3> QED
      BY <1>a, <1>b, <3>2, <3>3, <3>5 DEF CookiesKept
  <2>2. CASE UNCHANGED tokens
    BY <1>b, <2>2 DEF S!Tokens
  <2> QED
    BY <2>1, <2>2
       DEF S!Next, S!vars, S!Login, S!StartChange, S!Change, S!StartLogout,
           S!Logout, S!Copy, S!SetStatus, S!Lose, S!Tick
<1>4. \A r \in revoked' : r.token \in S!Tokens' /\ r.expires \in Int
  BY <1>a DEF SessionsInv, RowsOutlive, OutlivesCookie
<1>5. \A r, s \in revoked' : r.token = s.token => r = s
  <2>1. \A r, s \in revoked : r.token = s.token => r = s
    BY DEF S!SessionsTypeOK
  <2>2. ASSUME NEW c \in Clients, S!Logout(c)
        PROVE  \A r, s \in revoked' : r.token = s.token => r = s
    BY <2>1, <2>2 DEF S!Logout, S!Recorded
  <2> QED
    BY <2>1, <2>2
       DEF S!Next, S!vars, S!Login, S!StartChange, S!Change, S!Answer, S!StartLogout,
           S!Copy, S!SetStatus, S!Lose, S!Tick
<1>6. cookie' \in [Clients -> {0} \cup S!Tokens']
  <2>1. cookie' = [c \in Clients |-> cookie'[c]]
    <3>1. cookie = [c \in Clients |-> cookie[c]]
      BY DEF S!SessionsTypeOK
    <3> QED
      BY <3>1
         DEF S!Next, S!vars, S!Login, S!StartChange, S!Change, S!Answer, S!StartLogout,
             S!SetCookie, S!Logout, S!Copy, S!SetStatus, S!Lose, S!Tick
  <2>2. \A c \in Clients : cookie'[c] = 0 \/ cookie'[c] \in S!Tokens'
    BY <1>a DEF SessionsInv, RequestsKnown
  <2> QED
    BY <2>1, <2>2
<1>7. request' \in [Clients -> S!Request]
  <2>1. request \in [Clients -> S!Request]
    BY DEF S!SessionsTypeOK
  <2>2. ASSUME NEW c \in Clients, NEW r \in S!Request, S!Ask(c, r)
        PROVE  request' \in [Clients -> S!Request]
    BY <2>1, <2>2 DEF S!Ask
  <2>3. ASSUME NEW c \in Clients, NEW u \in Users, S!Login(c, u)
        PROVE  request' \in [Clients -> S!Request]
    <3>1. [op |-> "login", user |-> u] \in S!Request
      BY DEF S!Request
    <3> QED
      BY <2>2, <2>3, <3>1 DEF S!Login
  <2>4. ASSUME NEW c \in Clients, NEW p \in Passwords, S!StartChange(c, p)
        PROVE  request' \in [Clients -> S!Request]
    <3>1. tokens[cookie[c]].user \in Users
      BY <2>4, CookieType DEF S!StartChange, SessionsInv, RequestsKnown, Cookies
    <3>2. [op |-> "change", user |-> tokens[cookie[c]].user, password |-> p] \in S!Request
      BY <3>1 DEF S!Request
    <3> QED
      BY <2>2, <2>4, <3>2 DEF S!StartChange
  <2>5. ASSUME NEW c \in Clients, S!Change(c)
        PROVE  request' \in [Clients -> S!Request]
    <3>1. request[c].user \in Users
      BY <2>5 DEF S!Change, SessionsInv, RequestsKnown, Known
    <3>2. [op |-> "changed", user |-> request[c].user] \in S!Request
      BY <3>1 DEF S!Request
    <3> QED
      BY <2>2, <2>5, <3>2 DEF S!Change
  <2>6. ASSUME NEW c \in Clients, S!StartLogout(c)
        PROVE  request' \in [Clients -> S!Request]
    <3>0. cookie[c] \in S!Tokens
      BY <2>6 DEF S!StartLogout, SessionsInv, RequestsKnown
    <3>1. cookie[c] \in 1..MaxTokens
      BY <1>b, <3>0
    <3>2. clock \in Int /\ MaxAge \in Int
      BY <1>b DEF S!AgeAssumption
    <3>3. [op |-> "logout", token |-> cookie[c], expires |-> S!RevokedUntil(cookie[c])] \in S!Request
      BY <3>1, <3>2 DEF S!Request, S!RevokedUntil
    <3> QED
      BY <2>1, <2>2, <2>6, <3>3 DEF S!StartLogout
  <2>7. S!NoRequest \in S!Request
    BY DEF S!Request
  <2>8. ASSUME NEW c \in Clients, S!Answer(c) \/ S!Logout(c) \/ S!Lose(c)
        PROVE  request' \in [Clients -> S!Request]
    BY <2>2, <2>7, <2>8 DEF S!Answer, S!Logout, S!Lose
  <2> QED
    BY <2>1, <2>3, <2>4, <2>5, <2>6, <2>8 DEF S!Next, S!vars, S!Copy, S!SetStatus, S!Tick
<1>8. enabled' \subseteq Users
  BY DEF S!SessionsTypeOK, S!Next, S!vars, S!Login, S!StartChange, S!Change, S!Answer,
         S!StartLogout, S!Logout, S!Copy, S!SetStatus, S!Lose, S!Tick
<1>9. loggedOut' \subseteq S!Tokens'
  BY <1>a DEF SessionsInv, LoggedOutListed
<1> QED
  BY <1>1, <1>2, <1>3, <1>4, <1>5, <1>6, <1>7, <1>8, <1>9 DEF S!SessionsTypeOK

\* All that the run checks of the life of a cookie, for any number of users,
\* browsers, cookies and passwords and any lifetime: a logout is final, also
\* after its row was pruned, a refused cookie stays refused, and an accepted
\* one ends for one of the four reasons only.
THEOREM SessionsAreSafe ==
  S!AgeAssumption /\ S!BoundsAssumption => (S!Spec => SessionsLiveOnce)
<1> SUFFICES ASSUME S!AgeAssumption, S!BoundsAssumption PROVE S!Spec => SessionsLiveOnce
  OBVIOUS
<1>1. S!Init => S!SessionsTypeOK
  BY SessionsTypeInit
<1>2. SessionsInv /\ S!SessionsTypeOK /\ [S!Next]_S!vars => S!SessionsTypeOK'
  BY SessionsTypeStep
<1>3. S!Spec => []SessionsInv
  BY SessionsInvariant
<1>4. S!Spec => []S!SessionsTypeOK
  BY <1>1, <1>2, <1>3, PTL DEF S!Spec
<1>5. S!Spec => []S!LoggedOutStaysOut
  BY LogoutIsFinal
<1>6. S!Spec => S!NoRevival /\ S!EndsForAReason
  BY NobodyIsRevived, NoOtherEnd
<1> QED
  BY <1>4, <1>5, <1>6, PTL DEF SessionsLiveOnce

-----------------------------------------------------------------------------
(* The rate limit.                                                         *)

Table == [Scopes -> [R!Times -> Nat]]

\* What was deleted is too old to count for any check that may still decide.
KeptWhileItCounts ==
  \A s \in Scopes, t \in R!Times : t >= now - Keep => events[s][t] = admitted[s][t]

NothingFromTheFuture ==
  /\ \A w \in waiting : w.at <= now
  /\ \A s \in Scopes, t \in R!Times : t > now => admitted[s][t] = 0

RateInv ==
  /\ now \in R!Times
  /\ events \in Table /\ admitted \in Table
  /\ waiting \subseteq R!Check
  /\ refused \in [Scopes -> SUBSET R!Times]
  /\ KeptWhileItCounts
  /\ NothingFromTheFuture
  /\ LimitIsExact

TimesNat == Window \in Nat /\ Keep \in Nat /\ MaxWait \in Nat /\ MaxTime \in Nat

Span(from, to) == {t \in R!Times : from <= t /\ t <= to}

\* The seconds of a window are finitely many.
LEMMA SpanFinite ==
  ASSUME TimesNat, NEW from, NEW to
  PROVE  IsFiniteSet(Span(from, to)) /\ Span(from, to) \subseteq R!Times
<1>1. IsFiniteSet(R!Times)
  BY FS_Interval DEF R!Times, TimesNat
<1> QED
  BY <1>1, FS_Subset DEF Span

\* The COUNT of the code is a sum over the seconds of its window.
LEMMA RowsAreSums ==
  ASSUME NEW f, NEW from, NEW to
  PROVE  R!Rows(f, from, to) = SumFunctionOnSet(f, Span(from, to))
BY DEF R!Rows, Span, SumFunctionOnSet, FoldFunctionOnSet, MapThenFoldSet,
       R!SumFunctionOnSet, R!FoldFunctionOnSet, R!MapThenFoldSet

\* The rows of a span are a number, and no more than those of a longer one.
LEMMA RowsType ==
  ASSUME TimesNat, NEW f \in [R!Times -> Nat], NEW from, NEW to
  PROVE  R!Rows(f, from, to) \in Nat
<1>1. \A t \in Span(from, to) : f[t] \in Nat
  BY SpanFinite
<1> QED
  BY <1>1, SpanFinite, RowsAreSums, SumType

\* A window within another has no more rows.
LEMMA RowsWithin ==
  ASSUME TimesNat, NEW f \in [R!Times -> Nat], NEW from, NEW to, NEW lo, NEW hi,
         Span(from, to) \subseteq Span(lo, hi)
  PROVE  R!Rows(f, from, to) <= R!Rows(f, lo, hi)
<1>1. \A t \in Span(lo, hi) : f[t] \in Nat
  BY SpanFinite
<1> QED
  BY <1>1, SpanFinite, RowsAreSums, SumMonotone

\* What tables agree on, they count alike.
LEMMA RowsAgree ==
  ASSUME TimesNat, NEW f, NEW g, NEW from, NEW to, \A t \in Span(from, to) : f[t] = g[t]
  PROVE  R!Rows(f, from, to) = R!Rows(g, from, to)
<1>1. IsFiniteSet(Span(from, to))
  BY SpanFinite
<1> QED
  BY <1>1, RowsAreSums, SumSame

\* Where there is nothing, nothing is counted.
LEMMA RowsPadded ==
  ASSUME TimesNat, NEW f \in [R!Times -> Nat], NEW from, NEW to, NEW lo, NEW hi,
         Span(from, to) \subseteq Span(lo, hi),
         \A t \in Span(lo, hi) \ Span(from, to) : f[t] = 0
  PROVE  R!Rows(f, lo, hi) = R!Rows(f, from, to)
<1>1. \A t \in Span(lo, hi) : f[t] \in Nat
  BY SpanFinite
<1> QED
  BY <1>1, SpanFinite, RowsAreSums, SumPadded

\* One row more.
LEMMA RowsAdded ==
  ASSUME TimesNat, NEW f \in [R!Times -> Nat], NEW y \in R!Times,
         NEW g \in [R!Times -> Nat], g[y] = f[y] + 1, \A t \in R!Times \ {y} : g[t] = f[t],
         NEW from \in Int, NEW to \in Int
  PROVE  R!Rows(g, from, to) = R!Rows(f, from, to) + (IF y \in Span(from, to) THEN 1 ELSE 0)
<1>2. /\ IsFiniteSet(Span(from, to))
      /\ \A t \in Span(from, to) : f[t] \in Int /\ g[t] \in Int
      /\ \A t \in Span(from, to) \ {y} : f[t] = g[t]
  BY SpanFinite
<1>3. R!Rows(f, from, to) \in Nat /\ R!Rows(g, from, to) \in Nat
  BY RowsType
<1>4. CASE y \in Span(from, to)
  <2>1. SumFunctionOnSet(g, Span(from, to)) = SumFunctionOnSet(f, Span(from, to)) + g[y] - f[y]
    BY <1>2, <1>4, SumChanged
  <2>2. R!Rows(g, from, to) = R!Rows(f, from, to) + g[y] - f[y]
    BY <2>1, RowsAreSums
  <2> QED
    BY <1>3, <1>4, <2>2
<1>5. CASE y \notin Span(from, to)
  <2>1. \A t \in Span(from, to) : f[t] = g[t]
    BY <1>2, <1>5
  <2>2. R!Rows(f, from, to) = R!Rows(g, from, to)
    BY <1>2, <2>1, RowsAreSums, SumSame
  <2> QED
    BY <1>3, <1>5, <2>2
<1> QED
  BY <1>4, <1>5

\* At first no check was made.
LEMMA RateInit == R!LimitAssumption /\ R!TimesAssumption /\ R!Init => RateInv
<1> SUFFICES ASSUME R!LimitAssumption, R!TimesAssumption, R!Init PROVE RateInv
  OBVIOUS
<1>1. TimesNat /\ Limit \in Nat
  BY DEF R!TimesAssumption, R!LimitAssumption, TimesNat
<1>2. now = 0 /\ now \in R!Times
  BY <1>1 DEF R!Init, R!Times, TimesNat
<1>3. /\ admitted \in Table /\ events = admitted
      /\ \A s \in Scopes, t \in R!Times : admitted[s][t] = 0
  BY DEF R!Init, Table
<1>4. \A s \in Scopes, t \in R!Times : R!Rows(admitted[s], t, t + Window) <= Limit
  <2>1. ASSUME NEW s \in Scopes, NEW t \in R!Times
        PROVE  R!Rows(admitted[s], t, t + Window) = 0
    <3>1. IsFiniteSet(Span(t, t + Window)) /\ Span(t, t + Window) \subseteq R!Times
      BY <1>1, SpanFinite
    <3>2. \A x \in Span(t, t + Window) : admitted[s][x] = 0
      BY <1>3, <3>1
    <3> QED
      BY <3>1, <3>2, RowsAreSums, SumOfZeros
  <2> QED
    BY <1>1, <2>1
<1>5. waiting = {} /\ \A s \in Scopes : refused[s] = {}
  BY DEF R!Init
<1>6. refused \in [Scopes -> SUBSET R!Times]
  BY DEF R!Init
<1>7. LimitIsExact
  BY <1>4, <1>5 DEF LimitIsExact, R!WindowBounded, R!RefusedForAReason
<1> QED
  BY <1>2, <1>3, <1>5, <1>6, <1>7 DEF RateInv, KeptWhileItCounts, NothingFromTheFuture

\* What a check that may still decide counts are all that were admitted since.
LEMMA RecentIsTrue ==
  ASSUME R!TimesAssumption, R!KeepAssumption, RateInv, NEW w \in waiting, now - w.at <= MaxWait
  PROVE  /\ R!Recent(w) = R!Rows(admitted[w.scope], w.at - Window, MaxTime)
         /\ R!Recent(w) = R!Rows(admitted[w.scope], w.at - Window, w.at + MaxWait)
<1>1. /\ TimesNat /\ w.scope \in Scopes /\ w.at \in R!Times /\ now \in R!Times
      /\ Window + MaxWait <= Keep /\ w.at <= now
  BY DEF R!TimesAssumption, R!KeepAssumption, TimesNat, RateInv, R!Check, NothingFromTheFuture
<1>2. ASSUME NEW t \in Span(w.at - Window, MaxTime)
      PROVE  events[w.scope][t] = admitted[w.scope][t]
  <2>1. t \in R!Times /\ w.at - Window <= t
    BY DEF Span
  <2>2. t >= now - Keep
    BY <1>1, <2>1 DEF TimesNat, R!Times
  <2> QED
    BY <1>1, <2>1, <2>2 DEF RateInv, KeptWhileItCounts
<1>3. R!Recent(w) = R!Rows(admitted[w.scope], w.at - Window, MaxTime)
  BY <1>1, <1>2, RowsAgree DEF R!Recent
<1>4. admitted[w.scope] \in [R!Times -> Nat]
  BY <1>1 DEF RateInv, Table
<1>5. Span(w.at - Window, w.at + MaxWait) \subseteq Span(w.at - Window, MaxTime)
  BY <1>1 DEF Span, R!Times, TimesNat
<1>6. ASSUME NEW t \in Span(w.at - Window, MaxTime) \ Span(w.at - Window, w.at + MaxWait)
      PROVE  admitted[w.scope][t] = 0
  <2>1. t \in R!Times /\ t > now
    BY <1>1 DEF Span, R!Times, TimesNat
  <2> QED
    BY <1>1, <2>1 DEF RateInv, NothingFromTheFuture
<1>7. R!Rows(admitted[w.scope], w.at - Window, MaxTime)
        = R!Rows(admitted[w.scope], w.at - Window, w.at + MaxWait)
  BY <1>1, <1>4, <1>5, <1>6, RowsPadded
<1> QED
  BY <1>3, <1>7

\* An admission keeps every window within the limit: those that contain its
\* time stamp lie in what it counted.
LEMMA AdmitStep ==
  ASSUME R!LimitAssumption, R!TimesAssumption, R!KeepAssumption, RateInv,
         NEW w \in waiting, now - w.at <= MaxWait, R!Admit(w), now' = now
  PROVE  /\ events' \in Table /\ admitted' \in Table
         /\ KeptWhileItCounts'
         /\ \A s \in Scopes, t \in R!Times : t > now => admitted'[s][t] = 0
         /\ LimitIsExact'
<1>1. /\ TimesNat /\ Limit \in Nat /\ w.scope \in Scopes /\ w.at \in R!Times
      /\ now \in R!Times /\ w.at <= now /\ Window + MaxWait <= Keep
  BY DEF R!LimitAssumption, R!TimesAssumption, R!KeepAssumption, TimesNat, RateInv, R!Check,
         NothingFromTheFuture
<1>2. events \in Table /\ admitted \in Table
  BY DEF RateInv
<1>3. /\ admitted' \in Table
      /\ admitted'[w.scope][w.at] = admitted[w.scope][w.at] + 1
      /\ \A t \in R!Times \ {w.at} : admitted'[w.scope][t] = admitted[w.scope][t]
      /\ \A s \in Scopes \ {w.scope} : admitted'[s] = admitted[s]
  BY <1>1, <1>2 DEF R!Admit, Table
<1>4. PICK inserted \in Table :
        /\ inserted = [events EXCEPT ![w.scope][w.at] = @ + 1]
        /\ events' \in {inserted, R!Pruned(w, inserted)}
  <2> DEFINE inserted == [events EXCEPT ![w.scope][w.at] = @ + 1]
  <2>1. inserted \in Table
    BY <1>1, <1>2 DEF Table
  <2>2. events' \in {inserted, R!Pruned(w, inserted)}
    BY DEF R!Admit
  <2> QED
    BY <2>1, <2>2
<1>5. /\ inserted[w.scope][w.at] = events[w.scope][w.at] + 1
      /\ \A t \in R!Times \ {w.at} : inserted[w.scope][t] = events[w.scope][t]
      /\ \A s \in Scopes \ {w.scope} : inserted[s] = events[s]
  BY <1>1, <1>2, <1>4 DEF Table
<1>6. /\ events' \in Table
      /\ \A s \in Scopes, t \in R!Times : t >= w.at - Keep => events'[s][t] = inserted[s][t]
  <2>1. CASE events' = inserted
    BY <1>4, <2>1
  <2>2. CASE events' = R!Pruned(w, inserted)
    <3>1. \A s \in Scopes, t \in R!Times :
            events'[s][t] = IF t < w.at - Keep THEN 0 ELSE inserted[s][t]
      BY <2>2 DEF R!Pruned
    <3>2. events' = [s \in Scopes |-> [t \in R!Times |-> events'[s][t]]]
      BY <2>2 DEF R!Pruned
    <3>3. \A s \in Scopes, t \in R!Times : events'[s][t] \in Nat
      BY <1>4, <3>1 DEF Table
    <3>4. events' \in Table
      BY <3>2, <3>3 DEF Table
    <3>5. \A t \in R!Times : t >= w.at - Keep => ~(t < w.at - Keep)
      BY <1>1 DEF R!Times, TimesNat
    <3> QED
      BY <3>1, <3>4, <3>5
  <2> QED
    BY <1>4, <2>1, <2>2
<1>7. KeptWhileItCounts'
  <2>1. ASSUME NEW s \in Scopes, NEW t \in R!Times, t >= now - Keep
        PROVE  events'[s][t] = admitted'[s][t]
    <3>1. t >= w.at - Keep
      BY <1>1, <2>1 DEF R!Times, TimesNat
    <3>2. events'[s][t] = inserted[s][t] /\ events[s][t] = admitted[s][t]
      BY <1>6, <2>1, <3>1 DEF RateInv, KeptWhileItCounts
    <3> QED
      BY <1>3, <1>5, <3>2
  <2> QED
    BY <2>1 DEF KeptWhileItCounts
<1>8. \A s \in Scopes, t \in R!Times : t > now => admitted'[s][t] = 0
  <2>1. ASSUME NEW s \in Scopes, NEW t \in R!Times, t > now
        PROVE  admitted'[s][t] = 0
    <3>1. t # w.at /\ admitted[s][t] = 0
      BY <1>1, <2>1 DEF R!Times, RateInv, NothingFromTheFuture
    <3> QED
      BY <1>3, <3>1
  <2> QED
    BY <2>1
<1>9. ASSUME NEW s \in Scopes, NEW from \in Int, NEW to \in Int
      PROVE  /\ R!Rows(admitted[s], from, to) \in Nat
             /\ R!Rows(admitted'[s], from, to) \in Nat
             /\ R!Rows(admitted[s], from, to) <= R!Rows(admitted'[s], from, to)
             /\ R!Rows(admitted'[s], from, to) <= R!Rows(admitted[s], from, to) + 1
             /\ ~(s = w.scope /\ w.at \in Span(from, to)) =>
                  R!Rows(admitted'[s], from, to) = R!Rows(admitted[s], from, to)
  <2>1. admitted[s] \in [R!Times -> Nat] /\ admitted'[s] \in [R!Times -> Nat]
    BY <1>2, <1>3 DEF Table
  <2>2. R!Rows(admitted[s], from, to) \in Nat
    BY <1>1, <2>1, RowsType
  <2>3. CASE s = w.scope
    <3>1. R!Rows(admitted'[s], from, to)
            = R!Rows(admitted[s], from, to) + (IF w.at \in Span(from, to) THEN 1 ELSE 0)
      BY <1>1, <1>3, <2>1, <2>3, RowsAdded
    <3>2. CASE w.at \in Span(from, to)
      <4>1. R!Rows(admitted'[s], from, to) = R!Rows(admitted[s], from, to) + 1
        BY <3>1, <3>2
      <4> QED
        BY <2>2, <2>3, <3>2, <4>1
    <3>3. CASE w.at \notin Span(from, to)
      BY <2>2, <3>1, <3>3
    <3> QED
      BY <3>2, <3>3
  <2>4. CASE s # w.scope
    BY <1>3, <2>2, <2>4
  <2> QED
    BY <2>3, <2>4
<1>10. R!WindowBounded'
  <2>1. ASSUME NEW s \in Scopes, NEW t \in R!Times
        PROVE  R!Rows(admitted'[s], t, t + Window) <= Limit
    <3>0. t \in Int /\ t + Window \in Int
      BY <1>1 DEF R!Times, TimesNat
    <3>1. R!Rows(admitted[s], t, t + Window) <= Limit
      BY DEF RateInv, LimitIsExact, R!WindowBounded
    <3>2. CASE ~(s = w.scope /\ w.at \in Span(t, t + Window))
      BY <1>9, <3>0, <3>1, <3>2
    <3>3. CASE s = w.scope /\ w.at \in Span(t, t + Window)
      <4>1. Span(t, t + Window) \subseteq Span(w.at - Window, MaxTime)
        BY <1>1, <3>0, <3>3 DEF Span, R!Times, TimesNat
      <4>2. admitted[s] \in [R!Times -> Nat]
        BY <1>2 DEF Table
      <4>3. R!Rows(admitted[s], t, t + Window) <= R!Rows(admitted[s], w.at - Window, MaxTime)
        BY <1>1, <4>1, <4>2, RowsWithin
      <4>4. R!Rows(admitted[s], w.at - Window, MaxTime) \in Nat
        BY <1>1, <4>2, RowsType
      <4>5. ~(R!Rows(admitted[s], w.at - Window, MaxTime) >= Limit)
        BY <3>3, RecentIsTrue DEF R!Admit, R!Full
      <4>6. /\ R!Rows(admitted[s], t, t + Window) \in Nat
            /\ R!Rows(admitted'[s], t, t + Window) \in Nat
            /\ R!Rows(admitted'[s], t, t + Window) <= R!Rows(admitted[s], t, t + Window) + 1
        BY <1>9, <3>0
      <4> QED
        BY <1>1, <4>3, <4>4, <4>5, <4>6
    <3> QED
      BY <3>2, <3>3
  <2> QED
    BY <2>1 DEF R!WindowBounded
<1>11. R!RefusedForAReason'
  <2>1. ASSUME NEW s \in Scopes, NEW t \in refused'[s]
        PROVE  R!Rows(admitted'[s], t - Window, t + MaxWait) >= Limit
    <3>1. t \in refused[s] /\ t \in R!Times
      BY <2>1 DEF R!Admit, RateInv
    <3>2. R!Rows(admitted[s], t - Window, t + MaxWait) >= Limit
      BY <3>1 DEF RateInv, LimitIsExact, R!RefusedForAReason
    <3>3. t - Window \in Int /\ t + MaxWait \in Int
      BY <1>1, <3>1 DEF R!Times, TimesNat
    <3>4. /\ R!Rows(admitted[s], t - Window, t + MaxWait) \in Nat
          /\ R!Rows(admitted'[s], t - Window, t + MaxWait) \in Nat
          /\ R!Rows(admitted[s], t - Window, t + MaxWait)
               <= R!Rows(admitted'[s], t - Window, t + MaxWait)
      BY <1>9, <3>3
    <3> QED
      BY <1>1, <3>2, <3>4
  <2> QED
    BY <2>1 DEF R!RefusedForAReason
<1> QED
  BY <1>3, <1>6, <1>7, <1>8, <1>10, <1>11 DEF LimitIsExact

\* Every step of a check, and the clock, keeps the window exact.
LEMMA RateStep ==
  ASSUME R!LimitAssumption, R!TimesAssumption, R!KeepAssumption, RateInv, [R!Next]_R!vars
  PROVE  RateInv'
<1>1. TimesNat /\ Limit \in Nat
  BY DEF R!TimesAssumption, R!LimitAssumption, TimesNat
<1>2. /\ now \in R!Times /\ events \in Table /\ admitted \in Table
      /\ waiting \subseteq R!Check /\ refused \in [Scopes -> SUBSET R!Times]
      /\ KeptWhileItCounts /\ LimitIsExact
      /\ \A w \in waiting : w.at <= now
      /\ \A s \in Scopes, t \in R!Times : t > now => admitted[s][t] = 0
  BY DEF RateInv, NothingFromTheFuture
<1>3. ASSUME UNCHANGED <<now, events, admitted, refused>>, waiting' \subseteq R!Check,
             \A w \in waiting' : w.at <= now
      PROVE  RateInv'
  BY <1>2, <1>3
     DEF RateInv, NothingFromTheFuture, KeptWhileItCounts, LimitIsExact, R!WindowBounded,
         R!RefusedForAReason
<1>4. ASSUME NEW c \in Clients, NEW s \in Scopes, R!Arrive(c, s) PROVE RateInv'
  <2>1. [client |-> c, scope |-> s, at |-> now] \in R!Check /\ now <= now
    BY <1>2 DEF R!Check, R!Times
  <2> QED
    BY <1>2, <1>3, <1>4, <2>1 DEF R!Arrive
<1>5. ASSUME NEW w \in waiting, R!GiveUp(w) PROVE RateInv'
  BY <1>2, <1>3, <1>5 DEF R!GiveUp
<1>6. CASE R!Tick
  <2>1. /\ now' = now + 1 /\ now' \in R!Times /\ now \in Int
        /\ UNCHANGED <<events, waiting, admitted, refused>>
    BY <1>1, <1>2, <1>6 DEF R!Tick, R!Times, TimesNat
  <2>2. KeptWhileItCounts'
    <3>1. ASSUME NEW t \in R!Times, t >= now' - Keep PROVE t >= now - Keep
      BY <1>1, <2>1, <3>1 DEF R!Times, TimesNat
    <3> QED
      BY <1>2, <2>1, <3>1 DEF KeptWhileItCounts
  <2>3. \A t \in R!Times : t > now' => t > now
    BY <2>1 DEF R!Times
  <2>4. \A w \in waiting' : w.at <= now'
    BY <1>2, <2>1 DEF R!Check, R!Times
  <2>5. LimitIsExact'
    BY <1>2, <2>1 DEF LimitIsExact, R!WindowBounded, R!RefusedForAReason
  <2> QED
    BY <1>2, <2>1, <2>2, <2>3, <2>4, <2>5 DEF RateInv, NothingFromTheFuture
<1>7. ASSUME NEW w \in waiting, R!Decide(w) PROVE RateInv'
  <2>1. /\ now' = now /\ now - w.at <= MaxWait /\ waiting' \subseteq waiting
        /\ w.scope \in Scopes /\ w.at \in R!Times
    BY <1>2, <1>7 DEF R!Decide, R!Check
  <2>2. waiting' \subseteq R!Check /\ now' \in R!Times /\ \A x \in waiting' : x.at <= now'
    BY <1>2, <2>1
  <2>3. CASE R!Admit(w)
    <3>1. /\ events' \in Table /\ admitted' \in Table /\ KeptWhileItCounts'
          /\ \A s \in Scopes, t \in R!Times : t > now => admitted'[s][t] = 0
          /\ LimitIsExact'
      BY <2>1, <2>3, AdmitStep
    <3>2. refused' \in [Scopes -> SUBSET R!Times]
      BY <1>2, <2>3 DEF R!Admit
    <3> QED
      BY <2>1, <2>2, <3>1, <3>2 DEF RateInv, NothingFromTheFuture
  <2>4. CASE R!Refuse(w)
    <3>1. /\ UNCHANGED <<events, admitted>>
          /\ refused' = [refused EXCEPT ![w.scope] = @ \cup {w.at}]
      BY <2>4 DEF R!Refuse
    <3>2. refused' \in [Scopes -> SUBSET R!Times]
      BY <1>2, <2>1, <3>1
    <3>3. R!Rows(admitted[w.scope], w.at - Window, w.at + MaxWait) >= Limit
      BY <2>1, <2>4, RecentIsTrue DEF R!Refuse, R!Full
    <3>4. ASSUME NEW s \in Scopes, NEW t \in refused'[s]
          PROVE  t \in refused[s] \/ (s = w.scope /\ t = w.at)
      BY <1>2, <2>1, <3>1, <3>4
    <3>5. LimitIsExact'
      BY <1>2, <3>1, <3>3, <3>4 DEF LimitIsExact, R!WindowBounded, R!RefusedForAReason
    <3>6. KeptWhileItCounts'
      BY <1>2, <2>1, <3>1 DEF KeptWhileItCounts
    <3> QED
      BY <1>2, <2>1, <2>2, <3>1, <3>2, <3>5, <3>6 DEF RateInv, NothingFromTheFuture
  <2> QED
    BY <1>7, <2>3, <2>4 DEF R!Decide
<1>8. CASE UNCHANGED R!vars
  BY <1>2, <1>3, <1>8 DEF R!vars
<1> QED
  BY <1>4, <1>5, <1>6, <1>7, <1>8 DEF R!Next

\* The sliding window is exact, whatever the limit and however checks that
\* wait for the lock overtake each other: no window of Window seconds admits
\* more than Limit, and a refused check has that many in its window or among
\* those that overtook it.  It takes that rows are kept for as long as a
\* check may wait and still count them (service.py check_rate_limit).
THEOREM RateIsExact ==
  R!LimitAssumption /\ R!TimesAssumption /\ R!KeepAssumption => (R!Spec => []LimitIsExact)
<1> SUFFICES ASSUME R!LimitAssumption, R!TimesAssumption, R!KeepAssumption
             PROVE  R!Spec => []LimitIsExact
  OBVIOUS
<1>1. R!Init => RateInv
  BY RateInit
<1>2. RateInv /\ [R!Next]_R!vars => RateInv'
  BY RateStep
<1>3. RateInv => LimitIsExact
  BY DEF RateInv
<1> QED
  BY <1>1, <1>2, <1>3, PTL DEF R!Spec

-----------------------------------------------------------------------------
(* The accounts.                                                           *)

Before == {"start", "precheck", "draw", "check", "insert"}

\* Handler h has opened one account, the one it is about.
Opened(h) ==
  A!OpenedBy(h) = {handler[h].id} /\ account[handler[h].id].email = handler[h].email
HasKey(h) == account[handler[h].id].keys = 1 \/ handler[h].kind = "admin"

\* What a handler has done when it is done.
Finished(h) ==
  \/ /\ handler[h].answer = "created"
     /\ Opened(h) /\ HasKey(h) /\ account[handler[h].id].credits = Starter
  \/ /\ handler[h].answer = "email_taken"
     /\ A!OpenedBy(h) = {} /\ A!EmailKnown(handler[h].email)
  \/ /\ handler[h].answer \in {"user_exists", "register_collision"}
     /\ A!OpenedBy(h) = {} /\ handler[h].id \in Ids /\ A!Exists(handler[h].id)
  \/ /\ handler[h].answer = "error"
     /\ A!OpenedBy(h) \subseteq {handler[h].id}

\* What it has done at each step.
Works(h) ==
  /\ handler[h].pc # "done" => handler[h].answer = A!None
  /\ handler[h].pc \in Before => A!OpenedBy(h) = {}
  /\ handler[h].pc \in {"start", "precheck", "draw"} => handler[h].tries < Attempts
  /\ handler[h].pc \in {"check", "insert"} => handler[h].id \in Ids
  /\ handler[h].pc \in {"key", "grant"} => Opened(h) /\ account[handler[h].id].credits = 0
  /\ handler[h].pc = "key" => account[handler[h].id].keys = 0
  /\ handler[h].pc = "grant" => HasKey(h)
  /\ handler[h].pc = "done" => Finished(h)

AccountsOwned == \A id \in Ids : account[id] = A!NoAccount \/ account[id].by \in Handlers

\* The accounts that a failure left half open.
LeftBehind == {id \in A!HalfOpen : A!Answered(account[id].by, "error")}

AccountsInv ==
  /\ A!AccountsTypeOK
  /\ \A h \in Handlers : Works(h)
  /\ AccountsOwned
  /\ A!OneAccountPerEmail
  /\ IsFiniteSet(LeftBehind) /\ Cardinality(LeftBehind) <= faults

\* At first there are no accounts and no handler has begun.
LEMMA AccountsInit ==
  A!AttemptsAssumption /\ A!BoundsAssumption /\ A!SentinelsAssumption /\ A!Init => AccountsInv
<1> SUFFICES ASSUME A!AttemptsAssumption, A!BoundsAssumption, A!SentinelsAssumption, A!Init
             PROVE  AccountsInv
  OBVIOUS
<1>1. A!AccountsTypeOK
  BY DEF A!Init, A!AccountsTypeOK, A!NoAccount, A!None, A!Handler, A!Kinds,
         A!AttemptsAssumption, A!BoundsAssumption
<1>2. \A id \in Ids : account[id] = A!NoAccount
  BY DEF A!Init
<1>3. AccountsOwned /\ A!OneAccountPerEmail /\ LeftBehind = {}
  BY <1>2 DEF AccountsOwned, A!OneAccountPerEmail, LeftBehind, A!HalfOpen, A!Exists, A!NoAccount
<1>4. ASSUME NEW h \in Handlers PROVE Works(h)
  <2>1. handler[h].pc = "start" /\ handler[h].answer = A!None /\ handler[h].tries = 0
    BY DEF A!Init
  <2>2. A!OpenedBy(h) = {}
    BY <1>2 DEF A!OpenedBy, A!NoAccount, A!SentinelsAssumption
  <2> QED
    BY <2>1, <2>2 DEF Works, A!AttemptsAssumption
<1>5. IsFiniteSet({}) /\ Cardinality({}) = 0 /\ faults = 0
  BY FS_EmptySet DEF A!Init
<1> QED
  BY <1>1, <1>3, <1>4, <1>5 DEF AccountsInv

\* A handler changes its own record, and rows that are nobody's or its own.
Frame(h) ==
  /\ \A g \in Handlers \ {h} : handler'[g] = handler[g]
  /\ \A id \in Ids :
       /\ account'[id] = account[id] \/ (account'[id].by = h /\ account[id].by \in {A!None, h})
       /\ A!Exists(id) => A!Exists(id)' /\ account'[id].email = account[id].email

\* A step of one handler leaves what the others know true.
LEMMA OthersKeep ==
  ASSUME A!SentinelsAssumption, NEW h \in Handlers, Frame(h), NEW g \in Handlers, g # h, Works(g)
  PROVE  Works(g)'
<1>1. handler'[g] = handler[g] /\ g # A!None
  BY DEF Frame, A!SentinelsAssumption
<1>2. A!OpenedBy(g)' = A!OpenedBy(g) /\ \A id \in A!OpenedBy(g) : account'[id] = account[id]
  BY <1>1 DEF Frame, A!OpenedBy
<1>3. ASSUME NEW e, A!EmailKnown(e) PROVE A!EmailKnown(e)'
  BY <1>3 DEF A!EmailKnown, Frame
<1>4. Opened(g) => Opened(g)' /\ account'[handler[g].id] = account[handler[g].id]
  BY <1>1, <1>2 DEF Opened
<1>5. /\ Opened(g) /\ HasKey(g) => HasKey(g)'
      /\ A!EmailKnown(handler[g].email) => A!EmailKnown(handler[g].email)'
  BY <1>1, <1>3, <1>4 DEF HasKey
<1>6. handler[g].id \in Ids /\ A!Exists(handler[g].id) => A!Exists(handler[g].id)'
  BY <1>1 DEF Frame, A!Exists
<1>8. Finished(g) => Finished(g)'
  BY <1>1, <1>2, <1>4, <1>5, <1>6 DEF Finished
<1> QED
  BY <1>1, <1>2, <1>4, <1>5, <1>8 DEF Works

\* What is to be shown of a step is about the handler that takes it.
LEMMA AccountsKeep ==
  ASSUME A!SentinelsAssumption, AccountsInv, NEW h \in Handlers, Frame(h),
         A!AccountsTypeOK', Works(h)', AccountsOwned', A!OneAccountPerEmail',
         \/ faults' = faults /\ (handler'[h].answer = "error" => A!OpenedBy(h)' = {})
         \/ faults' = faults + 1 /\ A!OpenedBy(h)' \subseteq {handler'[h].id}
  PROVE  AccountsInv'
<1>1. \A g \in Handlers : Works(g)'
  BY OthersKeep DEF AccountsInv
<1>2. LeftBehind' \subseteq LeftBehind \cup A!OpenedBy(h)'
  <2>1. ASSUME NEW id \in LeftBehind', id \notin A!OpenedBy(h)'
        PROVE  id \in LeftBehind
    <3>1. /\ id \in Ids /\ account'[id] # A!NoAccount /\ account'[id].credits < Starter
          /\ handler'[account'[id].by].answer = "error"
      BY <2>1 DEF LeftBehind, A!HalfOpen, A!Answered, A!Exists
    <3>2. account'[id].by # h /\ account'[id].by \in Handlers
      BY <2>1, <3>1 DEF A!OpenedBy, AccountsOwned
    <3>3. account'[id] = account[id] /\ handler'[account[id].by] = handler[account[id].by]
      BY <3>1, <3>2 DEF Frame
    <3> QED
      BY <3>1, <3>3 DEF LeftBehind, A!HalfOpen, A!Answered, A!Exists
  <2> QED
    BY <2>1
<1>3. IsFiniteSet(LeftBehind) /\ Cardinality(LeftBehind) \in Nat /\ Cardinality(LeftBehind) <= faults
      /\ faults \in Nat
  BY FS_CardinalityType DEF AccountsInv, A!AccountsTypeOK
<1>4. ASSUME handler'[h].answer # "error" PROVE LeftBehind' \subseteq LeftBehind
  BY <1>2, <1>4 DEF LeftBehind, A!OpenedBy, A!Answered
<1>5. CASE faults' = faults /\ (handler'[h].answer = "error" => A!OpenedBy(h)' = {})
  <2>1. LeftBehind' \subseteq LeftBehind
    BY <1>2, <1>4, <1>5
  <2>2. IsFiniteSet(LeftBehind') /\ Cardinality(LeftBehind') <= Cardinality(LeftBehind)
        /\ Cardinality(LeftBehind') \in Nat
    BY <1>3, <2>1, FS_Subset, FS_CardinalityType
  <2>3. Cardinality(LeftBehind') <= faults'
    BY <1>3, <1>5, <2>2
  <2> QED
    BY <1>1, <2>2, <2>3 DEF AccountsInv
<1>6. CASE faults' = faults + 1 /\ A!OpenedBy(h)' \subseteq {handler'[h].id}
  <2> DEFINE More == LeftBehind \cup {handler'[h].id}
  <2>1. LeftBehind' \subseteq More
    BY <1>2, <1>6
  <2>2. IsFiniteSet(More) /\ Cardinality(More) <= Cardinality(LeftBehind) + 1
        /\ Cardinality(More) \in Nat
    <3>1. IsFiniteSet(More) /\ Cardinality(More) \in {Cardinality(LeftBehind), Cardinality(LeftBehind) + 1}
      BY <1>3, FS_AddElement
    <3> HIDE DEF More
    <3> QED
      BY <1>3, <3>1
  <2> HIDE DEF More
  <2>3. IsFiniteSet(LeftBehind') /\ Cardinality(LeftBehind') <= Cardinality(More)
        /\ Cardinality(LeftBehind') \in Nat
    BY <2>1, <2>2, FS_Subset, FS_CardinalityType
  <2>4. Cardinality(LeftBehind') <= faults'
    BY <1>3, <1>6, <2>2, <2>3
  <2> QED
    BY <1>1, <2>3, <2>4 DEF AccountsInv
<1> QED
  BY <1>5, <1>6

\* A handler that leaves the accounts alone.
LEMMA OnlyHandler ==
  ASSUME A!BoundsAssumption, A!SentinelsAssumption, AccountsInv, NEW h \in Handlers, account' = account,
         NEW w \in A!Handler, handler' = [handler EXCEPT ![h] = w], Works(h)',
         \/ faults' = faults /\ (w.answer = "error" => A!OpenedBy(h) = {})
         \/ faults' = faults + 1 /\ faults < MaxFaults /\ A!OpenedBy(h) \subseteq {w.id}
  PROVE  AccountsInv'
<1>1. A!AccountsTypeOK
  BY DEF AccountsInv
<1>2. handler \in [Handlers -> A!Handler] /\ handler'[h] = w
  BY <1>1 DEF A!AccountsTypeOK
<1>3. Frame(h)
  BY <1>2 DEF Frame, A!Exists
<1>4. faults' \in 0..MaxFaults
  <2>1. faults \in 0..MaxFaults /\ MaxFaults \in Nat
    BY <1>1 DEF A!AccountsTypeOK, A!BoundsAssumption
  <2> QED
    BY <2>1
<1>5. A!AccountsTypeOK'
  BY <1>1, <1>2, <1>4 DEF A!AccountsTypeOK
<1>6. AccountsOwned' /\ A!OneAccountPerEmail'
  BY DEF AccountsInv, AccountsOwned, A!OneAccountPerEmail
<1>7. A!OpenedBy(h)' = A!OpenedBy(h)
  BY DEF A!OpenedBy
<1> QED
  BY <1>2, <1>3, <1>5, <1>6, <1>7, AccountsKeep

\* One case per step of a handler.
LEMMA HandlerStep ==
  ASSUME A!AttemptsAssumption, A!BoundsAssumption, A!SentinelsAssumption, AccountsInv,
         NEW h \in Handlers, A!Start(h) \/ A!Step(h) \/ A!Fault(h)
  PROVE  AccountsInv'
<1> DEFINE w == handler[h]
<1>1. /\ w \in A!Handler /\ handler \in [Handlers -> A!Handler] /\ Works(h)
      /\ \A id \in Ids : account[id] \in [email: Emails \cup {A!None}, keys: 0..1,
                                          credits: {0, Starter}, by: Handlers \cup {A!None}]
      /\ account \in [Ids -> [email: Emails \cup {A!None}, keys: 0..1,
                              credits: {0, Starter}, by: Handlers \cup {A!None}]]
      /\ Attempts \in Nat \ {0} /\ h # A!None
  BY DEF AccountsInv, A!AccountsTypeOK, A!AttemptsAssumption, A!SentinelsAssumption
<1>2. /\ w.tries \in 0..Attempts /\ w.kind \in A!Kinds \cup {A!None}
      /\ w.email \in Emails \cup {A!None} /\ w.id \in Ids \cup {A!None}
  BY <1>1 DEF A!Handler
<1> HIDE DEF w
<1>3. ASSUME account' = account, faults' = faults, NEW v \in A!Handler,
             handler' = [handler EXCEPT ![h] = v],
             v.answer = A!None, v.pc \in Before, A!OpenedBy(h) = {},
             v.pc \in {"start", "precheck", "draw"} => v.tries < Attempts,
             v.pc \in {"check", "insert"} => v.id \in Ids
      PROVE  AccountsInv'
  <2>1. handler'[h] = v
    BY <1>1, <1>3
  <2>2. A!OpenedBy(h)' = {}
    BY <1>3 DEF A!OpenedBy
  <2>3. Works(h)'
    BY <1>3, <2>1, <2>2 DEF Works, Before
  <2>4. v.answer # "error"
    BY <1>3 DEF A!None
  <2> QED
    BY <1>3, <2>3, <2>4, OnlyHandler
<1>4. ASSUME account' = account, faults' = faults, NEW v \in A!Handler,
             handler' = [handler EXCEPT ![h] = v],
             v.pc = "done", A!OpenedBy(h) = {},
             \/ v.answer = "email_taken" /\ A!EmailKnown(v.email)
             \/ v.answer \in {"user_exists", "register_collision"} /\ v.id \in Ids /\ A!Exists(v.id)
             \/ v.answer = "error"
      PROVE  AccountsInv'
  <2>1. handler'[h] = v
    BY <1>1, <1>4
  <2>2. A!OpenedBy(h)' = {} /\ \A e : A!EmailKnown(e)' <=> A!EmailKnown(e)
    BY <1>4 DEF A!OpenedBy, A!EmailKnown, A!Exists
  <2>3. Finished(h)'
    BY <1>4, <2>1, <2>2 DEF Finished, A!Exists
  <2>4. Works(h)'
    BY <1>4, <2>1, <2>3 DEF Works, Before
  <2> QED
    BY <1>4, <2>4, OnlyHandler
<1>5. ASSUME A!Start(h) PROVE AccountsInv'
  <2>1. w.pc = "start" /\ A!OpenedBy(h) = {} /\ w.answer = A!None /\ w.tries < Attempts
    BY <1>1, <1>5 DEF A!Start, A!StartPortal, A!StartCurl, A!StartAdmin, A!At, Works, Before, w
  <2>2. ASSUME NEW email \in Emails, A!StartPortal(h, email) PROVE AccountsInv'
    <3> DEFINE v == [w EXCEPT !.pc = "precheck", !.kind = "portal", !.email = email]
    <3>1. v \in A!Handler /\ v.pc = "precheck" /\ v.answer = A!None /\ v.tries < Attempts
      BY <1>1, <2>1 DEF A!Handler, A!Kinds
    <3>2. handler' = [handler EXCEPT ![h] = v] /\ UNCHANGED <<account, faults>>
      BY <1>1, <2>2 DEF A!StartPortal, w
    <3> HIDE DEF v
    <3> QED
      BY <1>3, <2>1, <3>1, <3>2 DEF Before
  <2>3. ASSUME A!StartCurl(h) PROVE AccountsInv'
    <3> DEFINE v == [w EXCEPT !.pc = "draw", !.kind = "curl"]
    <3>1. v \in A!Handler /\ v.pc = "draw" /\ v.answer = A!None /\ v.tries < Attempts
      BY <1>1, <2>1 DEF A!Handler, A!Kinds
    <3>2. handler' = [handler EXCEPT ![h] = v] /\ UNCHANGED <<account, faults>>
      BY <1>1, <2>3 DEF A!StartCurl, w
    <3> HIDE DEF v
    <3> QED
      BY <1>3, <2>1, <3>1, <3>2 DEF Before
  <2>4. ASSUME NEW id \in Ids, A!StartAdmin(h, id) PROVE AccountsInv'
    <3> DEFINE v == [w EXCEPT !.pc = "check", !.kind = "admin", !.id = id]
    <3>1. v \in A!Handler /\ v.pc = "check" /\ v.answer = A!None /\ v.id \in Ids
      BY <1>1, <2>1 DEF A!Handler, A!Kinds
    <3>2. handler' = [handler EXCEPT ![h] = v] /\ UNCHANGED <<account, faults>>
      BY <1>1, <2>4 DEF A!StartAdmin, w
    <3> HIDE DEF v
    <3> QED
      BY <1>3, <2>1, <3>1, <3>2 DEF Before
  <2> QED
    BY <1>5, <2>2, <2>3, <2>4 DEF A!Start
<1>6. \* The record after a reply, and after a step to another label.
      /\ \A answer \in {"created", "email_taken", "user_exists", "register_collision", "error"} :
           A!Reply(h, answer) =>
             \E v \in A!Handler : /\ handler' = [handler EXCEPT ![h] = v]
                                  /\ v.pc = "done" /\ v.answer = answer
                                  /\ v.email = w.email /\ v.id = w.id /\ v.kind = w.kind
      /\ \A pc \in {"draw", "insert", "key", "grant"} :
           A!Goto(h, pc) =>
             \E v \in A!Handler : /\ handler' = [handler EXCEPT ![h] = v]
                                  /\ v.pc = pc /\ v.answer = w.answer /\ v.tries = w.tries
                                  /\ v.email = w.email /\ v.id = w.id /\ v.kind = w.kind
  <2>1. ASSUME NEW answer \in {"created", "email_taken", "user_exists", "register_collision", "error"},
               A!Reply(h, answer)
        PROVE  \E v \in A!Handler : /\ handler' = [handler EXCEPT ![h] = v]
                                    /\ v.pc = "done" /\ v.answer = answer
                                    /\ v.email = w.email /\ v.id = w.id /\ v.kind = w.kind
    <3> DEFINE v == [w EXCEPT !.pc = "done", !.answer = answer]
    <3>1. /\ v \in A!Handler /\ v.pc = "done" /\ v.answer = answer
          /\ v.email = w.email /\ v.id = w.id /\ v.kind = w.kind
      BY <1>1 DEF A!Handler
    <3>2. handler' = [handler EXCEPT ![h] = v]
      BY <1>1, <2>1 DEF A!Reply, w
    <3> QED
      BY <3>1, <3>2
  <2>2. ASSUME NEW pc \in {"draw", "insert", "key", "grant"}, A!Goto(h, pc)
        PROVE  \E v \in A!Handler : /\ handler' = [handler EXCEPT ![h] = v]
                                    /\ v.pc = pc /\ v.answer = w.answer /\ v.tries = w.tries
                                    /\ v.email = w.email /\ v.id = w.id /\ v.kind = w.kind
    <3> DEFINE v == [w EXCEPT !.pc = pc]
    <3>1. /\ v \in A!Handler /\ v.pc = pc /\ v.answer = w.answer /\ v.tries = w.tries
          /\ v.email = w.email /\ v.id = w.id /\ v.kind = w.kind
      BY <1>1 DEF A!Handler
    <3>2. handler' = [handler EXCEPT ![h] = v]
      BY <1>1, <2>2 DEF A!Goto, w
    <3> QED
      BY <3>1, <3>2
  <2> QED
    BY <2>1, <2>2
<1>7. CASE A!PreCheck(h)
  <2>1. /\ w.pc = "precheck" /\ A!OpenedBy(h) = {} /\ w.answer = A!None /\ w.tries < Attempts
        /\ UNCHANGED <<account, faults>>
    BY <1>1, <1>7 DEF A!PreCheck, A!At, Works, Before, w
  <2>2. CASE A!EmailKnown(w.email) /\ A!Reply(h, "email_taken")
    BY <1>4, <1>6, <2>1, <2>2
  <2>3. CASE A!Goto(h, "draw")
    BY <1>3, <1>6, <2>1, <2>3 DEF Before
  <2> QED
    BY <1>7, <2>2, <2>3 DEF A!PreCheck, w
<1>8. ASSUME NEW id \in Ids, A!Draw(h, id) PROVE AccountsInv'
  <2>1. /\ w.pc = "draw" /\ A!OpenedBy(h) = {} /\ w.answer = A!None /\ w.tries < Attempts
        /\ UNCHANGED <<account, faults>>
    BY <1>1, <1>8 DEF A!Draw, A!At, Works, Before, w
  <2> DEFINE v == [w EXCEPT !.pc = "check", !.id = id, !.tries = @ + 1]
  <2>2. w.tries + 1 \in 0..Attempts
    BY <1>1, <1>2, <2>1
  <2>3. v \in A!Handler /\ v.pc = "check" /\ v.answer = A!None /\ v.id \in Ids
    BY <1>1, <2>1, <2>2 DEF A!Handler
  <2>4. handler' = [handler EXCEPT ![h] = v]
    BY <1>1, <1>8 DEF A!Draw, w
  <2> HIDE DEF v
  <2> QED
    BY <1>3, <2>1, <2>3, <2>4 DEF Before
<1>9. CASE A!CheckId(h)
  <2>1. /\ w.pc = "check" /\ A!OpenedBy(h) = {} /\ w.answer = A!None /\ w.id \in Ids
        /\ UNCHANGED <<account, faults>>
    BY <1>1, <1>9 DEF A!CheckId, A!At, Works, Before, w
  <2>2. CASE A!Goto(h, "insert")
    BY <1>3, <1>6, <2>1, <2>2 DEF Before
  <2>3. CASE w.tries < Attempts /\ A!Goto(h, "draw")
    BY <1>3, <1>6, <2>1, <2>3 DEF Before
  <2>4. ASSUME NEW answer \in {"user_exists", "register_collision"},
               A!Exists(w.id), A!Reply(h, answer)
        PROVE  AccountsInv'
    BY <1>4, <1>6, <2>1, <2>4
  <2> QED
    BY <1>9, <2>2, <2>3, <2>4 DEF A!CheckId, A!Collided, w
<1>10. CASE A!Insert(h)
  <2>1. /\ w.pc = "insert" /\ A!OpenedBy(h) = {} /\ w.answer = A!None /\ w.id \in Ids
        /\ faults' = faults
    BY <1>1, <1>10 DEF A!Insert, A!At, Works, Before, w
  <2>2. CASE A!EmailClash(h) /\ A!Reply(h, "email_taken") /\ UNCHANGED account
    BY <1>4, <1>6, <2>1, <2>2 DEF A!EmailClash, w
  <2>3. CASE A!IdClash(h) /\ A!Reply(h, "error") /\ UNCHANGED account
    BY <1>4, <1>6, <2>1, <2>3
  <2>4. CASE /\ ~A!EmailClash(h) /\ ~A!IdClash(h)
             /\ account' = [account EXCEPT ![handler[h].id] =
                              [A!NoAccount EXCEPT !.email = handler[h].email, !.by = h]]
             /\ A!Goto(h, "key")
    <3> DEFINE new == [A!NoAccount EXCEPT !.email = w.email, !.by = h]
    <3>1. /\ new.email = w.email /\ new.by = h /\ new.keys = 0 /\ new.credits = 0
          /\ new \in [email: Emails \cup {A!None}, keys: 0..1,
                      credits: {0, Starter}, by: Handlers \cup {A!None}]
      <4>1. /\ A!NoAccount \in [email: Emails \cup {A!None}, keys: 0..1,
                                credits: {0, Starter}, by: Handlers \cup {A!None}]
            /\ A!NoAccount.keys = 0 /\ A!NoAccount.credits = 0
        BY DEF A!NoAccount
      <4> QED
        BY <1>2, <4>1
    <3>2. PICK v \in A!Handler :
            /\ handler' = [handler EXCEPT ![h] = v]
            /\ v.pc = "key" /\ v.answer = A!None /\ v.email = w.email /\ v.id = w.id
      BY <1>6, <2>1, <2>4
    <3>3. account' = [account EXCEPT ![w.id] = new]
      BY <2>4 DEF w
    <3> HIDE DEF new
    <3>4. account'[w.id] = new /\ \A id \in Ids \ {w.id} : account'[id] = account[id]
      BY <1>1, <2>1, <3>3
    <3>5. account[w.id] = A!NoAccount
      BY <2>1, <2>4 DEF A!IdClash, A!Exists, w
    <3>6. handler'[h] = v
      BY <1>1, <3>2
    <3>7. A!AccountsTypeOK'
      <4>1. account' \in [Ids -> [email: Emails \cup {A!None}, keys: 0..1,
                                  credits: {0, Starter}, by: Handlers \cup {A!None}]]
        BY <1>1, <2>1, <3>1, <3>3
      <4>2. handler' \in [Handlers -> A!Handler]
        BY <1>1, <3>2
      <4> QED
        BY <2>1, <4>1, <4>2 DEF AccountsInv, A!AccountsTypeOK
    <3>8. Frame(h)
      BY <1>1, <3>1, <3>2, <3>4, <3>5 DEF Frame, A!Exists, A!NoAccount
    <3>9. A!OpenedBy(h)' = {w.id}
      BY <2>1, <3>1, <3>4 DEF A!OpenedBy
    <3>10. Works(h)'
      BY <3>1, <3>2, <3>4, <3>6, <3>9 DEF Works, Opened, Before
    <3>11. AccountsOwned'
      BY <3>1, <3>4 DEF AccountsInv, AccountsOwned
    <3>12. A!OneAccountPerEmail'
      <4>1. ASSUME NEW i \in Ids \ {w.id}, account[i].email = w.email PROVE w.email = A!None
        <5>1. account[i] # A!NoAccount \/ w.email = A!None
          BY <4>1 DEF A!NoAccount
        <5> QED
          BY <2>4, <4>1, <5>1 DEF A!EmailClash, A!EmailKnown, A!Exists, w
      <4> QED
        BY <3>1, <3>4, <4>1 DEF AccountsInv, A!OneAccountPerEmail
    <3>13. handler'[h].answer # "error"
      BY <3>2, <3>6 DEF A!None
    <3> QED
      BY <2>1, <3>7, <3>8, <3>10, <3>11, <3>12, <3>13, AccountsKeep
  <2> QED
    BY <1>10, <2>2, <2>3, <2>4 DEF A!Insert
<1>11. \* A handler that gives its account a key, or its credits.
       ASSUME A!OpenedBy(h) = {w.id}, account[w.id].email = w.email, faults' = faults,
              NEW a \in [email: {w.email}, keys: 0..1, credits: {0, Starter}, by: {h}],
              account' = [account EXCEPT ![w.id] = a],
              NEW v \in A!Handler, handler' = [handler EXCEPT ![h] = v],
              v.email = w.email, v.id = w.id,
              \/ /\ v.pc = "grant" /\ v.answer = A!None /\ a.credits = 0
              \/ /\ v.pc = "done" /\ v.answer = "created" /\ a.credits = Starter,
              a.keys = 1 \/ v.kind = "admin"
       PROVE  AccountsInv'
  <2>1. w.id \in Ids /\ account[w.id].by = h
    BY <1>11 DEF A!OpenedBy
  <2>2. account'[w.id] = a /\ \A id \in Ids \ {w.id} : account'[id] = account[id]
    BY <1>1, <1>11, <2>1
  <2>3. handler'[h] = v
    BY <1>1, <1>11
  <2>4. a.email = w.email /\ a.by = h /\ a # A!NoAccount
    BY <1>1, <1>11 DEF A!NoAccount
  <2>5. A!AccountsTypeOK'
    <3>1. a \in [email: Emails \cup {A!None}, keys: 0..1,
                 credits: {0, Starter}, by: Handlers \cup {A!None}]
      BY <1>2, <1>11
    <3>2. account' \in [Ids -> [email: Emails \cup {A!None}, keys: 0..1,
                                credits: {0, Starter}, by: Handlers \cup {A!None}]]
      BY <1>1, <1>11, <2>1, <3>1
    <3>3. handler' \in [Handlers -> A!Handler]
      BY <1>1, <1>11
    <3> QED
      BY <1>11, <3>2, <3>3 DEF AccountsInv, A!AccountsTypeOK
  <2>6. Frame(h)
    BY <1>1, <1>11, <2>1, <2>2, <2>4 DEF Frame, A!Exists
  <2>7. A!OpenedBy(h)' = {w.id}
    BY <1>11, <2>1, <2>2, <2>4 DEF A!OpenedBy
  <2>8. Opened(h)' /\ HasKey(h)'
    BY <1>11, <2>2, <2>3, <2>4, <2>7 DEF Opened, HasKey
  <2>9. Works(h)'
    BY <1>11, <2>2, <2>3, <2>8 DEF Works, Finished, Before
  <2>10. AccountsOwned' /\ A!OneAccountPerEmail'
    BY <1>11, <2>1, <2>2, <2>4 DEF AccountsInv, AccountsOwned, A!OneAccountPerEmail
  <2>11. handler'[h].answer # "error"
    BY <1>11, <2>3 DEF A!None
  <2> QED
    BY <1>11, <2>5, <2>6, <2>9, <2>10, <2>11, AccountsKeep
<1>12. CASE A!IssueKey(h)
  <2>1. /\ w.pc = "key" /\ w.answer = A!None /\ A!OpenedBy(h) = {w.id}
        /\ account[w.id].email = w.email /\ account[w.id].credits = 0 /\ account[w.id].keys = 0
        /\ faults' = faults /\ A!Goto(h, "grant")
    BY <1>1, <1>12 DEF A!IssueKey, A!At, Works, Opened, w
  <2>2. w.id \in Ids /\ account[w.id].by = h
    BY <2>1 DEF A!OpenedBy
  <2>3. PICK v \in A!Handler :
          /\ handler' = [handler EXCEPT ![h] = v] /\ v.pc = "grant" /\ v.answer = A!None
          /\ v.email = w.email /\ v.id = w.id /\ v.kind = w.kind
    BY <1>6, <2>1
  <2>4. CASE account' = [account EXCEPT ![handler[h].id].keys = @ + 1]
    <3> DEFINE a == [account[w.id] EXCEPT !.keys = @ + 1]
    <3>1. account' = [account EXCEPT ![w.id] = a]
      BY <1>1, <2>2, <2>4 DEF w
    <3>2. a \in [email: {w.email}, keys: 0..1, credits: {0, Starter}, by: {h}] /\ a.keys = 1
          /\ a.credits = 0
      BY <1>1, <2>1, <2>2
    <3> HIDE DEF a
    <3> QED
      BY <1>11, <2>1, <2>3, <3>1, <3>2
  <2>5. CASE w.kind = "admin" /\ UNCHANGED account
    <3> DEFINE a == account[w.id]
    <3>1. account' = [account EXCEPT ![w.id] = a]
      BY <1>1, <2>2, <2>5
    <3>2. a \in [email: {w.email}, keys: 0..1, credits: {0, Starter}, by: {h}] /\ a.credits = 0
      BY <1>1, <2>1, <2>2
    <3> HIDE DEF a
    <3> QED
      BY <1>11, <2>1, <2>3, <2>5, <3>1, <3>2
  <2> QED
    BY <1>12, <2>4, <2>5 DEF A!IssueKey, w
<1>13. CASE A!Grant(h)
  <2>1. /\ w.pc = "grant" /\ A!OpenedBy(h) = {w.id}
        /\ account[w.id].email = w.email /\ account[w.id].credits = 0
        /\ account[w.id].keys = 1 \/ w.kind = "admin"
        /\ faults' = faults /\ A!Reply(h, "created")
    BY <1>1, <1>13 DEF A!Grant, A!At, Works, Opened, HasKey, w
  <2>2. w.id \in Ids /\ account[w.id].by = h
    BY <2>1 DEF A!OpenedBy
  <2>3. PICK v \in A!Handler :
          /\ handler' = [handler EXCEPT ![h] = v] /\ v.pc = "done" /\ v.answer = "created"
          /\ v.email = w.email /\ v.id = w.id /\ v.kind = w.kind
    BY <1>6, <2>1
  <2> DEFINE a == [account[w.id] EXCEPT !.credits = @ + Starter]
  <2>4. account' = [account EXCEPT ![w.id] = a]
    BY <1>1, <1>13, <2>2 DEF A!Grant, w
  <2>5. /\ a \in [email: {w.email}, keys: 0..1, credits: {0, Starter}, by: {h}]
        /\ a.credits = Starter /\ a.keys = account[w.id].keys
    BY <1>1, <2>1, <2>2 DEF A!BoundsAssumption
  <2> HIDE DEF a
  <2> QED
    BY <1>11, <2>1, <2>3, <2>4, <2>5
<1>14. CASE A!Fault(h)
  <2>1. /\ w.pc \in {"precheck", "check", "insert", "key", "grant"}
        /\ faults < MaxFaults /\ faults' = faults + 1 /\ account' = account
        /\ A!Reply(h, "error")
    BY <1>14 DEF A!Fault, A!AfterFault, w
  <2>2. A!OpenedBy(h) \subseteq {w.id}
    BY <1>1, <2>1 DEF Works, Opened, Before, w
  <2>3. PICK v \in A!Handler :
          /\ handler' = [handler EXCEPT ![h] = v] /\ v.pc = "done" /\ v.answer = "error"
          /\ v.email = w.email /\ v.id = w.id
    BY <1>6, <2>1
  <2>4. handler'[h] = v /\ A!OpenedBy(h)' = A!OpenedBy(h)
    BY <1>1, <2>1, <2>3 DEF A!OpenedBy
  <2>5. Works(h)'
    BY <2>2, <2>3, <2>4 DEF Works, Finished, Before
  <2> QED
    BY <2>1, <2>2, <2>3, <2>5, OnlyHandler
<1> QED
  BY <1>5, <1>7, <1>8, <1>9, <1>10, <1>12, <1>13, <1>14 DEF A!Step

\* Racing registrations leave whole accounts, for any number of handlers, ids,
\* addresses and attempts: one account per address although every handler
\* looks it up before the transaction that inserts it, "created" only for a
\* whole account, a true refusal that leaves nothing behind, and no more half-
\* open accounts than there were failures (web_server.py v1_auth_register,
\* v1_register, admin_create_user; service.py create_user).
THEOREM AccountsAreWhole ==
  A!AttemptsAssumption /\ A!BoundsAssumption /\ A!SentinelsAssumption =>
    (A!Init /\ [][A!Next]_A!vars => []RegistrationsAreWhole)
<1> SUFFICES ASSUME A!AttemptsAssumption, A!BoundsAssumption, A!SentinelsAssumption
             PROVE  A!Init /\ [][A!Next]_A!vars => []RegistrationsAreWhole
  OBVIOUS
<1>1. A!Init => AccountsInv
  BY AccountsInit
<1>2. AccountsInv /\ [A!Next]_A!vars => AccountsInv'
  <2> SUFFICES ASSUME AccountsInv, [A!Next]_A!vars PROVE AccountsInv'
    OBVIOUS
  <2>1. ASSUME NEW h \in Handlers, A!Start(h) \/ A!Step(h) \/ A!Fault(h) PROVE AccountsInv'
    BY <2>1, HandlerStep
  <2>2. CASE UNCHANGED A!vars
    <3>1. UNCHANGED <<account, handler, faults>>
      BY <2>2 DEF A!vars
    <3> QED
      BY <3>1
         DEF AccountsInv, A!AccountsTypeOK, Works, Opened, HasKey, Finished, A!OpenedBy,
             A!EmailKnown, A!Exists, AccountsOwned, A!OneAccountPerEmail, LeftBehind,
             A!HalfOpen, A!Answered
  <2> QED
    BY <2>1, <2>2 DEF A!Next
<1>3. AccountsInv => RegistrationsAreWhole
  <2> SUFFICES ASSUME AccountsInv PROVE RegistrationsAreWhole
    OBVIOUS
  <2>1. ASSUME NEW h \in Handlers PROVE Works(h) /\ handler[h] \in A!Handler
    BY DEF AccountsInv, A!AccountsTypeOK
  <2>2. A!CreatedIsComplete
    <3>1. ASSUME NEW h \in Handlers, handler[h].answer = "created"
          PROVE  Opened(h) /\ HasKey(h) /\ account[handler[h].id].credits = Starter
      BY <2>1, <3>1 DEF Works, Finished, A!None
    <3> QED
      BY <3>1 DEF A!CreatedIsComplete, A!Answered, Opened, HasKey
  <2>3. A!RefusalIsClean
    BY <2>1 DEF A!RefusalIsClean, A!Answered, Works, Finished, A!None
  <2>4. A!HalfOpenNeedsFault
    <3>1. ASSUME NEW id \in A!HalfOpen
          PROVE  \/ handler[account[id].by].pc \in {"key", "grant"}
                 \/ A!Answered(account[id].by, "error")
      <4>1. id \in Ids /\ account[id].credits < Starter /\ account[id].by \in Handlers
        BY <3>1 DEF A!HalfOpen, A!Exists, AccountsInv, AccountsOwned
      <4>2. PICK h \in Handlers : h = account[id].by /\ id \in A!OpenedBy(h)
        BY <4>1 DEF A!OpenedBy
      <4>3. handler[h].pc \in {"key", "grant", "done"}
        BY <2>1, <4>2 DEF Works, Before, A!Handler
      <4>4. CASE handler[h].pc = "done" /\ handler[h].answer = "created"
        BY <2>1, <4>1, <4>2, <4>4 DEF Works, Finished, Opened, A!BoundsAssumption
      <4>5. CASE handler[h].pc = "done" /\ handler[h].answer # "created"
        BY <2>1, <4>2, <4>5 DEF Works, Finished, A!Answered
      <4> QED
        BY <4>2, <4>3, <4>4, <4>5
    <3>2. {id \in A!HalfOpen : A!Answered(account[id].by, "error")} = LeftBehind
      BY DEF LeftBehind
    <3>3. Cardinality({id \in A!HalfOpen : A!Answered(account[id].by, "error")}) <= faults
      BY <3>2 DEF AccountsInv
    <3> QED
      BY <3>1, <3>3 DEF A!HalfOpenNeedsFault, Cardinality, A!Cardinality
  <2> QED
    BY <2>2, <2>3, <2>4 DEF RegistrationsAreWhole, AccountsInv
<1> QED
  BY <1>1, <1>2, <1>3, PTL

-----------------------------------------------------------------------------
(* The portal: its parts share no state.                                   *)

\* A step of the portal is a step of one part and leaves the others alone.
LEMMA PartsStep ==
  ASSUME [PortalNext]_portalVars
  PROVE  [R!Next]_R!vars /\ [Next]_vars /\ [S!Next]_S!vars /\ [A!Next]_A!vars
BY DEF PortalNext, portalVars, rateVars, sessionVars, accountVars, R!vars, vars, S!vars, A!vars

\* Everything that is checked of the portal holds of it for any values of the
\* constants that meet the named assumptions.
THEOREM PortalIsSound ==
  PortalSpec => /\ []LimitIsExact
                /\ []OnePortalKey
                /\ []KeysStaySafe
                /\ []RegistrationsAreWhole
                /\ ChangeEndsSessions
                /\ SessionsLiveOnce
<1>1. PortalInit => R!Init /\ Init /\ S!Init /\ A!Init
  BY DEF PortalInit
<1>2. [PortalNext]_portalVars =>
        [R!Next]_R!vars /\ [Next]_vars /\ [S!Next]_S!vars /\ [A!Next]_A!vars
  BY PartsStep
<1>3. PortalSpec => R!Spec /\ Spec /\ S!Spec /\ A!Init /\ [][A!Next]_A!vars
  BY <1>1, <1>2, PTL DEF PortalSpec, R!Spec, Spec, S!Spec
<1>4. R!Spec => []LimitIsExact
  BY RateIsExact, RateAssumption
<1>5. Spec => []OnePortalKey /\ []KeysStaySafe
  BY OneKeyToShow, KeysAreSafe, KeysAssumption
<1>6. S!Spec => ChangeEndsSessions /\ SessionsLiveOnce
  BY ChangeIsExact, SessionsAreSafe, SessionsAssumption
<1>7. A!Init /\ [][A!Next]_A!vars => []RegistrationsAreWhole
  BY AccountsAreWhole, AccountsAssumption
<1> QED
  BY <1>3, <1>4, <1>5, <1>6, <1>7, PTL
=============================================================================
