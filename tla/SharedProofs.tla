---------------------------- MODULE SharedProofs ----------------------------
(***************************************************************************)
(* Theorems about what concurrent requests share: Conversations, for any   *)
(* requests, tears and prunes; StdoutCapture, for any requests; and        *)
(* ProfileStore, for any requests, charts and stops, as long as the        *)
(* maintenance script, which takes no lease, does not run.                 *)
(***************************************************************************)
EXTENDS MCShared, SumTheorems, SequenceTheorems

(***************************************************************************)
(* Folding a sequence from the left.  FoldLeft is a recursive function on  *)
(* the sets of positions, which takes the greatest position off first.     *)
(***************************************************************************)

\* A set of positions that is not empty has a greatest one.
LEMMA GreatestOf ==
  ASSUME NEW n \in Nat, NEW S \in SUBSET (1..n), S # {}
  PROVE  C!Max(S) \in S /\ \A y \in S : C!Max(S) >= y
<1> DEFINE T == {n - x : x \in S}
<1>1. T \in SUBSET Nat /\ T # {}
  <2>1. \A x \in S : n - x \in Nat
    OBVIOUS
  <2> QED
    BY <2>1
<1>2. PICK t \in T : \A m \in T : t <= m
  <2> HIDE DEF T
  <2> QED
    BY <1>1, LeastOf
<1>3. PICK x \in S : t = n - x
  OBVIOUS
<1>4. \A y \in S : x >= y
  <2>1. ASSUME NEW y \in S PROVE x >= y
    <3>1. n - x <= n - y
      BY <1>2, <1>3
    <3>2. x \in Int /\ y \in Int
      OBVIOUS
    <3> QED
      BY <3>1, <3>2
  <2> QED
    BY <2>1
<1> QED
  BY <1>4 DEF C!Max

\* Of the first n positions the greatest is n.
LEMMA GreatestOfPrefix ==
  ASSUME NEW n \in Nat \ {0}
  PROVE  C!Max(1..n) = n /\ (1..n) \ {C!Max(1..n)} = 1..(n - 1)
<1>1. 1..n # {} /\ n \in 1..n
  OBVIOUS
<1>2. C!Max(1..n) \in 1..n /\ C!Max(1..n) >= n
  BY <1>1, GreatestOf
<1>3. C!Max(1..n) = n
  BY <1>2
<1>4. (1..n) \ {n} = 1..(n - 1)
  OBVIOUS
<1> QED
  BY <1>3, <1>4

\* step[i][x] is what the element at position i makes of x.
Folded(g, base, step, S) ==
  IF S = {} THEN base ELSE step[C!Max(S)][g[S \ {C!Max(S)}]]

IsFold(g, n, St, base, step) ==
  /\ g \in [SUBSET (1..n) -> St]
  /\ \A S \in SUBSET (1..n) : g[S] = Folded(g, base, step, S)

\* The recursive function exists: functions that are right for all sets of at
\* most m positions are improved step by step.
LEMMA FoldExists ==
  ASSUME NEW n \in Nat, NEW St, NEW base \in St, NEW step \in [1..n -> [St -> St]]
  PROVE  \E g : IsFold(g, n, St, base, step)
<1> DEFINE P == SUBSET (1..n)
           Upto(g, m) == \A S \in P : Cardinality(S) <= m => g[S] = Folded(g, base, step, S)
           T == {m \in Nat : \E g \in [P -> St] : Upto(g, m)}
<1>0. IsFiniteSet(1..n) /\ Cardinality(1..n) = n
  <2>1. 1 \in Int /\ n \in Int
    OBVIOUS
  <2>2. IsFiniteSet(1..n) /\ Cardinality(1..n) = IF 1 > n THEN 0 ELSE n - 1 + 1
    BY <2>1, FS_Interval
  <2> QED
    BY <2>2
<1>1. \A S \in P : IsFiniteSet(S) /\ Cardinality(S) \in Nat /\ Cardinality(S) <= n
  <2>1. ASSUME NEW S \in P PROVE IsFiniteSet(S) /\ Cardinality(S) <= n
    <3>1. S \in SUBSET (1..n)
      OBVIOUS
    <3>2. IsFiniteSet(S) /\ Cardinality(S) <= Cardinality(1..n)
      BY <1>0, <3>1, FS_Subset, Zenon
    <3> QED
      BY <1>0, <3>2
  <2> QED
    BY <2>1, FS_CardinalityType
<1>2. ASSUME NEW S \in P, S # {}
      PROVE  /\ C!Max(S) \in 1..n /\ S \ {C!Max(S)} \in P
             /\ Cardinality(S \ {C!Max(S)}) = Cardinality(S) - 1
  <2>1. C!Max(S) \in S
    BY <1>2, GreatestOf
  <2> QED
    BY <1>1, <2>1, FS_RemoveElement
<1>3. ASSUME NEW g \in [P -> St], NEW S \in P PROVE Folded(g, base, step, S) \in St
  <2>1. CASE S = {}
    BY <2>1 DEF Folded
  <2>2. CASE S # {}
    <3>1. step[C!Max(S)] \in [St -> St] /\ g[S \ {C!Max(S)}] \in St
      BY <1>2, <2>2
    <3> QED
      BY <2>2, <3>1 DEF Folded
  <2> QED
    BY <2>1, <2>2
<1> HIDE DEF P
<1>4. 0 \in T
  <2> DEFINE g == [S \in P |-> base]
  <2>1. ASSUME NEW S \in P, Cardinality(S) <= 0 PROVE g[S] = Folded(g, base, step, S)
    <3>1. S = {}
      BY <1>1, <2>1, FS_EmptySet
    <3> QED
      BY <3>1 DEF Folded
  <2>2. g \in [P -> St]
    OBVIOUS
  <2> HIDE DEF g
  <2> QED
    BY <2>1, <2>2
<1>5. ASSUME NEW m \in Nat, m \in T PROVE m + 1 \in T
  <2>1. PICK g \in [P -> St] : Upto(g, m)
    BY <1>5
  <2> DEFINE h == [S \in P |-> Folded(g, base, step, S)]
  <2>2. h \in [P -> St]
    BY <1>3
  <2>3. ASSUME NEW S \in P, Cardinality(S) <= m PROVE h[S] = g[S]
    BY <2>1, <2>3
  <2>4. ASSUME NEW S \in P, Cardinality(S) <= m + 1 PROVE h[S] = Folded(h, base, step, S)
    <3>1. CASE S = {}
      BY <3>1 DEF Folded
    <3>2. CASE S # {}
      <4>0. /\ S \ {C!Max(S)} \in P /\ Cardinality(S) \in Nat
            /\ Cardinality(S \ {C!Max(S)}) = Cardinality(S) - 1
        BY <1>1, <1>2, <3>2
      <4>1. S \ {C!Max(S)} \in P /\ Cardinality(S \ {C!Max(S)}) <= m
        BY <2>4, <4>0
      <4>2. h[S \ {C!Max(S)}] = g[S \ {C!Max(S)}]
        BY <2>3, <4>1
      <4> QED
        BY <3>2, <4>2 DEF Folded
    <3> QED
      BY <3>1, <3>2
  <2> HIDE DEF h
  <2> QED
    BY <2>2, <2>4
<1>6. n \in T
  <2> HIDE DEF T
  <2> QED
    BY <1>4, <1>5, NatSetInduction
<1>7. PICK g \in [P -> St] : Upto(g, n)
  BY <1>6
<1> QED
  BY <1>1, <1>7 DEF P, IsFold

-----------------------------------------------------------------------------
(***************************************************************************)
(* The two readers of a log: load_recent_rounds (ReadLine) and get_history *)
(* (ShowLine).                                                             *)
(***************************************************************************)

Askers == Requests \cup {Legacy}
LineTypes == {"user_message", "response", "assistant_final", "other", "garbage"}
Lines == {l \in [type: LineTypes, of: Askers \cup {Nobody}] :
            l.type \in {"user_message", "response", "assistant_final"} => l.of \in Askers}

Round == [user: Askers, assistant: Askers]
Reading == [pending: Askers \cup {Nobody}, rounds: Seq(Round)]
Unread == [pending |-> Nobody, rounds |-> <<>>]
Read(s) == C!FoldLeft(C!ReadLine, Unread, s)

Message == [role: {"user", "assistant"}, of: Askers]

\* The rounds of a log are those of its reading.
LEMMA RoundsAreRead == ASSUME NEW s PROVE C!Rounds(s) = Read(s).rounds
  BY DEF Read, C!Rounds, Unread

\* What one line does to a reading.
LEMMA ReadLineIs ==
  ASSUME NEW x \in Reading, NEW l \in Lines
  PROVE  /\ C!ReadLine(x, l) \in Reading
         /\ l.type = "user_message" =>
              C!ReadLine(x, l).pending = l.of /\ C!ReadLine(x, l).rounds = x.rounds
         /\ l.type \in {"response", "assistant_final"} /\ x.pending # Nobody =>
              /\ C!ReadLine(x, l).pending = Nobody
              /\ C!ReadLine(x, l).rounds =
                   Append(x.rounds, [user |-> x.pending, assistant |-> l.of])
         /\ l.type \in {"response", "assistant_final"} /\ x.pending = Nobody =>
              C!ReadLine(x, l) = x
         /\ l.type \in {"other", "garbage"} => C!ReadLine(x, l) = x
<1>1. l.type \in LineTypes /\ l.of \in Askers \cup {Nobody}
  BY DEF Lines
<1>2. x.pending \in Askers \cup {Nobody} /\ x.rounds \in Seq(Round)
  BY DEF Reading
<1>3. CASE l.type = "user_message"
  <2>1. C!ReadLine(x, l) = [x EXCEPT !.pending = l.of]
    BY <1>3 DEF C!ReadLine
  <2> QED
    BY <1>1, <1>3, <2>1 DEF Reading
<1>4. CASE l.type \in {"response", "assistant_final"} /\ x.pending # Nobody
  <2> DEFINE round == [user |-> x.pending, assistant |-> l.of]
  <2>1. C!ReadLine(x, l) = [pending |-> Nobody, rounds |-> Append(x.rounds, round)]
    BY <1>4 DEF C!ReadLine
  <2>2. round \in Round
    BY <1>2, <1>4 DEF Lines, Round
  <2>3. Append(x.rounds, round) \in Seq(Round)
    BY <1>2, <2>2
  <2> HIDE DEF round
  <2>4. C!ReadLine(x, l) \in Reading
    BY <2>1, <2>3 DEF Reading
  <2> QED
    BY <1>4, <2>1, <2>4 DEF round
<1>5. CASE l.type \in {"response", "assistant_final"} /\ x.pending = Nobody
  <2>1. C!ReadLine(x, l) = x
    BY <1>5 DEF C!ReadLine
  <2> QED
    BY <1>5, <2>1
<1>6. CASE l.type \in {"other", "garbage"}
  <2>1. C!ReadLine(x, l) = x
    BY <1>6 DEF C!ReadLine
  <2> QED
    BY <1>6, <2>1
<1> QED
  BY <1>1, <1>3, <1>4, <1>5, <1>6 DEF LineTypes

IsReading(g, s) ==
  g = [S \in SUBSET (DOMAIN s) |->
         IF S = {} THEN Unread ELSE C!ReadLine(g[S \ {C!Max(S)}], s[C!Max(S)])]

\* The recursive function that reads a log exists.
LEMMA ReadingExists == ASSUME NEW s \in Seq(Lines) PROVE \E g : IsReading(g, s)
<1> DEFINE n == Len(s)
           step == [i \in 1..n |-> [x \in Reading |-> C!ReadLine(x, s[i])]]
<1>1. n \in Nat /\ DOMAIN s = 1..n /\ \A i \in 1..n : s[i] \in Lines
  BY LenProperties, ElementOfSeq
<1>2. Unread \in Reading
  BY DEF Unread, Reading
<1>3. step \in [1..n -> [Reading -> Reading]]
  BY <1>1, ReadLineIs
<1>4. \A i \in 1..n : \A x \in Reading : step[i][x] = C!ReadLine(x, s[i])
  OBVIOUS
<1> HIDE DEF step, n
<1>5. PICK g : IsFold(g, n, Reading, Unread, step)
  BY <1>1, <1>2, <1>3, FoldExists
<1> USE <1>5 DEF IsFold
<1>6. ASSUME NEW S \in SUBSET (1..n), S # {}
      PROVE  g[S] = C!ReadLine(g[S \ {C!Max(S)}], s[C!Max(S)])
  <2>1. C!Max(S) \in 1..n /\ S \ {C!Max(S)} \in SUBSET (1..n)
    BY <1>1, <1>6, GreatestOf
  <2>2. g[S] = step[C!Max(S)][g[S \ {C!Max(S)}]]
    BY <1>5, <1>6 DEF Folded
  <2> QED
    BY <1>4, <1>5, <2>1, <2>2
<1>7. g[{}] = Unread
  BY <1>5 DEF Folded
<1>8. g = [S \in SUBSET (1..n) |->
             IF S = {} THEN Unread ELSE C!ReadLine(g[S \ {C!Max(S)}], s[C!Max(S)])]
  BY <1>5, <1>6, <1>7
<1> QED
  BY <1>1, <1>8 DEF IsReading

\* Reading one line more.
LEMMA ReadMore ==
  ASSUME NEW s \in Seq(Lines), NEW l \in Lines
  PROVE  Read(Append(s, l)) = C!ReadLine(Read(s), l)
<1> DEFINE n == Len(s)
           t == Append(s, l)
           g == CHOOSE g : IsReading(g, s)
           h == CHOOSE h : IsReading(h, t)
<1>1. /\ n \in Nat /\ DOMAIN s = 1..n
      /\ t \in Seq(Lines) /\ DOMAIN t = 1..(n + 1) /\ t[n + 1] = l
      /\ \A i \in 1..n : t[i] = s[i]
  BY LenProperties, AppendProperties
<1>2. IsReading(g, s) /\ IsReading(h, t)
  BY <1>1, ReadingExists
<1>3. Read(s) = g[1..n] /\ Read(t) = h[1..(n + 1)]
  BY <1>1 DEF Read, IsReading, C!FoldLeft, C!MapThenFoldSet
<1> HIDE DEF n, t, g, h
<1> DEFINE T == {k \in Nat : k <= n => h[1..k] = g[1..k]}
<1>4. 0 \in T
  <2>1. 1..0 = {} /\ {} \in SUBSET (DOMAIN s) /\ {} \in SUBSET (DOMAIN t)
    OBVIOUS
  <2>2. g[{}] = Unread /\ h[{}] = Unread
    BY <1>2, <2>1 DEF IsReading
  <2> QED
    BY <2>1, <2>2
<1>5. ASSUME NEW k \in Nat, k + 1 <= n + 1
      PROVE  h[1..(k + 1)] = C!ReadLine(h[1..k], t[k + 1])
  <2>1. 1..(k + 1) \in SUBSET (DOMAIN t) /\ 1..(k + 1) # {}
    <3>1. 1..(k + 1) \subseteq 1..(n + 1) /\ 1 \in 1..(k + 1)
      BY <1>1, <1>5
    <3> QED
      BY <1>1, <3>1
  <2>2. C!Max(1..(k + 1)) = k + 1 /\ (1..(k + 1)) \ {k + 1} = 1..k
    <3>1. k + 1 \in Nat \ {0} /\ (k + 1) - 1 = k
      OBVIOUS
    <3> QED
      BY <3>1, GreatestOfPrefix
  <2> DEFINE p == 1..(k + 1)
  <2>3. h[p] = C!ReadLine(h[p \ {C!Max(p)}], t[C!Max(p)])
    <3> HIDE DEF p
    <3> QED
      BY <1>2, <2>1 DEF IsReading, p
  <2> QED
    BY <2>2, <2>3
<1>6. ASSUME NEW k \in Nat, k + 1 <= n
      PROVE  g[1..(k + 1)] = C!ReadLine(g[1..k], s[k + 1])
  <2>1. 1..(k + 1) \in SUBSET (DOMAIN s) /\ 1..(k + 1) # {}
    <3>1. 1..(k + 1) \subseteq 1..(n) /\ 1 \in 1..(k + 1)
      BY <1>1, <1>6
    <3> QED
      BY <1>1, <3>1
  <2>2. C!Max(1..(k + 1)) = k + 1 /\ (1..(k + 1)) \ {k + 1} = 1..k
    <3>1. k + 1 \in Nat \ {0} /\ (k + 1) - 1 = k
      OBVIOUS
    <3> QED
      BY <3>1, GreatestOfPrefix
  <2> DEFINE p == 1..(k + 1)
  <2>3. g[p] = C!ReadLine(g[p \ {C!Max(p)}], s[C!Max(p)])
    <3> HIDE DEF p
    <3> QED
      BY <1>2, <2>1 DEF IsReading, p
  <2> QED
    BY <2>2, <2>3
<1>7. ASSUME NEW k \in Nat, k \in T PROVE k + 1 \in T
  <2> SUFFICES ASSUME k + 1 <= n PROVE h[1..(k + 1)] = g[1..(k + 1)]
    OBVIOUS
  <2>1. k <= n /\ k + 1 <= n + 1 /\ k + 1 \in 1..n
    BY <1>1
  <2>2. t[k + 1] = s[k + 1] /\ h[1..k] = g[1..k]
    BY <1>1, <1>7, <2>1
  <2> QED
    BY <1>5, <1>6, <2>1, <2>2
<1>8. h[1..n] = g[1..n]
  <2>1. n \in T
    <3> HIDE DEF T
    <3> QED
      BY <1>1, <1>4, <1>7, NatSetInduction
  <2> QED
    BY <1>1, <2>1
<1>9. h[1..(n + 1)] = C!ReadLine(h[1..n], t[n + 1])
  BY <1>1, <1>5
<1> QED
  BY <1>1, <1>3, <1>8, <1>9 DEF t

\* Induction over sequences, for a set: what holds of the empty one and is kept
\* by appending holds of all.
LEMMA SeqSetInduction ==
  ASSUME NEW E, NEW T, <<>> \in T,
         \A s \in Seq(E) : \A e \in E : s \in T => Append(s, e) \in T
  PROVE  Seq(E) \subseteq T
<1> DEFINE U == {n \in Nat : \A s \in Seq(E) : Len(s) = n => s \in T}
<1>1. 0 \in U
  BY EmptySeq
<1>2. ASSUME NEW n \in Nat, n \in U PROVE n + 1 \in U
  <2>1. ASSUME NEW s \in Seq(E), Len(s) = n + 1 PROVE s \in T
    <3> DEFINE t == [i \in 1..n |-> s[i]]
    <3>1. t \in Seq(E) /\ Len(t) = n /\ s[n + 1] \in E
      BY <2>1
    <3>2. Append(t, s[n + 1]) = s
      <4>1. Append(t, s[n + 1]) \in Seq(E) /\ Len(Append(t, s[n + 1])) = n + 1
        BY <3>1
      <4>2. \A i \in 1..(n + 1) : Append(t, s[n + 1])[i] = s[i]
        BY <2>1, <3>1
      <4> HIDE DEF t
      <4> QED
        BY <2>1, <4>1, <4>2, SeqEqual
    <3>3. t \in T
      BY <1>2, <3>1
    <3> HIDE DEF t
    <3> QED
      BY <3>1, <3>2, <3>3
  <2> QED
    BY <2>1
<1>3. Nat \subseteq U
  <2> HIDE DEF U
  <2> QED
    BY <1>1, <1>2, NatSetInduction
<1> QED
  BY <1>3, LenProperties

\* An empty log reads as nothing.
LEMMA ReadNothing == Read(<<>>) = Unread
<1> DEFINE g == CHOOSE g : IsReading(g, <<>>)
<1>0. <<>> \in Seq(Lines) /\ DOMAIN <<>> = {}
  OBVIOUS
<1>1. IsReading(g, <<>>)
  BY <1>0, ReadingExists
<1>2. Read(<<>>) = g[{}]
  BY <1>0 DEF Read, IsReading, C!FoldLeft, C!MapThenFoldSet
<1> HIDE DEF g
<1>3. g[{}] = Unread
  BY <1>0, <1>1 DEF IsReading
<1> QED
  BY <1>2, <1>3

\* A reading has rounds of askers, and an asker pending or none.
LEMMA ReadType == \A s \in Seq(Lines) : Read(s) \in Reading
<1> DEFINE T == {s \in Seq(Lines) : Read(s) \in Reading}
<1>1. <<>> \in T
  <2>1. <<>> \in Seq(Lines) /\ <<>> \in Seq(Round)
    OBVIOUS
  <2>2. Unread \in Reading
    BY <2>1 DEF Unread, Reading
  <2> QED
    BY <2>1, <2>2, ReadNothing
<1>2. ASSUME NEW s \in Seq(Lines), NEW e \in Lines, s \in T PROVE Append(s, e) \in T
  <2>1. Append(s, e) \in Seq(Lines) /\ Read(s) \in Reading
    BY <1>2
  <2>2. Read(Append(s, e)) \in Reading
    BY <2>1, ReadMore, ReadLineIs
  <2> QED
    BY <2>1, <2>2
<1> QED
  <2> HIDE DEF T
  <2>1. Seq(Lines) \subseteq T
    BY <1>1, <1>2, SeqSetInduction
  <2> QED
    BY <2>1 DEF T

-----------------------------------------------------------------------------
(* The page.                                                               *)

\* The page is a fold over the lines.
LEMMA MessagesAre == ASSUME NEW s PROVE C!Messages(s) = C!FoldLeft(C!ShowLine, <<>>, s)
  BY DEF C!Messages

\* The message a line adds to the page, if it adds one.
Shows(ms, l) ==
  \/ l.type \in {"user_message", "response"}
  \/ l.type = "assistant_final" /\ (ms = <<>> \/ ms[Len(ms)].role # "assistant")
Shown(l) == [role |-> IF l.type = "user_message" THEN "user" ELSE "assistant", of |-> l.of]

\* What one line does to the page.
LEMMA ShowLineIs ==
  ASSUME NEW ms \in Seq(Message), NEW l \in Lines
  PROVE  /\ C!ShowLine(ms, l) = IF Shows(ms, l) THEN Append(ms, Shown(l)) ELSE ms
         /\ Shows(ms, l) => Shown(l) \in Message
         /\ C!ShowLine(ms, l) \in Seq(Message)
<1>1. l.type \in LineTypes
  BY DEF Lines
<1>2. C!ShowLine(ms, l) = IF Shows(ms, l) THEN Append(ms, Shown(l)) ELSE ms
  BY <1>1 DEF C!ShowLine, Shows, Shown, C!Last, LineTypes
<1>3. Shows(ms, l) => Shown(l) \in Message
  BY DEF Shows, Shown, Lines, Message
<1> QED
  BY <1>2, <1>3

IsShowing(g, s) ==
  g = [S \in SUBSET (DOMAIN s) |->
         IF S = {} THEN <<>> ELSE C!ShowLine(g[S \ {C!Max(S)}], s[C!Max(S)])]

\* The recursive function that shows a log exists.
LEMMA ShowingExists == ASSUME NEW s \in Seq(Lines) PROVE \E g : IsShowing(g, s)
<1> DEFINE n == Len(s)
           step == [i \in 1..n |-> [x \in Seq(Message) |-> C!ShowLine(x, s[i])]]
<1>1. n \in Nat /\ DOMAIN s = 1..n /\ \A i \in 1..n : s[i] \in Lines
  BY LenProperties, ElementOfSeq
<1>2. <<>> \in Seq(Message)
  BY DEF Message
<1>3. step \in [1..n -> [Seq(Message) -> Seq(Message)]]
  BY <1>1, ShowLineIs
<1>4. \A i \in 1..n : \A x \in Seq(Message) : step[i][x] = C!ShowLine(x, s[i])
  OBVIOUS
<1> HIDE DEF step, n
<1>5. PICK g : IsFold(g, n, Seq(Message), <<>>, step)
  BY <1>1, <1>2, <1>3, FoldExists
<1> USE <1>5 DEF IsFold
<1>6. ASSUME NEW S \in SUBSET (1..n), S # {}
      PROVE  g[S] = C!ShowLine(g[S \ {C!Max(S)}], s[C!Max(S)])
  <2>1. C!Max(S) \in 1..n /\ S \ {C!Max(S)} \in SUBSET (1..n)
    BY <1>1, <1>6, GreatestOf
  <2>2. g[S] = step[C!Max(S)][g[S \ {C!Max(S)}]]
    BY <1>5, <1>6 DEF Folded
  <2> QED
    BY <1>4, <1>5, <2>1, <2>2
<1>7. g[{}] = <<>>
  BY <1>5 DEF Folded
<1>8. g = [S \in SUBSET (1..n) |->
             IF S = {} THEN <<>> ELSE C!ShowLine(g[S \ {C!Max(S)}], s[C!Max(S)])]
  BY <1>5, <1>6, <1>7
<1> QED
  BY <1>1, <1>8 DEF IsShowing

\* Showing one line more.
LEMMA ShowMore ==
  ASSUME NEW s \in Seq(Lines), NEW l \in Lines
  PROVE  C!Messages(Append(s, l)) = C!ShowLine(C!Messages(s), l)
<1> DEFINE n == Len(s)
           t == Append(s, l)
           g == CHOOSE g : IsShowing(g, s)
           h == CHOOSE h : IsShowing(h, t)
<1>1. /\ n \in Nat /\ DOMAIN s = 1..n
      /\ t \in Seq(Lines) /\ DOMAIN t = 1..(n + 1) /\ t[n + 1] = l
      /\ \A i \in 1..n : t[i] = s[i]
  BY LenProperties, AppendProperties
<1>2. IsShowing(g, s) /\ IsShowing(h, t)
  BY <1>1, ShowingExists
<1>3. C!Messages(s) = g[1..n] /\ C!Messages(t) = h[1..(n + 1)]
  BY <1>1 DEF C!Messages, IsShowing, C!FoldLeft, C!MapThenFoldSet
<1> HIDE DEF n, t, g, h
<1> DEFINE T == {k \in Nat : k <= n => h[1..k] = g[1..k]}
<1>4. 0 \in T
  <2>1. 1..0 = {} /\ {} \in SUBSET (DOMAIN s) /\ {} \in SUBSET (DOMAIN t)
    OBVIOUS
  <2>2. g[{}] = <<>> /\ h[{}] = <<>>
    BY <1>2, <2>1 DEF IsShowing
  <2> QED
    BY <2>1, <2>2
<1>5. ASSUME NEW k \in Nat, k + 1 <= n + 1
      PROVE  h[1..(k + 1)] = C!ShowLine(h[1..k], t[k + 1])
  <2>1. 1..(k + 1) \in SUBSET (DOMAIN t) /\ 1..(k + 1) # {}
    <3>1. 1..(k + 1) \subseteq 1..(n + 1) /\ 1 \in 1..(k + 1)
      BY <1>1, <1>5
    <3> QED
      BY <1>1, <3>1
  <2>2. C!Max(1..(k + 1)) = k + 1 /\ (1..(k + 1)) \ {k + 1} = 1..k
    <3>1. k + 1 \in Nat \ {0} /\ (k + 1) - 1 = k
      OBVIOUS
    <3> QED
      BY <3>1, GreatestOfPrefix
  <2> DEFINE p == 1..(k + 1)
  <2>3. h[p] = C!ShowLine(h[p \ {C!Max(p)}], t[C!Max(p)])
    <3> HIDE DEF p
    <3> QED
      BY <1>2, <2>1 DEF IsShowing, p
  <2> QED
    BY <2>2, <2>3
<1>6. ASSUME NEW k \in Nat, k + 1 <= n
      PROVE  g[1..(k + 1)] = C!ShowLine(g[1..k], s[k + 1])
  <2>1. 1..(k + 1) \in SUBSET (DOMAIN s) /\ 1..(k + 1) # {}
    <3>1. 1..(k + 1) \subseteq 1..(n) /\ 1 \in 1..(k + 1)
      BY <1>1, <1>6
    <3> QED
      BY <1>1, <3>1
  <2>2. C!Max(1..(k + 1)) = k + 1 /\ (1..(k + 1)) \ {k + 1} = 1..k
    <3>1. k + 1 \in Nat \ {0} /\ (k + 1) - 1 = k
      OBVIOUS
    <3> QED
      BY <3>1, GreatestOfPrefix
  <2> DEFINE p == 1..(k + 1)
  <2>3. g[p] = C!ShowLine(g[p \ {C!Max(p)}], s[C!Max(p)])
    <3> HIDE DEF p
    <3> QED
      BY <1>2, <2>1 DEF IsShowing, p
  <2> QED
    BY <2>2, <2>3
<1>7. ASSUME NEW k \in Nat, k \in T PROVE k + 1 \in T
  <2> SUFFICES ASSUME k + 1 <= n PROVE h[1..(k + 1)] = g[1..(k + 1)]
    OBVIOUS
  <2>1. k <= n /\ k + 1 <= n + 1 /\ k + 1 \in 1..n
    BY <1>1
  <2>2. t[k + 1] = s[k + 1] /\ h[1..k] = g[1..k]
    BY <1>1, <1>7, <2>1
  <2> QED
    BY <1>5, <1>6, <2>1, <2>2
<1>8. h[1..n] = g[1..n]
  <2>1. n \in T
    <3> HIDE DEF T
    <3> QED
      BY <1>1, <1>4, <1>7, NatSetInduction
  <2> QED
    BY <1>1, <2>1
<1>9. h[1..(n + 1)] = C!ShowLine(h[1..n], t[n + 1])
  BY <1>1, <1>5
<1> QED
  BY <1>1, <1>3, <1>8, <1>9 DEF t

\* An empty log shows nothing.
LEMMA ShowNothing == C!Messages(<<>>) = <<>>
<1> DEFINE g == CHOOSE g : IsShowing(g, <<>>)
<1>0. <<>> \in Seq(Lines) /\ DOMAIN <<>> = {}
  OBVIOUS
<1>1. IsShowing(g, <<>>)
  BY <1>0, ShowingExists
<1>2. C!Messages(<<>>) = g[{}]
  BY <1>0 DEF C!Messages, IsShowing, C!FoldLeft, C!MapThenFoldSet
<1> HIDE DEF g
<1>3. g[{}] = <<>>
  BY <1>0, <1>1 DEF IsShowing
<1> QED
  BY <1>2, <1>3

-----------------------------------------------------------------------------
(***************************************************************************)
(* The rounds of the prompt are the questions the page shows right above   *)
(* an answer, in every log there can be.                                   *)
(***************************************************************************)

Closes(ms, i) == i > 1 /\ ms[i].role = "assistant" /\ ms[i - 1].role = "user"
PairsOf(ms) == {<<ms[i - 1].of, ms[i].of>> : i \in {j \in DOMAIN ms : Closes(ms, j)}}
RoundsOf(x) == {<<x.rounds[i].user, x.rounds[i].assistant>> : i \in DOMAIN x.rounds}

\* A question is pending for the one when it is the last message of the other.
Agree(x, ms) ==
  /\ x.pending # Nobody <=> ms # <<>> /\ ms[Len(ms)].role = "user"
  /\ x.pending # Nobody => x.pending = ms[Len(ms)].of
  /\ PairsOf(ms) = RoundsOf(x)

\* A message more on the page makes at most one pair more, the last two.
LEMMA PairsGrow ==
  ASSUME NEW ms \in Seq(Message), NEW m \in Message
  PROVE  PairsOf(Append(ms, m)) =
           PairsOf(ms) \cup IF Len(ms) > 0 /\ m.role = "assistant" /\ ms[Len(ms)].role = "user"
                            THEN {<<ms[Len(ms)].of, m.of>>} ELSE {}
<1> DEFINE n == Len(ms)
           t == Append(ms, m)
<1>1. /\ n \in Nat /\ DOMAIN ms = 1..n /\ DOMAIN t = 1..(n + 1) /\ t[n + 1] = m
      /\ \A i \in 1..n : t[i] = ms[i]
  BY LenProperties, AppendProperties
<1> HIDE DEF n, t
<1>2. ASSUME NEW p PROVE p \in PairsOf(t) <=> \E i \in 1..(n + 1) : Closes(t, i) /\ p = <<t[i - 1].of, t[i].of>>
  BY <1>1 DEF PairsOf
<1>3. ASSUME NEW p PROVE p \in PairsOf(ms) <=> \E i \in 1..n : Closes(ms, i) /\ p = <<ms[i - 1].of, ms[i].of>>
  BY <1>1 DEF PairsOf
<1>4. ASSUME NEW i \in 1..n
      PROVE  /\ Closes(t, i) <=> Closes(ms, i)
             /\ Closes(ms, i) => t[i - 1] = ms[i - 1] /\ t[i] = ms[i]
  <2>1. i > 1 => i - 1 \in 1..n
    BY <1>1
  <2> QED
    BY <1>1, <2>1 DEF Closes
<1>5. /\ Closes(t, n + 1) <=> n > 0 /\ m.role = "assistant" /\ ms[n].role = "user"
      /\ Closes(t, n + 1) => t[(n + 1) - 1] = ms[n] /\ t[n + 1] = m
  <2>1. (n + 1) - 1 = n /\ (n + 1 > 1 <=> n > 0) /\ (n > 0 => n \in 1..n)
    BY <1>1
  <2> QED
    BY <1>1, <2>1 DEF Closes
<1>6. \A i : i \in 1..(n + 1) <=> i \in 1..n \/ i = n + 1
  BY <1>1
<1>7. ASSUME NEW p
      PROVE  p \in PairsOf(t) <=>
               p \in PairsOf(ms) \/ (Closes(t, n + 1) /\ p = <<ms[n].of, m.of>>)
  <2>1. p \in PairsOf(t) <=>
          \/ \E i \in 1..n : Closes(t, i) /\ p = <<t[i - 1].of, t[i].of>>
          \/ Closes(t, n + 1) /\ p = <<t[(n + 1) - 1].of, t[n + 1].of>>
    BY <1>2, <1>6
  <2>2. (\E i \in 1..n : Closes(t, i) /\ p = <<t[i - 1].of, t[i].of>>) <=> p \in PairsOf(ms)
    BY <1>3, <1>4
  <2> QED
    BY <1>5, <2>1, <2>2
<1>8. PairsOf(t) = PairsOf(ms) \cup (IF n > 0 /\ m.role = "assistant" /\ ms[n].role = "user"
                                     THEN {<<ms[n].of, m.of>>} ELSE {})
  BY <1>5, <1>7
<1> QED
  BY <1>8 DEF n, t

\* A round more in the prompt.
LEMMA RoundsGrow ==
  ASSUME NEW x \in Reading, NEW y \in Reading, NEW round \in Round,
         y.rounds = Append(x.rounds, round)
  PROVE  RoundsOf(y) = RoundsOf(x) \cup {<<round.user, round.assistant>>}
<1> DEFINE n == Len(x.rounds)
<1>1. x.rounds \in Seq(Round)
  BY DEF Reading
<1>2. /\ n \in Nat /\ DOMAIN x.rounds = 1..n /\ DOMAIN y.rounds = 1..(n + 1)
      /\ y.rounds[n + 1] = round /\ \A i \in 1..n : y.rounds[i] = x.rounds[i]
  BY <1>1, LenProperties, AppendProperties
<1> HIDE DEF n
<1>3. \A i : i \in 1..(n + 1) <=> i \in 1..n \/ i = n + 1
  BY <1>2
<1>4. ASSUME NEW p PROVE p \in RoundsOf(y) <=> p \in RoundsOf(x) \/ p = <<round.user, round.assistant>>
  <2>1. p \in RoundsOf(y) <=> \E i \in 1..(n + 1) : p = <<y.rounds[i].user, y.rounds[i].assistant>>
    BY <1>2 DEF RoundsOf
  <2>2. p \in RoundsOf(x) <=> \E i \in 1..n : p = <<x.rounds[i].user, x.rounds[i].assistant>>
    BY <1>2 DEF RoundsOf
  <2> QED
    BY <1>2, <1>3, <2>1, <2>2
<1> QED
  BY <1>4

\* One line more keeps the two readers agreed, whatever the line is.
LEMMA AgreeMore ==
  ASSUME Legacy # Nobody, Nobody \notin Requests,
         NEW x \in Reading, NEW ms \in Seq(Message), Agree(x, ms), NEW l \in Lines
  PROVE  Agree(C!ReadLine(x, l), C!ShowLine(ms, l))
<1> DEFINE y == C!ReadLine(x, l)
           ns == C!ShowLine(ms, l)
           m == Shown(l)
<1>1. /\ y \in Reading /\ ns \in Seq(Message)
      /\ ns = IF Shows(ms, l) THEN Append(ms, m) ELSE ms
      /\ Shows(ms, l) => m \in Message
  BY ReadLineIs, ShowLineIs
<1>2. l.type \in LineTypes /\ Nobody \notin Askers
  BY DEF Lines, Askers
<1>3. Len(ms) \in Nat /\ (Len(ms) > 0 <=> ms # <<>>)
  BY EmptySeq, LenProperties
<1>4. ASSUME Shows(ms, l)
      PROVE  /\ ns # <<>> /\ ns[Len(ns)] = m /\ m.of = l.of
             /\ PairsOf(ns) = PairsOf(ms) \cup
                  IF Len(ms) > 0 /\ m.role = "assistant" /\ ms[Len(ms)].role = "user"
                  THEN {<<ms[Len(ms)].of, m.of>>} ELSE {}
  <2>1. ns = Append(ms, m) /\ m \in Message
    BY <1>1, <1>4
  <2>2. ns # <<>> /\ ns[Len(ns)] = m
    <3> HIDE DEF m, ns
    <3> QED
      BY <2>1
  <2>3. m.of = l.of
    BY DEF Shown
  <2> QED
    BY <2>1, <2>2, <2>3, PairsGrow
<1>5. CASE l.type = "user_message"
  <2>1. Shows(ms, l) /\ m.role = "user" /\ l.of # Nobody
    BY <1>2, <1>5 DEF Shows, Shown, Lines
  <2>2. y.pending = l.of /\ RoundsOf(y) = RoundsOf(x)
    <3>1. y.pending = l.of /\ y.rounds = x.rounds
      BY <1>5, ReadLineIs
    <3> HIDE DEF y
    <3> QED
      BY <3>1 DEF RoundsOf
  <2> HIDE DEF y, ns, m
  <2> QED
    BY <1>4, <2>1, <2>2 DEF Agree, y, ns
<1>6. CASE l.type \in {"response", "assistant_final"} /\ x.pending # Nobody
  <2>1. ms # <<>> /\ ms[Len(ms)].role = "user" /\ x.pending = ms[Len(ms)].of
    BY <1>6 DEF Agree
  <2>2. Shows(ms, l) /\ m.role = "assistant"
    BY <1>6, <2>1 DEF Shows, Shown
  <2> DEFINE round == [user |-> x.pending, assistant |-> l.of]
  <2>3. y.pending = Nobody /\ y.rounds = Append(x.rounds, round)
    BY <1>6, ReadLineIs
  <2>4. round \in Round /\ round.user = x.pending /\ round.assistant = l.of
    BY <1>6 DEF Round, Reading, Lines
  <2>5. RoundsOf(y) = RoundsOf(x) \cup {<<x.pending, l.of>>}
    <3> HIDE DEF round, y
    <3> QED
      BY <1>1, <2>3, <2>4, RoundsGrow
  <2> HIDE DEF y, ns, m, round
  <2> QED
    BY <1>3, <1>4, <2>1, <2>2, <2>3, <2>5 DEF Agree, y, ns
<1>7. CASE l.type \in {"response", "assistant_final"} /\ x.pending = Nobody
  <2>1. y = x
    BY <1>7, ReadLineIs
  <2>2. ~(ms # <<>> /\ ms[Len(ms)].role = "user")
    BY <1>7 DEF Agree
  <2>3. CASE Shows(ms, l)
    <3>1. m.role = "assistant"
      BY <1>7 DEF Shown
    <3> HIDE DEF y, ns, m
    <3> QED
      BY <1>3, <1>4, <1>7, <2>1, <2>2, <2>3, <3>1 DEF Agree, y, ns
  <2>4. CASE ~Shows(ms, l)
    BY <1>1, <2>1, <2>4
  <2> QED
    BY <2>3, <2>4
<1>8. CASE l.type \in {"other", "garbage"}
  <2>1. y = x
    BY <1>8, ReadLineIs
  <2>2. ~Shows(ms, l)
    BY <1>8 DEF Shows
  <2> QED
    BY <1>1, <2>1, <2>2
<1> QED
  BY <1>2, <1>5, <1>6, <1>7, <1>8 DEF LineTypes

\* The two readers agree on every log.
LEMMA ReadersAlwaysAgree ==
  ASSUME Legacy # Nobody, Nobody \notin Requests
  PROVE  \A s \in Seq(Lines) : C!Messages(s) \in Seq(Message) /\ Agree(Read(s), C!Messages(s))
<1> DEFINE T == {s \in Seq(Lines) : /\ C!Messages(s) \in Seq(Message)
                                    /\ Agree(Read(s), C!Messages(s))}
<1>1. <<>> \in T
  <2>1. <<>> \in Seq(Lines) /\ <<>> \in Seq(Message) /\ DOMAIN <<>> = {}
    OBVIOUS
  <2>2. Agree(Unread, <<>>)
    BY <2>1 DEF Agree, Unread, PairsOf, RoundsOf
  <2> QED
    BY <2>1, <2>2, ReadNothing, ShowNothing
<1>2. ASSUME NEW s \in Seq(Lines), NEW e \in Lines, s \in T PROVE Append(s, e) \in T
  <2>1. /\ Append(s, e) \in Seq(Lines) /\ Read(s) \in Reading
        /\ C!Messages(s) \in Seq(Message) /\ Agree(Read(s), C!Messages(s))
    BY <1>2, ReadType
  <2>2. /\ Read(Append(s, e)) = C!ReadLine(Read(s), e)
        /\ C!Messages(Append(s, e)) = C!ShowLine(C!Messages(s), e)
    BY ReadMore, ShowMore
  <2>3. C!ShowLine(C!Messages(s), e) \in Seq(Message)
    BY <2>1, ShowLineIs
  <2>4. Agree(C!ReadLine(Read(s), e), C!ShowLine(C!Messages(s), e))
    BY <2>1, AgreeMore
  <2> QED
    BY <2>1, <2>2, <2>3, <2>4
<1> QED
  <2> HIDE DEF T
  <2>1. Seq(Lines) \subseteq T
    BY <1>1, <1>2, SeqSetInduction
  <2> QED
    BY <2>1 DEF T

\* So do they on the log that there is.
LEMMA AgreementIsShown ==
  ASSUME Legacy # Nobody, Nobody \notin Requests, log \in Seq(Lines)
  PROVE  C!ReadersAgree
<1>1. Agree(Read(log), C!Messages(log)) /\ C!Rounds(log) = Read(log).rounds
  BY ReadersAlwaysAgree, RoundsAreRead
<1> QED
  BY <1>1 DEF C!ReadersAgree, Agree, PairsOf, Closes, RoundsOf

-----------------------------------------------------------------------------
(***************************************************************************)
(* Conversations: the log, whatever interleaves with it and kills it.      *)
(***************************************************************************)

\* The lines that the next append leaves as they are.
Safe == IF unterminated THEN SubSeq(log, 1, Len(log) - 1) ELSE log

HasRound(s, r) == \E i \in DOMAIN Read(s).rounds :
                    Read(s).rounds[i] = [user |-> r, assistant |-> r]
Paired(s) == \A i \in DOMAIN Read(s).rounds : Read(s).rounds[i].user = Read(s).rounds[i].assistant

\* What the lines of a request are.
LEMMA LinesAre ==
  /\ C!Garbage \in Lines /\ C!Garbage.type = "garbage"
  /\ C!Other \in Lines /\ C!Other.type = "other"
  /\ \A r \in Requests : /\ C!User(r) \in Lines /\ C!User(r).type = "user_message"
                         /\ C!User(r).of = r
                         /\ C!Response(r) \in Lines /\ C!Response(r).type = "response"
                         /\ C!Response(r).of = r
  BY DEF C!Garbage, C!Other, C!User, C!Response, Lines, LineTypes, Askers

\* A log is its safe lines, and one more if that lacks its newline; an append
\* adds one line to the safe ones.
LEMMA SafeIs ==
  ASSUME log \in Seq(Lines), unterminated \in BOOLEAN, unterminated => log # <<>>
  PROVE  /\ Safe \in Seq(Lines)
         /\ ~unterminated => Safe = log
         /\ unterminated => \E x \in Lines : log = Append(Safe, x)
         /\ \A e \in Lines : C!Appended(e) = Append(Safe, IF unterminated THEN C!Garbage ELSE e)
<1>1. CASE ~unterminated
  BY <1>1 DEF Safe, C!Appended
<1>2. CASE unterminated
  <2> DEFINE n == Len(log)
  <2>1. n \in Nat /\ n > 0 /\ DOMAIN log = 1..n /\ \A i \in 1..n : log[i] \in Lines
    BY <1>2, EmptySeq, LenProperties, ElementOfSeq
  <2>2. Safe = SubSeq(log, 1, n - 1)
    BY <1>2 DEF Safe
  <2>3. Safe \in Seq(Lines) /\ Len(Safe) = n - 1 /\ \A i \in 1..(n - 1) : Safe[i] = log[i]
    BY <2>1, <2>2
  <2>8. Len(Safe) + 1 = n /\ log[n] \in Lines
    BY <2>1, <2>3
  <2>4. log = Append(Safe, log[n])
    <3>1. Append(Safe, log[n]) \in Seq(Lines) /\ Len(Append(Safe, log[n])) = n
      BY <2>3, <2>8, AppendProperties
    <3>2. \A i \in 1..n : Append(Safe, log[n])[i] = log[i]
      <4>1. n \in 1..n
        BY <2>1
      <4> QED
        BY <2>3, <2>8, <4>1, AppendProperties
    <3> QED
      BY <2>1, <3>1, <3>2, SeqEqual
  <2>5. C!Appended(C!Garbage) = Append(Safe, C!Garbage)
    <3>1. C!Appended(C!Garbage) = [log EXCEPT ![n] = C!Garbage]
      BY <1>2 DEF C!Appended
    <3>2. [log EXCEPT ![n] = C!Garbage] \in Seq(Lines) /\ Len([log EXCEPT ![n] = C!Garbage]) = n
      BY <2>1, LinesAre, ExceptSeq
    <3>3. Append(Safe, C!Garbage) \in Seq(Lines) /\ Len(Append(Safe, C!Garbage)) = n
      BY <2>3, <2>8, LinesAre, AppendProperties
    <3>4. \A i \in 1..n : Append(Safe, C!Garbage)[i] = [log EXCEPT ![n] = C!Garbage][i]
      <4>1. C!Garbage \in Lines
        BY LinesAre
      <4>2. \A i \in 1..n : Append(Safe, C!Garbage)[i] = IF i = n THEN C!Garbage ELSE log[i]
        <5>1. /\ Append(Safe, C!Garbage)[Len(Safe) + 1] = C!Garbage
              /\ \A i \in 1..Len(Safe) : Append(Safe, C!Garbage)[i] = Safe[i]
          BY <2>3, <4>1, AppendProperties
        <5>2. \A i : i \in 1..n <=> i \in 1..(n - 1) \/ i = n
          BY <2>1
        <5>3. n \notin 1..(n - 1)
          BY <2>1
        <5> QED
          BY <2>3, <2>8, <5>1, <5>2, <5>3
      <4> QED
        BY <2>1, <4>2
    <3> QED
      BY <3>1, <3>2, <3>3, <3>4, SeqEqual
  <2>6. \A e : C!Appended(e) = C!Appended(C!Garbage)
    BY <1>2 DEF C!Appended
  <2> QED
    BY <1>2, <2>3, <2>4, <2>5, <2>6, <2>8
<1> QED
  BY <1>1, <1>2

\* An append that is cut short leaves the lines that were safe before it.
LEMMA SafeAfter ==
  ASSUME NEW s \in Seq(Lines), NEW x \in Lines, log' = Append(s, x)
  PROVE  /\ unterminated' = TRUE => Safe' = s
         /\ unterminated' = FALSE => Safe' = Append(s, x)
         /\ log' # <<>>
<1>1. Len(Append(s, x)) - 1 = Len(s) /\ SubSeq(Append(s, x), 1, Len(s)) = s /\ Append(s, x) # <<>>
  <2>1. Append(s, x) \in Seq(Lines) /\ Len(Append(s, x)) = Len(s) + 1 /\ Len(s) \in Nat
    OBVIOUS
  <2>2. SubSeq(Append(s, x), 1, Len(s)) \in Seq(Lines) /\ Len(SubSeq(Append(s, x), 1, Len(s))) = Len(s)
    BY <2>1
  <2>3. \A i \in 1..Len(s) : SubSeq(Append(s, x), 1, Len(s))[i] = s[i]
    BY <2>1
  <2> QED
    BY <2>1, <2>2, <2>3, SeqEqual
<1> QED
  BY <1>1 DEF Safe

\* What a line does to the rounds read so far.
LEMMA OneLineMore ==
  ASSUME NEW s \in Seq(Lines), NEW l \in Lines
  PROVE  LET t == Append(s, l)
         IN /\ t \in Seq(Lines)
            /\ \A r : HasRound(s, r) => HasRound(t, r)
            /\ l.type = "user_message" => Read(t).pending = l.of
            /\ l.type \in {"other", "garbage"} => Read(t) = Read(s)
            /\ l.type \in {"user_message", "other", "garbage"} =>
                 (Paired(s) => Paired(t)) /\ \A r : HasRound(t, r) <=> HasRound(s, r)
            /\ l.type = "response" /\ Read(s).pending = l.of /\ l.of # Nobody =>
                 HasRound(t, l.of) /\ (Paired(s) => Paired(t))
<1> DEFINE t == Append(s, l)
           x == Read(s)
           y == Read(t)
<1>1. t \in Seq(Lines) /\ x \in Reading /\ y = C!ReadLine(x, l)
  BY ReadType, ReadMore
<1>2. x.rounds \in Seq(Round) /\ l.type \in LineTypes
  BY <1>1 DEF Reading, Lines
<1> HIDE DEF t, x, y
<1>3. CASE l.type = "user_message"
  <2>1. y.pending = l.of /\ y.rounds = x.rounds
    BY <1>1, <1>3, ReadLineIs
  <2> QED
    BY <1>1, <1>3, <2>1 DEF HasRound, Paired, t, x, y
<1>4. CASE l.type \in {"other", "garbage"}
  <2>1. y = x
    BY <1>1, <1>4, ReadLineIs
  <2> QED
    BY <1>1, <1>4, <2>1 DEF HasRound, Paired, t, x, y
<1>5. CASE l.type \in {"response", "assistant_final"} /\ x.pending # Nobody
  <2> DEFINE round == [user |-> x.pending, assistant |-> l.of]
             n == Len(x.rounds)
  <2>1. y.rounds = Append(x.rounds, round)
    BY <1>1, <1>5, ReadLineIs
  <2>2. round.user = x.pending /\ round.assistant = l.of
    OBVIOUS
  <2>3. n \in Nat /\ DOMAIN x.rounds = 1..n /\ DOMAIN y.rounds = 1..(n + 1)
        /\ y.rounds[n + 1] = round /\ \A i \in 1..n : y.rounds[i] = x.rounds[i]
    BY <1>2, <2>1, LenProperties, AppendProperties
  <2>4. \A i : i \in 1..(n + 1) <=> i \in 1..n \/ i = n + 1
    BY <2>3
  <2>5. \A r : HasRound(s, r) => HasRound(t, r)
    <3> HIDE DEF n, round
    <3> QED
      BY <2>3, <2>4 DEF HasRound, x, y
  <2>6. ASSUME x.pending = l.of PROVE HasRound(t, l.of) /\ (Paired(s) => Paired(t))
    <3>1. round = [user |-> l.of, assistant |-> l.of] /\ round.user = round.assistant
      BY <2>6
    <3> HIDE DEF n, round
    <3> QED
      BY <2>3, <2>4, <3>1 DEF HasRound, Paired, x, y
  <2> QED
    BY <1>1, <1>5, <2>5, <2>6 DEF t, x
<1>6. CASE l.type \in {"response", "assistant_final"} /\ x.pending = Nobody
  <2>1. y = x
    BY <1>1, <1>6, ReadLineIs
  <2> QED
    BY <1>1, <1>6, <2>1 DEF HasRound, Paired, t, x, y
<1> QED
  BY <1>2, <1>3, <1>4, <1>5, <1>6 DEF LineTypes

\* The history has no more rounds than the request asked for.
LEMMA LastRoundsAre ==
  ASSUME NEW s \in Seq(Lines), NEW n \in Nat
  PROVE  C!LastRounds(s, n) \in Seq(Round) /\ Len(C!LastRounds(s, n)) <= n
<1> DEFINE rounds == C!Rounds(s)
           first == IF Len(rounds) <= n THEN 1 ELSE 1 + Len(rounds) - n
<1>1. rounds \in Seq(Round)
  BY ReadType, RoundsAreRead DEF Reading
<1>2. C!LastRounds(s, n) = SubSeq(rounds, first, Len(rounds))
  BY DEF C!LastRounds
<1> HIDE DEF rounds
<1>3. Len(rounds) \in Nat /\ first \in Nat \ {0} /\ first <= Len(rounds) + 1
      /\ Len(rounds) - first + 1 <= n
  BY <1>1
<1> HIDE DEF first
<1>4. /\ SubSeq(rounds, first, Len(rounds)) \in Seq(Round)
      /\ Len(SubSeq(rounds, first, Len(rounds))) =
           IF first <= Len(rounds) THEN Len(rounds) - first + 1 ELSE 0
  BY <1>1, <1>3, SubSeqProperties
<1> QED
  BY <1>2, <1>3, <1>4

-----------------------------------------------------------------------------
(***************************************************************************)
(* The inductive invariant of the log.  A torn write leaves a line without *)
(* its newline; the damage is in the safe lines only once the next append  *)
(* has garbled it.                                                         *)
(***************************************************************************)

PcStages == {"idle", "prepared", "asked", "traced", "answered", "done"}
Asking == {"asked", "traced", "answered"}

LogTypes ==
  /\ log \in Seq(Lines) /\ unterminated \in BOOLEAN /\ tears \in Nat
  /\ unterminated => log # <<>> /\ tears > 0
  /\ logLease \in Requests \cup {Nobody} /\ pc \in [Requests -> PcStages]
  /\ history \in [Requests -> Seq(Round)] /\ asked \in [Requests -> Nat]
  /\ complete \subseteq Requests

LogOwned ==
  \A r \in Requests : /\ pc[r] \notin {"idle", "done"} <=> logLease = r
                      /\ pc[r] \in Asking => ~unterminated

HistoryGiven ==
  \A r \in Requests : /\ Len(history[r]) <= asked[r]
                      /\ pc[r] = "prepared" => history[r] = C!LastRounds(log, asked[r])

Logged(r) == \E i \in DOMAIN log : log[i] = C!User(r) \/ (log[i] = C!Garbage /\ tears > 0)
QuestionLogged == \A r \in Requests : pc[r] \in Asking => Logged(r)

Intact ==
  tears = 0 => /\ Paired(log)
               /\ \A r \in Requests : pc[r] \in {"asked", "traced"} => Read(log).pending = r

\* Requests whose round is lost, or will be unless the turn fails.
Damaged ==
  {r \in complete : ~HasRound(Safe, r)} \cup
  {r \in Requests : pc[r] \in {"asked", "traced"} /\ Read(Safe).pending # r}
Torn1 == IF unterminated THEN 1 ELSE 0
Contained == IsFiniteSet(Damaged) /\ Cardinality(Damaged) + Torn1 <= tears

LogInv == LogTypes /\ LogOwned /\ HistoryGiven /\ QuestionLogged /\ Intact /\ Contained

\* A step that damages no more, and leaves no more torn lines.
LEMMA NoMoreDamage ==
  ASSUME LogTypes, Contained, Damaged' \subseteq Damaged, unterminated' = FALSE \/ unterminated' = unterminated,
         tears' = tears
  PROVE  Contained'
<1>1. IsFiniteSet(Damaged') /\ Cardinality(Damaged') <= Cardinality(Damaged)
  <2>1. IsFiniteSet(Damaged)
    BY DEF Contained
  <2> HIDE DEF Damaged
  <2> QED
    BY <2>1, FS_Subset, Zenon
<1>2. Cardinality(Damaged) \in Nat /\ Cardinality(Damaged') \in Nat
  BY <1>1, FS_CardinalityType DEF Contained
<1>3. Cardinality(Damaged) + Torn1 <= tears
  BY DEF Contained
<1>4. Torn1' <= Torn1 /\ Torn1 \in Nat /\ Torn1' \in Nat
  BY DEF LogTypes, Torn1
<1>5. tears \in Nat
  BY DEF LogTypes
<1> HIDE DEF Damaged, Torn1
<1>6. Cardinality(Damaged') + Torn1' <= tears'
  BY <1>1, <1>2, <1>3, <1>4, <1>5
<1> QED
  BY <1>1, <1>6 DEF Contained

\* Steps that leave the file alone, and begin no question.
LEMMA FileAlone ==
  ASSUME LogInv, UNCHANGED <<log, unterminated, asked, complete, tears>>,
         LogTypes', LogOwned', HistoryGiven',
         \A r \in Requests : pc'[r] \in Asking => pc'[r] = pc[r]
  PROVE  LogInv'
<1>1. QuestionLogged'
  BY DEF LogInv, QuestionLogged, Logged
<1>2. Intact'
  BY DEF LogInv, Intact, Paired, Asking
<1>3. Safe' = Safe
  BY DEF Safe
<1>4. Damaged' \subseteq Damaged
  BY <1>3 DEF Damaged, HasRound, Asking
<1>5. Contained'
  BY <1>4, NoMoreDamage DEF LogInv
<1> QED
  BY <1>1, <1>2, <1>5 DEF LogInv

\* A line that is appended by the request that holds the lease.
LEMMA Writes ==
  ASSUME LogInv, NEW e \in Lines, C!Write(e)
  PROVE  LET x == IF unterminated THEN C!Garbage ELSE e
         IN /\ x \in Lines /\ Safe \in Seq(Lines) /\ log' = Append(Safe, x)
            /\ log' \in Seq(Lines) /\ unterminated' = FALSE /\ Safe' = log'
            /\ ~unterminated => Safe = log
            /\ unterminated => tears > 0
            /\ \A i \in DOMAIN Safe : i \in DOMAIN log' /\ log'[i] = Safe[i]
            /\ \E i \in DOMAIN log' : log'[i] = x
<1> DEFINE x == IF unterminated THEN C!Garbage ELSE e
<1>1. log \in Seq(Lines) /\ unterminated \in BOOLEAN /\ (unterminated => log # <<>> /\ tears > 0)
  BY DEF LogInv, LogTypes
<1>2. /\ Safe \in Seq(Lines) /\ (~unterminated => Safe = log)
      /\ log' = Append(Safe, x) /\ unterminated' = FALSE
  BY <1>1, SafeIs DEF C!Write
<1>3. x \in Lines
  BY LinesAre
<1> HIDE DEF x
<1>4. Safe' = log' /\ log' \in Seq(Lines)
  <2>1. Append(Safe, x) \in Seq(Lines)
    BY <1>2, <1>3, AppendProperties
  <2>2. Safe' = Append(Safe, x)
    <3> DEFINE s == Safe
    <3>1. s \in Seq(Lines) /\ log' = Append(s, x)
      BY <1>2
    <3> HIDE DEF s
    <3>2. Safe' = Append(s, x)
      BY <1>2, <1>3, <3>1, SafeAfter
    <3> QED
      BY <3>2 DEF s
  <2> QED
    BY <1>2, <2>1, <2>2
<1>5. /\ \A i \in DOMAIN Safe : i \in DOMAIN log' /\ log'[i] = Safe[i]
      /\ \E i \in DOMAIN log' : log'[i] = x
  <2>1. /\ Len(log') = Len(Safe) + 1 /\ log'[Len(Safe) + 1] = x /\ Len(Safe) \in Nat
        /\ \A i \in 1..Len(Safe) : log'[i] = Safe[i]
        /\ DOMAIN Safe = 1..Len(Safe) /\ DOMAIN log' = 1..(Len(Safe) + 1)
    BY <1>2, <1>3, <1>4, AppendProperties, LenProperties
  <2> QED
    BY <2>1
<1> QED
  BY <1>1, <1>2, <1>3, <1>4, <1>5 DEF x

\* Ask: the question, or the torn line it garbled, is now in the log.
LEMMA AskKeeps ==
  ASSUME C!NamesAssumption, LogInv, NEW r \in Requests, C!Ask(r) PROVE LogInv'
<1>1. /\ pc[r] = "prepared" /\ pc' = [pc EXCEPT ![r] = "asked"]
      /\ C!Write(C!User(r)) /\ UNCHANGED <<logLease, history, asked, complete, tears>>
  BY DEF C!Ask, C!At, C!GoTo
<1> DEFINE x == IF unterminated THEN C!Garbage ELSE C!User(r)
<1>2. /\ C!User(r) \in Lines /\ C!User(r).type = "user_message" /\ C!User(r).of = r
      /\ C!Garbage \in Lines /\ C!Garbage.type = "garbage"
  BY LinesAre
<1>3. /\ x \in Lines /\ Safe \in Seq(Lines) /\ log' = Append(Safe, x)
      /\ log' \in Seq(Lines) /\ unterminated' = FALSE /\ Safe' = log'
      /\ ~unterminated => Safe = log
      /\ unterminated => tears > 0
      /\ \E i \in DOMAIN log' : log'[i] = x
  BY <1>1, <1>2, Writes
<1>4. pc'[r] = "asked" /\ \A s \in Requests : s # r => pc'[s] = pc[s] /\ pc[s] \in {"idle", "done"}
  BY <1>1 DEF LogInv, LogTypes, LogOwned
<1>5. LogTypes'
  BY <1>1, <1>3 DEF LogInv, LogTypes, PcStages
<1>6. LogOwned'
  BY <1>1, <1>3, <1>4 DEF LogInv, LogOwned
<1>7. HistoryGiven'
  BY <1>1, <1>4 DEF LogInv, HistoryGiven
<1>8. QuestionLogged'
  <2>1. Logged(r)'
    BY <1>1, <1>3 DEF Logged
  <2> QED
    BY <1>4, <2>1 DEF QuestionLogged, Asking
<1> HIDE DEF x
<1>9. Intact'
  <2> SUFFICES ASSUME tears = 0 PROVE Paired(log)' /\ Read(log').pending = r
    BY <1>1, <1>4 DEF Intact
  <2>1. x = C!User(r) /\ Safe = log /\ Paired(log)
    BY <1>3 DEF x, LogInv, LogTypes, Intact
  <2>2. Paired(Append(log, x)) /\ Read(Append(log, x)).pending = r
    BY <1>2, <1>3, <2>1, OneLineMore
  <2> QED
    BY <1>3, <2>1, <2>2 DEF Paired
<1>10. \A q : HasRound(Safe', q) <=> HasRound(Safe, q)
  BY <1>2, <1>3, OneLineMore DEF x
<1>11. CASE ~unterminated
  <2>1. x = C!User(r) /\ Read(Safe').pending = r
    BY <1>2, <1>3, <1>11, OneLineMore DEF x
  <2>2. Damaged' \subseteq Damaged
    BY <1>1, <1>4, <1>10, <2>1 DEF Damaged, HasRound
  <2>3. Contained'
    BY <1>1, <1>3, <2>2, NoMoreDamage DEF LogInv
  <2> QED
    BY <1>5, <1>6, <1>7, <1>8, <1>9, <2>3 DEF LogInv
<1>12. CASE unterminated
  <2>1. Damaged' \subseteq Damaged \cup {r}
    BY <1>1, <1>4, <1>10 DEF Damaged, HasRound
  <2>2. IsFiniteSet(Damaged) /\ Cardinality(Damaged) + 1 <= tears /\ tears \in Nat
    BY <1>12 DEF LogInv, Contained, Torn1, LogTypes
  <2> HIDE DEF Damaged
  <2>3. IsFiniteSet(Damaged \cup {r}) /\ Cardinality(Damaged \cup {r}) <= Cardinality(Damaged) + 1
    BY <2>2, FS_AddElement, FS_CardinalityType
  <2>4. IsFiniteSet(Damaged') /\ Cardinality(Damaged') <= Cardinality(Damaged \cup {r})
    BY <2>1, <2>3, FS_Subset, Zenon
  <2>5. /\ Cardinality(Damaged) \in Nat /\ Cardinality(Damaged') \in Nat
        /\ Cardinality(Damaged \cup {r}) \in Nat
    BY <2>2, <2>3, <2>4, FS_CardinalityType
  <2>6. Torn1' = 0
    BY <1>3 DEF Torn1
  <2>7. Cardinality(Damaged') + Torn1' <= tears'
    BY <1>1, <2>2, <2>3, <2>4, <2>5, <2>6
  <2>8. Contained'
    BY <2>4, <2>7 DEF Contained
  <2> QED
    BY <1>5, <1>6, <1>7, <1>8, <1>9, <2>8 DEF LogInv
<1>13. unterminated \in BOOLEAN
  BY DEF LogInv, LogTypes
<1> QED
  BY <1>11, <1>12, <1>13

\* Trace, and Conclude when it writes: lines no reader looks at.
LEMMA TraceKeeps ==
  ASSUME C!NamesAssumption, LogInv, NEW r \in Requests, NEW next \in {"traced", "done"},
         pc[r] \in {"asked", "answered"}, next = "traced" => pc[r] = "asked",
         C!Write(C!Other), pc' = [pc EXCEPT ![r] = next],
         logLease' = IF next = "traced" THEN logLease ELSE Nobody,
         UNCHANGED <<history, asked, complete, tears>>
  PROVE  LogInv'
<1>1. pc[r] \in Asking /\ ~unterminated
  BY DEF LogInv, LogOwned, Asking
<1>2. C!Other \in Lines /\ C!Other.type = "other"
  BY LinesAre
<1>3. /\ Safe = log /\ log \in Seq(Lines) /\ log' = Append(log, C!Other)
      /\ log' \in Seq(Lines) /\ unterminated' = FALSE /\ Safe' = log'
      /\ \A i \in DOMAIN log : i \in DOMAIN log' /\ log'[i] = log[i]
  BY <1>1, <1>2, Writes
<1>4. pc'[r] = next /\ \A s \in Requests : s # r => pc'[s] = pc[s] /\ pc[s] \in {"idle", "done"}
  BY <1>1 DEF LogInv, LogTypes, LogOwned, Asking
<1>5. LogTypes'
  BY <1>3 DEF LogInv, LogTypes, PcStages
<1>6. LogOwned'
  BY <1>3, <1>4 DEF LogInv, LogOwned, C!NamesAssumption
<1>7. HistoryGiven'
  BY <1>4 DEF LogInv, HistoryGiven
<1>8. QuestionLogged'
  <2>1. Logged(r)'
    BY <1>1, <1>3 DEF Logged, LogInv, QuestionLogged
  <2> QED
    BY <1>4, <2>1 DEF QuestionLogged, Asking
<1>9. Read(log') = Read(log) /\ \A q : HasRound(log', q) <=> HasRound(log, q)
  BY <1>2, <1>3, OneLineMore
<1>10. Intact'
  BY <1>4, <1>9 DEF LogInv, Intact, Paired
<1>11. Damaged' \subseteq Damaged
  BY <1>3, <1>4, <1>9 DEF Damaged, HasRound
<1>12. Contained'
  BY <1>3, <1>11, NoMoreDamage DEF LogInv
<1> QED
  BY <1>5, <1>6, <1>7, <1>8, <1>10, <1>12 DEF LogInv

\* Answer: it closes the question it belongs to, unless that is lost.
LEMMA AnswerKeeps ==
  ASSUME C!NamesAssumption, LogInv, NEW r \in Requests, C!Answer(r) PROVE LogInv'
<1>1. /\ pc[r] = "traced" /\ pc' = [pc EXCEPT ![r] = "answered"]
      /\ C!Write(C!Response(r)) /\ complete' = complete \cup {r}
      /\ UNCHANGED <<logLease, history, asked, tears>>
  BY DEF C!Answer, C!At, C!GoTo
<1>2. C!Response(r) \in Lines /\ C!Response(r).type = "response" /\ C!Response(r).of = r
  BY LinesAre
<1>3. ~unterminated /\ r # Nobody
  BY <1>1 DEF LogInv, LogOwned, Asking, C!NamesAssumption
<1>4. /\ Safe = log /\ log \in Seq(Lines) /\ log' = Append(log, C!Response(r))
      /\ log' \in Seq(Lines) /\ unterminated' = FALSE /\ Safe' = log'
      /\ \A i \in DOMAIN log : i \in DOMAIN log' /\ log'[i] = log[i]
  BY <1>1, <1>2, <1>3, Writes
<1>5. pc'[r] = "answered" /\ \A s \in Requests : s # r => pc'[s] = pc[s] /\ pc[s] \in {"idle", "done"}
  BY <1>1 DEF LogInv, LogTypes, LogOwned
<1>6. LogTypes'
  BY <1>1, <1>4 DEF LogInv, LogTypes, PcStages
<1>7. LogOwned'
  BY <1>1, <1>4, <1>5 DEF LogInv, LogOwned
<1>8. HistoryGiven'
  BY <1>1, <1>5 DEF LogInv, HistoryGiven
<1>9. QuestionLogged'
  <2>1. Logged(r)'
    BY <1>1, <1>4 DEF Logged, LogInv, QuestionLogged, Asking
  <2> QED
    BY <1>5, <2>1 DEF QuestionLogged, Asking
<1>10. /\ \A q : HasRound(log, q) => HasRound(log', q)
       /\ Read(log).pending = r => HasRound(log', r) /\ (Paired(log) => Paired(log'))
  BY <1>2, <1>3, <1>4, OneLineMore
<1>11. Intact'
  BY <1>1, <1>5, <1>10 DEF LogInv, Intact, Paired
<1>12. Damaged' \subseteq Damaged
  <2>1. ASSUME NEW q \in Damaged' PROVE q \in Damaged
    <3>1. q \in complete \cup {r} /\ ~HasRound(log', q)
      BY <1>1, <1>4, <1>5, <2>1 DEF Damaged, HasRound
    <3>2. CASE q \in complete
      BY <1>4, <1>10, <3>1, <3>2 DEF Damaged
    <3>3. CASE q = r
      BY <1>1, <1>4, <1>10, <3>1, <3>3 DEF Damaged
    <3> QED
      BY <3>1, <3>2, <3>3
  <2> QED
    BY <2>1
<1>13. Contained'
  BY <1>1, <1>4, <1>12, NoMoreDamage DEF LogInv
<1> QED
  BY <1>6, <1>7, <1>8, <1>9, <1>11, <1>13 DEF LogInv

\* Who is killed holds the lease, and nothing runs after it.
LEMMA DeadThen ==
  ASSUME LogTypes, LogOwned, C!Die
  PROVE  /\ pc' \in [Requests -> PcStages] /\ logLease' = Nobody
         /\ \A s \in Requests : pc'[s] \in {"idle", "done"}
  BY DEF LogTypes, PcStages, C!Die, C!Running

\* CrashInAppend: one tear more, and the safe lines as they were.
LEMMA TearKeeps ==
  ASSUME C!NamesAssumption, LogInv, NEW r \in Requests, C!CrashInAppend(r) PROVE LogInv'
<1>1. PICK e \in {C!Garbage, C!NextLine(r)} : log' = C!Appended(e)
  BY DEF C!CrashInAppend
<1>2. /\ tears' = tears + 1 /\ unterminated' = TRUE /\ C!Die
      /\ UNCHANGED <<history, asked, complete>>
  BY DEF C!CrashInAppend, C!Die
<1>3. e \in Lines /\ C!Garbage \in Lines
  BY <1>1, LinesAre DEF C!NextLine
<1> DEFINE x == IF unterminated THEN C!Garbage ELSE e
           s == Safe
<1>4. s \in Seq(Lines) /\ log' = Append(s, x) /\ x \in Lines
  BY <1>1, <1>3, SafeIs DEF LogInv, LogTypes
<1> HIDE DEF s, x
<1>5. log' # <<>> /\ Safe' = s /\ log' \in Seq(Lines)
  BY <1>2, <1>4, SafeAfter, AppendProperties
<1>6. /\ pc' \in [Requests -> PcStages] /\ logLease' = Nobody
      /\ \A q \in Requests : pc'[q] \in {"idle", "done"}
  BY <1>2, DeadThen DEF LogInv
<1>7. LogTypes'
  BY <1>2, <1>5, <1>6 DEF LogInv, LogTypes
<1>8. LogOwned' /\ QuestionLogged'
  BY <1>6 DEF LogOwned, QuestionLogged, Asking, C!NamesAssumption
<1>9. HistoryGiven'
  BY <1>2, <1>6 DEF LogInv, HistoryGiven
<1>10. tears \in Nat /\ tears' # 0
  BY <1>2 DEF LogInv, LogTypes
<1>11. Intact'
  BY <1>10 DEF Intact
<1>12. Damaged' \subseteq Damaged
  BY <1>2, <1>5, <1>6 DEF Damaged, HasRound, s
<1>13. Contained'
  <2>1. IsFiniteSet(Damaged) /\ Cardinality(Damaged) + Torn1 <= tears
    BY DEF LogInv, Contained
  <2> HIDE DEF Damaged
  <2>2. IsFiniteSet(Damaged') /\ Cardinality(Damaged') <= Cardinality(Damaged)
    BY <1>12, <2>1, FS_Subset, Zenon
  <2>3. Cardinality(Damaged) \in Nat /\ Cardinality(Damaged') \in Nat
    BY <2>1, <2>2, FS_CardinalityType
  <2>4. Torn1 \in Nat /\ Torn1' = 1
    BY <1>2 DEF Torn1
  <2>5. Cardinality(Damaged') + Torn1' <= tears'
    BY <1>2, <1>10, <2>1, <2>2, <2>3, <2>4
  <2> QED
    BY <2>2, <2>5 DEF Contained
<1> QED
  BY <1>7, <1>8, <1>9, <1>11, <1>13 DEF LogInv

\* Prune: nobody asks while the script holds the lease.
LEMMA PruneKeeps ==
  ASSUME C!NamesAssumption, LogInv, C!Prune PROVE LogInv'
<1>1. /\ logLease = Nobody /\ log' = <<>> /\ unterminated' = FALSE /\ complete' = {}
      /\ UNCHANGED <<logLease, pc, history, asked, tears>>
  BY DEF C!Prune, C!LeaseFree
<1>2. \A q \in Requests : pc[q] \in {"idle", "done"}
  BY <1>1 DEF LogInv, LogOwned, C!NamesAssumption
<1>3. log' \in Seq(Lines) /\ Safe' = <<>> /\ Read(log') = Unread
  BY <1>1, ReadNothing DEF Safe
<1>4. LogTypes' /\ LogOwned' /\ QuestionLogged' /\ HistoryGiven'
  BY <1>1, <1>2, <1>3 DEF LogInv, LogTypes, LogOwned, QuestionLogged, Asking, HistoryGiven
<1>5. Intact'
  BY <1>1, <1>2, <1>3 DEF Intact, Paired, Unread
<1>6. Damaged' \subseteq Damaged
  BY <1>1, <1>2 DEF Damaged
<1>7. Contained'
  BY <1>1, <1>6, NoMoreDamage DEF LogInv
<1> QED
  BY <1>4, <1>5, <1>7 DEF LogInv

\* Every step of a request, the retention script and a crash keeps the log.
LEMMA LogStep ==
  ASSUME C!NamesAssumption, LogInv, C!Next \/ UNCHANGED logVars PROVE LogInv'
<1>1. LogTypes /\ LogOwned /\ HistoryGiven /\ Nobody \notin Requests
  BY DEF LogInv, C!NamesAssumption
<1>2. ASSUME NEW r \in Requests, C!Prepare(r) PROVE LogInv'
  <2>1. /\ pc[r] = "idle" /\ logLease = Nobody /\ logLease' = r
        /\ history' = [history EXCEPT ![r] = C!LastRounds(log, asked[r])]
        /\ pc' = [pc EXCEPT ![r] = "prepared"]
        /\ UNCHANGED <<log, unterminated, asked, complete, tears>>
    BY <1>2 DEF C!Prepare, C!At, C!GoTo, C!LeaseFree, C!file
  <2>2. log \in Seq(Lines) /\ asked[r] \in Nat
    BY <1>1 DEF LogTypes
  <2>3. /\ C!LastRounds(log, asked[r]) \in Seq(Round)
        /\ Len(C!LastRounds(log, asked[r])) <= asked[r]
    BY <2>2, LastRoundsAre
  <2>4. pc'[r] = "prepared" /\ \A q \in Requests : q # r => pc'[q] = pc[q] /\ pc[q] \in {"idle", "done"}
    BY <1>1, <2>1 DEF LogTypes, LogOwned
  <2>5. LogTypes'
    BY <1>1, <2>1, <2>3 DEF LogTypes, PcStages
  <2>6. LogOwned'
    BY <1>1, <2>1, <2>4 DEF LogOwned, Asking
  <2>7. history'[r] = C!LastRounds(log, asked[r]) /\ \A q \in Requests : q # r => history'[q] = history[q]
    BY <1>1, <2>1 DEF LogTypes
  <2>8. HistoryGiven'
    BY <1>1, <2>1, <2>3, <2>4, <2>7 DEF HistoryGiven
  <2> QED
    BY <2>1, <2>4, <2>5, <2>6, <2>8, FileAlone DEF Asking
<1>3. ASSUME NEW r \in Requests, C!ProfileBusy(r) \/ C!Reject(r) \/ C!TurnRaises(r)
             \/ (C!Conclude(r) /\ UNCHANGED log /\ UNCHANGED unterminated)
      PROVE  LogInv'
  <2>1. /\ pc' = [pc EXCEPT ![r] = "done"]
        /\ pc[r] # "idle" => logLease' = IF logLease = r THEN Nobody ELSE logLease
        /\ pc[r] = "idle" => logLease' = logLease
        /\ UNCHANGED <<log, unterminated, history, asked, complete, tears>>
    BY <1>3 DEF C!ProfileBusy, C!Reject, C!TurnRaises, C!Conclude, C!Finish, C!At, C!GoTo, C!file
  <2>4. pc'[r] = "done" /\ \A q \in Requests : q # r => pc'[q] = pc[q]
    BY <1>1, <2>1 DEF LogTypes
  <2>5. LogTypes'
    BY <1>1, <2>1 DEF LogTypes, PcStages
  <2>6. LogOwned'
    BY <1>1, <2>1, <2>4 DEF LogTypes, LogOwned, Asking
  <2>8. HistoryGiven'
    BY <1>1, <2>1, <2>4 DEF HistoryGiven
  <2> QED
    BY <2>1, <2>4, <2>5, <2>6, <2>8, FileAlone DEF Asking
<1>4. ASSUME NEW r \in Requests, C!Trace(r) PROVE LogInv'
  BY <1>4, TraceKeeps DEF C!Trace, C!At, C!GoTo
<1>5. ASSUME NEW r \in Requests, C!Conclude(r), C!Write(C!Other) PROVE LogInv'
  <2>1. pc[r] = "answered" /\ logLease = r
    BY <1>1, <1>5 DEF C!Conclude, C!At, LogOwned
  <2> QED
    BY <1>5, <2>1, TraceKeeps DEF C!Conclude, C!Finish, C!At, C!GoTo
<1>6. CASE C!Crash
  <2>1. C!Die /\ UNCHANGED <<log, unterminated, history, asked, complete, tears>>
    BY <1>6 DEF C!Crash, C!Die, C!file
  <2>2. /\ pc' \in [Requests -> PcStages] /\ logLease' = Nobody
        /\ \A q \in Requests : pc'[q] \in {"idle", "done"}
    BY <1>1, <2>1, DeadThen
  <2>3. LogTypes' /\ LogOwned' /\ HistoryGiven'
    BY <1>1, <2>1, <2>2 DEF LogTypes, LogOwned, HistoryGiven, Asking
  <2> QED
    BY <2>1, <2>2, <2>3, FileAlone DEF Asking
<1>7. CASE C!GrowOld \/ UNCHANGED logVars
  <2>1. UNCHANGED <<log, unterminated, logLease, pc, history, asked, complete, tears>>
    BY <1>7 DEF C!GrowOld, logVars
  <2>2. LogTypes' /\ LogOwned' /\ HistoryGiven'
    BY <1>1, <2>1 DEF LogTypes, LogOwned, HistoryGiven
  <2> QED
    BY <2>1, <2>2, FileAlone
<1>8. ASSUME NEW r \in Requests, C!Conclude(r) PROVE LogInv'
  BY <1>3, <1>5, <1>8 DEF C!Conclude, C!file
<1> QED
  BY <1>2, <1>3, <1>4, <1>6, <1>7, <1>8, AskKeeps, AnswerKeeps, TearKeeps, PruneKeeps
  DEF C!Next

\* The log an older release left is one in which every answer is its own.
LEMMA LegacyIsPaired ==
  ASSUME C!NamesAssumption, NEW s \in C!LegacyLogs
  PROVE  s \in Seq(Lines) /\ Paired(s)
<1> DEFINE u == C!User(Legacy)
           a == C!AssistantFinal
           p == C!Response(Legacy)
<1>1. /\ u \in Lines /\ a \in Lines /\ p \in Lines /\ Legacy # Nobody
      /\ u.type = "user_message" /\ u.of = Legacy /\ p.type = "response" /\ p.of = Legacy
      /\ a.type = "assistant_final" /\ a.of = Legacy
  BY DEF C!User, C!AssistantFinal, C!Response, Lines, LineTypes, Askers, C!NamesAssumption
<1>2. s = <<>> \/ s = <<u, a>> \/ s = <<u, p, a>>
  BY DEF C!LegacyLogs
<1> HIDE DEF u, a, p
<1> DEFINE s1 == Append(<<>>, u)
<1>3. <<u, a>> = Append(s1, a) /\ <<u, p, a>> = Append(Append(s1, p), a)
  OBVIOUS
<1>4. <<>> \in Seq(Lines) /\ s1 \in Seq(Lines) /\ Append(s1, p) \in Seq(Lines)
      /\ Append(s1, a) \in Seq(Lines) /\ Append(Append(s1, p), a) \in Seq(Lines)
  BY <1>1
<1>5. Read(<<>>) = Unread /\ Unread \in Reading /\ Unread.rounds = <<>>
  <2>1. Read(<<>>) \in Reading
    BY <1>4, ReadType
  <2> QED
    BY <2>1, ReadNothing DEF Unread
<1> DEFINE one == <<[user |-> Legacy, assistant |-> Legacy]>>
<1>6. Read(s1) \in Reading /\ Read(s1).pending = Legacy /\ Read(s1).rounds = <<>>
  <2>1. Read(s1) = C!ReadLine(Unread, u)
    BY <1>1, <1>4, <1>5, ReadMore
  <2>2. /\ C!ReadLine(Unread, u) \in Reading /\ C!ReadLine(Unread, u).pending = u.of
        /\ C!ReadLine(Unread, u).rounds = Unread.rounds
    BY <1>1, <1>5, ReadLineIs
  <2> QED
    BY <1>1, <1>5, <2>1, <2>2
<1> HIDE DEF s1
<1>7. ASSUME NEW l \in {a, p}
      PROVE  /\ Read(Append(s1, l)) \in Reading /\ Read(Append(s1, l)).pending = Nobody
             /\ Read(Append(s1, l)).rounds = one
  <2>1. l \in Lines /\ l.type \in {"response", "assistant_final"} /\ l.of = Legacy
    BY <1>1
  <2>2. Read(Append(s1, l)) = C!ReadLine(Read(s1), l)
    BY <1>4, <2>1, ReadMore
  <2>3. /\ C!ReadLine(Read(s1), l) \in Reading /\ C!ReadLine(Read(s1), l).pending = Nobody
        /\ C!ReadLine(Read(s1), l).rounds =
             Append(Read(s1).rounds, [user |-> Legacy, assistant |-> Legacy])
    BY <1>1, <1>6, <2>1, ReadLineIs
  <2>4. Append(<<>>, [user |-> Legacy, assistant |-> Legacy]) = one
    OBVIOUS
  <2> QED
    BY <1>6, <2>2, <2>3, <2>4
<1>8. Read(Append(Append(s1, p), a)) = Read(Append(s1, p))
  <2>1. Read(Append(Append(s1, p), a)) = C!ReadLine(Read(Append(s1, p)), a)
    BY <1>1, <1>4, ReadMore
  <2> QED
    BY <1>1, <1>7, <2>1, ReadLineIs
<1>9. \A i \in DOMAIN one : one[i].user = one[i].assistant
  OBVIOUS
<1> HIDE DEF one
<1>10. Paired(<<>>)
  BY <1>5 DEF Paired
<1>11. Paired(Append(s1, a)) /\ Paired(Append(Append(s1, p), a))
  BY <1>7, <1>8, <1>9 DEF Paired
<1> QED
  BY <1>2, <1>3, <1>4, <1>10, <1>11

\* A log begins empty, or as an older release left it.
LEMMA LogInit ==
  ASSUME C!NamesAssumption, C!BoundsAssumption, C!Init
  PROVE  LogInv
<1>1. /\ log \in C!LegacyLogs /\ unterminated = FALSE /\ logLease = Nobody /\ tears = 0
      /\ pc = [r \in Requests |-> "idle"] /\ history = [r \in Requests |-> <<>>]
      /\ asked \in [Requests -> HistoryNs] /\ complete = {}
  BY DEF C!Init
<1>2. log \in Seq(Lines) /\ Paired(log)
  BY <1>1, LegacyIsPaired
<1>3. <<>> \in Seq(Round) /\ Len(<<>>) = 0
  OBVIOUS
<1>4. asked \in [Requests -> Nat]
  BY <1>1 DEF C!BoundsAssumption
<1>5. history \in [Requests -> Seq(Round)]
  BY <1>1, <1>3
<1>6. LogTypes
  BY <1>1, <1>2, <1>4, <1>5 DEF LogTypes, PcStages
<1>7. LogOwned /\ QuestionLogged /\ HistoryGiven
  BY <1>1, <1>3, <1>4 DEF LogOwned, QuestionLogged, HistoryGiven, Asking, C!NamesAssumption
<1>8. Intact
  BY <1>1, <1>2 DEF Intact
<1>9. Damaged = {}
  BY <1>1 DEF Damaged
<1>10. Torn1 = 0
  BY <1>1 DEF Torn1
<1>11. Contained
  BY <1>1, <1>9, <1>10, FS_EmptySet DEF Contained
<1> QED
  BY <1>6, <1>7, <1>8, <1>11 DEF LogInv

\* What the invariant says of the properties.
LEMMA LogIsSound == ASSUME C!NamesAssumption, LogInv PROVE RoundsPairUp
<1>1. C!ConversationTypeOK
  <2>1. \A i \in DOMAIN log : log[i].type \in LineTypes
    BY ElementOfSeq, LenProperties DEF LogInv, LogTypes, Lines
  <2>2. unterminated => log # <<>>
    BY DEF LogInv, LogTypes
  <2>3. C!Running = IF logLease = Nobody THEN {} ELSE {logLease}
    BY DEF C!Running, LogInv, LogTypes, LogOwned, C!NamesAssumption
  <2>4. \A r \in Requests : Len(history[r]) <= asked[r]
    BY DEF LogInv, HistoryGiven
  <2> QED
    BY <2>1, <2>2, <2>3, <2>4 DEF C!ConversationTypeOK, LineTypes
<1>2. C!RoundsPairUp
  BY RoundsAreRead DEF C!RoundsPairUp, LogInv, Intact, Paired
<1>3. C!HistoryIsCurrent
  BY DEF C!HistoryIsCurrent, C!At, LogInv, HistoryGiven
<1>4. C!QuestionKept
  BY DEF C!QuestionKept, LogInv, QuestionLogged, Logged, Asking
<1>5. C!ReadersAgree
  BY AgreementIsShown DEF LogInv, LogTypes, C!NamesAssumption
<1> QED
  BY <1>1, <1>2, <1>3, <1>4, <1>5 DEF RoundsPairUp

\* Who was answered and is not in the history is damaged.
LEMMA DamageIsContained == ASSUME LogInv PROVE TearsAreContained
<1> DEFINE kept == {r \in complete : \E i \in DOMAIN C!Rounds(log) :
                                       C!Rounds(log)[i] = [user |-> r, assistant |-> r]}
<1>1. log \in Seq(Lines) /\ unterminated \in BOOLEAN /\ (unterminated => log # <<>>)
  BY DEF LogInv, LogTypes
<1>2. \A r : HasRound(Safe, r) => HasRound(log, r)
  <2>1. CASE ~unterminated
    BY <2>1 DEF Safe
  <2>2. CASE unterminated
    <3>1. PICK x \in Lines : log = Append(Safe, x)
      BY <1>1, <2>2, SafeIs
    <3>2. Safe \in Seq(Lines)
      BY <1>1, SafeIs
    <3>3. \A r : HasRound(Safe, r) => HasRound(Append(Safe, x), r)
      BY <3>2, OneLineMore
    <3> QED
      BY <3>1, <3>3
  <2> QED
    BY <2>1, <2>2
<1>3. \A r : HasRound(log, r) <=>
        \E i \in DOMAIN C!Rounds(log) : C!Rounds(log)[i] = [user |-> r, assistant |-> r]
  BY RoundsAreRead DEF HasRound
<1>4. complete \ kept \subseteq Damaged
  BY <1>2, <1>3 DEF Damaged
<1>5. IsFiniteSet(Damaged) /\ Cardinality(Damaged) + Torn1 <= tears /\ tears \in Nat
  BY DEF LogInv, Contained, LogTypes
<1> HIDE DEF kept, Damaged
<1>6. IsFiniteSet(complete \ kept) /\ Cardinality(complete \ kept) <= Cardinality(Damaged)
  BY <1>4, <1>5, FS_Subset, Zenon
<1>7. Cardinality(Damaged) \in Nat /\ Cardinality(complete \ kept) \in Nat
  BY <1>5, <1>6, FS_CardinalityType
<1>8. Torn1 \in Nat
  BY DEF Torn1
<1>9. Cardinality(complete \ kept) <= tears
  BY <1>5, <1>6, <1>7, <1>8
<1>10. C!Cardinality(complete \ kept) = Cardinality(complete \ kept)
  BY Zenon DEF C!Cardinality, Cardinality
<1> QED
  BY <1>9, <1>10 DEF TearsAreContained, C!TearsAreContained, kept

-----------------------------------------------------------------------------
(***************************************************************************)
(* StdoutCapture: whoever runs alone captures itself, and no line is in    *)
(* two streams, because nobody's buffer is sys.stdout, or saved by another *)
(* block, before it enters its own.                                        *)
(***************************************************************************)

ThrowStages == {"idle", "swap", "print", "gua", "fushen", "exit", "done"}
Throwing(r) == thread[r] \notin {"idle", "done"}

ThrowTypes ==
  /\ stdout \in O!Streams /\ thread \in [Requests -> ThrowStages]
  /\ saved \in [Requests -> O!Streams] /\ printed \in [O!Streams -> SUBSET Requests]
  /\ captured \in [Requests -> O!Streams] /\ overlapped \subseteq Requests

\* Two that are in their blocks at once have overlapped.
Together ==
  \A r, s \in Requests : r # s /\ Throwing(r) /\ Throwing(s) => r \in overlapped

\* The buffer of a request that has not entered is unknown and empty.
Unknown ==
  \A r \in Requests : thread[r] \in {"idle", "swap"} =>
    stdout # r /\ printed[r] = {} /\ \A s \in Requests : saved[s] # r

LineOnce ==
  \A r \in Requests :
    /\ thread[r] \in {"idle", "swap", "print"} => \A s \in O!Streams : r \notin printed[s]
    /\ (thread[r] \in {"gua", "fushen"}) \/ (thread[r] \in {"exit", "done"} /\ captured[r] # Console)
         => \E s \in O!Streams : r \in printed[s]
    /\ \A s, t \in O!Streams : r \in printed[s] /\ r \in printed[t] => s = t

OwnHexagram ==
  \A r \in Requests :
    /\ captured[r] \in {Console, r}
    /\ thread[r] \in {"idle", "swap", "print", "gua"} => captured[r] = Console

\* A request that has met no other.
Lonely(r) ==
  /\ thread[r] = "swap" => saved[r] = stdout
  /\ stdout = r <=> thread[r] \in {"print", "gua", "fushen", "exit"}
  /\ \A s \in Requests : saved[s] # r
  /\ thread[r] = "print" => printed[r] = {}
  /\ thread[r] \in {"gua", "fushen"} => printed[r] = {r}
  /\ thread[r] = "exit" /\ captured[r] = r => printed[r] = {r}
  /\ printed[r] \subseteq {r}
  /\ \A s \in O!Streams : r \in printed[s] => s = r
Alone == \A r \in Requests \ overlapped : Lonely(r)

\* As long as nobody has met another, the console comes back.
AllAlone ==
  overlapped = {} => /\ (\A r \in Requests : ~Throwing(r)) => stdout = Console
                     /\ \A r \in Requests : Throwing(r) => saved[r] = Console

ThrowInv ==
  ThrowTypes /\ Together /\ Unknown /\ LineOnce /\ OwnHexagram /\ Alone /\ AllAlone

\* Enter: whoever is within has now met the request, and it them.
LEMMA EnterKeeps ==
  ASSUME Console \notin Requests, ThrowInv, NEW r \in Requests, O!Enter(r) PROVE ThrowInv'
<1>1. /\ thread[r] = "idle" /\ thread' = [thread EXCEPT ![r] = "swap"]
      /\ saved' = [saved EXCEPT ![r] = stdout]
      /\ UNCHANGED <<stdout, printed, captured>>
  BY DEF O!Enter, O!At
<1>2. /\ thread'[r] = "swap" /\ \A s \in Requests : s # r => thread'[s] = thread[s]
      /\ saved'[r] = stdout /\ \A s \in Requests : s # r => saved'[s] = saved[s]
  BY <1>1 DEF ThrowInv, ThrowTypes
<1>3. IF \A s \in Requests : ~Throwing(s)
        THEN overlapped' = overlapped
        ELSE overlapped' = overlapped \cup {s \in Requests : Throwing(s)} \cup {r}
  <2>1. O!Within = {s \in Requests : Throwing(s)}
    BY DEF O!Within, Throwing
  <2> HIDE DEF O!Within, Throwing
  <2>2. overlapped' = IF O!Within = {} THEN overlapped ELSE overlapped \cup O!Within \cup {r}
    BY DEF O!Enter
  <2> QED
    BY <2>1, <2>2
<1>4. ThrowTypes'
  BY <1>1, <1>3 DEF ThrowInv, ThrowTypes, ThrowStages, Throwing
<1>5. Together'
  BY <1>2, <1>3 DEF ThrowInv, Together, Throwing
<1>6. Unknown'
  BY <1>1, <1>2 DEF ThrowInv, Unknown
<1>7. LineOnce' /\ OwnHexagram'
  BY <1>1, <1>2 DEF ThrowInv, LineOnce, OwnHexagram
<1>8. Alone'
  <2>1. ASSUME NEW q \in Requests \ overlapped' PROVE Lonely(q)'
    <3>1. q \notin overlapped /\ Lonely(q)
      BY <1>3, <2>1 DEF ThrowInv, Alone
    <3>2. CASE q = r
      BY <1>1, <1>2, <3>1, <3>2 DEF Lonely, ThrowInv, Unknown
    <3>3. CASE q # r
      <4>1. ~Throwing(q)
        BY <1>3, <2>1
      <4> QED
        BY <1>1, <1>2, <3>1, <3>3, <4>1 DEF Lonely, Throwing
    <3> QED
      BY <3>2, <3>3
  <2> QED
    BY <2>1 DEF Alone
<1>9. AllAlone'
  <2> SUFFICES ASSUME overlapped' = {} PROVE AllAlone'
    BY DEF AllAlone
  <2>1. \A s \in Requests : ~Throwing(s)
    BY <1>3
  <2>2. overlapped = {} /\ stdout = Console
    BY <1>3, <2>1 DEF ThrowInv, AllAlone
  <2> QED
    BY <1>1, <1>2, <2>1, <2>2 DEF AllAlone, Throwing
<1> QED
  BY <1>4, <1>5, <1>6, <1>7, <1>8, <1>9 DEF ThrowInv

\* Swap: sys.stdout is the request's buffer, which nobody knew.
LEMMA SwapKeeps ==
  ASSUME Console \notin Requests, ThrowInv, NEW r \in Requests, O!Swap(r) PROVE ThrowInv'
<1>1. /\ thread[r] = "swap" /\ thread' = [thread EXCEPT ![r] = "print"] /\ stdout' = r
      /\ UNCHANGED <<saved, printed, captured, overlapped>>
  BY DEF O!Swap, O!At
<1>2. thread'[r] = "print" /\ \A s \in Requests : s # r => thread'[s] = thread[s]
  BY <1>1 DEF ThrowInv, ThrowTypes
<1>3. ThrowTypes'
  BY <1>1 DEF ThrowInv, ThrowTypes, ThrowStages, O!Streams
<1>4. Together'
  BY <1>1, <1>2 DEF ThrowInv, Together, Throwing
<1>5. Unknown'
  BY <1>1, <1>2 DEF ThrowInv, Unknown
<1>6. LineOnce' /\ OwnHexagram'
  BY <1>1, <1>2 DEF ThrowInv, LineOnce, OwnHexagram
<1>7. ASSUME NEW q \in Requests \ overlapped' PROVE Lonely(q)'
  <2>1. q \notin overlapped /\ Lonely(q)
    BY <1>1, <1>7 DEF ThrowInv, Alone
  <2>2. CASE q = r
    BY <1>1, <1>2, <2>1, <2>2 DEF Lonely, ThrowInv, Unknown
  <2>3. CASE q # r
    <3>1. ~Throwing(q)
      BY <1>1, <2>1, <2>3 DEF ThrowInv, Together, Throwing
    <3> QED
      BY <1>1, <1>2, <2>1, <2>3, <3>1 DEF Lonely, Throwing
  <2> QED
    BY <2>2, <2>3
<1>8. AllAlone'
  BY <1>1, <1>2 DEF ThrowInv, AllAlone, Throwing
<1> QED
  BY <1>3, <1>4, <1>5, <1>6, <1>7, <1>8 DEF ThrowInv, Alone

\* PrintTimeInfo: the line goes to one stream.
LEMMA PrintKeeps ==
  ASSUME Console \notin Requests, ThrowInv, NEW r \in Requests, O!PrintTimeInfo(r) PROVE ThrowInv'
<1>1. /\ thread[r] = "print" /\ thread' = [thread EXCEPT ![r] = "gua"]
      /\ printed' = [printed EXCEPT ![stdout] = @ \cup {r}]
      /\ UNCHANGED <<stdout, saved, captured, overlapped>>
  BY DEF O!PrintTimeInfo, O!At, O!PrintedNow
<1>2. /\ thread'[r] = "gua" /\ \A s \in Requests : s # r => thread'[s] = thread[s]
      /\ printed'[stdout] = printed[stdout] \cup {r} /\ stdout \in O!Streams
      /\ \A s \in O!Streams : s # stdout => printed'[s] = printed[s]
  BY <1>1 DEF ThrowInv, ThrowTypes
<1>3. ThrowTypes'
  BY <1>1 DEF ThrowInv, ThrowTypes, ThrowStages
<1>4. Together'
  BY <1>1, <1>2 DEF ThrowInv, Together, Throwing
<1>0. \A q \in Requests : q \in O!Streams
  BY DEF O!Streams
<1>5. Unknown'
  BY <1>0, <1>1, <1>2 DEF ThrowInv, Unknown
<1>6. LineOnce'
  <2>1. \A q \in Requests : q # r => \A s \in O!Streams : q \in printed'[s] <=> q \in printed[s]
    BY <1>2
  <2>2. \A s \in O!Streams : r \in printed'[s] <=> s = stdout
    BY <1>1, <1>2 DEF ThrowInv, LineOnce
  <2> QED
    BY <1>1, <1>2, <2>1, <2>2 DEF ThrowInv, LineOnce
<1>7. OwnHexagram'
  BY <1>1, <1>2 DEF ThrowInv, OwnHexagram
<1>8. ASSUME NEW q \in Requests \ overlapped' PROVE Lonely(q)'
  <2>1. q \notin overlapped /\ Lonely(q)
    BY <1>1, <1>8 DEF ThrowInv, Alone
  <2>2. CASE q = r
    <3>1. stdout = r /\ printed[r] = {} /\ \A s \in O!Streams : r \notin printed[s]
      BY <1>1, <2>1, <2>2 DEF Lonely, ThrowInv, LineOnce
    <3>2. printed'[r] = {r} /\ \A s \in O!Streams : r \in printed'[s] => s = r
      BY <1>2, <3>1
    <3> QED
      BY <1>1, <1>2, <2>1, <2>2, <3>1, <3>2 DEF Lonely
  <2>3. CASE q # r
    <3>1. ~Throwing(q)
      BY <1>1, <2>1, <2>3 DEF ThrowInv, Together, Throwing
    <3>2. stdout # q
      BY <2>1, <3>1 DEF Lonely, Throwing
    <3>3. printed'[q] = printed[q] /\ \A s \in O!Streams : q \in printed'[s] <=> q \in printed[s]
      BY <1>0, <1>2, <2>3, <3>2
    <3> QED
      BY <1>1, <1>2, <2>1, <2>3, <3>1, <3>3 DEF Lonely, Throwing
  <2> QED
    BY <2>2, <2>3
<1>9. AllAlone'
  BY <1>1, <1>2 DEF ThrowInv, AllAlone, Throwing
<1> QED
  BY <1>3, <1>4, <1>5, <1>6, <1>7, <1>8, <1>9 DEF ThrowInv, Alone

\* The generator works on, or raises: only the request's own stage and
\* hexagram change.
LEMMA MakeKeeps ==
  ASSUME Console \notin Requests, ThrowInv, NEW r \in Requests,
         O!MakeBengua(r) \/ O!GetFushen(r) \/ O!Raise(r)
  PROVE  ThrowInv'
<1>1. /\ UNCHANGED <<stdout, saved, printed, overlapped>>
      /\ \A s \in Requests : s # r => thread'[s] = thread[s] /\ captured'[s] = captured[s]
  BY DEF O!MakeBengua, O!GetFushen, O!Raise, O!At, ThrowInv, ThrowTypes
<1>2. \/ thread[r] = "gua" /\ thread'[r] = "fushen" /\ captured'[r] = r
      \/ thread[r] = "fushen" /\ thread'[r] = "exit" /\ captured'[r] = captured[r]
      \/ thread[r] \in {"print", "gua"} /\ thread'[r] = "exit" /\ captured'[r] = captured[r]
  BY DEF O!MakeBengua, O!GetFushen, O!Raise, O!At, O!LinesOf, ThrowInv, ThrowTypes
<1>3. ThrowTypes'
  BY DEF O!MakeBengua, O!GetFushen, O!Raise, O!At, O!LinesOf, ThrowInv, ThrowTypes,
         ThrowStages, O!Streams
<1>4. Together'
  BY <1>1, <1>2 DEF ThrowInv, Together, Throwing
<1>5. Unknown'
  BY <1>1, <1>2 DEF ThrowInv, Unknown
<1>6. OwnHexagram'
  BY <1>1, <1>2 DEF ThrowInv, OwnHexagram
<1>7. LineOnce'
  BY <1>1, <1>2 DEF ThrowInv, LineOnce, OwnHexagram
<1>8. Alone'
  BY <1>1, <1>2 DEF ThrowInv, Alone, Lonely, OwnHexagram
<1>9. AllAlone'
  BY <1>1, <1>2 DEF ThrowInv, AllAlone, Throwing
<1> QED
  BY <1>3, <1>4, <1>5, <1>6, <1>7, <1>8, <1>9 DEF ThrowInv

\* Exit: what was saved before the block is sys.stdout again.
LEMMA ExitKeeps ==
  ASSUME Console \notin Requests, ThrowInv, NEW r \in Requests, O!Exit(r) PROVE ThrowInv'
<1>1. /\ thread[r] = "exit" /\ thread' = [thread EXCEPT ![r] = "done"] /\ stdout' = saved[r]
      /\ UNCHANGED <<saved, printed, captured, overlapped>>
  BY DEF O!Exit, O!At, O!Restored
<1>2. thread'[r] = "done" /\ \A s \in Requests : s # r => thread'[s] = thread[s]
  BY <1>1 DEF ThrowInv, ThrowTypes
<1>3. ThrowTypes'
  BY <1>1 DEF ThrowInv, ThrowTypes, ThrowStages
<1>4. Together'
  BY <1>1, <1>2 DEF ThrowInv, Together, Throwing
<1>5. Unknown'
  BY <1>1, <1>2 DEF ThrowInv, Unknown
<1>6. LineOnce' /\ OwnHexagram'
  BY <1>1, <1>2 DEF ThrowInv, LineOnce, OwnHexagram
<1>7. ASSUME NEW q \in Requests \ overlapped' PROVE Lonely(q)'
  <2>1. q \notin overlapped /\ Lonely(q)
    BY <1>1, <1>7 DEF ThrowInv, Alone
  <2>2. stdout' # q
    BY <1>1, <2>1 DEF Lonely
  <2>3. CASE q = r
    BY <1>1, <1>2, <2>1, <2>2, <2>3 DEF Lonely
  <2>4. CASE q # r
    <3>1. ~Throwing(q)
      BY <1>1, <2>1, <2>4 DEF ThrowInv, Together, Throwing
    <3> QED
      BY <1>1, <1>2, <2>1, <2>2, <2>4, <3>1 DEF Lonely, Throwing
  <2> QED
    BY <2>3, <2>4
<1>8. AllAlone'
  BY <1>1, <1>2 DEF ThrowInv, AllAlone, Throwing
<1> QED
  BY <1>3, <1>4, <1>5, <1>6, <1>7, <1>8 DEF ThrowInv, Alone

\* Every step of a throw keeps the streams apart.
LEMMA ThrowStep ==
  ASSUME O!ConsoleIsNoRequest, ThrowInv, O!Next \/ UNCHANGED consoleVars PROVE ThrowInv'
<1>1. Console \notin Requests
  BY DEF O!ConsoleIsNoRequest
<1>2. CASE UNCHANGED consoleVars
  <2>1. UNCHANGED <<stdout, thread, saved, printed, captured, overlapped>>
    BY <1>2 DEF consoleVars
  <2> QED
    BY <2>1 DEF ThrowInv, ThrowTypes, Together, Unknown, LineOnce, OwnHexagram, Alone,
                Lonely, AllAlone, Throwing
<1> QED
  BY <1>1, <1>2, EnterKeeps, SwapKeeps, PrintKeeps, MakeKeeps, ExitKeeps DEF O!Next

\* At first nobody throws and every stream is empty.
LEMMA ThrowInit == ASSUME O!ConsoleIsNoRequest, O!Init PROVE ThrowInv
<1>1. Console \notin Requests /\ O!Streams = Requests \cup {Console}
  BY DEF O!ConsoleIsNoRequest, O!Streams
<1>2. /\ stdout = Console /\ overlapped = {}
      /\ thread = [r \in Requests |-> "idle"] /\ saved = [r \in Requests |-> Console]
      /\ printed = [s \in O!Streams |-> {}] /\ captured = [r \in Requests |-> Console]
  BY DEF O!Init
<1>3. ThrowTypes
  BY <1>1, <1>2 DEF ThrowTypes, ThrowStages
<1>4. /\ \A r \in Requests : thread[r] = "idle" /\ saved[r] = Console /\ captured[r] = Console
      /\ \A s \in O!Streams : printed[s] = {}
      /\ \A r \in Requests : r # Console /\ r \in O!Streams
  BY <1>1, <1>2
<1>5. Together /\ Unknown /\ OwnHexagram /\ AllAlone
  BY <1>2, <1>4 DEF Together, Unknown, OwnHexagram, AllAlone, Throwing
<1>6. LineOnce /\ Alone
  BY <1>2, <1>4 DEF LineOnce, Alone, Lonely
<1> QED
  BY <1>3, <1>5, <1>6 DEF ThrowInv

\* What the invariant says of the property.
LEMMA ThrowsAreApart == ASSUME O!ConsoleIsNoRequest, ThrowInv PROVE ThrowsKeepApart
<1>0. Console \notin Requests /\ Console \in O!Streams
  BY DEF O!ConsoleIsNoRequest, O!Streams
<1>1. O!CaptureTypeOK
  BY DEF O!CaptureTypeOK, ThrowInv, ThrowTypes
<1>2. O!ChartIsOwn
  BY DEF O!ChartIsOwn, ThrowInv, OwnHexagram
<1>3. O!AloneIsExact
  <2>1. overlapped = {} /\ O!Within = {} => stdout = Console
    BY DEF O!Within, ThrowInv, AllAlone, Throwing
  <2>2. ASSUME NEW r \in Requests \ overlapped
        PROVE  /\ thread[r] = "exit" /\ captured[r] = r => printed[r] = {r} /\ stdout = r
               /\ thread[r] = "done" => printed[r] \subseteq {r} /\ r \notin printed[Console]
    <3>1. Lonely(r)
      BY DEF ThrowInv, Alone
    <3> QED
      BY <1>0, <3>1 DEF Lonely
  <2> QED
    BY <2>1, <2>2 DEF O!AloneIsExact
<1>4. O!EveryLineOnce
  <2>1. ASSUME NEW r \in Requests
        PROVE  /\ O!Cardinality({s \in O!Streams : r \in printed[s]}) <= 1
               /\ thread[r] \in {"fushen", "exit", "done"} /\ captured[r] # Console =>
                    \E s \in O!Streams : r \in printed[s]
    <3> DEFINE S == {s \in O!Streams : r \in printed[s]}
    <3>1. \A s, t \in S : s = t
      BY DEF ThrowInv, LineOnce
    <3> HIDE DEF S
    <3>2. Cardinality(S) <= 1
      <4>1. S = {} => Cardinality(S) = 0
        BY FS_EmptySet
      <4>2. S # {} => Cardinality(S) = 1
        <5>1. S # {} => \E s : S = {s}
          BY <3>1
        <5> QED
          BY <5>1, FS_Singleton
      <4> QED
        BY <4>1, <4>2
    <3>3. O!Cardinality(S) = Cardinality(S)
      BY Zenon DEF O!Cardinality, Cardinality
    <3>4. O!Cardinality(S) <= 1
      BY <3>2, <3>3
    <3>5. thread[r] \in {"fushen", "exit", "done"} /\ captured[r] # Console =>
            \E s \in O!Streams : r \in printed[s]
      BY DEF ThrowInv, LineOnce
    <3> QED
      BY <3>4, <3>5 DEF S
  <2> QED
    BY <2>1 DEF O!EveryLineOnce
<1> QED
  BY <1>1, <1>2, <1>3, <1>4 DEF ThrowsKeepApart

-----------------------------------------------------------------------------
(***************************************************************************)
(* ProfileStore.  Of the script, which takes no lease, it matters when it  *)
(* begins to rewrite the profile: what is said of whole profiles and of    *)
(* edits is said of the time before.                                       *)
(***************************************************************************)

Scripted(r) == kind[r] \in Scripts
InScript == {"truncate", "rewrite", "orphaned"}
Works(r) == ~Scripted(r) /\ at[r] \notin {"new", "done", "dead"}
Carries(r) == at[r] \in {"charge", "save", "write", "fsync", "replace", "turn"}

Types ==
  /\ disk \in Content
  /\ durable \subseteq Content
  /\ kind \in [Requests -> Kinds]
  /\ at \in [Requests -> Stages]
  /\ copy \in [Requests -> Content]
  /\ temp \in [Requests -> [content: Content, synced: BOOLEAN]]
  /\ leaving \subseteq handed
  /\ stops \in Nat

\* What a request works on is a whole profile, with every edit of the one it
\* is going to replace, unless it makes one anew or a script was at that one.
CopyIsGood(r) ==
  /\ copy[r] \in Profile /\ Coherent(copy[r])
  /\ \/ kind[r] = "create_user"
     \/ disk \notin Profile
     \/ ~Untouched
     \/ disk.edits \subseteq copy[r].edits

\* What replaces the profile is that copy, and it is on the disk.
TempIsGood(r) ==
  /\ at[r] \in {"fsync", "replace"} => temp[r].content = copy[r]
  /\ at[r] = "replace" => temp[r].synced = TRUE

\* A script has steps of its own, and what it has read is a whole profile.
ScriptIsGood(r) ==
  /\ Scripted(r) => at[r] \in InScript \cup {"new", "done", "dead"}
  /\ Scripted(r) /\ at[r] = "new" => copy[r] = NoFile
  /\ at[r] \in InScript => Scripted(r) /\ copy[r] \in Profile /\ Coherent(copy[r])

StoreInv ==
  /\ Types
  /\ AlwaysWhole
  /\ \A r \in Requests : Works(r) => lease = r
  /\ \A r \in Requests : Carries(r) => CopyIsGood(r)
  /\ \A r \in Requests : TempIsGood(r)
  /\ \A r \in Requests : ScriptIsGood(r)

-----------------------------------------------------------------------------
(* The steps of the one request that works, and those of the others.       *)

\* A request that is somewhere else is no script.
LEMMA NoScriptHere ==
  ASSUME StoreInv, NEW r \in Requests,
         at[r] \notin InScript \cup {"new", "done", "dead"}
  PROVE  ~Scripted(r) /\ Works(r)
BY DEF StoreInv, ScriptIsGood, Works

\* What scripts have been at stays so.
LEMMA StaysTouched ==
  ASSUME StoreInv, UNCHANGED kind,
         \A s \in Requests : Scripted(s) /\ copy[s] # NoFile =>
           /\ copy'[s] # NoFile
           /\ at[s] # "truncate" => at'[s] # "truncate"
  PROVE  Untouched' => Untouched
BY DEF Untouched, Scripted, At

\* When a request steps that is no script, scripts do not get further, except
\* that the file one writes to may lose its name.
Beside(s) ==
  /\ at'[s] = at[s] \/ (at[s] = "rewrite" /\ at'[s] = "orphaned")
  /\ copy'[s] = copy[s]
  /\ temp'[s] = temp[s]

\* Such a step leaves what is said of scripts as it was, or more of it true.
LEMMA BesideScripts ==
  ASSUME StoreInv, NEW r \in Requests, ~Scripted(r), at'[r] \notin InScript,
         \A s \in Requests : s # r => Beside(s),
         UNCHANGED kind
  PROVE  /\ Untouched' <=> Untouched
         /\ \A s \in Requests : ScriptIsGood(s)'
<1>1. Untouched' <=> Untouched
  BY DEF Untouched, Scripted, At, Beside
<1>2. ASSUME NEW s \in Requests, s # r PROVE ScriptIsGood(s)'
  BY <1>2 DEF StoreInv, ScriptIsGood, Scripted, InScript, Beside, Coherent
<1>3. ScriptIsGood(r)'
  BY DEF ScriptIsGood, Scripted
<1> QED
  BY <1>1, <1>2, <1>3

\* Nobody else works: what is to be shown is about the request that steps.
LEMMA OwnStep ==
  ASSUME StoreInv, NEW r \in Requests, ~Scripted(r), at'[r] \notin InScript,
         \A s \in Requests : s # r => ~Works(s) /\ Beside(s),
         UNCHANGED kind,
         Types', AlwaysWhole',
         Works(r)' => lease' = r,
         Carries(r)' => CopyIsGood(r)',
         TempIsGood(r)'
  PROVE  StoreInv'
<1>0. \A s \in Requests : ScriptIsGood(s)'
  BY BesideScripts
<1>1. \A s \in Requests : Works(s)' => lease' = s
  <2>1. ASSUME NEW s \in Requests, s # r PROVE ~Works(s)'
    BY <2>1 DEF StoreInv, ScriptIsGood, InScript, Works, Scripted, Beside
  <2> QED
    BY <2>1
<1>2. \A s \in Requests : Carries(s)' => CopyIsGood(s)'
  <2>1. ASSUME NEW s \in Requests, s # r PROVE ~Carries(s)'
    BY <2>1 DEF StoreInv, ScriptIsGood, InScript, Works, Scripted, Beside, Carries
  <2> QED
    BY <2>1
<1>3. \A s \in Requests : TempIsGood(s)'
  <2>1. ASSUME NEW s \in Requests, s # r PROVE at'[s] \notin {"fsync", "replace"}
    BY <2>1 DEF StoreInv, ScriptIsGood, InScript, Works, Scripted, Beside
  <2> QED
    BY <2>1 DEF TempIsGood
<1> QED
  BY <1>0, <1>1, <1>2, <1>3 DEF StoreInv

\* A request that does not work, and does not begin to, disturbs nobody.
LEMMA Aside ==
  ASSUME StoreInv, NEW r \in Requests, ~Scripted(r), Types',
         ~Works(r)', at'[r] \notin InScript, ~Carries(r)', at'[r] \notin {"fsync", "replace"},
         \A s \in Requests : s # r => /\ at'[s] = at[s] /\ copy'[s] = copy[s]
                                      /\ temp'[s] = temp[s],
         UNCHANGED <<disk, durable, lease, kind>>
  PROVE  StoreInv'
<1>0. (Untouched' <=> Untouched) /\ \A s \in Requests : ScriptIsGood(s)'
  BY BesideScripts DEF Beside
<1>1. AlwaysWhole'
  BY <1>0 DEF StoreInv, AlwaysWhole, Coherent
<1>2. \A s \in Requests : Works(s)' => lease' = s
  BY DEF StoreInv, Works, Scripted
<1>3. \A s \in Requests : Carries(s)' => CopyIsGood(s)'
  BY <1>0 DEF StoreInv, Carries, CopyIsGood, Coherent
<1>4. \A s \in Requests : TempIsGood(s)'
  BY DEF StoreInv, TempIsGood
<1> QED
  BY <1>0, <1>1, <1>2, <1>3, <1>4 DEF StoreInv

\* Who works holds the lease, so nobody else does.
LEMMA WorksAlone ==
  ASSUME StoreInv, NEW r \in Requests, lease \in {r, Free}
  PROVE  \A s \in Requests : s # r => ~Works(s)
BY StoreNamesAssumption DEF StoreInv

\* Steps that touch neither the disk nor the copy nor the temporary file.
LEMMA OnlyMoves ==
  ASSUME StoreInv, NEW r \in Requests, NEW stage \in Stages \ InScript, Works(r),
         at' = [at EXCEPT ![r] = stage],
         UNCHANGED <<disk, durable, kind, copy, temp, stops>>,
         leaving' \subseteq handed',
         stage \in {"done", "dead"} \/ lease' = r,
         stage \in {"charge", "save", "write", "fsync", "replace", "turn"} => Carries(r),
         stage \notin {"fsync", "replace"}
  PROVE  StoreInv'
<1>1. lease = r /\ ~Scripted(r)
  BY DEF StoreInv, Works
<1>2. \A s \in Requests : s # r => ~Works(s) /\ Beside(s)
  BY <1>1, WorksAlone DEF StoreInv, Types, Beside
<1>3. at'[r] = stage
  BY DEF StoreInv, Types
<1>4. Types'
  BY DEF StoreInv, Types
<1>5. Untouched' <=> Untouched
  BY <1>1, <1>2, <1>3, BesideScripts
<1>6. AlwaysWhole'
  BY <1>5 DEF StoreInv, AlwaysWhole, Coherent
<1>7. Works(r)' => lease' = r
  BY <1>3 DEF Works
<1>8. Carries(r)' => CopyIsGood(r)'
  BY <1>3, <1>5 DEF StoreInv, Carries, CopyIsGood, Coherent
<1>9. TempIsGood(r)'
  BY <1>3 DEF TempIsGood
<1> QED
  BY <1>1, <1>2, <1>3, <1>4, <1>6, <1>7, <1>8, <1>9, OwnStep

-----------------------------------------------------------------------------
(* One lemma per action that changes a copy, a temporary file or the disk. *)

\* Acquire: nobody works while the lease is free.
LEMMA AcquireKeeps ==
  ASSUME StoreInv, NEW r \in Requests, Acquire(r)
  PROVE  StoreInv'
<1>0. ~Scripted(r)
  BY DEF Acquire, Scripted
<1>1. CASE lease = Free
  <2>1. lease' = r /\ at' = [at EXCEPT ![r] = "held"]
    BY <1>1 DEF Acquire, Goto
  <2>2. \A s \in Requests : s # r => ~Works(s) /\ Beside(s)
    BY <1>1, <2>1, WorksAlone DEF StoreInv, Types, Beside, Acquire
  <2>3. at'[r] = "held"
    BY <2>1 DEF StoreInv, Types
  <2>4. Types'
    BY <2>1 DEF StoreInv, Types, Acquire, Stages
  <2>5. at'[r] \notin InScript /\ (Untouched' <=> Untouched)
    BY <1>0, <2>2, <2>3, BesideScripts DEF Acquire, InScript
  <2>6. AlwaysWhole'
    BY <2>5 DEF StoreInv, AlwaysWhole, Coherent, Acquire
  <2>7. ~Carries(r)' /\ TempIsGood(r)'
    BY <2>3 DEF Carries, TempIsGood
  <2> QED
    BY <1>0, <2>1, <2>2, <2>4, <2>5, <2>6, <2>7, OwnStep DEF Acquire
<1>2. CASE lease # Free
  <2>1. at' = [at EXCEPT ![r] = "done"] /\ UNCHANGED lease
    BY <1>2 DEF Acquire, Goto
  <2>2. at'[r] = "done"
    BY <2>1 DEF StoreInv, Types
  <2>3. Types'
    BY <2>1 DEF StoreInv, Types, Acquire, Stages
  <2>4. \A s \in Requests : s # r => /\ at'[s] = at[s] /\ copy'[s] = copy[s]
                                     /\ temp'[s] = temp[s]
    BY <2>1 DEF StoreInv, Types, Acquire
  <2> QED
    BY <1>0, <2>1, <2>2, <2>3, <2>4, Aside DEF Acquire, Works, InScript, Carries
<1> QED
  BY <1>1, <1>2

\* Start: the copy a handler works on holds every edit of what it loaded, and
\* cached nodes only of its own chart.
LEMMA StartKeeps ==
  ASSUME StoreInv, NEW r \in Requests, Start(r)
  PROVE  StoreInv'
<1>0. at[r] = "held" /\ ~Scripted(r) /\ Works(r)
  BY NoScriptHere DEF Start, At, InScript
<1>1. lease = r
  BY <1>0 DEF StoreInv
<1>2. PICK new \in Profile, stage \in {"charge", "turn", "save"} :
        /\ copy' = [copy EXCEPT ![r] = new] /\ at' = [at EXCEPT ![r] = stage]
        /\ Coherent(new)
        /\ \/ kind[r] = "create_user"
           \/ disk \notin Profile
           \/ disk.edits \subseteq new.edits
  <2>1. PICK chart \in Charts :
          IF disk \in Profile /\ kind[r] # "create_user"
            THEN copy' = [copy EXCEPT ![r] = Edited(r, chart)]
            ELSE copy' = [copy EXCEPT ![r] = Fresh(r, chart)]
    BY DEF Start
  <2>2. PICK stage \in {"charge", "turn", "save"} : at' = [at EXCEPT ![r] = stage]
    BY DEF Start, Goto
  <2>3. CASE disk \in Profile /\ kind[r] # "create_user"
    <3>1. /\ disk.chart \in Charts /\ disk.edits \in SUBSET Requests
          /\ disk.cached \in Charts \cup {NoChart}
          /\ disk.cached \in {NoChart, disk.chart}
      BY <2>3 DEF Profile, StoreInv, AlwaysWhole, Coherent
    <3> DEFINE new == Edited(r, chart)
    <3>2. /\ new.chart = chart
          /\ new.edits = disk.edits \cup {r}
          /\ new.cached = IF chart = disk.chart THEN disk.cached ELSE NoChart
      BY <2>3 DEF Edited, Profile
    <3>3. new \in Profile
      BY <2>3, <3>1 DEF Edited, Profile
    <3>4. disk.edits \subseteq new.edits /\ new.cached \in {NoChart, new.chart}
      BY <3>1, <3>2
    <3>5. Coherent(new)
      BY <3>4 DEF Coherent
    <3>6. copy' = [copy EXCEPT ![r] = new]
      BY <2>1, <2>3
    <3> HIDE DEF new
    <3> QED
      BY <2>2, <3>3, <3>4, <3>5, <3>6
  <2>4. CASE ~(disk \in Profile /\ kind[r] # "create_user")
    <3> DEFINE new == Fresh(r, chart)
    <3>1. new \in Profile /\ new.cached = NoChart
      BY DEF Fresh, Profile
    <3>2. Coherent(new)
      BY <3>1 DEF Coherent
    <3> HIDE DEF new
    <3>3. copy' = [copy EXCEPT ![r] = new]
      BY <2>1, <2>4 DEF new
    <3> QED
      BY <2>2, <2>4, <3>1, <3>2, <3>3
  <2> QED
    BY <2>3, <2>4
<1>3. /\ UNCHANGED <<disk, durable, lease, kind, temp, handed, leaving, stops>>
  BY DEF Start
<1>4. \A s \in Requests : s # r => ~Works(s) /\ Beside(s)
  BY <1>1, <1>2, <1>3, WorksAlone DEF StoreInv, Types, Beside
<1>5. at'[r] \in {"charge", "turn", "save"} /\ copy'[r] = new
  BY <1>2 DEF StoreInv, Types
<1>6. Types'
  BY <1>2, <1>3 DEF StoreInv, Types, Stages, Content
<1>7. at'[r] \notin InScript /\ (Untouched' <=> Untouched)
  BY <1>0, <1>3, <1>4, <1>5, BesideScripts DEF InScript
<1>8. AlwaysWhole'
  BY <1>3, <1>7 DEF StoreInv, AlwaysWhole, Coherent
<1>9. CopyIsGood(r)'
  BY <1>2, <1>3, <1>5 DEF CopyIsGood, Coherent
<1>10. TempIsGood(r)'
  BY <1>5 DEF TempIsGood
<1> QED
  BY <1>0, <1>1, <1>3, <1>4, <1>6, <1>7, <1>8, <1>9, <1>10, OwnStep

\* Turn: the cache is filled from the chart of the same copy.
LEMMA TurnKeeps ==
  ASSUME StoreInv, NEW r \in Requests, Turn(r)
  PROVE  StoreInv'
<1>1. ~Scripted(r) /\ Works(r) /\ lease = r /\ CopyIsGood(r)
  <2>1. at[r] = "turn" /\ ~Scripted(r) /\ Works(r)
    BY NoScriptHere DEF Turn, At, InScript
  <2> QED
    BY <2>1 DEF StoreInv, Carries
<1>2. CASE copy' = [copy EXCEPT ![r].cached = copy[r].chart] /\ Goto(r, "save")
  <2>1. at' = [at EXCEPT ![r] = "save"]
    BY <1>2 DEF Goto
  <2> DEFINE new == [copy[r] EXCEPT !.cached = copy[r].chart]
  <2>2. copy' = [copy EXCEPT ![r] = new]
    BY <1>2
  <2>3. /\ new \in Profile /\ new.cached = new.chart /\ new.edits = copy[r].edits
    BY <1>1 DEF CopyIsGood, Profile
  <2>4. Coherent(new)
    BY <2>3 DEF Coherent
  <2> HIDE DEF new
  <2>5. at'[r] = "save" /\ copy'[r] = new
    BY <2>1, <2>2 DEF StoreInv, Types
  <2>6. \A s \in Requests : s # r => ~Works(s) /\ Beside(s)
    BY <1>1, <2>1, <2>2, WorksAlone DEF StoreInv, Types, Beside, Turn
  <2>7. Types'
    BY <2>1, <2>2, <2>3 DEF StoreInv, Types, Stages, Content, Turn
  <2>8. at'[r] \notin InScript /\ (Untouched' <=> Untouched)
    BY <1>1, <2>5, <2>6, BesideScripts DEF InScript, Turn
  <2>9. AlwaysWhole'
    BY <2>8 DEF StoreInv, AlwaysWhole, Coherent, Turn
  <2>10. CopyIsGood(r)'
    BY <1>1, <2>3, <2>4, <2>5, <2>8 DEF CopyIsGood, Coherent, Turn
  <2>11. TempIsGood(r)'
    BY <2>5 DEF TempIsGood
  <2>12. lease' = r /\ UNCHANGED kind
    BY <1>1 DEF Turn
  <2> QED
    BY <1>1, <2>6, <2>7, <2>8, <2>9, <2>10, <2>11, <2>12, OwnStep
<1>3. CASE Goto(r, "unwind") /\ UNCHANGED copy
  BY <1>1, <1>3, OnlyMoves DEF Turn, Goto, Stages, InScript, StoreInv, Types
<1> QED
  BY <1>2, <1>3 DEF Turn

\* The steps of save_profile that write the temporary file.
LEMMA TempKeeps ==
  ASSUME StoreInv, NEW r \in Requests,
         CreateTemp(r) \/ Write(r) \/ Fsync(r) \/ Cleanup(r)
  PROVE  StoreInv'
<1>0. ~Scripted(r) /\ Works(r)
  BY NoScriptHere DEF CreateTemp, Write, Fsync, Cleanup, At, InScript
<1>1. lease = r
  BY <1>0 DEF StoreInv
<1>2. UNCHANGED <<disk, durable, lease, kind, copy, turned, handed, leaving, stops>>
  BY DEF CreateTemp, Write, Fsync, Cleanup
<1>3. copy[r] \in Content
  BY DEF StoreInv, Types
<1>4. PICK new \in [content: Content, synced: BOOLEAN],
           stage \in {"write", "fsync", "replace", "unwind"} :
        /\ temp' = [temp EXCEPT ![r] = new] /\ at' = [at EXCEPT ![r] = stage]
        /\ stage # "unwind" => Carries(r)
        /\ stage \in {"fsync", "replace"} => new.content = copy[r]
        /\ stage = "replace" => new.synced = TRUE
  <2>1. CASE CreateTemp(r)
    <3>1. Unsynced(Torn) \in [content: Content, synced: BOOLEAN]
      BY DEF Unsynced, Content
    <3>2. /\ temp' = [temp EXCEPT ![r] = Unsynced(Torn)] /\ at' = [at EXCEPT ![r] = "write"]
          /\ Carries(r)
      BY <2>1 DEF CreateTemp, Goto, At, Carries
    <3> QED
      BY <3>1, <3>2
  <2>2. CASE Write(r)
    <3>1. /\ Unsynced(copy[r]) \in [content: Content, synced: BOOLEAN]
          /\ Unsynced(copy[r]).content = copy[r]
      BY <1>3 DEF Unsynced
    <3>2. /\ temp' = [temp EXCEPT ![r] = Unsynced(copy[r])]
          /\ at' = [at EXCEPT ![r] = "fsync"] /\ Carries(r)
      BY <2>2 DEF Write, Goto, At, Carries
    <3> QED
      BY <3>1, <3>2
  <2>3. CASE Fsync(r)
    <3> DEFINE new == [temp[r] EXCEPT !.synced = TRUE]
    <3>1. /\ temp[r] \in [content: Content, synced: BOOLEAN]
          /\ temp[r].content = copy[r]
      BY <2>3 DEF StoreInv, Types, TempIsGood, Fsync, At
    <3>2. /\ new \in [content: Content, synced: BOOLEAN]
          /\ new.content = copy[r] /\ new.synced = TRUE
      BY <3>1
    <3>3. /\ temp' = [temp EXCEPT ![r] = new] /\ at' = [at EXCEPT ![r] = "replace"]
          /\ Carries(r)
      BY <2>3 DEF Fsync, Goto, At, Carries
    <3> HIDE DEF new
    <3> QED
      BY <3>2, <3>3
  <2>4. CASE Cleanup(r)
    <3>1. Unsynced(NoFile) \in [content: Content, synced: BOOLEAN]
      BY DEF Unsynced, Content
    <3>2. temp' = [temp EXCEPT ![r] = Unsynced(NoFile)] /\ at' = [at EXCEPT ![r] = "unwind"]
      BY <2>4 DEF Cleanup, Goto
    <3> QED
      BY <3>1, <3>2
  <2> QED
    BY <2>1, <2>2, <2>3, <2>4
<1>5. at'[r] = stage /\ temp'[r] = new
  BY <1>4 DEF StoreInv, Types
<1>6. \A s \in Requests : s # r => ~Works(s) /\ Beside(s)
  BY <1>1, <1>2, <1>4, WorksAlone DEF StoreInv, Types, Beside
<1>7. Types'
  BY <1>2, <1>4 DEF StoreInv, Types, Stages
<1>8. at'[r] \notin InScript /\ (Untouched' <=> Untouched)
  BY <1>0, <1>2, <1>4, <1>5, <1>6, BesideScripts DEF InScript
<1>9. AlwaysWhole'
  BY <1>2, <1>8 DEF StoreInv, AlwaysWhole, Coherent
<1>10. Carries(r)' => CopyIsGood(r)'
  BY <1>2, <1>4, <1>5, <1>8 DEF StoreInv, Carries, CopyIsGood, Coherent
<1>11. TempIsGood(r)'
  BY <1>2, <1>4, <1>5 DEF TempIsGood
<1> QED
  BY <1>0, <1>1, <1>2, <1>6, <1>7, <1>8, <1>9, <1>10, <1>11, OwnStep

\* Replace: the profile becomes the copy.
LEMMA ReplaceKeeps ==
  ASSUME StoreInv, NEW r \in Requests, Replace(r)
  PROVE  /\ StoreInv'
         /\ disk' = copy[r] /\ CopyIsGood(r)
<1>0. at[r] = "replace" /\ ~Scripted(r) /\ Works(r)
  BY NoScriptHere DEF Replace, At, InScript
<1>1. lease = r /\ CopyIsGood(r)
  BY <1>0 DEF StoreInv, Carries
<1>2. temp[r].content = copy[r] /\ temp[r].synced = TRUE
  BY <1>0 DEF StoreInv, TempIsGood
<1>3. /\ disk' = copy[r] /\ durable' = durable \cup {copy[r]}
      /\ temp' = [temp EXCEPT ![r] = Unsynced(NoFile)]
      /\ UNCHANGED <<lease, kind, copy, turned, handed, leaving, stops>>
  BY <1>2 DEF Replace
<1>4. /\ at' \in [Requests -> Stages] /\ at'[r] \in {"turn", "unwind"}
      /\ \A s \in Requests : s # r =>
           at'[s] = at[s] \/ (at[s] = "rewrite" /\ at'[s] = "orphaned")
  BY DEF Replace, StoreInv, Types, Stages
<1>5. at'[r] \notin InScript
  BY <1>4 DEF InScript
<1>6. \A s \in Requests : s # r => ~Works(s) /\ Beside(s)
  BY <1>1, <1>3, <1>4, WorksAlone DEF StoreInv, Types, Beside
<1>7. Types'
  <2>1. Unsynced(NoFile) \in [content: Content, synced: BOOLEAN]
    BY DEF Unsynced, Content
  <2>2. copy[r] \in Content
    BY DEF StoreInv, Types
  <2> QED
    BY <1>3, <1>4, <2>1, <2>2 DEF StoreInv, Types
<1>8. Untouched' <=> Untouched
  BY <1>0, <1>3, <1>5, <1>6, BesideScripts
<1>9. AlwaysWhole'
  <2>1. copy[r] # Torn
    BY <1>1, StoreNamesAssumption DEF CopyIsGood
  <2> QED
    BY <1>1, <1>3, <1>8, <2>1 DEF StoreInv, AlwaysWhole, Coherent, CopyIsGood
<1>10. CopyIsGood(r)'
  BY <1>1, <1>3 DEF CopyIsGood, Coherent
<1>11. TempIsGood(r)'
  BY <1>4 DEF TempIsGood
<1> QED
  BY <1>0, <1>1, <1>3, <1>5, <1>6, <1>7, <1>9, <1>10, <1>11, OwnStep

\* The script: from the moment at which it goes on to write, whole profiles and
\* edits are no longer spoken of.
LEMMA ScriptKeeps ==
  ASSUME StoreInv, NEW r \in Requests,
         ScriptReads(r) \/ ScriptTruncates(r) \/ ScriptWrites(r) \/ ScriptIsLate(r)
  PROVE  StoreInv' /\ (disk' # disk => ~Untouched')
<1>1. Scripted(r)
  BY DEF StoreInv, ScriptIsGood, Scripted, InScript, ScriptReads, ScriptTruncates, ScriptWrites,
         ScriptIsLate, At
<1>2. /\ UNCHANGED <<lease, kind, temp, handed, leaving, stops>>
      /\ \A s \in Requests : s # r => at'[s] = at[s] /\ copy'[s] = copy[s]
  BY DEF StoreInv, Types, ScriptReads, ScriptTruncates, ScriptWrites, ScriptIsLate, Goto
<1>3. /\ at' \in [Requests -> Stages] /\ at'[r] \in InScript \cup {"done"}
      /\ copy' \in [Requests -> Content]
      /\ at'[r] \in InScript => copy'[r] \in Profile /\ Coherent(copy'[r])
      /\ copy[r] # NoFile => copy'[r] = copy[r] /\ at'[r] # "truncate"
      /\ disk' \in Content /\ durable' \subseteq Content
      /\ \A p \in durable' \cup {disk'} : Coherent(p)
      /\ \/ disk' = disk /\ durable' = durable
         \/ copy'[r] # NoFile /\ at'[r] # "truncate"
  <2>1. CASE ScriptReads(r) /\ disk \in Profile
    <3> DEFINE new == Cleaned
    <3>1. new \in Profile /\ new.cached = NoChart
      BY <2>1 DEF Cleaned, Profile
    <3>2. Coherent(new)
      BY <3>1 DEF Coherent
    <3>3. copy' = [copy EXCEPT ![r] = new] /\ at' = [at EXCEPT ![r] = "truncate"]
          /\ UNCHANGED <<disk, durable>> /\ copy[r] = NoFile
      BY <1>1, <2>1 DEF ScriptReads, Goto, At, StoreInv, ScriptIsGood
    <3> HIDE DEF new
    <3>4. copy'[r] = new /\ at'[r] = "truncate"
      BY <3>3 DEF StoreInv, Types
    <3> QED
      BY <3>1, <3>2, <3>3, <3>4 DEF StoreInv, Types, AlwaysWhole, Stages, InScript, Content
  <2>2. CASE ScriptReads(r) /\ disk \notin Profile
    <3>1. at' = [at EXCEPT ![r] = "done"] /\ UNCHANGED <<copy, disk, durable>>
          /\ copy[r] = NoFile
      BY <1>1, <2>2 DEF ScriptReads, Goto, At, StoreInv, ScriptIsGood
    <3>2. at'[r] = "done"
      BY <3>1 DEF StoreInv, Types
    <3> QED
      BY <3>1, <3>2 DEF StoreInv, Types, AlwaysWhole, Coherent, Stages, InScript
  <2>3. CASE ScriptTruncates(r)
    <3>1. /\ at' = [at EXCEPT ![r] = "rewrite"] /\ copy' = copy
          /\ disk' = Torn /\ durable' = durable \cup {Torn}
          /\ copy[r] \in Profile /\ Coherent(copy[r])
      BY <2>3 DEF ScriptTruncates, Goto, At, StoreInv, ScriptIsGood, InScript
    <3>2. at'[r] = "rewrite" /\ copy'[r] # NoFile /\ Coherent(Torn)
      BY <3>1, StoreNamesAssumption DEF StoreInv, Types, Coherent
    <3> QED
      BY <3>1, <3>2 DEF StoreInv, Types, AlwaysWhole, Stages, InScript, Content
  <2>4. CASE ScriptWrites(r)
    <3>1. PICK new \in {copy[r], Torn} : disk' = new /\ durable' = durable \cup {new}
      BY <2>4 DEF ScriptWrites
    <3>2. /\ at' = [at EXCEPT ![r] = "done"] /\ copy' = copy
          /\ copy[r] \in Profile /\ Coherent(copy[r])
      BY <2>4 DEF ScriptWrites, Goto, At, StoreInv, ScriptIsGood, InScript
    <3>3. at'[r] = "done" /\ copy'[r] # NoFile /\ Coherent(Torn)
      BY <3>2, StoreNamesAssumption DEF StoreInv, Types, Coherent
    <3>4. new \in Content /\ Coherent(new)
      BY <3>2, <3>3 DEF Content
    <3> QED
      BY <3>1, <3>2, <3>3, <3>4 DEF StoreInv, Types, AlwaysWhole, Stages, InScript
  <2>5. CASE ScriptIsLate(r)
    <3>1. at' = [at EXCEPT ![r] = "done"] /\ UNCHANGED <<copy, disk, durable>>
      BY <2>5 DEF ScriptIsLate, Goto
    <3>2. at'[r] = "done"
      BY <3>1 DEF StoreInv, Types
    <3> QED
      BY <3>1, <3>2 DEF StoreInv, Types, AlwaysWhole, Coherent, Stages, InScript
  <2> QED
    BY <2>1, <2>2, <2>3, <2>4, <2>5
<1>4. Untouched' => Untouched
  BY <1>2, <1>3, StaysTouched
<1>5. disk' # disk \/ durable' # durable => ~Untouched'
  BY <1>1, <1>2, <1>3 DEF Untouched, Scripted, At
<1>6. Types'
  BY <1>2, <1>3 DEF StoreInv, Types
<1>7. AlwaysWhole'
  BY <1>3, <1>4, <1>5 DEF StoreInv, AlwaysWhole, Coherent
<1>8. \A s \in Requests : Works(s)' => lease' = s
  BY <1>1, <1>2 DEF StoreInv, Works, Scripted
<1>9. \A s \in Requests : Carries(s)' => CopyIsGood(s)'
  <2>1. ASSUME NEW s \in Requests, Carries(s)' PROVE CopyIsGood(s)'
    <3>1. s # r
      BY <1>3, <2>1 DEF Carries, InScript
    <3>2. CopyIsGood(s) /\ copy'[s] = copy[s]
      BY <1>2, <2>1, <3>1 DEF StoreInv, Carries
    <3> QED
      BY <1>2, <1>4, <1>5, <3>2 DEF CopyIsGood, Coherent
  <2> QED
    BY <2>1
<1>10. \A s \in Requests : TempIsGood(s)'
  <2>1. ASSUME NEW s \in Requests, s # r PROVE TempIsGood(s)'
    BY <1>2, <2>1 DEF StoreInv, TempIsGood
  <2>2. TempIsGood(r)'
    BY <1>3 DEF TempIsGood, InScript
  <2> QED
    BY <2>1, <2>2
<1>11. \A s \in Requests : ScriptIsGood(s)'
  <2>1. ASSUME NEW s \in Requests, s # r PROVE ScriptIsGood(s)'
    BY <1>2, <2>1 DEF StoreInv, ScriptIsGood, Scripted, Coherent
  <2>2. ScriptIsGood(r)'
    BY <1>1, <1>2, <1>3 DEF ScriptIsGood, Scripted, InScript, Coherent
  <2> QED
    BY <2>1, <2>2
<1> QED
  BY <1>5, <1>6, <1>7, <1>8, <1>9, <1>10, <1>11 DEF StoreInv

-----------------------------------------------------------------------------
(* Kills and power losses: the requests that end work no more, and those   *)
(* that go on hold the lease as before.                                    *)

\* Who ends reads no more.
LEMMA EndTouches ==
  ASSUME StoreInv, NEW R \in SUBSET Requests, End(R)
  PROVE  Untouched' => Untouched
<1>1. \A s \in Requests : at[s] # "truncate" => at'[s] # "truncate"
  BY DEF End
<1> QED
  BY <1>1, StaysTouched DEF End

\* The end of some requests keeps the invariant, whichever content is found.
LEMMA EndKeeps ==
  ASSUME StoreInv, NEW R \in SUBSET Requests, End(R),
         disk' \in Content, durable' \subseteq Content, AlwaysWhole',
         disk' = disk \/ R = Requests
  PROVE  StoreInv' /\ stops' # stops
<1>1. \A s \in Requests : at'[s] = IF s \in R /\ Running(s) THEN "dead" ELSE at[s]
  BY DEF End
<1>2. ASSUME NEW s \in Requests, Works(s)'
      PROVE  s \notin R /\ at'[s] = at[s] /\ Works(s) /\ lease = s /\ lease' = s
  BY <1>1, <1>2 DEF Works, Scripted, Running, End, StoreInv
<1>3. Types' /\ stops' # stops
  <2>1. leaving' \subseteq handed' /\ stops' = stops + 1 /\ UNCHANGED <<kind, copy, temp>>
    BY DEF End, StoreInv, Types
  <2>2. stops' \in Nat /\ stops' # stops
    BY <2>1 DEF StoreInv, Types
  <2>3. at' \in [Requests -> Stages]
    BY <1>1 DEF End, StoreInv, Types, Stages
  <2> QED
    BY <2>1, <2>2, <2>3 DEF StoreInv, Types
<1>6. Untouched' => Untouched
  BY EndTouches
<1>7. ASSUME NEW s \in Requests PROVE ScriptIsGood(s)'
  BY <1>1 DEF StoreInv, ScriptIsGood, Scripted, InScript, Coherent, End
<1>4. ASSUME NEW s \in Requests, Carries(s)' PROVE CopyIsGood(s)'
  <2>1. Works(s)'
    BY <1>4, <1>7 DEF Carries, Works, ScriptIsGood, InScript, Scripted
  <2>2. Carries(s) /\ disk' = disk
    BY <1>2, <1>4, <2>1 DEF Carries
  <2> QED
    BY <1>6, <2>2 DEF StoreInv, CopyIsGood, Coherent, End
<1>5. ASSUME NEW s \in Requests PROVE TempIsGood(s)'
  <2>1. CASE at'[s] \in {"fsync", "replace"}
    <3>1. at'[s] = at[s]
      BY <1>1, <2>1
    <3> QED
      BY <3>1 DEF StoreInv, TempIsGood, End
  <2>2. CASE at'[s] \notin {"fsync", "replace"}
    BY <2>2 DEF TempIsGood
  <2> QED
    BY <2>1, <2>2
<1> QED
  BY <1>2, <1>3, <1>4, <1>5, <1>7 DEF StoreInv

\* What the invariant does not speak of may change.
LEMMA SameStore ==
  ASSUME StoreInv, UNCHANGED <<disk, durable, lease, kind, at, copy, temp, stops>>,
         leaving' \subseteq handed'
  PROVE  StoreInv'
<1>1. Untouched' <=> Untouched
  BY DEF Untouched, At
<1>2. Types' /\ AlwaysWhole'
  BY <1>1 DEF StoreInv, Types, AlwaysWhole, Coherent
<1>3. ASSUME NEW r \in Requests
      PROVE  /\ Works(r)' => lease' = r
             /\ Carries(r)' => CopyIsGood(r)'
             /\ TempIsGood(r)' /\ ScriptIsGood(r)'
  BY <1>1 DEF StoreInv, Works, Scripted, Carries, CopyIsGood, Coherent, TempIsGood, ScriptIsGood
<1> QED
  BY <1>2, <1>3 DEF StoreInv

\* A step of a request keeps the invariant; only Replace and a script change the
\* profile.
LEMMA StepKeeps ==
  ASSUME StoreInv, NEW r \in Requests, Step(r)
  PROVE  StoreInv' /\ (disk' # disk => Replace(r) \/ ~Untouched')
<1>2. CASE Acquire(r)
  BY <1>2, AcquireKeeps DEF Acquire
<1>3. CASE Start(r)
  BY <1>3, StartKeeps DEF Start
<1>4. CASE Refuse(r)
  <2>1. Works(r)
    BY <1>4, NoScriptHere DEF Refuse, InScript
  <2>2. lease' = r
    BY <1>4, <2>1 DEF StoreInv, Refuse
  <2>3. /\ at' = [at EXCEPT ![r] = "unwind"]
        /\ UNCHANGED <<disk, durable, kind, copy, temp, stops>>
        /\ leaving' \subseteq handed'
    BY <1>4 DEF Refuse, Goto, StoreInv, Types
  <2>4. "unwind" \in Stages \ InScript
    BY DEF Stages, InScript
  <2> QED
    BY <2>1, <2>2, <2>3, <2>4, OnlyMoves
<1>5. CASE Charge(r)
  <2>1. Works(r) /\ Carries(r)
    BY <1>5, NoScriptHere DEF Charge, At, InScript, Carries
  <2>2. lease' = r
    BY <1>5, <2>1 DEF StoreInv, Charge
  <2>3. /\ at' = [at EXCEPT ![r] = "save"]
        /\ UNCHANGED <<disk, durable, kind, copy, temp, stops>>
        /\ leaving' \subseteq handed'
    BY <1>5 DEF Charge, Goto, StoreInv, Types
  <2>4. "save" \in Stages \ InScript
    BY DEF Stages, InScript
  <2> QED
    BY <2>1, <2>2, <2>3, <2>4, OnlyMoves
<1>6. CASE StartWorker(r)
  <2>1. CASE leaving' = leaving \cup {r} /\ handed' = handed \cup {r} /\ UNCHANGED at
    <3>1. UNCHANGED <<disk, durable, lease, kind, at, copy, temp, stops>>
          /\ leaving' \subseteq handed'
      BY <1>6, <2>1 DEF StartWorker, StoreInv, Types
    <3> QED
      BY <3>1, SameStore
  <2>2. CASE Goto(r, "unwind") /\ UNCHANGED <<handed, leaving>>
    <3>1. Works(r)
      BY <1>6, NoScriptHere DEF StartWorker, At, InScript
    <3>2. lease' = r
      BY <1>6, <3>1 DEF StoreInv, StartWorker
    <3> QED
      BY <1>6, <2>2, <3>1, <3>2, OnlyMoves DEF StartWorker, Goto, Stages, InScript, StoreInv, Types
  <2> QED
    BY <1>6, <2>1, <2>2 DEF StartWorker
<1>7. CASE TearDown(r)
  <2>1. UNCHANGED <<disk, durable, lease, kind, at, copy, temp, handed, stops>>
    BY <1>7 DEF TearDown, StoreInv, Types
  <2>2. leaving' \subseteq handed'
    BY <1>7 DEF TearDown, StoreInv, Types
  <2> QED
    BY <2>1, <2>2, SameStore
<1>8. CASE Turn(r)
  BY <1>8, TurnKeeps DEF Turn
<1>9. CASE CreateTemp(r) \/ Write(r) \/ Fsync(r) \/ Cleanup(r)
  BY <1>9, TempKeeps DEF CreateTemp, Write, Fsync, Cleanup
<1>10. CASE SaveFails(r)
  <2>1. Works(r)
    BY <1>10, NoScriptHere DEF SaveFails, InScript
  <2>2. lease' = r
    BY <1>10, <2>1 DEF StoreInv, SaveFails
  <2>3. /\ at' = [at EXCEPT ![r] = "cleanup"]
        /\ UNCHANGED <<disk, durable, kind, copy, temp, stops>>
        /\ leaving' \subseteq handed'
    BY <1>10 DEF SaveFails, Goto, StoreInv, Types
  <2>4. "cleanup" \in Stages \ InScript
    BY DEF Stages, InScript
  <2> QED
    BY <2>1, <2>2, <2>3, <2>4, OnlyMoves
<1>11. CASE Replace(r)
  BY <1>11, ReplaceKeeps
<1>12. CASE Release(r)
  <2>1. Works(r)
    BY <1>12, NoScriptHere DEF Release, At, InScript
  <2>3. /\ at' = [at EXCEPT ![r] = "done"]
        /\ UNCHANGED <<disk, durable, kind, copy, temp, stops>>
        /\ leaving' \subseteq handed'
    BY <1>12 DEF Release, Goto, StoreInv, Types
  <2>4. "done" \in Stages \ InScript
    BY DEF Stages, InScript
  <2> QED
    BY <2>1, <2>3, <2>4, OnlyMoves
<1>13. CASE GetProfile(r)
  <2>1. /\ at' = [at EXCEPT ![r] = "done"] /\ copy' = [copy EXCEPT ![r] = disk]
        /\ UNCHANGED <<disk, durable, lease, kind, temp, handed, leaving, stops>>
    BY <1>13 DEF GetProfile, Goto
  <2>2. at'[r] = "done" /\ ~Scripted(r)
    BY <1>13, <2>1 DEF StoreInv, Types, GetProfile, Readers, Scripts, Scripted
  <2>3. Types'
    BY <2>1 DEF StoreInv, Types, Stages
  <2>4. \A s \in Requests : s # r => /\ at'[s] = at[s] /\ copy'[s] = copy[s]
                                     /\ temp'[s] = temp[s]
    BY <2>1 DEF StoreInv, Types
  <2> QED
    BY <2>1, <2>2, <2>3, <2>4, Aside DEF Works, Carries, InScript
<1>14. CASE ScriptReads(r) \/ ScriptTruncates(r) \/ ScriptWrites(r) \/ ScriptIsLate(r)
  BY <1>14, ScriptKeeps
<1> QED
  BY <1>2, <1>3, <1>4, <1>5, <1>6, <1>7, <1>8, <1>9, <1>10, <1>11, <1>12,
     <1>13, <1>14 DEF Step

\* And so does everything else that may happen.
LEMMA StoreStep ==
  ASSUME StoreInv, [Next]_vars
  PROVE  StoreInv'
<1>1. ASSUME NEW r \in Requests, Step(r) PROVE StoreInv'
  BY <1>1, StepKeeps
<1>2. CASE Kill
  <2>1. PICK R \in SUBSET Requests : End(R)
    BY <1>2 DEF Kill, OfServer
  <2>2. disk' = disk /\ durable' = durable
    BY <1>2 DEF Kill
  <2>3. Untouched' => Untouched
    BY <2>1, EndTouches
  <2>4. AlwaysWhole' /\ disk' \in Content /\ durable' \subseteq Content
    BY <2>2, <2>3 DEF StoreInv, Types, AlwaysWhole, Coherent
  <2> QED
    BY <2>1, <2>2, <2>4, EndKeeps
<1>3. CASE PowerLoss
  <2>1. disk' \in durable /\ durable' = {disk'} /\ End(Requests)
    BY <1>3 DEF PowerLoss
  <2>2. Untouched' => Untouched
    BY <2>1, EndTouches
  <2>3. AlwaysWhole' /\ disk' \in Content /\ durable' \subseteq Content
    BY <2>1, <2>2 DEF StoreInv, Types, AlwaysWhole, Coherent
  <2> QED
    BY <2>1, <2>3, EndKeeps
<1>4. CASE WriteBack
  <2>1. /\ durable' = {disk}
        /\ UNCHANGED <<disk, lease, kind, at, copy, temp, turned, handed, leaving, stops>>
    BY <1>4 DEF WriteBack
  <2>2. Untouched' <=> Untouched
    BY <2>1 DEF Untouched, At
  <2>3. Types' /\ AlwaysWhole'
    BY <2>1, <2>2 DEF StoreInv, Types, AlwaysWhole, Coherent
  <2>4. ASSUME NEW r \in Requests
        PROVE  /\ Works(r)' => lease' = r
               /\ Carries(r)' => CopyIsGood(r)'
               /\ TempIsGood(r)' /\ ScriptIsGood(r)'
    BY <2>1, <2>2
       DEF StoreInv, Works, Scripted, Carries, CopyIsGood, Coherent, TempIsGood, ScriptIsGood
  <2> QED
    BY <2>3, <2>4 DEF StoreInv
<1>5. CASE UNCHANGED vars
  BY <1>5, SameStore DEF vars, StoreInv, Types
<1> QED
  BY <1>1, <1>2, <1>3, <1>4, <1>5 DEF Next

\* At first there is no profile, or a whole one, and nobody works.
LEMMA StoreInit == Init => StoreInv
<1> SUFFICES ASSUME Init PROVE StoreInv
  OBVIOUS
<1>1. disk \in {NoFile} \cup {[chart |-> c, cached |-> c, edits |-> {}] : c \in Charts}
  BY DEF Init
<1>2. disk \in Content /\ disk # Torn /\ Coherent(disk)
  <2>1. CASE disk = NoFile
    BY <2>1, StoreNamesAssumption DEF Content, Coherent
  <2>2. ASSUME NEW c \in Charts, disk = [chart |-> c, cached |-> c, edits |-> {}]
        PROVE  disk \in Content /\ disk # Torn /\ Coherent(disk)
    <3>1. disk \in Profile /\ disk.cached = disk.chart
      BY <2>2 DEF Profile
    <3> QED
      BY <3>1, StoreNamesAssumption DEF Content, Coherent
  <2> QED
    BY <1>1, <2>1, <2>2
<1>3. Types
  BY <1>2 DEF Init, Types, Stages, Content, Unsynced
<1>4. AlwaysWhole
  BY <1>2 DEF Init, AlwaysWhole
<1> QED
  BY <1>3, <1>4 DEF Init, StoreInv, Works, Carries, TempIsGood, ScriptIsGood, InScript

\* The invariant holds always.
LEMMA StoreInvariant == Spec => []StoreInv
<1>1. StoreInv /\ [Next]_vars => StoreInv'
  BY StoreStep
<1> QED
  BY <1>1, StoreInit, PTL DEF Spec

\* Whoever opens the profile, at any moment and after any stop of a process
\* or of the machine, finds it whole, unless a script has begun to rewrite it,
\* and in any case with cached nodes of its own chart only
\* (profile_store.py save_profile: temporary file, fsync, os.replace).
THEOREM ProfileIsWhole == Spec => []AlwaysWhole
<1>1. StoreInv => AlwaysWhole
  BY DEF StoreInv
<1> QED
  BY <1>1, StoreInvariant, PTL

\* A request that reads, turns or saves holds the lease of its profile, also
\* in the worker of a stream whose handler is gone (locking.py, web_server.py
\* release_profile): two requests never work on one profile.
THEOREM OneWorker == Spec => []WorkUnderOneLease
<1>1. StoreInv => WorkUnderOneLease
  BY DEF StoreInv, WorkUnderOneLease, Works, Scripted
<1> QED
  BY <1>1, StoreInvariant, PTL

\* No edit is lost, but to a profile made anew, to a power loss and to a script
\* that has begun to rewrite the profile: however many requests load, edit and
\* save, what replaces the profile contains every edit it contained.
THEOREM EditsAreKept == Spec => NoLostEdit
<1> DEFINE Kept ==
      disk' # disk /\ disk \in Profile =>
        \/ stops' # stops
        \/ \E r \in Requests : kind[r] = "create_user" /\ At(r, "replace") /\ ~At(r, "replace")'
        \/ ~Untouched'
        \/ disk' \in Profile /\ disk.edits \subseteq disk'.edits
<1>1. ASSUME StoreInv, [Next]_vars PROVE [Kept]_vars
  <2>1. SUFFICES ASSUME Next, disk' # disk, disk \in Profile
                 PROVE  \/ stops' # stops
                        \/ \E r \in Requests : /\ kind[r] = "create_user" /\ At(r, "replace")
                                               /\ ~At(r, "replace")'
                        \/ ~Untouched'
                        \/ disk' \in Profile /\ disk.edits \subseteq disk'.edits
    BY <1>1
  <2>2. ASSUME NEW r \in Requests, Step(r), Untouched'
        PROVE  \/ kind[r] = "create_user" /\ At(r, "replace") /\ ~At(r, "replace")'
               \/ disk' \in Profile /\ disk.edits \subseteq disk'.edits
    <3>1. Replace(r)
      BY <1>1, <2>1, <2>2, StepKeeps
    <3>2. disk' = copy[r] /\ CopyIsGood(r)
      BY <1>1, <3>1, ReplaceKeeps
    <3>3. At(r, "replace") /\ ~At(r, "replace")'
      BY <3>1 DEF Replace, At
    <3>4. Untouched
      <4>1. \A s \in Requests : /\ UNCHANGED <<kind, copy>>
                                /\ at[s] # "truncate" => at'[s] # "truncate"
        BY <3>1 DEF Replace
      <4> QED
        BY <1>1, <2>2, <4>1, StaysTouched DEF Replace
    <3> QED
      BY <2>1, <3>2, <3>3, <3>4 DEF CopyIsGood
  <2>3. CASE Kill \/ PowerLoss
    <3>1. stops' = stops + 1 /\ stops \in Nat
      BY <1>1, <2>3 DEF Kill, PowerLoss, End, StoreInv, Types
    <3> QED
      BY <3>1
  <2>4. CASE WriteBack
    BY <2>1, <2>4 DEF WriteBack
  <2> QED
    BY <2>1, <2>2, <2>3, <2>4 DEF Next
<1>2. Spec => []StoreInv
  BY StoreInvariant
<1>3. Spec => [][Kept]_vars
  BY <1>1, <1>2, PTL DEF Spec
<1> QED
  BY <1>3 DEF NoLostEdit

-----------------------------------------------------------------------------
(* The rest of what the run checks of a profile.                           *)

Rest ==
  /\ lease \in Requests \cup {Free}
  /\ turned \subseteq Requests /\ handed \subseteq Requests
  /\ stops \in 0..MaxStops
  /\ TempsAreCleanedUp

\* One request steps; its temporary file is there only while it saves.
LEMMA RestStepsOn ==
  ASSUME StoreInv, Rest, NEW r \in Requests, Step(r)
  PROVE  Rest'
<1>1. lease' \in {lease, r, Free} /\ turned' \subseteq turned \cup {r}
      /\ handed' \subseteq handed \cup {r} /\ stops' = stops
  BY DEF Step, Acquire, Start, Refuse, Charge, StartWorker, TearDown, Turn, CreateTemp, Write,
         Fsync, SaveFails, Replace, Cleanup, Release, GetProfile, ScriptReads, ScriptTruncates,
         ScriptWrites, ScriptIsLate
<1>2. \A s \in Requests : s # r => at'[s] \in {at[s], "orphaned"} /\ temp'[s] = temp[s]
                             /\ (at'[s] # at[s] => at[s] = "rewrite")
  BY DEF Step, Acquire, Start, Refuse, Charge, StartWorker, TearDown, Turn, CreateTemp, Write,
         Fsync, SaveFails, Replace, Cleanup, Release, GetProfile, ScriptReads, ScriptTruncates,
         ScriptWrites, ScriptIsLate, Goto, StoreInv, Types
<1>3. temp'[r].content # NoFile => at'[r] \in {"write", "fsync", "replace", "cleanup", "dead"}
  <2>0. /\ temp[r].content # NoFile => at[r] \in {"write", "fsync", "replace", "cleanup", "dead"}
        /\ temp[r] \in [content: Content, synced: BOOLEAN] /\ at[r] \in Stages
    BY DEF Rest, TempsAreCleanedUp, StoreInv, Types
  <2>1. CASE Acquire(r) \/ Start(r) \/ Refuse(r) \/ Charge(r) \/ GetProfile(r) \/ ScriptReads(r)
             \/ ScriptTruncates(r) \/ ScriptWrites(r) \/ ScriptIsLate(r)
             \/ Release(r) \/ Turn(r)
    <3>1. at[r] \in {"new", "held", "charge", "truncate", "rewrite", "orphaned", "unwind",
                    "turn"}
          /\ temp' = temp
      BY <2>1 DEF Acquire, Start, Refuse, Charge, GetProfile, ScriptReads, ScriptTruncates,
                  ScriptWrites, ScriptIsLate, Release, Turn, At
    <3> QED
      BY <2>0, <3>1
  <2>2. CASE StartWorker(r) \/ TearDown(r)
    <3>1. temp' = temp /\ (at' = at \/ at[r] = "turn")
      BY <2>2 DEF StartWorker, TearDown, At
    <3> QED
      BY <2>0, <3>1
  <2>3. CASE CreateTemp(r) \/ Write(r) \/ Fsync(r) \/ SaveFails(r)
    <3>1. at'[r] \in {"write", "fsync", "replace", "cleanup"}
      BY <2>3 DEF CreateTemp, Write, Fsync, SaveFails, Goto, StoreInv, Types
    <3> QED
      BY <3>1
  <2>4. CASE Replace(r) \/ Cleanup(r)
    <3>1. temp' = [temp EXCEPT ![r] = Unsynced(NoFile)]
      BY <2>4 DEF Replace, Cleanup
    <3>2. temp'[r].content = NoFile
      BY <3>1 DEF StoreInv, Types, Unsynced
    <3> QED
      BY <3>2
  <2> QED
    BY <2>1, <2>2, <2>3, <2>4 DEF Step
<1>4. TempsAreCleanedUp'
  BY <1>2, <1>3 DEF Rest, TempsAreCleanedUp
<1> QED
  BY <1>1, <1>4 DEF Rest

\* Every step keeps the rest.
LEMMA RestStep ==
  ASSUME StoreInv, Rest, [Next]_vars
  PROVE  Rest'
<1>1. CASE Kill \/ PowerLoss
  <2>1. PICK R \in SUBSET Requests : End(R)
    BY <1>1 DEF Kill, PowerLoss, OfServer
  <2>2. stops < MaxStops
    BY <1>1 DEF Kill, PowerLoss
  <2>3. /\ lease' \in {lease, Free} /\ turned' = turned /\ handed' = handed /\ temp' = temp
        /\ stops' = stops + 1 /\ \A r \in Requests : at'[r] \in {at[r], "dead"}
    BY <2>1 DEF End
  <2>4. stops' \in 0..MaxStops
    BY <2>2, <2>3, StopsAssumption DEF Rest
  <2>5. TempsAreCleanedUp'
    BY <2>3 DEF Rest, TempsAreCleanedUp
  <2> QED
    BY <2>3, <2>4, <2>5 DEF Rest
<1>2. CASE WriteBack \/ UNCHANGED vars
  BY <1>2 DEF WriteBack, vars, Rest, TempsAreCleanedUp
<1> QED
  BY <1>1, <1>2, RestStepsOn DEF Next

\* At first there are no temporary files.
LEMMA RestInit == Init => Rest
<1> SUFFICES ASSUME Init PROVE Rest
  OBVIOUS
<1>1. \A r \in Requests : temp[r].content = NoFile
  BY DEF Init, Unsynced
<1> QED
  BY <1>1, StopsAssumption DEF Init, Rest, TempsAreCleanedUp

-----------------------------------------------------------------------------
(* A script that runs alone: while it rewrites the profile, that is torn;  *)
(* a save in between replaces the torn one.                                *)

OneScript == \A q, r \in Requests : Scripted(q) /\ Scripted(r) => q = r

Mended ==
  OneScript => /\ disk = Torn /\ stops = 0 => \E r \in Requests : At(r, "rewrite")
           /\ \A r \in Requests : At(r, "rewrite") => disk = Torn

\* A step that neither starts nor ends a rewriting, and leaves the disk alone.
LEMMA NoRewriting ==
  ASSUME Mended, disk' = disk, stops' = stops, kind' = kind,
         \A s \in Requests : At(s, "rewrite") <=> At(s, "rewrite")'
  PROVE  Mended'
BY DEF Mended, OneScript, Scripted, At

\* A save installs a whole profile, and no script rewrites that one.
LEMMA ReplaceMends ==
  ASSUME StoreInv, NEW r \in Requests, Replace(r)
  PROVE  Mended'
<1>1. disk' \in Profile
  BY DEF Replace, StoreInv, TempIsGood, CopyIsGood, Carries, At, Scripted, Types
<1>2. disk' # Torn
  BY <1>1, StoreNamesAssumption
<1>3. \A s \in Requests : at'[s] # "rewrite"
  BY DEF Replace
<1> QED
  BY <1>2, <1>3 DEF Mended, At

\* The script tears the profile and, alone, writes all of it.
LEMMA ScriptMends ==
  ASSUME StoreInv, Mended, NEW r \in Requests, ScriptTruncates(r) \/ ScriptWrites(r)
  PROVE  Mended'
<1> SUFFICES ASSUME OneScript PROVE Mended'
  BY DEF Mended, OneScript, ScriptTruncates, ScriptWrites, Scripted
<1>0. at \in [Requests -> Stages]
  BY DEF StoreInv, Types
<1>1. CASE ScriptTruncates(r)
  <2>1. disk' = Torn /\ at'[r] = "rewrite"
    BY <1>0, <1>1 DEF ScriptTruncates, Goto
  <2> QED
    BY <2>1 DEF Mended, At
<1>2. CASE ScriptWrites(r)
  <2>1. disk = Torn
    BY <1>2 DEF Mended, ScriptWrites
  <2>2. copy[r] \in Profile /\ Scripted(r)
    BY <1>2 DEF ScriptWrites, StoreInv, ScriptIsGood, InScript, At
  <2>3. disk' # Torn
    BY <1>2, <2>1, <2>2, StoreNamesAssumption DEF ScriptWrites
  <2>4. \A s \in Requests : at'[s] # "rewrite"
    BY <1>0, <1>2, <2>2 DEF OneScript, ScriptWrites, Goto, StoreInv, ScriptIsGood, InScript
  <2> QED
    BY <2>3, <2>4 DEF Mended, At
<1> QED
  BY <1>1, <1>2

\* Every step keeps it: a stop ends the time it is about.
LEMMA MendStep ==
  ASSUME StoreInv, Mended, Rest, [Next]_vars
  PROVE  Mended'
<1>0. at \in [Requests -> Stages]
  BY DEF StoreInv, Types
<1>1. ASSUME NEW r \in Requests, Step(r) PROVE Mended'
  <2>1. CASE Replace(r)
    BY <2>1, ReplaceMends
  <2>2. CASE ScriptTruncates(r) \/ ScriptWrites(r)
    BY <2>2, ScriptMends
  <2>3. CASE ~Replace(r) /\ ~ScriptTruncates(r) /\ ~ScriptWrites(r)
    <3>1. disk' = disk /\ stops' = stops /\ kind' = kind
      BY <1>1, <2>3 DEF Step, Acquire, Start, Refuse, Charge, StartWorker, TearDown, Turn,
         CreateTemp, Write, Fsync, SaveFails, Cleanup, Release, GetProfile, ScriptReads,
         ScriptIsLate
    <3>2. \A s \in Requests : s # r => at'[s] = at[s]
      BY <1>0, <1>1, <2>3 DEF Step, Acquire, Start, Refuse, Charge, StartWorker, TearDown, Turn,
         CreateTemp, Write, Fsync, SaveFails, Cleanup, Release, GetProfile, ScriptReads,
         ScriptIsLate, Goto
    <3>3. "rewrite" \notin {at[r], at'[r]} \/ at'[r] = at[r]
      BY <1>0, <1>1, <2>3 DEF Step, Acquire, Start, Refuse, Charge, StartWorker, TearDown, Turn,
         CreateTemp, Write, Fsync, SaveFails, Cleanup, Release, GetProfile, ScriptReads,
         ScriptIsLate, Goto, At
    <3> QED
      BY <3>1, <3>2, <3>3, NoRewriting DEF At
  <2> QED
    BY <2>1, <2>2, <2>3
<1>2. CASE Kill
  <2>1. PICK R \in SUBSET Requests : End(R)
    BY <1>2 DEF Kill, OfServer
  <2>2. stops' # 0 /\ kind' = kind /\ \A s \in Requests : at'[s] \in {at[s], "dead"}
    BY <2>1, StopsAssumption DEF End, Rest
  <2>3. disk' = disk
    BY <1>2 DEF Kill
  <2> QED
    BY <2>2, <2>3 DEF Mended, OneScript, Scripted, At
<1>3. CASE PowerLoss
  <2>1. End(Requests)
    BY <1>3 DEF PowerLoss
  <2>2. stops' # 0
    BY <2>1, StopsAssumption DEF End, Rest
  <2>3. \A s \in Requests : at'[s] # "rewrite"
    BY <2>1 DEF End, Running
  <2> QED
    BY <2>2, <2>3 DEF Mended, At
<1>4. CASE WriteBack \/ UNCHANGED vars
  BY <1>4 DEF WriteBack, vars, Mended, OneScript, Scripted, At
<1> QED
  BY <1>1, <1>2, <1>3, <1>4 DEF Next

\* At first the profile is whole and nobody works.
LEMMA MendInit == Init => Mended
<1> SUFFICES ASSUME Init PROVE Mended
  OBVIOUS
<1>1. disk # Torn
  BY StoreNamesAssumption DEF Init, Profile
<1> QED
  BY <1>1 DEF Init, Mended, At

-----------------------------------------------------------------------------
(***************************************************************************)
(* The theorems of the sum.  Each part steps while the others rest.        *)
(***************************************************************************)

\* A step of the sum is a step of one part and leaves the others alone.
LEMMA SharedSteps ==
  ASSUME [SharedNext]_<<part, vars, logVars, consoleVars>>
  PROVE  /\ [Next]_vars
         /\ C!Next \/ UNCHANGED logVars
         /\ O!Next \/ UNCHANGED consoleVars
  BY DEF SharedNext

\* Whoever opens a profile, at any moment and after any stop, finds it whole
\* unless a script has gone on to rewrite it in place, and then until a script
\* that runs alone has mended it; its nodes are of its own chart; a save that
\* fails leaves no temporary file; and whoever is between its load and its last
\* save holds the lease, also in the worker of a stream (profile_store.py,
\* locking.py, web_server.py release_profile, clean_demo_profile.py).
THEOREM ProfilesStayWhole == SharedSpec => []ProfileStaysWhole
<1>1. SharedInit => StoreInv /\ Rest /\ Mended
  BY StoreInit, RestInit, MendInit DEF SharedInit
<1>2. StoreInv /\ Rest /\ Mended /\ [SharedNext]_<<part, vars, logVars, consoleVars>>
      => StoreInv' /\ Rest' /\ Mended'
  BY SharedSteps, StoreStep, RestStep, MendStep
<1>3. StoreInv /\ Rest /\ Mended => ProfileStaysWhole
  <2> SUFFICES ASSUME StoreInv, Rest, Mended PROVE ProfileStaysWhole
    OBVIOUS
  <2>1. StoreTypeOK
    BY DEF StoreInv, Types, Rest, StoreTypeOK
  <2>2. AlwaysWhole /\ TempsAreCleanedUp /\ WorkUnderOneLease
    BY DEF StoreInv, Rest, WorkUnderOneLease, Works, Scripted
  <2>3. TornWhileRewritten
    BY DEF Mended, OneScript, Scripted, TornWhileRewritten
  <2> QED
    BY <2>1, <2>2, <2>3 DEF ProfileStaysWhole
<1> QED
  BY <1>1, <1>2, <1>3, PTL DEF SharedSpec

\* However many requests ask, trace, answer, fail or are killed while others are
\* refused and the retention script prunes, load_recent_rounds pairs a question
\* with its own answer unless a write was torn, the history a request was given
\* is that of the log when it asks, its question is not lost, and the page
\* shows the rounds the prompt has (conversation_store.py).
THEOREM HistoriesPairUp == SharedSpec => []RoundsPairUp
<1>0. C!NamesAssumption /\ C!BoundsAssumption
  BY SharedAssumption
<1>1. SharedInit => LogInv
  BY <1>0, LogInit DEF SharedInit
<1>2. LogInv /\ [SharedNext]_<<part, vars, logVars, consoleVars>> => LogInv'
  BY <1>0, SharedSteps, LogStep
<1>3. LogInv => RoundsPairUp
  BY <1>0, LogIsSound
<1> QED
  BY <1>1, <1>2, <1>3, PTL DEF SharedSpec

\* A write that a crash has torn costs at most one answered request its place
\* in the history, in any log and however many were torn before: the damage
\* moves from the torn line to the question that garbled it, and no further.
THEOREM TearsStayContained == SharedSpec => []TearsAreContained
<1>0. C!NamesAssumption /\ C!BoundsAssumption
  BY SharedAssumption
<1>1. SharedInit => LogInv
  BY <1>0, LogInit DEF SharedInit
<1>2. LogInv /\ [SharedNext]_<<part, vars, logVars, consoleVars>> => LogInv'
  BY <1>0, SharedSteps, LogStep
<1>3. LogInv => TearsAreContained
  BY DamageIsContained
<1> QED
  BY <1>1, <1>2, <1>3, PTL DEF SharedSpec

\* However many requests swap sys.stdout under one another, a hexagram is made
\* of its own coins, who ran alone captured exactly its own line and gave the
\* console back, and no line is in two streams (najia_tool).
THEOREM ThrowsStayApart == SharedSpec => []ThrowsKeepApart
<1>0. O!ConsoleIsNoRequest
  BY SharedAssumption
<1>1. SharedInit => ThrowInv
  BY <1>0, ThrowInit DEF SharedInit
<1>2. ThrowInv /\ [SharedNext]_<<part, vars, logVars, consoleVars>> => ThrowInv'
  BY <1>0, SharedSteps, ThrowStep
<1>3. ThrowInv => ThrowsKeepApart
  BY <1>0, ThrowsAreApart
<1> QED
  BY <1>1, <1>2, <1>3, PTL DEF SharedSpec
=============================================================================
