----------------------------- MODULE Hexagrams -----------------------------
(***************************************************************************)
(* The Na Jia engine (najia/Gua.py, najia/const.py): six throws of three   *)
(* coins and the day of the throw become a hexagram (bengua), its hidden   *)
(* lines (fushen) and the hexagram its moving lines change into (biangua). *)
(*                                                                         *)
(* Stems, branches, elements, relatives, spirits and trigrams are numbered *)
(* as their lists in const.py; lines are numbered 1 to 6 from below, the   *)
(* code counts them from 0.                                                *)
(***************************************************************************)
EXTENDS Integers, Sequences, FiniteSets

CONSTANT Inputs   \* pairs of six throws and a day

Lines == 1..6

InputsAssumption == Inputs \subseteq [Lines -> 0..7] \X (0..59)

VARIABLES
  yao,      \* yaoList
  day,      \* index of the day in the cycle of sixty
  pc,
  time,     \* liushen and xunkong
  bengua,   \* selfgua
  fushen,   \* fushenLiuqin: line -> relative, -1 for none
  biangua

vars == <<yao, day, pc, time, bengua, fushen, biangua>>

Relatives == 0..4   \* LIUQINLIST

-----------------------------------------------------------------------------
(* Tables of const.py.                                                     *)

YANGYAO == {7, 4, 2, 1}
BIANYAO == {0, 7}

\* LIUSHISIGUAINFO, by the value 8 * xiagua + shanggua of the hexagram.
GongTable ==
  <<0, 7, 0, 7, 4, 7, 6, 7, 6, 1, 6, 1, 6, 5, 6, 7, 2, 5, 2, 5, 4, 5, 6, 5, 4, 3, 4, 3, 4, 5, 4, 7,
    0, 3, 2, 3, 4, 3, 4, 3, 2, 1, 2, 3, 2, 5, 2, 5, 0, 1, 2, 1, 6, 1, 6, 1, 0, 1, 0, 3, 0, 7, 0, 7>>
GongweiTable ==
  <<0, 5, 7, 4, 1, 6, 2, 3, 5, 0, 4, 7, 6, 1, 3, 2, 7, 4, 0, 5, 2, 3, 1, 6, 4, 7, 5, 0, 3, 2, 6, 1,
    1, 6, 2, 3, 0, 5, 7, 4, 6, 1, 3, 2, 5, 0, 4, 7, 2, 3, 1, 6, 7, 4, 0, 5, 3, 2, 6, 1, 4, 7, 5, 0>>
ShiTable ==
  <<5, 4, 2, 3, 0, 3, 1, 2, 4, 5, 3, 2, 3, 0, 2, 1, 2, 3, 5, 4, 1, 2, 0, 3, 3, 2, 4, 5, 2, 1, 3, 0,
    0, 3, 1, 2, 5, 4, 2, 3, 3, 0, 2, 1, 4, 5, 3, 2, 1, 2, 0, 3, 2, 3, 5, 4, 2, 1, 3, 0, 3, 2, 4, 5>>
YingTable ==
  <<2, 1, 5, 0, 3, 0, 4, 5, 1, 2, 0, 5, 0, 3, 5, 4, 5, 0, 2, 1, 4, 5, 3, 0, 0, 5, 1, 2, 5, 4, 0, 3,
    3, 0, 4, 5, 2, 1, 5, 0, 0, 3, 5, 4, 1, 2, 0, 5, 4, 5, 3, 0, 5, 0, 2, 1, 5, 4, 0, 3, 0, 5, 1, 2>>
WuxingTable ==
  <<2, 3, 2, 3, 0, 3, 3, 3, 3, 2, 3, 2, 3, 1, 3, 3, 4, 1, 4, 1, 0, 1, 3, 1, 0, 0, 0, 0, 0, 1, 0, 3,
    2, 0, 4, 0, 0, 0, 0, 0, 4, 2, 4, 0, 4, 1, 4, 1, 2, 2, 4, 2, 3, 2, 3, 2, 2, 2, 2, 0, 2, 3, 2, 3>>

\* The branches of a trigram below and above (XIAGUANAJIA, SHANGGUANAJIA).
LowerBranches == <<<<7, 5, 3>>, <<4, 6, 8>>, <<2, 4, 6>>, <<1, 11, 9>>,
                   <<0, 2, 4>>, <<3, 1, 11>>, <<5, 3, 1>>, <<0, 2, 4>>>>
UpperBranches == <<<<1, 11, 9>>, <<10, 0, 2>>, <<8, 10, 0>>, <<7, 5, 3>>,
                   <<6, 8, 10>>, <<9, 7, 5>>, <<11, 9, 7>>, <<6, 8, 10>>>>

\* faulty
NajiaTwiceLower(value) ==
  [i \in Lines |-> IF i <= 3 THEN LowerBranches[value \div 8 + 1][i]
                             ELSE LowerBranches[(value % 8) + 1][i - 3]]

Najia(value) ==
  [i \in Lines |-> IF i <= 3 THEN LowerBranches[value \div 8 + 1][i]
                             ELSE UpperBranches[(value % 8) + 1][i - 3]]

DIZHIWUXING == <<4, 2, 0, 0, 2, 1, 1, 2, 3, 3, 2, 4>>

\* LIUSHENDICT starts the six spirits at a place that depends on the stem.
FirstSpirit == <<0, 0, 1, 1, 2, 3, 4, 4, 5, 5>>
Liushen(stem) == [i \in Lines |-> (FirstSpirit[stem + 1] + i - 1) % 6]

\* XUNKONGDICT: the same two branches for every day of a decade.
Xunkong(d) == <<{10, 11}, {8, 9}, {6, 7}, {4, 5}, {2, 3}, {0, 1}>>[d \div 10 + 1]

-----------------------------------------------------------------------------
(* Gua.py                                                                  *)

\* xiaguaValue * 8 + shangguaValue, which also picks the name.
Value(lines) ==
  32 * lines[1] + 16 * lines[2] + 8 * lines[3] + 4 * lines[4] + 2 * lines[5] + lines[6]

\* getLiuqin: a negative index counts from the end of LIUQINLIST.
Liuqin(value, wuxing) ==
  [i \in Lines |-> (DIZHIWUXING[Najia(value)[i] + 1] - wuxing) % 5]

Gong(value) == GongTable[value + 1]

\* LiushisiGua with getBasicInfo, then getLiuqin.
Gua(value, lines, wuxing) ==
  [value |-> value, lines |-> lines, najia |-> Najia(value),
   wuxing |-> WuxingTable[value + 1], gong |-> Gong(value),
   gongwei |-> GongweiTable[value + 1], shiyao |-> ShiTable[value + 1],
   yingyao |-> YingTable[value + 1], liuqin |-> Liuqin(value, wuxing)]

NoGua == [value |-> -1]

Init ==
  /\ \E input \in Inputs : yao = input[1] /\ day = input[2]
  /\ pc = "time"
  /\ time = [liushen |-> <<>>, xunkong |-> {}]
  /\ bengua = NoGua
  /\ fushen = [i \in Lines |-> -1]
  /\ biangua = NoGua

\* generateTimeRelatedInfo
GenerateTimeRelatedInfo ==
  /\ pc = "time"
  /\ time' = [liushen |-> Liushen(day % 10), xunkong |-> Xunkong(day)]
  /\ pc' = "bengua"
  /\ UNCHANGED <<yao, day, bengua, fushen, biangua>>

YaoYinyang(y) == [i \in Lines |-> IF y[i] \in YANGYAO THEN 1 ELSE 0]
Bianyao(y) == [i \in Lines |-> IF y[i] \in BIANYAO THEN 1 ELSE 0]

\* The rest of GuaGenerator.__init__, up to the hidden lines.
MakeBengua ==
  /\ pc = "bengua"
  /\ LET lines == YaoYinyang(yao)
         value == Value(lines)
     IN bengua' = Gua(value, lines, WuxingTable[value + 1])
  /\ pc' = "fushen"
  /\ UNCHANGED <<yao, day, time, fushen, biangua>>

\* getFushen: the lines of the palace's hexagram whose relative is missing.
GetFushen ==
  /\ pc = "fushen"
  /\ LET bengong == Liuqin(9 * bengua.gong, bengua.wuxing)
         shown == {bengua.liuqin[i] : i \in Lines}
     IN fushen' = IF bengua.value = 9 * bengua.gong THEN fushen
                  ELSE [i \in Lines |-> IF bengong[i] \notin shown THEN bengong[i] ELSE -1]
  /\ pc' = "biangua"
  /\ UNCHANGED <<yao, day, time, bengua, biangua>>

\* BianGua is reckoned from the element of the bengua.
ElementOfBiangua(value) == bengua.wuxing

GetBiangua ==
  /\ pc = "biangua"
  /\ LET lines == [i \in Lines |-> (bengua.lines[i] + Bianyao(yao)[i]) % 2]
         value == Value(lines)
     IN biangua' = Gua(value, lines, ElementOfBiangua(value))
  /\ pc' = "done"
  /\ UNCHANGED <<yao, day, time, bengua, fushen>>

Next ==
  \/ GenerateTimeRelatedInfo
  \/ MakeBengua
  \/ GetFushen
  \/ GetBiangua

Spec == Init /\ [][Next]_vars

-----------------------------------------------------------------------------
(* Properties.                                                             *)

Done == pc = "done"

HexagramTypeOK ==
  /\ bengua # NoGua => bengua.value \in 0..63 /\ bengua.liuqin \in [Lines -> Relatives]
  /\ fushen \in [Lines -> Relatives \cup {-1}]
  /\ biangua # NoGua => biangua.value \in 0..63 /\ biangua.liuqin \in [Lines -> Relatives]
  /\ pc # "time" => {time.liushen[i] : i \in Lines} = 0..5

\* The number of coins that show one face.
Ones(throw) == throw \div 4 + ((throw \div 2) % 2) + (throw % 2)

Line(value, i) == (value \div <<32, 16, 8, 4, 2, 1>>[i]) % 2

\* A line is yang when an odd number of coins shows one face and moves when all
\* three show the same; the hexagrams that are named, below and above in their
\* right order, are the one that was thrown and the one with the moving lines
\* turned over.
NamesTheThrow ==
  Done => \A i \in Lines :
    /\ Line(bengua.value, i) = Ones(yao[i]) % 2
    /\ Line(biangua.value, i) # Line(bengua.value, i) <=> Ones(yao[i]) \in {0, 3}

\* The hexagram at a place of a palace: the palace's trigram doubled, then one
\* more line turned from below up to the fifth, then the fourth turned back, then
\* the three below it.
Generation ==
  <<{}, {1}, {1, 2}, {1, 2, 3}, {1, 2, 3, 4}, {1, 2, 3, 4, 5}, {1, 2, 3, 5}, {5}>>

InItsPalace(gua) ==
  \A i \in Lines :
    Line(gua.value, i) # Line(9 * gua.gong, i) <=> i \in Generation[gua.gongwei + 1]

\* The tables of the sixty-four hexagrams agree with the rule of the eight
\* palaces: each stands in the palace and at the place it is generated at, has
\* that palace's element, and its shi line is the last that was turned, three
\* lines from the ying line.
FollowsThePalaces ==
  Done => \A gua \in {bengua, biangua} :
    /\ InItsPalace(gua)
    /\ gua.wuxing = WuxingTable[9 * gua.gong + 1]
    /\ gua.shiyao = <<5, 0, 1, 2, 3, 4, 3, 2>>[gua.gongwei + 1]
    /\ gua.yingyao = (gua.shiyao + 3) % 6

\* With the hidden lines a reader always finds all five relatives, and no
\* relative is both shown and hidden: only because every palace's own hexagram
\* has all five.
FiveRelatives ==
  Done =>
    LET shown == {bengua.liuqin[i] : i \in Lines}
        hidden == {fushen[i] : i \in Lines} \ {-1}
    IN shown \cup hidden = Relatives /\ shown \cap hidden = {}

\* The same branch is the same relative in both hexagrams, though they may
\* belong to palaces of different elements.
OneReckoning ==
  Done => \A i, j \in Lines :
    bengua.najia[i] = biangua.najia[j] => bengua.liuqin[i] = biangua.liuqin[j]

\* The void branches of a day are the two its decade leaves out.
VoidsAreLeftOut ==
  Done => time.xunkong = (0..11) \ {(10 * (day \div 10) + k) % 12 : k \in 0..9}
=============================================================================
