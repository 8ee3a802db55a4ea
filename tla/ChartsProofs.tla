---------------------------- MODULE ChartsProofs ----------------------------
(***************************************************************************)
(* What the run Charts checks on inputs that reach every entry of every    *)
(* table, proved of every throw, birth and chart.  A table is a finite     *)
(* fact: the lemmas about tables leave their cases to the SMT solver.      *)
(***************************************************************************)
EXTENDS MCCharts, FiniteSetTheorems, TLAPS

(***************************************************************************)
(* Hexagrams: what a reading holds follows from the throw and the day.     *)
(***************************************************************************)

Thrown == H!YaoYinyang(yao)
Turned == [i \in H!Lines |-> (Thrown[i] + H!Bianyao(yao)[i]) % 2]
ElementOf(lines) == H!WuxingTable[H!Value(lines) + 1]
Own == H!Gua(H!Value(Thrown), Thrown, ElementOf(Thrown))
Changed == H!Gua(H!Value(Turned), Turned, ElementOf(Thrown))
PalaceRelatives == H!Liuqin(9 * Own.gong, Own.wuxing)
Shown == {Own.liuqin[i] : i \in H!Lines}
NoneHidden == [i \in H!Lines |-> -1]
Hidden ==
  IF Own.value = 9 * Own.gong THEN NoneHidden
  ELSE [i \in H!Lines |-> IF PalaceRelatives[i] \notin Shown THEN PalaceRelatives[i] ELSE -1]

Before(stages) == thrown \in stages

GuaInv ==
  /\ yao \in [H!Lines -> 0..7] /\ day \in 0..59
  /\ thrown \in {"time", "bengua", "fushen", "biangua", "done"}
  /\ thrown # "time" => time = [liushen |-> H!Liushen(day % 10), xunkong |-> H!Xunkong(day)]
  /\ bengua = IF Before({"time", "bengua"}) THEN H!NoGua ELSE Own
  /\ fushen = IF Before({"time", "bengua", "fushen"}) THEN NoneHidden ELSE Hidden
  /\ biangua = IF Before({"time", "bengua", "fushen", "biangua"}) THEN H!NoGua ELSE Changed

\* The value of a hexagram has its lines as its binary digits.
LEMMA ValueHasLines ==
  ASSUME NEW l \in [H!Lines -> 0..1]
  PROVE  H!Value(l) \in 0..63 /\ \A i \in H!Lines : H!Line(H!Value(l), i) = l[i]
<1>1. /\ l[1] \in 0..1 /\ l[2] \in 0..1 /\ l[3] \in 0..1
      /\ l[4] \in 0..1 /\ l[5] \in 0..1 /\ l[6] \in 0..1
  BY DEF H!Lines
<1> QED
  BY <1>1, SMTT(60) DEF H!Value, H!Line, H!Lines

\* Each hexagram stands where its palace generates it, with the element and the
\* shi and ying lines of its place.
LEMMA PalaceTables ==
  ASSUME NEW v \in 0..63
  PROVE  /\ H!GongTable[v + 1] \in 0..7
         /\ H!WuxingTable[v + 1] \in 0..4
         /\ H!WuxingTable[v + 1] = H!WuxingTable[9 * H!GongTable[v + 1] + 1]
         /\ H!ShiTable[v + 1] = <<5, 0, 1, 2, 3, 4, 3, 2>>[H!GongweiTable[v + 1] + 1]
         /\ H!YingTable[v + 1] = (H!ShiTable[v + 1] + 3) % 6
<1>1. H!GongTable[v + 1] \in 0..7
  BY SMTT(60) DEF H!GongTable
<1>2. H!WuxingTable[v + 1] \in 0..4
  BY SMTT(60) DEF H!WuxingTable
<1>3. H!WuxingTable[v + 1] = H!WuxingTable[9 * H!GongTable[v + 1] + 1]
  BY SMTT(60) DEF H!WuxingTable, H!GongTable
<1>4. H!ShiTable[v + 1] = <<5, 0, 1, 2, 3, 4, 3, 2>>[H!GongweiTable[v + 1] + 1]
  BY SMTT(60) DEF H!ShiTable, H!GongweiTable
<1>5. H!YingTable[v + 1] = (H!ShiTable[v + 1] + 3) % 6
  BY SMTT(60) DEF H!ShiTable, H!YingTable
<1> QED
  BY <1>1, <1>2, <1>3, <1>4, <1>5

\* The lines of a hexagram and of its palace's differ as its generation says.
LEMMA PalaceLines ==
  ASSUME NEW v \in 0..63
  PROVE  \A i \in H!Lines :
           H!Line(v, i) # H!Line(9 * H!GongTable[v + 1], i)
             <=> i \in H!Generation[H!GongweiTable[v + 1] + 1]
BY SMTT(120) DEF H!Line, H!Lines, H!GongTable, H!GongweiTable, H!Generation

\* The branches of the lines, and their relatives.
LEMMA NajiaType ==
  ASSUME NEW v \in 0..63, NEW i \in H!Lines
  PROVE  H!Najia(v)[i] \in 0..11
<1>1. \A t \in 0..7, k \in 1..3 : H!LowerBranches[t + 1][k] \in 0..11
                               /\ H!UpperBranches[t + 1][k] \in 0..11
  BY SMTT(60) DEF H!LowerBranches, H!UpperBranches
<1>2. v \div 8 \in 0..7 /\ v % 8 \in 0..7
  OBVIOUS
<1> QED
  BY <1>1, <1>2 DEF H!Najia, H!Lines

\* Lines have relatives.
LEMMA LiuqinType ==
  ASSUME NEW v \in 0..63, NEW w \in 0..4
  PROVE  H!Liuqin(v, w) \in [H!Lines -> H!Relatives]
<1>1. \A z \in 0..11 : H!DIZHIWUXING[z + 1] \in 0..4
  BY DEF H!DIZHIWUXING
<1>2. ASSUME NEW i \in H!Lines PROVE (H!DIZHIWUXING[H!Najia(v)[i] + 1] - w) % 5 \in 0..4
  <2>1. H!DIZHIWUXING[H!Najia(v)[i] + 1] \in 0..4
    BY <1>1, NajiaType
  <2> QED
    BY <2>1
<1> QED
  BY <1>2 DEF H!Liuqin, H!Relatives

\* The relatives of the eight pure hexagrams, line by line.
RelativesOfPure ==
  <<<<0, 4, 3, 0, 2, 1>>, <<0, 4, 1, 0, 2, 3>>, <<1, 3, 2, 4, 3, 0>>, <<2, 4, 3, 2, 1, 0>>,
    <<4, 0, 2, 1, 3, 2>>, <<4, 1, 3, 2, 1, 0>>, <<3, 2, 4, 1, 0, 4>>, <<1, 2, 4, 3, 0, 4>>>>

\* All five relatives are among the lines of a palace's own hexagram.
LEMMA PalaceHasAll ==
  ASSUME NEW g \in 0..7
  PROVE  {H!Liuqin(9 * g, H!WuxingTable[9 * g + 1])[i] : i \in H!Lines} = H!Relatives
<1> DEFINE liuqin == H!Liuqin(9 * g, H!WuxingTable[9 * g + 1])
<1>1. \A i \in H!Lines :
        H!Najia(9 * g)[i] = IF i <= 3 THEN H!LowerBranches[g + 1][i]
                                      ELSE H!UpperBranches[g + 1][i - 3]
  <2>1. (9 * g) \div 8 = g /\ (9 * g) % 8 = g
    OBVIOUS
  <2> QED
    BY <2>1 DEF H!Najia
<1>2. \A i \in H!Lines : liuqin[i] = RelativesOfPure[g + 1][i]
  BY <1>1, SMTT(60) DEF H!Liuqin, H!Lines, H!LowerBranches, H!UpperBranches, H!WuxingTable,
                        H!DIZHIWUXING, RelativesOfPure
<1>3. \A r \in 0..4 : \E i \in H!Lines : RelativesOfPure[g + 1][i] = r
  BY SMTT(60) DEF H!Lines, RelativesOfPure
<1>4. \A i \in H!Lines : RelativesOfPure[g + 1][i] \in 0..4
  BY SMTT(60) DEF H!Lines, RelativesOfPure
<1> HIDE DEF liuqin
<1>5. {liuqin[i] : i \in H!Lines} = H!Relatives
  BY <1>2, <1>3, <1>4 DEF H!Relatives
<1> QED
  BY <1>5 DEF liuqin

\* The six spirits are all there on every day, and the void branches are those
\* that the decade of the day leaves out.
LEMMA DayTables ==
  ASSUME NEW d \in 0..59
  PROVE  /\ {H!Liushen(d % 10)[i] : i \in H!Lines} = 0..5
         /\ H!Xunkong(d) = (0..11) \ {(10 * (d \div 10) + k) % 12 : k \in 0..9}
<1>1. \A s \in 0..9 : {H!Liushen(s)[i] : i \in H!Lines} = 0..5
  BY SMTT(60) DEF H!Liushen, H!FirstSpirit, H!Lines
<1>2. d % 10 \in 0..9
  OBVIOUS
<1>3. H!Xunkong(d) = (0..11) \ {(10 * (d \div 10) + k) % 12 : k \in 0..9}
  BY SMTT(60) DEF H!Xunkong
<1> QED
  BY <1>1, <1>2, <1>3

\* A line is yang when an odd number of coins shows one face, and moves when all
\* three show the same.
LEMMA CoinTables ==
  ASSUME NEW t \in 0..7
  PROVE  /\ (IF t \in H!YANGYAO THEN 1 ELSE 0) = H!Ones(t) % 2
         /\ t \in H!BIANYAO <=> H!Ones(t) \in {0, 3}
BY SMTT(30) DEF H!YANGYAO, H!BIANYAO, H!Ones

-----------------------------------------------------------------------------
\* The lines that were thrown, and those they turn into.
LEMMA ThrownLines ==
  ASSUME yao \in [H!Lines -> 0..7]
  PROVE  /\ Thrown \in [H!Lines -> 0..1] /\ Turned \in [H!Lines -> 0..1]
         /\ \A i \in H!Lines :
              /\ Thrown[i] = H!Ones(yao[i]) % 2
              /\ Turned[i] # Thrown[i] <=> H!Ones(yao[i]) \in {0, 3}
<1>1. \A i \in H!Lines : Thrown[i] = IF yao[i] \in H!YANGYAO THEN 1 ELSE 0
  BY DEF Thrown, H!YaoYinyang
<1>2. \A i \in H!Lines :
        Turned[i] = (Thrown[i] + (IF yao[i] \in H!BIANYAO THEN 1 ELSE 0)) % 2
  BY DEF Turned, H!Bianyao
<1>3. \A i \in H!Lines : Turned[i] # Thrown[i] <=> yao[i] \in H!BIANYAO
  BY <1>1, <1>2
<1>4. Thrown \in [H!Lines -> 0..1]
  BY DEF Thrown, H!YaoYinyang
<1>5. Turned \in [H!Lines -> 0..1]
  <2>1. \A i \in H!Lines : Turned[i] \in 0..1
    BY <1>1, <1>2
  <2> QED
    BY <2>1 DEF Turned
<1> QED
  BY <1>1, <1>3, <1>4, <1>5, CoinTables

\* What the two hexagrams of a throw are.
LEMMA Reading ==
  ASSUME yao \in [H!Lines -> 0..7]
  PROVE  /\ Own.value \in 0..63 /\ Changed.value \in 0..63
         /\ Own # H!NoGua /\ Changed # H!NoGua
         /\ Own.value = H!Value(Thrown) /\ Changed.value = H!Value(Turned)
         /\ Own.wuxing = ElementOf(Thrown) /\ Own.wuxing \in 0..4
         /\ Own.lines = Thrown
         /\ \A gua \in {Own, Changed} :
              /\ gua.gong = H!GongTable[gua.value + 1]
              /\ gua.gongwei = H!GongweiTable[gua.value + 1]
              /\ gua.wuxing = H!WuxingTable[gua.value + 1]
              /\ gua.shiyao = H!ShiTable[gua.value + 1]
              /\ gua.yingyao = H!YingTable[gua.value + 1]
              /\ gua.najia = H!Najia(gua.value)
              /\ gua.liuqin = H!Liuqin(gua.value, ElementOf(Thrown))
<1>1. H!Value(Thrown) \in 0..63 /\ H!Value(Turned) \in 0..63
  BY ThrownLines, ValueHasLines
<1>2. ElementOf(Thrown) \in 0..4
  BY <1>1, PalaceTables DEF ElementOf
<1>3. /\ Own.value = H!Value(Thrown) /\ Changed.value = H!Value(Turned)
      /\ Own.wuxing = ElementOf(Thrown) /\ Own.lines = Thrown
  BY DEF Own, Changed, ElementOf, H!Gua
<1>4. H!NoGua.value = -1
  BY DEF H!NoGua
<1> QED
  BY <1>1, <1>2, <1>3, <1>4 DEF Own, Changed, ElementOf, H!Gua, H!Gong

\* Before anything is read.
LEMMA GuaInit == H!InputsAssumption /\ H!Init => GuaInv
BY DEF H!InputsAssumption, H!Init, GuaInv, Before, NoneHidden

\* Each step of GuaGenerator adds one part of the reading.
LEMMA GuaStep == GuaInv /\ [H!Next]_guaVars => GuaInv'
<1> SUFFICES ASSUME GuaInv, [H!Next]_guaVars PROVE GuaInv'
  OBVIOUS
<1>0. ASSUME yao' = yao PROVE Own' = Own /\ Changed' = Changed /\ Hidden' = Hidden
  BY <1>0 DEF Own, Changed, Hidden, Shown, PalaceRelatives, Thrown, Turned, ElementOf
<1>1. CASE H!GenerateTimeRelatedInfo
  BY <1>1 DEF GuaInv, Before, H!GenerateTimeRelatedInfo
<1>2. CASE H!MakeBengua
  <2>1. bengua' = Own
    BY <1>2 DEF H!MakeBengua, Own, Thrown, ElementOf
  <2> QED
    BY <1>0, <1>2, <2>1 DEF GuaInv, Before, H!MakeBengua
<1>3. CASE H!GetFushen
  <2>1. fushen' = Hidden
    BY <1>3 DEF H!GetFushen, GuaInv, Before, Hidden, Shown, PalaceRelatives
  <2> QED
    BY <1>0, <1>3, <2>1 DEF GuaInv, Before, H!GetFushen
<1>4. CASE H!GetBiangua
  <2>1. biangua' = Changed
    <3>1. bengua = Own /\ Own.lines = Thrown /\ Own.wuxing = ElementOf(Thrown)
      BY <1>4, Reading DEF H!GetBiangua, GuaInv, Before
    <3> QED
      BY <1>4, <3>1 DEF H!GetBiangua, Changed, Turned, H!ElementOfBiangua
  <2> QED
    BY <1>0, <1>4, <2>1 DEF GuaInv, Before, H!GetBiangua
<1>5. CASE UNCHANGED guaVars
  BY <1>0, <1>5 DEF GuaInv, Before, guaVars
<1> QED
  BY <1>1, <1>2, <1>3, <1>4, <1>5 DEF H!Next

\* With the hidden lines a reader finds every relative once.
LEMMA HiddenCompletes ==
  ASSUME yao \in [H!Lines -> 0..7]
  PROVE  /\ Hidden \in [H!Lines -> H!Relatives \cup {-1}]
         /\ Shown \cup ({Hidden[i] : i \in H!Lines} \ {-1}) = H!Relatives
         /\ Shown \cap ({Hidden[i] : i \in H!Lines} \ {-1}) = {}
<1>1. /\ Own.gong \in 0..7 /\ Own.wuxing \in 0..4
      /\ Own.wuxing = H!WuxingTable[9 * Own.gong + 1]
      /\ Own.liuqin = H!Liuqin(Own.value, Own.wuxing)
      /\ Own.liuqin \in [H!Lines -> H!Relatives]
  <2>1. /\ Own.value \in 0..63 /\ Own.wuxing \in 0..4
        /\ Own.gong = H!GongTable[Own.value + 1]
        /\ Own.wuxing = H!WuxingTable[Own.value + 1]
        /\ Own.liuqin = H!Liuqin(Own.value, Own.wuxing)
    BY Reading
  <2>2. /\ H!GongTable[Own.value + 1] \in 0..7
        /\ H!WuxingTable[Own.value + 1] = H!WuxingTable[9 * H!GongTable[Own.value + 1] + 1]
    BY <2>1, PalaceTables
  <2>3. H!Liuqin(Own.value, Own.wuxing) \in [H!Lines -> H!Relatives]
    BY <2>1, LiuqinType
  <2> QED
    BY <2>1, <2>2, <2>3
<1>2. {PalaceRelatives[i] : i \in H!Lines} = H!Relatives
  <2>1. {H!Liuqin(9 * Own.gong, H!WuxingTable[9 * Own.gong + 1])[i] : i \in H!Lines}
          = H!Relatives
    BY <1>1, PalaceHasAll
  <2>2. PalaceRelatives = H!Liuqin(9 * Own.gong, H!WuxingTable[9 * Own.gong + 1])
    BY <1>1 DEF PalaceRelatives
  <2> QED
    BY <2>1, <2>2, Zenon
<1>3. Shown \subseteq H!Relatives /\ -1 \notin H!Relatives
  BY <1>1 DEF Shown, H!Relatives
<1>4. CASE Own.value = 9 * Own.gong
  <2>1. Shown = H!Relatives
    BY <1>1, <1>2, <1>4 DEF Shown, PalaceRelatives
  <2>2. Hidden = NoneHidden
    BY <1>4 DEF Hidden
  <2>3. {Hidden[i] : i \in H!Lines} \ {-1} = {}
    BY <2>2 DEF NoneHidden
  <2> QED
    BY <2>1, <2>2, <2>3 DEF NoneHidden
<1>5. CASE Own.value # 9 * Own.gong
  <2>1. Hidden = [i \in H!Lines |->
                    IF PalaceRelatives[i] \notin Shown THEN PalaceRelatives[i] ELSE -1]
    BY <1>5 DEF Hidden
  <2>2. {Hidden[i] : i \in H!Lines} \ {-1} = H!Relatives \ Shown
    BY <1>2, <1>3, <2>1
  <2>3. Hidden \in [H!Lines -> H!Relatives \cup {-1}]
    BY <1>2, <2>1
  <2> QED
    BY <1>3, <2>2, <2>3
<1> QED
  BY <1>4, <1>5

\* What is read follows the rules.
LEMMA GuaIsSound == GuaInv => HexagramsFollowThePalaces
<1> SUFFICES ASSUME GuaInv PROVE HexagramsFollowThePalaces
  OBVIOUS
<1>0. yao \in [H!Lines -> 0..7] /\ day \in 0..59
  BY DEF GuaInv
<1>1. H!HexagramTypeOK
  <2>1. Own.liuqin \in [H!Lines -> H!Relatives] /\ Changed.liuqin \in [H!Lines -> H!Relatives]
    BY <1>0, Reading, LiuqinType
  <2>2. NoneHidden \in [H!Lines -> H!Relatives \cup {-1}]
    BY DEF NoneHidden
  <2>3. fushen \in [H!Lines -> H!Relatives \cup {-1}]
    BY <1>0, <2>2, HiddenCompletes DEF GuaInv
  <2>4. thrown # "time" => {time.liushen[i] : i \in H!Lines} = 0..5
    BY <1>0, DayTables DEF GuaInv
  <2> QED
    BY <1>0, <2>1, <2>3, <2>4, Reading DEF GuaInv, H!HexagramTypeOK
<1> SUFFICES ASSUME H!Done
             PROVE  /\ H!NamesTheThrow /\ H!FollowsThePalaces
                    /\ H!FiveRelatives /\ H!OneReckoning /\ H!VoidsAreLeftOut
  BY <1>1 DEF HexagramsFollowThePalaces, H!NamesTheThrow, H!FollowsThePalaces,
              H!FiveRelatives, H!OneReckoning, H!VoidsAreLeftOut
<1>2. bengua = Own /\ biangua = Changed /\ fushen = Hidden
  BY DEF GuaInv, Before, H!Done
<1>3. H!NamesTheThrow
  <2>1. \A i \in H!Lines : H!Line(Own.value, i) = Thrown[i] /\ H!Line(Changed.value, i) = Turned[i]
    BY <1>0, ThrownLines, ValueHasLines, Reading
  <2> QED
    BY <1>0, <1>2, <2>1, ThrownLines DEF H!NamesTheThrow
<1>4. H!FollowsThePalaces
  <2>1. ASSUME NEW gua \in {Own, Changed}
        PROVE  /\ H!InItsPalace(gua)
               /\ gua.wuxing = H!WuxingTable[9 * gua.gong + 1]
               /\ gua.shiyao = <<5, 0, 1, 2, 3, 4, 3, 2>>[gua.gongwei + 1]
               /\ gua.yingyao = (gua.shiyao + 3) % 6
    <3>1. gua.value \in 0..63
      BY <1>0, Reading
    <3>2. /\ gua.gong = H!GongTable[gua.value + 1]
          /\ gua.gongwei = H!GongweiTable[gua.value + 1]
          /\ gua.wuxing = H!WuxingTable[gua.value + 1]
          /\ gua.shiyao = H!ShiTable[gua.value + 1]
          /\ gua.yingyao = H!YingTable[gua.value + 1]
      BY <1>0, Reading
    <3> QED
      BY <3>1, <3>2, PalaceTables, PalaceLines, ZenonT(30) DEF H!InItsPalace
  <2> QED
    BY <1>2, <2>1 DEF H!FollowsThePalaces
<1>5. H!FiveRelatives
  BY <1>0, <1>2, HiddenCompletes DEF H!FiveRelatives, Shown
<1>6. H!OneReckoning
  BY <1>0, <1>2, Reading DEF H!OneReckoning, H!Liuqin
<1>7. H!VoidsAreLeftOut
  <2>1. time.xunkong = H!Xunkong(day)
    BY DEF GuaInv, H!Done
  <2> QED
    BY <1>0, <2>1, DayTables DEF H!VoidsAreLeftOut
<1> QED
  BY <1>3, <1>4, <1>5, <1>6, <1>7

-----------------------------------------------------------------------------
(***************************************************************************)
(* Zi Wei Dou Shu: the palaces, stars and flights of a birth.              *)
(***************************************************************************)

Born == [year: 0..59, month: 1..12, day: 1..30, hour: 0..11, male: BOOLEAN]
OwnMing == (Z!MonthZhi - birth.hour) % 12
OwnGan == [p \in Z!Palaces |-> Z!GanOfPalace(p)]
OwnJu == Z!JuTable[(Z!YearGan % 5) + 1][(OwnMing \div 2) + 1]
Lucky == {"hua", "ready", "reported"}

ZwdsInv ==
  /\ birth \in Born
  /\ placed \in {"palaces", "stars", "luck", "hua", "ready", "reported"}
  /\ ming = IF placed = "palaces" THEN 0 ELSE OwnMing
  /\ placed # "palaces" => gan = OwnGan /\ ju = OwnJu
  /\ placed \in {"luck"} \cup Lucky =>
       \A s \in Z!StarNames : s \in DOMAIN star /\ star[s] = Z!Place(s)
  /\ placed \in Lucky =>
       /\ Z!Range(star) \subseteq Z!Palaces
       /\ forward \in {1, -1}
       /\ daxian = [p \in Z!Palaces |-> ju + 10 * ((forward * (p - ming)) % 12)]
       /\ borrows = [p \in Z!Palaces |-> IF Z!MainIn(p) = {} THEN Z!Borrowed(p) ELSE {}]
  /\ Z!Ready =>
       /\ fly = [h \in Z!Hua |-> [p \in Z!Palaces |-> star[Z!SI_HUA_MAP[h][gan[p] + 1]]]]
       /\ \A h \in {"lu", "ji"} :
            zhuan[h] \subseteq {<<p, fly[h][p], fly["ji"][fly[h][p]]>> : p \in Z!Palaces}
       /\ DOMAIN zhuan = {"lu", "ji"}
  /\ \/ report = Z!NoReport /\ placed # "reported"
     \/ /\ placed = "reported"
        /\ report.age \in Ages
        /\ report.daxian = IF Z!CurrentDaxian(report.age) < 0 THEN -1
                           ELSE (ming + Z!CurrentDaxian(report.age) * forward) % 12

\* The numbers a birth gives.
LEMMA BirthNumbers ==
  ASSUME birth \in Born
  PROVE  /\ Z!YearGan \in 0..9 /\ Z!YearZhi \in 0..11 /\ Z!MonthZhi \in 0..11
         /\ OwnMing \in 0..11 /\ OwnJu \in 2..6
         /\ \A p \in Z!Palaces : Z!GanOfPalace(p) \in 0..9
<1>1. birth.year \in 0..59 /\ birth.month \in 1..12 /\ birth.hour \in 0..11
  BY DEF Born
<1>2. Z!YearGan \in 0..9 /\ Z!YearZhi \in 0..11 /\ Z!MonthZhi \in 0..11
  BY <1>1 DEF Z!YearGan, Z!YearZhi, Z!MonthZhi
<1>3. OwnMing \in 0..11
  BY <1>1, <1>2 DEF OwnMing
<1>4. \A y \in 0..4, k \in 0..5 : Z!JuTable[y + 1][k + 1] \in 2..6
  BY SMTT(30) DEF Z!JuTable
<1>5. Z!YearGan % 5 \in 0..4 /\ OwnMing \div 2 \in 0..5
  BY <1>2, <1>3
<1>6. OwnJu \in 2..6
  BY <1>4, <1>5 DEF OwnJu
<1>7. \A p \in Z!Palaces : Z!GanOfPalace(p) \in 0..9
  BY <1>2 DEF Z!GanOfPalace, Z!Palaces
<1> QED
  BY <1>2, <1>3, <1>6, <1>7

\* A walk goes round the palaces.
LEMMA WalkType ==
  ASSUME NEW start \in 0..11, NEW n \in Nat
  PROVE  /\ Z!At(Z!With(start), n) = (start + n) % 12
         /\ Z!At(Z!Against(start), n) = (start - n) % 12
         /\ Z!At(Z!With(start), n) \in 0..11 /\ Z!At(Z!Against(start), n) \in 0..11
BY DEF Z!At, Z!With, Z!Against

IsWalk(row) == \E start \in 0..11 : row = Z!With(start) \/ row = Z!Against(start)

\* Four of the tables hold walks.
LEMMA WalkTables ==
  /\ \A s \in DOMAIN Z!MainStars : IsWalk(Z!MainStars[s])
  /\ \A s \in DOMAIN Z!HourStars : IsWalk(Z!HourStars[s])
  /\ \A s \in DOMAIN Z!MonthStars : IsWalk(Z!MonthStars[s])
  /\ \A s \in DOMAIN Z!ZhiStars : IsWalk(Z!ZhiStars[s])
<1>1. \A s \in DOMAIN Z!MainStars : IsWalk(Z!MainStars[s])
  BY SMTT(60) DEF Z!MainStars, IsWalk
<1>2. \A s \in DOMAIN Z!HourStars : IsWalk(Z!HourStars[s])
  BY SMTT(60) DEF Z!HourStars, IsWalk
<1>3. \A s \in DOMAIN Z!MonthStars : IsWalk(Z!MonthStars[s])
  BY SMTT(60) DEF Z!MonthStars, IsWalk
<1>4. \A s \in DOMAIN Z!ZhiStars : IsWalk(Z!ZhiStars[s])
  BY SMTT(60) DEF Z!ZhiStars, IsWalk
<1> QED
  BY <1>1, <1>2, <1>3, <1>4

\* The others hold palaces.
LEMMA RowTables ==
  /\ \A s \in DOMAIN Z!MonthStarRows, n \in 1..12 : Z!MonthStarRows[s][n] \in 0..11
  /\ \A s \in DOMAIN Z!GanStarRows, n \in 1..10 : Z!GanStarRows[s][n] \in 0..11
  /\ \A s \in DOMAIN Z!ZhiStarRows, n \in 1..12 : Z!ZhiStarRows[s][n] \in 0..11
  /\ \A k \in 1..4 : Z!HuoxingStart[k] \in 0..11 /\ Z!LingxingStart[k] \in 0..11
<1>1. \A s \in DOMAIN Z!MonthStarRows, n \in 1..12 : Z!MonthStarRows[s][n] \in 0..11
  BY SMTT(60) DEF Z!MonthStarRows
<1>2. \A s \in DOMAIN Z!GanStarRows, n \in 1..10 : Z!GanStarRows[s][n] \in 0..11
  BY SMTT(60) DEF Z!GanStarRows
<1>3. \A s \in DOMAIN Z!ZhiStarRows, n \in 1..12 : Z!ZhiStarRows[s][n] \in 0..11
  BY SMTT(60) DEF Z!ZhiStarRows
<1>4. \A k \in 1..4 : Z!HuoxingStart[k] \in 0..11 /\ Z!LingxingStart[k] \in 0..11
  BY DEF Z!HuoxingStart, Z!LingxingStart
<1> QED
  BY <1>1, <1>2, <1>3, <1>4

\* The place of ziwei by its table and by division.
LEMMA ZiweiTables ==
  ASSUME NEW j \in 2..6, NEW d \in 1..30
  PROVE  /\ Z!ZiweiTable[j - 1][d] \in 0..11
         /\ Z!ZiweiTable[j - 1][d] =
              LET parts == (d + j - 1) \div j
                  missing == parts * j - d
              IN (1 + parts + (IF missing % 2 = 0 THEN missing ELSE -missing)) % 12
<1>1. Z!ZiweiTable[j - 1][d] \in 0..11
  BY SMTT(60) DEF Z!ZiweiTable
<1>2. Z!ZiweiTable[j - 1][d] =
              LET parts == (d + j - 1) \div j
                  missing == parts * j - d
              IN (1 + parts + (IF missing % 2 = 0 THEN missing ELSE -missing)) % 12
  BY SMTT(120) DEF Z!ZiweiTable
<1> QED
  BY <1>1, <1>2

\* The ju by its table and by the element of the ming palace.
LEMMA JuTables ==
  ASSUME NEW y \in 0..9, NEW z \in 0..11
  PROVE  Z!JuTable[(y % 5) + 1][(z \div 2) + 1]
           = Z!JuByElement((2 * (y % 5) + 2 + ((z - 2) % 12)) % 10, z)
BY SMTT(60) DEF Z!JuTable, Z!JuByElement

\* The table that each star is placed by: the tables have no star in common.
LEMMA PlaceOf ==
  /\ \A s \in DOMAIN Z!MainStars : Z!Place(s) = Z!At(Z!MainStars[s], Z!Ziwei)
  /\ \A s \in DOMAIN Z!HourStars : Z!Place(s) = Z!At(Z!HourStars[s], birth.hour)
  /\ \A s \in DOMAIN Z!FireStars : Z!Place(s) = (Z!FireStars[s] + birth.hour) % 12
  /\ \A s \in DOMAIN Z!MonthStars : Z!Place(s) = Z!At(Z!MonthStars[s], birth.month - 1)
  /\ \A s \in DOMAIN Z!MonthStarRows : Z!Place(s) = Z!MonthStarRows[s][birth.month]
  /\ \A s \in DOMAIN Z!GanStarRows : Z!Place(s) = Z!GanStarRows[s][Z!YearGan + 1]
  /\ \A s \in DOMAIN Z!ZhiStars : Z!Place(s) = Z!At(Z!ZhiStars[s], Z!YearZhi)
  /\ \A s \in DOMAIN Z!ZhiStarRows : Z!Place(s) = Z!ZhiStarRows[s][Z!YearZhi + 1]
  /\ \A s \in DOMAIN Z!MingStars : Z!Place(s) = Z!MingStars[s] % 12
<1>1. \A s \in DOMAIN Z!MainStars : Z!Place(s) = Z!At(Z!MainStars[s], Z!Ziwei)
  <2>1. \A s \in DOMAIN Z!MainStars :
          /\ s \notin DOMAIN Z!HourStars /\ s \notin DOMAIN Z!FireStars
          /\ s \notin DOMAIN Z!MonthStars /\ s \notin DOMAIN Z!MonthStarRows
          /\ s \notin DOMAIN Z!GanStarRows /\ s \notin DOMAIN Z!ZhiStars
          /\ s \notin DOMAIN Z!ZhiStarRows /\ s \notin DOMAIN Z!MingStars
    BY SMTT(60) DEF Z!MainStars, Z!HourStars, Z!FireStars, Z!MonthStars, Z!MonthStarRows,
                    Z!GanStarRows, Z!ZhiStars, Z!ZhiStarRows, Z!MingStars
  <2> QED
    BY <2>1, ZenonT(20) DEF Z!Place
<1>2. \A s \in DOMAIN Z!HourStars : Z!Place(s) = Z!At(Z!HourStars[s], birth.hour)
  <2>1. \A s \in DOMAIN Z!HourStars :
          /\ s \notin DOMAIN Z!MainStars /\ s \notin DOMAIN Z!FireStars
          /\ s \notin DOMAIN Z!MonthStars /\ s \notin DOMAIN Z!MonthStarRows
          /\ s \notin DOMAIN Z!GanStarRows /\ s \notin DOMAIN Z!ZhiStars
          /\ s \notin DOMAIN Z!ZhiStarRows /\ s \notin DOMAIN Z!MingStars
    BY SMTT(60) DEF Z!MainStars, Z!HourStars, Z!FireStars, Z!MonthStars, Z!MonthStarRows,
                    Z!GanStarRows, Z!ZhiStars, Z!ZhiStarRows, Z!MingStars
  <2> QED
    BY <2>1, ZenonT(20) DEF Z!Place
<1>3. \A s \in DOMAIN Z!FireStars : Z!Place(s) = (Z!FireStars[s] + birth.hour) % 12
  <2>1. \A s \in DOMAIN Z!FireStars :
          /\ s \notin DOMAIN Z!MainStars /\ s \notin DOMAIN Z!HourStars
          /\ s \notin DOMAIN Z!MonthStars /\ s \notin DOMAIN Z!MonthStarRows
          /\ s \notin DOMAIN Z!GanStarRows /\ s \notin DOMAIN Z!ZhiStars
          /\ s \notin DOMAIN Z!ZhiStarRows /\ s \notin DOMAIN Z!MingStars
    BY SMTT(60) DEF Z!MainStars, Z!HourStars, Z!FireStars, Z!MonthStars, Z!MonthStarRows,
                    Z!GanStarRows, Z!ZhiStars, Z!ZhiStarRows, Z!MingStars
  <2> QED
    BY <2>1, ZenonT(20) DEF Z!Place
<1>4. \A s \in DOMAIN Z!MonthStars : Z!Place(s) = Z!At(Z!MonthStars[s], birth.month - 1)
  <2>1. \A s \in DOMAIN Z!MonthStars :
          /\ s \notin DOMAIN Z!MainStars /\ s \notin DOMAIN Z!HourStars
          /\ s \notin DOMAIN Z!FireStars /\ s \notin DOMAIN Z!MonthStarRows
          /\ s \notin DOMAIN Z!GanStarRows /\ s \notin DOMAIN Z!ZhiStars
          /\ s \notin DOMAIN Z!ZhiStarRows /\ s \notin DOMAIN Z!MingStars
    BY SMTT(60) DEF Z!MainStars, Z!HourStars, Z!FireStars, Z!MonthStars, Z!MonthStarRows,
                    Z!GanStarRows, Z!ZhiStars, Z!ZhiStarRows, Z!MingStars
  <2> QED
    BY <2>1, ZenonT(20) DEF Z!Place
<1>5. \A s \in DOMAIN Z!MonthStarRows : Z!Place(s) = Z!MonthStarRows[s][birth.month]
  <2>1. \A s \in DOMAIN Z!MonthStarRows :
          /\ s \notin DOMAIN Z!MainStars /\ s \notin DOMAIN Z!HourStars
          /\ s \notin DOMAIN Z!FireStars /\ s \notin DOMAIN Z!MonthStars
          /\ s \notin DOMAIN Z!GanStarRows /\ s \notin DOMAIN Z!ZhiStars
          /\ s \notin DOMAIN Z!ZhiStarRows /\ s \notin DOMAIN Z!MingStars
    BY SMTT(60) DEF Z!MainStars, Z!HourStars, Z!FireStars, Z!MonthStars, Z!MonthStarRows,
                    Z!GanStarRows, Z!ZhiStars, Z!ZhiStarRows, Z!MingStars
  <2> QED
    BY <2>1, ZenonT(20) DEF Z!Place
<1>6. \A s \in DOMAIN Z!GanStarRows : Z!Place(s) = Z!GanStarRows[s][Z!YearGan + 1]
  <2>1. \A s \in DOMAIN Z!GanStarRows :
          /\ s \notin DOMAIN Z!MainStars /\ s \notin DOMAIN Z!HourStars
          /\ s \notin DOMAIN Z!FireStars /\ s \notin DOMAIN Z!MonthStars
          /\ s \notin DOMAIN Z!MonthStarRows /\ s \notin DOMAIN Z!ZhiStars
          /\ s \notin DOMAIN Z!ZhiStarRows /\ s \notin DOMAIN Z!MingStars
    BY SMTT(60) DEF Z!MainStars, Z!HourStars, Z!FireStars, Z!MonthStars, Z!MonthStarRows,
                    Z!GanStarRows, Z!ZhiStars, Z!ZhiStarRows, Z!MingStars
  <2> QED
    BY <2>1, ZenonT(20) DEF Z!Place
<1>7. \A s \in DOMAIN Z!ZhiStars : Z!Place(s) = Z!At(Z!ZhiStars[s], Z!YearZhi)
  <2>1. \A s \in DOMAIN Z!ZhiStars :
          /\ s \notin DOMAIN Z!MainStars /\ s \notin DOMAIN Z!HourStars
          /\ s \notin DOMAIN Z!FireStars /\ s \notin DOMAIN Z!MonthStars
          /\ s \notin DOMAIN Z!MonthStarRows /\ s \notin DOMAIN Z!GanStarRows
          /\ s \notin DOMAIN Z!ZhiStarRows /\ s \notin DOMAIN Z!MingStars
    BY SMTT(60) DEF Z!MainStars, Z!HourStars, Z!FireStars, Z!MonthStars, Z!MonthStarRows,
                    Z!GanStarRows, Z!ZhiStars, Z!ZhiStarRows, Z!MingStars
  <2> QED
    BY <2>1, ZenonT(20) DEF Z!Place
<1>8. \A s \in DOMAIN Z!ZhiStarRows : Z!Place(s) = Z!ZhiStarRows[s][Z!YearZhi + 1]
  <2>1. \A s \in DOMAIN Z!ZhiStarRows :
          /\ s \notin DOMAIN Z!MainStars /\ s \notin DOMAIN Z!HourStars
          /\ s \notin DOMAIN Z!FireStars /\ s \notin DOMAIN Z!MonthStars
          /\ s \notin DOMAIN Z!MonthStarRows /\ s \notin DOMAIN Z!GanStarRows
          /\ s \notin DOMAIN Z!ZhiStars /\ s \notin DOMAIN Z!MingStars
    BY SMTT(60) DEF Z!MainStars, Z!HourStars, Z!FireStars, Z!MonthStars, Z!MonthStarRows,
                    Z!GanStarRows, Z!ZhiStars, Z!ZhiStarRows, Z!MingStars
  <2> QED
    BY <2>1, ZenonT(20) DEF Z!Place
<1>9. \A s \in DOMAIN Z!MingStars : Z!Place(s) = Z!MingStars[s] % 12
  <2>1. \A s \in DOMAIN Z!MingStars :
          /\ s \notin DOMAIN Z!MainStars /\ s \notin DOMAIN Z!HourStars
          /\ s \notin DOMAIN Z!FireStars /\ s \notin DOMAIN Z!MonthStars
          /\ s \notin DOMAIN Z!MonthStarRows /\ s \notin DOMAIN Z!GanStarRows
          /\ s \notin DOMAIN Z!ZhiStars /\ s \notin DOMAIN Z!ZhiStarRows
    BY SMTT(60) DEF Z!MainStars, Z!HourStars, Z!FireStars, Z!MonthStars, Z!MonthStarRows,
                    Z!GanStarRows, Z!ZhiStars, Z!ZhiStarRows, Z!MingStars
  <2> QED
    BY <2>1, ZenonT(20) DEF Z!Place
<1> QED
  BY <1>1, <1>2, <1>3, <1>4, <1>5, <1>6, <1>7, <1>8, <1>9

\* Every star is placed in some palace.
LEMMA PlaceType ==
  ASSUME birth \in Born, ming \in 0..11, ju \in 2..6, NEW s \in Z!StarNames
  PROVE  Z!Place(s) \in Z!Palaces
<1>0. /\ birth.month \in 1..12 /\ birth.day \in 1..30 /\ birth.hour \in 0..11
      /\ Z!YearGan \in 0..9 /\ Z!YearZhi \in 0..11 /\ Z!MonthZhi \in 0..11
  BY BirthNumbers DEF Born
<1>1. ASSUME NEW row, IsWalk(row), NEW n \in Nat PROVE Z!At(row, n) \in Z!Palaces
  BY <1>1, WalkType DEF IsWalk, Z!Palaces
<1>2. CASE s \in DOMAIN Z!MainStars
  BY <1>0, <1>1, <1>2, PlaceOf, WalkTables, ZiweiTables, SMTT(30) DEF Z!Ziwei
<1>3. CASE s \in DOMAIN Z!HourStars
  BY <1>0, <1>1, <1>3, PlaceOf, WalkTables
<1>4. CASE s \in DOMAIN Z!FireStars
  <2>1. Z!Sanhe + 1 \in 1..4
    BY <1>0 DEF Z!Sanhe
  <2>2. Z!FireStars[s] \in 0..11
    BY <1>4, <2>1, RowTables DEF Z!FireStars
  <2> QED
    BY <1>0, <1>4, <2>2, PlaceOf DEF Z!Palaces
<1>5. CASE s \in DOMAIN Z!MonthStars
  BY <1>0, <1>1, <1>5, PlaceOf, WalkTables
<1>6. CASE s \in DOMAIN Z!MonthStarRows \cup DOMAIN Z!GanStarRows \cup DOMAIN Z!ZhiStarRows
  BY <1>0, <1>6, PlaceOf, RowTables DEF Z!Palaces
<1>7. CASE s \in DOMAIN Z!ZhiStars
  BY <1>0, <1>1, <1>7, PlaceOf, WalkTables
<1>8. CASE s \in DOMAIN Z!MingStars
  <2>1. Z!Shen \in 0..11
    BY <1>0 DEF Z!Shen
  <2>2. Z!MingStars[s] \in Nat
    BY <1>0, <1>8, <2>1 DEF Z!MingStars
  <2> QED
    BY <1>8, <2>2, PlaceOf DEF Z!Palaces
<1> QED
  BY <1>2, <1>3, <1>4, <1>5, <1>6, <1>7, <1>8 DEF Z!StarNames

\* Where the main stars and those that stand in pairs are placed.
LEMMA Places ==
  ASSUME birth \in Born, ming \in 0..11, ju \in 2..6
  PROVE  /\ \A s \in DOMAIN Z!MainStars : Z!Place(s) = Z!At(Z!MainStars[s], Z!Ziwei)
         /\ Z!Place("ziwei") = Z!Ziwei /\ Z!Place("tianfu") = (4 - Z!Ziwei) % 12
         /\ Z!Place("wenchang") = (10 - birth.hour) % 12
         /\ Z!Place("wenqu") = (4 + birth.hour) % 12
         /\ Z!Place("dijie") = (11 + birth.hour) % 12
         /\ Z!Place("tiankong") = (11 - birth.hour) % 12
         /\ Z!Place("zuofu") = (4 + (birth.month - 1)) % 12
         /\ Z!Place("youbi") = (10 - (birth.month - 1)) % 12
         /\ Z!Place("hongluan") = (3 - Z!YearZhi) % 12
         /\ Z!Place("tianxi") = (9 - Z!YearZhi) % 12
         /\ \A s \in DOMAIN Z!GanStarRows : Z!Place(s) = Z!GanStarRows[s][Z!YearGan + 1]
<1>0. /\ birth.month \in 1..12 /\ birth.day \in 1..30 /\ birth.hour \in 0..11
      /\ Z!YearGan \in 0..9 /\ Z!YearZhi \in 0..11 /\ Z!Ziwei \in 0..11
  BY BirthNumbers, ZiweiTables DEF Born, Z!Ziwei
<1>1. Z!Place("ziwei") = Z!Ziwei /\ Z!Place("tianfu") = (4 - Z!Ziwei) % 12
  <2>1. /\ Z!Place("ziwei") = Z!At(Z!With(0), Z!Ziwei)
        /\ Z!Place("tianfu") = Z!At(Z!Against(4), Z!Ziwei)
    BY PlaceOf DEF Z!MainStars
  <2>2. (0 + Z!Ziwei) % 12 = Z!Ziwei
    BY <1>0
  <2> QED
    BY <1>0, <2>1, <2>2, WalkType
<1>2. /\ Z!Place("wenchang") = (10 - birth.hour) % 12
      /\ Z!Place("wenqu") = (4 + birth.hour) % 12
      /\ Z!Place("dijie") = (11 + birth.hour) % 12
      /\ Z!Place("tiankong") = (11 - birth.hour) % 12
  BY <1>0, PlaceOf, WalkType DEF Z!HourStars
<1>3. /\ Z!Place("zuofu") = (4 + (birth.month - 1)) % 12
      /\ Z!Place("youbi") = (10 - (birth.month - 1)) % 12
  BY <1>0, PlaceOf, WalkType DEF Z!MonthStars
<1>4. /\ Z!Place("hongluan") = (3 - Z!YearZhi) % 12
      /\ Z!Place("tianxi") = (9 - Z!YearZhi) % 12
  BY <1>0, PlaceOf, WalkType DEF Z!ZhiStars
<1> QED
  BY <1>1, <1>2, <1>3, <1>4, PlaceOf

\* The two stars on either side of lucun.
LEMMA LucunNeighbours ==
  ASSUME NEW g \in 0..9
  PROVE  /\ (Z!GanStarRows["qingyang"][g + 1] - Z!GanStarRows["lucun"][g + 1]) % 12 = 1
         /\ (Z!GanStarRows["lucun"][g + 1] - Z!GanStarRows["tuoluo"][g + 1]) % 12 = 1
BY SMTT(60) DEF Z!GanStarRows

-----------------------------------------------------------------------------
\* Before anything is placed.
LEMMA ZwdsInit == Z!BirthsAssumption /\ Z!Init => ZwdsInv
BY DEF Z!BirthsAssumption, Z!Init, ZwdsInv, Born, Lucky, Z!Ready

\* What was placed stays as it is when neither the birth nor the palaces change.
LEMMA StarsStay ==
  ASSUME UNCHANGED <<birth, ming, ju>>
  PROVE  /\ OwnMing' = OwnMing /\ OwnGan' = OwnGan /\ OwnJu' = OwnJu
         /\ (Z!StarNames)' = Z!StarNames
         /\ \A s \in Z!StarNames : Z!Place(s)' = Z!Place(s)
         /\ \A age : Z!CurrentDaxian(age)' = Z!CurrentDaxian(age)
<1>1. /\ Z!YearGan' = Z!YearGan /\ Z!YearZhi' = Z!YearZhi /\ Z!MonthZhi' = Z!MonthZhi
      /\ Z!Ziwei' = Z!Ziwei /\ Z!FireStars' = Z!FireStars /\ Z!MingStars' = Z!MingStars
  BY DEF Z!YearGan, Z!YearZhi, Z!MonthZhi, Z!Ziwei, Z!FireStars, Z!Sanhe, Z!MingStars, Z!Shen
<1>2. \A s \in Z!StarNames : Z!Place(s)' = Z!Place(s)
  BY <1>1, Zenon DEF Z!Place
<1>3. (Z!StarNames)' = Z!StarNames
  BY <1>1 DEF Z!StarNames
<1>4. \A age : Z!CurrentDaxian(age)' = Z!CurrentDaxian(age)
  BY DEF Z!CurrentDaxian
<1>5. OwnMing' = OwnMing /\ OwnGan' = OwnGan /\ OwnJu' = OwnJu
  BY <1>1 DEF OwnMing, OwnGan, OwnJu, Z!GanOfPalace
<1> QED
  BY <1>2, <1>3, <1>4, <1>5

\* There are twelve stars of boshi.
LEMMA TwelveSpirits == DOMAIN Z!BoshiStars = 1..12
BY SMTT(20) DEF Z!BoshiStars

\* Each step of the chart settles one part of it.
LEMMA ZwdsStep ==
  ASSUME Z!BirthsAssumption, ZwdsInv, [Z!Next]_zwdsVars
  PROVE  ZwdsInv'
<1>0. birth \in Born
  BY DEF ZwdsInv
<1>1. CASE Z!SetupPalaces
  <2>1. ming' = OwnMing /\ gan' = OwnGan /\ ju' = OwnJu /\ birth' = birth
    BY <1>1 DEF Z!SetupPalaces, OwnMing, OwnGan, OwnJu
  <2>2. OwnMing' = OwnMing /\ OwnGan' = OwnGan /\ OwnJu' = OwnJu
    BY <2>1 DEF OwnMing, OwnGan, OwnJu, Z!YearGan, Z!MonthZhi, Z!GanOfPalace
  <2> QED
    BY <1>0, <1>1, <2>1, <2>2 DEF ZwdsInv, Lucky, Z!Ready, Z!SetupPalaces
<1>2. CASE Z!PlaceStars
  <2>1. UNCHANGED <<birth, ming, ju>>
    BY <1>2 DEF Z!PlaceStars
  <2>2. \A s \in Z!StarNames : s \in DOMAIN star' /\ star'[s] = Z!Place(s)
    BY <1>2 DEF Z!PlaceStars
  <2> QED
    BY <1>0, <1>2, <2>1, <2>2, StarsStay DEF ZwdsInv, Lucky, Z!Ready, Z!PlaceStars
<1>3. CASE Z!SetDaxian
  <2>1. UNCHANGED <<birth, ming, gan, ju>> /\ placed = "luck" /\ placed' = "hua"
    BY <1>3 DEF Z!SetDaxian
  <2>2. ming \in 0..11 /\ ju \in 2..6
    BY <1>0, <2>1, BirthNumbers DEF ZwdsInv
  <2>3. \A s \in Z!StarNames : star'[s] = star[s] /\ star[s] = Z!Place(s) /\ s \in DOMAIN star'
    BY <1>3, <2>1 DEF Z!SetDaxian, ZwdsInv
  <2>4. forward' \in {1, -1}
    BY <1>3 DEF Z!SetDaxian
  <2>5. Z!Range(star') \subseteq Z!Palaces
    <3>1. star["lucun"] \in Z!Palaces
      <4>1. "lucun" \in Z!StarNames
        BY DEF Z!StarNames, Z!GanStarRows
      <4> QED
        BY <1>0, <2>2, <2>3, <4>1, PlaceType
    <3>2. ASSUME NEW s \in Z!Range(Z!BoshiStars)
          PROVE  Z!BoshiPlace(s, forward') \in Z!Palaces
      <4> DEFINE place == CHOOSE i \in 1..12 : Z!BoshiStars[i] = s
      <4>1. DOMAIN Z!BoshiStars = 1..12
        BY TwelveSpirits
      <4>2. \E i \in 1..12 : Z!BoshiStars[i] = s
        BY <4>1 DEF Z!Range
      <4>3. place \in 1..12
        BY <4>2, Zenon
      <4>4. Z!BoshiPlace(s, forward') = (star["lucun"] + forward' * (place - 1)) % 12
        BY DEF Z!BoshiPlace
      <4> HIDE DEF place
      <4>5. star["lucun"] + forward' * (place - 1) \in Int
        BY <2>4, <3>1, <4>3 DEF Z!Palaces
      <4> QED
        BY <4>4, <4>5 DEF Z!Palaces
    <3>3. DOMAIN star' = Z!StarNames \cup Z!Range(Z!BoshiStars)
      BY <1>3 DEF Z!SetDaxian
    <3>4. \A s \in DOMAIN star' : star'[s] \in Z!Palaces
      <4>1. ASSUME NEW s \in DOMAIN star', s \notin Z!StarNames
            PROVE  star'[s] = Z!BoshiPlace(s, forward')
        BY <1>3, <3>3, <4>1 DEF Z!SetDaxian
      <4> QED
        BY <1>0, <2>2, <2>3, <3>2, <3>3, <4>1, PlaceType
    <3> QED
      BY <3>4 DEF Z!Range
  <2>6. \A p : Z!MainIn(p)' = Z!MainIn(p)
    BY <2>3 DEF Z!MainIn, Z!StarNames
  <2>7. \A p : Z!Borrowed(p)' = Z!Borrowed(p)
    BY <2>6 DEF Z!Borrowed
  <2>8. borrows' = [p \in Z!Palaces |-> IF Z!MainIn(p)' = {} THEN Z!Borrowed(p)' ELSE {}]
    BY <1>3, <2>6, <2>7 DEF Z!SetDaxian
  <2>9. daxian' = [p \in Z!Palaces |-> ju' + 10 * ((forward' * (p - ming')) % 12)]
    BY <1>3, <2>1 DEF Z!SetDaxian
  <2>10. report' = report
    BY <1>3 DEF Z!SetDaxian
  <2>11. placed' \in {"luck"} \cup Lucky =>
           \A s \in (Z!StarNames)' : s \in DOMAIN star' /\ star'[s] = Z!Place(s)'
    BY <2>1, <2>3, StarsStay
  <2> QED
    BY <1>0, <2>1, <2>4, <2>5, <2>8, <2>9, <2>10, <2>11, StarsStay DEF ZwdsInv, Lucky, Z!Ready
<1>4. CASE Z!CheckHua
  <2>1. UNCHANGED <<birth, ming, gan, ju, star, forward, daxian, borrows, report>>
        /\ placed = "hua" /\ placed' = "ready"
    BY <1>4 DEF Z!CheckHua
  <2>2. \A p : Z!MainIn(p)' = Z!MainIn(p) /\ Z!Borrowed(p)' = Z!Borrowed(p)
    BY <2>1 DEF Z!MainIn, Z!Borrowed
  <2>3. fly' = [h \in Z!Hua |-> [p \in Z!Palaces |-> star'[Z!SI_HUA_MAP[h][gan'[p] + 1]]]]
    BY <1>4 DEF Z!CheckHua
  <2>4. /\ DOMAIN zhuan' = {"lu", "ji"}
        /\ \A h \in {"lu", "ji"} :
             zhuan'[h] \subseteq {<<p, fly'[h][p], fly'["ji"][fly'[h][p]]>> : p \in Z!Palaces}
    BY <1>4 DEF Z!CheckHua
  <2> QED
    BY <1>0, <2>1, <2>2, <2>3, <2>4, StarsStay DEF ZwdsInv, Lucky, Z!Ready
<1>5. ASSUME NEW age \in Ages, Z!ReportYear(age) PROVE ZwdsInv'
  <2>1. UNCHANGED <<birth, ming, gan, ju, star, forward, daxian, borrows, fly, zhuan>>
        /\ Z!Ready /\ placed' = "reported"
    BY <1>5 DEF Z!ReportYear, Z!Ready
  <2>2. \A p : Z!MainIn(p)' = Z!MainIn(p) /\ Z!Borrowed(p)' = Z!Borrowed(p)
    BY <2>1 DEF Z!MainIn, Z!Borrowed
  <2>3. /\ report'.age \in Ages
        /\ (report.daxian = IF Z!CurrentDaxian(report.age) < 0 THEN -1
                            ELSE (ming + Z!CurrentDaxian(report.age) * forward) % 12)'
    BY <1>5, <2>1 DEF Z!ReportYear, Z!CurrentDaxian
  <2> QED
    BY <1>0, <2>1, <2>2, <2>3, StarsStay DEF ZwdsInv, Lucky, Z!Ready
<1>6. CASE UNCHANGED zwdsVars
  <2>1. UNCHANGED <<birth, placed, ming, gan, ju, star, forward, daxian, borrows, fly, zhuan,
                    report>>
    BY <1>6 DEF zwdsVars
  <2>2. \A p : Z!MainIn(p)' = Z!MainIn(p) /\ Z!Borrowed(p)' = Z!Borrowed(p)
    BY <2>1 DEF Z!MainIn, Z!Borrowed
  <2> QED
    BY <1>0, <2>1, <2>2, StarsStay DEF ZwdsInv, Lucky, Z!Ready
<1> QED
  BY <1>1, <1>2, <1>3, <1>4, <1>5, <1>6 DEF Z!Next

\* Stars that stems make fly are placed.
LEMMA FlyingStars ==
  ASSUME NEW h \in Z!Hua, NEW g \in 0..9
  PROVE  Z!SI_HUA_MAP[h][g + 1] \in Z!StarNames
<1>1. Z!SI_HUA_MAP[h][g + 1] \in DOMAIN Z!MainStars \cup {"wenchang", "wenqu", "zuofu", "youbi"}
  BY SMTT(60) DEF Z!SI_HUA_MAP, Z!Hua, Z!MainStars
<1>2. {"wenchang", "wenqu", "zuofu", "youbi"} \subseteq DOMAIN Z!HourStars \cup DOMAIN Z!MonthStars
  BY DEF Z!HourStars, Z!MonthStars
<1> QED
  BY <1>1, <1>2 DEF Z!StarNames

\* What is known of a chart that is ready.
LEMMA ReadyChart ==
  ASSUME ZwdsInv, Z!Ready
  PROVE  /\ birth \in Born /\ ming = OwnMing /\ ju = OwnJu /\ ming \in 0..11 /\ ju \in 2..6
         /\ Z!YearGan \in 0..9 /\ Z!YearZhi \in 0..11 /\ Z!Ziwei \in 0..11
         /\ gan = OwnGan /\ gan \in [Z!Palaces -> 0..9]
         /\ forward \in {1, -1}
         /\ \A s \in Z!StarNames : star[s] = Z!Place(s) /\ star[s] \in Z!Palaces
         /\ fly \in [Z!Hua -> [Z!Palaces -> Z!Palaces]]
<1>1. /\ birth \in Born /\ ming = OwnMing /\ ju = OwnJu /\ gan = OwnGan /\ forward \in {1, -1}
      /\ \A s \in Z!StarNames : star[s] = Z!Place(s)
      /\ fly = [h \in Z!Hua |-> [p \in Z!Palaces |-> star[Z!SI_HUA_MAP[h][gan[p] + 1]]]]
  BY DEF ZwdsInv, Z!Ready, Lucky
<1>2. ming \in 0..11 /\ ju \in 2..6 /\ Z!YearGan \in 0..9 /\ Z!YearZhi \in 0..11
  BY <1>1, BirthNumbers
<1>3. \A s \in Z!StarNames : star[s] \in Z!Palaces
  BY <1>1, <1>2, PlaceType
<1>4. gan \in [Z!Palaces -> 0..9]
  BY <1>1, BirthNumbers DEF OwnGan
<1>5. Z!Ziwei \in 0..11
  BY <1>1, <1>2, ZiweiTables DEF Z!Ziwei, Born
<1>6. fly \in [Z!Hua -> [Z!Palaces -> Z!Palaces]]
  BY <1>1, <1>3, <1>4, FlyingStars
<1> QED
  BY <1>1, <1>2, <1>3, <1>4, <1>5, <1>6

\* The stars that belong together are placed.
LEMMA PairedStars ==
  /\ DOMAIN Z!MainStars \subseteq Z!StarNames
  /\ {"ziwei", "tianfu", "zuofu", "youbi", "wenchang", "wenqu", "dijie", "tiankong",
      "hongluan", "tianxi", "lucun", "qingyang", "tuoluo"} \subseteq Z!StarNames
<1>1. {"ziwei", "tianfu"} \subseteq DOMAIN Z!MainStars
  BY DEF Z!MainStars
<1>2. {"wenchang", "wenqu", "dijie", "tiankong"} \subseteq DOMAIN Z!HourStars
  BY DEF Z!HourStars
<1>3. {"zuofu", "youbi"} \subseteq DOMAIN Z!MonthStars
  BY DEF Z!MonthStars
<1>4. {"hongluan", "tianxi"} \subseteq DOMAIN Z!ZhiStars
  BY DEF Z!ZhiStars
<1>5. {"lucun", "qingyang", "tuoluo"} \subseteq DOMAIN Z!GanStarRows
  BY DEF Z!GanStarRows
<1> QED
  BY <1>1, <1>2, <1>3, <1>4, <1>5 DEF Z!StarNames

\* The parts of a chart have their types.
LEMMA ZwdsTypes == Z!BirthsAssumption /\ ZwdsInv => Z!ZwdsTypeOK
<1> SUFFICES ASSUME Z!BirthsAssumption, ZwdsInv PROVE Z!ZwdsTypeOK
  OBVIOUS
<1>1. ming \in Z!Palaces
  BY BirthNumbers DEF ZwdsInv, Z!Palaces
<1>2. placed # "palaces" => gan \in [Z!Palaces -> 0..9] /\ ju \in 2..6
  BY BirthNumbers DEF ZwdsInv, OwnGan
<1>3. ASSUME Z!Ready
      PROVE  /\ Z!Range(star) \subseteq Z!Palaces /\ forward \in {1, -1}
             /\ daxian \in [Z!Palaces -> Nat] /\ fly \in [Z!Hua -> [Z!Palaces -> Z!Palaces]]
  <2>1. daxian = [p \in Z!Palaces |-> ju + 10 * ((forward * (p - ming)) % 12)]
    BY <1>3 DEF ZwdsInv, Z!Ready, Lucky
  <2>2. \A p \in Z!Palaces : ju + 10 * ((forward * (p - ming)) % 12) \in Nat
    BY <1>3, ReadyChart DEF Z!Palaces
  <2>3. Z!Range(star) \subseteq Z!Palaces
    BY <1>3 DEF ZwdsInv, Z!Ready, Lucky
  <2> QED
    BY <1>3, <2>1, <2>2, <2>3, ReadyChart
<1>4. report.daxian \in Z!Palaces \cup {-1}
  <2>1. CASE report = Z!NoReport
    BY <2>1 DEF Z!NoReport
  <2>2. CASE report # Z!NoReport
    <3>1. Z!Ready /\ report.age \in Nat
          /\ report.daxian = IF Z!CurrentDaxian(report.age) < 0 THEN -1
                             ELSE (ming + Z!CurrentDaxian(report.age) * forward) % 12
      BY <2>2 DEF ZwdsInv, Z!Ready, Z!BirthsAssumption
    <3>2. Z!CurrentDaxian(report.age) \in Int
      BY <3>1, ReadyChart DEF Z!CurrentDaxian
    <3>3. Z!CurrentDaxian(report.age) * forward \in Int
      BY <3>1, <3>2, ReadyChart
    <3>4. \A k \in Int : (ming + k) % 12 \in 0..11
      BY <3>1, ReadyChart
    <3> QED
      BY <3>1, <3>3, <3>4 DEF Z!Palaces
  <2> QED
    BY <2>1, <2>2
<1> QED
  BY <1>1, <1>2, <1>3, <1>4 DEF Z!ZwdsTypeOK

\* The ju and the place of ziwei are those of the rules.
LEMMA TablesAreRight == ZwdsInv => Z!TablesFollowTheirRules
<1> SUFFICES ASSUME ZwdsInv, Z!Ready
             PROVE  ju = Z!JuByElement(gan[ming], ming) /\ star["ziwei"] = Z!ZiweiByDivision
  BY DEF Z!TablesFollowTheirRules
<1>1. ju = Z!JuByElement(gan[ming], ming)
  <2>1. gan[ming] = (2 * (Z!YearGan % 5) + 2 + ((ming - 2) % 12)) % 10
    BY ReadyChart DEF OwnGan, Z!GanOfPalace, Z!Palaces
  <2>2. ju = Z!JuTable[(Z!YearGan % 5) + 1][(ming \div 2) + 1]
    BY ReadyChart DEF OwnJu
  <2> QED
    BY <2>1, <2>2, ReadyChart, JuTables
<1>2. star["ziwei"] = Z!ZiweiByDivision
  <2>1. star["ziwei"] = Z!ZiweiTable[ju - 1][birth.day] /\ birth.day \in 1..30
    BY ReadyChart, Places, PairedStars DEF Z!Ziwei, Born
  <2> QED
    BY <2>1, ReadyChart, ZiweiTables DEF Z!ZiweiByDivision
<1> QED
  BY <1>1, <1>2

\* The stars that belong together stand as they should.
LEMMA PairsStand == ZwdsInv => Z!StarsKeepTheirPairs
<1> SUFFICES ASSUME ZwdsInv, Z!Ready PROVE Z!StarsKeepTheirPairs
  BY DEF Z!StarsKeepTheirPairs
<1>1. birth.month \in 1..12 /\ birth.hour \in 0..11 /\ Z!YearZhi \in 0..11 /\ Z!YearGan \in 0..9
      /\ Z!Ziwei \in 0..11
  BY ReadyChart DEF Born
<1>2. (star["ziwei"] + star["tianfu"]) % 12 = 4
  <2>1. star["ziwei"] = Z!Ziwei /\ star["tianfu"] = (4 - Z!Ziwei) % 12
    BY ReadyChart, Places, PairedStars
  <2> QED
    BY <1>1, <2>1
<1>3. (star["zuofu"] + star["youbi"]) % 12 = 2
  <2>1. /\ star["zuofu"] = (4 + (birth.month - 1)) % 12
        /\ star["youbi"] = (10 - (birth.month - 1)) % 12
    BY ReadyChart, Places, PairedStars
  <2> QED
    BY <1>1, <2>1
<1>4. /\ (star["wenchang"] + star["wenqu"]) % 12 = 2
      /\ (star["dijie"] + star["tiankong"]) % 12 = 10
  <2>1. /\ star["wenchang"] = (10 - birth.hour) % 12 /\ star["wenqu"] = (4 + birth.hour) % 12
        /\ star["dijie"] = (11 + birth.hour) % 12 /\ star["tiankong"] = (11 - birth.hour) % 12
    BY ReadyChart, Places, PairedStars
  <2> QED
    BY <1>1, <2>1
<1>5. (star["hongluan"] - star["tianxi"]) % 12 = 6
  <2>1. star["hongluan"] = (3 - Z!YearZhi) % 12 /\ star["tianxi"] = (9 - Z!YearZhi) % 12
    BY ReadyChart, Places, PairedStars
  <2> QED
    BY <1>1, <2>1
<1>6. /\ (star["qingyang"] - star["lucun"]) % 12 = 1
      /\ (star["lucun"] - star["tuoluo"]) % 12 = 1
  <2>1. \A s \in {"lucun", "qingyang", "tuoluo"} : star[s] = Z!GanStarRows[s][Z!YearGan + 1]
    <3>1. {"lucun", "qingyang", "tuoluo"} \subseteq DOMAIN Z!GanStarRows
      BY DEF Z!GanStarRows
    <3> QED
      BY <3>1, ReadyChart, PlaceOf, PairedStars
  <2> QED
    BY <1>1, <2>1, LucunNeighbours
<1> QED
  BY <1>2, <1>3, <1>4, <1>5, <1>6 DEF Z!StarsKeepTheirPairs

\* The six stars that go with ziwei stand in six different pairs of opposite
\* palaces: of any palace and the one opposite, one holds one of them.
LEMMA NoBlanks == ZwdsInv => Z!NoPalaceIsBlank
<1> SUFFICES ASSUME ZwdsInv, Z!Ready, NEW p \in Z!Palaces
             PROVE  Z!MainIn(p) \cup borrows[p] # {}
  BY DEF Z!NoPalaceIsBlank
<1>1. Z!Ziwei \in 0..11 /\ p \in 0..11
  BY ReadyChart DEF Z!Palaces
<1>2. borrows[p] = IF Z!MainIn(p) = {} THEN Z!MainIn((p + 6) % 12) ELSE {}
  BY DEF ZwdsInv, Z!Ready, Lucky, Z!Borrowed
<1>3. /\ star["ziwei"] = (0 + Z!Ziwei) % 12 /\ star["tianji"] = (11 + Z!Ziwei) % 12
      /\ star["taiyang"] = (9 + Z!Ziwei) % 12 /\ star["wuqu"] = (8 + Z!Ziwei) % 12
      /\ star["tiantong"] = (7 + Z!Ziwei) % 12 /\ star["lianzhen"] = (4 + Z!Ziwei) % 12
  <2>1. \A s \in DOMAIN Z!MainStars : star[s] = Z!At(Z!MainStars[s], Z!Ziwei)
    BY ReadyChart, Places, PairedStars
  <2>2. /\ star["ziwei"] = Z!At(Z!With(0), Z!Ziwei)
        /\ star["tianji"] = Z!At(Z!With(11), Z!Ziwei)
        /\ star["taiyang"] = Z!At(Z!With(9), Z!Ziwei)
        /\ star["wuqu"] = Z!At(Z!With(8), Z!Ziwei)
        /\ star["tiantong"] = Z!At(Z!With(7), Z!Ziwei)
        /\ star["lianzhen"] = Z!At(Z!With(4), Z!Ziwei)
    BY <2>1 DEF Z!MainStars
  <2>3. \A start \in 0..11 : Z!At(Z!With(start), Z!Ziwei) = (start + Z!Ziwei) % 12
    BY <1>1 DEF Z!At, Z!With
  <2> QED
    BY <2>2, <2>3
<1>4. \E s \in {"ziwei", "tianji", "taiyang", "wuqu", "tiantong", "lianzhen"} :
        star[s] = p \/ star[s] = (p + 6) % 12
  <2>1. (p - Z!Ziwei) % 6 \in 0..5
    BY <1>1
  <2>2. CASE (p - Z!Ziwei) % 6 = 0
    BY <1>1, <1>3, <2>2
  <2>3. CASE (p - Z!Ziwei) % 6 = 1
    BY <1>1, <1>3, <2>3
  <2>4. CASE (p - Z!Ziwei) % 6 = 2
    BY <1>1, <1>3, <2>4
  <2>5. CASE (p - Z!Ziwei) % 6 = 3
    BY <1>1, <1>3, <2>5
  <2>6. CASE (p - Z!Ziwei) % 6 = 4
    BY <1>1, <1>3, <2>6
  <2>7. CASE (p - Z!Ziwei) % 6 = 5
    BY <1>1, <1>3, <2>7
  <2> QED
    BY <2>1, <2>2, <2>3, <2>4, <2>5, <2>6, <2>7
<1>5. {"ziwei", "tianji", "taiyang", "wuqu", "tiantong", "lianzhen"} \subseteq DOMAIN Z!MainStars
  BY DEF Z!MainStars
<1> QED
  BY <1>2, <1>4, <1>5 DEF Z!MainIn

\* Counting on from a palace, or back, and then the way between them.
LEMMA CountAround ==
  ASSUME NEW m \in 0..11, NEW n \in 0..11
  PROVE  /\ (m + n) % 12 \in 0..11 /\ (((m + n) % 12) - m) % 12 = n
         /\ (m - n) % 12 \in 0..11 /\ (m - ((m - n) % 12)) % 12 = n
OBVIOUS

\* The palace counted to is the one whose ten years are those counted.
LEMMA PeriodsAreNear == Z!BirthsAssumption /\ ZwdsInv => Z!PeriodIsAtMostOneYearEarly
<1> SUFFICES ASSUME Z!BirthsAssumption, ZwdsInv, placed = "reported", report.age < ju + 119
             PROVE  IF report.daxian = -1 THEN report.age < ju - 1
                    ELSE report.age + 1 \in daxian[report.daxian]..(daxian[report.daxian] + 10)
  BY DEF Z!PeriodIsAtMostOneYearEarly
<1> DEFINE age == report.age
           k == (age - ju + 1) \div 10
           place == (ming + k * forward) % 12
<1>0. Z!Ready
  BY DEF Z!Ready
<1>1. age \in Nat /\ ju \in 2..6 /\ ming \in 0..11 /\ (forward = 1 \/ forward = -1)
  BY <1>0, ReadyChart DEF ZwdsInv, Z!BirthsAssumption
<1>2. report.daxian = IF k < 0 THEN -1 ELSE place
  BY DEF ZwdsInv, Z!CurrentDaxian
<1>3. /\ \A p \in Z!Palaces : daxian[p] = ju + 10 * ((forward * (p - ming)) % 12)
  BY DEF ZwdsInv, Lucky
<1>4. k \in Int /\ 10 * k <= age - ju + 1 /\ age - ju + 1 <= 10 * k + 9
  BY <1>1
<1>5. CASE k < 0
  BY <1>1, <1>2, <1>4, <1>5
<1>6. CASE k >= 0
  <2>1. k \in 0..11
    BY <1>1, <1>4, <1>6
  <2> HIDE DEF k
  <2>2. place \in 0..11 /\ (forward * (place - ming)) % 12 = k
    <3>1. CASE forward = 1
      <4>1. k * forward = k /\ forward * (place - ming) = place - ming
        BY <1>1, <2>1, <3>1
      <4> QED
        BY <1>1, <2>1, <4>1, CountAround
    <3>2. CASE forward = -1
      <4>1. ming + k * forward = ming - k /\ forward * (place - ming) = ming - place
        BY <1>1, <2>1, <3>2
      <4> QED
        BY <1>1, <2>1, <4>1, CountAround
    <3> QED
      BY <1>1, <3>1, <3>2
  <2>3. daxian[place] = ju + 10 * k
    BY <1>3, <2>2 DEF Z!Palaces
  <2>4. report.daxian = place /\ place # -1
    <3>1. ~(k < 0)
      BY <2>1
    <3> QED
      BY <1>2, <2>2, <3>1
  <2> QED
    BY <1>1, <1>4, <2>1, <2>3, <2>4
<1> QED
  BY <1>4, <1>5, <1>6

\* The palaces of a flight, or of the ends of a chain.
LEMMA Ties ==
  ASSUME ZwdsInv, Z!Ready, NEW t \in Z!Flights \cup Z!Chains
  PROVE  t[3] \in Z!Palaces /\ t[4] \in Z!Palaces
<1>0. \A h \in Z!Hua, p \in Z!Palaces : fly[h][p] \in Z!Palaces
  BY ReadyChart
<1>1. CASE t \in Z!Flights
  <2>1. PICK h \in Z!Hua, p \in Z!Palaces : t = <<"flight", h, p, fly[h][p]>>
    BY <1>1 DEF Z!Flights
  <2> QED
    BY <1>0, <2>1
<1>2. CASE t \in Z!Chains
  <2>1. PICK h \in {"lu", "ji"} : \E c \in zhuan[h] : t = <<"chain", h, c[1], c[3]>>
    BY <1>2 DEF Z!Chains
  <2>2. PICK c \in zhuan[h] : t = <<"chain", h, c[1], c[3]>>
    BY <2>1
  <2>3. PICK p \in Z!Palaces : c = <<p, fly[h][p], fly["ji"][fly[h][p]]>>
    BY <2>2 DEF ZwdsInv
  <2> QED
    BY <1>0, <2>2, <2>3 DEF Z!Hua
<1> QED
  BY <1>1, <1>2

\* What is told between two charts.
LEMMA Told ==
  ASSUME NEW z1, NEW z2, NEW tie
  PROVE  tie \in Z!Relation(z1, z2) <=>
           \E t \in Z!Flights \cup Z!Chains :
             \E d \in Z!Direction(t[3], t[4], z1, z2) : tie = <<t, d>>
BY DEF Z!Relation

\* The directions by the names of the palaces.
LEMMA Directions ==
  ASSUME NEW a \in Z!Palaces, NEW b \in Z!Palaces, NEW z1 \in Z!Palaces, NEW z2 \in Z!Palaces,
         NEW d
  PROVE  d \in Z!Direction(a, b, z1, z2) <=>
           \/ d = 1 /\ Z!NameIn(a, z1) = Z!NameIn(b, z2)
           \/ d = 2 /\ z1 # z2 /\ Z!NameIn(a, z2) = Z!NameIn(b, z1)
<1>0. a \in 0..11 /\ b \in 0..11 /\ z1 \in 0..11 /\ z2 \in 0..11
  BY DEF Z!Palaces
<1>1. (a - b) % 12 = (z1 - z2) % 12 <=> (z1 - a) % 12 = (z2 - b) % 12
  BY <1>0
<1>2. ((a - b) % 12) + ((z1 - z2) % 12) = 12 <=> z1 # z2 /\ (z2 - a) % 12 = (z1 - b) % 12
  BY <1>0
<1>3. d \in Z!Direction(a, b, z1, z2) <=>
        \/ d = 1 /\ (a - b) % 12 = (z1 - z2) % 12
        \/ d = 2 /\ ((a - b) % 12) + ((z1 - z2) % 12) = 12
  BY DEF Z!Direction, Z!Distance
<1> QED
  BY <1>1, <1>2, <1>3 DEF Z!NameIn

\* Told is what ties palaces of one name, and all of it.
LEMMA SameNamed == ZwdsInv => Z!RelationsAreSameNamed
<1> SUFFICES ASSUME ZwdsInv, Z!Ready, NEW z \in Z!Palaces
             PROVE
               /\ \A tie \in Z!Relation(ming, z) :
                    IF tie[2] = 1 THEN Z!NameIn(tie[1][3], ming) = Z!NameIn(tie[1][4], z)
                                  ELSE Z!NameIn(tie[1][3], z) = Z!NameIn(tie[1][4], ming)
               /\ \A t \in Z!Flights \cup Z!Chains :
                    /\ Z!NameIn(t[3], ming) = Z!NameIn(t[4], z) => <<t, 1>> \in Z!Relation(ming, z)
                    /\ z # ming /\ Z!NameIn(t[3], z) = Z!NameIn(t[4], ming)
                         => <<t, 2>> \in Z!Relation(ming, z)
  BY DEF Z!RelationsAreSameNamed
<1>1. ming \in Z!Palaces
  BY ReadyChart DEF Z!Palaces
<1>2. ASSUME NEW t \in Z!Flights \cup Z!Chains, NEW d
      PROVE  d \in Z!Direction(t[3], t[4], ming, z) <=>
               \/ d = 1 /\ Z!NameIn(t[3], ming) = Z!NameIn(t[4], z)
               \/ d = 2 /\ ming # z /\ Z!NameIn(t[3], z) = Z!NameIn(t[4], ming)
  BY <1>1, Ties, Directions
<1>3. ASSUME NEW tie \in Z!Relation(ming, z)
      PROVE  IF tie[2] = 1 THEN Z!NameIn(tie[1][3], ming) = Z!NameIn(tie[1][4], z)
                           ELSE Z!NameIn(tie[1][3], z) = Z!NameIn(tie[1][4], ming)
  <2>1. PICK t \in Z!Flights \cup Z!Chains :
          \E d \in Z!Direction(t[3], t[4], ming, z) : tie = <<t, d>>
    BY Told
  <2>2. PICK d \in Z!Direction(t[3], t[4], ming, z) : tie = <<t, d>>
    BY <2>1
  <2>3. tie[1] = t /\ tie[2] = d
    BY <2>2
  <2> QED
    BY <1>2, <2>3
<1>4. ASSUME NEW t \in Z!Flights \cup Z!Chains
      PROVE  /\ Z!NameIn(t[3], ming) = Z!NameIn(t[4], z) => <<t, 1>> \in Z!Relation(ming, z)
             /\ z # ming /\ Z!NameIn(t[3], z) = Z!NameIn(t[4], ming)
                  => <<t, 2>> \in Z!Relation(ming, z)
  BY <1>2, Told
<1> QED
  BY <1>3, <1>4

-----------------------------------------------------------------------------
(* For any stem of the year, any distance but one has a flight whose star   *)
(* goes with ziwei and starts at that distance.                             *)

StemAt(y, p) == (2 * y + 2 + ((p - 2) % 12)) % 10

FlightAt ==
  <<<<<<"lu", 11, "tianji">>, <<"quan", 0, "tianji">>, <<"ke", 1, "tianji">>,
      <<"quan", 2, "tianji">>, <<"ke", 3, "tianji">>, <<"lu", 0, "tiantong">>,
      <<"lu", 10, "lianzhen">>, <<"lu", 2, "tiantong">>, <<"quan", 3, "tiantong">>,
      <<"lu", 5, "wuqu">>, <<"quan", 6, "wuqu">>, <<"ke", 11, "ziwei">>>>,
    <<<<"ke", 8, "wuqu">>, <<"ji", 0, "tianji">>, <<"lu", 0, "ziwei">>, <<"lu", 10, "tiantong">>,
      <<"lu", 8, "lianzhen">>, <<"lu", 1, "wuqu">>, <<"quan", 6, "ziwei">>,
      <<"lu", 3, "wuqu">>, <<"quan", 4, "wuqu">>, <<"ke", 9, "ziwei">>, <<"lu", 9, "tianji">>,
      <<"quan", 10, "tianji">>>>,
    <<<<"lu", 0, "ziwei">>, <<"lu", 8, "tiantong">>, <<"lu", 6, "lianzhen">>, <<"lu", 0, "taiyang">>,
      <<"quan", 0, "wuqu">>, <<"lu", 2, "taiyang">>, <<"quan", 2, "wuqu">>,
      <<"ke", 7, "ziwei">>, <<"lu", 7, "tianji">>, <<"quan", 8, "tianji">>,
      <<"ke", 6, "wuqu">>, <<"ji", 10, "tianji">>>>,
    <<<<"lu", 4, "lianzhen">>, <<"lu", 9, "wuqu">>, <<"quan", 2, "ziwei">>,
      <<"ji", 10, "tiantong">>, <<"ji", 0, "wuqu">>, <<"ke", 5, "ziwei">>,
      <<"lu", 5, "tianji">>, <<"quan", 6, "tianji">>, <<"ke", 4, "wuqu">>,
      <<"ji", 8, "tianji">>, <<"lu", 0, "ziwei">>, <<"lu", 6, "tiantong">>>>,
    <<<<"quan", 8, "wuqu">>, <<"ke", 1, "ziwei">>, <<"lu", 1, "tianji">>, <<"ke", 3, "ziwei">>,
      <<"lu", 3, "tianji">>, <<"quan", 4, "tianji">>, <<"ke", 2, "wuqu">>,
      <<"ji", 6, "tianji">>, <<"lu", 0, "lianzhen">>, <<"lu", 4, "tiantong">>,
      <<"lu", 2, "lianzhen">>, <<"lu", 7, "wuqu">>>>>>

\* The distance that has none.
NoneAt == <<12, 2, 0, 10, 12>>

\* The flights of the table set out and land as it says.
LEMMA FlightTable ==
  ASSUME NEW y \in 0..4, NEW c \in 0..11
  PROVE  /\ FlightAt[y + 1][c + 1][1] \in Z!Hua
         /\ FlightAt[y + 1][c + 1][2] \in 0..11
         /\ FlightAt[y + 1][c + 1][3] \in DOMAIN Z!MainStars
         /\ c # NoneAt[y + 1] =>
              Z!MainStars[FlightAt[y + 1][c + 1][3]] = <<(FlightAt[y + 1][c + 1][2] - c) % 12, 1>>
<1>1. FlightAt[y + 1][c + 1][1] \in Z!Hua
  BY SMTT(60) DEF FlightAt, Z!Hua
<1>2. FlightAt[y + 1][c + 1][2] \in 0..11
  BY SMTT(60) DEF FlightAt
<1>3. FlightAt[y + 1][c + 1][3] \in {"ziwei", "tianji", "taiyang", "wuqu", "tiantong", "lianzhen"}
  BY SMTT(60) DEF FlightAt
<1>4. {"ziwei", "tianji", "taiyang", "wuqu", "tiantong", "lianzhen"} \subseteq DOMAIN Z!MainStars
  BY DEF Z!MainStars
<1>5. c # NoneAt[y + 1] =>
        Z!MainStars[FlightAt[y + 1][c + 1][3]] = <<(FlightAt[y + 1][c + 1][2] - c) % 12, 1>>
  <2> DEFINE goes == [ziwei |-> 0, tianji |-> 11, taiyang |-> 9, wuqu |-> 8, tiantong |-> 7,
                      lianzhen |-> 4]
  <2>1. \A s \in {"ziwei", "tianji", "taiyang", "wuqu", "tiantong", "lianzhen"} :
          Z!MainStars[s] = <<goes[s], 1>>
    BY DEF Z!MainStars, Z!With
  <2>2. c # NoneAt[y + 1] =>
          goes[FlightAt[y + 1][c + 1][3]] = (FlightAt[y + 1][c + 1][2] - c) % 12
    BY SMTT(60) DEF FlightAt, NoneAt
  <2> QED
    BY <1>3, <2>1, <2>2
<1> QED
  BY <1>1, <1>2, <1>3, <1>4, <1>5

\* The stem of the palace makes the star of the table fly.
LEMMA FlightStars ==
  ASSUME NEW y \in 0..4, NEW c \in 0..11, c # NoneAt[y + 1]
  PROVE  Z!SI_HUA_MAP[FlightAt[y + 1][c + 1][1]][StemAt(y, FlightAt[y + 1][c + 1][2]) + 1]
           = FlightAt[y + 1][c + 1][3]
<1>1. CASE y = 0
  BY <1>1, SMTT(60) DEF FlightAt, NoneAt, StemAt, Z!SI_HUA_MAP
<1>2. CASE y = 1
  BY <1>2, SMTT(60) DEF FlightAt, NoneAt, StemAt, Z!SI_HUA_MAP
<1>3. CASE y = 2
  BY <1>3, SMTT(60) DEF FlightAt, NoneAt, StemAt, Z!SI_HUA_MAP
<1>4. CASE y = 3
  BY <1>4, SMTT(60) DEF FlightAt, NoneAt, StemAt, Z!SI_HUA_MAP
<1>5. CASE y = 4
  BY <1>5, SMTT(60) DEF FlightAt, NoneAt, StemAt, Z!SI_HUA_MAP
<1>6. y = 0 \/ y = 1 \/ y = 2 \/ y = 3 \/ y = 4
  OBVIOUS
<1> QED
  BY <1>1, <1>2, <1>3, <1>4, <1>5, <1>6, Zenon

\* What a flight by the table, or one by a star that goes against ziwei, is.
LEMMA FlightOf ==
  ASSUME ZwdsInv, Z!Ready, NEW h \in Z!Hua, NEW p \in 0..11, NEW s \in DOMAIN Z!MainStars,
         s = Z!SI_HUA_MAP[h][StemAt(Z!YearGan % 5, p) + 1]
  PROVE  /\ <<"flight", h, p, Z!At(Z!MainStars[s], Z!Ziwei)>> \in Z!Flights
         /\ Z!At(Z!MainStars[s], Z!Ziwei) \in 0..11
<1>1. p \in Z!Palaces /\ Z!YearGan \in 0..9 /\ gan[p] = StemAt(Z!YearGan % 5, p)
  BY ReadyChart DEF OwnGan, Z!GanOfPalace, StemAt, Z!Palaces
<1>2. fly[h][p] = star[s]
  BY <1>1 DEF ZwdsInv
<1>3. star[s] = Z!At(Z!MainStars[s], Z!Ziwei) /\ star[s] \in 0..11
  BY ReadyChart, Places, PairedStars DEF Z!Palaces
<1> QED
  BY <1>1, <1>2, <1>3 DEF Z!Flights

\* A flight that suits a direction is told.
LEMMA FlightIsTold ==
  ASSUME NEW h, NEW p \in 0..11, NEW q \in 0..11, NEW z \in 0..11, ming \in 0..11,
         <<"flight", h, p, q>> \in Z!Flights,
         \/ (p - q) % 12 = (ming - z) % 12
         \/ ((p - q) % 12) + ((ming - z) % 12) = 12
  PROVE  Z!Relation(ming, z) # {}
<1> DEFINE t == <<"flight", h, p, q>>
<1>1. t \in Z!Flights \cup Z!Chains /\ t[3] = p /\ t[4] = q
  OBVIOUS
<1>2. \E d \in {1, 2} : d \in Z!Direction(p, q, ming, z)
  BY DEF Z!Direction, Z!Distance
<1>3. PICK d \in {1, 2} : d \in Z!Direction(p, q, ming, z)
  BY <1>2
<1>4. <<t, d>> \in Z!Relation(ming, z)
  BY <1>1, <1>3, Told
<1> QED
  BY <1>4

\* Ziwei and the way between the charts say at which distance a flight has to
\* start.  Where the year has none there, the other direction asks for another
\* distance; and between charts with one ming palace or opposite ones, where it
\* asks for the same, a star that goes against ziwei flies.
LEMMA NeverEmpty == ZwdsInv => Z!RelationIsNeverEmpty
<1> SUFFICES ASSUME ZwdsInv, Z!Ready, NEW z \in Z!Palaces PROVE Z!Relation(ming, z) # {}
  BY DEF Z!RelationIsNeverEmpty
<1> DEFINE y == Z!YearGan % 5
           way == (ming - z) % 12
<1>1. /\ y \in 0..4 /\ way \in 0..11 /\ Z!Ziwei \in 0..11
      /\ ming \in 0..11 /\ z \in 0..11 /\ NoneAt[y + 1] \in {0, 2, 10, 12}
  <2>1. Z!YearGan \in 0..9 /\ ming \in 0..11 /\ z \in 0..11 /\ Z!Ziwei \in 0..11
    BY ReadyChart DEF Z!Palaces
  <2>2. y \in 0..4 /\ way \in 0..11
    BY <2>1
  <2> QED
    BY <2>1, <2>2 DEF NoneAt
<1> HIDE DEF y
<1>2. ASSUME NEW c \in 0..11, c # NoneAt[y + 1],
             \/ (c - Z!Ziwei) % 12 = way
             \/ ((c - Z!Ziwei) % 12) + way = 12
      PROVE  Z!Relation(ming, z) # {}
  <2> DEFINE h == FlightAt[y + 1][c + 1][1]
             p == FlightAt[y + 1][c + 1][2]
             s == FlightAt[y + 1][c + 1][3]
             q == Z!At(Z!MainStars[s], Z!Ziwei)
  <2>1. /\ h \in Z!Hua /\ p \in 0..11 /\ s \in DOMAIN Z!MainStars
        /\ Z!MainStars[s] = <<(p - c) % 12, 1>>
        /\ s = Z!SI_HUA_MAP[h][StemAt(y, p) + 1]
    BY <1>1, <1>2, FlightTable, FlightStars
  <2> HIDE DEF h, p, s
  <2>2. q = (((p - c) % 12) + Z!Ziwei) % 12
    BY <1>1, <2>1 DEF Z!At
  <2>3. <<"flight", h, p, q>> \in Z!Flights /\ q \in 0..11
    BY <2>1, FlightOf DEF y
  <2>4. (p - q) % 12 = (c - Z!Ziwei) % 12
    BY <1>1, <2>1, <2>2
  <2> HIDE DEF q
  <2> QED
    BY <1>1, <1>2, <2>1, <2>3, <2>4, FlightIsTold
<1>3. ASSUME NEW h \in Z!Hua, NEW p \in 0..11, NEW s \in DOMAIN Z!MainStars, NEW start \in 0..11,
             s = Z!SI_HUA_MAP[h][StemAt(y, p) + 1], Z!MainStars[s] = Z!Against(start),
             (p - ((start - Z!Ziwei) % 12)) % 12 = way
      PROVE  Z!Relation(ming, z) # {}
  <2>1. Z!At(Z!MainStars[s], Z!Ziwei) = (start - Z!Ziwei) % 12
    BY <1>1, <1>3 DEF Z!At, Z!Against
  <2>2. /\ <<"flight", h, p, (start - Z!Ziwei) % 12>> \in Z!Flights
        /\ (start - Z!Ziwei) % 12 \in 0..11
    BY <1>3, <2>1, FlightOf DEF y
  <2> QED
    BY <1>1, <1>3, <2>2, FlightIsTold
<1>4. CASE (Z!Ziwei + way) % 12 # NoneAt[y + 1]
  <2>1. (((Z!Ziwei + way) % 12) - Z!Ziwei) % 12 = way /\ (Z!Ziwei + way) % 12 \in 0..11
    BY <1>1, CountAround
  <2> QED
    BY <1>2, <1>4, <2>1
<1>5. CASE (Z!Ziwei + way) % 12 = NoneAt[y + 1] /\ way \notin {0, 6}
  <2>1. /\ (Z!Ziwei - way) % 12 # NoneAt[y + 1] /\ (Z!Ziwei - way) % 12 \in 0..11
        /\ ((((Z!Ziwei - way) % 12) - Z!Ziwei) % 12) + way = 12
    BY <1>1, <1>5
  <2> QED
    BY <1>2, <2>1
<1>6. CASE (Z!Ziwei + way) % 12 = NoneAt[y + 1] /\ way \in {0, 6}
  <2>1. y \in {1, 2, 3}
    BY <1>1, <1>6 DEF NoneAt
  <2>2. CASE y = 1
    <3>1. /\ "lu" \in Z!Hua /\ "jumen" \in DOMAIN Z!MainStars
          /\ Z!MainStars["jumen"] = Z!Against(7)
      BY DEF Z!Hua, Z!MainStars
    <3>2. "jumen" = Z!SI_HUA_MAP["lu"][StemAt(y, 5) + 1]
      BY <2>2 DEF Z!SI_HUA_MAP, StemAt
    <3>3. (5 - ((7 - Z!Ziwei) % 12)) % 12 = way
      BY <1>1, <1>6, <2>2 DEF NoneAt
    <3> QED
      BY <1>3, <3>1, <3>2, <3>3
  <2>3. CASE y = 2
    <3>1. /\ "ke" \in Z!Hua /\ "taiyin" \in DOMAIN Z!MainStars
          /\ Z!MainStars["taiyin"] = Z!Against(5)
      BY DEF Z!Hua, Z!MainStars
    <3>2. "taiyin" = Z!SI_HUA_MAP["ke"][StemAt(y, 5) + 1]
      BY <2>3 DEF Z!SI_HUA_MAP, StemAt
    <3>3. (5 - ((5 - Z!Ziwei) % 12)) % 12 = way
      BY <1>1, <1>6, <2>3 DEF NoneAt
    <3> QED
      BY <1>3, <3>1, <3>2, <3>3
  <2>4. CASE y = 3
    <3>1. /\ "lu" \in Z!Hua /\ "taiyin" \in DOMAIN Z!MainStars
          /\ Z!MainStars["taiyin"] = Z!Against(5)
      BY DEF Z!Hua, Z!MainStars
    <3>2. "taiyin" = Z!SI_HUA_MAP["lu"][StemAt(y, 7) + 1]
      BY <2>4 DEF Z!SI_HUA_MAP, StemAt
    <3>3. (7 - ((5 - Z!Ziwei) % 12)) % 12 = way
      BY <1>1, <1>6, <2>4 DEF NoneAt
    <3> QED
      BY <1>3, <3>1, <3>2, <3>3
  <2> QED
    BY <2>1, <2>2, <2>3, <2>4
<1> QED
  BY <1>4, <1>5, <1>6

\* A chart that is made this way stands by the rules.
LEMMA ZwdsIsSound == Z!BirthsAssumption /\ ZwdsInv => StarsStandByTheRules
BY ZwdsTypes, TablesAreRight, PairsStand, NoBlanks, PeriodsAreNear, SameNamed, NeverEmpty
   DEF StarsStandByTheRules

-----------------------------------------------------------------------------
(***************************************************************************)
(* Stars of the four pillars.                                              *)
(***************************************************************************)

SomeChart == [1..3 -> Pillars] \cup [1..4 -> Pillars]

Analysed == [i \in DOMAIN chart |-> [s \in OnPillar(chart, i) |-> Times(chart, i, s)]]

ShenshaInv ==
  /\ chart \in SomeChart
  /\ stage \in {"cast", "analysed", "queried", "compared"}
  /\ found = IF stage = "cast" THEN <<>> ELSE Analysed
  /\ answer.pillar \in Pillars
  /\ IF stage = "compared"
       THEN LET relation == Relation(YearBranch(chart), YearBranch(mate))
            IN /\ mate \in SomeChart
               /\ score = ScoreShensha(Has(chart, mate), Has(mate, chart))
               /\ zodiac = [relation |-> relation, score |-> ScoreShengxiao(relation)]
       ELSE score = 50 /\ zodiac = [relation |-> "NEUTRAL", score |-> 50]

\* Before a chart is analysed.
LEMMA ShenshaInit == ChartsAssumption /\ Init => ShenshaInv
BY DEF ChartsAssumption, Init, ShenshaInv, SomeChart, Pillars

\* Each question leaves the chart and what was found as they are.
LEMMA ShenshaStep ==
  ASSUME ChartsAssumption, ShenshaInv, [Next]_vars
  PROVE  ShenshaInv'
<1>1. CASE Analyse
  <2>1. found' = Analysed /\ chart' = chart
    BY <1>1 DEF Analyse, Analysed
  <2>2. Analysed' = Analysed
    BY <2>1 DEF Analysed
  <2> QED
    BY <1>1, <2>1, <2>2 DEF ShenshaInv, Analyse
<1>2. ASSUME NEW p \in Queried, Query(p) PROVE ShenshaInv'
  <2>1. Analysed' = Analysed
    BY <1>2 DEF Analysed, Query
  <2> QED
    BY <1>2, <2>1 DEF ShenshaInv, Query, ChartsAssumption
<1>3. ASSUME NEW m \in Mates, Compare(m) PROVE ShenshaInv'
  <2>1. Analysed' = Analysed
    BY <1>3 DEF Analysed, Compare
  <2>2. score' = ScoreShensha(Has(chart', mate'), Has(mate', chart'))
    BY <1>3 DEF Compare
  <2> QED
    BY <1>3, <2>1, <2>2 DEF ShenshaInv, Compare, ChartsAssumption, SomeChart
<1>4. CASE UNCHANGED vars
  <2>1. Analysed' = Analysed
    BY <1>4 DEF Analysed, vars
  <2> QED
    BY <1>4, <2>1 DEF ShenshaInv, vars
<1> QED
  BY <1>1, <1>2, <1>3, <1>4 DEF Next

-----------------------------------------------------------------------------
\* The stems and branches of a chart.
LEMMA PillarNumbers ==
  ASSUME NEW c \in SomeChart
  PROVE  /\ YearStem(c) \in 0..9 /\ DayStem(c) \in 0..9
         /\ YearBranch(c) \in 0..11 /\ DayBranch(c) \in 0..11
         /\ DOMAIN c \in {1..3, 1..4} /\ \A i \in DOMAIN c : c[i] \in 0..59
<1>1. c[1] \in 0..59 /\ c[3] \in 0..59
  BY DEF SomeChart, Pillars
<1>2. DOMAIN c \in {1..3, 1..4} /\ \A i \in DOMAIN c : c[i] \in 0..59
  BY DEF SomeChart, Pillars
<1> QED
  BY <1>1, <1>2 DEF YearStem, DayStem, YearBranch, DayBranch, Stem, Branch

\* The stars that are asked about pillars.
ZhuStars ==
  {"Guchen", "Guasu", "Hongluan", "Tianxi", "Tiandeguiren", "Yuede", "Tianyi", "Wenchang",
   "Yangren", "Lushen", "Hongyan", "Jiangxing", "Huagai", "Yima", "Jiesha", "Wangshen", "Taohua",
   "Taijiguiren", "Kongwang", "FuxingGuiren", "GuoyinGuiren", "DexiuGuiren", "Xuetang", "Ciguan",
   "TianchuGuiren", "Jinyu", "Zaisha", "Tongzi", "Tianyii"}

\* A pillar is told the stars whose class says so.
LEMMA StarsInZhu ==
  ASSUME NEW c, NEW p
  PROVE  /\ InZhu(c, p) \subseteq ZhuStars
         /\ "Guchen" \in InZhu(c, p) <=> Guchen(c, p)
         /\ "Guasu" \in InZhu(c, p) <=> Guasu(c, p)
         /\ "Hongluan" \in InZhu(c, p) <=> Hongluan(c, p)
         /\ "Tianxi" \in InZhu(c, p) <=> Tianxi(c, p)
         /\ "Wenchang" \in InZhu(c, p) <=> Wenchang(c, p)
         /\ "Yangren" \in InZhu(c, p) <=> Yangren(c, p)
         /\ "Lushen" \in InZhu(c, p) <=> Lushen(c, p)
         /\ "Huagai" \in InZhu(c, p) <=> Huagai(c, p)
         /\ "Yima" \in InZhu(c, p) <=> Yima(c, p)
         /\ "Jiesha" \in InZhu(c, p) <=> Jiesha(c, p)
         /\ "Wangshen" \in InZhu(c, p) <=> Wangshen(c, p)
         /\ "Taohua" \in InZhu(c, p) <=> Taohua(c, p)
         /\ "Taijiguiren" \in InZhu(c, p) <=> Taijiguiren(c, p)
         /\ "Kongwang" \in InZhu(c, p) <=> Kongwang(c, p)
         /\ "Ciguan" \in InZhu(c, p) <=> Ciguan(c, p)
         /\ "Zaisha" \in InZhu(c, p) <=> Zaisha(c, p)
<1>1. InZhu(c, p) \subseteq ZhuStars
  BY SMTT(30) DEF InZhu, ZhuStars
<1>2. /\ "Guchen" \in InZhu(c, p) <=> Guchen(c, p)
      /\ "Guasu" \in InZhu(c, p) <=> Guasu(c, p)
      /\ "Hongluan" \in InZhu(c, p) <=> Hongluan(c, p)
      /\ "Tianxi" \in InZhu(c, p) <=> Tianxi(c, p)
  BY SMTT(30) DEF InZhu
<1>3. /\ "Wenchang" \in InZhu(c, p) <=> Wenchang(c, p)
      /\ "Yangren" \in InZhu(c, p) <=> Yangren(c, p)
      /\ "Lushen" \in InZhu(c, p) <=> Lushen(c, p)
      /\ "Huagai" \in InZhu(c, p) <=> Huagai(c, p)
  BY SMTT(30) DEF InZhu
<1>4. /\ "Yima" \in InZhu(c, p) <=> Yima(c, p)
      /\ "Jiesha" \in InZhu(c, p) <=> Jiesha(c, p)
      /\ "Wangshen" \in InZhu(c, p) <=> Wangshen(c, p)
      /\ "Taohua" \in InZhu(c, p) <=> Taohua(c, p)
  BY SMTT(30) DEF InZhu
<1>5. /\ "Taijiguiren" \in InZhu(c, p) <=> Taijiguiren(c, p)
      /\ "Kongwang" \in InZhu(c, p) <=> Kongwang(c, p)
      /\ "Ciguan" \in InZhu(c, p) <=> Ciguan(c, p)
      /\ "Zaisha" \in InZhu(c, p) <=> Zaisha(c, p)
  BY SMTT(30) DEF InZhu
<1> QED
  BY <1>1, <1>2, <1>3, <1>4, <1>5

\* Stars with an is_present of their own.
DoubleMeaning == {"Huagai", "DexiuGuiren", "Tongzi", "GuoyinGuiren", "Jinyu"}

\* On a pillar of the chart itself five of them mean something else.
LEMMA StarsOnPillar ==
  ASSUME NEW c, NEW i
  PROVE  /\ \A s \in ZhuStars \ DoubleMeaning : s \in OnPillar(c, i) <=> s \in InZhu(c, c[i])
         /\ "Huagai" \in OnPillar(c, i) <=> Huagai(c, c[i]) /\ i # 3
         /\ "Jinyu" \in OnPillar(c, i) <=> Branch(c[i]) = JinyuBranch(DayStem(c))
         /\ "GuoyinGuiren" \in OnPillar(c, i) <=>
              \E k \in 1..2 : Branch(c[i]) = GuoyinBranch(Stems(c)[k])
         /\ "ShieDabai" \in OnPillar(c, i) <=> i = 3 /\ ShieDabai(c)
         /\ \A s \in DayStars : s \in OnPillar(c, i) => i = 3
<1>1. \A s \in ZhuStars \ DoubleMeaning : s \in OnPillar(c, i) <=> s \in InZhu(c, c[i])
  BY SMTT(30) DEF OnPillar, ZhuStars, DoubleMeaning, OfTheDay
<1>2. "Huagai" \in OnPillar(c, i) <=> Huagai(c, c[i]) /\ i # 3
  BY StarsInZhu, SMTT(30) DEF OnPillar, OfTheDay
<1>3. /\ "Jinyu" \in OnPillar(c, i) <=> Branch(c[i]) = JinyuBranch(DayStem(c))
      /\ "GuoyinGuiren" \in OnPillar(c, i) <=>
              \E k \in 1..2 : Branch(c[i]) = GuoyinBranch(Stems(c)[k])
  BY SMTT(30) DEF OnPillar, OfTheDay
<1>4. DayStars \cap InZhu(c, c[i]) = {}
  BY StarsInZhu, SMTT(30) DEF ZhuStars, DayStars
<1>5. /\ "ShieDabai" \in OnPillar(c, i) <=> i = 3 /\ ShieDabai(c)
      /\ \A s \in DayStars : s \in OnPillar(c, i) => i = 3
  BY <1>4, SMTT(30) DEF OnPillar, OfTheDay, DayStars
<1> QED
  BY <1>1, <1>2, <1>3, <1>5

\* The tables of stars agree with what they stand for.
LEMMA TriadTables ==
  ASSUME NEW z \in 0..11
  PROVE  /\ At(z, <<9, 6, 3, 0, 9, 6, 3, 0, 9, 6, 3, 0>>) = (Birth(z) + 1) % 12
         /\ At(z, <<11, 8, 5, 2, 11, 8, 5, 2, 11, 8, 5, 2>>) = (Birth(z) + 3) % 12
         /\ At(z, <<2, 11, 8, 5, 2, 11, 8, 5, 2, 11, 8, 5>>) = (Birth(z) + 6) % 12
         /\ At(z, <<5, 2, 11, 8, 5, 2, 11, 8, 5, 2, 11, 8>>) = (Birth(z) + 9) % 12
         /\ At(z, <<6, 3, 0, 9, 6, 3, 0, 9, 6, 3, 0, 9>>) = (Birth(z) + 10) % 12
         /\ At(z, <<4, 1, 10, 7, 4, 1, 10, 7, 4, 1, 10, 7>>) = (Birth(z) + 8) % 12
BY SMTT(60) DEF At, Birth

\* Those of the year's branch.
LEMMA YearTables ==
  ASSUME NEW z \in 0..11
  PROVE  /\ At(z, <<3, 2, 1, 0, 11, 10, 9, 8, 7, 6, 5, 4>>) = (15 - z) % 12
         /\ At(z, <<9, 8, 7, 6, 5, 4, 3, 2, 1, 0, 11, 10>>) = (21 - z) % 12
         /\ At(z, <<2, 2, 5, 5, 5, 8, 8, 8, 11, 11, 11, 2>>)
              = (3 * (((z + 1) % 12) \div 3) + 2) % 12
         /\ At(z, <<10, 10, 1, 1, 1, 4, 4, 4, 7, 7, 7, 10>>)
              = (3 * (((z + 1) % 12) \div 3) + 10) % 12
BY SMTT(60) DEF At

\* Those of the day's stem.
LEMMA StemTables ==
  ASSUME NEW g \in 0..9
  PROVE  /\ At(g, <<2, 3, 5, 6, 5, 6, 8, 9, 11, 0>>) = Office(g) % 12
         /\ At(g, <<3, -1, 6, -1, 6, -1, 9, -1, 0, -1>>)
              = IF g % 2 = 0 THEN (Office(g) + 1) % 12 ELSE -1
         /\ JinyuBranch(g) = (Office(g) + 2) % 12
         /\ At(g, <<5, 6, 8, 9, 8, 9, 11, 0, 2, 3>>) = (Office(g) + 3) % 12
BY SMTT(60) DEF At, Office, JinyuBranch

\* The bad days, and the branches that are void on a day.
LEMMA DayTable ==
  ASSUME NEW d \in 0..59
  PROVE  /\ ShieDabai(<<0, 0, d>>) <=> Office(Stem(d)) % 12 \in DayVoid(d)
         /\ Branch(d) \notin DayVoid(d)
BY SMTT(60) DEF ShieDabai, DayStem, DayBranch, Stem, Branch, Office, DayVoid

\* What analyse() lists.
LEMMA ListedStars ==
  ASSUME ShenshaInv, NEW i \in DOMAIN found
  PROVE  /\ i \in DOMAIN chart /\ stage # "cast"
         /\ \A s : Listed(i, s) <=> s \in OnPillar(chart, i)
         /\ \A s \in OnPillar(chart, i) : found[i][s] = Times(chart, i, s)
         /\ \A s \in ZhuStars \ DoubleMeaning : Listed(i, s) <=> s \in InZhu(chart, chart[i])
<1>1. stage # "cast"
  <2>1. DOMAIN <<>> = {}
    OBVIOUS
  <2> QED
    BY <2>1 DEF ShenshaInv
<1>2. found = Analysed
  BY <1>1 DEF ShenshaInv
<1> QED
  BY <1>1, <1>2, StarsOnPillar DEF Analysed, Listed

\* The stars of the triads are where the triad has them.
LEMMA TriadStarsSit == ShenshaInv => TriadStars
<1> SUFFICES ASSUME ShenshaInv, NEW i \in DOMAIN found
             PROVE  /\ Sits(i, "Taohua", Birth(DayBranch(chart)) + 1)
                    /\ Sits(i, "Wangshen", Birth(DayBranch(chart)) + 3)
                    /\ Sits(i, "Yima", Birth(DayBranch(chart)) + 6)
                    /\ Sits(i, "Jiesha", Birth(DayBranch(chart)) + 9)
                    /\ Sits(i, "Zaisha", Birth(YearBranch(chart)) + 10)
                    /\ i # 3 => Sits(i, "Huagai", Birth(DayBranch(chart)) + 8)
  BY DEF TriadStars
<1>1. DayBranch(chart) \in 0..11 /\ YearBranch(chart) \in 0..11
  BY PillarNumbers DEF ShenshaInv
<1>2. {"Taohua", "Wangshen", "Yima", "Jiesha", "Zaisha"} \subseteq ZhuStars \ DoubleMeaning
  BY DEF ZhuStars, DoubleMeaning
<1>3. /\ Listed(i, "Taohua") <=> Taohua(chart, chart[i])
      /\ Listed(i, "Wangshen") <=> Wangshen(chart, chart[i])
      /\ Listed(i, "Yima") <=> Yima(chart, chart[i])
      /\ Listed(i, "Jiesha") <=> Jiesha(chart, chart[i])
      /\ Listed(i, "Zaisha") <=> Zaisha(chart, chart[i])
      /\ i # 3 => (Listed(i, "Huagai") <=> Huagai(chart, chart[i]))
  BY <1>2, ListedStars, StarsInZhu, StarsOnPillar
<1> QED
  BY <1>1, <1>3, TriadTables DEF Sits, Taohua, Wangshen, Yima, Jiesha, Zaisha, Huagai

\* So are those of the year,
LEMMA YearStarsSit == ShenshaInv => StarsOfTheYear
<1> SUFFICES ASSUME ShenshaInv, NEW i \in DOMAIN found
             PROVE  LET z == YearBranch(chart)
                        season == 3 * (((z + 1) % 12) \div 3)
                    IN /\ Sits(i, "Hongluan", 15 - z)
                       /\ Sits(i, "Tianxi", 21 - z)
                       /\ Sits(i, "Guchen", season + 2)
                       /\ Sits(i, "Guasu", season + 10)
  BY DEF StarsOfTheYear
<1>1. YearBranch(chart) \in 0..11
  BY PillarNumbers DEF ShenshaInv
<1>2. {"Hongluan", "Tianxi", "Guchen", "Guasu"} \subseteq ZhuStars \ DoubleMeaning
  BY DEF ZhuStars, DoubleMeaning
<1>3. /\ Listed(i, "Hongluan") <=> Hongluan(chart, chart[i])
      /\ Listed(i, "Tianxi") <=> Tianxi(chart, chart[i])
      /\ Listed(i, "Guchen") <=> Guchen(chart, chart[i])
      /\ Listed(i, "Guasu") <=> Guasu(chart, chart[i])
  BY <1>2, ListedStars, StarsInZhu
<1> QED
  BY <1>1, <1>3, YearTables DEF Sits, Hongluan, Tianxi, Guchen, Guasu

\* those of the day's stem,
LEMMA StemStarsSit == ShenshaInv => StarsOfTheDayStem
<1> SUFFICES ASSUME ShenshaInv, NEW i \in DOMAIN found
             PROVE  LET lu == Office(DayStem(chart))
                    IN /\ Sits(i, "Lushen", lu)
                       /\ IF DayStem(chart) % 2 = 0 THEN Sits(i, "Yangren", lu + 1)
                                                    ELSE ~Listed(i, "Yangren")
                       /\ Sits(i, "Jinyu", lu + 2)
                       /\ Sits(i, "Wenchang", lu + 3)
  BY DEF StarsOfTheDayStem
<1>1. DayStem(chart) \in 0..9 /\ Branch(chart[i]) \in 0..11
  <2>1. DayStem(chart) \in 0..9 /\ chart[i] \in 0..59
    BY PillarNumbers, ListedStars DEF ShenshaInv
  <2> QED
    BY <2>1 DEF Branch
<1>2. {"Lushen", "Yangren", "Wenchang"} \subseteq ZhuStars \ DoubleMeaning
  BY DEF ZhuStars, DoubleMeaning
<1>3. /\ Listed(i, "Lushen") <=> Lushen(chart, chart[i])
      /\ Listed(i, "Yangren") <=> Yangren(chart, chart[i])
      /\ Listed(i, "Wenchang") <=> Wenchang(chart, chart[i])
      /\ Listed(i, "Jinyu") <=> Branch(chart[i]) = JinyuBranch(DayStem(chart))
  BY <1>2, ListedStars, StarsInZhu, StarsOnPillar
<1> QED
  BY <1>1, <1>3, StemTables DEF Sits, Lushen, Yangren, Wenchang

\* and those of the day.
LEMMA BadDays == ShenshaInv => BadDaysAreVoid
<1> SUFFICES ASSUME ShenshaInv, stage # "cast"
             PROVE  /\ Listed(3, "ShieDabai") <=> Office(DayStem(chart)) % 12 \in DayVoid(chart[3])
                    /\ ~Listed(3, "Kongwang")
  BY DEF BadDaysAreVoid
<1>1. 3 \in DOMAIN found /\ chart[3] \in 0..59
  <2>1. DOMAIN found = DOMAIN chart
    BY DEF ShenshaInv, Analysed
  <2>2. 3 \in DOMAIN chart
    BY PillarNumbers DEF ShenshaInv
  <2> QED
    BY <2>1, <2>2, PillarNumbers DEF ShenshaInv
<1>2. ShieDabai(chart) <=> ShieDabai(<<0, 0, chart[3]>>)
  BY DEF ShieDabai, DayStem, DayBranch
<1>3. Listed(3, "ShieDabai") <=> ShieDabai(chart)
  BY <1>1, ListedStars, StarsOnPillar
<1>4. Listed(3, "Kongwang") <=> Branch(chart[3]) \in DayVoid(chart[3])
  <2>1. "Kongwang" \in ZhuStars \ DoubleMeaning
    BY DEF ZhuStars, DoubleMeaning
  <2> QED
    BY <1>1, <2>1, ListedStars, StarsInZhu DEF Kongwang
<1> QED
  BY <1>1, <1>2, <1>3, <1>4, DayTable DEF DayStem

\* One of two things, or both.
LEMMA OneOrTwo ==
  ASSUME NEW a, NEW b, NEW S, S \subseteq {a, b}, S # {}
  PROVE  Cardinality(S) \in 1..2
<1>1. S = {a} \/ S = {b} \/ (S = {a} \cup {b} /\ a # b)
  OBVIOUS
<1>2. Cardinality({a}) = 1 /\ Cardinality({b}) = 1 /\ IsFiniteSet({a})
  BY FS_Singleton
<1>3. a # b => Cardinality({a} \cup {b}) = 2
  BY <1>2, FS_AddElement
<1> QED
  BY <1>1, <1>2, <1>3

\* A star is listed once, or up to twice when two stems seek it.
LEMMA ListedTimes ==
  ASSUME NEW c, NEW i, NEW s \in OnPillar(c, i)
  PROVE  Times(c, i, s) \in 1..2 /\ (Times(c, i, s) = 2 => s \in TwoStems)
<1>1. CASE s \notin TwoStems
  <2>1. Times(c, i, s) = 1
    BY <1>1, Zenon DEF Times, TwoStems
  <2> QED
    BY <2>1
<1>2. CASE s = "Taijiguiren"
  <2> DEFINE hits == {k \in 1..2 : Branch(c[i]) \in TaijiBranches(Stems(c)[k])}
  <2>1. Times(c, i, s) = Cardinality(hits)
    BY <1>2, Zenon DEF Times
  <2>2. s \in ZhuStars \ DoubleMeaning
    BY <1>2 DEF ZhuStars, DoubleMeaning
  <2>3. hits # {}
    BY <1>2, <2>2, StarsOnPillar, StarsInZhu DEF Taijiguiren
  <2>4. hits \subseteq {1, 2}
    OBVIOUS
  <2> QED
    <3> HIDE DEF hits
    <3>1. Cardinality(hits) \in 1..2
      BY <2>3, <2>4, OneOrTwo
    <3> QED
      BY <1>2, <2>1, <3>1 DEF TwoStems
<1>3. CASE s = "Ciguan"
  <2> DEFINE hits == {k \in 1..2 : <<Stem(c[i]), Branch(c[i])>> = CiguanPillar(Stems(c)[k])}
  <2>1. Times(c, i, s) = Cardinality(hits)
    BY <1>3, Zenon DEF Times
  <2>2. s \in ZhuStars \ DoubleMeaning
    BY <1>3 DEF ZhuStars, DoubleMeaning
  <2>3. hits # {}
    BY <1>3, <2>2, StarsOnPillar, StarsInZhu DEF Ciguan
  <2>4. hits \subseteq {1, 2}
    OBVIOUS
  <2> QED
    <3> HIDE DEF hits
    <3>1. Cardinality(hits) \in 1..2
      BY <2>3, <2>4, OneOrTwo
    <3> QED
      BY <1>3, <2>1, <3>1 DEF TwoStems
<1>4. CASE s = "GuoyinGuiren"
  <2> DEFINE hits == {g \in {YearStem(c), DayStem(c)} : Branch(c[i]) = GuoyinBranch(g)}
  <2>1. Times(c, i, s) = Cardinality(hits)
    BY <1>4, Zenon DEF Times
  <2>2. hits # {}
    BY <1>4, StarsOnPillar DEF Stems
  <2>3. hits \subseteq {YearStem(c), DayStem(c)}
    OBVIOUS
  <2> QED
    <3> HIDE DEF hits
    <3>1. Cardinality(hits) \in 1..2
      BY <2>2, <2>3, OneOrTwo
    <3> QED
      BY <1>4, <2>1, <3>1 DEF TwoStems
<1> QED
  BY <1>1, <1>2, <1>3, <1>4 DEF TwoStems

\* Five things.
LEMMA FiveAreFinite ==
  ASSUME NEW a, NEW b, NEW c, NEW d, NEW e
  PROVE  IsFiniteSet({a, b, c, d, e})
<1>1. IsFiniteSet({}) 
  BY FS_EmptySet
<1>2. IsFiniteSet({} \cup {a})
  BY <1>1, FS_AddElement
<1>3. IsFiniteSet({} \cup {a} \cup {b})
  BY <1>2, FS_AddElement
<1>4. IsFiniteSet({} \cup {a} \cup {b} \cup {c})
  BY <1>3, FS_AddElement
<1>5. IsFiniteSet({} \cup {a} \cup {b} \cup {c} \cup {d})
  BY <1>4, FS_AddElement
<1>6. IsFiniteSet({} \cup {a} \cup {b} \cup {c} \cup {d} \cup {e})
  BY <1>5, FS_AddElement
<1>7. {} \cup {a} \cup {b} \cup {c} \cup {d} \cup {e} = {a, b, c, d, e}
  OBVIOUS
<1> QED
  BY <1>6, <1>7

\* There are finitely many stars.
LEMMA ZhuStarsAreFinite == IsFiniteSet(ZhuStars)
<1> DEFINE
  A == {"Guchen", "Guasu", "Hongluan", "Tianxi", "Tiandeguiren"}
  B == {"Yuede", "Tianyi", "Wenchang", "Yangren", "Lushen"}
  C == {"Hongyan", "Jiangxing", "Huagai", "Yima", "Jiesha"}
  D == {"Wangshen", "Taohua", "Taijiguiren", "Kongwang", "FuxingGuiren"}
  E == {"GuoyinGuiren", "DexiuGuiren", "Xuetang", "Ciguan", "TianchuGuiren"}
  F == {"Jinyu", "Zaisha", "Tongzi", "Tianyii", "Tianyii"}
<1>1. ZhuStars = A \cup B \cup C \cup D \cup E \cup F
  BY DEF ZhuStars
<1>2. /\ IsFiniteSet(A) /\ IsFiniteSet(B) /\ IsFiniteSet(C)
      /\ IsFiniteSet(D) /\ IsFiniteSet(E) /\ IsFiniteSet(F)
  BY FiveAreFinite
<1> HIDE DEF A, B, C, D, E, F
<1> QED
  BY <1>1, <1>2, FS_Union

\* The score of two charts is in range, and the same from either side.
LEMMA ScoreType ==
  ASSUME NEW c \in SomeChart, NEW d \in SomeChart
  PROVE  /\ ScoreShensha(Has(c, d), Has(d, c)) \in 0..100
         /\ ScoreShensha(Has(c, d), Has(d, c)) = ScoreShensha(Has(d, c), Has(c, d))
<1>1. ASSUME NEW x \in SomeChart, NEW y PROVE IsFiniteSet(Has(x, y))
  <2>1. DOMAIN x \subseteq 1..4
    BY PillarNumbers
  <2>2. Has(x, y) \subseteq (1..4) \X ZhuStars
    BY <2>1, StarsInZhu DEF Has
  <2>3. IsFiniteSet((1..4) \X ZhuStars)
    <3>1. IsFiniteSet(1..4)
      BY 1 \in Int, 4 \in Int, FS_Interval, Zenon
    <3> QED
      BY <3>1, ZhuStarsAreFinite, FS_Product
  <2> QED
    BY <2>2, <2>3, FS_Subset
<1>2. ASSUME NEW S, IsFiniteSet(S), NEW names PROVE Counted(S, names) \in Nat
  <2>1. IsFiniteSet({e \in S : e[2] \in names})
    BY <1>2, FS_Subset
  <2> QED
    BY <2>1, FS_CardinalityType DEF Counted
<1>3. \A x \in Int : Clamp(x) \in 0..100
  BY DEF Clamp
<1>4. /\ Counted(Has(c, d), Positive) \in Nat /\ Counted(Has(d, c), Positive) \in Nat
      /\ Counted(Has(c, d), Negative) \in Nat /\ Counted(Has(d, c), Negative) \in Nat
  BY <1>1, <1>2
<1> QED
  BY <1>3, <1>4 DEF ScoreShensha

\* The types of what was found.
LEMMA ShenshaTypes == ShenshaInv => ShenshaTypeOK
<1> SUFFICES ASSUME ShenshaInv PROVE ShenshaTypeOK
  OBVIOUS
<1>1. stage # "cast" => DOMAIN found = DOMAIN chart
  BY DEF ShenshaInv, Analysed
<1>2. ASSUME NEW i \in DOMAIN found, NEW s \in DOMAIN found[i]
      PROVE  /\ found[i][s] \in 1..2
             /\ found[i][s] = 2 => s \in TwoStems
             /\ s \in DayStars => i = 3
  <2>1. s \in OnPillar(chart, i) /\ found[i][s] = Times(chart, i, s)
    BY <1>2, ListedStars DEF Listed
  <2> QED
    BY <2>1, ListedTimes, StarsOnPillar
<1>3. score \in 0..100
  <2>1. CASE stage = "compared"
    <3>1. /\ chart \in SomeChart /\ mate \in SomeChart
          /\ score = ScoreShensha(Has(chart, mate), Has(mate, chart))
      BY <2>1 DEF ShenshaInv
    <3> QED
      BY <3>1, ScoreType
  <2>2. CASE stage # "compared"
    BY <2>2 DEF ShenshaInv
  <2> QED
    BY <2>1, <2>2
<1>4. zodiac.score \in {20, 50, 80}
  <2>1. \A relation : ScoreShengxiao(relation) \in {20, 50, 80}
    BY Zenon DEF ScoreShengxiao
  <2> QED
    BY <2>1 DEF ShenshaInv
<1> QED
  BY <1>1, <1>2, <1>3, <1>4 DEF ShenshaTypeOK, ShenshaInv

-----------------------------------------------------------------------------
\* Two signs are a pair of the table in either order.
LEMMA PairsEqual ==
  ASSUME NEW a, NEW b, NEW x, NEW y
  PROVE  {a, b} = {x, y} <=> (a = x /\ b = y) \/ (a = y /\ b = x)
OBVIOUS

\* Signs agree when their numbers add up to one.
LEMMA SixPairs ==
  ASSUME NEW a \in 0..11, NEW b \in 0..11
  PROVE  {a, b} \in Six <=> (a + b) % 12 = 1
<1>1. {a, b} \in Six <=>
        \/ {a, b} = {0, 1} \/ {a, b} = {2, 11} \/ {a, b} = {3, 10}
        \/ {a, b} = {4, 9} \/ {a, b} = {5, 8} \/ {a, b} = {6, 7}
  BY DEF Six
<1>2. {a, b} = {0, 1} <=> (a = 0 /\ b = 1) \/ (a = 1 /\ b = 0)
  BY PairsEqual
<1>3. {a, b} = {2, 11} <=> (a = 2 /\ b = 11) \/ (a = 11 /\ b = 2)
  BY PairsEqual
<1>4. {a, b} = {3, 10} <=> (a = 3 /\ b = 10) \/ (a = 10 /\ b = 3)
  BY PairsEqual
<1>5. {a, b} = {4, 9} <=> (a = 4 /\ b = 9) \/ (a = 9 /\ b = 4)
  BY PairsEqual
<1>6. {a, b} = {5, 8} <=> (a = 5 /\ b = 8) \/ (a = 8 /\ b = 5)
  BY PairsEqual
<1>7. {a, b} = {6, 7} <=> (a = 6 /\ b = 7) \/ (a = 7 /\ b = 6)
  BY PairsEqual
<1>8. (a + b) % 12 = 1 <=>
        \/ (a = 0 /\ b = 1) \/ (a = 1 /\ b = 0)
        \/ (a = 2 /\ b = 11) \/ (a = 11 /\ b = 2)
        \/ (a = 3 /\ b = 10) \/ (a = 10 /\ b = 3)
        \/ (a = 4 /\ b = 9) \/ (a = 9 /\ b = 4)
        \/ (a = 5 /\ b = 8) \/ (a = 8 /\ b = 5)
        \/ (a = 6 /\ b = 7) \/ (a = 7 /\ b = 6)
  OBVIOUS
<1> QED
  BY <1>1, <1>2, <1>3, <1>4, <1>5, <1>6, <1>7, <1>8

\* They clash when they are opposite.
LEMMA ClashPairs ==
  ASSUME NEW a \in 0..11, NEW b \in 0..11
  PROVE  {a, b} \in Clash <=> (a - b) % 12 = 6
<1>1. {a, b} \in Clash <=>
        \/ {a, b} = {0, 6} \/ {a, b} = {1, 7} \/ {a, b} = {2, 8}
        \/ {a, b} = {3, 9} \/ {a, b} = {4, 10} \/ {a, b} = {5, 11}
  BY DEF Clash
<1>2. {a, b} = {0, 6} <=> (a = 0 /\ b = 6) \/ (a = 6 /\ b = 0)
  BY PairsEqual
<1>3. {a, b} = {1, 7} <=> (a = 1 /\ b = 7) \/ (a = 7 /\ b = 1)
  BY PairsEqual
<1>4. {a, b} = {2, 8} <=> (a = 2 /\ b = 8) \/ (a = 8 /\ b = 2)
  BY PairsEqual
<1>5. {a, b} = {3, 9} <=> (a = 3 /\ b = 9) \/ (a = 9 /\ b = 3)
  BY PairsEqual
<1>6. {a, b} = {4, 10} <=> (a = 4 /\ b = 10) \/ (a = 10 /\ b = 4)
  BY PairsEqual
<1>7. {a, b} = {5, 11} <=> (a = 5 /\ b = 11) \/ (a = 11 /\ b = 5)
  BY PairsEqual
<1>8. (a - b) % 12 = 6 <=>
        \/ (a = 0 /\ b = 6) \/ (a = 6 /\ b = 0)
        \/ (a = 1 /\ b = 7) \/ (a = 7 /\ b = 1)
        \/ (a = 2 /\ b = 8) \/ (a = 8 /\ b = 2)
        \/ (a = 3 /\ b = 9) \/ (a = 9 /\ b = 3)
        \/ (a = 4 /\ b = 10) \/ (a = 10 /\ b = 4)
        \/ (a = 5 /\ b = 11) \/ (a = 11 /\ b = 5)
  OBVIOUS
<1> QED
  BY <1>1, <1>2, <1>3, <1>4, <1>5, <1>6, <1>7, <1>8

\* They harm each other when their numbers add up to seven.
LEMMA HarmPairs ==
  ASSUME NEW a \in 0..11, NEW b \in 0..11
  PROVE  {a, b} \in Harm <=> (a + b) % 12 = 7
<1>1. {a, b} \in Harm <=>
        \/ {a, b} = {6, 1} \/ {a, b} = {0, 7} \/ {a, b} = {5, 2}
        \/ {a, b} = {3, 4} \/ {a, b} = {9, 10} \/ {a, b} = {11, 8}
  BY DEF Harm
<1>2. {a, b} = {6, 1} <=> (a = 6 /\ b = 1) \/ (a = 1 /\ b = 6)
  BY PairsEqual
<1>3. {a, b} = {0, 7} <=> (a = 0 /\ b = 7) \/ (a = 7 /\ b = 0)
  BY PairsEqual
<1>4. {a, b} = {5, 2} <=> (a = 5 /\ b = 2) \/ (a = 2 /\ b = 5)
  BY PairsEqual
<1>5. {a, b} = {3, 4} <=> (a = 3 /\ b = 4) \/ (a = 4 /\ b = 3)
  BY PairsEqual
<1>6. {a, b} = {9, 10} <=> (a = 9 /\ b = 10) \/ (a = 10 /\ b = 9)
  BY PairsEqual
<1>7. {a, b} = {11, 8} <=> (a = 11 /\ b = 8) \/ (a = 8 /\ b = 11)
  BY PairsEqual
<1>8. (a + b) % 12 = 7 <=>
        \/ (a = 6 /\ b = 1) \/ (a = 1 /\ b = 6)
        \/ (a = 0 /\ b = 7) \/ (a = 7 /\ b = 0)
        \/ (a = 5 /\ b = 2) \/ (a = 2 /\ b = 5)
        \/ (a = 3 /\ b = 4) \/ (a = 4 /\ b = 3)
        \/ (a = 9 /\ b = 10) \/ (a = 10 /\ b = 9)
        \/ (a = 11 /\ b = 8) \/ (a = 8 /\ b = 11)
  OBVIOUS
<1> QED
  BY <1>1, <1>2, <1>3, <1>4, <1>5, <1>6, <1>7, <1>8

\* They belong to one triad when they are a multiple of four apart.
LEMMA Triads ==
  ASSUME NEW a \in 0..11, NEW b \in 0..11
  PROVE  (\E g \in Three : {a, b} \subseteq g) <=> a % 4 = b % 4
BY SMTT(30) DEF Three

\* The relation of two signs by arithmetic: no two of its rules meet.
LEMMA RelationByRule ==
  ASSUME NEW a \in 0..11, NEW b \in 0..11
  PROVE  /\ Relation(a, b) = "SAME" <=> a = b
         /\ Relation(a, b) = "LIUHE" <=> (a + b) % 12 = 1
         /\ Relation(a, b) = "SANHE" <=> a # b /\ a % 4 = b % 4
         /\ Relation(a, b) = "LIUCHONG" <=> (a - b) % 12 = 6
         /\ Relation(a, b) = "LIUHAI" <=> (a + b) % 12 = 7
         /\ Relation(a, b) \in {"SAME", "LIUHE", "SANHE", "LIUCHONG", "LIUHAI", "NEUTRAL"}
<1> DEFINE same == a = b
           six == {a, b} \in Six
           three == \E g \in Three : {a, b} \subseteq g
           clash == {a, b} \in Clash
           harm == {a, b} \in Harm
<1>1. /\ same => ~six /\ ~clash /\ ~harm
      /\ six => ~three /\ ~clash /\ ~harm
      /\ three => ~clash /\ ~harm
      /\ clash => ~harm
  <2>1. /\ six <=> (a + b) % 12 = 1
        /\ three <=> a % 4 = b % 4
        /\ clash <=> (a - b) % 12 = 6
        /\ harm <=> (a + b) % 12 = 7
    BY SixPairs, Triads, ClashPairs, HarmPairs
  <2>2. /\ a = b => (a + b) % 12 # 1 /\ (a - b) % 12 # 6 /\ (a + b) % 12 # 7
        /\ (a + b) % 12 = 1 => a % 4 # b % 4 /\ (a - b) % 12 # 6 /\ (a + b) % 12 # 7
        /\ a % 4 = b % 4 => (a - b) % 12 # 6 /\ (a + b) % 12 # 7
        /\ (a - b) % 12 = 6 => (a + b) % 12 # 7
    OBVIOUS
  <2> HIDE DEF six, three, clash, harm
  <2> QED
    BY <2>1, <2>2
<1>2. /\ same => Relation(a, b) = "SAME"
      /\ six => Relation(a, b) = "LIUHE"
      /\ ~same /\ three => Relation(a, b) = "SANHE"
      /\ clash => Relation(a, b) = "LIUCHONG"
      /\ harm => Relation(a, b) = "LIUHAI"
      /\ ~same /\ ~six /\ ~three /\ ~clash /\ ~harm => Relation(a, b) = "NEUTRAL"
  BY <1>1, ZenonT(60) DEF Relation
<1> HIDE DEF same, six, three, clash, harm
<1>3. /\ Relation(a, b) = "SAME" <=> same
      /\ Relation(a, b) = "LIUHE" <=> six
      /\ Relation(a, b) = "SANHE" <=> ~same /\ three
      /\ Relation(a, b) = "LIUCHONG" <=> clash
      /\ Relation(a, b) = "LIUHAI" <=> harm
      /\ Relation(a, b) \in {"SAME", "LIUHE", "SANHE", "LIUCHONG", "LIUHAI", "NEUTRAL"}
  BY <1>1, <1>2
<1> QED
  BY <1>3, SixPairs, Triads, ClashPairs, HarmPairs DEF same, six, three, clash, harm

\* Who is related to whom does not depend on who asks.
LEMMA RelationIsSymmetric ==
  ASSUME NEW a \in 0..11, NEW b \in 0..11
  PROVE  Relation(a, b) = Relation(b, a)
<1>1. /\ (a + b) % 12 = (b + a) % 12
      /\ (a - b) % 12 = 6 <=> (b - a) % 12 = 6
      /\ a = b <=> b = a
      /\ (a # b /\ a % 4 = b % 4) <=> (b # a /\ b % 4 = a % 4)
  OBVIOUS
<1>2. /\ Relation(b, a) = "SAME" <=> b = a
      /\ Relation(b, a) = "LIUHE" <=> (b + a) % 12 = 1
      /\ Relation(b, a) = "SANHE" <=> b # a /\ b % 4 = a % 4
      /\ Relation(b, a) = "LIUCHONG" <=> (b - a) % 12 = 6
      /\ Relation(b, a) = "LIUHAI" <=> (b + a) % 12 = 7
      /\ Relation(b, a) \in {"SAME", "LIUHE", "SANHE", "LIUCHONG", "LIUHAI", "NEUTRAL"}
  BY RelationByRule
<1>3. /\ Relation(a, b) = "SAME" <=> a = b
      /\ Relation(a, b) = "LIUHE" <=> (a + b) % 12 = 1
      /\ Relation(a, b) = "SANHE" <=> a # b /\ a % 4 = b % 4
      /\ Relation(a, b) = "LIUCHONG" <=> (a - b) % 12 = 6
      /\ Relation(a, b) = "LIUHAI" <=> (a + b) % 12 = 7
      /\ Relation(a, b) \in {"SAME", "LIUHE", "SANHE", "LIUCHONG", "LIUHAI", "NEUTRAL"}
  BY RelationByRule
<1>4. \A r \in {"SAME", "LIUHE", "SANHE", "LIUCHONG", "LIUHAI"} :
        Relation(a, b) = r <=> Relation(b, a) = r
  BY <1>1, <1>2, <1>3
<1> QED
  BY <1>2, <1>3, <1>4

\* Nor do the scores.
LEMMA ScoresAreMutual == ShenshaInv => ScoreIsMutual
<1> SUFFICES ASSUME ShenshaInv, stage = "compared"
             PROVE  /\ score = ScoreShensha(Has(mate, chart), Has(chart, mate))
                    /\ zodiac.relation = Relation(YearBranch(mate), YearBranch(chart))
  BY DEF ScoreIsMutual
<1>1. /\ chart \in SomeChart /\ mate \in SomeChart
      /\ score = ScoreShensha(Has(chart, mate), Has(mate, chart))
      /\ zodiac.relation = Relation(YearBranch(chart), YearBranch(mate))
  BY DEF ShenshaInv
<1> QED
  BY <1>1, ScoreType, PillarNumbers, RelationIsSymmetric

\* Six different things.
LEMMA SixDiffer ==
  ASSUME NEW a, NEW b, NEW c, NEW d, NEW e, NEW f,
         a # b /\ a # c /\ a # d /\ a # e /\ a # f,
         b # c /\ b # d /\ b # e /\ b # f,
         c # d /\ c # e /\ c # f,
         d # e /\ d # f, e # f
  PROVE  Cardinality({a, b, c, d, e, f}) = 6
<1>1. IsFiniteSet({a}) /\ Cardinality({a}) = 1
  BY FS_Singleton
<1>2. IsFiniteSet({a} \cup {b}) /\ Cardinality({a} \cup {b}) = 2
  BY <1>1, FS_AddElement
<1>3. IsFiniteSet({a} \cup {b} \cup {c}) /\ Cardinality({a} \cup {b} \cup {c}) = 3
  BY <1>2, FS_AddElement
<1>4. IsFiniteSet({a} \cup {b} \cup {c} \cup {d}) /\ Cardinality({a} \cup {b} \cup {c} \cup {d}) = 4
  BY <1>3, FS_AddElement
<1>5. /\ IsFiniteSet({a} \cup {b} \cup {c} \cup {d} \cup {e})
      /\ Cardinality({a} \cup {b} \cup {c} \cup {d} \cup {e}) = 5
  BY <1>4, FS_AddElement
<1>6. Cardinality({a} \cup {b} \cup {c} \cup {d} \cup {e} \cup {f}) = 6
  BY <1>5, FS_AddElement
<1>7. {a, b, c, d, e, f} = {a} \cup {b} \cup {c} \cup {d} \cup {e} \cup {f}
  OBVIOUS
<1> QED
  BY <1>6, <1>7

\* The signs in each relation to a sign.
LEMMA SignsRelated ==
  ASSUME NEW z \in 0..11, NEW y \in 0..11
  PROVE  /\ (z + y) % 12 = 1 <=> y = (1 - z) % 12
         /\ (z # y /\ z % 4 = y % 4) <=> y \in {(z + 4) % 12, (z + 8) % 12}
         /\ (z - y) % 12 = 6 <=> y = (z + 6) % 12
         /\ (z + y) % 12 = 7 <=> y = (7 - z) % 12
OBVIOUS

\* The other six.
LEMMA SignsUnrelated ==
  ASSUME NEW z \in 0..11, NEW y \in 0..11
  PROVE  (/\ z # y /\ (z + y) % 12 # 1 /\ z % 4 # y % 4
          /\ (z - y) % 12 # 6 /\ (z + y) % 12 # 7)
           <=> y \in {(z + 2) % 12, (z + 10) % 12, (3 - z) % 12, (5 - z) % 12, (9 - z) % 12,
                       (11 - z) % 12}
BY SMTT(60)

\* So each relation has as many signs as it should.
LEMMA RelationsExclude == ShenshaInv => RelationsAreExclusive
<1> SUFFICES ASSUME ShenshaInv PROVE RelationsAreExclusive
  OBVIOUS
<1> DEFINE z == YearBranch(chart)
           with(r) == {y \in 0..11 : Relation(z, y) = r}
<1>1. z \in 0..11
  BY PillarNumbers DEF ShenshaInv
<1> HIDE DEF z
<1>2. with("LIUHE") = {(1 - z) % 12}
  BY <1>1, RelationByRule, SignsRelated
<1>3. with("SANHE") = {(z + 4) % 12} \cup {(z + 8) % 12} /\ (z + 4) % 12 # (z + 8) % 12
  BY <1>1, RelationByRule, SignsRelated
<1>4. with("LIUCHONG") = {(z + 6) % 12}
  BY <1>1, RelationByRule, SignsRelated
<1>5. with("LIUHAI") = {(7 - z) % 12}
  BY <1>1, RelationByRule, SignsRelated
<1>6. with("NEUTRAL") = {(z + 2) % 12, (z + 10) % 12, (3 - z) % 12, (5 - z) % 12, (9 - z) % 12,
                         (11 - z) % 12}
  BY <1>1, RelationByRule, SignsUnrelated
<1>7. Cardinality(with("NEUTRAL")) = 6
  <2>1. PICK a, b, c, d, e, f : /\ a = (z + 2) % 12 /\ b = (z + 10) % 12 /\ c = (3 - z) % 12
                                /\ d = (5 - z) % 12 /\ e = (9 - z) % 12 /\ f = (11 - z) % 12
    OBVIOUS
  <2>2. /\ a # b /\ a # c /\ a # d /\ a # e /\ a # f
        /\ b # c /\ b # d /\ b # e /\ b # f
        /\ c # d /\ c # e /\ c # f
        /\ d # e /\ d # f /\ e # f
    BY <1>1, <2>1
  <2>3. Cardinality({a, b, c, d, e, f}) = 6
    BY <2>2, SixDiffer
  <2> HIDE DEF with
  <2> QED
    BY <1>6, <2>1, <2>3, Zenon
<1>8. Cardinality(with("SANHE")) = 2
  <2>1. IsFiniteSet({(z + 4) % 12}) /\ Cardinality({(z + 4) % 12}) = 1
    BY FS_Singleton
  <2>2. (z + 8) % 12 \notin {(z + 4) % 12}
    BY <1>3
  <2> HIDE DEF with
  <2>3. Cardinality({(z + 4) % 12} \cup {(z + 8) % 12}) = 1 + 1
    BY <2>1, <2>2, FS_AddElement, Zenon
  <2>4. 1 + 1 = 2
    OBVIOUS
  <2> QED
    BY <1>3, <2>3, <2>4, Zenon
<1>9. Cardinality(with("LIUHE")) = 1 /\ Cardinality(with("LIUCHONG")) = 1
      /\ Cardinality(with("LIUHAI")) = 1
  BY <1>2, <1>4, <1>5, FS_Singleton
<1> QED
  BY <1>7, <1>8, <1>9 DEF RelationsAreExclusive, z

\* The stars of any chart follow the cycle.
LEMMA ShenshaIsSound == ShenshaInv => StarsFollowTheCycle
BY ShenshaTypes, TriadStarsSit, YearStarsSit, StemStarsSit, BadDays, ScoresAreMutual,
   RelationsExclude DEF StarsFollowTheCycle

-----------------------------------------------------------------------------
(***************************************************************************)
(* The three engines side by side: one makes its chart, the others rest.   *)
(***************************************************************************)

ChartsInv == GuaInv /\ ZwdsInv /\ ShenshaInv

\* A chart, or none, is begun.
LEMMA ChartsBegin == ChartsInit => ChartsInv
BY EnginesAssumption, GuaInit, ZwdsInit, ShenshaInit
   DEF ChartsInit, NobodyThrows, NobodyBorn, NoPillars, ChartsInv

\* The engine that makes its chart leaves those of the others alone.
LEMMA ChartsGoOn ==
  ASSUME ChartsInv, [ChartsNext]_<<part, vars, guaVars, zwdsVars>>
  PROVE  ChartsInv'
<1>1. [H!Next]_guaVars /\ [Z!Next]_zwdsVars /\ [Next]_vars
  BY DEF ChartsNext
<1> QED
  BY <1>1, EnginesAssumption, GuaStep, ZwdsStep, ShenshaStep DEF ChartsInv

\* Whatever is thrown on whatever day, the hexagrams named are those that were
\* thrown, their palaces, generations, shi and ying lines are those of the rule
\* of the eight palaces, every relative is found once among the lines and the
\* hidden ones, and the void branches are those the decade leaves out
\* (najia.py, GuaGenerator).
THEOREM HexagramsAreSound == ChartsSpec => []HexagramsFollowThePalaces
<1>1. ChartsInv => HexagramsFollowThePalaces
  BY GuaIsSound DEF ChartsInv
<1> QED
  BY <1>1, ChartsBegin, ChartsGoOn, PTL DEF ChartsSpec

\* Whatever the birth, the tables agree with the rules they tabulate, stars keep
\* their pairs, no palace is read without a main star, the ten years of a target
\* year contain it or begin with the next, and between any two charts exactly
\* the flights between palaces of one name are told, of which there always is
\* one (zwds/basic.py, Chart).
THEOREM ZwdsChartsAreSound == ChartsSpec => []StarsStandByTheRules
<1>1. ChartsInv => StarsStandByTheRules
  BY ZwdsIsSound, EnginesAssumption DEF ChartsInv
<1> QED
  BY <1>1, ChartsBegin, ChartsGoOn, PTL DEF ChartsSpec

\* Whatever the pillars, the stars of a chart follow the triads, the branch of
\* the year and the stem of the day, no day is void to itself, and the scores
\* and the relation of two people are the same from either side (shensha.py,
\* bazi_chart_analyse_frame.py).
THEOREM StarsAreSound == ChartsSpec => []StarsFollowTheCycle
<1>1. ChartsInv => StarsFollowTheCycle
  BY ShenshaIsSound DEF ChartsInv
<1> QED
  BY <1>1, ChartsBegin, ChartsGoOn, PTL DEF ChartsSpec
=============================================================================
