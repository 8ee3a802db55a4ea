------------------------------- MODULE Shensha -------------------------------
(***************************************************************************)
(* The stars (shensha) of a BaZi chart: bazi/analysis/shensha/shensha.py,  *)
(* shensha_analyser.py, the star queries and scores of                     *)
(* bazi_chart_analyse_frame.py, and the zodiac compatibility.              *)
(*                                                                         *)
(* A pillar is its number 0..59 in the cycle of sixty; its stem (0 is jia) *)
(* and its branch (0 is zi) are the remainders by 10 and 12.  A chart is   *)
(* the sequence of its year, month and day pillars and, when the time is   *)
(* known, its hour pillar.                                                 *)
(*                                                                         *)
(* Every star is a class with two methods that carry two copies of one     *)
(* table: is_present lists the pillars of a chart that have the star, and  *)
(* is_present_in_zhu asks whether another pillar (of a year, a day, or of  *)
(* another person's chart) has it.  The second is the operator with the    *)
(* name of the class; the first, where it differs, is OnPillar.            *)
(***************************************************************************)
EXTENDS Integers, Sequences, FiniteSets

CONSTANTS
  Charts,    \* charts that are analysed
  Mates,     \* charts they are compared with
  Queried    \* pillars of years, months, days and hours that are asked about

VARIABLES
  chart,     \* the chart
  stage,     \* what was asked last
  found,     \* analyse(): for each pillar, how often each star is listed
  answer,    \* search_shensha_enum_in_zhu(): the stars of a pillar
  mate,      \* the other chart
  views,     \* analyse_compatibility(): who has whose stars
  score,     \* the shensha component of the compatibility score
  zodiac     \* the relation of the two signs

vars == <<chart, stage, found, answer, mate, views, score, zodiac>>

Pillars == 0..59

ChartsAssumption ==
  /\ Charts \cup Mates \subseteq [1..3 -> Pillars] \cup [1..4 -> Pillars]
  /\ Queried \subseteq Pillars

Stem(p) == p % 10
Branch(p) == p % 12
At(z, table) == table[z + 1]

YearStem(c) == Stem(c[1])
YearBranch(c) == Branch(c[1])
MonthBranch(c) == Branch(c[2])
DayStem(c) == Stem(c[3])
DayBranch(c) == Branch(c[3])

\* Nayin, the element of a pair of pillars, is a member of an enumeration.
Nayin(p) ==
  [class |-> "Nayin",
   element |-> At(p \div 2, <<"jin", "huo", "mu", "tu", "jin", "huo", "shui", "tu", "jin", "mu",
                              "shui", "tu", "huo", "mu", "shui", "jin", "huo", "mu", "tu", "jin",
                              "huo", "shui", "tu", "jin", "mu", "shui", "tu", "huo", "mu", "shui">>)]

\* The tables of stars by nayin have names, strings, as their keys.
Named(e) == [class |-> "str", element |-> e]

-----------------------------------------------------------------------------
(* is_present_in_zhu of each class: pillar p has the star in chart c.      *)
(* An operator marked "faulty" is the one below it with a plausible bug.   *)

Guchen(c, p) == Branch(p) = At(YearBranch(c), <<2, 2, 5, 5, 5, 8, 8, 8, 11, 11, 11, 2>>)
Guasu(c, p) == Branch(p) = At(YearBranch(c), <<10, 10, 1, 1, 1, 4, 4, 4, 7, 7, 7, 10>>)
HongluanSlip(c, p) ==                                              \* faulty
  Branch(p) = At(YearBranch(c), <<3, 2, 1, 0, 11, 10, 9, 8, 7, 5, 6, 4>>)
Hongluan(c, p) == Branch(p) = At(YearBranch(c), <<3, 2, 1, 0, 11, 10, 9, 8, 7, 6, 5, 4>>)
Tianxi(c, p) == Branch(p) = At(YearBranch(c), <<9, 8, 7, 6, 5, 4, 3, 2, 1, 0, 11, 10>>)

\* A month seeks a stem in two of three cases, a branch in the third.
Tiandeguiren(c, p) ==
  CASE MonthBranch(c) \in {0, 3, 6, 9} -> Branch(p) = At(MonthBranch(c) \div 3, <<5, 8, 11, 2>>)
    [] OTHER -> Stem(p) = At(MonthBranch(c), <<-1, 6, 3, -1, 8, 7, -1, 0, 9, -1, 2, 1>>)
Yuede(c, p) == Stem(p) = At(MonthBranch(c), <<8, 6, 2, 0, 8, 6, 2, 0, 8, 6, 2, 0>>)

Tianyi(c, p) ==
  Branch(p) \in At(DayStem(c), <<{1, 7}, {0, 8}, {9, 11}, {9, 11}, {1, 7}, {0, 8},
                                 {2, 6}, {2, 6}, {3, 5}, {3, 5}>>)
Wenchang(c, p) == Branch(p) = At(DayStem(c), <<5, 6, 8, 9, 8, 9, 11, 0, 2, 3>>)
\* No table entry for the stems of yin.
Yangren(c, p) == Branch(p) = At(DayStem(c), <<3, -1, 6, -1, 6, -1, 9, -1, 0, -1>>)
Lushen(c, p) == Branch(p) = At(DayStem(c), <<2, 3, 5, 6, 5, 6, 8, 9, 11, 0>>)
Hongyan(c, p) == Branch(p) = At(DayStem(c), <<6, 8, 2, 7, 4, 4, 8, 9, 0, 10>>)

Jiangxing(c, p) == Branch(p) = At(DayBranch(c), <<9, 6, 3, 0, 9, 6, 3, 0, 9, 6, 3, 0>>)
Huagai(c, p) == Branch(p) = At(DayBranch(c), <<4, 1, 10, 7, 4, 1, 10, 7, 4, 1, 10, 7>>)
Yima(c, p) == Branch(p) = At(DayBranch(c), <<2, 11, 8, 5, 2, 11, 8, 5, 2, 11, 8, 5>>)
Jiesha(c, p) == Branch(p) = At(DayBranch(c), <<5, 2, 11, 8, 5, 2, 11, 8, 5, 2, 11, 8>>)
Wangshen(c, p) == Branch(p) = At(DayBranch(c), <<11, 8, 5, 2, 11, 8, 5, 2, 11, 8, 5, 2>>)
Taohua(c, p) == Branch(p) = At(DayBranch(c), <<9, 6, 3, 0, 9, 6, 3, 0, 9, 6, 3, 0>>)

\* Stars sought by the year's stem and by the day's.
Stems(c) == <<YearStem(c), DayStem(c)>>

TaijiBranches(g) == At(g, <<{0, 7}, {0, 6}, {3, 9}, {3, 9}, {1, 4, 7, 10}, {1, 4, 7, 10},
                            {2, 11}, {2, 11}, {5, 8}, {5, 8}>>)
Taijiguiren(c, p) == \E k \in 1..2 : Branch(p) \in TaijiBranches(Stems(c)[k])

\* getDayXunKong of the calendar library: the two branches that the ten days
\* around the day leave out.
DayVoid(day) == LET first == Branch(day - (day % 10)) IN {(first + 10) % 12, (first + 11) % 12}
Kongwang(c, p) == Branch(p) \in DayVoid(c[3])

FuxingBranches(g) == At(g, <<{0, 2}, {1, 3}, {0, 2}, {11}, {8}, {7}, {6}, {5}, {4}, {1, 3}>>)
FuxingGuiren(c, p) == \E k \in 1..2 : Branch(p) \in FuxingBranches(Stems(c)[k])

\* By the stem of the pillar that is asked about, not by those of the chart.
GuoyinBranch(g) == At(g, <<10, 11, 1, 2, 1, 2, 4, 5, 7, 8>>)
GuoyinGuiren(c, p) == Branch(p) = GuoyinBranch(Stem(p))
JinyuBranch(g) == At(g, <<4, 5, 7, 8, 7, 8, 10, 11, 1, 2>>)
Jinyu(c, p) == Branch(p) = JinyuBranch(Stem(p))

De(c) == At(MonthBranch(c) % 4, <<{4, 5, 8, 9}, {6, 7}, {2, 3}, {0, 1}>>)
Xiu(c) == At(MonthBranch(c) % 4, <<{0, 2, 5, 7}, {1, 6}, {4, 9}, {3, 8}>>)
DexiuGuiren(c, p) == Stem(p) \in De(c) \cup Xiu(c)

\* The branch that a star of the nayin is at, by the name of the element.
BirthOf(e) == [jin |-> 5, mu |-> 11, shui |-> 8, tu |-> 8, huo |-> 2][e]
Elements == {"jin", "mu", "shui", "huo", "tu"}
Xuetang(c, p) ==
  \E e \in Elements : Nayin(c[1]) = Named(e) /\ Branch(p) = BirthOf(e)

CiguanPillar(g) == At(g, <<<<6, 2>>, <<7, 3>>, <<1, 5>>, <<4, 6>>, <<3, 5>>,
                           <<6, 6>>, <<8, 8>>, <<9, 9>>, <<9, 11>>, <<8, 10>>>>)
Ciguan(c, p) == \E k \in 1..2 : <<Stem(p), Branch(p)>> = CiguanPillar(Stems(c)[k])

TianchuBranch(g) == At(g, <<5, 6, 0, 5, 6, 8, 2, 6, 9, 11>>)
TianchuGuiren(c, p) == \E k \in 1..2 : Branch(p) = TianchuBranch(Stems(c)[k])

Zaisha(c, p) == Branch(p) = At(YearBranch(c), <<6, 3, 0, 9, 6, 3, 0, 9, 6, 3, 0, 9>>)
Tianyii(c, p) == Branch(p) = At(MonthBranch(c), <<11, 0, 1, 2, 3, 4, 5, 6, 7, 8, 9, 10>>)

\* The five rules for children of the temple, by season and by nayin.
TongziRule(c, z) ==
  \/ MonthBranch(c) \in {2, 3, 4, 8, 9, 10} /\ z \in {0, 2}
  \/ MonthBranch(c) \in {11, 0, 1, 5, 6, 7} /\ z \in {3, 4, 7}
  \/ Nayin(c[1]) \in {Named("jin"), Named("mu")} /\ z \in {3, 6}
  \/ Nayin(c[1]) \in {Named("shui"), Named("huo")} /\ z \in {9, 10}
  \/ Nayin(c[1]) = Named("tu") /\ z \in {4, 5}
Tongzi(c, p) ==
  /\ \E i \in 3..Len(c) : Branch(c[i]) = Branch(p)
  /\ TongziRule(c, Branch(p))

\* Stars of the day pillar, and of three stems in a row: is_present_in_zhu is
\* constantly false.
Kuigang(c) == <<DayStem(c), DayBranch(c)>> \in {<<8, 4>>, <<6, 10>>, <<6, 4>>, <<4, 10>>}
Bazhuan(c) ==
  <<DayStem(c), DayBranch(c)>> \in {<<0, 2>>, <<1, 3>>, <<4, 7>>, <<5, 7>>,
                                    <<6, 8>>, <<7, 9>>, <<4, 10>>, <<9, 1>>}
Yinchayancuo(c) ==
  <<DayStem(c), DayBranch(c)>> \in
    {<<2, 0>>, <<3, 1>>, <<4, 2>>, <<7, 3>>, <<8, 4>>, <<9, 5>>,
     <<2, 6>>, <<3, 7>>, <<4, 8>>, <<7, 9>>, <<8, 10>>, <<9, 11>>}
ShieDabai(c) ==
  <<DayStem(c), DayBranch(c)>> \in
    {<<0, 4>>, <<1, 5>>, <<2, 8>>, <<3, 11>>, <<4, 10>>,
     <<5, 1>>, <<6, 4>>, <<7, 5>>, <<8, 8>>, <<9, 11>>}

Wonders == {<<0, 4, 6>>, <<1, 2, 3>>, <<8, 9, 7>>}
SanqiGuiren(c, i) ==
  \E first \in 1..(Len(c) - 2) :
    /\ i \in first..(first + 2)
    /\ <<Stem(c[first]), Stem(c[first + 1]), Stem(c[first + 2])>> \in Wonders

-----------------------------------------------------------------------------
(* search_shensha_enum_in_zhu, over the list of instances.                 *)

InZhu(c, p) ==
  LET has == [Guchen |-> Guchen(c, p), Guasu |-> Guasu(c, p), Hongluan |-> Hongluan(c, p),
              Tianxi |-> Tianxi(c, p), Tiandeguiren |-> Tiandeguiren(c, p),
              Yuede |-> Yuede(c, p), Tianyi |-> Tianyi(c, p), Wenchang |-> Wenchang(c, p),
              Yangren |-> Yangren(c, p), Lushen |-> Lushen(c, p), Hongyan |-> Hongyan(c, p),
              Jiangxing |-> Jiangxing(c, p), Huagai |-> Huagai(c, p), Yima |-> Yima(c, p),
              Jiesha |-> Jiesha(c, p), Wangshen |-> Wangshen(c, p), Taohua |-> Taohua(c, p),
              Taijiguiren |-> Taijiguiren(c, p), Kongwang |-> Kongwang(c, p),
              FuxingGuiren |-> FuxingGuiren(c, p), GuoyinGuiren |-> GuoyinGuiren(c, p),
              DexiuGuiren |-> DexiuGuiren(c, p), Xuetang |-> Xuetang(c, p),
              Ciguan |-> Ciguan(c, p), TianchuGuiren |-> TianchuGuiren(c, p),
              Jinyu |-> Jinyu(c, p), Zaisha |-> Zaisha(c, p), Tongzi |-> Tongzi(c, p),
              Tianyii |-> Tianyii(c, p)]
  IN {s \in DOMAIN has : has[s]}

OfTheDay(c) ==
  (IF Kuigang(c) THEN {"Kuigang"} ELSE {})
    \cup (IF Bazhuan(c) THEN {"Bazhuan"} ELSE {})
    \cup (IF Yinchayancuo(c) THEN {"Yinchayancuo"} ELSE {})
    \cup (IF ShieDabai(c) THEN {"ShieDabai"} ELSE {})

\* Both a stem of de and one of xiu are among the stems of chart d.
DexiuIn(c, d) ==
  LET stems == {Stem(d[i]) : i \in DOMAIN d}
  IN stems \cap De(c) # {} /\ stems \cap Xiu(c) # {}

\* The stars whose is_present differs from is_present_in_zhu.
OnPillar(c, i) ==
  {s \in InZhu(c, c[i]) \ {"GuoyinGuiren", "Jinyu"} :
     /\ s = "Huagai" => i # 3
     /\ s = "DexiuGuiren" => DexiuIn(c, c)
     /\ s = "Tongzi" => i >= 3}
    \cup (IF \E k \in 1..2 : Branch(c[i]) = GuoyinBranch(Stems(c)[k])
            THEN {"GuoyinGuiren"} ELSE {})
    \cup (IF Branch(c[i]) = JinyuBranch(DayStem(c)) THEN {"Jinyu"} ELSE {})
    \cup (IF SanqiGuiren(c, i) THEN {"SanqiGuiren"} ELSE {})
    \cup (IF i = 3 THEN OfTheDay(c) ELSE {})

\* How often analyse() lists star s on pillar i: the loop over the two stems
\* adds the pillar once for each that hits, a loop over a table once for each
\* entry that does.
Times(c, i, s) ==
  CASE s = "Taijiguiren"  -> Cardinality({k \in 1..2 : Branch(c[i]) \in TaijiBranches(Stems(c)[k])})
    [] s = "Ciguan"       -> Cardinality({k \in 1..2 :
                               <<Stem(c[i]), Branch(c[i])>> = CiguanPillar(Stems(c)[k])})
    [] s = "GuoyinGuiren" -> Cardinality({g \in {YearStem(c), DayStem(c)} :
                               Branch(c[i]) = GuoyinBranch(g)})
    [] OTHER              -> 1

-----------------------------------------------------------------------------
(* Compatibility.                                                          *)

\* The entries <<pillar, star>>: pillar i of chart d has a star of chart c.
\* Dexiu asks for both of its stems in d.
Has(d, c) ==
  UNION {{i} \X {s \in InZhu(c, d[i]) : s = "DexiuGuiren" => DexiuIn(c, d)} : i \in DOMAIN d}

Positive == {"Tianyi", "Tianyii", "Taijiguiren", "Tiandeguiren", "Yuede", "Hongluan", "Tianxi", "Taohua"}
Negative == {"Hongyan", "Jiesha", "Wangshen", "Guchen", "Guasu"}

Clamp(x) == IF x < 0 THEN 0 ELSE IF x > 100 THEN 100 ELSE x

Counted(entries, names) == Cardinality({e \in entries : e[2] \in names})
ScoreShensha(ofA, ofB) ==
  Clamp(50 + 20 * (Counted(ofA, Positive) + Counted(ofB, Positive))
           - 20 * (Counted(ofA, Negative) + Counted(ofB, Negative)))

\* ZodiacCompatibilityAnalyser: the first relation that holds.
Six == {{0, 1}, {2, 11}, {3, 10}, {4, 9}, {5, 8}, {6, 7}}
Three == {{8, 0, 4}, {11, 3, 7}, {2, 6, 10}, {5, 9, 1}}
Harm == {{6, 1}, {0, 7}, {5, 2}, {3, 4}, {9, 10}, {11, 8}}
Clash == {{0, 6}, {1, 7}, {2, 8}, {3, 9}, {4, 10}, {5, 11}}

Relation(a, b) ==
  CASE a = b                             -> "SAME"
    [] a # b /\ {a, b} \in Six           -> "LIUHE"
    [] a # b /\ \E g \in Three : {a, b} \subseteq g -> "SANHE"
    [] {a, b} \in Clash                  -> "LIUCHONG"
    [] {a, b} \in Harm                   -> "LIUHAI"
    [] OTHER                             -> "NEUTRAL"

ScoreShengxiao(relation) ==
  CASE relation \in {"LIUHE", "SANHE"}     -> 80
    [] relation \in {"LIUCHONG", "LIUHAI"} -> 20
    [] OTHER                               -> 50

-----------------------------------------------------------------------------

Init ==
  /\ chart \in Charts
  /\ stage = "cast"
  /\ found = <<>>
  /\ answer = [pillar |-> 0, stars |-> {}]
  /\ mate = <<>>
  /\ views = <<{}, {}>>
  /\ score = 50
  /\ zodiac = [relation |-> "NEUTRAL", score |-> 50]

Analyse ==
  /\ stage = "cast"
  /\ stage' = "analysed"
  /\ found' = [i \in DOMAIN chart |-> [s \in OnPillar(chart, i) |-> Times(chart, i, s)]]
  /\ UNCHANGED <<chart, answer, mate, views, score, zodiac>>

\* query_shensha_for_datetime and the runs of years ask about one pillar after another.
Query(p) ==
  /\ stage = "analysed"
  /\ stage' = "queried"
  /\ answer' = [pillar |-> p, stars |-> InZhu(chart, p)]
  /\ UNCHANGED <<chart, found, mate, views, score, zodiac>>

\* get_compatibility_analysis
Compare(m) ==
  /\ stage = "analysed"
  /\ stage' = "compared"
  /\ mate' = m
  /\ views' = <<Has(chart, m), Has(m, chart)>>
  /\ score' = ScoreShensha(views'[1], views'[2])
  /\ LET relation == Relation(YearBranch(chart), YearBranch(m))
     IN zodiac' = [relation |-> relation, score |-> ScoreShengxiao(relation)]
  /\ UNCHANGED <<chart, found, answer>>

Next ==
  \/ Analyse
  \/ \E p \in Queried : Query(p)
  \/ \E m \in Mates : Compare(m)

Spec == Init /\ [][Next]_vars

-----------------------------------------------------------------------------

Listed(i, s) == s \in DOMAIN found[i]
DayStars == {"Kuigang", "Bazhuan", "Yinchayancuo", "ShieDabai"}
TwoStems == {"Taijiguiren", "Ciguan", "GuoyinGuiren"}

\* Pillars, counts and scores are in range; a star of the day is listed on
\* the day pillar only, and only a star sought by two stems is listed twice.
ShenshaTypeOK ==
  /\ stage \in {"cast", "analysed", "queried", "compared"}
  /\ stage # "cast" => DOMAIN found = DOMAIN chart
  /\ \A i \in DOMAIN found :
       \A s \in DOMAIN found[i] :
         /\ found[i][s] \in 1..2
         /\ found[i][s] = 2 => s \in TwoStems
         /\ s \in DayStars => i = 3
  /\ answer.pillar \in Pillars
  /\ score \in 0..100
  /\ zodiac.score \in {20, 50, 80}

\* The twelve branches form four triads (1, 5, 9 and so on).  Seven stars,
\* each a table of twelve entries, sit at a fixed distance from the birth
\* place of the triad of the day's branch, or of the year's for Zaisha.
Birth(z) == (8 + 9 * (z % 4)) % 12
Sits(i, s, place) == Listed(i, s) <=> Branch(chart[i]) = place % 12
TriadStars ==
  \A i \in DOMAIN found :
    /\ Sits(i, "Taohua", Birth(DayBranch(chart)) + 1)
    /\ Sits(i, "Wangshen", Birth(DayBranch(chart)) + 3)
    /\ Sits(i, "Yima", Birth(DayBranch(chart)) + 6)
    /\ Sits(i, "Jiesha", Birth(DayBranch(chart)) + 9)
    /\ Sits(i, "Zaisha", Birth(YearBranch(chart)) + 10)
    /\ i # 3 => Sits(i, "Huagai", Birth(DayBranch(chart)) + 8)

\* The stars of the year's branch: Hongluan walks backwards from mao, Tianxi
\* is opposite to it, Guchen and Guasu enclose the season of the branch.
StarsOfTheYear ==
  \A i \in DOMAIN found :
    LET z == YearBranch(chart)
        season == 3 * (((z + 1) % 12) \div 3)
    IN /\ Sits(i, "Hongluan", 15 - z)
       /\ Sits(i, "Tianxi", 21 - z)
       /\ Sits(i, "Guchen", season + 2)
       /\ Sits(i, "Guasu", season + 10)

\* A stem's Lushen is where its element is in office; Yangren (of the stems
\* of yang), Jinyu and Wenchang follow it at distances of one, two and three.
Office(g) == <<2, 5, 5, 8, 11>>[(g \div 2) + 1] + (g % 2)
StarsOfTheDayStem ==
  \A i \in DOMAIN found :
    LET lu == Office(DayStem(chart))
    IN /\ Sits(i, "Lushen", lu)
       /\ IF DayStem(chart) % 2 = 0 THEN Sits(i, "Yangren", lu + 1) ELSE ~Listed(i, "Yangren")
       /\ Sits(i, "Jinyu", lu + 2)
       /\ Sits(i, "Wenchang", lu + 3)

\* Three tables and the calendar agree: the ten bad days (ShieDabai) are the
\* days whose stem has its Lushen in a branch that is void on that day; and
\* the day's own branch is never void.
BadDaysAreVoid ==
  stage # "cast" =>
    /\ Listed(3, "ShieDabai") <=> Office(DayStem(chart)) % 12 \in DayVoid(chart[3])
    /\ ~Listed(3, "Kongwang")

\* Comparing a with b or b with a gives the same scores and the same relation
\* of signs: the result does not depend on whose chart was cast first.
ScoreIsMutual ==
  stage = "compared" =>
    /\ score = ScoreShensha(Has(mate, chart), Has(chart, mate))
    /\ zodiac.relation = Relation(YearBranch(mate), YearBranch(chart))

\* Each sign agrees with one other, belongs to one triad, clashes with one and
\* harms one, so that the order in which the relations are tried is immaterial.
RelationsAreExclusive ==
  LET z == YearBranch(chart)
      with(r) == {y \in 0..11 : Relation(z, y) = r}
  IN /\ Cardinality(with("LIUHE")) = 1
     /\ Cardinality(with("SANHE")) = 2
     /\ Cardinality(with("LIUCHONG")) = 1
     /\ Cardinality(with("LIUHAI")) = 1
     /\ Cardinality(with("NEUTRAL")) = 6

\* "以年纳音查月日时支" (shensha.py, Xuetang.is_present): a pillar whose branch
\* is the birth place of the element of the year's nayin is listed as Xuetang.
XuetangIsFound ==
  \A i \in DOMAIN found :
    Branch(chart[i]) = BirthOf(Nayin(chart[1]).element) => Listed(i, "Xuetang")

\* "年干或日干见对应地支时" (shensha.py, GuoyinGuiren.is_present): a pillar has
\* Guoyin by the stem of the chart's year or day.
GuoyinByTheChart ==
  stage = "queried" =>
    ("GuoyinGuiren" \in answer.stars <=>
       \E k \in 1..2 : Branch(answer.pillar) = GuoyinBranch(Stems(chart)[k]))
=============================================================================
