----------------------------- MODULE ZwdsChart -----------------------------
(***************************************************************************)
(* zwds/basic.py: the chart of Zi Wei Dou Shu and its years.  A palace is  *)
(* the number of its branch, 0 for zi; names of palaces count backwards    *)
(* from the ming palace.  A star is placed in a palace, the stem of every  *)
(* palace makes four stars "fly" (hua), which ties that palace to the one  *)
(* the star is in.                                                         *)
(*                                                                         *)
(* The texts are left out: a report is the set of the things it tells.     *)
(***************************************************************************)
EXTENDS Integers, Sequences, FiniteSets, SequencesExt

CONSTANTS Births,  \* years count in the cycle of sixty, hours in twelve branches
          Ages     \* of the target years; 1 in the year of birth

BirthsAssumption ==
  /\ Births \subseteq [year: 0..59, month: 1..12, day: 1..30, hour: 0..11, male: BOOLEAN]
  /\ Ages \subseteq Nat \ {0}

VARIABLES
  birth,
  pc,
  ming,     \* ming_zhi
  gan,      \* palace -> stem
  ju,       \* ju_num
  star,     \* name -> palace
  forward,  \* is_forward
  daxian,   \* palace -> first age of its ten years
  borrows,  \* palace -> main stars of the opposite palace (duigong_star_list)
  fly,      \* direct_hua: hua -> palace -> palace
  zhuan,    \* the chains of get_zhuanlu_zhuanji
  report    \* of the target year

vars == <<birth, pc, ming, gan, ju, star, forward, daxian, borrows, fly, zhuan, report>>

Palaces == 0..11
Hua == {"lu", "quan", "ke", "ji"}

YearGan == birth.year % 10
YearZhi == birth.year % 12

-----------------------------------------------------------------------------
(* Tables.                                                                 *)

\* wuxing_ju_table, by the stem of the year and the ming palace.
JuTable == <<<<2, 6, 3, 5, 4, 6>>, <<6, 5, 4, 3, 2, 5>>, <<5, 3, 2, 4, 6, 3>>,
             <<3, 4, 6, 2, 5, 4>>, <<4, 2, 5, 6, 3, 2>>>>

\* ziwei_table, by the number of the ju and the day.
ZiweiTable == <<
  <<1, 2, 2, 3, 3, 4, 4, 5, 5, 6, 6, 7, 7, 8, 8, 9, 9, 10, 10, 11, 11, 0, 0, 1, 1, 2, 2, 3, 3, 4>>,
  <<4, 1, 2, 5, 2, 3, 6, 3, 4, 7, 4, 5, 8, 5, 6, 9, 6, 7, 10, 7, 8, 11, 8, 9, 0, 9, 10, 1, 10, 11>>,
  <<11, 4, 1, 2, 0, 5, 2, 3, 1, 6, 3, 4, 2, 7, 4, 5, 3, 8, 5, 6, 4, 9, 6, 7, 5, 10, 7, 8, 6, 11>>,
  <<6, 11, 4, 1, 2, 7, 0, 5, 2, 3, 8, 1, 6, 3, 4, 9, 2, 7, 4, 5, 10, 3, 8, 5, 6, 11, 4, 9, 6, 7>>,
  <<9, 6, 11, 4, 1, 2, 10, 7, 0, 5, 2, 3, 11, 8, 1, 6, 3, 4, 0, 9, 2, 7, 4, 5, 1, 10, 3, 8, 5, 6>>
>>

\* ziwei_star_map: each row is a walk round the palaces that starts somewhere
\* and goes with ziwei or against it.  The other tables have rows of this kind, too.
With(start) == <<start, 1>>
Against(start) == <<start, -1>>

At(row, n) == (row[1] + row[2] * n) % 12

MainStars ==
  [ziwei |-> With(0), tianji |-> With(11), taiyang |-> With(9), wuqu |-> With(8),
   tiantong |-> With(7), lianzhen |-> With(4), tianfu |-> Against(4), taiyin |-> Against(5),
   tanlang |-> Against(6), jumen |-> Against(7), tianxiang |-> Against(8),
   tianliang |-> Against(9), qisha |-> Against(10), pojun |-> Against(2)]

HourStars ==
  [wenchang |-> Against(10), wenqu |-> With(4), dijie |-> With(11), tiankong |-> Against(11),
   taifu |-> With(6), fenggao |-> With(2)]

\* huoxing_table and lingxing_table, by sanhe_mapping of the year's branch.
HuoxingStart == <<2, 3, 1, 9>>
LingxingStart == <<10, 10, 3, 10>>

\* faulty
YoubiWith ==
  [zuofu |-> With(4), youbi |-> With(10), tianxing |-> With(9), tianyao |-> With(1)]

MonthStars ==
  [zuofu |-> With(4), youbi |-> Against(10), tianxing |-> With(9), tianyao |-> With(1)]

MonthStarRows ==
  [jieshen |-> <<8, 8, 10, 10, 0, 0, 2, 2, 4, 4, 6, 6>>,
   tianwu |-> <<5, 8, 2, 11, 5, 8, 2, 11, 5, 8, 2, 11>>,
   tianyue |-> <<10, 5, 4, 2, 7, 3, 11, 7, 2, 6, 10, 2>>,
   yinsha |-> <<2, 0, 10, 8, 6, 4, 2, 0, 10, 8, 6, 4>>]

\* gan_position_stars
GanStarRows ==
  [lucun |-> <<2, 3, 5, 6, 5, 6, 8, 9, 11, 0>>, qingyang |-> <<3, 4, 6, 7, 6, 7, 9, 10, 0, 1>>,
   tuoluo |-> <<1, 2, 4, 5, 4, 5, 7, 8, 10, 11>>, tiankui |-> <<1, 0, 11, 11, 1, 0, 1, 6, 3, 3>>,
   tianyue2 |-> <<7, 8, 9, 9, 7, 8, 7, 2, 5, 5>>, tianguan |-> <<7, 4, 5, 2, 3, 9, 11, 9, 10, 6>>,
   tianfu2 |-> <<9, 8, 0, 11, 3, 2, 6, 5, 6, 5>>]

\* zhi_based_stars
ZhiStars ==
  [dikong |-> With(1), tianku |-> Against(6), tianxu |-> With(6), longchi |-> With(4),
   fengge |-> Against(10), hongluan |-> Against(3), tianxi |-> Against(9)]

ZhiStarRows ==
  [feilian |-> <<8, 9, 10, 5, 6, 7, 2, 3, 4, 11, 0, 1>>,
   posui |-> <<5, 1, 9, 5, 1, 9, 5, 1, 9, 5, 1, 9>>,
   guchen |-> <<2, 2, 5, 5, 5, 8, 8, 8, 11, 11, 11, 2>>,
   tianma |-> <<2, 11, 8, 5, 2, 11, 8, 5, 2, 11, 8, 5>>,
   guasu |-> <<10, 10, 1, 1, 1, 4, 4, 4, 7, 7, 7, 10>>]

\* SI_HUA_MAP: the star a stem makes fly.
SI_HUA_MAP ==
  [lu |-> <<"lianzhen", "tianji", "tiantong", "taiyin", "tanlang", "wuqu", "taiyang", "jumen",
            "tianliang", "pojun">>,
   quan |-> <<"pojun", "tianliang", "tianji", "tiantong", "taiyin", "tanlang", "wuqu", "taiyang",
              "ziwei", "jumen">>,
   ke |-> <<"wuqu", "ziwei", "wenchang", "tianji", "youbi", "tianliang", "taiyin", "wenqu",
            "zuofu", "taiyin">>,
   ji |-> <<"taiyang", "taiyin", "lianzhen", "jumen", "tianji", "wenqu", "tiantong", "wenchang",
            "wuqu", "tanlang">>]

-----------------------------------------------------------------------------
NoReport == [age |-> 0, daxian |-> -1, liunian |-> -1]

Init ==
  /\ birth \in Births
  /\ pc = "palaces"
  /\ ming = 0
  /\ gan = <<>>
  /\ ju = 0
  /\ star = <<>>
  /\ forward = 0
  /\ daxian = <<>>
  /\ borrows = <<>>
  /\ fly = <<>>
  /\ zhuan = <<>>
  /\ report = NoReport

\* year2month: the first month of a year has branch yin and a stem of the year's.
MonthZhi == (birth.month + 1) % 12

GanOfPalace(palace) == (2 * (YearGan % 5) + 2 + ((palace - 2) % 12)) % 10

\* setup_mingshengong, setup_12gong, set_gong_gan, get_wuxing_ju.  set_shengong
\* names its method without calling it: no palace is marked.
SetupPalaces ==
  /\ pc = "palaces"
  /\ ming' = (MonthZhi - birth.hour) % 12
  /\ gan' = [p \in Palaces |-> GanOfPalace(p)]
  /\ ju' = JuTable[(YearGan % 5) + 1][(ming' \div 2) + 1]
  /\ pc' = "stars"
  /\ UNCHANGED <<birth, star, forward, daxian, borrows, fly, zhuan, report>>

\* Water, metal, fire and wood years, in that order from zi on, and round again.
Sanhe == YearZhi % 4

FireStars ==
  [huoxing |-> HuoxingStart[Sanhe + 1], lingxing |-> LingxingStart[Sanhe + 1]]

Shen == (MonthZhi + birth.hour) % 12
MingStars ==
  [tiancai |-> YearZhi + ming, tianshou |-> YearZhi + Shen, tianshang |-> 5 + ming,
   tianshi |-> 7 + ming]

StarNames ==
  DOMAIN MainStars \cup DOMAIN HourStars \cup DOMAIN FireStars \cup DOMAIN MonthStars
    \cup DOMAIN MonthStarRows \cup DOMAIN GanStarRows \cup DOMAIN ZhiStars
    \cup DOMAIN ZhiStarRows \cup DOMAIN MingStars

Ziwei == ZiweiTable[ju - 1][birth.day]

\* set_ziwei_relative_star, set_time_stars, set_month_stars, set_gan_stars,
\* set_zhi_stars, set_tianshang_tianshi.
Place(s) ==
  CASE s \in DOMAIN MainStars     -> At(MainStars[s], Ziwei)
    [] s \in DOMAIN HourStars     -> At(HourStars[s], birth.hour)
    [] s \in DOMAIN FireStars     -> (FireStars[s] + birth.hour) % 12
    [] s \in DOMAIN MonthStars    -> At(MonthStars[s], birth.month - 1)
    [] s \in DOMAIN MonthStarRows -> MonthStarRows[s][birth.month]
    [] s \in DOMAIN GanStarRows   -> GanStarRows[s][YearGan + 1]
    [] s \in DOMAIN ZhiStars      -> At(ZhiStars[s], YearZhi)
    [] s \in DOMAIN ZhiStarRows   -> ZhiStarRows[s][YearZhi + 1]
    [] s \in DOMAIN MingStars     -> MingStars[s] % 12

PlaceStars ==
  /\ pc = "stars"
  /\ star' = [s \in StarNames |-> Place(s)]
  /\ pc' = "luck"
  /\ UNCHANGED <<birth, ming, gan, ju, forward, daxian, borrows, fly, zhuan, report>>

MainIn(palace) == {s \in DOMAIN MainStars : star[s] = palace}

\* set_boshi_12stars; its feilian has a namesake among the stars of the year.
BoshiStars == <<"boshi", "lishi", "qinglong", "xiaohao", "jiangjun", "zoushu", "feilian of boshi",
                "xishen", "bingfu", "dahao", "fubing", "guanfu">>
BoshiPlace(s, direction) ==
  (star["lucun"] + direction * ((CHOOSE i \in 1..12 : BoshiStars[i] = s) - 1)) % 12

\* set_konggong_star
Borrowed(palace) == MainIn((palace + 6) % 12)

\* set_forward, set_boshi_12stars, set_daxian, set_duigong_sanfanggong, set_konggong_star.
SetDaxian ==
  /\ pc = "luck"
  /\ forward' = IF birth.male <=> YearGan % 2 = 0 THEN 1 ELSE -1
  /\ star' = [s \in StarNames \cup Range(BoshiStars) |->
                IF s \in StarNames THEN star[s] ELSE BoshiPlace(s, forward')]
  /\ daxian' = [p \in Palaces |-> ju + 10 * ((forward' * (p - ming)) % 12)]
  /\ borrows' = [p \in Palaces |-> IF MainIn(p) = {} THEN Borrowed(p) ELSE {}]
  /\ pc' = "hua"
  /\ UNCHANGED <<birth, ming, gan, ju, fly, zhuan, report>>

\* check_hua_by_gan and check_hua_by_gong; get_zhuanlu_zhuanji: a lu or a ji
\* that leaves its palace and whose palace's own ji leaves in turn.
CheckHua ==
  /\ pc = "hua"
  /\ fly' = [h \in Hua |-> [p \in Palaces |-> star[SI_HUA_MAP[h][gan[p] + 1]]]]
  /\ zhuan' = [h \in {"lu", "ji"} |->
       {<<p, fly'[h][p], fly'["ji"][fly'[h][p]]>> :
          p \in {q \in Palaces : fly'[h][q] # q /\ fly'["ji"][fly'[h][q]] # fly'[h][q]}}]
  /\ pc' = "ready"
  /\ UNCHANGED <<birth, ming, gan, ju, star, forward, daxian, borrows, report>>

\* get_hua_relation between the charts with their ming palaces at z1 and z2:
\* pairs of palaces with the direction, 1 for from the first chart to the second.

Distance(a, b) == (a - b) % 12

Direction(a, b, z1, z2) ==
  {d \in {1, 2} : IF d = 1 THEN Distance(a, b) = Distance(z1, z2)
                           ELSE Distance(a, b) + Distance(z1, z2) = 12}

Flights == {<<"flight", h, p, fly[h][p]>> : h \in Hua, p \in Palaces}

Chains == UNION {{<<"chain", h, c[1], c[3]>> : c \in zhuan[h]} : h \in {"lu", "ji"}}

Relation(z1, z2) ==
  UNION {{<<t, d>> : d \in Direction(t[3], t[4], z1, z2)} : t \in Flights \cup Chains}

\* calcu_current_daxian and calcu_liunian_zhi
CurrentDaxian(age) == (age - ju + 1) \div 10
Liunian(age) == (age - 1 + YearZhi) % 12

\* get_liunian_daxian_info_comb, for one of the target years.
ReportYear(age) ==
  /\ pc \in {"ready", "reported"}
  /\ report' = [age |-> age, liunian |-> Liunian(age),
                daxian |-> IF CurrentDaxian(age) < 0 THEN -1
                           ELSE (ming + CurrentDaxian(age) * forward) % 12]
  /\ pc' = "reported"
  /\ UNCHANGED <<birth, ming, gan, ju, star, forward, daxian, borrows, fly, zhuan>>

Next ==
  \/ SetupPalaces
  \/ PlaceStars
  \/ SetDaxian
  \/ CheckHua
  \/ \E age \in Ages : ReportYear(age)

Spec == Init /\ [][Next]_vars

-----------------------------------------------------------------------------
(* Properties.                                                             *)

Ready == pc \in {"ready", "reported"}

ZwdsTypeOK ==
  /\ ming \in Palaces
  /\ pc # "palaces" => gan \in [Palaces -> 0..9] /\ ju \in 2..6
  /\ Ready =>
       /\ Range(star) \subseteq Palaces
       /\ forward \in {1, -1}
       /\ daxian \in [Palaces -> Nat]
       /\ fly \in [Hua -> [Palaces -> Palaces]]
  /\ report.daxian \in Palaces \cup {-1}

\* The element of a stem and a branch by the sum of their pairs: wood, metal,
\* water, fire, earth.
JuByElement(g, z) ==
  LET sum == (g \div 2) + 1 + (((z \div 2) % 3) + 1)
  IN <<3, 4, 2, 6, 5>>[IF sum > 5 THEN sum - 5 ELSE sum]

\* Ziwei by division: as many palaces from yin on as the day has parts of ju,
\* forwards by what is missing if that is even, else back.
ZiweiByDivision ==
  LET parts == (birth.day + ju - 1) \div ju
      missing == parts * ju - birth.day
  IN (1 + parts + (IF missing % 2 = 0 THEN missing ELSE -missing)) % 12

\* The two tables every other star hangs on, 60 and 150 entries by hand, agree
\* with the rules they tabulate.
TablesFollowTheirRules ==
  Ready => ju = JuByElement(gan[ming], ming) /\ star["ziwei"] = ZiweiByDivision

\* Stars that belong together stand as they should in every chart: in one place
\* of reflection, opposite each other, or on either side.
StarsKeepTheirPairs ==
  Ready =>
    /\ (star["ziwei"] + star["tianfu"]) % 12 = 4
    /\ (star["zuofu"] + star["youbi"]) % 12 = 2
    /\ (star["wenchang"] + star["wenqu"]) % 12 = 2
    /\ (star["dijie"] + star["tiankong"]) % 12 = 10
    /\ (star["hongluan"] - star["tianxi"]) % 12 = 6
    /\ (star["qingyang"] - star["lucun"]) % 12 = 1
    /\ (star["lucun"] - star["tuoluo"]) % 12 = 1

\* A palace without a main star borrows those of the palace opposite, and these
\* are never without: no palace of any chart is read without a main star.
NoPalaceIsBlank ==
  Ready => \A p \in Palaces : MainIn(p) \cup borrows[p] # {}

\* gong_name_list by its distance from the ming palace of a chart.
NameIn(palace, z) == (z - palace) % 12

\* Between two charts exactly those flights are told that tie a palace of one to
\* the palace of the same name in the other, in the direction they have.  Where
\* both charts have their ming palace in one place the second direction repeats
\* the first and is left out.
RelationsAreSameNamed ==
  Ready => \A z \in Palaces :
    LET told == Relation(ming, z)
    IN /\ \A tie \in told :
            IF tie[2] = 1 THEN NameIn(tie[1][3], ming) = NameIn(tie[1][4], z)
                          ELSE NameIn(tie[1][3], z) = NameIn(tie[1][4], ming)
       /\ \A t \in Flights \cup Chains :
            /\ NameIn(t[3], ming) = NameIn(t[4], z) => <<t, 1>> \in told
            /\ z # ming /\ NameIn(t[3], z) = NameIn(t[4], ming) => <<t, 2>> \in told

\* get_hua_relation returns nothing when no tie is found, and the callers add
\* what it returns to a text: that would fail.  There is no such chart: whatever
\* the birth and the year, some palace is tied to its namesake.
RelationIsNeverEmpty ==
  Ready => \A z \in Palaces : Relation(ming, z) # {}

\* The ten years reported for a target year contain it, or begin with the next.
PeriodIsAtMostOneYearEarly ==
  pc = "reported" /\ report.age < ju + 119 =>
    IF report.daxian = -1 THEN report.age < ju - 1
    ELSE report.age + 1 \in daxian[report.daxian]..(daxian[report.daxian] + 10)

\* The prompt tells the model that it is given the natal chart, the ten years the
\* target year lies in, and the year: the palace reported is the one whose ages
\* contain the age.
PeriodContainsTheYear ==
  pc = "reported" /\ report.age < ju + 119 =>
    IF report.daxian = -1 THEN report.age < ju
    ELSE report.age \in daxian[report.daxian]..(daxian[report.daxian] + 9)
=============================================================================
