------------------------------ MODULE MCCharts ------------------------------
(* The chart engines: hexagrams, Zi Wei Dou Shu and the stars of the four   *)
(* pillars, on inputs that cover their tables.  They share no state; a      *)
(* behaviour exercises the one that `part` names, while the others rest in  *)
(* an initial state.                                                        *)
EXTENDS Shensha, TLC

CONSTANTS
  Inputs,        \* throws and days
  Births, Ages,
  Reported,      \* births whose years are asked of
  Consulted      \* charts that are asked about pillars or compared

VARIABLES
  part,
  yao, day, thrown, time, bengua, fushen, biangua,                           \* Hexagrams
  birth, placed, ming, gan, ju, star, forward, daxian, borrows, fly, zhuan, report \* ZwdsChart

guaVars == <<yao, day, thrown, time, bengua, fushen, biangua>>
zwdsVars == <<birth, placed, ming, gan, ju, star, forward, daxian, borrows, fly, zhuan, report>>

H == INSTANCE Hexagrams WITH pc <- thrown
Z == INSTANCE ZwdsChart WITH pc <- placed

ASSUME EnginesAssumption == ChartsAssumption /\ H!InputsAssumption /\ Z!BirthsAssumption

-----------------------------------------------------------------------------
(* Coins.  One throw for each of yin, yang, moving or not, in every line on *)
(* one day; and every throw, repeated in all lines, on every day.           *)

OneOfAKind == {0, 1, 6, 7}
Throws == ([1..6 -> OneOfAKind] \X {0}) \cup ({[i \in 1..6 |-> t] : t \in 0..7} \X (0..59))

(* Births.  Every year, in some months, days and hours, for both sexes;     *)
(* every day in every ju; and one day for each place of ziwei, of every     *)
(* month and hour of five years, which is every combination of what the     *)
(* flights depend on.                                                       *)

SomeBirths == [year : 0..3, month : {1}, day : {1}, hour : {0, 4}, male : BOOLEAN]
AllYears == [year : 0..59, month : {1, 8}, day : {1, 30}, hour : {0, 5}, male : BOOLEAN]
AllDays == [year : 0..4, month : {1}, day : 1..30, hour : {0, 2, 4, 6, 8, 10}, male : {TRUE}]
SixtyYears == 1..60

Table == INSTANCE ZwdsChart WITH pc <- placed, Births <- {}, Ages <- {}
JuOfBirth(b) == Table!JuTable[(b.year % 5) + 1][((((b.month + 1) - b.hour) % 12) \div 2) + 1]
AllFlights ==
  {b \in [year : 0..4, month : 1..12, day : 1..30, hour : 0..11, male : {TRUE}] :
     LET place == Table!ZiweiTable[JuOfBirth(b) - 1]
     IN \A d \in 1..(b.day - 1) : place[d] # place[b.day]}
AllBirths == SomeBirths \cup AllYears \cup AllDays \cup AllFlights

(* Pillars.  The month's stem follows from the year's, the hour's from the  *)
(* day's.  Every year with every day; months and hours vary along with      *)
(* them, and half of the charts have no hour.                               *)

PillarOf(g, z) == (6 * (g % 10) + 55 * z) % 60
MonthOf(year, z) == PillarOf((2 * (Stem(year) % 5)) + 2 + ((z + 10) % 12), z)
HourOf(d, z) == PillarOf((2 * (Stem(d) % 5)) + z, z)
ChartOf(year, month, d) == <<year, MonthOf(year, month), d>>
TimedChart(year, month, d, hour) == <<year, MonthOf(year, month), d, HourOf(d, hour)>>

SomePillars ==
  {ChartOf(y, (5 * y) % 12, 13) : y \in Pillars}
    \cup {TimedChart(27, d % 12, d, (5 * d) % 12) : d \in Pillars}
\* Half of them have an hour.
AnyChart(y, d) ==
  IF (y \div 2 + d) % 2 = 0 THEN TimedChart(y, (y + 5 * d) % 12, d, (7 * y + d) % 12)
                            ELSE ChartOf(y, (y + d) % 12, d)
AllPillars == {AnyChart(y, d) : y \in Pillars, d \in Pillars} \cup SomePillars
AllMates == {TimedChart(y, (7 * y) % 12, (11 * y) % 60, y % 12) : y \in Pillars}

-----------------------------------------------------------------------------
\* Each rests on one of its inputs.
AnyBirth == [year |-> 0, month |-> 1, day |-> 1, hour |-> 0, male |-> TRUE]

NobodyThrows == yao = [i \in 1..6 |-> 0] /\ day = 0 /\ H!Init
NobodyBorn == birth = AnyBirth /\ Z!Init
NoPillars == chart = ChartOf(0, 0, 13) /\ Init

ChartsInit ==
  \/ part = "coins" /\ NobodyBorn /\ NoPillars /\ H!Init
  \/ part = "birth" /\ NobodyThrows /\ NoPillars /\ Z!Init
  \/ part = "pillars" /\ NobodyThrows /\ NobodyBorn /\ Init

\* Years are asked of some births, pillars and mates of some charts.
ChartsNext ==
  \/ part = "coins" /\ H!Next /\ UNCHANGED <<part, vars, zwdsVars>>
  \/ /\ part = "birth" /\ (placed = "ready" => birth \in Reported) /\ Z!Next
     /\ UNCHANGED <<part, vars, guaVars>>
  \/ /\ part = "pillars" /\ (stage = "analysed" => chart \in Consulted) /\ Next
     /\ UNCHANGED <<part, guaVars, zwdsVars>>

ChartsSpec == ChartsInit /\ [][ChartsNext]_<<part, vars, guaVars, zwdsVars>>

-----------------------------------------------------------------------------
\* The hexagrams named are those that were thrown, and the tables of the sixty-
\* four agree with the rule of the eight palaces, of the relatives and of the
\* void branches (Hexagrams).
HexagramsFollowThePalaces ==
  /\ H!HexagramTypeOK /\ H!NamesTheThrow /\ H!FollowsThePalaces
  /\ H!FiveRelatives /\ H!OneReckoning /\ H!VoidsAreLeftOut

\* The tables of Zi Wei Dou Shu agree with the rules they tabulate, stars keep
\* their pairs, no palace is read without a main star, the ten years of a target year
\* contain it or begin with the next, and the flights that are told are those
\* between palaces of one name, of which there always is one (ZwdsChart).
StarsStandByTheRules ==
  /\ Z!ZwdsTypeOK /\ Z!TablesFollowTheirRules /\ Z!StarsKeepTheirPairs
  /\ Z!NoPalaceIsBlank /\ Z!PeriodIsAtMostOneYearEarly
  /\ Z!RelationsAreSameNamed /\ Z!RelationIsNeverEmpty

\* The stars of a chart, from some fifty tables, follow the triads, the year's
\* branch and the day's stem; scores of a couple are mutual (Shensha).
StarsFollowTheCycle ==
  /\ ShenshaTypeOK /\ TriadStars /\ StarsOfTheYear /\ StarsOfTheDayStem
  /\ BadDaysAreVoid /\ ScoreIsMutual /\ RelationsAreExclusive
=============================================================================
