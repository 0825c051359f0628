------------------------------- MODULE Profiles -------------------------------
(***************************************************************************)
(* Profiles of personality: a vector of 32 traits that a birthday, an animal *)
(* and a blood type seed, that answers and feedback move, and that are       *)
(* compared two by two for a score, a level and an advice.                   *)
(*                                                                         *)
(* The tables are in hundredths, traits and scores in ten-thousandths, the   *)
(* unrounded score in millionths. A float that ought to be a half or the     *)
(* limit of a level may fall on either side of it: here it is exact.         *)
(***************************************************************************)
EXTENDS Integers, Sequences, FiniteSets, SequencesExt

CONSTANTS
    ProfileIds,     \* ids of profiles
    Births,         \* what a profile is made from: [day, animal, blood]
    Answers,        \* answers: the option, counted from 0, by the number of the question
    Lessons,        \* feedback: [type, traits], the intensity of a trait in tenths
    GivenVectors,   \* vectors a request spells out: the value by trait, of some traits
    MaxLessons, MaxAnswered     \* bounds: feedback and answers that are applied

\* What a request gives as a number is one: anything else raises where it is compared or added.
ASSUME ProfilesAssumption ==
    /\ \A answers \in Answers : \A q \in DOMAIN answers : answers[q] \in Int
    /\ \A lesson \in Lessons : \A t \in DOMAIN lesson.traits : lesson.traits[t] \in Int
    /\ \A given \in GivenVectors : \A t \in DOMAIN given : given[t] \in Int
    /\ MaxLessons \in Nat /\ MaxAnswered \in Nat

VARIABLES
    profiles,       \* personality_profiles: the birth and the vector by id
    learned,        \* PersonalityLearning._history: the old and the new value by trait
    answered,       \* how many answers have been applied
    reply           \* what a check or report has just returned

profileVars == <<profiles, learned, answered, reply>>

-----------------------------------------------------------------------------
(* The tables *)

Traits == { "logic", "intuition", "analysis", "creativity",
            "empathy", "emotional_stability", "sensitivity", "optimism",
            "sociability", "leadership", "cooperation", "assertiveness",
            "discipline", "persistence", "self_control", "motivation",
            "risk_tolerance", "adventure", "caution", "stability_seek",
            "curiosity", "knowledge_drive", "adaptability", "reflection",
            "planning", "execution", "speed", "patience",
            "ethics", "fairness", "loyalty", "purpose" }

\* n for each trait of S.
n**S == [t \in S |-> n]

At0(f, t) == IF t \in DOMAIN f THEN f[t] ELSE 0

\* Modifiers added up, trait by trait.
f ++ g == [t \in DOMAIN f \cup DOMAIN g |-> At0(f, t) + At0(g, t)]

Sign(name, element, first, last) ==
    [name |-> name, element |-> element, first |-> first, last |-> last]

Signs ==
    << Sign("aries", "fire", <<3, 21>>, <<4, 19>>),
       Sign("taurus", "earth", <<4, 20>>, <<5, 20>>),
       Sign("gemini", "air", <<5, 21>>, <<6, 21>>),
       Sign("cancer", "water", <<6, 22>>, <<7, 22>>),
       Sign("leo", "fire", <<7, 23>>, <<8, 22>>),
       Sign("virgo", "earth", <<8, 23>>, <<9, 22>>),
       Sign("libra", "air", <<9, 23>>, <<10, 23>>),
       Sign("scorpio", "water", <<10, 24>>, <<11, 22>>),
       Sign("sagittarius", "fire", <<11, 23>>, <<12, 21>>),
       Sign("capricorn", "earth", <<12, 22>>, <<1, 19>>),
       Sign("aquarius", "air", <<1, 20>>, <<2, 18>>),
       Sign("pisces", "water", <<2, 19>>, <<3, 20>>) >>

Elements ==
    [ fire  |-> 20**{"motivation"} ++ 15**{"leadership", "risk_tolerance"}
               ++ 10**{"assertiveness", "speed", "optimism"} ++ (-5)**{"patience"}
               ++ (-10)**{"caution"},
      earth |-> 20**{"discipline"} ++ 15**{"planning", "stability_seek"}
               ++ 10**{"persistence", "patience", "loyalty"} ++ (-5)**{"speed"}
               ++ (-10)**{"adventure"},
      air   |-> 20**{"sociability"} ++ 15**{"curiosity", "adaptability"}
               ++ 10**{"creativity", "knowledge_drive", "cooperation"}
               ++ (-5)**{"discipline", "stability_seek"},
      water |-> 20**{"empathy"} ++ 15**{"intuition", "sensitivity"}
               ++ 10**{"reflection", "loyalty", "ethics"} ++ (-5)**{"emotional_stability"}
               ++ (-10)**{"assertiveness"} ]

SignSpecific ==
    [ aries       |-> 10**{"assertiveness", "speed"} ++ (-10)**{"patience"},
      taurus      |-> 10**{"persistence", "loyalty"} ++ (-5)**{"adaptability"},
      gemini      |-> 10**{"adaptability", "creativity"} ++ (-10)**{"discipline"},
      cancer      |-> 10**{"empathy", "loyalty"} ++ (-10)**{"risk_tolerance"},
      leo         |-> 15**{"leadership"} ++ 10**{"optimism"} ++ (-5)**{"cooperation"},
      virgo       |-> 15**{"analysis"} ++ 10**{"planning"} ++ (-5)**{"risk_tolerance"},
      libra       |-> 15**{"fairness"} ++ 10**{"cooperation"} ++ (-10)**{"assertiveness"},
      scorpio     |-> 15**{"persistence"} ++ 10**{"intuition"} ++ (-10)**{"sociability"},
      sagittarius |-> 15**{"adventure"} ++ 10**{"optimism"} ++ (-10)**{"caution"},
      capricorn   |-> 15**{"discipline"} ++ 10**{"self_control"} ++ (-10)**{"speed"},
      aquarius    |-> 15**{"creativity"} ++ 10**{"knowledge_drive"} ++ (-5)**{"loyalty"},
      pisces      |-> 15**{"sensitivity"} ++ 10**{"empathy"} ++ (-10)**{"assertiveness"} ]

Animals ==
    [ lion          |-> 30**{"leadership"} ++ 20**{"assertiveness"} ++ 15**{"motivation"}
                       ++ 10**{"discipline", "self_control"} ++ (-10)**{"cooperation"},
      cheetah       |-> 30**{"speed"} ++ 25**{"risk_tolerance"} ++ 20**{"execution"}
                       ++ 15**{"adventure"} ++ (-10)**{"caution"} ++ (-15)**{"patience"},
      elephant      |-> 30**{"discipline"} ++ 25**{"persistence"} ++ 20**{"loyalty"}
                       ++ 15**{"patience"} ++ 10**{"empathy"} ++ (-10)**{"speed"},
      koala         |-> 25**{"creativity"} ++ 20**{"curiosity", "reflection"} ++ 15**{"patience"}
                       ++ (-10)**{"assertiveness", "speed"},
      black_panther |-> 25**{"intuition"} ++ 20**{"sensitivity", "sociability"} ++ 10**{"analysis"}
                       ++ (-5)**{"cooperation"} ++ (-10)**{"stability_seek"},
      wolf          |-> 25**{"loyalty"} ++ 20**{"cooperation"} ++ 15**{"persistence"}
                       ++ 10**{"discipline", "empathy"} ++ (-10)**{"sociability"},
      eagle         |-> 25**{"analysis"} ++ 20**{"planning"} ++ 15**{"knowledge_drive"}
                       ++ 10**{"risk_tolerance", "purpose"} ++ (-10)**{"empathy"},
      dolphin       |-> 25**{"sociability"} ++ 20**{"optimism"}
                       ++ 15**{"cooperation", "adaptability"} ++ 10**{"empathy"}
                       ++ (-10)**{"discipline"},
      owl           |-> 25**{"analysis"} ++ 20**{"knowledge_drive", "reflection"}
                       ++ 15**{"intuition"} ++ 10**{"caution"} ++ (-15)**{"speed"},
      cat           |-> 25**{"curiosity"} ++ 20**{"sensitivity"}
                       ++ 15**{"adaptability", "creativity"} ++ (-10)**{"discipline"}
                       ++ (-15)**{"cooperation"},
      bear          |-> 20**{"self_control", "persistence"} ++ 15**{"loyalty", "ethics"}
                       ++ 10**{"patience"} ++ (-10)**{"sociability"},
      fox           |-> 25**{"adaptability"} ++ 20**{"creativity"} ++ 15**{"analysis"}
                       ++ 10**{"speed", "caution"} ++ (-10)**{"loyalty"} ]

BloodTypes ==
    [ A  |-> 15**{"discipline", "caution", "cooperation"}
            ++ 10**{"planning", "self_control", "loyalty"}
            ++ (-10)**{"adventure", "risk_tolerance"},
      B  |-> 15**{"creativity", "curiosity"} ++ 10**{"adaptability", "intuition", "assertiveness"}
            ++ (-5)**{"discipline"} ++ (-10)**{"cooperation", "caution"},
      O  |-> 15**{"leadership", "motivation"}
            ++ 10**{"optimism", "assertiveness", "sociability", "execution"} ++ (-5)**{"caution"}
            ++ (-10)**{"sensitivity"},
      AB |-> 15**{"analysis", "intuition"}
            ++ 10**{"adaptability", "creativity", "reflection", "knowledge_drive"}
            ++ (-5)**{"stability_seek"} ++ (-10)**{"assertiveness"} ]

\* Of each question its options.
Questions ==
    << << 15**{"adventure"} ++ 10**{"risk_tolerance", "curiosity"},
          10**{"adaptability"} ++ 5**{"caution"},
          15**{"stability_seek"} ++ 10**{"caution"} >>,
       << 15**{"leadership"} ++ 10**{"assertiveness"},
          15**{"cooperation"} ++ 10**{"empathy"},
          15**{"creativity"} ++ 10**{"intuition"},
          10**{"discipline", "reflection"} ++ (-10)**{"sociability"} >>,
       << 15**{"analysis"} ++ 10**{"planning", "logic"},
          15**{"intuition"} ++ 10**{"speed", "execution"},
          10**{"cooperation", "sociability"} ++ 5**{"empathy"},
          15**{"caution"} ++ 10**{"patience"} ++ 5**{"reflection"} >>,
       << 15**{"sociability"} ++ 10**{"optimism"},
          15**{"curiosity"} ++ 10**{"knowledge_drive"},
          10**{"patience", "reflection"} ++ 5**{"stability_seek"},
          15**{"creativity"} ++ 10**{"persistence"} >>,
       << 15**{"discipline"} ++ 10**{"planning", "self_control"},
          10**{"speed", "execution"} ++ 5**{"motivation"},
          10**{"optimism"} ++ 5**{"adaptability"} ++ (-10)**{"discipline"} >>,
       << 15**{"assertiveness"} ++ 10**{"logic"},
          15**{"empathy"} ++ 10**{"cooperation"},
          15**{"fairness"} ++ 10**{"adaptability"},
          10**{"caution", "sensitivity"} ++ (-10)**{"assertiveness"} >>,
       << 15**{"ethics", "fairness"},
          15**{"loyalty"} ++ 10**{"empathy"},
          15**{"knowledge_drive"} ++ 10**{"motivation"},
          15**{"purpose"} ++ 10**{"execution"} >>,
       << 15**{"risk_tolerance"} ++ 10**{"adventure"} ++ 5**{"motivation"},
          10**{"analysis"} ++ 5**{"risk_tolerance", "planning"},
          15**{"caution"} ++ 10**{"stability_seek"} ++ (-10)**{"risk_tolerance"} >> >>

-----------------------------------------------------------------------------
(* The vector *)

One == 10000
Half == 5000

Clamp(x) == IF x < 0 THEN 0 ELSE IF x > One THEN One ELSE x

\* A trait the vector does not have reads as the default.
Value(v, t) == IF t \in DOMAIN v THEN v[t] ELSE Half

Vector(given) ==
    [t \in Traits |-> IF t \in DOMAIN given THEN Clamp(given[t]) ELSE Half]

\* Each trait is clamped as it is moved; those the vector does not have are skipped.
ApplyModifiers(v, mods) ==
    [t \in Traits |-> IF t \in DOMAIN mods THEN Clamp(v[t] + 100 * mods[t]) ELSE v[t]]

-----------------------------------------------------------------------------
(* What a birth seeds *)

\* Months and days: the first sign whose range holds the day.
Holds(sign, day) ==
    IF sign.first[1] = sign.last[1]
    THEN day[1] = sign.first[1] /\ day[2] \in sign.first[2]..sign.last[2]
    ELSE \/ day[1] = sign.first[1] /\ day[2] >= sign.first[2]
         \/ day[1] = sign.last[1] /\ day[2] <= sign.last[2]

SignsOf(day) == {i \in DOMAIN Signs : Holds(Signs[i], day)}

DetermineZodiac(day) ==
    IF SignsOf(day) = {} THEN "unknown" ELSE Signs[Min(SignsOf(day))].name

ZodiacModifiers(name) ==
    IF \E i \in DOMAIN Signs : Signs[i].name = name
    THEN LET i == CHOOSE i \in DOMAIN Signs : Signs[i].name = name
         IN  Elements[Signs[i].element] ++ SignSpecific[name]
    ELSE <<>>

\* A table without the key changes nothing.
Row(table, key) == IF key \in DOMAIN table THEN table[key] ELSE <<>>

Seed(birth) ==
    LET zodiac == ApplyModifiers(Vector(<<>>), ZodiacModifiers(DetermineZodiac(birth.day)))
        animal == ApplyModifiers(zodiac, Row(Animals, birth.animal))
    IN  ApplyModifiers(animal, Row(BloodTypes, birth.blood))

-----------------------------------------------------------------------------
(* The handlers of the profiles. None of them takes a profile away, so that a *)
(* profile that was looked up before the body is awaited is still the one.     *)

ProfilesInit == profiles = <<>> /\ learned = <<>> /\ answered = 0 /\ reply = <<>>

Create(id, birth) ==
    /\ id \notin DOMAIN profiles
    /\ profiles' = [i \in DOMAIN profiles \cup {id} |->
                      IF i = id THEN [birth |-> birth, vector |-> Seed(birth)] ELSE profiles[i]]
    /\ reply' = <<>> /\ UNCHANGED <<learned, answered>>

\* The options of all answers are added up, and applied at once.
Picked(answers, q) ==
    IF q \in DOMAIN answers /\ answers[q] >= 0 /\ answers[q] < Len(Questions[q])
    THEN Questions[q][answers[q] + 1] ELSE <<>>

AnswerModifiers(answers) ==
    [t \in UNION {DOMAIN Picked(answers, q) : q \in DOMAIN Questions} |->
        SumFunction([q \in DOMAIN Questions |-> At0(Picked(answers, q), t)])]

Answer(id, answers) ==
    /\ id \in DOMAIN profiles /\ answered < MaxAnswered
    /\ profiles' = [profiles EXCEPT ![id].vector = ApplyModifiers(@, AnswerModifiers(answers))]
    /\ answered' = answered + 1 /\ reply' = <<>> /\ UNCHANGED learned

\* In tenths; a type nobody knows counts more than a neutral one.
Multiplier(type) ==
    CASE type = "positive" -> 10
      [] type = "negative" -> -10
      [] type = "neutral" -> 3
      [] OTHER -> 5

Delta(lesson, t) == 2 * lesson.traits[t] * Multiplier(lesson.type)

Adjusted(v, t, delta) == IF t \in Traits THEN Clamp(v[t] + delta) ELSE Half

AdjustedFreely(v, t, delta) == IF t \in Traits THEN v[t] + delta ELSE Half

ChangeOfDelta(v, lesson, t) ==
    [old |-> Value(v, t), new |-> AdjustedFreely(v, t, Delta(lesson, t))]

Change(v, lesson, t) ==
    [old |-> Value(v, t), new |-> Adjusted(v, t, Delta(lesson, t))]

Learn(id, lesson) ==
    LET v == profiles[id].vector
        moved == DOMAIN lesson.traits
    IN  /\ id \in DOMAIN profiles /\ Len(learned) < MaxLessons
        /\ learned' = Append(learned, [t \in moved |-> Change(v, lesson, t)])
        /\ profiles' = [profiles EXCEPT ![id].vector =
             [t \in Traits |-> IF t \in moved THEN Adjusted(v, t, Delta(lesson, t)) ELSE v[t]]]
        /\ reply' = <<>> /\ UNCHANGED answered

-----------------------------------------------------------------------------
(* The four components of a score *)

Apart(x, y) == IF x > y THEN x - y ELSE y - x
Over(x, y) == IF x > y THEN x - y ELSE 0

\* n / d, to the nearest.
Rounded(n, d) == (2 * n + d) \div (2 * d)

DistancesSigned(a, b, S) == SumFunction([t \in S |-> Over(a[t], b[t])])

Distances(a, b, S) == SumFunction([t \in S |-> Apart(a[t], b[t])])

Similarity(a, b) == Rounded(32 * One - Distances(a, b, Traits), 32)

ValueTraits == {"ethics", "fairness", "loyalty", "purpose"}

ValueAlignment(a, b) == Rounded(4 * One - Distances(a, b, ValueTraits), 4)

BehaviorTraits == {"speed", "patience", "risk_tolerance", "sociability"}

\* Differences up to .3 are free; the most there can be is 5.6.
BehaviorFit(a, b) ==
    LET penalties == [t \in BehaviorTraits |-> 2 * Over(Apart(a[t], b[t]), 3000)]
    IN  Rounded(56 * One - 10 * SumFunction(penalties), 56)

ComplementaryPairs ==
    { <<"planning", "execution">>, <<"creativity", "analysis">>, <<"intuition", "logic">>,
      <<"leadership", "cooperation">>, <<"speed", "patience">>, <<"risk_tolerance", "caution">>,
      <<"assertiveness", "empathy">>, <<"adventure", "stability_seek">>,
      <<"curiosity", "discipline">>, <<"sensitivity", "emotional_stability">> }

\* In tenths of a ten-thousandth: what b adds counts more than what a adds.
Complement(x, y) == 5 * Over(y, x) + 3 * Over(x, y)

PairScore(a, b, pair) ==
    LET s == pair[1]  t == pair[2]
        sum == Complement(a[s], b[s]) + Complement(a[t], b[t])
               + 3 * Apart(a[s] - a[t], b[s] - b[t])
    IN  IF sum > 10 * One THEN 10 * One ELSE sum

Balance(a, b) ==
    Rounded(SumFunction([pair \in ComplementaryPairs |-> PairScore(a, b, pair)]), 100)

-----------------------------------------------------------------------------
(* The engine *)

Weights == [similarity |-> 35, balance |-> 25, value_alignment |-> 25, behavior_fit |-> 15]

Components(a, b) ==
    [ similarity |-> Similarity(a, b), balance |-> Balance(a, b),
      value_alignment |-> ValueAlignment(a, b), behavior_fit |-> BehaviorFit(a, b) ]

Level(low, high, name, style) == [low |-> low, high |-> high, name |-> name, style |-> style]

\* The limits in millionths; each level has its strategy.
CompatibilityLevels ==
    << Level(850000, 1000000, "ideal_partner", "collaborative"),
       Level(700000, 850000, "strong_match", "collaborative"),
       Level(500000, 700000, "neutral", "structured"),
       Level(300000, 500000, "challenging", "mediated"),
       Level(0, 300000, "conflict", "conflict_mitigation") >>

\* The first level that holds the score.
Fitting(exact) ==
    {i \in DOMAIN CompatibilityLevels :
        exact >= CompatibilityLevels[i].low /\ exact <= CompatibilityLevels[i].high}

DetermineLevel(exact) ==
    IF Fitting(exact) = {} THEN "unknown" ELSE CompatibilityLevels[Min(Fitting(exact))].name

Check(a, b) ==
    LET components == Components(a, b)
        exact == SumFunction([c \in DOMAIN Weights |-> Weights[c] * components[c]])
    IN  [components |-> components, exact |-> exact, score |-> Rounded(exact, 100),
         level |-> DetermineLevel(exact)]

RecommendationGenerous(score) ==
    IF score >= 8000 THEN "ideal_partner"
    ELSE IF score >= 7000 THEN "strong_match"
    ELSE IF score >= 5000 THEN "neutral"
    ELSE IF score >= 3000 THEN "challenging" ELSE "conflict"

\* The texts of the recommendation, named by the level they speak of; from the rounded score.
Recommendation(score) ==
    IF score >= 8500 THEN "ideal_partner"
    ELSE IF score >= 7000 THEN "strong_match"
    ELSE IF score >= 5000 THEN "neutral"
    ELSE IF score >= 3000 THEN "challenging" ELSE "conflict"

Report(result) ==
    [ strengths |-> {c \in DOMAIN Weights : result.components[c] >= 7000},
      challenges |-> {c \in DOMAIN Weights : result.components[c] < 5000},
      recommendation |-> Recommendation(result.score) ]

\* A check of two profiles, or of two vectors; a report of two vectors.
CheckProfiles(i, j) ==
    /\ i \in DOMAIN profiles /\ j \in DOMAIN profiles
    /\ reply' = [a |-> profiles[i].vector, b |-> profiles[j].vector,
                 result |-> Check(profiles[i].vector, profiles[j].vector)]
    /\ UNCHANGED <<profiles, learned, answered>>

CheckGiven(g, h) ==
    /\ reply' = [a |-> Vector(g), b |-> Vector(h), result |-> Check(Vector(g), Vector(h))]
    /\ UNCHANGED <<profiles, learned, answered>>

ReportGiven(g, h) ==
    LET result == Check(Vector(g), Vector(h))
    IN  /\ reply' = [a |-> Vector(g), b |-> Vector(h), result |-> result, report |-> Report(result)]
        /\ UNCHANGED <<profiles, learned, answered>>

\* The profiles and the history are in the memory of the process.
ProfilesRestart ==
    /\ profiles # <<>>
    /\ profiles' = <<>> /\ learned' = <<>> /\ answered' = 0 /\ reply' = <<>>

ProfilesNext ==
    \/ \E id \in ProfileIds : \/ \E birth \in Births : Create(id, birth)
                              \/ \E answers \in Answers : Answer(id, answers)
                              \/ \E lesson \in Lessons : Learn(id, lesson)
                              \/ \E other \in ProfileIds : CheckProfiles(id, other)
    \/ \E g, h \in GivenVectors : CheckGiven(g, h) \/ ReportGiven(g, h)
    \/ ProfilesRestart

ProfilesSpec == ProfilesInit /\ [][ProfilesNext]_profileVars

-----------------------------------------------------------------------------
(* Properties *)

ProfilesTypeOK ==
    /\ DOMAIN profiles \subseteq ProfileIds
    /\ \A id \in DOMAIN profiles : profiles[id].vector \in [Traits -> 0..One]
    /\ Len(learned) <= MaxLessons /\ answered \in 0..MaxAnswered
    /\ reply # <<>> => reply.result.exact \in 0..100 * One

\* Every day of the year, the 29th of February too, is in the range of exactly one sign, across
\* the turn of the year as well, so that nobody's sign depends on the order of the table or is
\* "unknown".
LastDay(month) == CASE month = 2 -> 29 [] month \in {4, 6, 9, 11} -> 30 [] OTHER -> 31

Calendar == {date \in (1..12) \X (1..31) : date[2] <= LastDay(date[1])}

SignPerDay == \A day \in Calendar : Cardinality(SignsOf(day)) = 1

\* Whatever the sign, the animal and the blood type, the seed is the sum of what the three tables
\* say, limited to 0..1, and clamping after each of them makes no difference, unless the sign and
\* the animal together pass the top of a trait the blood type lowers: that trait ends lower.
\* (Such a birth there is: a Capricorn, an elephant, of type B.)
AllBirths ==
    [day : {Signs[i].first : i \in DOMAIN Signs}, animal : DOMAIN Animals,
     blood : DOMAIN BloodTypes]

SeedIsSum ==
    \A birth \in AllBirths :
        LET inborn == ZodiacModifiers(DetermineZodiac(birth.day)) ++ Animals[birth.animal]
            blood == BloodTypes[birth.blood]
            limited == ApplyModifiers(Vector(<<>>), inborn ++ blood)
            Cut(t) == At0(inborn, t) > 50 /\ At0(blood, t) < 0
        IN  Seed(birth) = [t \in Traits |-> IF Cut(t) THEN One + 100 * blood[t] ELSE limited[t]]

\* As long as no answers were applied, the learning history accounts for how far the profiles,
\* all together, have moved from their seeds, trait by trait: clamped and repeated feedback too.
RecordsAccount ==
    answered = 0 =>
        \A t \in Traits :
            SumFunction([id \in DOMAIN profiles |->
                           profiles[id].vector[t] - Seed(profiles[id].birth)[t]])
            = SumFunction([i \in DOMAIN learned |->
                             IF t \in DOMAIN learned[i] THEN learned[i][t].new - learned[i][t].old
                             ELSE 0])

\* No two personalities are "ideal partners", though the table has that level: what a difference
\* adds to the balance it costs in similarity, and the best score there is is .8476.
IdealIsBeyondReach == reply # <<>> => reply.result.level # "ideal_partner"

\* The recommendation speaks of the level the report names: one is taken from the rounded score
\* and the other from the exact one, so they may differ only half a ten-thousandth below a limit.
AdviceMeetsLevel ==
    "report" \in DOMAIN reply =>
        \/ reply.report.recommendation = reply.result.level
        \/ \E i \in DOMAIN CompatibilityLevels :
              Over(CompatibilityLevels[i].low, reply.result.exact) \in 1..50

\* Asked the other way round, two profiles have the same similarity, values and behaviour; the
\* balance counts what the second adds to the first for more, and the level may move by one.
OrderShiftsOneLevel ==
    reply # <<>> =>
        LET back == Check(reply.b, reply.a)
            Place(name) == CHOOSE i \in DOMAIN CompatibilityLevels : CompatibilityLevels[i].name = name
        IN  /\ \A c \in DOMAIN Weights \ {"balance"} :
                 back.components[c] = reply.result.components[c]
            /\ Apart(Place(back.level), Place(reply.result.level)) <= 1

\* The levels: one is out of reach, the advice is about the one reported, and the order of the
\* two profiles matters for one step at most.
LevelsAsMeant == IdealIsBeyondReach /\ AdviceMeetsLevel /\ OrderShiftsOneLevel
=============================================================================
