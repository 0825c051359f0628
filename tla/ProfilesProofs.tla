----------------------------- MODULE ProfilesProofs -----------------------------
(***************************************************************************)
(* Proofs about the profiles and their scores, for any births, answers,      *)
(* feedback and vectors.  In order: sums over finite sets, by induction on   *)
(* their size; the range of every vector; the history as an account of how   *)
(* far the profiles moved; the bounds of a score; its level and its advice.  *)
(***************************************************************************)
EXTENDS Profiles, FiniteSetTheorems, WellFoundedInduction, SequenceTheorems, TLAPS

-----------------------------------------------------------------------------
(* Sums over finite sets. *)

\* The element of a set that a sum takes next.
Pick(s) == CHOOSE x \in s : TRUE

\* h sums f over the subsets of S.
Sums(h, f, S) == h = [s \in SUBSET S |-> IF s = {} THEN 0 ELSE f[Pick(s)] + h[s \ {Pick(s)}]]

\* In a set of numbers that is not empty there is a least one.
LEMMA Least ==
    ASSUME NEW T \in SUBSET Nat, T # {}
    PROVE  \E n \in T : \A m \in T : n <= m
<1> DEFINE Less == OpToRel(<, Nat)
<1>1. IsWellFoundedOn(Less, Nat)  BY NatLessThanWellFounded
<1>2. \A a, b \in Nat : a < b => <<a, b>> \in Less  BY DEF OpToRel
<1> HIDE DEF Less
<1>3. PICK n \in T : \A m \in T : ~ (<<m, n>> \in Less)  BY <1>1, WFMin
<1>4. ASSUME NEW m \in T PROVE n <= m
  <2>1. m \in Nat /\ n \in Nat  OBVIOUS
  <2>2. ~ (m < n)  BY <1>2, <1>3, <2>1
  <2>3. QED  BY <2>1, <2>2
<1>5. QED  BY <1>4

\* A sum of the library is the value, at its set, of a function that sums over the subsets.
LEMMA SumIsChosen ==
    ASSUME NEW f, NEW S
    PROVE  SumFunctionOnSet(f, S) = (CHOOSE h : Sums(h, f, S))[S]
BY DEF SumFunctionOnSet, FoldFunctionOnSet, MapThenFoldSet, Sums, Pick

\* The sum of a finite set: there is one.
LEMMA SumExists ==
    ASSUME NEW f, NEW S, IsFiniteSet(S)
    PROVE  \E h : Sums(h, f, S)
<1> DEFINE Has(n) == \E h : \A s \in SUBSET S : Cardinality(s) <= n =>
                        h[s] = IF s = {} THEN 0 ELSE f[Pick(s)] + h[s \ {Pick(s)}]
           Fails == {n \in Nat : ~ Has(n)}
<1>1. Cardinality(S) \in Nat  BY FS_CardinalityType
<1>2. \A s \in SUBSET S : IsFiniteSet(s) /\ Cardinality(s) \in Nat /\ Cardinality(s) <= Cardinality(S)
  BY FS_Subset, FS_CardinalityType
<1>3. \A s \in SUBSET S : s # {} =>
         /\ Pick(s) \in s /\ s \ {Pick(s)} \in SUBSET S
         /\ Cardinality(s \ {Pick(s)}) = Cardinality(s) - 1
  <2> SUFFICES ASSUME NEW s \in SUBSET S, s # {}
               PROVE  /\ Pick(s) \in s /\ s \ {Pick(s)} \in SUBSET S
                      /\ Cardinality(s \ {Pick(s)}) = Cardinality(s) - 1
    OBVIOUS
  <2>1. Pick(s) \in s  BY DEF Pick
  <2>2. QED  BY <2>1, <1>2, FS_RemoveElement
<1>4. \A s \in SUBSET S : Cardinality(s) = 0 <=> s = {}  BY <1>2, FS_EmptySet
<1>5. Has(0)
  <2> DEFINE h == [s \in SUBSET S |-> 0]
  <2>1. \A s \in SUBSET S : Cardinality(s) <= 0 =>
            h[s] = IF s = {} THEN 0 ELSE f[Pick(s)] + h[s \ {Pick(s)}]
    BY <1>2, <1>4
  <2> HIDE DEF h
  <2>2. QED  BY <2>1
<1>6. ASSUME NEW n \in Nat, Has(n) PROVE Has(n + 1)
  <2>1. PICK h : \A s \in SUBSET S : Cardinality(s) <= n =>
            h[s] = IF s = {} THEN 0 ELSE f[Pick(s)] + h[s \ {Pick(s)}]
    BY <1>6
  <2> DEFINE g == [s \in SUBSET S |-> IF s = {} THEN 0 ELSE
                      f[Pick(s)] + (IF s \ {Pick(s)} = {} THEN 0 ELSE h[s \ {Pick(s)}])]
  <2>2. ASSUME NEW s \in SUBSET S, Cardinality(s) <= n PROVE g[s] = h[s]
    <3>1. CASE s = {}  BY <2>1, <2>2, <3>1
    <3>2. CASE s # {}
      <4>1. s \ {Pick(s)} \in SUBSET S /\ Cardinality(s \ {Pick(s)}) <= n  BY <1>2, <1>3, <2>2, <3>2
      <4>2. s \ {Pick(s)} = {} => h[s \ {Pick(s)}] = 0  BY <4>1, <2>1
      <4>3. QED  BY <2>1, <2>2, <3>2, <4>2
    <3>3. QED  BY <3>1, <3>2
  <2>3. ASSUME NEW s \in SUBSET S, Cardinality(s) <= n + 1
        PROVE  g[s] = IF s = {} THEN 0 ELSE f[Pick(s)] + g[s \ {Pick(s)}]
    <3>1. CASE s = {}  BY <3>1
    <3>2. CASE s # {}
      <4>1. s \ {Pick(s)} \in SUBSET S /\ Cardinality(s \ {Pick(s)}) <= n  BY <1>2, <1>3, <2>3, <3>2
      <4>2. g[s \ {Pick(s)}] = h[s \ {Pick(s)}]  BY <4>1, <2>2
      <4>3. s \ {Pick(s)} = {} => h[s \ {Pick(s)}] = 0  BY <4>1, <2>1
      <4>4. g[s] = f[Pick(s)] + (IF s \ {Pick(s)} = {} THEN 0 ELSE h[s \ {Pick(s)}])  BY <3>2
      <4> HIDE DEF g
      <4>5. QED  BY <3>2, <4>2, <4>3, <4>4
    <3>3. QED  BY <3>1, <3>2
  <2> HIDE DEF g
  <2>4. QED  BY <2>3
<1> HIDE DEF Has
<1>7. Fails = {}
  <2> SUFFICES ASSUME Fails # {} PROVE FALSE  OBVIOUS
  <2>1. PICK n \in Fails : \A m \in Fails : n <= m  BY Least
  <2>2. n # 0 /\ n \in Nat  BY <1>5
  <2>3. n - 1 \in Nat /\ n - 1 \notin Fails  BY <2>1, <2>2
  <2>4. Has(n - 1 + 1)  BY <2>3, <1>6
  <2>5. n - 1 + 1 = n  BY <2>2
  <2>6. QED  BY <2>4, <2>5
<1>8. Has(Cardinality(S))  BY <1>1, <1>7
<1>9. PICK h : \A s \in SUBSET S : Cardinality(s) <= Cardinality(S) =>
                  h[s] = IF s = {} THEN 0 ELSE f[Pick(s)] + h[s \ {Pick(s)}]
  BY <1>8 DEF Has
<1>10. DEFINE g == [s \in SUBSET S |-> h[s]]
<1>11. g = [s \in SUBSET S |-> IF s = {} THEN 0 ELSE f[Pick(s)] + g[s \ {Pick(s)}]]
  <2>1. \A s \in SUBSET S : g[s] = IF s = {} THEN 0 ELSE f[Pick(s)] + g[s \ {Pick(s)}]
    BY <1>2, <1>3, <1>9
  <2>2. g = [s \in SUBSET S |-> g[s]]  OBVIOUS
  <2> HIDE DEF g
  <2>3. QED  BY <2>1, <2>2, Zenon
<1>12. QED  BY <1>11 DEF Sums

\* Among the subsets of a finite set that are in B, one has in B nothing with an element less.
LEMMA Smallest ==
    ASSUME NEW S, IsFiniteSet(S), NEW B \in SUBSET SUBSET S, B # {}
    PROVE  \E s \in B : IsFiniteSet(s) /\ \A x \in s : s \ {x} \notin B
<1> DEFINE Sizes == {Cardinality(s) : s \in B}
<1>1. \A s \in SUBSET S : IsFiniteSet(s) /\ Cardinality(s) \in Nat
  BY FS_Subset, FS_CardinalityType
<1>2. Sizes \in SUBSET Nat /\ Sizes # {}  BY <1>1
<1>3. PICK n \in Sizes : \A m \in Sizes : n <= m  BY <1>2, Least
<1>4. PICK s \in B : Cardinality(s) = n  OBVIOUS
<1>5. ASSUME NEW x \in s, s \ {x} \in B PROVE FALSE
  <2>1. Cardinality(s \ {x}) = Cardinality(s) - 1  BY <1>1, FS_RemoveElement
  <2>2. Cardinality(s \ {x}) \in Sizes  BY <1>5
  <2>3. QED  BY <1>1, <1>3, <1>4, <2>1, <2>2
<1>6. QED  BY <1>1, <1>4, <1>5

\* Two such functions agree where what they sum agrees, whatever sets they are for.
LEMMA SumsAgree ==
    ASSUME NEW f, NEW g, NEW S, NEW T, NEW h, NEW k, Sums(h, f, S), Sums(k, g, T),
           IsFiniteSet(S), NEW U, U \subseteq S, U \subseteq T, \A x \in U : f[x] = g[x]
    PROVE  h[U] = k[U]
<1> DEFINE B == {s \in SUBSET U : h[s] # k[s]}
<1>1. SUFFICES ASSUME B # {} PROVE FALSE  OBVIOUS
<1>2. IsFiniteSet(U)  BY FS_Subset
<1>3. PICK s \in B : \A x \in s : s \ {x} \notin B
  <2> HIDE DEF B
  <2>1. B \in SUBSET SUBSET U  BY DEF B
  <2>2. QED  BY <1>1, <1>2, <2>1, Smallest
<1>4. h[s] = IF s = {} THEN 0 ELSE f[Pick(s)] + h[s \ {Pick(s)}]  BY DEF Sums
<1>5. k[s] = IF s = {} THEN 0 ELSE g[Pick(s)] + k[s \ {Pick(s)}]  BY DEF Sums
<1>6. s # {}  BY <1>4, <1>5
<1>7. Pick(s) \in s  BY <1>6 DEF Pick
<1>8. h[s \ {Pick(s)}] = k[s \ {Pick(s)}] /\ f[Pick(s)] = g[Pick(s)]  BY <1>3, <1>7
<1>9. QED  BY <1>4, <1>5, <1>6, <1>8

\* So the sum of a subset is the value there of the function for the whole set.
LEMMA SumIs ==
    ASSUME NEW f, NEW S, IsFiniteSet(S), NEW h, Sums(h, f, S), NEW U, U \subseteq S
    PROVE  SumFunctionOnSet(f, U) = h[U]
<1> DEFINE k == CHOOSE k : Sums(k, f, U)
<1>1. Sums(k, f, U)  BY FS_Subset, SumExists
<1>2. SumFunctionOnSet(f, U) = k[U]  BY SumIsChosen
<1> HIDE DEF k
<1>3. QED  BY <1>1, <1>2, FS_Subset, SumsAgree

\* Nothing sums to 0.
LEMMA SumEmpty ==
    ASSUME NEW f
    PROVE  SumFunctionOnSet(f, {}) = 0
<1>1. IsFiniteSet({})  BY FS_EmptySet
<1>2. PICK h : Sums(h, f, {})  BY <1>1, SumExists
<1>3. h[{}] = 0  BY <1>2 DEF Sums
<1>4. QED  BY <1>1, <1>2, <1>3, SumIs

\* A sum is the element that is picked and the sum of the others.
LEMMA SumPick ==
    ASSUME NEW f, NEW S, IsFiniteSet(S), S # {}
    PROVE  /\ Pick(S) \in S
           /\ SumFunctionOnSet(f, S) = f[Pick(S)] + SumFunctionOnSet(f, S \ {Pick(S)})
<1>1. PICK h : Sums(h, f, S)  BY SumExists
<1>2. Pick(S) \in S  BY DEF Pick
<1>3. h[S] = f[Pick(S)] + h[S \ {Pick(S)}]  BY <1>1 DEF Sums
<1>4. SumFunctionOnSet(f, S) = h[S]  BY <1>1, SumIs
<1>5. SumFunctionOnSet(f, S \ {Pick(S)}) = h[S \ {Pick(S)}]  BY <1>1, SumIs
<1>6. QED  BY <1>2, <1>3, <1>4, <1>5

\* Functions that agree on a set have the same sum there.
LEMMA SumSame ==
    ASSUME NEW f, NEW g, NEW S, IsFiniteSet(S), \A x \in S : f[x] = g[x]
    PROVE  SumFunctionOnSet(f, S) = SumFunctionOnSet(g, S)
<1>1. PICK h : Sums(h, f, S)  BY SumExists
<1>2. PICK k : Sums(k, g, S)  BY SumExists
<1>3. h[S] = k[S]  BY <1>1, <1>2, SumsAgree
<1>4. QED  BY <1>1, <1>2, <1>3, SumIs

\* A finite sum of integers is an integer.
LEMMA SumInt ==
    ASSUME NEW f, NEW S, IsFiniteSet(S), \A x \in S : f[x] \in Int
    PROVE  SumFunctionOnSet(f, S) \in Int
<1> DEFINE B == {s \in SUBSET S : SumFunctionOnSet(f, s) \notin Int}
<1>1. SUFFICES ASSUME B # {} PROVE FALSE  OBVIOUS
<1>2. PICK s \in B : IsFiniteSet(s) /\ \A x \in s : s \ {x} \notin B
  <2> HIDE DEF B
  <2>1. B \in SUBSET SUBSET S  BY DEF B
  <2>2. QED  BY <1>1, <2>1, Smallest
<1>3. CASE s = {}  BY <1>3, SumEmpty
<1>4. CASE s # {}
  <2>1. Pick(s) \in s /\ SumFunctionOnSet(f, s) = f[Pick(s)] + SumFunctionOnSet(f, s \ {Pick(s)})
    BY <1>2, <1>4, SumPick
  <2>2. SumFunctionOnSet(f, s \ {Pick(s)}) \in Int /\ f[Pick(s)] \in Int  BY <1>2, <2>1
  <2>3. QED  BY <2>1, <2>2
<1>5. QED  BY <1>3, <1>4

\* Any element may be the one that is taken out of a sum of integers.
LEMMA SumTakeOut ==
    ASSUME NEW f, NEW S, IsFiniteSet(S), \A x \in S : f[x] \in Int, NEW x \in S
    PROVE  SumFunctionOnSet(f, S) = f[x] + SumFunctionOnSet(f, S \ {x})
<1> DEFINE Out(s, z) == SumFunctionOnSet(f, s) = f[z] + SumFunctionOnSet(f, s \ {z})
           B == {s \in SUBSET S : \E z \in s : ~ Out(s, z)}
<1>1. SUFFICES ASSUME B # {} PROVE FALSE  OBVIOUS
<1>2. PICK s \in B : IsFiniteSet(s) /\ \A z \in s : s \ {z} \notin B
  <2> HIDE DEF B
  <2>1. B \in SUBSET SUBSET S  BY DEF B
  <2>2. QED  BY <1>1, <2>1, Smallest
<1>3. PICK z \in s : ~ Out(s, z)  OBVIOUS
<1> DEFINE y == Pick(s)
<1>4. y \in s /\ Out(s, y)  BY <1>2, SumPick
<1> HIDE DEF y
<1>5. y # z  BY <1>3, <1>4
<1>6. Out(s \ {y}, z) /\ Out(s \ {z}, y)  BY <1>2, <1>3, <1>4, <1>5
<1>7. (s \ {y}) \ {z} = (s \ {z}) \ {y}  OBVIOUS
<1>8. SumFunctionOnSet(f, (s \ {z}) \ {y}) \in Int  BY <1>2, FS_Subset, SumInt
<1>9. f[y] \in Int /\ f[z] \in Int  BY <1>3, <1>4
<1>10. SumFunctionOnSet(f, s \ {y}) = f[z] + SumFunctionOnSet(f, (s \ {z}) \ {y})
  BY <1>6, <1>7, Zenon
<1>11. SumFunctionOnSet(f, s) = f[z] + SumFunctionOnSet(f, s \ {z})
  <2>1. SumFunctionOnSet(f, s) = f[y] + SumFunctionOnSet(f, s \ {y})  BY <1>4
  <2>2. SumFunctionOnSet(f, s \ {z}) = f[y] + SumFunctionOnSet(f, (s \ {z}) \ {y})  BY <1>6
  <2>3. QED  BY <2>1, <2>2, <1>8, <1>9, <1>10
<1>12. QED  BY <1>3, <1>11

\* The sum of the values of one function less those of another, where the second is not above.
LEMMA SumBelow ==
    ASSUME NEW f, NEW g, NEW S, IsFiniteSet(S),
           \A x \in S : f[x] \in Int /\ g[x] \in Int /\ f[x] <= g[x]
    PROVE  SumFunctionOnSet(f, S) <= SumFunctionOnSet(g, S)
<1> DEFINE B == {s \in SUBSET S : ~ (SumFunctionOnSet(f, s) <= SumFunctionOnSet(g, s))}
<1>1. SUFFICES ASSUME B # {} PROVE FALSE  OBVIOUS
<1>2. PICK s \in B : IsFiniteSet(s) /\ \A z \in s : s \ {z} \notin B
  <2> HIDE DEF B
  <2>1. B \in SUBSET SUBSET S  BY DEF B
  <2>2. QED  BY <1>1, <2>1, Smallest
<1>3. s # {}
  <2>1. SUFFICES ASSUME s = {} PROVE FALSE  OBVIOUS
  <2>2. QED  BY <2>1, SumEmpty
<1>4. PICK x \in s : TRUE  BY <1>3
<1>5. SumFunctionOnSet(f, s) = f[x] + SumFunctionOnSet(f, s \ {x})  BY <1>2, SumTakeOut
<1>6. SumFunctionOnSet(g, s) = g[x] + SumFunctionOnSet(g, s \ {x})  BY <1>2, SumTakeOut
<1>7. SumFunctionOnSet(f, s \ {x}) \in Int /\ SumFunctionOnSet(g, s \ {x}) \in Int
  BY <1>2, FS_Subset, SumInt
<1>8. SumFunctionOnSet(f, s \ {x}) <= SumFunctionOnSet(g, s \ {x})  BY <1>2
<1> HIDE DEF B
<1>9. s \in SUBSET S /\ ~ (SumFunctionOnSet(f, s) <= SumFunctionOnSet(g, s))  BY DEF B
<1>10. QED  BY <1>5, <1>6, <1>7, <1>8, <1>9
\* One value is another one.
LEMMA SumChanged ==
    ASSUME NEW f, NEW g, NEW S, IsFiniteSet(S), NEW c \in S,
           \A x \in S : f[x] \in Int /\ g[x] \in Int,
           \A x \in S \ {c} : f[x] = g[x]
    PROVE  SumFunctionOnSet(g, S) = SumFunctionOnSet(f, S) - f[c] + g[c]
<1>1. IsFiniteSet(S \ {c})  BY FS_Subset
<1>2. SumFunctionOnSet(f, S \ {c}) = SumFunctionOnSet(g, S \ {c})  BY <1>1, SumSame
<1>3. SumFunctionOnSet(f, S) = f[c] + SumFunctionOnSet(f, S \ {c})  BY SumTakeOut
<1>4. SumFunctionOnSet(g, S) = g[c] + SumFunctionOnSet(g, S \ {c})  BY SumTakeOut
<1>5. SumFunctionOnSet(f, S \ {c}) \in Int  BY <1>1, SumInt
<1>6. QED  BY <1>2, <1>3, <1>4, <1>5

\* There is one value more.
LEMMA SumGrown ==
    ASSUME NEW f, NEW g, NEW S, IsFiniteSet(S), NEW c, c \notin S,
           \A x \in S : f[x] \in Int, g[c] \in Int,
           \A x \in S : f[x] = g[x]
    PROVE  SumFunctionOnSet(g, S \cup {c}) = SumFunctionOnSet(f, S) + g[c]
<1> DEFINE T == S \cup {c}
<1>1. IsFiniteSet(T)  BY FS_AddElement
<1>2. T \ {c} = S /\ c \in T /\ \A x \in T : g[x] \in Int  OBVIOUS
<1> HIDE DEF T
<1>3. SumFunctionOnSet(g, T) = g[c] + SumFunctionOnSet(g, S)  BY <1>1, <1>2, SumTakeOut
<1>4. SumFunctionOnSet(f, S) = SumFunctionOnSet(g, S)  BY SumSame
<1>5. SumFunctionOnSet(f, S) \in Int  BY SumInt
<1>6. QED  BY <1>3, <1>4, <1>5 DEF T

\* The sum of a function is the one over its domain.
LEMMA SumOfFunction == \A f : SumFunction(f) = SumFunctionOnSet(f, DOMAIN f)
BY DEF SumFunction

-----------------------------------------------------------------------------
(* The tables are of integers, and vectors stay in the range of a trait. *)

\* A row of modifiers that are integers.
IntValued(f) == \A t \in DOMAIN f : f[t] \in Int

\* A row that gives the same number to some traits is of integers.
LEMMA GivenInt == \A n \in Int : \A S : IntValued(n**S)
BY DEF IntValued, **

\* Rows of integers add to a row of integers.
LEMMA AddedInt == \A f, g : IntValued(f) /\ IntValued(g) => IntValued(f ++ g)
BY DEF IntValued, ++, At0

\* The rows of the four elements are of integers.
LEMMA ElementsInt == \A e \in DOMAIN Elements : IntValued(Elements[e])
<1>1. \A n \in {20, 15, 10, -5, -10} : n \in Int  OBVIOUS
<1>2. DOMAIN Elements = {"fire", "earth", "air", "water"}  BY DEF Elements
<1>3. IntValued(Elements.fire)  BY <1>1, GivenInt, AddedInt DEF Elements
<1>4. IntValued(Elements.earth)  BY <1>1, GivenInt, AddedInt DEF Elements
<1>5. IntValued(Elements.air)  BY <1>1, GivenInt, AddedInt DEF Elements
<1>6. IntValued(Elements.water)  BY <1>1, GivenInt, AddedInt DEF Elements
<1>7. QED  BY <1>2, <1>3, <1>4, <1>5, <1>6

\* What is clamped is in the range of a trait.
LEMMA ClampInRange == \A x \in Int : Clamp(x) \in 0..One
BY SMTT(30) DEF Clamp, One

\* A vector stays in its range whatever modifiers are applied.
LEMMA ModifiedInRange ==
    ASSUME NEW v \in [Traits -> 0..One], NEW mods, IntValued(mods)
    PROVE  ApplyModifiers(v, mods) \in [Traits -> 0..One]
<1>1. ASSUME NEW t \in Traits
      PROVE  (IF t \in DOMAIN mods THEN Clamp(v[t] + 100 * mods[t]) ELSE v[t]) \in 0..One
  <2>1. CASE t \in DOMAIN mods
    <3>1. v[t] \in Int /\ mods[t] \in Int  BY <2>1 DEF IntValued
    <3>2. v[t] + 100 * mods[t] \in Int  BY <3>1
    <3>3. QED  BY <2>1, <3>2, ClampInRange
  <2>2. CASE t \notin DOMAIN mods  BY <2>2
  <2>3. QED  BY <2>1, <2>2
<1>2. QED  BY <1>1 DEF ApplyModifiers

\* The rows of the signs, the animals and the blood types are of integers.
LEMMA RowsInt ==
    /\ \A name \in DOMAIN SignSpecific : IntValued(SignSpecific[name])
    /\ \A animal \in DOMAIN Animals : IntValued(Animals[animal])
    /\ \A blood \in DOMAIN BloodTypes : IntValued(BloodTypes[blood])
<1>1. \A n \in {30, 25, 20, 15, 10, -5, -10, -15} : n \in Int  OBVIOUS
<1>2. \A name \in DOMAIN SignSpecific : IntValued(SignSpecific[name])
  <2>1. DOMAIN SignSpecific =
           {"aries", "taurus", "gemini", "cancer", "leo", "virgo", "libra", "scorpio",
            "sagittarius", "capricorn", "aquarius", "pisces"}
    BY DEF SignSpecific
  <2>2. IntValued(SignSpecific.aries)  BY <1>1, GivenInt, AddedInt DEF SignSpecific
  <2>3. IntValued(SignSpecific.taurus)  BY <1>1, GivenInt, AddedInt DEF SignSpecific
  <2>4. IntValued(SignSpecific.gemini)  BY <1>1, GivenInt, AddedInt DEF SignSpecific
  <2>5. IntValued(SignSpecific.cancer)  BY <1>1, GivenInt, AddedInt DEF SignSpecific
  <2>6. IntValued(SignSpecific.leo)  BY <1>1, GivenInt, AddedInt DEF SignSpecific
  <2>7. IntValued(SignSpecific.virgo)  BY <1>1, GivenInt, AddedInt DEF SignSpecific
  <2>8. IntValued(SignSpecific.libra)  BY <1>1, GivenInt, AddedInt DEF SignSpecific
  <2>9. IntValued(SignSpecific.scorpio)  BY <1>1, GivenInt, AddedInt DEF SignSpecific
  <2>10. IntValued(SignSpecific.sagittarius)  BY <1>1, GivenInt, AddedInt DEF SignSpecific
  <2>11. IntValued(SignSpecific.capricorn)  BY <1>1, GivenInt, AddedInt DEF SignSpecific
  <2>12. IntValued(SignSpecific.aquarius)  BY <1>1, GivenInt, AddedInt DEF SignSpecific
  <2>13. IntValued(SignSpecific.pisces)  BY <1>1, GivenInt, AddedInt DEF SignSpecific
  <2>14. QED
    BY <2>1, <2>2, <2>3, <2>4, <2>5, <2>6, <2>7, <2>8, <2>9, <2>10, <2>11, <2>12, <2>13
<1>3. \A animal \in DOMAIN Animals : IntValued(Animals[animal])
  <2>1. DOMAIN Animals =
           {"lion", "cheetah", "elephant", "koala", "black_panther", "wolf", "eagle", "dolphin",
            "owl", "cat", "bear", "fox"}
    BY DEF Animals
  <2>2. IntValued(Animals.lion)  BY <1>1, GivenInt, AddedInt DEF Animals
  <2>3. IntValued(Animals.cheetah)  BY <1>1, GivenInt, AddedInt DEF Animals
  <2>4. IntValued(Animals.elephant)  BY <1>1, GivenInt, AddedInt DEF Animals
  <2>5. IntValued(Animals.koala)  BY <1>1, GivenInt, AddedInt DEF Animals
  <2>6. IntValued(Animals.black_panther)  BY <1>1, GivenInt, AddedInt DEF Animals
  <2>7. IntValued(Animals.wolf)  BY <1>1, GivenInt, AddedInt DEF Animals
  <2>8. IntValued(Animals.eagle)  BY <1>1, GivenInt, AddedInt DEF Animals
  <2>9. IntValued(Animals.dolphin)  BY <1>1, GivenInt, AddedInt DEF Animals
  <2>10. IntValued(Animals.owl)  BY <1>1, GivenInt, AddedInt DEF Animals
  <2>11. IntValued(Animals.cat)  BY <1>1, GivenInt, AddedInt DEF Animals
  <2>12. IntValued(Animals.bear)  BY <1>1, GivenInt, AddedInt DEF Animals
  <2>13. IntValued(Animals.fox)  BY <1>1, GivenInt, AddedInt DEF Animals
  <2>14. QED
    BY <2>1, <2>2, <2>3, <2>4, <2>5, <2>6, <2>7, <2>8, <2>9, <2>10, <2>11, <2>12, <2>13
<1>4. \A blood \in DOMAIN BloodTypes : IntValued(BloodTypes[blood])
  <2>1. DOMAIN BloodTypes = {"A", "B", "O", "AB"}  BY DEF BloodTypes
  <2>2. IntValued(BloodTypes.A)  BY <1>1, GivenInt, AddedInt DEF BloodTypes
  <2>3. IntValued(BloodTypes.B)  BY <1>1, GivenInt, AddedInt DEF BloodTypes
  <2>4. IntValued(BloodTypes.O)  BY <1>1, GivenInt, AddedInt DEF BloodTypes
  <2>5. IntValued(BloodTypes.AB)  BY <1>1, GivenInt, AddedInt DEF BloodTypes
  <2>6. QED  BY <2>1, <2>2, <2>3, <2>4, <2>5
<1>5. QED  BY <1>2, <1>3, <1>4

\* Every sign has an element and a row.
LEMMA SignsInTables ==
    \A i \in DOMAIN Signs : Signs[i].element \in DOMAIN Elements /\ Signs[i].name \in DOMAIN SignSpecific
<1>1. DOMAIN Elements = {"fire", "earth", "air", "water"}  BY DEF Elements
<1>2. DOMAIN SignSpecific =
         {"aries", "taurus", "gemini", "cancer", "leo", "virgo", "libra", "scorpio",
          "sagittarius", "capricorn", "aquarius", "pisces"}
  BY DEF SignSpecific
<1>3. ASSUME NEW i \in DOMAIN Signs
      PROVE  /\ Signs[i].element \in {"fire", "earth", "air", "water"}
             /\ Signs[i].name \in
                   {"aries", "taurus", "gemini", "cancer", "leo", "virgo", "libra", "scorpio",
                    "sagittarius", "capricorn", "aquarius", "pisces"}
  <2>1. i \in 1..12  BY DEF Signs
  <2>2. CASE i \in 1..3  BY <2>2 DEF Signs, Sign
  <2>3. CASE i \in 4..6  BY <2>3 DEF Signs, Sign
  <2>4. CASE i \in 7..9  BY <2>4 DEF Signs, Sign
  <2>5. CASE i \in 10..12  BY <2>5 DEF Signs, Sign
  <2>6. i \in 1..3 \/ i \in 4..6 \/ i \in 7..9 \/ i \in 10..12  BY <2>1
  <2>7. QED  BY <2>2, <2>3, <2>4, <2>5, <2>6
<1>4. QED  BY <1>1, <1>2, <1>3

\* So are the modifiers a profile is made from, also of names the tables do not know.
LEMMA ModifiersInt ==
    /\ \A name : IntValued(ZodiacModifiers(name))
    /\ \A animal : IntValued(Row(Animals, animal))
    /\ \A blood : IntValued(Row(BloodTypes, blood))
<1>1. IntValued(<<>>)  BY DEF IntValued
<1>2. ASSUME NEW name PROVE IntValued(ZodiacModifiers(name))
  <2>1. CASE \E i \in DOMAIN Signs : Signs[i].name = name
    <3> DEFINE i == CHOOSE i \in DOMAIN Signs : Signs[i].name = name
    <3>1. i \in DOMAIN Signs /\ Signs[i].name = name  BY <2>1
    <3>2. ZodiacModifiers(name) = Elements[Signs[i].element] ++ SignSpecific[name]
      BY <2>1 DEF ZodiacModifiers
    <3> HIDE DEF i
    <3>3. QED  BY <3>1, <3>2, SignsInTables, ElementsInt, RowsInt, AddedInt
  <2>2. CASE ~ \E i \in DOMAIN Signs : Signs[i].name = name
    BY <1>1, <2>2 DEF ZodiacModifiers
  <2>3. QED  BY <2>1, <2>2
<1>3. QED  BY <1>1, <1>2, RowsInt DEF Row

\* A vector that a request spells out is brought into the range.
LEMMA GivenVectorInRange ==
    ASSUME NEW given, IntValued(given)
    PROVE  Vector(given) \in [Traits -> 0..One]
<1>1. Half \in 0..One  BY DEF Half, One
<1>2. \A t \in Traits : (IF t \in DOMAIN given THEN Clamp(given[t]) ELSE Half) \in 0..One
  BY <1>1, ClampInRange DEF IntValued
<1>3. QED  BY <1>2 DEF Vector

\* The vector a profile starts with is in the range.
LEMMA SeedInRange == \A birth : Seed(birth) \in [Traits -> 0..One]
<1> TAKE birth
<1> DEFINE zodiac == ApplyModifiers(Vector(<<>>), ZodiacModifiers(DetermineZodiac(birth.day)))
           animal == ApplyModifiers(zodiac, Row(Animals, birth.animal))
<1>1. zodiac \in [Traits -> 0..One]
  <2>1. IntValued(<<>>)  BY DEF IntValued
  <2>2. QED  BY <2>1, GivenVectorInRange, ModifiedInRange, ModifiersInt
<1>2. animal \in [Traits -> 0..One]
  <2> HIDE DEF zodiac
  <2>1. QED  BY <1>1, ModifiedInRange, ModifiersInt
<1>3. Seed(birth) = ApplyModifiers(animal, Row(BloodTypes, birth.blood))  BY DEF Seed
<1> HIDE DEF animal
<1>4. QED  BY <1>2, <1>3, ModifiedInRange, ModifiersInt

\* The questions and what their choices add.
LEMMA QuestionsInt ==
    /\ DOMAIN Questions = 1..8
    /\ \A q \in DOMAIN Questions : \A i \in 1..Len(Questions[q]) : IntValued(Questions[q][i])
<1>1. \A n \in {15, 10, 5, -10} : n \in Int  OBVIOUS
<1>2. DOMAIN Questions = 1..8  BY DEF Questions
<1>3. \A i \in 1..Len(Questions[1]) : IntValued(Questions[1][i])  BY <1>1, GivenInt, AddedInt DEF Questions
<1>4. \A i \in 1..Len(Questions[2]) : IntValued(Questions[2][i])  BY <1>1, GivenInt, AddedInt DEF Questions
<1>5. \A i \in 1..Len(Questions[3]) : IntValued(Questions[3][i])  BY <1>1, GivenInt, AddedInt DEF Questions
<1>6. \A i \in 1..Len(Questions[4]) : IntValued(Questions[4][i])  BY <1>1, GivenInt, AddedInt DEF Questions
<1>7. \A i \in 1..Len(Questions[5]) : IntValued(Questions[5][i])  BY <1>1, GivenInt, AddedInt DEF Questions
<1>8. \A i \in 1..Len(Questions[6]) : IntValued(Questions[6][i])  BY <1>1, GivenInt, AddedInt DEF Questions
<1>9. \A i \in 1..Len(Questions[7]) : IntValued(Questions[7][i])  BY <1>1, GivenInt, AddedInt DEF Questions
<1>10. \A i \in 1..Len(Questions[8]) : IntValued(Questions[8][i])  BY <1>1, GivenInt, AddedInt DEF Questions
<1>11. QED  BY <1>2, <1>3, <1>4, <1>5, <1>6, <1>7, <1>8, <1>9, <1>10

\* What answers add, the ones out of range included, is of integers.
LEMMA AnswersInt ==
    ASSUME NEW answers \in Answers
    PROVE  IntValued(AnswerModifiers(answers))
<1>1. ASSUME NEW q \in DOMAIN Questions PROVE IntValued(Picked(answers, q))
  <2>1. CASE q \in DOMAIN answers /\ answers[q] >= 0 /\ answers[q] < Len(Questions[q])
    <3>1. answers[q] \in Int  BY <2>1, ProfilesAssumption
    <3>2. Len(Questions[q]) \in Nat
      <4>1. DOMAIN Questions = 1..8  BY QuestionsInt
      <4>2. QED  BY <4>1 DEF Questions
    <3>3. answers[q] + 1 \in 1..Len(Questions[q])  BY <2>1, <3>1, <3>2
    <3>4. QED  BY <2>1, <3>3, QuestionsInt DEF Picked
  <2>2. CASE ~ (q \in DOMAIN answers /\ answers[q] >= 0 /\ answers[q] < Len(Questions[q]))
    BY <2>2 DEF Picked, IntValued
  <2>3. QED  BY <2>1, <2>2
<1>2. ASSUME NEW t
      PROVE  SumFunction([q \in DOMAIN Questions |-> At0(Picked(answers, q), t)]) \in Int
  <2> DEFINE f == [q \in DOMAIN Questions |-> At0(Picked(answers, q), t)]
  <2>1. \A g : IntValued(g) => At0(g, t) \in Int  BY DEF At0, IntValued
  <2>2. ASSUME NEW q \in DOMAIN Questions PROVE f[q] \in Int
    <3>1. At0(Picked(answers, q), t) \in Int  BY <1>1, <2>1
    <3>2. f[q] = At0(Picked(answers, q), t)  OBVIOUS
    <3>3. QED  BY <3>1, <3>2, Zenon
  <2>3. IsFiniteSet(DOMAIN Questions)
    <3>1. 8 \in Int  OBVIOUS
    <3>2. PICK n \in Int : DOMAIN Questions = 1..n  BY <3>1, QuestionsInt, Zenon
    <3>3. QED  BY <3>2, FS_Interval
  <2>4. DOMAIN f = DOMAIN Questions  OBVIOUS
  <2> HIDE DEF f
  <2>5. SumFunction(f) \in Int  BY <2>2, <2>3, <2>4, SumInt, SumOfFunction
  <2>6. QED  BY <2>5 DEF f
<1>3. QED  BY <1>2 DEF AnswerModifiers, IntValued

-----------------------------------------------------------------------------
(* The records account for the profiles. *)

Changes == UNION {[DOMAIN lesson.traits -> [old : Int, new : Int]] : lesson \in Lessons}

\* The profiles by id, each with a vector in range, and the history of numbers.
VectorsOK ==
    /\ DOMAIN profiles \subseteq ProfileIds /\ IsFiniteSet(DOMAIN profiles)
    /\ profiles \in [DOMAIN profiles -> [birth : Births, vector : [Traits -> 0..One]]]
    /\ learned \in Seq(Changes) /\ Len(learned) <= MaxLessons
    /\ answered \in 0..MaxAnswered

\* A profile that is created has its seed.
LEMMA CreateKeepsVectors ==
    ASSUME VectorsOK, NEW id \in ProfileIds, NEW birth \in Births, Create(id, birth)
    PROVE  VectorsOK'
<1>1. DOMAIN profiles' = DOMAIN profiles \cup {id}  BY DEF Create
<1>2. IsFiniteSet(DOMAIN profiles')  BY <1>1, FS_AddElement DEF VectorsOK
<1>3. [birth |-> birth, vector |-> Seed(birth)] \in [birth : Births, vector : [Traits -> 0..One]]
  BY SeedInRange
<1>4. profiles' \in [DOMAIN profiles' -> [birth : Births, vector : [Traits -> 0..One]]]
  BY <1>1, <1>3 DEF Create, VectorsOK
<1>5. QED  BY <1>1, <1>2, <1>4 DEF Create, VectorsOK

\* Answers leave the vectors in their range.
LEMMA AnswerKeepsVectors ==
    ASSUME VectorsOK, NEW id \in ProfileIds, NEW answers \in Answers, Answer(id, answers)
    PROVE  VectorsOK'
<1> DEFINE v == ApplyModifiers(profiles[id].vector, AnswerModifiers(answers))
<1>1. id \in DOMAIN profiles  BY DEF Answer
<1>2. v \in [Traits -> 0..One]  BY <1>1, AnswersInt, ModifiedInRange DEF VectorsOK
<1>3. profiles' = [profiles EXCEPT ![id] = [profiles[id] EXCEPT !.vector = v]]  BY DEF Answer
<1> HIDE DEF v
<1>4. [profiles[id] EXCEPT !.vector = v] \in [birth : Births, vector : [Traits -> 0..One]]
  BY <1>1, <1>2 DEF VectorsOK
<1>5. DOMAIN profiles' = DOMAIN profiles
      /\ profiles' \in [DOMAIN profiles -> [birth : Births, vector : [Traits -> 0..One]]]
  BY <1>1, <1>3, <1>4 DEF VectorsOK
<1>6. answered' \in 0..MaxAnswered  BY ProfilesAssumption DEF Answer, VectorsOK
<1>7. QED  BY <1>5, <1>6 DEF Answer, VectorsOK

Taught(v, lesson) ==
    [t \in Traits |-> IF t \in DOMAIN lesson.traits THEN Adjusted(v, t, Delta(lesson, t)) ELSE v[t]]

\* Feedback leaves a vector in its range and records the trait before and after.
LEMMA TaughtInRange ==
    ASSUME NEW v \in [Traits -> 0..One], NEW lesson \in Lessons
    PROVE  /\ Taught(v, lesson) \in [Traits -> 0..One]
           /\ \A t \in DOMAIN lesson.traits : Change(v, lesson, t) \in [old : Int, new : Int]
           /\ \A t \in Traits : t \in DOMAIN lesson.traits =>
                 Change(v, lesson, t) = [old |-> v[t], new |-> Taught(v, lesson)[t]]
<1>1. Multiplier(lesson.type) \in Int  BY DEF Multiplier
<1>2. ASSUME NEW t \in DOMAIN lesson.traits
      PROVE  /\ t \in Traits => Adjusted(v, t, Delta(lesson, t)) \in 0..One
             /\ Adjusted(v, t, Delta(lesson, t)) \in Int
  <2>1. Delta(lesson, t) \in Int
    <3>1. lesson.traits[t] \in Int  BY ProfilesAssumption
    <3>2. QED  BY <1>1, <3>1 DEF Delta
  <2>2. CASE t \in Traits
    <3>1. v[t] \in 0..One /\ 0..One \subseteq Int  BY <2>2
    <3>2. v[t] + Delta(lesson, t) \in Int  BY <2>1, <3>1
    <3>3. QED  BY <2>2, <3>1, <3>2, ClampInRange DEF Adjusted
  <2>3. CASE t \notin Traits  BY <2>3 DEF Adjusted, Half
  <2>4. QED  BY <2>2, <2>3
<1>3. \A t : Value(v, t) \in Int  BY DEF Value, Half
<1>4. Taught(v, lesson) \in [Traits -> 0..One]  BY <1>2 DEF Taught
<1>5. \A t \in DOMAIN lesson.traits : Change(v, lesson, t) \in [old : Int, new : Int]
  BY <1>2, <1>3 DEF Change
<1>6. \A t \in Traits : t \in DOMAIN lesson.traits =>
         Change(v, lesson, t) = [old |-> v[t], new |-> Taught(v, lesson)[t]]
  BY DEF Change, Value, Taught
<1>7. QED  BY <1>4, <1>5, <1>6

\* Feedback adds one record, of integers.
LEMMA LearnKeepsVectors ==
    ASSUME VectorsOK, NEW id \in ProfileIds, NEW lesson \in Lessons, Learn(id, lesson)
    PROVE  VectorsOK'
<1> DEFINE v == profiles[id].vector
           record == [t \in DOMAIN lesson.traits |-> Change(v, lesson, t)]
<1>1. id \in DOMAIN profiles /\ v \in [Traits -> 0..One]  BY DEF Learn, VectorsOK
<1>2. profiles' = [profiles EXCEPT ![id] = [profiles[id] EXCEPT !.vector = Taught(v, lesson)]]
  BY DEF Learn, Taught
<1>3. learned' = Append(learned, record)  BY DEF Learn
<1>4. record \in Changes
  <2>1. record \in [DOMAIN lesson.traits -> [old : Int, new : Int]]  BY <1>1, TaughtInRange
  <2> HIDE DEF record
  <2>2. QED  BY <2>1 DEF Changes
<1>5. Taught(v, lesson) \in [Traits -> 0..One]  BY <1>1, TaughtInRange
<1> HIDE DEF record, v
<1>6. [profiles[id] EXCEPT !.vector = Taught(v, lesson)] \in [birth : Births, vector : [Traits -> 0..One]]
  BY <1>1, <1>5 DEF VectorsOK
<1>7. DOMAIN profiles' = DOMAIN profiles
      /\ profiles' \in [DOMAIN profiles -> [birth : Births, vector : [Traits -> 0..One]]]
  BY <1>1, <1>2, <1>6 DEF VectorsOK
<1>8. learned' \in Seq(Changes) /\ Len(learned') <= MaxLessons
  <2>1. Len(learned') = Len(learned) + 1 /\ learned' \in Seq(Changes)
    BY <1>3, <1>4, AppendProperties DEF VectorsOK
  <2>2. Len(learned) < MaxLessons /\ Len(learned) \in Nat  BY DEF Learn, VectorsOK
  <2>3. QED  BY <2>1, <2>2, ProfilesAssumption
<1>9. answered' = answered  BY DEF Learn
<1>10. QED  BY <1>7, <1>8, <1>9 DEF VectorsOK

\* No step takes a vector out of its range or the counters out of their bounds.
LEMMA VectorsStep == VectorsOK /\ [ProfilesNext]_profileVars => VectorsOK'
<1> SUFFICES ASSUME VectorsOK, [ProfilesNext]_profileVars PROVE VectorsOK'  OBVIOUS
<1>1. ASSUME NEW id \in ProfileIds, NEW birth \in Births, Create(id, birth) PROVE VectorsOK'
  BY <1>1, CreateKeepsVectors
<1>2. ASSUME NEW id \in ProfileIds, NEW answers \in Answers, Answer(id, answers) PROVE VectorsOK'
  BY <1>2, AnswerKeepsVectors
<1>3. ASSUME NEW id \in ProfileIds, NEW lesson \in Lessons, Learn(id, lesson) PROVE VectorsOK'
  BY <1>3, LearnKeepsVectors
<1>4. ASSUME UNCHANGED <<profiles, learned, answered>> PROVE VectorsOK'
  BY <1>4 DEF VectorsOK
<1>5. CASE ProfilesRestart
  <2>1. profiles' = <<>> /\ learned' = <<>> /\ answered' = 0  BY <1>5 DEF ProfilesRestart
  <2>2. DOMAIN profiles' = {} /\ IsFiniteSet({})  BY <2>1, FS_EmptySet
  <2>3. QED  BY <2>1, <2>2, ProfilesAssumption DEF VectorsOK
<1>6. CASE UNCHANGED profileVars  BY <1>4, <1>6 DEF profileVars
<1>7. \A i, j : CheckProfiles(i, j) => UNCHANGED <<profiles, learned, answered>>  BY DEF CheckProfiles
<1>8. \A g, h : CheckGiven(g, h) \/ ReportGiven(g, h) => UNCHANGED <<profiles, learned, answered>>
  BY DEF CheckGiven, ReportGiven
<1>9. QED  BY <1>1, <1>2, <1>3, <1>4, <1>5, <1>6, <1>7, <1>8 DEF ProfilesNext

\* How far each profile is from its seed in trait t, and what each record says of it.
Moves(ps, t) == [id \in DOMAIN ps |-> ps[id].vector[t] - Seed(ps[id].birth)[t]]
Records(h, t) == [i \in DOMAIN h |-> IF t \in DOMAIN h[i] THEN h[i][t].new - h[i][t].old ELSE 0]

\* Until answers are given, they sum to the same.
Accounted ==
    answered = 0 => \A t \in Traits :
        SumFunction(Moves(profiles, t)) = SumFunction(Records(learned, t))

RecordsInv == VectorsOK /\ Accounted

\* How far the profiles moved are integers, and so is their sum.
LEMMA MovesInt ==
    ASSUME NEW ps, IsFiniteSet(DOMAIN ps), NEW t \in Traits,
           ps \in [DOMAIN ps -> [birth : Births, vector : [Traits -> 0..One]]]
    PROVE  /\ DOMAIN Moves(ps, t) = DOMAIN ps
           /\ \A id \in DOMAIN ps : Moves(ps, t)[id] \in Int
           /\ SumFunction(Moves(ps, t)) = SumFunctionOnSet(Moves(ps, t), DOMAIN ps)
           /\ SumFunction(Moves(ps, t)) \in Int
<1>1. DOMAIN Moves(ps, t) = DOMAIN ps  BY DEF Moves
<1>2. ASSUME NEW id \in DOMAIN ps PROVE Moves(ps, t)[id] \in Int
  <2>1. ps[id].vector[t] \in 0..One  OBVIOUS
  <2>2. Seed(ps[id].birth)[t] \in 0..One  BY SeedInRange
  <2>3. 0..One \subseteq Int  OBVIOUS
  <2>4. Moves(ps, t)[id] = ps[id].vector[t] - Seed(ps[id].birth)[t]  BY DEF Moves
  <2>5. QED  BY <2>1, <2>2, <2>3, <2>4
<1>3. QED  BY <1>1, <1>2, SumInt, SumOfFunction

\* What the records say are integers, and so is their sum.
LEMMA RecordsInt ==
    ASSUME NEW h \in Seq(Changes), NEW t
    PROVE  /\ DOMAIN Records(h, t) = 1..Len(h) /\ IsFiniteSet(1..Len(h)) /\ Len(h) \in Nat
           /\ \A i \in 1..Len(h) : Records(h, t)[i] \in Int
           /\ SumFunction(Records(h, t)) = SumFunctionOnSet(Records(h, t), 1..Len(h))
           /\ SumFunction(Records(h, t)) \in Int
<1>1. Len(h) \in Nat /\ DOMAIN h = 1..Len(h)  OBVIOUS
<1>2. DOMAIN Records(h, t) = 1..Len(h)  BY <1>1 DEF Records
<1>3. IsFiniteSet(1..Len(h))  BY <1>1, FS_Interval
<1>4. ASSUME NEW i \in 1..Len(h) PROVE Records(h, t)[i] \in Int
  <2>1. h[i] \in Changes  BY <1>1
  <2>2. PICK lesson \in Lessons : h[i] \in [DOMAIN lesson.traits -> [old : Int, new : Int]]
    BY <2>1 DEF Changes
  <2>3. t \in DOMAIN h[i] => h[i][t].new \in Int /\ h[i][t].old \in Int  BY <2>2
  <2>4. Records(h, t)[i] = IF t \in DOMAIN h[i] THEN h[i][t].new - h[i][t].old ELSE 0
    BY <1>1 DEF Records
  <2>5. QED  BY <2>3, <2>4
<1>5. QED  BY <1>1, <1>2, <1>3, <1>4, SumInt, SumOfFunction

\* A profile that is created has not moved from its seed.
LEMMA CreateAccounted ==
    ASSUME RecordsInv, NEW id \in ProfileIds, NEW birth \in Births, Create(id, birth)
    PROVE  Accounted'
<1> SUFFICES ASSUME answered = 0, NEW t \in Traits
             PROVE  SumFunction(Moves(profiles', t)) = SumFunction(Records(learned', t))
  BY DEF Accounted, Create
<1>1. id \notin DOMAIN profiles /\ DOMAIN profiles' = DOMAIN profiles \cup {id}  BY DEF Create
<1>2. learned' = learned  BY DEF Create
<1>3. Moves(profiles', t)[id] = 0 /\ DOMAIN Moves(profiles', t) = DOMAIN profiles \cup {id}
  <2>1. profiles'[id] = [birth |-> birth, vector |-> Seed(birth)]  BY DEF Create
  <2>2. Seed(birth)[t] \in Int
    <3>1. Seed(birth)[t] \in 0..One  BY SeedInRange
    <3>2. QED  BY <3>1
  <2>3. QED  BY <1>1, <2>1, <2>2 DEF Moves
<1>4. \A x \in DOMAIN profiles : Moves(profiles, t)[x] = Moves(profiles', t)[x]
  <2>1. \A x \in DOMAIN profiles : profiles'[x] = profiles[x]  BY <1>1 DEF Create
  <2>2. QED  BY <1>1, <2>1 DEF Moves
<1>5. SumFunctionOnSet(Moves(profiles', t), DOMAIN profiles \cup {id}) =
         SumFunctionOnSet(Moves(profiles, t), DOMAIN profiles) + Moves(profiles', t)[id]
  BY <1>1, <1>3, <1>4, MovesInt, SumGrown DEF RecordsInv, VectorsOK
<1>6. SumFunctionOnSet(Moves(profiles, t), DOMAIN profiles) \in Int
  BY MovesInt DEF RecordsInv, VectorsOK
<1>7. SumFunction(Moves(profiles', t)) = SumFunction(Moves(profiles, t))
  BY <1>3, <1>5, <1>6, MovesInt, SumOfFunction DEF RecordsInv, VectorsOK
<1>8. QED  BY <1>2, <1>7 DEF RecordsInv, Accounted

\* Feedback moves one profile by what it records.
LEMMA LearnAccounted ==
    ASSUME RecordsInv, NEW id \in ProfileIds, NEW lesson \in Lessons, Learn(id, lesson)
    PROVE  Accounted'
<1> SUFFICES ASSUME answered = 0, NEW t \in Traits
             PROVE  SumFunction(Moves(profiles', t)) = SumFunction(Records(learned', t))
  BY DEF Accounted, Learn
<1> DEFINE v == profiles[id].vector
           n == Len(learned) + 1
           record == [x \in DOMAIN lesson.traits |-> Change(v, lesson, x)]
<1>1. VectorsOK /\ VectorsOK'  BY LearnKeepsVectors DEF RecordsInv
<1>2. id \in DOMAIN profiles /\ v \in [Traits -> 0..One]  BY <1>1 DEF Learn, VectorsOK
<1>3. profiles' = [profiles EXCEPT ![id] = [profiles[id] EXCEPT !.vector = Taught(v, lesson)]]
  BY DEF Learn, Taught
<1>4. learned' = Append(learned, record)  BY DEF Learn
<1> HIDE DEF v, record
<1>5. profiles'[id].vector = Taught(v, lesson) /\ profiles'[id].birth = profiles[id].birth
      /\ DOMAIN profiles' = DOMAIN profiles
      /\ \A x \in DOMAIN profiles \ {id} : profiles'[x] = profiles[x]
  BY <1>1, <1>2, <1>3 DEF VectorsOK
<1>6. \A x \in DOMAIN profiles \ {id} : Moves(profiles, t)[x] = Moves(profiles', t)[x]  BY <1>5 DEF Moves
<1>7. SumFunction(Moves(profiles', t)) =
         SumFunction(Moves(profiles, t)) - Moves(profiles, t)[id] + Moves(profiles', t)[id]
  <2>1. \A x \in DOMAIN profiles : Moves(profiles', t)[x] \in Int /\ Moves(profiles, t)[x] \in Int
    BY <1>1, <1>5, MovesInt DEF VectorsOK
  <2>2. DOMAIN Moves(profiles', t) = DOMAIN profiles /\ DOMAIN Moves(profiles, t) = DOMAIN profiles
        /\ IsFiniteSet(DOMAIN profiles)
    BY <1>1, <1>5, MovesInt DEF VectorsOK
  <2>3. QED  BY <1>2, <1>6, <2>1, <2>2, SumChanged, SumOfFunction
<1>8. Len(learned') = n /\ learned'[n] = record /\ n \in Nat
      /\ \A i \in 1..Len(learned) : learned'[i] = learned[i]
  BY <1>1, <1>4 DEF VectorsOK
<1>9. SumFunction(Records(learned', t)) = SumFunction(Records(learned, t)) + Records(learned', t)[n]
  <2>1. learned \in Seq(Changes) /\ learned' \in Seq(Changes)  BY <1>1 DEF VectorsOK
  <2>2. 1..n = (1..Len(learned)) \cup {n} /\ n \notin 1..Len(learned) /\ n \in 1..n
    <3>1. Len(learned) \in Nat  BY <2>1
    <3>2. QED  BY <3>1
  <2>3. \A i \in 1..Len(learned) : Records(learned, t)[i] = Records(learned', t)[i]
    <3>1. DOMAIN learned = 1..Len(learned) /\ DOMAIN learned' = 1..n  BY <1>8, <2>1
    <3>2. QED  BY <1>8, <2>2, <3>1 DEF Records
  <2>4. Records(learned', t)[n] \in Int /\ \A i \in 1..Len(learned) : Records(learned, t)[i] \in Int
    BY <1>8, <2>1, <2>2, RecordsInt
  <2>5. SumFunction(Records(learned', t)) = SumFunctionOnSet(Records(learned', t), 1..n)
        /\ SumFunction(Records(learned, t)) = SumFunctionOnSet(Records(learned, t), 1..Len(learned))
        /\ IsFiniteSet(1..Len(learned))
    BY <1>8, <2>1, RecordsInt
  <2> HIDE DEF n
  <2>6. SumFunctionOnSet(Records(learned', t), (1..Len(learned)) \cup {n}) =
           SumFunctionOnSet(Records(learned, t), 1..Len(learned)) + Records(learned', t)[n]
    <3> DEFINE f == Records(learned, t)
               g == Records(learned', t)
               S == 1..Len(learned)
    <3>1. IsFiniteSet(S) /\ n \notin S /\ g[n] \in Int
          /\ (\A i \in S : f[i] \in Int) /\ (\A i \in S : f[i] = g[i])
      BY <2>2, <2>3, <2>4, <2>5
    <3> HIDE DEF f, g, S
    <3>2. SumFunctionOnSet(g, S \cup {n}) = SumFunctionOnSet(f, S) + g[n]  BY <3>1, SumGrown
    <3>3. QED  BY <3>2 DEF f, g, S
  <2>7. QED  BY <2>2, <2>5, <2>6
<1>10. Records(learned', t)[n] = Moves(profiles', t)[id] - Moves(profiles, t)[id]
  <2>1. Moves(profiles, t)[id] = v[t] - Seed(profiles[id].birth)[t]  BY <1>2 DEF Moves, v
  <2>2. Moves(profiles', t)[id] = Taught(v, lesson)[t] - Seed(profiles[id].birth)[t]  BY <1>2, <1>5 DEF Moves
  <2>3. Records(learned', t)[n] = IF t \in DOMAIN record THEN record[t].new - record[t].old ELSE 0
    <3>1. DOMAIN learned' = 1..n /\ n \in 1..n  BY <1>1, <1>8 DEF VectorsOK
    <3>2. QED  BY <1>8, <3>1 DEF Records
  <2>4. DOMAIN record = DOMAIN lesson.traits  BY DEF record
  <2>5. v[t] \in Int /\ Taught(v, lesson)[t] \in Int /\ Seed(profiles[id].birth)[t] \in Int
    <3>1. v[t] \in 0..One /\ Taught(v, lesson)[t] \in 0..One /\ Seed(profiles[id].birth)[t] \in 0..One
      BY <1>2, TaughtInRange, SeedInRange
    <3>2. QED  BY <3>1
  <2>6. CASE t \in DOMAIN lesson.traits
    <3>1. record[t] = [old |-> v[t], new |-> Taught(v, lesson)[t]]
      BY <1>2, <2>6, TaughtInRange DEF record
    <3>2. QED  BY <2>1, <2>2, <2>3, <2>4, <2>5, <2>6, <3>1
  <2>7. CASE t \notin DOMAIN lesson.traits
    <3>1. Taught(v, lesson)[t] = v[t]  BY <2>7 DEF Taught
    <3>2. QED  BY <2>1, <2>2, <2>3, <2>4, <2>5, <2>7, <3>1
  <2>8. QED  BY <2>6, <2>7
<1>11. /\ SumFunction(Moves(profiles, t)) \in Int
       /\ Moves(profiles, t)[id] \in Int /\ Moves(profiles', t)[id] \in Int
  BY <1>1, <1>2, <1>5, MovesInt DEF VectorsOK
<1>12. SumFunction(Moves(profiles, t)) = SumFunction(Records(learned, t))
  BY DEF RecordsInv, Accounted
<1>13. QED  BY <1>7, <1>9, <1>10, <1>11, <1>12

\* Every step keeps the account: feedback on both sides, answers end it, a restart clears both.
LEMMA RecordsStep == RecordsInv /\ [ProfilesNext]_profileVars => RecordsInv'
<1> SUFFICES ASSUME RecordsInv, [ProfilesNext]_profileVars PROVE Accounted'
  BY VectorsStep DEF RecordsInv
<1>1. ASSUME NEW id \in ProfileIds, NEW birth \in Births, Create(id, birth) PROVE Accounted'
  BY <1>1, CreateAccounted
<1>2. ASSUME NEW id \in ProfileIds, NEW answers \in Answers, Answer(id, answers) PROVE Accounted'
  BY <1>2 DEF Answer, RecordsInv, VectorsOK, Accounted
<1>3. ASSUME NEW id \in ProfileIds, NEW lesson \in Lessons, Learn(id, lesson) PROVE Accounted'
  BY <1>3, LearnAccounted
<1>4. ASSUME UNCHANGED <<profiles, learned, answered>> PROVE Accounted'
  BY <1>4 DEF RecordsInv, Accounted
<1>5. CASE ProfilesRestart
  <2>1. profiles' = <<>> /\ learned' = <<>>  BY <1>5 DEF ProfilesRestart
  <2>2. \A t : DOMAIN Moves(<<>>, t) = {} /\ DOMAIN Records(<<>>, t) = {}  BY DEF Moves, Records
  <2>3. QED  BY <2>1, <2>2, SumEmpty, SumOfFunction DEF Accounted
<1>6. CASE UNCHANGED profileVars  BY <1>4, <1>6 DEF profileVars
<1>7. \A i, j : CheckProfiles(i, j) => UNCHANGED <<profiles, learned, answered>>  BY DEF CheckProfiles
<1>8. \A g, h : CheckGiven(g, h) \/ ReportGiven(g, h) => UNCHANGED <<profiles, learned, answered>>
  BY DEF CheckGiven, ReportGiven
<1>9. QED  BY <1>1, <1>2, <1>3, <1>4, <1>5, <1>6, <1>7, <1>8 DEF ProfilesNext

\* At the start there is nothing to account for.
LEMMA RecordsInit == ProfilesInit => RecordsInv
<1> SUFFICES ASSUME ProfilesInit PROVE RecordsInv  OBVIOUS
<1>1. profiles = <<>> /\ learned = <<>> /\ answered = 0  BY DEF ProfilesInit
<1>2. DOMAIN profiles = {} /\ DOMAIN learned = {} /\ IsFiniteSet({})  BY <1>1, FS_EmptySet
<1>3. VectorsOK  BY <1>1, <1>2, ProfilesAssumption DEF VectorsOK
<1>4. \A t : DOMAIN Moves(<<>>, t) = {} /\ DOMAIN Records(<<>>, t) = {}  BY DEF Moves, Records
<1>5. Accounted  BY <1>1, <1>4, SumEmpty, SumOfFunction DEF Accounted
<1>6. QED  BY <1>3, <1>5 DEF RecordsInv

\* The account is the property of the runs.
LEMMA RecordsSay == RecordsInv => RecordsAccount
BY DEF RecordsInv, Accounted, Moves, Records, RecordsAccount

\* As long as no answers were applied the learning history (PersonalityLearning._history)
\* accounts for how far all profiles together have moved from their seeds, for any number of
\* profiles, any births and any feedback.
THEOREM RecordsAreAccounts == ProfilesSpec => []RecordsAccount
BY RecordsInit, RecordsSay, RecordsStep, PTL DEF ProfilesSpec

-----------------------------------------------------------------------------
(* The sums a score is made of, written out.  Scores are numbers that only SMT *)
(* can read, so the leaves ask for it.                                         *)

With(S, x) == S \cup {x}
WithFour(S, x, y, u, v) == S \cup {x, y, u, v}
FourOf(x, y, u, v) == {x, y, u, v}
Both(f, x, y) == f[x] + f[y]

\* A sum over a set with one element more.
LEMMA SumWith ==
    ASSUME NEW f, NEW S, IsFiniteSet(S), NEW x, x \notin S, \A z \in With(S, x) : f[z] \in Int
    PROVE  /\ IsFiniteSet(With(S, x))
           /\ SumFunctionOnSet(f, With(S, x)) = SumFunctionOnSet(f, S) + f[x]
<1>1. IsFiniteSet(S \cup {x})  BY FS_AddElement
<1>2. f[x] \in Int /\ (\A z \in S : f[z] \in Int) /\ (\A z \in S : f[z] = f[z])  BY DEF With
<1>3. SumFunctionOnSet(f, S \cup {x}) = SumFunctionOnSet(f, S) + f[x]  BY <1>2, SumGrown
<1>4. QED  BY <1>1, <1>3 DEF With

\* A sum over a set with two pairs more.
LEMMA SumWithFour ==
    ASSUME NEW f, NEW S, IsFiniteSet(S), NEW x, NEW y, NEW u, NEW v,
           x # y, x # u, x # v, y # u, y # v, u # v,
           x \notin S, y \notin S, u \notin S, v \notin S,
           \A z \in WithFour(S, x, y, u, v) : f[z] \in Int
    PROVE  /\ IsFiniteSet(WithFour(S, x, y, u, v))
           /\ SumFunctionOnSet(f, WithFour(S, x, y, u, v)) =
                 SumFunctionOnSet(f, S) + Both(f, x, y) + Both(f, u, v)
<1> DEFINE S1 == With(S, x)
           S2 == With(S1, y)
           S3 == With(S2, u)
           S4 == With(S3, v)
<1>1. \A T, z, c : z \in With(T, c) <=> z \in T \/ z = c  BY DEF With
<1>2. WithFour(S, x, y, u, v) = S4  BY DEF With, WithFour
<1>3. /\ \A z \in S1 : f[z] \in Int
      /\ \A z \in S2 : f[z] \in Int
      /\ \A z \in S3 : f[z] \in Int
      /\ \A z \in S4 : f[z] \in Int
  BY <1>1, <1>2
<1>4. y \notin S1 /\ u \notin S2 /\ v \notin S3  BY <1>1
<1>5. \A z \in S : f[z] \in Int  BY <1>1, <1>3
<1>6. f[x] \in Int /\ f[y] \in Int /\ f[u] \in Int /\ f[v] \in Int /\ SumFunctionOnSet(f, S) \in Int
  BY <1>1, <1>3, <1>5, SumInt
<1> HIDE DEF S4
<1>7. IsFiniteSet(S1) /\ SumFunctionOnSet(f, S1) = SumFunctionOnSet(f, S) + f[x]
  BY <1>3, SumWith
<1> HIDE DEF S1
<1>8. IsFiniteSet(S2) /\ SumFunctionOnSet(f, S2) = SumFunctionOnSet(f, S1) + f[y]
  BY <1>3, <1>4, <1>7, SumWith
<1> HIDE DEF S2
<1>9. IsFiniteSet(S3) /\ SumFunctionOnSet(f, S3) = SumFunctionOnSet(f, S2) + f[u]
  BY <1>3, <1>4, <1>8, SumWith
<1> HIDE DEF S3
<1>10. IsFiniteSet(S4) /\ SumFunctionOnSet(f, S4) = SumFunctionOnSet(f, S3) + f[v]
  BY <1>3, <1>4, <1>9, SumWith DEF S4
<1>11. SumFunctionOnSet(f, S4) = SumFunctionOnSet(f, S) + (f[x] + f[y]) + (f[u] + f[v])
  BY <1>6, <1>7, <1>8, <1>9, <1>10
<1>12. QED  BY <1>2, <1>10, <1>11 DEF Both

\* A sum over two pairs.
LEMMA SumFourOf ==
    ASSUME NEW f, NEW x, NEW y, NEW u, NEW v,
           x # y, x # u, x # v, y # u, y # v, u # v, \A z \in FourOf(x, y, u, v) : f[z] \in Int
    PROVE  /\ IsFiniteSet(FourOf(x, y, u, v))
           /\ SumFunctionOnSet(f, FourOf(x, y, u, v)) = Both(f, x, y) + Both(f, u, v)
<1>1. IsFiniteSet({}) /\ SumFunctionOnSet(f, {}) = 0  BY FS_EmptySet, SumEmpty
<1>2. WithFour({}, x, y, u, v) = FourOf(x, y, u, v)  BY DEF WithFour, FourOf
<1>3. \A z \in WithFour({}, x, y, u, v) : f[z] \in Int  BY <1>2
<1>4. /\ IsFiniteSet(WithFour({}, x, y, u, v))
      /\ SumFunctionOnSet(f, WithFour({}, x, y, u, v)) = 0 + Both(f, x, y) + Both(f, u, v)
  BY <1>1, <1>3, SumWithFour
<1>5. Both(f, x, y) \in Int /\ Both(f, u, v) \in Int
  <2>1. f[x] \in Int /\ f[y] \in Int /\ f[u] \in Int /\ f[v] \in Int  BY DEF FourOf
  <2>2. QED  BY <2>1 DEF Both
<1>6. 0 + Both(f, x, y) + Both(f, u, v) = Both(f, x, y) + Both(f, u, v)  BY <1>5
<1>7. QED  BY <1>2, <1>4, <1>6, Zenon

\* The sum over the twenty traits that are in a pair, pair by pair, and over the other twelve.
InPairs(f) ==
    Both(f, "planning", "execution") + Both(f, "creativity", "analysis")
    + Both(f, "intuition", "logic") + Both(f, "leadership", "cooperation")
    + Both(f, "assertiveness", "empathy") + Both(f, "adventure", "stability_seek")
    + Both(f, "curiosity", "discipline") + Both(f, "sensitivity", "emotional_stability")
    + Both(f, "speed", "patience") + Both(f, "risk_tolerance", "caution")

InNone(f) ==
    Both(f, "optimism", "sociability") + Both(f, "persistence", "self_control")
    + Both(f, "motivation", "knowledge_drive") + Both(f, "adaptability", "reflection")
    + Both(f, "ethics", "fairness") + Both(f, "loyalty", "purpose")

\* A sum over all traits: the five pairs and the traits in none.
LEMMA TraitsSum ==
    ASSUME NEW f, \A t \in Traits : f[t] \in Int
    PROVE  SumFunctionOnSet(f, Traits) = InPairs(f) + InNone(f)
<1> DEFINE S1 == FourOf("planning", "execution", "creativity", "analysis")
           S2 == WithFour(S1, "intuition", "logic", "leadership", "cooperation")
           S3 == WithFour(S2, "assertiveness", "empathy", "adventure", "stability_seek")
           S4 == WithFour(S3, "curiosity", "discipline", "sensitivity", "emotional_stability")
           S5 == WithFour(S4, "speed", "patience", "risk_tolerance", "caution")
           S6 == WithFour(S5, "optimism", "sociability", "persistence", "self_control")
           S7 == WithFour(S6, "motivation", "knowledge_drive", "adaptability", "reflection")
           S8 == WithFour(S7, "ethics", "fairness", "loyalty", "purpose")
<1>1. Traits = S8  BY DEF FourOf, WithFour, Traits
<1>2. /\ S2 = {"planning", "execution", "creativity", "analysis",
               "intuition", "logic", "leadership", "cooperation"}
      /\ S3 = S2 \cup {"assertiveness", "empathy", "adventure", "stability_seek"}
      /\ S4 = S3 \cup {"curiosity", "discipline", "sensitivity", "emotional_stability"}
      /\ S5 = S4 \cup {"speed", "patience", "risk_tolerance", "caution"}
      /\ S6 = S5 \cup {"optimism", "sociability", "persistence", "self_control"}
      /\ S7 = S6 \cup {"motivation", "knowledge_drive", "adaptability", "reflection"}
      /\ S8 = S7 \cup {"ethics", "fairness", "loyalty", "purpose"}
  BY DEF FourOf, WithFour
<1>3. S1 = {"planning", "execution", "creativity", "analysis"}  BY DEF FourOf
<1>4. IsFiniteSet(S1) /\ SumFunctionOnSet(f, S1) =
         Both(f, "planning", "execution") + Both(f, "creativity", "analysis")
  <2>1. \A t \in S1 : f[t] \in Int  BY <1>3 DEF Traits
  <2>2. QED  BY <2>1, SumFourOf
<1> HIDE DEF S1, S2, S3, S4, S5, S6, S7, S8
<1>5. \A t \in S8 : f[t] \in Int  BY <1>1
<1>6. IsFiniteSet(S2) /\ SumFunctionOnSet(f, S2) = SumFunctionOnSet(f, S1)
         + Both(f, "intuition", "logic") + Both(f, "leadership", "cooperation")
  <2>1. \A t \in S2 : f[t] \in Int  BY <1>2, <1>5
  <2>2. QED  BY <1>3, <1>4, <2>1, SumWithFour DEF S2
<1>7. IsFiniteSet(S3) /\ SumFunctionOnSet(f, S3) = SumFunctionOnSet(f, S2)
         + Both(f, "assertiveness", "empathy") + Both(f, "adventure", "stability_seek")
  <2>1. \A t \in S3 : f[t] \in Int  BY <1>2, <1>5
  <2>2. QED  BY <1>2, <1>6, <2>1, SumWithFour DEF S3
<1>8. IsFiniteSet(S4) /\ SumFunctionOnSet(f, S4) = SumFunctionOnSet(f, S3)
         + Both(f, "curiosity", "discipline") + Both(f, "sensitivity", "emotional_stability")
  <2>1. \A t \in S4 : f[t] \in Int  BY <1>2, <1>5
  <2>2. QED  BY <1>2, <1>7, <2>1, SumWithFour DEF S4
<1>9. IsFiniteSet(S5) /\ SumFunctionOnSet(f, S5) = SumFunctionOnSet(f, S4)
         + Both(f, "speed", "patience") + Both(f, "risk_tolerance", "caution")
  <2>1. \A t \in S5 : f[t] \in Int  BY <1>2, <1>5
  <2>2. QED  BY <1>2, <1>8, <2>1, SumWithFour DEF S5
<1>10. IsFiniteSet(S6) /\ SumFunctionOnSet(f, S6) = SumFunctionOnSet(f, S5)
         + Both(f, "optimism", "sociability") + Both(f, "persistence", "self_control")
  <2>1. \A t \in S6 : f[t] \in Int  BY <1>2, <1>5
  <2>2. QED  BY <1>2, <1>9, <2>1, SumWithFour DEF S6
<1>11. IsFiniteSet(S7) /\ SumFunctionOnSet(f, S7) = SumFunctionOnSet(f, S6)
         + Both(f, "motivation", "knowledge_drive") + Both(f, "adaptability", "reflection")
  <2>1. \A t \in S7 : f[t] \in Int  BY <1>2, <1>5
  <2>2. QED  BY <1>2, <1>10, <2>1, SumWithFour DEF S7
<1>12. IsFiniteSet(S8) /\ SumFunctionOnSet(f, S8) = SumFunctionOnSet(f, S7)
         + Both(f, "ethics", "fairness") + Both(f, "loyalty", "purpose")
  BY <1>2, <1>5, <1>11, SumWithFour DEF S8
<1>13. SumFunctionOnSet(f, S5) = InPairs(f)
  BY <1>4, <1>6, <1>7, <1>8, <1>9, Zenon DEF InPairs
<1>14. /\ Both(f, "optimism", "sociability") \in Int /\ Both(f, "persistence", "self_control") \in Int
       /\ Both(f, "motivation", "knowledge_drive") \in Int
       /\ Both(f, "adaptability", "reflection") \in Int
       /\ Both(f, "ethics", "fairness") \in Int /\ Both(f, "loyalty", "purpose") \in Int
  <2>1. /\ "optimism" \in Traits /\ "sociability" \in Traits /\ "persistence" \in Traits
        /\ "self_control" \in Traits /\ "motivation" \in Traits /\ "knowledge_drive" \in Traits
        /\ "adaptability" \in Traits /\ "reflection" \in Traits /\ "ethics" \in Traits
        /\ "fairness" \in Traits /\ "loyalty" \in Traits /\ "purpose" \in Traits
    BY DEF Traits
  <2>2. \A s, t \in Traits : Both(f, s, t) \in Int  BY DEF Both
  <2>3. QED  BY <2>1, <2>2
<1>15. SumFunctionOnSet(f, S5) \in Int
  <2>1. \A t \in S5 : f[t] \in Int  BY <1>2, <1>5
  <2>2. QED  BY <1>9, <2>1, SumInt
<1>16. SumFunctionOnSet(f, S8) = SumFunctionOnSet(f, S5) + InNone(f)
  BY <1>10, <1>11, <1>12, <1>14, <1>15, SMT DEF InNone
<1>17. QED  BY <1>1, <1>13, <1>16

\* The sum over the ten pairs of complementary traits (COMPLEMENTARY_PAIRS).
LEMMA PairsSum ==
    ASSUME NEW f, \A pair \in ComplementaryPairs : f[pair] \in Int
    PROVE  /\ IsFiniteSet(ComplementaryPairs)
           /\ SumFunctionOnSet(f, ComplementaryPairs) =
                (f[<<"planning", "execution">>] + f[<<"creativity", "analysis">>])
                + (f[<<"intuition", "logic">>] + f[<<"leadership", "cooperation">>])
                + (f[<<"assertiveness", "empathy">>] + f[<<"adventure", "stability_seek">>])
                + (f[<<"curiosity", "discipline">>] + f[<<"sensitivity", "emotional_stability">>])
                + f[<<"speed", "patience">>] + f[<<"risk_tolerance", "caution">>]
<1> DEFINE p1 == <<"planning", "execution">>
           p2 == <<"creativity", "analysis">>
           p3 == <<"intuition", "logic">>
           p4 == <<"leadership", "cooperation">>
           p5 == <<"assertiveness", "empathy">>
           p6 == <<"adventure", "stability_seek">>
           p7 == <<"curiosity", "discipline">>
           p8 == <<"sensitivity", "emotional_stability">>
           p9 == <<"speed", "patience">>
           p10 == <<"risk_tolerance", "caution">>
           S1 == FourOf(p1, p2, p3, p4)
           S2 == WithFour(S1, p5, p6, p7, p8)
           S3 == With(S2, p9)
           S4 == With(S3, p10)
<1>1. /\ p1 # p2 /\ p1 # p3 /\ p1 # p4 /\ p2 # p3 /\ p2 # p4 /\ p3 # p4
      /\ p5 # p6 /\ p5 # p7 /\ p5 # p8 /\ p6 # p7 /\ p6 # p8 /\ p7 # p8
      /\ p5 \notin {p1, p2, p3, p4} /\ p6 \notin {p1, p2, p3, p4}
      /\ p7 \notin {p1, p2, p3, p4} /\ p8 \notin {p1, p2, p3, p4}
  OBVIOUS
<1>2. p9 \notin {p1, p2, p3, p4, p5, p6, p7, p8}
      /\ p10 \notin {p1, p2, p3, p4, p5, p6, p7, p8, p9}
  OBVIOUS
<1>3. ComplementaryPairs = {p1, p2, p3, p4, p5, p6, p7, p8, p9, p10}
  BY Zenon DEF ComplementaryPairs
<1> HIDE DEF p1, p2, p3, p4, p5, p6, p7, p8, p9, p10
<1>4. S1 = {p1, p2, p3, p4} /\ S2 = {p1, p2, p3, p4, p5, p6, p7, p8}
      /\ S3 = {p1, p2, p3, p4, p5, p6, p7, p8, p9}
      /\ S4 = {p1, p2, p3, p4, p5, p6, p7, p8, p9, p10}
  BY DEF FourOf, WithFour, With
<1>5. \A p \in {p1, p2, p3, p4, p5, p6, p7, p8, p9, p10} : f[p] \in Int  BY <1>3
<1> HIDE DEF S1, S2, S3, S4
<1>6. IsFiniteSet(S1) /\ SumFunctionOnSet(f, S1) = Both(f, p1, p2) + Both(f, p3, p4)
  <2>1. \A p \in S1 : f[p] \in Int  BY <1>4, <1>5
  <2>2. QED  BY <1>1, <2>1, SumFourOf DEF S1
<1>7. IsFiniteSet(S2)
      /\ SumFunctionOnSet(f, S2) = SumFunctionOnSet(f, S1) + Both(f, p5, p6) + Both(f, p7, p8)
  <2>1. \A p \in S2 : f[p] \in Int  BY <1>4, <1>5
  <2>2. p5 \notin S1 /\ p6 \notin S1 /\ p7 \notin S1 /\ p8 \notin S1  BY <1>1, <1>4
  <2>3. QED  BY <1>1, <1>6, <2>1, <2>2, SumWithFour DEF S2
<1>8. IsFiniteSet(S3) /\ SumFunctionOnSet(f, S3) = SumFunctionOnSet(f, S2) + f[p9]
  <2>1. \A p \in S3 : f[p] \in Int  BY <1>4, <1>5
  <2>2. QED  BY <1>2, <1>4, <1>7, <2>1, SumWith DEF S3
<1>9. IsFiniteSet(S4) /\ SumFunctionOnSet(f, S4) = SumFunctionOnSet(f, S3) + f[p10]
  <2>1. \A p \in S4 : f[p] \in Int  BY <1>4, <1>5
  <2>2. QED  BY <1>2, <1>4, <1>8, <2>1, SumWith DEF S4
<1>10. IsFiniteSet(ComplementaryPairs)
       /\ SumFunctionOnSet(f, ComplementaryPairs) =
            (f[p1] + f[p2]) + (f[p3] + f[p4]) + (f[p5] + f[p6]) + (f[p7] + f[p8]) + f[p9] + f[p10]
  BY <1>3, <1>4, <1>6, <1>7, <1>8, <1>9, Zenon DEF Both
<1>11. QED  BY <1>10 DEF p1, p2, p3, p4, p5, p6, p7, p8, p9, p10

-----------------------------------------------------------------------------
(* What a pair of traits may add to the balance, for what it costs elsewhere. *)

\* In hundredths of a millionth and thirty-seconds: a pair's part of the balance, less what the
\* two differences take from the similarity, has a limit below the weight of the balance.
LEMMA PairBounds ==
    ASSUME NEW a \in [Traits -> 0..One], NEW b \in [Traits -> 0..One],
           NEW s \in Traits, NEW t \in Traits
    PROVE  /\ Apart(a[s], b[s]) \in Int /\ Apart(a[s], b[s]) >= 0 /\ Apart(a[s], b[s]) <= 10000
           /\ PairScore(a, b, <<s, t>>) \in Int
           /\ PairScore(a, b, <<s, t>>) >= 0 /\ PairScore(a, b, <<s, t>>) <= 100000
           /\ 8 * PairScore(a, b, <<s, t>>)
                <= 333334 + 35 * (Apart(a[s], b[s]) + Apart(a[t], b[t]))
           /\ 8 * PairScore(a, b, <<s, t>>)
                <= 190000 + 35 * (Apart(a[s], b[s]) + Apart(a[t], b[t]))
                   + 171 * (Over(Apart(a[s], b[s]), 3000) + Over(Apart(a[t], b[t]), 3000))
           /\ PairScore(b, a, <<s, t>>) <= PairScore(a, b, <<s, t>>) + 40000
<1> DEFINE x == a[s]
           y == b[s]
           u == a[t]
           v == b[t]
<1>1. /\ x \in Int /\ x >= 0 /\ x <= 10000 /\ y \in Int /\ y >= 0 /\ y <= 10000
      /\ u \in Int /\ u >= 0 /\ u <= 10000 /\ v \in Int /\ v >= 0 /\ v <= 10000
  <2>1. \A z \in 0..One : z \in Int /\ z >= 0 /\ z <= 10000  BY SMTT(30) DEF One
  <2>2. x \in 0..One /\ y \in 0..One /\ u \in 0..One /\ v \in 0..One  OBVIOUS
  <2>3. QED  BY <2>1, <2>2
<1> DEFINE ds == IF x > y THEN x - y ELSE y - x
           dt == IF u > v THEN u - v ELSE v - u
           os == IF ds > 3000 THEN ds - 3000 ELSE 0
           ot == IF dt > 3000 THEN dt - 3000 ELSE 0
           up == IF y > x THEN y - x ELSE 0
           vp == IF v > u THEN v - u ELSE 0
           un == IF x > y THEN x - y ELSE 0
           vn == IF u > v THEN u - v ELSE 0
           gap == IF x - u > y - v THEN (x - u) - (y - v) ELSE (y - v) - (x - u)
           gab == IF y - v > x - u THEN (y - v) - (x - u) ELSE (x - u) - (y - v)
           sum == 5 * up + 3 * un + (5 * vp + 3 * vn) + 3 * gap
           mus == 5 * un + 3 * up + (5 * vn + 3 * vp) + 3 * gab
           score == IF sum > 100000 THEN 100000 ELSE sum
           other == IF mus > 100000 THEN 100000 ELSE mus
<1>2. /\ ds = Apart(a[s], b[s]) /\ dt = Apart(a[t], b[t])
      /\ os = Over(Apart(a[s], b[s]), 3000) /\ ot = Over(Apart(a[t], b[t]), 3000)
  BY SMT DEF Apart, Over
<1>3. /\ score = PairScore(a, b, <<s, t>>) /\ other = PairScore(b, a, <<s, t>>)
  BY SMTT(30) DEF PairScore, Complement, Apart, Over, One
<1> HIDE DEF x, y, u, v
<1>4. ds \in Int /\ ds >= 0 /\ ds <= 10000 /\ dt \in Int /\ dt >= 0 /\ dt <= 10000
  BY <1>1, SMT
<1>5. sum \in Int /\ sum >= 0 /\ (sum <= 8 * ds + 6 * dt \/ sum <= 6 * ds + 8 * dt)
  BY <1>1, SMT
<1>6. mus \in Int /\ mus <= sum + 2 * ds + 2 * dt
  <2>1. gap = gab  BY <1>1, SMT
  <2>2. gap \in Int /\ 5 * un + 3 * up <= 5 * up + 3 * un + 2 * ds  BY <1>1, SMT
  <2>3. 5 * vn + 3 * vp <= 5 * vp + 3 * vn + 2 * dt  BY <1>1, SMT
  <2>4. up \in Int /\ un \in Int /\ vp \in Int /\ vn \in Int  BY <1>1, SMT
  <2> HIDE DEF up, un, vp, vn, gap, gab, ds, dt
  <2>5. QED  BY <1>4, <2>1, <2>2, <2>3, <2>4, SMT
<1> HIDE DEF ds, dt, sum, mus
<1>7. score \in Int /\ score >= 0 /\ score <= 100000  BY <1>5, SMT
<1>8. 8 * score <= 333334 + 35 * (ds + dt)  BY <1>4, <1>5, SMT
<1>9. 8 * score <= 190000 + 35 * (ds + dt) + 171 * (os + ot)  BY <1>4, <1>5, SMT
<1>10. other <= score + 40000  BY <1>4, <1>5, <1>6, SMT
<1> HIDE DEF os, ot, score, other
<1>11. QED  BY <1>2, <1>3, <1>4, <1>7, <1>8, <1>9, <1>10, SMT

-----------------------------------------------------------------------------
(* The four components of the score of two vectors. *)

\* How far a and b are apart in trait t, written out where a sum is taken.
LEMMA ApartBounds ==
    ASSUME NEW a \in [Traits -> 0..One], NEW b \in [Traits -> 0..One], NEW t \in Traits
    PROVE  /\ Apart(a[t], b[t]) \in Int /\ Apart(a[t], b[t]) >= 0 /\ Apart(a[t], b[t]) <= 10000
           /\ Apart(a[t], b[t]) = Apart(b[t], a[t])
           /\ Over(Apart(a[t], b[t]), 3000) \in Int
           /\ Over(Apart(a[t], b[t]), 3000) >= 0 /\ Over(Apart(a[t], b[t]), 3000) <= 7000
<1>1. \A z \in 0..One : z \in Int /\ z >= 0 /\ z <= 10000  BY SMTT(30) DEF One
<1>2. a[t] \in 0..One /\ b[t] \in 0..One  OBVIOUS
<1>3. /\ a[t] \in Int /\ a[t] >= 0 /\ a[t] <= 10000
      /\ b[t] \in Int /\ b[t] >= 0 /\ b[t] <= 10000
  BY <1>1, <1>2
<1>4. QED  BY <1>3, SMT DEF Apart, Over

\* The distances of two vectors are the same the other way round.
LEMMA DistancesSame ==
    ASSUME NEW a \in [Traits -> 0..One], NEW b \in [Traits -> 0..One], NEW S, S \subseteq Traits
    PROVE  Distances(a, b, S) = Distances(b, a, S)
<1>1. \A t \in S : Apart(a[t], b[t]) = Apart(b[t], a[t])  BY ApartBounds
<1>2. [t \in S |-> Apart(a[t], b[t])] = [t \in S |-> Apart(b[t], a[t])]  BY <1>1
<1>3. QED  BY <1>2, Zenon DEF Distances

\* Sums of distances, in the bounds the range of a trait gives them.
LEMMA BothBounds ==
    ASSUME NEW f, \A t \in Traits : f[t] \in Int /\ f[t] >= 0 /\ f[t] <= 10000
    PROVE  /\ \A s, t \in Traits :
                Both(f, s, t) \in Int /\ Both(f, s, t) >= 0 /\ Both(f, s, t) <= 20000
           /\ InPairs(f) \in Int /\ InPairs(f) >= 0 /\ InPairs(f) <= 200000
           /\ InNone(f) \in Int /\ InNone(f) >= 0 /\ InNone(f) <= 120000
<1>1. \A s, t \in Traits :
         Both(f, s, t) \in Int /\ Both(f, s, t) >= 0 /\ Both(f, s, t) <= 20000
  BY DEF Both
<1>2. InPairs(f) \in Int /\ InPairs(f) >= 0 /\ InPairs(f) <= 200000
  <2>1. /\ "planning" \in Traits /\ "execution" \in Traits /\ "creativity" \in Traits
        /\ "analysis" \in Traits /\ "intuition" \in Traits /\ "logic" \in Traits
        /\ "leadership" \in Traits /\ "cooperation" \in Traits /\ "assertiveness" \in Traits
        /\ "empathy" \in Traits /\ "adventure" \in Traits /\ "stability_seek" \in Traits
        /\ "curiosity" \in Traits /\ "discipline" \in Traits /\ "sensitivity" \in Traits
        /\ "emotional_stability" \in Traits /\ "speed" \in Traits /\ "patience" \in Traits
        /\ "risk_tolerance" \in Traits /\ "caution" \in Traits
    BY DEF Traits
  <2>2. QED  BY <1>1, <2>1, SMT DEF InPairs
<1>3. InNone(f) \in Int /\ InNone(f) >= 0 /\ InNone(f) <= 120000
  <2>1. /\ "optimism" \in Traits /\ "sociability" \in Traits /\ "persistence" \in Traits
        /\ "self_control" \in Traits /\ "motivation" \in Traits /\ "knowledge_drive" \in Traits
        /\ "adaptability" \in Traits /\ "reflection" \in Traits /\ "ethics" \in Traits
        /\ "fairness" \in Traits /\ "loyalty" \in Traits /\ "purpose" \in Traits
    BY DEF Traits
  <2>2. QED  BY <1>1, <2>1, SMT DEF InNone
<1>4. QED  BY <1>1, <1>2, <1>3

\* How far two vectors are apart, trait by trait.
Gaps(a, b) == [t \in Traits |-> Apart(a[t], b[t])]

\* The distance that the similarity is taken from is that of the ten pairs and of the twelve
\* traits in none of them.
LEMMA SimilarityBounds ==
    ASSUME NEW a \in [Traits -> 0..One], NEW b \in [Traits -> 0..One]
    PROVE  /\ Similarity(a, b) \in Int /\ Similarity(a, b) >= 0 /\ Similarity(a, b) <= 10000
           /\ 64 * Similarity(a, b) <= 640032 - 2 * InPairs(Gaps(a, b))
<1> DEFINE D == Distances(a, b, Traits)
<1>1. PICK d : d = Gaps(a, b)  OBVIOUS
<1>2. d = [t \in Traits |-> Apart(a[t], b[t])]
      /\ \A t \in Traits : d[t] \in Int /\ d[t] >= 0 /\ d[t] <= 10000
  BY <1>1, ApartBounds DEF Gaps
<1>3. D = InPairs(d) + InNone(d)
  <2>1. DOMAIN d = Traits  BY <1>2
  <2>2. D = SumFunctionOnSet(d, Traits)  BY <1>2, <2>1, SumOfFunction DEF Distances
  <2> HIDE DEF D
  <2>3. QED  BY <1>2, <2>2, TraitsSum
<1> HIDE DEF D
<1>4. Similarity(a, b) = (2 * (320000 - D) + 32) \div 64  BY SMTT(30) DEF Similarity, Rounded, One, D
<1>5. /\ InPairs(d) \in Int /\ InPairs(d) >= 0 /\ InPairs(d) <= 200000
      /\ InNone(d) \in Int /\ InNone(d) >= 0 /\ InNone(d) <= 120000
  BY <1>2, BothBounds
<1>6. D \in Int /\ D >= InPairs(d) /\ D >= 0 /\ D <= 320000  BY <1>3, <1>5, SMT
<1>7. /\ Similarity(a, b) \in Int /\ Similarity(a, b) >= 0 /\ Similarity(a, b) <= 10000
      /\ 64 * Similarity(a, b) <= 640032 - 2 * D
  BY <1>4, <1>6, SMT
<1>8. 64 * Similarity(a, b) <= 640032 - 2 * InPairs(d)  BY <1>5, <1>6, <1>7, SMT
<1>9. QED  BY <1>1, <1>7, <1>8

\* The alignment of the values is in the range of a score.
LEMMA ValueBounds ==
    ASSUME NEW a \in [Traits -> 0..One], NEW b \in [Traits -> 0..One]
    PROVE  /\ ValueAlignment(a, b) \in Int
           /\ ValueAlignment(a, b) >= 0 /\ ValueAlignment(a, b) <= 10000
<1> DEFINE d == [t \in ValueTraits |-> Apart(a[t], b[t])]
           D == Distances(a, b, ValueTraits)
<1>1. \A t \in ValueTraits : d[t] \in Int /\ d[t] >= 0 /\ d[t] <= 10000
  <2>1. ValueTraits \subseteq Traits  BY DEF ValueTraits, Traits
  <2>2. QED  BY <2>1, ApartBounds
<1>2. DOMAIN d = {"ethics", "fairness", "loyalty", "purpose"}  BY DEF ValueTraits
<1>3. D = SumFunctionOnSet(d, ValueTraits)  BY <1>2, SumOfFunction DEF Distances, ValueTraits
<1> HIDE DEF d, D
<1>4. D = (d["ethics"] + d["fairness"]) + (d["loyalty"] + d["purpose"])
  <2>1. ValueTraits = FourOf("ethics", "fairness", "loyalty", "purpose")  BY DEF ValueTraits, FourOf
  <2>2. \A t \in FourOf("ethics", "fairness", "loyalty", "purpose") : d[t] \in Int  BY <1>1, <2>1
  <2>3. QED  BY <1>3, <2>1, <2>2, SumFourOf DEF Both
<1>5. D \in Int /\ D >= 0 /\ D <= 40000  BY <1>1, <1>4, SMT DEF ValueTraits
<1>6. ValueAlignment(a, b) = (2 * (40000 - D) + 4) \div 8
  BY SMTT(30) DEF ValueAlignment, Rounded, One, D
<1>7. QED  BY <1>5, <1>6, SMT

\* The fit of the behaviour too; it falls with the distance of speed and patience, and is the same
\* the other way round.
LEMMA BehaviorBounds ==
    ASSUME NEW a \in [Traits -> 0..One], NEW b \in [Traits -> 0..One]
    PROVE  /\ BehaviorFit(a, b) \in Int /\ BehaviorFit(a, b) >= 0 /\ BehaviorFit(a, b) <= 10000
           /\ 112 * BehaviorFit(a, b) <= 1120056
                - 40 * (Over(Apart(a["speed"], b["speed"]), 3000)
                        + Over(Apart(a["patience"], b["patience"]), 3000))
           /\ BehaviorFit(b, a) = BehaviorFit(a, b)
<1> DEFINE p == [t \in BehaviorTraits |-> 2 * Over(Apart(a[t], b[t]), 3000)]
           P == SumFunction(p)
<1>1. BehaviorTraits \subseteq Traits  BY DEF BehaviorTraits, Traits
<1>2. \A t \in BehaviorTraits : p[t] \in Int /\ p[t] >= 0 /\ p[t] <= 14000
  <2>1. ASSUME NEW t \in BehaviorTraits PROVE p[t] \in Int /\ p[t] >= 0 /\ p[t] <= 14000
    <3>1. t \in Traits  BY <1>1
    <3>2. p[t] = 2 * Over(Apart(a[t], b[t]), 3000)  OBVIOUS
    <3> HIDE DEF p
    <3>3. QED  BY <3>1, <3>2, ApartBounds
  <2>2. QED  BY <2>1
<1>3. p["speed"] = 2 * Over(Apart(a["speed"], b["speed"]), 3000)
      /\ p["patience"] = 2 * Over(Apart(a["patience"], b["patience"]), 3000)
  BY DEF BehaviorTraits
<1>4. DOMAIN p = {"speed", "patience", "risk_tolerance", "sociability"}  BY DEF BehaviorTraits
<1>5. \A t \in BehaviorTraits : Apart(a[t], b[t]) = Apart(b[t], a[t])  BY <1>1, ApartBounds
<1>6. [t \in BehaviorTraits |-> 2 * Over(Apart(b[t], a[t]), 3000)] = p  BY <1>5
<1>7. BehaviorFit(b, a) = Rounded(56 * One - 10 * P, 56)
  BY <1>6, Zenon DEF BehaviorFit
<1>8. BehaviorFit(a, b) = Rounded(56 * One - 10 * P, 56)  BY DEF BehaviorFit
<1> HIDE DEF p
<1>9. P = SumFunctionOnSet(p, BehaviorTraits)  BY <1>4, SumOfFunction DEF BehaviorTraits
<1> HIDE DEF P
<1>10. P = (p["speed"] + p["patience"]) + (p["risk_tolerance"] + p["sociability"])
  <2>1. BehaviorTraits = FourOf("speed", "patience", "risk_tolerance", "sociability")
    BY DEF BehaviorTraits, FourOf
  <2>2. \A t \in FourOf("speed", "patience", "risk_tolerance", "sociability") : p[t] \in Int
    BY <1>2, <2>1
  <2>3. QED  BY <1>9, <2>1, <2>2, SumFourOf DEF Both
<1>11. P \in Int /\ P >= p["speed"] + p["patience"] /\ P >= 0 /\ P <= 56000
  BY <1>2, <1>10, SMT DEF BehaviorTraits
<1>12. BehaviorFit(a, b) = (2 * (560000 - 10 * P) + 56) \div 112  BY <1>8, SMTT(30) DEF Rounded, One
<1>13. /\ BehaviorFit(a, b) \in Int /\ BehaviorFit(a, b) >= 0 /\ BehaviorFit(a, b) <= 10000
       /\ 112 * BehaviorFit(a, b) <= 1120056 - 20 * P
  BY <1>11, <1>12, SMT
<1>14. p["speed"] \in Int /\ p["patience"] \in Int  BY <1>2 DEF BehaviorTraits
<1>15. 112 * BehaviorFit(a, b) <= 1120056 - 20 * (p["speed"] + p["patience"])
  BY <1>11, <1>13, <1>14, SMT
<1>16. /\ Over(Apart(a["speed"], b["speed"]), 3000) \in Int
       /\ Over(Apart(a["patience"], b["patience"]), 3000) \in Int
  BY <1>1, ApartBounds DEF BehaviorTraits
<1>17. 112 * BehaviorFit(a, b) <= 1120056
           - 40 * (Over(Apart(a["speed"], b["speed"]), 3000)
                   + Over(Apart(a["patience"], b["patience"]), 3000))
  BY <1>3, <1>13, <1>15, <1>16, SMT
<1>18. QED  BY <1>7, <1>8, <1>13, <1>17

\* The balance, against what the differences of its pairs take from the similarity and those of
\* the pair "speed" and "patience" from the behaviour.
LEMMA BalanceBounds ==
    ASSUME NEW a \in [Traits -> 0..One], NEW b \in [Traits -> 0..One]
    PROVE  /\ Balance(a, b) \in Int /\ Balance(a, b) >= 0 /\ Balance(a, b) <= 10000
           /\ 1600 * Balance(a, b) <= 6380812 + 70 * InPairs(Gaps(a, b))
                + 342 * (Over(Apart(a["speed"], b["speed"]), 3000)
                         + Over(Apart(a["patience"], b["patience"]), 3000))
           /\ Balance(b, a) <= Balance(a, b) + 4001
<1>1. PICK d : d = Gaps(a, b)  OBVIOUS
<1>2. d = [t \in Traits |-> Apart(a[t], b[t])]
      /\ \A t \in Traits : d[t] \in Int /\ d[t] >= 0 /\ d[t] <= 10000
  BY <1>1, ApartBounds DEF Gaps
<1> DEFINE f == [pair \in ComplementaryPairs |-> PairScore(a, b, pair)]
           g == [pair \in ComplementaryPairs |-> PairScore(b, a, pair)]
           P == SumFunction(f)
           Q == SumFunction(g)
           O == Over(Apart(a["speed"], b["speed"]), 3000)
                + Over(Apart(a["patience"], b["patience"]), 3000)
<1>3. /\ "planning" \in Traits /\ "execution" \in Traits /\ "creativity" \in Traits
      /\ "analysis" \in Traits /\ "intuition" \in Traits /\ "logic" \in Traits
      /\ "leadership" \in Traits /\ "cooperation" \in Traits /\ "assertiveness" \in Traits
      /\ "empathy" \in Traits /\ "adventure" \in Traits /\ "stability_seek" \in Traits
      /\ "curiosity" \in Traits /\ "discipline" \in Traits /\ "sensitivity" \in Traits
      /\ "emotional_stability" \in Traits /\ "speed" \in Traits /\ "patience" \in Traits
      /\ "risk_tolerance" \in Traits /\ "caution" \in Traits
  BY DEF Traits
<1>4. /\ <<"planning", "execution">> \in ComplementaryPairs
      /\ <<"creativity", "analysis">> \in ComplementaryPairs
      /\ <<"intuition", "logic">> \in ComplementaryPairs
      /\ <<"leadership", "cooperation">> \in ComplementaryPairs
      /\ <<"assertiveness", "empathy">> \in ComplementaryPairs
      /\ <<"adventure", "stability_seek">> \in ComplementaryPairs
      /\ <<"curiosity", "discipline">> \in ComplementaryPairs
      /\ <<"sensitivity", "emotional_stability">> \in ComplementaryPairs
      /\ <<"speed", "patience">> \in ComplementaryPairs
      /\ <<"risk_tolerance", "caution">> \in ComplementaryPairs
  BY Zenon DEF ComplementaryPairs
<1> DEFINE Pays(s, t) ==
             /\ f[<<s, t>>] \in Int /\ f[<<s, t>>] >= 0 /\ f[<<s, t>>] <= 100000
             /\ 8 * f[<<s, t>>] <= 333334 + 35 * Both(d, s, t)
             /\ g[<<s, t>>] \in Int /\ g[<<s, t>>] <= f[<<s, t>>] + 40000
           PaysLess(s, t) ==
             8 * f[<<s, t>>] <= 190000 + 35 * Both(d, s, t)
               + 171 * (Over(Apart(a[s], b[s]), 3000) + Over(Apart(a[t], b[t]), 3000))
<1>5. ASSUME NEW s \in Traits, NEW t \in Traits, <<s, t>> \in ComplementaryPairs
      PROVE  Pays(s, t) /\ PaysLess(s, t)
  <2>1. /\ f[<<s, t>>] = PairScore(a, b, <<s, t>>)
        /\ g[<<s, t>>] = PairScore(b, a, <<s, t>>)
        /\ Both(d, s, t) = Apart(a[s], b[s]) + Apart(a[t], b[t])
    BY <1>2, <1>5 DEF Both
  <2> HIDE DEF f, g
  <2>2. /\ PairScore(a, b, <<s, t>>) \in Int
        /\ PairScore(a, b, <<s, t>>) >= 0 /\ PairScore(a, b, <<s, t>>) <= 100000
        /\ 8 * PairScore(a, b, <<s, t>>)
             <= 333334 + 35 * (Apart(a[s], b[s]) + Apart(a[t], b[t]))
        /\ 8 * PairScore(a, b, <<s, t>>)
             <= 190000 + 35 * (Apart(a[s], b[s]) + Apart(a[t], b[t]))
                + 171 * (Over(Apart(a[s], b[s]), 3000) + Over(Apart(a[t], b[t]), 3000))
        /\ PairScore(b, a, <<s, t>>) <= PairScore(a, b, <<s, t>>) + 40000
        /\ PairScore(b, a, <<s, t>>) \in Int
    BY PairBounds
  <2>3. QED  BY <2>1, <2>2, SMT
<1>6. DOMAIN f = ComplementaryPairs /\ DOMAIN g = ComplementaryPairs  OBVIOUS
<1>7. \A pair \in ComplementaryPairs : f[pair] \in Int /\ g[pair] \in Int
  <2>1. ASSUME NEW pair \in ComplementaryPairs PROVE f[pair] \in Int /\ g[pair] \in Int
    <3>1. \E s, t \in Traits : pair = <<s, t>>  BY <1>3 DEF ComplementaryPairs
    <3> HIDE DEF f, g, Pays, PaysLess
    <3>2. PICK s \in Traits, t \in Traits : pair = <<s, t>>  BY <3>1
    <3>3. Pays(s, t)  BY <1>5, <3>2
    <3>4. QED  BY <3>2, <3>3, SMT DEF Pays
  <2>2. QED  BY <2>1
<1>8. Balance(a, b) = Rounded(P, 100) /\ Balance(b, a) = Rounded(Q, 100)  BY Zenon DEF Balance
<1> HIDE DEF f, g
<1>9. P = SumFunctionOnSet(f, ComplementaryPairs) /\ Q = SumFunctionOnSet(g, ComplementaryPairs)
  BY <1>6, SumOfFunction
<1> HIDE DEF P, Q
<1> DEFINE f1 == f[<<"planning", "execution">>]
           f2 == f[<<"creativity", "analysis">>]
           f3 == f[<<"intuition", "logic">>]
           f4 == f[<<"leadership", "cooperation">>]
           f5 == f[<<"assertiveness", "empathy">>]
           f6 == f[<<"adventure", "stability_seek">>]
           f7 == f[<<"curiosity", "discipline">>]
           f8 == f[<<"sensitivity", "emotional_stability">>]
           f9 == f[<<"speed", "patience">>]
           f10 == f[<<"risk_tolerance", "caution">>]
           g1 == g[<<"planning", "execution">>]
           g2 == g[<<"creativity", "analysis">>]
           g3 == g[<<"intuition", "logic">>]
           g4 == g[<<"leadership", "cooperation">>]
           g5 == g[<<"assertiveness", "empathy">>]
           g6 == g[<<"adventure", "stability_seek">>]
           g7 == g[<<"curiosity", "discipline">>]
           g8 == g[<<"sensitivity", "emotional_stability">>]
           g9 == g[<<"speed", "patience">>]
           g10 == g[<<"risk_tolerance", "caution">>]
           d1 == Both(d, "planning", "execution")
           d2 == Both(d, "creativity", "analysis")
           d3 == Both(d, "intuition", "logic")
           d4 == Both(d, "leadership", "cooperation")
           d5 == Both(d, "assertiveness", "empathy")
           d6 == Both(d, "adventure", "stability_seek")
           d7 == Both(d, "curiosity", "discipline")
           d8 == Both(d, "sensitivity", "emotional_stability")
           d9 == Both(d, "speed", "patience")
           d10 == Both(d, "risk_tolerance", "caution")
<1>10. P = (f1 + f2) + (f3 + f4) + (f5 + f6) + (f7 + f8) + f9 + f10
  BY <1>7, <1>9, PairsSum
<1>11. Q = (g1 + g2) + (g3 + g4) + (g5 + g6) + (g7 + g8) + g9 + g10
  BY <1>7, <1>9, PairsSum
<1>12. InPairs(d) = d1 + d2 + d3 + d4 + d5 + d6 + d7 + d8 + d9 + d10
  BY Zenon DEF InPairs
<1>13. /\ d1 \in Int /\ d2 \in Int /\ d3 \in Int /\ d4 \in Int /\ d5 \in Int
       /\ d6 \in Int /\ d7 \in Int /\ d8 \in Int /\ d9 \in Int /\ d10 \in Int
  BY <1>3, <1>2, BothBounds
<1> HIDE DEF Pays, PaysLess
<1>14. /\ Pays("planning", "execution") /\ Pays("creativity", "analysis")
       /\ Pays("intuition", "logic") /\ Pays("leadership", "cooperation")
       /\ Pays("assertiveness", "empathy") /\ Pays("adventure", "stability_seek")
       /\ Pays("curiosity", "discipline") /\ Pays("sensitivity", "emotional_stability")
       /\ Pays("speed", "patience") /\ PaysLess("speed", "patience")
       /\ Pays("risk_tolerance", "caution")
  BY <1>3, <1>4, <1>5
<1>15. /\ f1 \in Int /\ f1 >= 0 /\ f1 <= 100000 /\ 8 * f1 <= 333334 + 35 * d1
       /\ g1 \in Int /\ g1 <= f1 + 40000
       /\ f2 \in Int /\ f2 >= 0 /\ f2 <= 100000 /\ 8 * f2 <= 333334 + 35 * d2
       /\ g2 \in Int /\ g2 <= f2 + 40000
       /\ f3 \in Int /\ f3 >= 0 /\ f3 <= 100000 /\ 8 * f3 <= 333334 + 35 * d3
       /\ g3 \in Int /\ g3 <= f3 + 40000
       /\ f4 \in Int /\ f4 >= 0 /\ f4 <= 100000 /\ 8 * f4 <= 333334 + 35 * d4
       /\ g4 \in Int /\ g4 <= f4 + 40000
       /\ f5 \in Int /\ f5 >= 0 /\ f5 <= 100000 /\ 8 * f5 <= 333334 + 35 * d5
       /\ g5 \in Int /\ g5 <= f5 + 40000
  BY <1>14, SMT DEF Pays
<1>16. /\ f6 \in Int /\ f6 >= 0 /\ f6 <= 100000 /\ 8 * f6 <= 333334 + 35 * d6
       /\ g6 \in Int /\ g6 <= f6 + 40000
       /\ f7 \in Int /\ f7 >= 0 /\ f7 <= 100000 /\ 8 * f7 <= 333334 + 35 * d7
       /\ g7 \in Int /\ g7 <= f7 + 40000
       /\ f8 \in Int /\ f8 >= 0 /\ f8 <= 100000 /\ 8 * f8 <= 333334 + 35 * d8
       /\ g8 \in Int /\ g8 <= f8 + 40000
       /\ f10 \in Int /\ f10 >= 0 /\ f10 <= 100000 /\ 8 * f10 <= 333334 + 35 * d10
       /\ g10 \in Int /\ g10 <= f10 + 40000
       /\ f9 \in Int /\ f9 >= 0 /\ f9 <= 100000 /\ 8 * f9 <= 190000 + 35 * d9 + 171 * O
       /\ g9 \in Int /\ g9 <= f9 + 40000
  BY <1>14, SMT DEF Pays, PaysLess
<1>17. O \in Int  BY <1>3, ApartBounds
<1> HIDE DEF f1, f2, f3, f4, f5, f6, f7, f8, f9, f10, O
<1> HIDE DEF g1, g2, g3, g4, g5, g6, g7, g8, g9, g10
<1> HIDE DEF d1, d2, d3, d4, d5, d6, d7, d8, d9, d10
<1>18. P \in Int /\ P >= 0 /\ P <= 1000000  BY <1>10, <1>15, <1>16, SMT
<1>19. 8 * P <= 3190006 + 35 * InPairs(d) + 171 * O
  BY <1>10, <1>12, <1>13, <1>15, <1>16, <1>17, SMT
<1>20. Q \in Int /\ Q <= P + 400000  BY <1>10, <1>11, <1>15, <1>16, SMT
<1>21. InPairs(d) \in Int  BY <1>2, BothBounds
<1>22. /\ Balance(a, b) = (2 * P + 100) \div 200
       /\ Balance(b, a) = (2 * Q + 100) \div 200
  BY <1>8, SMT DEF Rounded
<1>23. /\ Balance(a, b) \in Int /\ Balance(a, b) >= 0 /\ Balance(a, b) <= 10000
       /\ 200 * Balance(a, b) <= 2 * P + 100 /\ 2 * P + 100 < 200 * Balance(a, b) + 200
       /\ Balance(b, a) \in Int /\ 200 * Balance(b, a) <= 2 * Q + 100
  BY <1>18, <1>20, <1>22, SMT
<1>24. 1600 * Balance(a, b) <= 6380812 + 70 * InPairs(d) + 342 * O
  BY <1>17, <1>18, <1>19, <1>21, <1>23, SMT
<1>25. Balance(b, a) <= Balance(a, b) + 4001  BY <1>18, <1>20, <1>23, SMT
<1>26. QED  BY <1>1, <1>23, <1>24, <1>25, SMT DEF O

-----------------------------------------------------------------------------
(* The score, its level and the advice. *)

\* The score is the weighted sum of the four components.
LEMMA ExactIs ==
    ASSUME NEW a \in [Traits -> 0..One], NEW b \in [Traits -> 0..One]
    PROVE  Check(a, b).exact = (35 * Similarity(a, b) + 25 * Balance(a, b))
                               + (25 * ValueAlignment(a, b) + 15 * BehaviorFit(a, b))
<1> DEFINE components == Components(a, b)
           h == [c \in DOMAIN Weights |-> Weights[c] * components[c]]
<1>1. Check(a, b).exact = SumFunction(h)  BY Zenon DEF Check
<1>2. DOMAIN Weights = {"similarity", "balance", "value_alignment", "behavior_fit"}
  BY DEF Weights
<1>3. /\ h["similarity"] = 35 * Similarity(a, b) /\ h["balance"] = 25 * Balance(a, b)
      /\ h["value_alignment"] = 25 * ValueAlignment(a, b)
      /\ h["behavior_fit"] = 15 * BehaviorFit(a, b)
  BY DEF Weights, Components
<1>4. DOMAIN h = {"similarity", "balance", "value_alignment", "behavior_fit"}
  BY <1>2
<1> HIDE DEF h
<1>5. /\ Similarity(a, b) \in Int /\ Balance(a, b) \in Int
      /\ ValueAlignment(a, b) \in Int /\ BehaviorFit(a, b) \in Int
  BY SimilarityBounds, BalanceBounds, ValueBounds, BehaviorBounds
<1>6. \A c \in DOMAIN h : h[c] \in Int
  <2>1. \A c \in DOMAIN h :
           \/ c = "similarity" \/ c = "balance" \/ c = "value_alignment" \/ c = "behavior_fit"
    BY <1>4
  <2>2. QED  BY <1>3, <1>5, <2>1
<1>7. SumFunction(h) = SumFunctionOnSet(h, DOMAIN h)  BY <1>4, SumOfFunction
<1>8. DOMAIN h = FourOf("similarity", "balance", "value_alignment", "behavior_fit")
  BY <1>4 DEF FourOf
<1>9. SumFunctionOnSet(h, DOMAIN h) =
        (h["similarity"] + h["balance"]) + (h["value_alignment"] + h["behavior_fit"])
  <2>1. \A c \in FourOf("similarity", "balance", "value_alignment", "behavior_fit") : h[c] \in Int
    BY <1>6, <1>8
  <2>2. QED  BY <1>8, <2>1, SumFourOf DEF Both
<1>10. QED  BY <1>1, <1>3, <1>7, <1>9, Zenon

\* What the differences that make a balance high cost elsewhere keeps the score below the limit
\* of the best level; and the other way round only the balance differs.
LEMMA ScoreBounds ==
    ASSUME NEW a \in [Traits -> 0..One], NEW b \in [Traits -> 0..One]
    PROVE  /\ Check(a, b).exact \in Nat /\ Check(a, b).exact < 850000
           /\ Check(b, a).exact <= Check(a, b).exact + 100025
           /\ \A c \in DOMAIN Weights \ {"balance"} :
                 Check(b, a).components[c] = Check(a, b).components[c]
<1> DEFINE O == Over(Apart(a["speed"], b["speed"]), 3000)
                + Over(Apart(a["patience"], b["patience"]), 3000)
           D == InPairs(Gaps(a, b))
           S == Similarity(a, b)
           B == Balance(a, b)
           V == ValueAlignment(a, b)
           F == BehaviorFit(a, b)
<1>1. S \in Int /\ S >= 0 /\ S <= 10000 /\ 64 * S <= 640032 - 2 * D
  BY SimilarityBounds
<1>2. B \in Int /\ B >= 0 /\ B <= 10000 /\ 1600 * B <= 6380812 + 70 * D + 342 * O
      /\ Balance(b, a) <= B + 4001
  BY BalanceBounds
<1>3. V \in Int /\ V >= 0 /\ V <= 10000  BY ValueBounds
<1>4. F \in Int /\ F >= 0 /\ F <= 10000 /\ 112 * F <= 1120056 - 40 * O /\ BehaviorFit(b, a) = F
  BY BehaviorBounds
<1>5. D \in Int /\ O \in Int /\ O >= 0
  <2>1. \A t \in Traits : Gaps(a, b)[t] \in Int /\ Gaps(a, b)[t] >= 0 /\ Gaps(a, b)[t] <= 10000
    BY ApartBounds DEF Gaps
  <2>2. "speed" \in Traits /\ "patience" \in Traits  BY DEF Traits
  <2>3. D \in Int  BY <2>1, BothBounds
  <2>4. O \in Int /\ O >= 0  BY <2>2, ApartBounds
  <2>5. QED  BY <2>3, <2>4
<1>6. Similarity(b, a) = S  BY DistancesSame, Zenon DEF Similarity
<1>7. ValueAlignment(b, a) = V
  <2>1. ValueTraits \subseteq Traits  BY DEF ValueTraits, Traits
  <2>2. QED  BY <2>1, DistancesSame, Zenon DEF ValueAlignment
<1>8. Check(a, b).exact = (35 * S + 25 * B) + (25 * V + 15 * F)  BY ExactIs
<1>9. Check(b, a).exact = (35 * S + 25 * Balance(b, a)) + (25 * V + 15 * F)
  BY <1>4, <1>6, <1>7, ExactIs, SMT
<1>10. Balance(b, a) \in Int
  BY BalanceBounds
<1>11. /\ Check(a, b).components = [ similarity |-> S, balance |-> B,
                                     value_alignment |-> V, behavior_fit |-> F ]
       /\ Check(b, a).components = [ similarity |-> S, balance |-> Balance(b, a),
                                     value_alignment |-> V, behavior_fit |-> F ]
  <2>1. /\ Check(a, b).components = Components(a, b)
        /\ Check(b, a).components = Components(b, a)
    BY DEF Check
  <2>2. /\ Components(a, b) = [ similarity |-> S, balance |-> B,
                                value_alignment |-> V, behavior_fit |-> F ]
        /\ Components(b, a) = [ similarity |-> Similarity(b, a), balance |-> Balance(b, a),
                                value_alignment |-> ValueAlignment(b, a),
                                behavior_fit |-> BehaviorFit(b, a) ]
    BY DEF Components
  <2> HIDE DEF S, B, V, F
  <2>3. QED  BY <1>4, <1>6, <1>7, <2>1, <2>2
<1>12. DOMAIN Weights = {"similarity", "balance", "value_alignment", "behavior_fit"}
  BY DEF Weights
<1> HIDE DEF D, O, S, B, V, F
<1>13. Check(a, b).exact \in Nat /\ Check(a, b).exact < 850000
  BY <1>1, <1>2, <1>3, <1>4, <1>5, <1>8, SMT
<1>14. Check(b, a).exact <= Check(a, b).exact + 100025
  BY <1>1, <1>2, <1>3, <1>4, <1>8, <1>9, <1>10, SMT
<1>15. \A c \in DOMAIN Weights \ {"balance"} :
          Check(b, a).components[c] = Check(a, b).components[c]
  <2>1. \A c \in DOMAIN Weights \ {"balance"} :
           c = "similarity" \/ c = "value_alignment" \/ c = "behavior_fit"
    BY <1>12
  <2>2. QED  BY <1>11, <2>1
<1>16. QED  BY <1>13, <1>14, <1>15

\* The level of a score, told by its limits: where two levels meet, the better one is first.
LEMMA LevelByLimits ==
    ASSUME NEW exact \in Nat, exact <= 1000000
    PROVE  DetermineLevel(exact) =
             IF exact >= 850000 THEN "ideal_partner"
             ELSE IF exact >= 700000 THEN "strong_match"
             ELSE IF exact >= 500000 THEN "neutral"
             ELSE IF exact >= 300000 THEN "challenging" ELSE "conflict"
<1> DEFINE L == CompatibilityLevels
             F == Fitting(exact)
<1>1. /\ DOMAIN L = 1..5
      /\ L[1].low = 850000 /\ L[1].high = 1000000 /\ L[1].name = "ideal_partner"
      /\ L[2].low = 700000 /\ L[2].high = 850000 /\ L[2].name = "strong_match"
      /\ L[3].low = 500000 /\ L[3].high = 700000 /\ L[3].name = "neutral"
      /\ L[4].low = 300000 /\ L[4].high = 500000 /\ L[4].name = "challenging"
      /\ L[5].low = 0 /\ L[5].high = 300000 /\ L[5].name = "conflict"
  BY SMT DEF CompatibilityLevels, Level
<1>2. F = {i \in 1..5 : exact >= L[i].low /\ exact <= L[i].high}  BY <1>1 DEF Fitting
<1>3. DetermineLevel(exact) = IF F = {} THEN "unknown" ELSE L[Min(F)].name
  BY SMT DEF DetermineLevel
<1> HIDE DEF L, F
<1>4. /\ F \subseteq 1..5
      /\ 1 \in F <=> exact >= 850000
      /\ 2 \in F <=> exact >= 700000 /\ exact <= 850000
      /\ 3 \in F <=> exact >= 500000 /\ exact <= 700000
      /\ 4 \in F <=> exact >= 300000 /\ exact <= 500000
      /\ 5 \in F <=> exact <= 300000
  BY SMT, <1>1, <1>2
<1>5. ASSUME NEW i \in F, \A j \in F : i <= j
      PROVE  DetermineLevel(exact) = L[i].name
  <2>1. \A k \in F : (\A j \in F : k <= j) => k = i  BY SMT, <1>4, <1>5
  <2>2. Min(F) = i  BY SMT, <1>5, <2>1 DEF Min
  <2>3. QED  BY SMT, <1>3, <1>5, <2>2
<1>6. CASE exact >= 850000
  <2>1. 1 \in F /\ \A j \in F : 1 <= j  BY SMT, <1>4, <1>6
  <2>2. DetermineLevel(exact) = L[1].name  BY <1>5, <2>1
  <2>3. QED  BY SMT, <1>1, <1>6, <2>2
<1>7. CASE exact >= 700000 /\ exact < 850000
  <2>1. 2 \in F /\ \A j \in F : 2 <= j  BY SMT, <1>4, <1>7
  <2>2. DetermineLevel(exact) = L[2].name  BY <1>5, <2>1
  <2>3. QED  BY SMT, <1>1, <1>7, <2>2
<1>8. CASE exact >= 500000 /\ exact < 700000
  <2>1. 3 \in F /\ \A j \in F : 3 <= j  BY SMT, <1>4, <1>8
  <2>2. DetermineLevel(exact) = L[3].name  BY <1>5, <2>1
  <2>3. QED  BY SMT, <1>1, <1>8, <2>2
<1>9. CASE exact >= 300000 /\ exact < 500000
  <2>1. 4 \in F /\ \A j \in F : 4 <= j  BY SMT, <1>4, <1>9
  <2>2. DetermineLevel(exact) = L[4].name  BY <1>5, <2>1
  <2>3. QED  BY SMT, <1>1, <1>9, <2>2
<1>10. CASE exact < 300000
  <2>1. 5 \in F /\ \A j \in F : 5 <= j  BY SMT, <1>4, <1>10
  <2>2. DetermineLevel(exact) = L[5].name  BY <1>5, <2>1
  <2>3. QED  BY SMT, <1>1, <1>10, <2>2
<1>11. QED  BY SMT, <1>6, <1>7, <1>8, <1>9, <1>10

\* For every score there can be, the recommendation, which is taken from the rounded score,
\* speaks of the level that is taken from the exact one, but for the scores half a
\* ten-thousandth below a limit (the two lists of limits, of the engine and of the report).
THEOREM AdviceFitsScore ==
    ASSUME NEW exact \in Nat, exact <= 1000000
    PROVE  \/ Recommendation(Rounded(exact, 100)) = DetermineLevel(exact)
           \/ \E i \in DOMAIN CompatibilityLevels : Over(CompatibilityLevels[i].low, exact) \in 1..50
<1> DEFINE score == Rounded(exact, 100)
           Near == \E j \in DOMAIN CompatibilityLevels :
                      Over(CompatibilityLevels[j].low, exact) \in 1..50
<1>1. score \in Nat /\ 200 * score <= 2 * exact + 100 /\ 2 * exact + 100 < 200 * score + 200
  BY SMT DEF Rounded
<1>2. /\ DOMAIN CompatibilityLevels = 1..5
      /\ CompatibilityLevels[1].low = 850000 /\ CompatibilityLevels[2].low = 700000
      /\ CompatibilityLevels[3].low = 500000 /\ CompatibilityLevels[4].low = 300000
  BY SMT DEF CompatibilityLevels, Level
<1>3. ASSUME NEW i \in 1..4, CompatibilityLevels[i].low > exact,
             CompatibilityLevels[i].low <= exact + 50
      PROVE  Near
  <2>1. CompatibilityLevels[i].low \in Int BY SMT, <1>2
  <2>2. Over(CompatibilityLevels[i].low, exact) \in 1..50 BY SMT, <1>3, <2>1 DEF Over
  <2> QED BY SMT, <1>2, <2>2
<1> HIDE DEF score, Near
<1>4. CASE exact + 50 >= 850000 /\ exact < 850000
  <2>1. CompatibilityLevels[1].low > exact /\ CompatibilityLevels[1].low <= exact + 50
    BY SMT, <1>2, <1>4
  <2> QED BY SMT, <1>3, <2>1 DEF Near
<1>5. CASE exact + 50 >= 700000 /\ exact < 700000
  <2>1. CompatibilityLevels[2].low > exact /\ CompatibilityLevels[2].low <= exact + 50
    BY SMT, <1>2, <1>5
  <2> QED BY SMT, <1>3, <2>1 DEF Near
<1>6. CASE exact + 50 >= 500000 /\ exact < 500000
  <2>1. CompatibilityLevels[3].low > exact /\ CompatibilityLevels[3].low <= exact + 50
    BY SMT, <1>2, <1>6
  <2> QED BY SMT, <1>3, <2>1 DEF Near
<1>7. CASE exact + 50 >= 300000 /\ exact < 300000
  <2>1. CompatibilityLevels[4].low > exact /\ CompatibilityLevels[4].low <= exact + 50
    BY SMT, <1>2, <1>7
  <2> QED BY SMT, <1>3, <2>1 DEF Near
<1>8. CASE /\ exact + 50 < 850000 \/ exact >= 850000
           /\ exact + 50 < 700000 \/ exact >= 700000
           /\ exact + 50 < 500000 \/ exact >= 500000
           /\ exact + 50 < 300000 \/ exact >= 300000
  <2>1. /\ exact >= 850000 <=> score >= 8500
        /\ exact >= 700000 <=> score >= 7000
        /\ exact >= 500000 <=> score >= 5000
        /\ exact >= 300000 <=> score >= 3000
    BY SMT, <1>1, <1>8
  <2>2. Recommendation(score) = DetermineLevel(exact) BY SMT, <2>1, LevelByLimits DEF Recommendation
  <2> QED BY SMT, <2>2 DEF score
<1> QED BY SMT, <1>4, <1>5, <1>6, <1>7, <1>8

\* The place of a level in the table, as OrderShiftsOneLevel counts it.
PlaceOf(name) == CHOOSE i \in DOMAIN CompatibilityLevels : CompatibilityLevels[i].name = name

\* The places of the levels.
LEMMA Places ==
    /\ PlaceOf("strong_match") = 2 /\ PlaceOf("neutral") = 3
    /\ PlaceOf("challenging") = 4 /\ PlaceOf("conflict") = 5
<1> DEFINE L == CompatibilityLevels
<1>1. DOMAIN L = 1..5  BY SMT DEF CompatibilityLevels, Level
<1>2. /\ L[1].name = "ideal_partner" /\ L[2].name = "strong_match" /\ L[3].name = "neutral"
      /\ L[4].name = "challenging" /\ L[5].name = "conflict"
  BY SMT DEF CompatibilityLevels, Level
<1>3. PlaceOf("strong_match") = CHOOSE i \in DOMAIN L : L[i].name = "strong_match"  BY DEF PlaceOf
<1>4. PlaceOf("neutral") = CHOOSE i \in DOMAIN L : L[i].name = "neutral"  BY DEF PlaceOf
<1>5. PlaceOf("challenging") = CHOOSE i \in DOMAIN L : L[i].name = "challenging"  BY DEF PlaceOf
<1>6. PlaceOf("conflict") = CHOOSE i \in DOMAIN L : L[i].name = "conflict"  BY DEF PlaceOf
<1> HIDE DEF L
<1>7. /\ \A i \in DOMAIN L : L[i].name = "strong_match" <=> i = 2
      /\ \A i \in DOMAIN L : L[i].name = "neutral" <=> i = 3
      /\ \A i \in DOMAIN L : L[i].name = "challenging" <=> i = 4
      /\ \A i \in DOMAIN L : L[i].name = "conflict" <=> i = 5
      /\ 2 \in DOMAIN L /\ 3 \in DOMAIN L /\ 4 \in DOMAIN L /\ 5 \in DOMAIN L
  BY <1>1, <1>2
<1>8. QED  BY <1>3, <1>4, <1>5, <1>6, <1>7

\* Two scores that are close together are in the same level or in two that follow each other.
LEMMA NextLevel ==
    ASSUME NEW e \in Nat, e < 850000, NEW f \in Nat, f < 850000,
           e <= f + 100025, f <= e + 100025
    PROVE  /\ DetermineLevel(e) # "ideal_partner"
           /\ Apart(PlaceOf(DetermineLevel(f)), PlaceOf(DetermineLevel(e))) <= 1
<1> DEFINE At(x) == IF x >= 700000 THEN 2 ELSE IF x >= 500000 THEN 3
                    ELSE IF x >= 300000 THEN 4 ELSE 5
<1>1. ASSUME NEW x \in Nat, x < 850000
      PROVE  DetermineLevel(x) # "ideal_partner" /\ PlaceOf(DetermineLevel(x)) = At(x)
  <2>1. DetermineLevel(x) =
           IF x >= 700000 THEN "strong_match"
           ELSE IF x >= 500000 THEN "neutral"
           ELSE IF x >= 300000 THEN "challenging" ELSE "conflict"
    BY <1>1, LevelByLimits, SMT
  <2>2. QED  BY <2>1, Places, SMT
<1>2. PlaceOf(DetermineLevel(f)) = At(f) /\ PlaceOf(DetermineLevel(e)) = At(e)
      /\ DetermineLevel(e) # "ideal_partner"
  BY <1>1
<1>3. Apart(At(f), At(e)) <= 1  BY SMT DEF Apart
<1>4. QED  BY <1>2, <1>3, SMT

\* What a check or a report has returned is about the two vectors it names.
ReplyIsCheck ==
    reply # <<>> =>
        /\ reply.a \in [Traits -> 0..One] /\ reply.b \in [Traits -> 0..One]
        /\ reply.result = Check(reply.a, reply.b)
        /\ "report" \in DOMAIN reply => reply.report = Report(reply.result)

LevelsInv == VectorsOK /\ ReplyIsCheck

\* A reply is made from vectors in their range by Check and Report, and the other steps clear it.
LEMMA LevelsStep == LevelsInv /\ [ProfilesNext]_profileVars => LevelsInv'
<1> SUFFICES ASSUME LevelsInv, [ProfilesNext]_profileVars PROVE ReplyIsCheck'
  BY VectorsStep DEF LevelsInv
<1>1. ASSUME reply' = <<>> PROVE ReplyIsCheck'  BY <1>1 DEF ReplyIsCheck
<1>2. ASSUME NEW i \in ProfileIds, NEW j \in ProfileIds, CheckProfiles(i, j) PROVE ReplyIsCheck'
  <2> DEFINE v == profiles[i].vector
             w == profiles[j].vector
             r == Check(v, w)
  <2>1. v \in [Traits -> 0..One] /\ w \in [Traits -> 0..One]
    BY <1>2 DEF CheckProfiles, LevelsInv, VectorsOK
  <2>2. reply' = [a |-> v, b |-> w, result |-> r]  BY <1>2 DEF CheckProfiles
  <2>3. r = Check(v, w)  OBVIOUS
  <2> HIDE DEF v, w, r
  <2>4. QED  BY <2>1, <2>2, <2>3 DEF ReplyIsCheck
<1>3. ASSUME NEW g \in GivenVectors, NEW h \in GivenVectors, CheckGiven(g, h)
      PROVE  ReplyIsCheck'
  <2> DEFINE v == Vector(g)
             w == Vector(h)
             r == Check(v, w)
  <2>1. v \in [Traits -> 0..One] /\ w \in [Traits -> 0..One]
    BY ProfilesAssumption, GivenVectorInRange DEF IntValued
  <2>2. reply' = [a |-> v, b |-> w, result |-> r]  BY <1>3 DEF CheckGiven
  <2>3. r = Check(v, w)  OBVIOUS
  <2> HIDE DEF v, w, r
  <2>4. QED  BY <2>1, <2>2, <2>3 DEF ReplyIsCheck
<1>4. ASSUME NEW g \in GivenVectors, NEW h \in GivenVectors, ReportGiven(g, h)
      PROVE  ReplyIsCheck'
  <2> DEFINE v == Vector(g)
             w == Vector(h)
             r == Check(v, w)
  <2>1. v \in [Traits -> 0..One] /\ w \in [Traits -> 0..One]
    BY ProfilesAssumption, GivenVectorInRange DEF IntValued
  <2>2. reply' = [a |-> v, b |-> w, result |-> r, report |-> Report(r)]
    BY <1>4 DEF ReportGiven
  <2>3. r = Check(v, w)  OBVIOUS
  <2> HIDE DEF v, w, r
  <2>4. QED  BY <2>1, <2>2, <2>3 DEF ReplyIsCheck
<1>5. CASE UNCHANGED profileVars
  BY <1>5 DEF profileVars, LevelsInv, ReplyIsCheck
<1>6. QED
  BY <1>1, <1>2, <1>3, <1>4, <1>5 DEF ProfilesNext, Create, Answer, Learn, ProfilesRestart

\* There is no reply at the start.
LEMMA LevelsInit == ProfilesInit => LevelsInv
<1> SUFFICES ASSUME ProfilesInit PROVE LevelsInv  OBVIOUS
<1>1. profiles = <<>> /\ learned = <<>> /\ answered = 0 /\ reply = <<>>  BY DEF ProfilesInit
<1>2. DOMAIN profiles = {} /\ IsFiniteSet({})  BY <1>1, FS_EmptySet
<1>3. VectorsOK  BY <1>1, <1>2, ProfilesAssumption DEF VectorsOK
<1>4. QED  BY <1>1, <1>3 DEF LevelsInv, ReplyIsCheck

\* A score of vectors in their range is in its range.
LEMMA LevelsTyped == LevelsInv => ProfilesTypeOK
<1> SUFFICES ASSUME LevelsInv PROVE ProfilesTypeOK  OBVIOUS
<1>1. /\ DOMAIN profiles \subseteq ProfileIds
      /\ \A id \in DOMAIN profiles : profiles[id].vector \in [Traits -> 0..One]
      /\ Len(learned) <= MaxLessons /\ answered \in 0..MaxAnswered
  BY DEF LevelsInv, VectorsOK
<1>2. ASSUME reply # <<>> PROVE reply.result.exact \in 0..100 * One
  <2>1. /\ reply.a \in [Traits -> 0..One] /\ reply.b \in [Traits -> 0..One]
        /\ reply.result = Check(reply.a, reply.b)
    BY <1>2 DEF LevelsInv, ReplyIsCheck
  <2>2. Check(reply.a, reply.b).exact \in Nat /\ Check(reply.a, reply.b).exact < 850000
    BY <2>1, ScoreBounds
  <2>3. reply.result.exact = Check(reply.a, reply.b).exact  BY <2>1
  <2>4. 100 * One \in Nat /\ 100 * One >= 850000  BY SMT DEF One
  <2>5. QED  BY <2>2, <2>3, <2>4, SMT
<1>3. QED  BY <1>1, <1>2 DEF ProfilesTypeOK

\* What the score, its level and its advice of such vectors are: the property of the runs.
LEMMA LevelsSay == LevelsInv => LevelsAsMeant
<1> SUFFICES ASSUME LevelsInv, reply # <<>>
             PROVE  IdealIsBeyondReach /\ AdviceMeetsLevel /\ OrderShiftsOneLevel
  <2>1. CASE reply # <<>>  BY <2>1 DEF LevelsAsMeant
  <2>2. CASE reply = <<>>
    BY <2>2 DEF LevelsAsMeant, IdealIsBeyondReach, AdviceMeetsLevel, OrderShiftsOneLevel
  <2>3. QED  BY <2>1, <2>2
<1> DEFINE r == reply.result
           back == Check(reply.b, reply.a)
<1>1. /\ reply.a \in [Traits -> 0..One] /\ reply.b \in [Traits -> 0..One]
      /\ r = Check(reply.a, reply.b)
      /\ "report" \in DOMAIN reply => reply.report = Report(r)
  BY DEF LevelsInv, ReplyIsCheck
<1>2. /\ r.exact \in Nat /\ r.exact < 850000 /\ back.exact \in Nat /\ back.exact < 850000
      /\ back.exact <= r.exact + 100025 /\ r.exact <= back.exact + 100025
      /\ \A c \in DOMAIN Weights \ {"balance"} : back.components[c] = r.components[c]
  BY <1>1, ScoreBounds
<1>3. /\ r.score = Rounded(r.exact, 100) /\ r.level = DetermineLevel(r.exact)
      /\ back.level = DetermineLevel(back.exact)
  BY <1>1 DEF Check
<1> HIDE DEF r, back
<1>4. /\ r.level # "ideal_partner"
      /\ Apart(PlaceOf(back.level), PlaceOf(r.level)) <= 1
  BY <1>2, <1>3, NextLevel
<1>5. IdealIsBeyondReach  BY <1>4 DEF IdealIsBeyondReach, r
<1>6. OrderShiftsOneLevel  BY <1>2, <1>4 DEF OrderShiftsOneLevel, r, back, PlaceOf
<1>7. AdviceMeetsLevel
  <2> SUFFICES ASSUME "report" \in DOMAIN reply
               PROVE  \/ reply.report.recommendation = r.level
                      \/ \E i \in DOMAIN CompatibilityLevels :
                            Over(CompatibilityLevels[i].low, r.exact) \in 1..50
    BY DEF AdviceMeetsLevel, r
  <2>1. reply.report.recommendation = Recommendation(Rounded(r.exact, 100))
    BY <1>1, <1>3 DEF Report
  <2>2. r.exact \in Nat /\ r.exact <= 1000000  BY <1>2, SMT
  <2>3. QED  BY <1>3, <2>1, <2>2, AdviceFitsScore
<1>8. QED  BY <1>5, <1>6, <1>7

\* Every vector that is kept has all its traits between 0 and 1 and the history and the answers
\* are within their bounds; and every score is between 0 and 1, for whatever a request gives.
THEOREM ProfilesTypes == ProfilesSpec => []ProfilesTypeOK
BY LevelsInit, LevelsStep, LevelsTyped, PTL DEF ProfilesSpec

\* The levels, for any births, answers, feedback and vectors a request spells out: no pair of
\* personalities is an "ideal partner", the advice of a report is about the level it names, or
\* the score is half a ten-thousandth below a limit, and asked the other way round the score is
\* the same but for the balance, and the level at most one step away.
THEOREM LevelsAreMeant == ProfilesSpec => []LevelsAsMeant
BY LevelsInit, LevelsStep, LevelsSay, PTL DEF ProfilesSpec
=============================================================================
