------------------------- MODULE ConnectivityProofs -------------------------
(***************************************************************************)
(* Proofs about Connectivity, for items of any length, stores and catalogues *)
(* of any size: why it crashes, what is sent, that the parser frees what it  *)
(* allocates, and that the sizes that are estimated suffice.                 *)
(***************************************************************************)
EXTENDS Connectivity, FiniteSetTheorems, SequenceTheorems, WellFoundedInduction, TLAPS

-----------------------------------------------------------------------------
(* Sums.                                                                   *)

\* What stands for induction here: a set of numbers that is not empty has a least one.
LEMMA Least ==
    ASSUME NEW T, T \subseteq Nat, T # {}
    PROVE  \E x \in T : \A y \in T : x <= y
<1>1. PICK x \in T : \A y \in T : ~(<<y, x>> \in OpToRel(<, Nat))
  BY WFMin, NatLessThanWellFounded
<1>2. \A y \in T : ~(y < x)
  BY <1>1 DEF OpToRel
<1>. QED BY <1>2

AnyOf(s) == CHOOSE x \in s : TRUE

\* The recursive function behind SumFunctionOnSet.
IsSum(g, f, S) ==
    g = [s \in SUBSET S |-> IF s = {} THEN 0 ELSE f[AnyOf(s)] + g[s \ {AnyOf(s)}]]

LEMMA SumIsChosen ==
    ASSUME NEW f, NEW S
    PROVE  SumFunctionOnSet(f, S) = (CHOOSE g : IsSum(g, f, S))[S]
BY DEF SumFunctionOnSet, FoldFunctionOnSet, MapThenFoldSet, IsSum, AnyOf

LEMMA Smaller ==
    ASSUME NEW S, IsFiniteSet(S), NEW x \in S
    PROVE  /\ IsFiniteSet(S \ {x}) /\ Cardinality(S) \in Nat \ {0}
           /\ Cardinality(S \ {x}) = Cardinality(S) - 1
<1>1. IsFiniteSet(S \ {x}) /\ Cardinality(S \ {x}) = Cardinality(S) - 1
  BY FS_RemoveElement
<1>. QED BY <1>1, FS_CardinalityType

\* There is one such function for a finite set.
LEMMA SumExists ==
    ASSUME NEW f, NEW S, IsFiniteSet(S)
    PROVE  \E g : IsSum(g, f, S)
<1> DEFINE Upto(n) == {s \in SUBSET S : Cardinality(s) <= n}
           Value(g, s) == IF s = {} THEN 0 ELSE f[AnyOf(s)] + g[s \ {AnyOf(s)}]
           Good(n) == \E g : g = [s \in Upto(n) |-> Value(g, s)]
           T == {n \in Nat : ~Good(n)}
<1>0. \A s \in SUBSET S : IsFiniteSet(s) /\ Cardinality(s) \in Nat
  BY FS_Subset, FS_CardinalityType
<1>1. Good(0)
  <2> DEFINE g == [s \in Upto(0) |-> 0]
  <2>1. \A s \in Upto(0) : s = {}
    BY <1>0, FS_EmptySet
  <2>2. g = [s \in Upto(0) |-> Value(g, s)]
    BY <2>1
  <2>. QED BY <2>2
<1>2. ASSUME NEW n \in Nat, Good(n)
      PROVE  Good(n + 1)
  <2>1. PICK h : h = [s \in Upto(n) |-> Value(h, s)]
    BY <1>2
  <2> DEFINE g == [s \in Upto(n + 1) |-> Value(h, s)]
  <2>2. \A s \in Upto(n) : s \in Upto(n + 1) /\ g[s] = h[s]
    <3>1. \A s \in Upto(n) : s \in Upto(n + 1)
      BY <1>0
    <3>2. \A s \in Upto(n) : h[s] = Value(h, s)
      BY <2>1
    <3>. QED BY <3>1, <3>2
  <2>3. ASSUME NEW s \in Upto(n + 1)
        PROVE  Value(h, s) = Value(g, s)
    <3>1. CASE s = {}
      BY <3>1
    <3>2. CASE s # {}
      <4>1. AnyOf(s) \in s
        BY <3>2 DEF AnyOf
      <4>2. s \ {AnyOf(s)} \in Upto(n)
        BY <1>0, <4>1, Smaller
      <4>. QED BY <2>2, <4>2
    <3>. QED BY <3>1, <3>2
  <2>4. g = [s \in Upto(n + 1) |-> Value(g, s)]
    BY <2>3
  <2>. QED BY <2>4
<1>3. T = {}
  <2> SUFFICES ASSUME T # {} PROVE FALSE
    OBVIOUS
  <2>1. PICK n \in T : \A m \in T : n <= m
    <3> HIDE DEF Good
    <3>. QED BY Least
  <2> HIDE DEF Good
  <2>2. n \in Nat /\ n # 0 /\ ~Good(n)
    BY <1>1, <2>1
  <2>3. n - 1 \in Nat /\ n - 1 \notin T
    BY <2>1, <2>2
  <2>4. Good(n - 1)
    BY <2>3
  <2>5. Good((n - 1) + 1)
    BY <1>2, <2>3, <2>4
  <2>. QED BY <2>2, <2>5
<1>4. Cardinality(S) \in Nat /\ Upto(Cardinality(S)) = SUBSET S
  BY <1>0, FS_Subset
<1>5. Good(Cardinality(S))
  BY <1>3, <1>4
<1>. QED BY <1>4, <1>5 DEF IsSum
\* The same for finite sets: among them one all of whose subsets by one element are not.
LEMMA Smallest ==
    ASSUME NEW Bad, Bad # {}, \A s \in Bad : IsFiniteSet(s)
    PROVE  \E s \in Bad : \A x \in s : s \ {x} \notin Bad
<1> DEFINE T == {Cardinality(s) : s \in Bad}
<1>1. T \subseteq Nat /\ T # {}
  BY FS_CardinalityType
<1>2. PICK n \in T : \A m \in T : n <= m
  <2> HIDE DEF T
  <2>. QED BY <1>1, Least
<1>3. PICK s \in Bad : n = Cardinality(s)
  BY <1>2
<1>4. ASSUME NEW x \in s
      PROVE  s \ {x} \notin Bad
  <2>1. n \in Nat \ {0} /\ Cardinality(s \ {x}) = n - 1
    BY <1>3, Smaller
  <2>2. n - 1 \notin T
    <3> HIDE DEF T
    <3>. QED BY <1>2, <2>1
  <2>. QED BY <2>1, <2>2
<1>. QED BY <1>3, <1>4

LEMMA SumIsOne ==
    ASSUME NEW f, NEW S, NEW T, IsFiniteSet(S), NEW g, NEW h, IsSum(g, f, S), IsSum(h, f, T)
    PROVE  \A s \in (SUBSET S) \cap (SUBSET T) : g[s] = h[s]
<1> DEFINE Bad == {s \in (SUBSET S) \cap (SUBSET T) : g[s] # h[s]}
<1> SUFFICES ASSUME Bad # {} PROVE FALSE
  OBVIOUS
<1>1. \A s \in Bad : IsFiniteSet(s)
  BY FS_Subset
<1>2. PICK s \in Bad : \A x \in s : s \ {x} \notin Bad
  <2> HIDE DEF Bad
  <2>. QED BY <1>1, Smallest
<1>3. g[s] = IF s = {} THEN 0 ELSE f[AnyOf(s)] + g[s \ {AnyOf(s)}]
  BY DEF IsSum
<1>4. h[s] = IF s = {} THEN 0 ELSE f[AnyOf(s)] + h[s \ {AnyOf(s)}]
  BY DEF IsSum
<1>5. s # {} /\ AnyOf(s) \in s
  BY <1>3, <1>4 DEF AnyOf
<1>6. g[s \ {AnyOf(s)}] = h[s \ {AnyOf(s)}]
  BY <1>2, <1>5
<1>. QED BY <1>3, <1>4, <1>6

LEMMA SumUnfolds ==
    ASSUME NEW f, NEW S, IsFiniteSet(S)
    PROVE  SumFunctionOnSet(f, S) =
               IF S = {} THEN 0 ELSE f[AnyOf(S)] + SumFunctionOnSet(f, S \ {AnyOf(S)})
<1> DEFINE g == CHOOSE g : IsSum(g, f, S)
<1>1. IsSum(g, f, S) /\ SumFunctionOnSet(f, S) = g[S]
  BY SumExists, SumIsChosen
<1>2. CASE S = {}
  BY <1>1, <1>2 DEF IsSum
<1>3. CASE S # {}
  <2> DEFINE less == S \ {AnyOf(S)}
             h == CHOOSE h : IsSum(h, f, less)
  <2>1. IsFiniteSet(less) /\ less \subseteq S
    BY FS_Subset
  <2>2. IsSum(h, f, less) /\ SumFunctionOnSet(f, less) = h[less]
    BY <2>1, SumExists, SumIsChosen
  <2> HIDE DEF g, h
  <2>3. g[S] = f[AnyOf(S)] + g[less]
    BY <1>1, <1>3 DEF IsSum
  <2>4. g[less] = h[less]
    BY <1>1, <2>1, <2>2, SumIsOne
  <2>. QED BY <1>1, <1>3, <2>2, <2>3, <2>4
<1>. QED BY <1>2, <1>3

LEMMA SumOfNone ==
    ASSUME NEW f
    PROVE  SumFunctionOnSet(f, {}) = 0
BY SumUnfolds, FS_EmptySet

\* A sum of integers is one, and so is a sum of natural numbers.
LEMMA SumIsInt ==
    ASSUME NEW f, NEW S, IsFiniteSet(S), \A x \in S : f[x] \in Int
    PROVE  \A s \in SUBSET S : SumFunctionOnSet(f, s) \in Int
<1> DEFINE Bad == {s \in SUBSET S : SumFunctionOnSet(f, s) \notin Int}
<1> SUFFICES ASSUME Bad # {} PROVE FALSE
  OBVIOUS
<1>1. \A s \in Bad : IsFiniteSet(s)
  BY FS_Subset
<1>2. PICK s \in Bad : \A x \in s : s \ {x} \notin Bad
  <2> HIDE DEF Bad
  <2>. QED BY <1>1, Smallest
<1>3. CASE s = {}
  BY <1>2, <1>3, SumOfNone
<1>4. CASE s # {}
  <2>1. AnyOf(s) \in s
    BY <1>4 DEF AnyOf
  <2>2. SumFunctionOnSet(f, s \ {AnyOf(s)}) \in Int /\ f[AnyOf(s)] \in Int
    BY <1>2, <2>1
  <2>3. SumFunctionOnSet(f, s) = f[AnyOf(s)] + SumFunctionOnSet(f, s \ {AnyOf(s)})
    BY <1>1, <1>4, SumUnfolds
  <2>. QED BY <2>2, <2>3
<1>. QED BY <1>3, <1>4

LEMMA SumIsNat ==
    ASSUME NEW f, NEW S, IsFiniteSet(S), \A x \in S : f[x] \in Nat
    PROVE  \A s \in SUBSET S : SumFunctionOnSet(f, s) \in Nat
<1> DEFINE Bad == {s \in SUBSET S : SumFunctionOnSet(f, s) \notin Nat}
<1> SUFFICES ASSUME Bad # {} PROVE FALSE
  OBVIOUS
<1>1. \A s \in Bad : IsFiniteSet(s)
  BY FS_Subset
<1>2. PICK s \in Bad : \A x \in s : s \ {x} \notin Bad
  <2> HIDE DEF Bad
  <2>. QED BY <1>1, Smallest
<1>3. CASE s = {}
  BY <1>2, <1>3, SumOfNone
<1>4. CASE s # {}
  <2>1. AnyOf(s) \in s
    BY <1>4 DEF AnyOf
  <2>2. SumFunctionOnSet(f, s \ {AnyOf(s)}) \in Nat /\ f[AnyOf(s)] \in Nat
    BY <1>2, <2>1
  <2>3. SumFunctionOnSet(f, s) = f[AnyOf(s)] + SumFunctionOnSet(f, s \ {AnyOf(s)})
    BY <1>1, <1>4, SumUnfolds
  <2>. QED BY <2>2, <2>3
<1>. QED BY <1>3, <1>4

\* It does not matter which of them is added first.
LEMMA SumOfAny ==
    ASSUME NEW f, NEW S, IsFiniteSet(S), \A x \in S : f[x] \in Int
    PROVE  \A x \in S : SumFunctionOnSet(f, S) = f[x] + SumFunctionOnSet(f, S \ {x})
<1> DEFINE Sum(s) == SumFunctionOnSet(f, s)
           Good(s) == \A x \in s : Sum(s) = f[x] + Sum(s \ {x})
           Bad == {s \in SUBSET S : ~Good(s)}
<1> SUFFICES ASSUME Bad # {} PROVE FALSE
  OBVIOUS
<1>1. \A s \in SUBSET S : IsFiniteSet(s) /\ Sum(s) \in Int
  BY FS_Subset, SumIsInt
<1>2. PICK s \in Bad : \A x \in s : s \ {x} \notin Bad
  <2>1. \A s \in Bad : IsFiniteSet(s)
    BY <1>1 DEF Bad
  <2> HIDE DEF Bad
  <2>. QED BY <2>1, Smallest
<1>3. \A t \in SUBSET S : t # {} => AnyOf(t) \in t /\ Sum(t) = f[AnyOf(t)] + Sum(t \ {AnyOf(t)})
  BY <1>1, SumUnfolds DEF AnyOf
<1> HIDE DEF Sum
<1>5. s \in SUBSET S /\ s # {} /\ ~Good(s)
  BY <1>2
<1>6. \A x \in s : Good(s \ {x})
  BY <1>2, <1>5
<1> DEFINE c == AnyOf(s)
<1>7. c \in s /\ Sum(s) = f[c] + Sum(s \ {c})
  BY <1>3, <1>5
<1> HIDE DEF c
<1>9. ASSUME NEW x \in s
      PROVE  Sum(s) = f[x] + Sum(s \ {x})
  <2>1. CASE x = c
    BY <1>7, <2>1
  <2>2. CASE x # c
    <3>1. Sum(s \ {c}) = f[x] + Sum((s \ {c}) \ {x})
      BY <1>6, <1>7, <2>2
    <3>2. Sum(s \ {x}) = f[c] + Sum((s \ {x}) \ {c})
      BY <1>6, <1>7, <2>2
    <3>3. (s \ {c}) \ {x} = (s \ {x}) \ {c}
      OBVIOUS
    <3>4. f[x] \in Int /\ f[c] \in Int /\ Sum(s \ {c}) \in Int /\ Sum(s \ {x}) \in Int
          /\ Sum((s \ {x}) \ {c}) \in Int
      BY <1>1, <1>5, <1>7
    <3>5. Sum(s \ {c}) = f[x] + Sum((s \ {x}) \ {c})
      BY <3>1, <3>3
    <3> DEFINE sc == Sum(s \ {c})
               sx == Sum(s \ {x})
               sxc == Sum((s \ {x}) \ {c})
    <3>6. /\ Sum(s) = f[c] + sc /\ sc = f[x] + sxc /\ sx = f[c] + sxc
          /\ {f[x], f[c], sc, sx, sxc} \subseteq Int
      BY <1>7, <3>2, <3>4, <3>5
    <3> HIDE DEF sc, sx, sxc
    <3>7. Sum(s) = f[x] + sx
      BY <3>6
    <3>. QED BY <3>7 DEF sx
  <2>. QED BY <2>1, <2>2
<1>. QED BY <1>5, <1>9

\* What the sums of two functions have in common, by what the functions have.
LEMMA SumIsMonotone ==
    ASSUME NEW f, NEW g, NEW S, IsFiniteSet(S),
           \A x \in S : f[x] \in Int /\ g[x] \in Int /\ f[x] <= g[x]
    PROVE  SumFunctionOnSet(f, S) <= SumFunctionOnSet(g, S)
<1> DEFINE Bad == {s \in SUBSET S : ~(SumFunctionOnSet(f, s) <= SumFunctionOnSet(g, s))}
<1> SUFFICES ASSUME Bad # {} PROVE FALSE
  OBVIOUS
<1>1. \A s \in SUBSET S : IsFiniteSet(s) /\ SumFunctionOnSet(f, s) \in Int /\ SumFunctionOnSet(g, s) \in Int
  BY FS_Subset, SumIsInt
<1>2. PICK s \in Bad : \A x \in s : s \ {x} \notin Bad
  <2>1. \A s \in Bad : IsFiniteSet(s)
    BY <1>1
  <2> HIDE DEF Bad
  <2>. QED BY <2>1, Smallest
<1>3. CASE s = {}
  BY <1>2, <1>3, SumOfNone
<1>4. CASE s # {}
  <2>1. PICK x \in s : TRUE
    BY <1>4
  <2>2. SumFunctionOnSet(f, s \ {x}) <= SumFunctionOnSet(g, s \ {x})
    BY <1>2
  <2>3. SumFunctionOnSet(f, s) = f[x] + SumFunctionOnSet(f, s \ {x})
    BY <1>1, SumOfAny
  <2>4. SumFunctionOnSet(g, s) = g[x] + SumFunctionOnSet(g, s \ {x})
    BY <1>1, SumOfAny
  <2>5. SumFunctionOnSet(f, s \ {x}) \in Int /\ SumFunctionOnSet(g, s \ {x}) \in Int
    BY <1>1
  <2>6. SumFunctionOnSet(f, s) <= SumFunctionOnSet(g, s)
    BY <2>2, <2>3, <2>4, <2>5
  <2>. QED BY <1>2, <2>6
<1>. QED BY <1>3, <1>4

LEMMA SumAgrees ==
    ASSUME NEW f, NEW g, NEW S, IsFiniteSet(S), \A x \in S : f[x] \in Int /\ g[x] = f[x]
    PROVE  SumFunctionOnSet(f, S) = SumFunctionOnSet(g, S)
<1>1. SumFunctionOnSet(f, S) <= SumFunctionOnSet(g, S)
  BY SumIsMonotone
<1>2. SumFunctionOnSet(g, S) <= SumFunctionOnSet(f, S)
  BY SumIsMonotone
<1>3. SumFunctionOnSet(f, S) \in Int /\ SumFunctionOnSet(g, S) \in Int
  BY SumIsInt
<1>. QED BY <1>1, <1>2, <1>3

\* Sums over sequences.
LEMMA TotalOfNone == Total(<<>>) = 0
BY SumOfNone DEF Total, SumFunction

LEMMA DomainIsFinite ==
    ASSUME NEW S, NEW s \in Seq(S)
    PROVE  /\ DOMAIN s = 1..Len(s) /\ Len(s) \in Nat /\ IsFiniteSet(DOMAIN s)
           /\ \A i \in DOMAIN s : s[i] \in S
BY FS_Interval, LenProperties

LEMMA TotalOfMore ==
    ASSUME NEW s \in Seq(Int), NEW x \in Int
    PROVE  Total(s) \in Int /\ Total(Append(s, x)) = Total(s) + x
<1> DEFINE more == Append(s, x)
           n == Len(s)
<1>1. /\ more \in Seq(Int) /\ Len(more) = n + 1 /\ n \in Nat
      /\ more[n + 1] = x /\ \A i \in 1..n : more[i] = s[i]
  BY AppendProperties, LenProperties
<1>2. /\ DOMAIN s = 1..n /\ DOMAIN more = 1..(n + 1)
      /\ IsFiniteSet(1..n) /\ IsFiniteSet(1..(n + 1))
      /\ \A i \in 1..n : s[i] \in Int
      /\ \A i \in 1..(n + 1) : more[i] \in Int
  BY <1>1, DomainIsFinite
<1> HIDE DEF more, n
<1>3. SumFunctionOnSet(more, 1..n) = SumFunctionOnSet(s, 1..n)
  BY <1>1, <1>2, SumAgrees
<1>4. (1..(n + 1)) \ {n + 1} = 1..n
  BY <1>1
<1>5. SumFunctionOnSet(more, 1..(n + 1)) = x + SumFunctionOnSet(more, 1..n)
  BY <1>1, <1>2, <1>4, SumOfAny
<1>6. SumFunctionOnSet(s, 1..n) \in Int
  BY <1>2, SumIsInt
<1>7. Total(s) = SumFunctionOnSet(s, 1..n) /\ Total(more) = SumFunctionOnSet(more, 1..(n + 1))
  BY <1>2 DEF Total, SumFunction
<1>8. Total(s) \in Int /\ Total(more) = Total(s) + x
  BY <1>3, <1>5, <1>6, <1>7
<1>. QED BY <1>8 DEF more

LEMMA TotalIsMonotone ==
    ASSUME NEW s \in Seq(Int), NEW t \in Seq(Int), Len(s) = Len(t),
           \A i \in 1..Len(s) : s[i] <= t[i]
    PROVE  Total(s) \in Int /\ Total(t) \in Int /\ Total(s) <= Total(t)
<1>1. /\ DOMAIN s = DOMAIN t /\ IsFiniteSet(DOMAIN s)
      /\ \A i \in DOMAIN s : s[i] \in Int /\ t[i] \in Int /\ s[i] <= t[i]
  BY DomainIsFinite
<1>2. /\ SumFunctionOnSet(s, DOMAIN s) <= SumFunctionOnSet(t, DOMAIN s)
      /\ SumFunctionOnSet(s, DOMAIN s) \in Int /\ SumFunctionOnSet(t, DOMAIN s) \in Int
  BY <1>1, SumIsMonotone, SumIsInt
<1>. QED BY <1>1, <1>2 DEF Total, SumFunction

LEMMA TotalIsNat ==
    ASSUME NEW s \in Seq(Nat)
    PROVE  Total(s) \in Nat
BY DomainIsFinite, SumIsNat DEF Total, SumFunction

-----------------------------------------------------------------------------
(* Texts of JSON: members and entries one by one.                          *)

Members == Seq(Nat \X Nat)

LEMMA ObjectOfNone == Object(<<>>) = 2
<1>1. [i \in DOMAIN <<>> |-> Str(<<>>[i][1]) + 1 + <<>>[i][2]] = <<>>
  OBVIOUS
<1>2. Commas(<<>>) = 0
  BY DEF Commas, If
<1>. QED BY <1>1, <1>2, TotalOfNone DEF Object

\* What a member adds to an object: its name in quotes, a colon and its value, and a comma
\* unless it is the first.
LEMMA ObjectOfMore ==
    ASSUME NEW m \in Members, NEW a \in Nat, NEW n \in Nat
    PROVE  /\ m \o << <<a, n>> >> \in Members /\ m \o << <<a, n>> >> # <<>>
           /\ Object(m) \in Int
           /\ Object(m \o << <<a, n>> >>) = Object(m) + a + n + (IF m = <<>> THEN 3 ELSE 4)
<1> DEFINE e == <<a, n>>
           more == Append(m, e)
           k == Len(m)
           Size(s) == [i \in DOMAIN s |-> Str(s[i][1]) + 1 + s[i][2]]
<1>1. e \in Nat \X Nat /\ e[1] = a /\ e[2] = n
  OBVIOUS
<1> HIDE DEF e
<1>2. m \o <<e>> = more
  BY <1>1 DEF Members
<1>3. /\ more \in Members /\ Len(more) = k + 1 /\ k \in Nat /\ m \in Seq(Nat \X Nat)
      /\ more[k + 1] = e /\ \A i \in 1..k : more[i] = m[i] /\ m[i] \in Nat \X Nat
  BY <1>1, AppendProperties, LenProperties DEF Members
<1>4. DOMAIN m = 1..k /\ DOMAIN more = 1..(k + 1) /\ (m = <<>> <=> k = 0) /\ more # <<>>
  BY <1>3, DomainIsFinite, EmptySeq DEF Members
<1> HIDE DEF more, k
<1>5. \A i \in 1..k : Str(m[i][1]) + 1 + m[i][2] \in Int
  BY SMTT(40), <1>3 DEF Str
<1>6. Size(m) \in Seq(Int) /\ Len(Size(m)) = k
  BY <1>3, <1>4, <1>5
<1>7. Size(more) = Append(Size(m), a + n + 3)
  <2>1. Str(more[k + 1][1]) + 1 + more[k + 1][2] = a + n + 3
    BY <1>1, <1>3 DEF Str
  <2>2. \A i \in 1..k : Size(more)[i] = Size(m)[i]
    BY <1>3, <1>4
  <2>3. Append(Size(m), a + n + 3) \in Seq(Int) /\ Len(Append(Size(m), a + n + 3)) = k + 1
        /\ Append(Size(m), a + n + 3)[k + 1] = a + n + 3
        /\ \A i \in 1..k : Append(Size(m), a + n + 3)[i] = Size(m)[i]
    BY <1>6, AppendProperties
  <2>4. Size(more) \in Seq(Int) /\ Len(Size(more)) = k + 1
    <3>1. \A i \in 1..(k + 1) : Str(more[i][1]) + 1 + more[i][2] \in Int
      BY SMTT(40), <1>3, <1>5, <2>1
    <3>. QED BY <1>3, <1>4, <3>1
  <2> DEFINE s == Size(more)
             t == Append(Size(m), a + n + 3)
  <2>5. s[k + 1] = a + n + 3
    BY <1>3, <1>4, <2>1
  <2> HIDE DEF s, t, Size
  <2>6. \A i \in 1..(k + 1) : s[i] = t[i]
    BY <1>3, <2>2, <2>3, <2>5 DEF s, t
  <2>7. s = t
    BY <2>3, <2>4, <2>6, SeqEqual DEF s, t
  <2>. QED BY <2>7 DEF s, t
<1> DEFINE sizes == Size(m)
           sum == Total(sizes)
           commas == Commas(m)
<1>8. sum \in Int /\ Total(Size(more)) = sum + (a + n + 3)
  <2> HIDE DEF Size
  <2>1. sizes \in Seq(Int)
    BY <1>6
  <2>2. Size(more) = Append(sizes, a + n + 3)
    BY <1>7
  <2>3. a + n + 3 \in Int
    OBVIOUS
  <2> HIDE DEF sizes
  <2>. QED BY <2>1, <2>2, <2>3, TotalOfMore
<1>9. commas = (IF k = 0 THEN 0 ELSE k - 1) /\ Commas(more) = k
  <2>1. Len(m) = k /\ Len(more) = k + 1
    BY <1>3 DEF k
  <2>. QED BY <1>3, <1>4, <2>1 DEF Commas, If
<1>10. Object(m) = 2 + sum + commas /\ Object(more) = 2 + (sum + (a + n + 3)) + k
  BY <1>8, <1>9 DEF Object
<1> HIDE DEF sum, commas
<1>11. Object(m) \in Int /\ Object(more) = Object(m) + a + n + (IF m = <<>> THEN 3 ELSE 4)
  BY <1>3, <1>4, <1>8, <1>9, <1>10
<1>. QED BY <1>2, <1>3, <1>4, <1>11 DEF e

LEMMA FirstMember ==
    ASSUME NEW name, Characters(name) \in Nat, NEW n \in Nat
    PROVE  /\ Text(name, n) \in Members /\ Text(name, n) # <<>>
           /\ Object(Text(name, n)) = Characters(name) + n + 7
           /\ Json(name, n) \in Members /\ Json(name, n) # <<>>
           /\ Object(Json(name, n)) = Characters(name) + n + 5
<1> DEFINE a == Characters(name)
<1>1. a \in Nat /\ n + 2 \in Nat /\ <<>> \in Members
  BY DEF Members
<1>2. Text(name, n) = << <<a, n + 2>> >> /\ Json(name, n) = << <<a, n>> >>
  BY DEF Text, Json, Str
<1> DEFINE none == <<>>
<1> HIDE DEF a
<1>3. /\ none \o << <<a, n + 2>> >> = << <<a, n + 2>> >> /\ none \o << <<a, n>> >> = << <<a, n>> >>
      /\ none \in Members /\ none = <<>> /\ Object(none) = 2
  BY <1>1, ObjectOfNone
<1> HIDE DEF none
<1>4. /\ none \o << <<a, n + 2>> >> \in Members /\ none \o << <<a, n + 2>> >> # <<>>
      /\ Object(none \o << <<a, n + 2>> >>) = Object(none) + a + (n + 2) + (IF none = <<>> THEN 3 ELSE 4)
  BY <1>1, <1>3, ObjectOfMore
<1>5. /\ none \o << <<a, n>> >> \in Members /\ none \o << <<a, n>> >> # <<>>
      /\ Object(none \o << <<a, n>> >>) = Object(none) + a + n + (IF none = <<>> THEN 3 ELSE 4)
  BY <1>1, <1>3, ObjectOfMore
<1>6. 2 + a + (n + 2) + 3 = a + n + 7 /\ 2 + a + n + 3 = a + n + 5
  BY <1>1
<1>. QED BY <1>2, <1>3, <1>4, <1>5, <1>6 DEF a

\* The first member of an object, and the next, a text or a value; the last two lemmas
\* are about a member that is there under a condition.
LEMMA FirstText ==
    ASSUME NEW name, Characters(name) \in Nat, NEW n \in Nat
    PROVE  /\ Text(name, n) \in Members /\ Text(name, n) # <<>>
           /\ Object(Text(name, n)) = Characters(name) + n + 7
BY FirstMember

LEMMA FirstJson ==
    ASSUME NEW name, Characters(name) \in Nat, NEW n \in Nat
    PROVE  /\ Json(name, n) \in Members /\ Json(name, n) # <<>>
           /\ Object(Json(name, n)) = Characters(name) + n + 5
BY FirstMember

LEMMA NextText ==
    ASSUME NEW m \in Members, m # <<>>, NEW name, Characters(name) \in Nat, NEW n \in Nat
    PROVE  /\ m \o Text(name, n) \in Members /\ m \o Text(name, n) # <<>>
           /\ Object(m) \in Int
           /\ Object(m \o Text(name, n)) = Object(m) + Characters(name) + n + 6
<1> DEFINE a == Characters(name)
<1>1. a \in Nat /\ n + 2 \in Nat
  OBVIOUS
<1>2. Text(name, n) = << <<a, n + 2>> >>
  BY DEF Text, Str
<1> HIDE DEF a
<1>3. /\ m \o << <<a, n + 2>> >> \in Members /\ m \o << <<a, n + 2>> >> # <<>> /\ Object(m) \in Int
      /\ Object(m \o << <<a, n + 2>> >>) = Object(m) + a + (n + 2) + 4
  BY <1>1, ObjectOfMore
<1>. QED BY <1>1, <1>2, <1>3 DEF a

LEMMA NextJson ==
    ASSUME NEW m \in Members, m # <<>>, NEW name, Characters(name) \in Nat, NEW n \in Nat
    PROVE  /\ m \o Json(name, n) \in Members /\ m \o Json(name, n) # <<>>
           /\ Object(m) \in Int
           /\ Object(m \o Json(name, n)) = Object(m) + Characters(name) + n + 4
<1> DEFINE a == Characters(name)
<1>1. a \in Nat /\ n + 2 \in Nat
  OBVIOUS
<1>2. Json(name, n) = << <<a, n>> >>
  BY DEF Json
<1> HIDE DEF a
<1>3. /\ m \o << <<a, n>> >> \in Members /\ m \o << <<a, n>> >> # <<>> /\ Object(m) \in Int
      /\ Object(m \o << <<a, n>> >>) = Object(m) + a + (n) + 4
  BY <1>1, ObjectOfMore
<1>. QED BY <1>1, <1>2, <1>3 DEF a

LEMMA Regroup ==
    ASSUME NEW o \in Int, NEW a \in Nat, NEW n \in Nat
    PROVE  o + a + n + 6 = o + (a + n + 6) /\ o + a + n + 4 = o + (a + n + 4)
OBVIOUS

LEMMA NextTextIf ==
    ASSUME NEW m \in Members, m # <<>>, NEW name, Characters(name) \in Nat,
           NEW n, NEW c \in BOOLEAN, c => n \in Nat
    PROVE  /\ m \o TextIf(c, name, n) \in Members /\ m \o TextIf(c, name, n) # <<>>
           /\ Object(m) \in Int
           /\ Object(m \o TextIf(c, name, n)) = Object(m) + (IF c THEN Characters(name) + n + 6 ELSE 0)
<1>1. CASE c
  <2>1. TextIf(c, name, n) = Text(name, n) /\ n \in Nat
    BY <1>1 DEF TextIf
  <2> DEFINE more == m \o Text(name, n)
             size == Characters(name) + n + 6
  <2>2. /\ more \in Members /\ more # <<>> /\ Object(m) \in Int
        /\ Object(more) = Object(m) + Characters(name) + n + 6
    BY ZenonT(60), <2>1, NextText
  <2>3. Object(m) + Characters(name) + n + 6 = Object(m) + size
    BY <2>1, <2>2, Regroup
  <2>4. (IF c THEN size ELSE 0) = size
    BY <1>1
  <2> HIDE DEF size
  <2>5. Object(more) = Object(m) + (IF c THEN size ELSE 0)
    BY <2>2, <2>3, <2>4
  <2>. QED BY Zenon, <2>1, <2>2, <2>5 DEF size, more
<1>2. CASE ~c
  <2>1. m \o <<>> = m
    BY DEF Members
  <2>2. TextIf(c, name, n) = <<>>
    BY <1>2 DEF TextIf
  <2>3. Object(m) \in Int
    <3>1. 0 \in Nat
      OBVIOUS
    <3>. QED BY <3>1, ObjectOfMore
  <2>. QED BY <1>2, <2>1, <2>2, <2>3
<1>. QED BY <1>1, <1>2

LEMMA NextJsonIf ==
    ASSUME NEW m \in Members, m # <<>>, NEW name, Characters(name) \in Nat,
           NEW n, NEW c \in BOOLEAN, c => n \in Nat
    PROVE  /\ m \o JsonIf(c, name, n) \in Members /\ m \o JsonIf(c, name, n) # <<>>
           /\ Object(m) \in Int
           /\ Object(m \o JsonIf(c, name, n)) = Object(m) + (IF c THEN Characters(name) + n + 4 ELSE 0)
<1>1. CASE c
  <2>1. JsonIf(c, name, n) = Json(name, n) /\ n \in Nat
    BY <1>1 DEF JsonIf
  <2> DEFINE more == m \o Json(name, n)
             size == Characters(name) + n + 4
  <2>2. /\ more \in Members /\ more # <<>> /\ Object(m) \in Int
        /\ Object(more) = Object(m) + Characters(name) + n + 4
    BY ZenonT(60), <2>1, NextJson
  <2>3. Object(m) + Characters(name) + n + 4 = Object(m) + size
    BY <2>1, <2>2, Regroup
  <2>4. (IF c THEN size ELSE 0) = size
    BY <1>1
  <2> HIDE DEF size
  <2>5. Object(more) = Object(m) + (IF c THEN size ELSE 0)
    BY <2>2, <2>3, <2>4
  <2>. QED BY Zenon, <2>1, <2>2, <2>5 DEF size, more
<1>2. CASE ~c
  <2>1. m \o <<>> = m
    BY DEF Members
  <2>2. JsonIf(c, name, n) = <<>>
    BY <1>2 DEF JsonIf
  <2>3. Object(m) \in Int
    <3>1. 0 \in Nat
      OBVIOUS
    <3>. QED BY <3>1, ObjectOfMore
  <2>. QED BY <1>2, <2>1, <2>2, <2>3
<1>. QED BY <1>1, <1>2

LEMMA NamesAreNumbers ==
    /\ Characters("type") \in Nat /\ Characters("version") \in Nat /\ Characters("payload") \in Nat
    /\ Characters("details") \in Nat /\ Characters("configurationId") \in Nat
    /\ Characters("fileName") \in Nat /\ Characters("creationDate") \in Nat
    /\ Characters("fileType") \in Nat /\ Characters("dataPointId") \in Nat /\ Characters("value") \in Nat
    /\ Characters("qualityCode") \in Nat /\ Characters("timestamp") \in Nat
    /\ Characters("values") \in Nat /\ Characters("id") \in Nat /\ Characters("name") \in Nat
    /\ Characters("description") \in Nat /\ Characters("unit") \in Nat
    /\ Characters("customData") \in Nat /\ Characters("dataPoints") \in Nat
    /\ Characters("correlationId") \in Nat /\ Characters("severity") \in Nat
    /\ Characters("dataSources") \in Nat
BY NamesAssumption

LEMMA ValueIsSized ==
    ASSUME NEW v \in AnyValue, ValueValid(v)
    PROVE  ValueSize(v) \in Nat /\ WrittenValue(v) = ValueSize(v)
<1>1. v.id \in Nat /\ v.value \in Nat /\ v.quality \in Nat
  BY DEF AnyValue, AnyLength, ValueValid
<1> DEFINE m == Text("dataPointId", v.id)
           n == m \o Text("value", v.value)
<1>2. m \in Members /\ m # <<>> /\ Object(m) = Characters("dataPointId") + v.id + 7
  BY <1>1, FirstText, NamesAreNumbers
<1> HIDE DEF m
<1>3. n \in Members /\ n # <<>> /\ Object(n) = Object(m) + Characters("value") + v.value + 6
  BY ZenonT(60), <1>1, <1>2, NextText, NamesAreNumbers
<1> HIDE DEF n
<1>4. Object(n \o Text("qualityCode", v.quality)) = Object(n) + Characters("qualityCode") + v.quality + 6
  BY ZenonT(60), <1>1, <1>3, NextText, NamesAreNumbers
<1>5. WrittenValue(v) = v.id + v.value + v.quality + 46
  <2>1. WrittenValue(v) = Object(n \o Text("qualityCode", v.quality))
    BY DEF WrittenValue, m, n
  <2>2. /\ Characters("dataPointId") = 11 /\ Characters("value") = 5 /\ Characters("qualityCode") = 11
    BY NamesAssumption
  <2>3. Object(m) = v.id + 18
    BY <1>1, <1>2, <2>2
  <2>4. Object(n) = v.id + v.value + 29
    BY SMTT(40), <1>1, <1>3, <2>2, <2>3
  <2>. QED BY <1>1, <1>4, <2>1, <2>2, <2>4
<1>. QED BY <1>1, <1>5, BasesAssumption DEF ValueSize

LEMMA ArrayIsTotal ==
    ASSUME NEW s \in Seq(Nat), s # <<>>
    PROVE  Array(s) \in Nat /\ Array(s) = 2 + Total(s) + (Len(s) - 1)
<1>1. Len(s) \in Nat \ {0} /\ Total(s) \in Nat
  BY TotalIsNat, EmptySeq, LenProperties
<1>. QED BY <1>1 DEF Array, Commas, If

LEMMA ValuesAreSized ==
    ASSUME NEW list \in Seq(AnyValue), ValuesValid(list)
    PROVE  ValuesSize(list) \in Nat /\ WrittenValues(list) = ValuesSize(list)
<1> DEFINE s == Each(ValueSize, list)
           m == Text("timestamp", Timestamp)
           n == m \o Json("values", Array(s))
<1>1. /\ Len(list) \in Nat \ {0} /\ DOMAIN list = 1..Len(list)
      /\ \A i \in 1..Len(list) : ValueSize(list[i]) \in Nat /\ WrittenValue(list[i]) = ValueSize(list[i])
  BY DomainIsFinite, ValueIsSized, EmptySeq DEF ValuesValid
<1>2. s \in Seq(Nat) /\ s # <<>> /\ Len(s) = Len(list) /\ Each(WrittenValue, list) = s
  BY <1>1, EmptySeq DEF Each
<1> HIDE DEF s
<1>3. /\ Total(s) \in Nat /\ Array(s) \in Nat
      /\ Array(s) = 2 + Total(s) + (Len(list) - 1)
  BY <1>2, ArrayIsTotal, TotalIsNat
<1>4. Timestamp = 24
  BY DEF Timestamp
<1>5. m \in Members /\ m # <<>> /\ Object(m) = Characters("timestamp") + Timestamp + 7
  BY <1>4, FirstText, NamesAreNumbers
<1> HIDE DEF m
<1>6. Object(n) = Object(m) + Characters("values") + Array(s) + 4
  BY ZenonT(60), <1>3, <1>5, NextJson, NamesAreNumbers
<1>7. WrittenValues(list) = Object(n)
  BY <1>2 DEF WrittenValues, m, n
<1> HIDE DEF n
<1>8. Characters("timestamp") = 9 /\ Characters("values") = 6 /\ ValueListBase = 52
  BY NamesAssumption, BasesAssumption
<1>9. WrittenValues(list) = 52 + Total(s) + (Len(list) - 1)
  BY SMTT(40), <1>1, <1>3, <1>4, <1>5, <1>6, <1>7, <1>8
<1>. QED BY <1>1, <1>3, <1>8, <1>9 DEF ValuesSize, Delimiters, s

LEMMA PointIsSized ==
    ASSUME NEW p \in AnyPoint, PointValid(p), Nothing \notin Nat
    PROVE  PointSize(p) \in Nat /\ WrittenPoint(p) \in Nat /\ WrittenPoint(p) <= PointSize(p)
<1> DEFINE hasText == Set(p.description)
           hasData == Set(p.customData)
           m1 == Text("id", p.id)
           m2 == m1 \o Text("name", p.name)
           m3 == m2 \o TextIf(hasText, "description", p.description)
           m4 == m3 \o Text("type", p.type)
           m5 == m4 \o Text("unit", p.unit)
           m6 == m5 \o JsonIf(hasData, "customData", p.customData)
<1>1. p.id \in Nat /\ p.name \in Nat /\ p.type \in Nat /\ p.unit \in Nat
  BY DEF AnyPoint, AnyLength, PointValid
<1>2. /\ hasText \in BOOLEAN /\ hasData \in BOOLEAN
      /\ hasText => p.description \in Nat
      /\ hasData => p.customData \in Nat
  BY DEF AnyPoint, AnyLength, Set
<1>3. /\ Length(p.description) = (IF hasText THEN p.description ELSE 0)
      /\ If(hasData, CustomDataSize + Length(p.customData)) =
             (IF hasData THEN CustomDataSize + p.customData ELSE 0)
  BY DEF Length, Set, If
<1>names. /\ Characters("id") = 2 /\ Characters("name") = 4 /\ Characters("description") = 11
          /\ Characters("type") = 4 /\ Characters("unit") = 4 /\ Characters("customData") = 10
  BY NamesAssumption
<1>numbers. /\ Characters("id") \in Nat /\ Characters("name") \in Nat
            /\ Characters("description") \in Nat /\ Characters("type") \in Nat
            /\ Characters("unit") \in Nat /\ Characters("customData") \in Nat
  BY <1>names
<1>whole. WrittenPoint(p) = Object(m6)
  BY DEF WrittenPoint
<1>m1. m1 \in Members /\ m1 # <<>>
  BY <1>1, <1>2, FirstText, <1>numbers
<1>o1. Object(m1) = Characters("id") + p.id + 7
  BY <1>1, <1>2, FirstText, <1>numbers
<1> HIDE DEF m1
<1>m2. m2 \in Members /\ m2 # <<>>
  BY ZenonT(60), <1>1, <1>2, <1>m1, NextText, <1>numbers
<1>o2. Object(m2) = Object(m1) + Characters("name") + p.name + 6
  BY ZenonT(60), <1>1, <1>2, <1>m1, NextText, <1>numbers
<1> HIDE DEF m2
<1>m3. m3 \in Members /\ m3 # <<>>
  BY ZenonT(60), <1>1, <1>2, <1>m2, NextTextIf, <1>numbers
<1>o3. Object(m3) = Object(m2) + (IF hasText THEN Characters("description") + p.description + 6 ELSE 0)
  BY ZenonT(60), <1>1, <1>2, <1>m2, NextTextIf, <1>numbers
<1> HIDE DEF m3
<1>m4. m4 \in Members /\ m4 # <<>>
  BY ZenonT(60), <1>1, <1>2, <1>m3, NextText, <1>numbers
<1>o4. Object(m4) = Object(m3) + Characters("type") + p.type + 6
  BY ZenonT(60), <1>1, <1>2, <1>m3, NextText, <1>numbers
<1> HIDE DEF m4
<1>m5. m5 \in Members /\ m5 # <<>>
  BY ZenonT(60), <1>1, <1>2, <1>m4, NextText, <1>numbers
<1>o5. Object(m5) = Object(m4) + Characters("unit") + p.unit + 6
  BY ZenonT(60), <1>1, <1>2, <1>m4, NextText, <1>numbers
<1> HIDE DEF m5
<1>m6. m6 \in Members /\ m6 # <<>>
  BY ZenonT(60), <1>1, <1>2, <1>m5, NextJsonIf, <1>numbers
<1>o6. Object(m6) = Object(m5) + (IF hasData THEN Characters("customData") + p.customData + 4 ELSE 0)
  BY ZenonT(60), <1>1, <1>2, <1>m5, NextJsonIf, <1>numbers
<1> HIDE DEF m6
<1> DEFINE o1 == Object(m1)
           o2 == Object(m2)
           o3 == Object(m3)
           o4 == Object(m4)
           o5 == Object(m5)
           o6 == Object(m6)
<1>s1. o1 \in Int /\ o1 = 9 + p.id
  BY <1>1, <1>2, <1>o1, <1>names
<1>s2. o2 \in Int /\ o2 = o1 + 10 + p.name
  BY <1>1, <1>2, <1>o2, <1>names, <1>s1
<1>s3. o3 \in Int /\ o3 = o2 + (IF hasText THEN 17 + p.description ELSE 0)
  BY <1>1, <1>2, <1>o3, <1>names, <1>s2
<1>s4. o4 \in Int /\ o4 = o3 + 10 + p.type
  BY <1>1, <1>2, <1>o4, <1>names, <1>s3
<1>s5. o5 \in Int /\ o5 = o4 + 10 + p.unit
  BY <1>1, <1>2, <1>o5, <1>names, <1>s4
<1>s6. o6 \in Int /\ o6 = o5 + (IF hasData THEN 14 + p.customData ELSE 0)
  BY <1>1, <1>2, <1>o6, <1>names, <1>s5
<1>last. WrittenPoint(p) = o6
  BY <1>whole
<1> HIDE DEF o1, o2, o3, o4, o5, o6
<1> HIDE DEF hasText, hasData
<1>4. WrittenPoint(p) = 39 + p.id + p.name + p.type + p.unit + (IF hasText THEN 17 + p.description ELSE 0)
                           + (IF hasData THEN 14 + p.customData ELSE 0)
  BY <1>1, <1>2, <1>s1, <1>s2, <1>s3, <1>s4, <1>s5, <1>s6, <1>last
<1>5. PointSize(p) = 56 + p.id + p.name + (IF hasText THEN p.description ELSE 0) + p.type + p.unit
                        + (IF hasData THEN 14 + p.customData ELSE 0)
  <2>1. PointBase = 56 /\ CustomDataSize = 14
    BY BasesAssumption
  <2>. QED BY <1>3, <2>1 DEF PointSize, hasData
<1>. QED BY <1>1, <1>2, <1>4, <1>5

LEMMA SourceIsSized ==
    ASSUME NEW s \in AnySource, SourceValid(s), Nothing \notin Nat
    PROVE  SourceSize(s) \in Nat /\ WrittenSource(s) \in Nat /\ WrittenSource(s) <= SourceSize(s)
<1> DEFINE hasText == Set(s.description)
           hasData == Set(s.customData)
           w == Each(WrittenPoint, s.points)
           t == Each(PointSize, s.points)
           array == Array(w)
           m1 == Text("name", s.name)
           m2 == m1 \o TextIf(hasText, "description", s.description)
           m3 == m2 \o Json("dataPoints", array)
           m4 == m3 \o JsonIf(hasData, "customData", s.customData)
<1>1. s.name \in Nat /\ s.points \in Seq(AnyPoint)
  BY DEF AnySource, AnyLength, SourceValid
<1>2. /\ hasText \in BOOLEAN /\ hasData \in BOOLEAN
      /\ hasText => s.description \in Nat
      /\ hasData => s.customData \in Nat
  BY DEF AnySource, AnyLength, Set
<1>3. /\ Length(s.description) = (IF hasText THEN s.description ELSE 0)
      /\ If(hasData, CustomDataSize + Length(s.customData)) =
             (IF hasData THEN CustomDataSize + s.customData ELSE 0)
  BY DEF Length, Set, If
<1>4. /\ w \in Seq(Nat) /\ w # <<>> /\ t \in Seq(Nat) /\ w \in Seq(Int) /\ t \in Seq(Int)
      /\ Len(w) = Len(s.points) /\ Len(t) = Len(s.points) /\ Len(s.points) \in Nat \ {0}
      /\ \A i \in 1..Len(w) : w[i] <= t[i]
  <2>1. /\ Len(s.points) \in Nat \ {0} /\ DOMAIN s.points = 1..Len(s.points)
        /\ \A i \in 1..Len(s.points) : s.points[i] \in AnyPoint /\ PointValid(s.points[i])
    BY <1>1, DomainIsFinite, EmptySeq DEF SourceValid
  <2>2. \A i \in 1..Len(s.points) : /\ PointSize(s.points[i]) \in Nat /\ WrittenPoint(s.points[i]) \in Nat
                                    /\ WrittenPoint(s.points[i]) <= PointSize(s.points[i])
    BY <2>1, PointIsSized
  <2>3. w = [i \in 1..Len(s.points) |-> WrittenPoint(s.points[i])]
        /\ t = [i \in 1..Len(s.points) |-> PointSize(s.points[i])]
    BY <2>1 DEF Each
  <2> HIDE DEF w, t
  <2>4. w \in Seq(Nat) /\ Len(w) = Len(s.points) /\ t \in Seq(Nat) /\ Len(t) = Len(s.points)
    BY <2>1, <2>2, <2>3
  <2>5. w # <<>> /\ w \in Seq(Int) /\ t \in Seq(Int)
    BY <2>1, <2>4, EmptySeq
  <2>. QED BY <2>1, <2>2, <2>3, <2>4, <2>5
<1> DEFINE n == Len(s.points)
           sum == Total(w)
           size == Total(t)
<1>5. array \in Nat /\ array = 2 + sum + (n - 1) /\ sum \in Nat /\ size \in Nat /\ n \in Nat \ {0}
  <2> HIDE DEF w, t
  <2>. QED BY <1>4, ArrayIsTotal, TotalIsNat
<1>6. sum <= size
  <2> HIDE DEF w, t
  <2>. QED BY <1>4, TotalIsMonotone
<1>8. SourceSize(s) = 44 + s.name + (IF hasText THEN s.description ELSE 0) + size + (n - 1)
                         + (IF hasData THEN 14 + s.customData ELSE 0)
  <2>1. SourceBase = 44 /\ CustomDataSize = 14
    BY BasesAssumption
  <2>. QED BY <1>3, <2>1 DEF SourceSize, Delimiters
<1>names. /\ Characters("name") = 4 /\ Characters("description") = 11 /\ Characters("dataPoints") = 10
          /\ Characters("customData") = 10
  BY NamesAssumption
<1>numbers. /\ Characters("name") \in Nat /\ Characters("description") \in Nat
            /\ Characters("dataPoints") \in Nat /\ Characters("customData") \in Nat
  BY <1>names
<1>whole. WrittenSource(s) = Object(m4)
  BY DEF WrittenSource
<1> HIDE DEF hasText, hasData, array, w, t, n, sum, size
<1>m1. m1 \in Members /\ m1 # <<>>
  BY <1>1, <1>2, <1>5, FirstText, <1>numbers
<1>o1. Object(m1) = Characters("name") + s.name + 7
  BY <1>1, <1>2, <1>5, FirstText, <1>numbers
<1> HIDE DEF m1
<1>m2. m2 \in Members /\ m2 # <<>>
  BY ZenonT(60), <1>1, <1>2, <1>5, <1>m1, NextTextIf, <1>numbers
<1>o2. Object(m2) = Object(m1) + (IF hasText THEN Characters("description") + s.description + 6 ELSE 0)
  BY ZenonT(60), <1>1, <1>2, <1>5, <1>m1, NextTextIf, <1>numbers
<1> HIDE DEF m2
<1>m3. m3 \in Members /\ m3 # <<>>
  BY ZenonT(60), <1>1, <1>2, <1>5, <1>m2, NextJson, <1>numbers
<1>o3. Object(m3) = Object(m2) + Characters("dataPoints") + array + 4
  BY ZenonT(60), <1>1, <1>2, <1>5, <1>m2, NextJson, <1>numbers
<1> HIDE DEF m3
<1>m4. m4 \in Members /\ m4 # <<>>
  BY ZenonT(60), <1>1, <1>2, <1>5, <1>m3, NextJsonIf, <1>numbers
<1>o4. Object(m4) = Object(m3) + (IF hasData THEN Characters("customData") + s.customData + 4 ELSE 0)
  BY ZenonT(60), <1>1, <1>2, <1>5, <1>m3, NextJsonIf, <1>numbers
<1> HIDE DEF m4
<1> DEFINE o1 == Object(m1)
           o2 == Object(m2)
           o3 == Object(m3)
           o4 == Object(m4)
<1>s1. o1 \in Int /\ o1 = 11 + s.name
  BY <1>1, <1>2, <1>5, <1>o1, <1>names
<1>s2. o2 \in Int /\ o2 = o1 + (IF hasText THEN 17 + s.description ELSE 0)
  BY <1>1, <1>2, <1>5, <1>o2, <1>names, <1>s1
<1>s3. o3 \in Int /\ o3 = o2 + 14 + array
  BY SMTT(40), <1>1, <1>2, <1>5, <1>o3, <1>names, <1>s2
<1>s4. o4 \in Int /\ o4 = o3 + (IF hasData THEN 14 + s.customData ELSE 0)
  BY <1>1, <1>2, <1>5, <1>o4, <1>names, <1>s3
<1>last. WrittenSource(s) = o4
  BY <1>whole
<1> HIDE DEF o1, o2, o3, o4
<1> DEFINE text == IF hasText THEN s.description ELSE 0
           full == IF hasText THEN 17 + s.description ELSE 0
           data == IF hasData THEN 14 + s.customData ELSE 0
           name == s.name
<1>9. text \in Nat /\ full \in Nat /\ data \in Nat /\ name \in Nat /\ full <= 17 + text
  BY <1>1, <1>2
<1>10. SourceSize(s) = 44 + name + text + size + (n - 1) + data
  BY <1>8
<1>11. o1 = 11 + name /\ o2 = o1 + full /\ o4 = o3 + data
  <2>1. o1 = 11 + name
    BY <1>s1
  <2>2. o2 = o1 + full
    BY <1>s2, <1>1, <1>2
  <2>3. o4 = o3 + data
    BY <1>s4, <1>1, <1>2
  <2>. QED BY <2>1, <2>2, <2>3
<1>7. o1 \in Int /\ o2 \in Int /\ o3 \in Int /\ o4 \in Int /\ o3 = o2 + 16 + sum + (n - 1)
  BY <1>5, <1>s1, <1>s2, <1>s3, <1>s4
<1> HIDE DEF text, full, data, name
<1>. QED BY <1>5, <1>6, <1>7, <1>9, <1>10, <1>11, <1>last

LEMMA EventIsSized ==
    ASSUME NEW e \in AnyEvent, Nothing \notin Nat
    PROVE  WrittenEvent(e) \in Nat /\ EventSize(e) \in Nat /\ WrittenEvent(e) + 2 <= EventSize(e)
<1> DEFINE hasId == SetAndNotEmpty(e.correlationId)
           hasText == SetAndNotEmpty(e.description)
           severity == IF e.version = 1 THEN 1 ELSE 2
           details == IF Set(e.details) THEN e.details ELSE Object(<<>>)
           m1 == Text("id", Guid)
           m2 == m1 \o TextIf(hasId, "correlationId", e.correlationId)
           m3 == m2 \o Text("timestamp", Timestamp)
           m4 == m3 \o Json("severity", severity)
           m5 == m4 \o TextIf(hasText, "description", e.description)
           m6 == m5 \o Text("type", e.type)
           m7 == m6 \o Text("version", e.eventVersion)
           m8 == m7 \o Json("details", details)
<1>1. /\ e.type \in Nat /\ e.eventVersion \in Nat /\ severity \in Nat /\ details \in Nat
      /\ Guid = 36 /\ Timestamp = 24 /\ Guid \in Nat /\ Timestamp \in Nat
      /\ details = (IF Set(e.details) THEN e.details ELSE 2)
  <2>1. /\ e.type \in Nat /\ e.eventVersion \in Nat
        /\ Guid = 36 /\ Timestamp = 24
        /\ Set(e.details) => e.details \in Nat
    BY DEF AnyEvent, AnyLength, Guid, Timestamp, Set
  <2>2. details = (IF Set(e.details) THEN e.details ELSE 2)
    BY ObjectOfNone
  <2> HIDE DEF details
  <2>. QED BY <2>1, <2>2
<1>2. /\ hasId \in BOOLEAN /\ hasText \in BOOLEAN
      /\ hasId => e.correlationId \in Nat
      /\ hasText => e.description \in Nat
  BY DEF AnyEvent, AnyLength, Set, SetAndNotEmpty
<1>3. /\ If(Set(e.correlationId), CorrelationIdSize + Length(e.correlationId)) \in Nat
      /\ If(Set(e.correlationId), CorrelationIdSize + Length(e.correlationId)) >=
             (IF hasId THEN 19 + e.correlationId ELSE 0)
      /\ If(Set(e.description), DescriptionSize + Length(e.description)) \in Nat
      /\ If(Set(e.description), DescriptionSize + Length(e.description)) >=
             (IF hasText THEN 17 + e.description ELSE 0)
  <2>1. CorrelationIdSize = 19 /\ DescriptionSize = 17
    BY BasesAssumption
  <2>2. e.correlationId \in Nat \cup {Nothing} /\ e.description \in Nat \cup {Nothing}
    BY DEF AnyEvent, AnyLength
  <2>. QED BY <2>1, <2>2 DEF Length, Set, If, SetAndNotEmpty
<1>names. /\ Characters("id") = 2 /\ Characters("correlationId") = 13 /\ Characters("timestamp") = 9
          /\ Characters("severity") = 8 /\ Characters("description") = 11 /\ Characters("type") = 4
          /\ Characters("version") = 7 /\ Characters("details") = 7
  BY NamesAssumption
<1>numbers. /\ Characters("id") \in Nat /\ Characters("correlationId") \in Nat
            /\ Characters("timestamp") \in Nat /\ Characters("severity") \in Nat
            /\ Characters("description") \in Nat /\ Characters("type") \in Nat
            /\ Characters("version") \in Nat /\ Characters("details") \in Nat
  BY <1>names
<1>whole. WrittenEvent(e) = Object(m8)
  BY DEF WrittenEvent
<1> HIDE DEF details, severity, hasId, hasText
<1>m1. m1 \in Members /\ m1 # <<>>
  BY <1>1, <1>2, FirstText, <1>numbers
<1>o1. Object(m1) = Characters("id") + Guid + 7
  BY <1>1, <1>2, FirstText, <1>numbers
<1> HIDE DEF m1
<1>m2. m2 \in Members /\ m2 # <<>>
  BY ZenonT(60), <1>1, <1>2, <1>m1, NextTextIf, <1>numbers
<1>o2. Object(m2) = Object(m1) + (IF hasId THEN Characters("correlationId") + e.correlationId + 6 ELSE 0)
  BY ZenonT(60), <1>1, <1>2, <1>m1, NextTextIf, <1>numbers
<1> HIDE DEF m2
<1>m3. m3 \in Members /\ m3 # <<>>
  BY ZenonT(60), <1>1, <1>2, <1>m2, NextText, <1>numbers
<1>o3. Object(m3) = Object(m2) + Characters("timestamp") + Timestamp + 6
  BY ZenonT(60), <1>1, <1>2, <1>m2, NextText, <1>numbers
<1> HIDE DEF m3
<1>m4. m4 \in Members /\ m4 # <<>>
  BY ZenonT(60), <1>1, <1>2, <1>m3, NextJson, <1>numbers
<1>o4. Object(m4) = Object(m3) + Characters("severity") + severity + 4
  BY ZenonT(60), <1>1, <1>2, <1>m3, NextJson, <1>numbers
<1> HIDE DEF m4
<1>m5. m5 \in Members /\ m5 # <<>>
  BY ZenonT(60), <1>1, <1>2, <1>m4, NextTextIf, <1>numbers
<1>o5. Object(m5) = Object(m4) + (IF hasText THEN Characters("description") + e.description + 6 ELSE 0)
  BY ZenonT(60), <1>1, <1>2, <1>m4, NextTextIf, <1>numbers
<1> HIDE DEF m5
<1>m6. m6 \in Members /\ m6 # <<>>
  BY ZenonT(60), <1>1, <1>2, <1>m5, NextText, <1>numbers
<1>o6. Object(m6) = Object(m5) + Characters("type") + e.type + 6
  BY ZenonT(60), <1>1, <1>2, <1>m5, NextText, <1>numbers
<1> HIDE DEF m6
<1>m7. m7 \in Members /\ m7 # <<>>
  BY ZenonT(60), <1>1, <1>2, <1>m6, NextText, <1>numbers
<1>o7. Object(m7) = Object(m6) + Characters("version") + e.eventVersion + 6
  BY ZenonT(60), <1>1, <1>2, <1>m6, NextText, <1>numbers
<1> HIDE DEF m7
<1>m8. m8 \in Members /\ m8 # <<>>
  BY ZenonT(60), <1>1, <1>m7, NextJson, <1>numbers
<1>o8. Object(m8) = Object(m7) + Characters("details") + details + 4
  BY ZenonT(60), <1>1, <1>m7, NextJson, <1>numbers
<1> HIDE DEF m8
<1> DEFINE o1 == Object(m1)
           o2 == Object(m2)
           o3 == Object(m3)
           o4 == Object(m4)
           o5 == Object(m5)
           o6 == Object(m6)
           o7 == Object(m7)
           o8 == Object(m8)
<1>s1. o1 \in Int /\ o1 = 9 + Guid
  BY <1>1, <1>2, <1>o1, <1>names
<1>s2. o2 \in Int /\ o2 = o1 + (IF hasId THEN 19 + e.correlationId ELSE 0)
  BY <1>1, <1>2, <1>o2, <1>names, <1>s1
<1>s3. o3 \in Int /\ o3 = o2 + 15 + Timestamp
  BY <1>1, <1>2, <1>o3, <1>names, <1>s2
<1>s4. o4 \in Int /\ o4 = o3 + 12 + severity
  BY <1>1, <1>2, <1>o4, <1>names, <1>s3
<1>s5. o5 \in Int /\ o5 = o4 + (IF hasText THEN 17 + e.description ELSE 0)
  BY <1>1, <1>2, <1>o5, <1>names, <1>s4
<1>s6. o6 \in Int /\ o6 = o5 + 10 + e.type
  BY <1>1, <1>2, <1>o6, <1>names, <1>s5
<1>s7. o7 \in Int /\ o7 = o6 + 13 + e.eventVersion
  BY <1>1, <1>2, <1>o7, <1>names, <1>s6
<1>s8. o8 \in Int /\ o8 = o7 + 11 + details
  BY <1>1, <1>2, <1>o8, <1>names, <1>s7
<1>last. WrittenEvent(e) = o8
  BY <1>whole
<1> HIDE DEF o1, o2, o3, o4, o5, o6, o7, o8
<1>4. WrittenEvent(e) = 128 + (IF hasId THEN 19 + e.correlationId ELSE 0) + severity
                            + (IF hasText THEN 17 + e.description ELSE 0) + e.type + e.eventVersion + details + 2
  BY <1>1, <1>2, <1>s1, <1>s2, <1>s3, <1>s4, <1>s5, <1>s6, <1>s7, <1>s8, <1>last
<1> DEFINE idSize == If(Set(e.correlationId), CorrelationIdSize + Length(e.correlationId))
           textSize == If(Set(e.description), DescriptionSize + Length(e.description))
<1>5. EventSize(e) = 132 + e.type + e.eventVersion + severity + idSize + textSize + details
  <2>1. EventBase = 94
    BY BasesAssumption
  <2> HIDE DEF idSize, textSize
  <2>2. EventSize(e) = EventBase + 2 + Guid + e.type + e.eventVersion + severity + idSize + textSize + details
    BY <1>1 DEF EventSize, severity, idSize, textSize
  <2>3. idSize \in Nat /\ textSize \in Nat
    BY <1>3 DEF idSize, textSize
  <2>. QED BY <1>1, <2>1, <2>2, <2>3
<1>6. /\ idSize \in Nat /\ idSize >= (IF hasId THEN 19 + e.correlationId ELSE 0)
      /\ textSize \in Nat /\ textSize >= (IF hasText THEN 17 + e.description ELSE 0)
  BY <1>3
<1> HIDE DEF idSize, textSize
<1>. QED BY <1>1, <1>2, <1>4, <1>5, <1>6


-----------------------------------------------------------------------------
(* What describes an item.                                                 *)

\* The outer object of the description of an item.
LEMMA WrappedMeta ==
    ASSUME NEW inner \in Nat
    PROVE  Object(Text("type", Characters("item")) \o Text("version", Version) \o Json("payload", inner)) = 42 + inner
<1> DEFINE m1 == Text("type", Characters("item"))
           m2 == m1 \o Text("version", Version)
           m3 == m2 \o Json("payload", inner)
<1>names. /\ Characters("type") = 4 /\ Characters("version") = 7 /\ Characters("payload") = 7
          /\ Characters("item") = 4 /\ Version = 3
  BY NamesAssumption DEF Version
<1>numbers. /\ Characters("type") \in Nat /\ Characters("version") \in Nat /\ Characters("payload") \in Nat
            /\ Characters("item") \in Nat /\ Version \in Nat
  BY <1>names
<1>m1. m1 \in Members /\ m1 # <<>>
  BY FirstText, <1>numbers
<1>o1. Object(m1) = Characters("type") + Characters("item") + 7
  BY FirstText, <1>numbers
<1> HIDE DEF m1
<1>m2. m2 \in Members /\ m2 # <<>>
  BY ZenonT(60), <1>m1, NextText, <1>numbers
<1>o2. Object(m2) = Object(m1) + Characters("version") + Version + 6
  BY ZenonT(60), <1>m1, NextText, <1>numbers
<1> HIDE DEF m2
<1>o3. Object(m3) = Object(m2) + Characters("payload") + inner + 4
  BY ZenonT(60), <1>m2, NextJson, <1>numbers
<1>4. Object(m1) = 15
  BY <1>o1, <1>names
<1>5. Object(m2) = 31
  BY <1>o2, <1>4, <1>names
<1>6. Object(m3) = 42 + inner
  BY <1>o3, <1>5, <1>names
<1>. QED BY <1>6 DEF m3, m2, m1

\* The beginning of the inner one.
LEMMA TypeAndVersion ==
    ASSUME NEW type \in Nat, NEW version \in Nat
    PROVE  /\ Text("type", type) \o Text("version", version) \in Members
           /\ Text("type", type) \o Text("version", version) # <<>>
           /\ Object(Text("type", type) \o Text("version", version)) = 24 + type + version
<1> DEFINE m1 == Text("type", type)
           m2 == m1 \o Text("version", version)
<1>names. Characters("type") = 4 /\ Characters("version") = 7
  BY NamesAssumption
<1>numbers. Characters("type") \in Nat /\ Characters("version") \in Nat
  BY <1>names
<1>m1. m1 \in Members /\ m1 # <<>>
  BY FirstText, <1>numbers
<1>o1. Object(m1) = Characters("type") + type + 7
  BY FirstText, <1>numbers
<1> HIDE DEF m1
<1>m2. m2 \in Members /\ m2 # <<>>
  BY ZenonT(60), <1>m1, NextText, <1>numbers
<1>o2. Object(m2) = Object(m1) + Characters("version") + version + 6
  BY ZenonT(60), <1>m1, NextText, <1>numbers
<1>4. Object(m2) = 24 + type + version
  <2> HIDE DEF m2
  <2>1. Object(m1) = 11 + type
    BY <1>o1, <1>names
  <2>. QED BY <1>o2, <2>1, <1>names
<1>. QED BY <1>4, <1>m2 DEF m2, m1

\* The details of a time series and of a file.
LEMMA TimeseriesDetails ==
    ASSUME NEW n \in Nat
    PROVE  Object(Text("configurationId", n)) = 22 + n
<1>1. Characters("configurationId") = 15
  BY NamesAssumption
<1>2. Characters("configurationId") \in Nat
  BY <1>1
<1>3. Object(Text("configurationId", n)) = Characters("configurationId") + n + 7
  BY <1>2, FirstText
<1>. QED BY <1>1, <1>3

LEMMA FileDetails ==
    ASSUME NEW name \in Nat, NEW type, NEW typed \in BOOLEAN, typed => type \in Nat
    PROVE  /\ Object(Text("fileName", name) \o Text("creationDate", Timestamp)
                     \o TextIf(typed, "fileType", type)) = 57 + name + (IF typed THEN 14 + type ELSE 0)
<1> DEFINE m1 == Text("fileName", name)
           m2 == m1 \o Text("creationDate", Timestamp)
           m3 == m2 \o TextIf(typed, "fileType", type)
<1>names. /\ Characters("fileName") = 8 /\ Characters("creationDate") = 12 /\ Characters("fileType") = 8
          /\ Timestamp = 24
  BY NamesAssumption DEF Timestamp
<1>numbers. /\ Characters("fileName") \in Nat /\ Characters("creationDate") \in Nat
            /\ Characters("fileType") \in Nat /\ Timestamp \in Nat
  BY <1>names
<1>m1. m1 \in Members /\ m1 # <<>>
  BY FirstText, <1>numbers
<1>o1. Object(m1) = Characters("fileName") + name + 7
  BY FirstText, <1>numbers
<1> HIDE DEF m1
<1>m2. m2 \in Members /\ m2 # <<>>
  BY ZenonT(60), <1>m1, NextText, <1>numbers
<1>o2. Object(m2) = Object(m1) + Characters("creationDate") + Timestamp + 6
  BY ZenonT(60), <1>m1, NextText, <1>numbers
<1> HIDE DEF m2
<1>o3. Object(m3) = Object(m2) + (IF typed THEN Characters("fileType") + type + 6 ELSE 0)
  BY ZenonT(60), <1>m2, NextTextIf, <1>numbers
<1>4. Object(m1) = 15 + name
  BY <1>o1, <1>names
<1>5. Object(m2) = 57 + name
  BY <1>o2, <1>4, <1>names
<1>6. Object(m3) = 57 + name + (IF typed THEN 14 + type ELSE 0)
  BY <1>o3, <1>5, <1>names
<1>. QED BY <1>6 DEF m3, m2, m1

\* The same with the details, when there are any.
LEMMA WithDetails ==
    ASSUME NEW type \in Nat, NEW version \in Nat, NEW details, NEW c \in BOOLEAN, c => details \in Nat
    PROVE  Object(Text("type", type) \o Text("version", version) \o JsonIf(c, "details", details))
               = 24 + type + version + (IF c THEN 11 + details ELSE 0)
<1> DEFINE m == Text("type", type) \o Text("version", version)
           o == Object(m)
<1>1. m \in Members /\ m # <<>> /\ o = 24 + type + version
  BY TypeAndVersion
<1>2. Characters("details") = 7 /\ Characters("details") \in Nat
  BY NamesAssumption
<1> HIDE DEF m
<1>3. Object(m \o JsonIf(c, "details", details)) = o + (IF c THEN Characters("details") + details + 4 ELSE 0)
  BY ZenonT(60), <1>1, <1>2, NextJsonIf
<1>4. Object(m \o JsonIf(c, "details", details)) = 24 + type + version + (IF c THEN 11 + details ELSE 0)
  <2> HIDE DEF o
  <2>. QED BY <1>1, <1>2, <1>3
<1>. QED BY <1>4 DEF m

\* The inner object.
InnerMeta(item) ==
    Object(Text("type", PayloadType(item)) \o Text("version", IF item.kind = "custom" THEN item.version ELSE Version)
           \o MetaDetails(item))

LEMMA NamesOfTypes ==
    /\ Characters("standardTimeSeries") = 18 /\ Characters("businessEvent") = 13 /\ Characters("file") = 4
    /\ Characters("dataSourceConfiguration") = 23 /\ Version = 3 /\ Version \in Nat
    /\ Characters("standardTimeSeries") \in Nat /\ Characters("businessEvent") \in Nat
    /\ Characters("file") \in Nat /\ Characters("dataSourceConfiguration") \in Nat
BY NamesAssumption DEF Version

LEMMA InnerOfEvent ==
    ASSUME NEW item \in AnyEvent
    PROVE  InnerMeta(item) = 40 /\ MetaSize(item) = 82
<1>1. item.kind = "event"
  BY DEF AnyEvent
<1>2. InnerMeta(item) = Object(Text("type", Characters("businessEvent")) \o Text("version", Version) \o <<>>)
  BY <1>1 DEF InnerMeta, PayloadType, MetaDetails
<1> DEFINE m == Text("type", Characters("businessEvent")) \o Text("version", Version)
<1>3. m \in Members /\ Object(m) = 24 + Characters("businessEvent") + Version
  BY TypeAndVersion, NamesOfTypes
<1>4. m \o <<>> = m
  <2> HIDE DEF m
  <2>. QED BY <1>3, ConcatEmptySeq DEF Members
<1>5. ItemMetaBase = 42 /\ EventMetaBase = 37
  BY BasesAssumption
<1>6. MetaSize(item) = ItemMetaBase + (EventMetaBase + Version)
  BY <1>1 DEF MetaSize
<1>7. InnerMeta(item) = Object(m)
  BY <1>2, <1>4
<1> HIDE DEF m
<1>. QED BY <1>3, <1>5, <1>6, <1>7, NamesOfTypes

LEMMA InnerOfConfiguration ==
    ASSUME NEW item \in AnyConfiguration
    PROVE  InnerMeta(item) = 50 /\ MetaSize(item) = 92
<1>1. item.kind = "configuration"
  BY DEF AnyConfiguration
<1>2. InnerMeta(item)
          = Object(Text("type", Characters("dataSourceConfiguration")) \o Text("version", Version) \o <<>>)
  BY <1>1 DEF InnerMeta, PayloadType, MetaDetails
<1> DEFINE m == Text("type", Characters("dataSourceConfiguration")) \o Text("version", Version)
<1>3. m \in Members /\ Object(m) = 24 + Characters("dataSourceConfiguration") + Version
  BY TypeAndVersion, NamesOfTypes
<1>4. m \o <<>> = m
  <2> HIDE DEF m
  <2>. QED BY <1>3, ConcatEmptySeq DEF Members
<1>5. ItemMetaBase = 42 /\ ConfigurationMetaBase = 47
  BY BasesAssumption
<1>6. MetaSize(item) = ItemMetaBase + (ConfigurationMetaBase + Version)
  BY <1>1 DEF MetaSize
<1>7. InnerMeta(item) = Object(m)
  BY <1>2, <1>4
<1> HIDE DEF m
<1>. QED BY <1>3, <1>5, <1>6, <1>7, NamesOfTypes

LEMMA NextDetails ==
    ASSUME NEW type \in Nat, NEW version \in Nat, NEW details \in Nat
    PROVE  Object(Text("type", type) \o Text("version", version) \o Json("details", details))
               = 35 + type + version + details
<1> DEFINE m == Text("type", type) \o Text("version", version)
           o == Object(m)
<1>1. m \in Members /\ m # <<>> /\ o = 24 + type + version
  BY TypeAndVersion
<1>2. Characters("details") = 7 /\ Characters("details") \in Nat
  BY NamesAssumption
<1> HIDE DEF m
<1>3. Object(m \o Json("details", details)) = o + Characters("details") + details + 4
  BY ZenonT(60), <1>1, <1>2, NextJson
<1>4. Object(m \o Json("details", details)) = 35 + type + version + details
  <2> HIDE DEF o
  <2>. QED BY <1>1, <1>2, <1>3
<1>. QED BY <1>4 DEF m

LEMMA InnerOfTimeseries ==
    ASSUME NEW item \in AnyTimeseries
    PROVE  InnerMeta(item) = 78 + item.configurationId /\ MetaSize(item) = 120 + item.configurationId
<1>1. item.kind = "timeseries" /\ item.configurationId \in Nat
  BY DEF AnyTimeseries
<1> DEFINE id == item.configurationId
           details == Object(Text("configurationId", id))
           type == Characters("standardTimeSeries")
<1>2. InnerMeta(item) = Object(Text("type", type) \o Text("version", Version) \o Json("details", details))
  BY <1>1 DEF InnerMeta, PayloadType, MetaDetails
<1>3. details = 22 + id /\ id \in Nat
  BY <1>1, TimeseriesDetails
<1>4. ItemMetaBase = 42 /\ TimeseriesMetaBase = 75
  BY BasesAssumption
<1>5. MetaSize(item) = ItemMetaBase + (TimeseriesMetaBase + id + Version)
  BY <1>1 DEF MetaSize
<1> HIDE DEF details, id, type
<1>6. type = 18 /\ type \in Nat
  BY NamesOfTypes DEF type
<1>7. details \in Nat /\ Version \in Nat /\ Version = 3
  BY <1>3, NamesOfTypes
<1>8. InnerMeta(item) = 35 + type + Version + details
  BY <1>2, <1>6, <1>7, NextDetails
<1>9. InnerMeta(item) = 78 + id /\ MetaSize(item) = 120 + id
  BY <1>3, <1>4, <1>5, <1>6, <1>7, <1>8
<1>. QED BY <1>9 DEF id

LEMMA InnerOfFile ==
    ASSUME NEW item \in AnyFile, Nothing \notin Nat
    PROVE  InnerMeta(item) \in Nat /\ MetaSize(item) = 42 + InnerMeta(item)
<1>1. item.kind = "file" /\ item.remoteName \in Nat
  BY DEF AnyFile
<1> DEFINE name == item.remoteName
           typed == Set(item.type)
           details == Object(Text("fileName", name) \o Text("creationDate", Timestamp)
                             \o TextIf(typed, "fileType", item.type))
           type == Characters("file")
           size == IF typed THEN 14 + item.type ELSE 0
<1>2. InnerMeta(item) = Object(Text("type", type) \o Text("version", Version) \o Json("details", details))
  BY <1>1 DEF InnerMeta, PayloadType, MetaDetails
<1>3. typed \in BOOLEAN /\ (typed => item.type \in Nat) /\ name \in Nat
  BY <1>1 DEF AnyFile, AnyLength, Set
<1>4. ItemMetaBase = 42 /\ FileMetaBase = 96 /\ FileTypeSize = 14
  BY BasesAssumption
<1>5. MetaSize(item) = ItemMetaBase + (FileMetaBase + name + Version + If(typed, FileTypeSize + Length(item.type)))
  BY <1>1 DEF MetaSize
<1>6. If(typed, FileTypeSize + Length(item.type)) = size /\ size \in Nat
  BY <1>3, <1>4 DEF If, Length, Set
<1> HIDE DEF typed
<1>7. details = 57 + name + size
  BY <1>3, FileDetails
<1> HIDE DEF details, name, type, size
<1>8. type = 4 /\ type \in Nat
  BY NamesOfTypes DEF type
<1>9. details \in Nat /\ Version \in Nat /\ Version = 3
  BY <1>3, <1>6, <1>7, NamesOfTypes
<1>10. InnerMeta(item) = 35 + type + Version + details
  BY <1>2, <1>8, <1>9, NextDetails
<1>. QED BY <1>3, <1>4, <1>5, <1>6, <1>7, <1>8, <1>9, <1>10

LEMMA InnerOfCustom ==
    ASSUME NEW item \in AnyCustom, Nothing \notin Nat
    PROVE  InnerMeta(item) \in Nat /\ MetaSize(item) = 42 + InnerMeta(item)
<1>1. item.kind = "custom" /\ item.type \in Nat /\ item.version \in Nat
  BY DEF AnyCustom
<1> DEFINE type == item.type
           version == item.version
           detailed == Set(item.details)
           size == IF detailed THEN 11 + item.details ELSE 0
<1>2. PayloadType(item) = type /\ type \in Nat /\ version \in Nat
  BY <1>1 DEF PayloadType, Length
<1>3. InnerMeta(item) = Object(Text("type", type) \o Text("version", version)
                               \o JsonIf(detailed, "details", item.details))
  BY <1>1, <1>2 DEF InnerMeta, MetaDetails
<1>4. detailed \in BOOLEAN /\ (detailed => item.details \in Nat)
  BY DEF AnyCustom, AnyLength, Set
<1>5. ItemMetaBase = 42 /\ CustomMetaBase = 24 /\ DetailsSize = 11
  BY BasesAssumption
<1>6. MetaSize(item) = ItemMetaBase + (CustomMetaBase + type + version
                                       + If(detailed, DetailsSize + Length(item.details)))
  BY <1>1 DEF MetaSize
<1>7. If(detailed, DetailsSize + Length(item.details)) = size /\ size \in Nat
  BY <1>4, <1>5 DEF If, Length, Set
<1> HIDE DEF detailed, type, version
<1>8. InnerMeta(item) = 24 + type + version + size
  <2> DEFINE details == item.details
  <2>1. detailed \in BOOLEAN /\ (detailed => details \in Nat)
    BY <1>4
  <2>2. InnerMeta(item) = Object(Text("type", type) \o Text("version", version)
                                 \o JsonIf(detailed, "details", details))
    BY <1>3
  <2>3. size = IF detailed THEN 11 + details ELSE 0
    OBVIOUS
  <2> HIDE DEF details, size
  <2>4. Object(Text("type", type) \o Text("version", version) \o JsonIf(detailed, "details", details))
            = 24 + type + version + (IF detailed THEN 11 + details ELSE 0)
    BY <1>2, <2>1, WithDetails
  <2>. QED BY <2>2, <2>3, <2>4
<1> HIDE DEF size
<1>. QED BY <1>2, <1>5, <1>6, <1>7, <1>8

\* The description of an item is as long as it was said to be.
LEMMA MetaIsSized ==
    ASSUME NEW item \in AnyItem, Nothing \notin Nat
    PROVE  MetaSize(item) \in Nat /\ WrittenMeta(item) = MetaSize(item)
<1> DEFINE inner == InnerMeta(item)
<1>1. inner \in Nat /\ MetaSize(item) = 42 + inner
  <2>1. CASE item \in AnyEvent
    BY <2>1, InnerOfEvent
  <2>2. CASE item \in AnyConfiguration
    BY <2>2, InnerOfConfiguration
  <2>3. CASE item \in AnyTimeseries
    <3>1. item.configurationId \in Nat
      BY <2>3 DEF AnyTimeseries
    <3>. QED BY <3>1, <2>3, InnerOfTimeseries
  <2>4. CASE item \in AnyFile
    BY <2>4, InnerOfFile
  <2>5. CASE item \in AnyCustom
    BY <2>5, InnerOfCustom
  <2>. QED BY <2>1, <2>2, <2>3, <2>4, <2>5 DEF AnyItem
<1>2. WrittenMeta(item) = Object(Text("type", Characters("item")) \o Text("version", Version) \o Json("payload", inner))
  BY DEF WrittenMeta, InnerMeta
<1> HIDE DEF inner
<1>3. WrittenMeta(item) = 42 + inner
  BY <1>1, <1>2, WrappedMeta
<1>. QED BY <1>1, <1>3

-----------------------------------------------------------------------------
(* What is sent with an item.                                              *)

LEMMA EventFits ==
    ASSUME NEW item \in AnyEvent, Nothing \notin Nat
    PROVE  /\ WrittenPayload(item) \in Nat /\ EventSize(item) \in Nat /\ WrittenPayload(item) <= EventSize(item)
           /\ ItemSize(item) = MetaSize(item) + EventSize(item)
<1> DEFINE x == WrittenEvent(item)
           one == Append(<<>>, x)
<1>1. item.kind = "event"
  BY DEF AnyEvent
<1>2. x \in Nat /\ EventSize(item) \in Nat /\ x + 2 <= EventSize(item)
  BY EventIsSized
<1>3. WrittenPayload(item) = Array(<<x>>) /\ ItemSize(item) = MetaSize(item) + EventSize(item)
  BY <1>1 DEF WrittenPayload, ItemSize
<1> HIDE DEF x
<1>4. <<x>> = one
  OBVIOUS
<1>5. one \in Seq(Nat) /\ one # <<>> /\ Len(one) = 1 /\ <<>> \in Seq(Int) /\ x \in Int
  BY <1>2
<1>6. Total(one) = Total(<<>>) + x
  <2> HIDE DEF one
  <2>1. Total(Append(<<>>, x)) = Total(<<>>) + x
    BY <1>5, TotalOfMore
  <2>. QED BY <2>1 DEF one
<1> HIDE DEF one
<1>7. Array(one) \in Nat /\ Array(one) = 2 + Total(one) + (Len(one) - 1)
  BY <1>5, ArrayIsTotal
<1>8. Array(one) = 2 + x
  BY <1>2, <1>5, <1>6, <1>7, TotalOfNone
<1>. QED BY <1>2, <1>3, <1>4, <1>8

LEMMA TimeseriesFits ==
    ASSUME NEW item \in AnyTimeseries, ContentsValid(item)
    PROVE  /\ WrittenPayload(item) \in Nat
           /\ ItemSize(item) = MetaSize(item) + WrittenPayload(item)
<1> DEFINE lists == item.lists
           w == Each(WrittenValues, lists)
           t == Each(ValuesSize, lists)
           n == Len(lists)
<1>1. item.kind = "timeseries" /\ lists \in Seq(Seq(AnyValue)) /\ lists # <<>>
      /\ \A i \in DOMAIN lists : ValuesValid(lists[i])
  BY DEF AnyTimeseries, ContentsValid
<1>2. WrittenPayload(item) = Array(w) /\ ItemSize(item) = MetaSize(item) + (2 + Total(t) + (n - 1))
  BY <1>1 DEF WrittenPayload, ItemSize, Delimiters
<1> HIDE DEF lists
<1>3. n \in Nat \ {0} /\ DOMAIN lists = 1..n
      /\ \A i \in 1..n : lists[i] \in Seq(AnyValue) /\ ValuesValid(lists[i])
  BY <1>1, DomainIsFinite, EmptySeq
<1>4. \A i \in 1..n : ValuesSize(lists[i]) \in Nat /\ WrittenValues(lists[i]) = ValuesSize(lists[i])
  BY <1>3, ValuesAreSized
<1>5. w = [i \in 1..n |-> WrittenValues(lists[i])] /\ t = [i \in 1..n |-> ValuesSize(lists[i])]
  BY <1>3 DEF Each
<1> HIDE DEF w, t, n
<1>6. w \in Seq(Nat) /\ Len(w) = n /\ w = t
  BY <1>3, <1>4, <1>5
<1>7. w # <<>>
  BY <1>3, <1>6, EmptySeq
<1>8. Array(w) \in Nat /\ Array(w) = 2 + Total(w) + (Len(w) - 1)
  BY <1>6, <1>7, ArrayIsTotal
<1>. QED BY <1>2, <1>6, <1>8

LEMMA ConfigurationFits ==
    ASSUME NEW item \in AnyConfiguration, ContentsValid(item), Nothing \notin Nat
    PROVE  \E size \in Nat : /\ WrittenPayload(item) \in Nat /\ WrittenPayload(item) <= size
                             /\ ItemSize(item) = MetaSize(item) + size
<1> DEFINE sources == item.sources
           id == item.configurationId
           w == Each(WrittenSource, sources)
           t == Each(SourceSize, sources)
           n == Len(sources)
           array == Array(w)
           m == Text("configurationId", id)
<1>1. item.kind = "configuration" /\ sources \in Seq(AnySource) /\ sources # <<>> /\ id \in Nat
      /\ \A i \in DOMAIN sources : SourceValid(sources[i])
  BY DEF AnyConfiguration, ContentsValid
<1>2. WrittenPayload(item) = Object(m \o Json("dataSources", array))
      /\ ItemSize(item) = MetaSize(item) + (ConfigurationBase + id + Total(t) + (n - 1))
  BY <1>1 DEF WrittenPayload, ItemSize, Delimiters
<1> HIDE DEF sources, id
<1>3. n \in Nat \ {0} /\ DOMAIN sources = 1..n
      /\ \A i \in 1..n : sources[i] \in AnySource /\ SourceValid(sources[i])
  BY <1>1, DomainIsFinite, EmptySeq
<1>4. \A i \in 1..n : /\ SourceSize(sources[i]) \in Nat /\ WrittenSource(sources[i]) \in Nat
                      /\ WrittenSource(sources[i]) <= SourceSize(sources[i])
  BY <1>3, SourceIsSized
<1>5. w = [i \in 1..n |-> WrittenSource(sources[i])] /\ t = [i \in 1..n |-> SourceSize(sources[i])]
  BY <1>3 DEF Each
<1> HIDE DEF w, t, n
<1>6. w \in Seq(Nat) /\ Len(w) = n /\ t \in Seq(Nat) /\ Len(t) = n
  BY <1>3, <1>4, <1>5
<1>7. w # <<>> /\ w \in Seq(Int) /\ t \in Seq(Int) /\ \A i \in 1..Len(w) : w[i] <= t[i]
  <2>1. w # <<>>
    BY <1>3, <1>6, EmptySeq
  <2>2. w \in Seq(Int) /\ t \in Seq(Int)
    BY <1>6
  <2>3. ASSUME NEW i \in 1..Len(w)
        PROVE  w[i] <= t[i]
    <3>1. i \in 1..n
      BY <1>6
    <3>2. w[i] = WrittenSource(sources[i]) /\ t[i] = SourceSize(sources[i])
      BY <1>5, <3>1
    <3>. QED BY <1>4, <3>1, <3>2
  <2>. QED BY <2>1, <2>2, <2>3
<1> DEFINE sum == Total(w)
           size == Total(t)
<1>8. array \in Nat /\ array = 2 + sum + (n - 1) /\ sum \in Nat /\ size \in Nat
  BY <1>6, <1>7, ArrayIsTotal, TotalIsNat
<1>9. sum <= size
  BY <1>6, <1>7, TotalIsMonotone
<1>10. /\ Characters("configurationId") = 15 /\ Characters("dataSources") = 11
       /\ ConfigurationBase = 39
  BY NamesAssumption, BasesAssumption
<1>11. Characters("configurationId") \in Nat /\ Characters("dataSources") \in Nat
  BY <1>10
<1> HIDE DEF array, sum, size
<1>12. m \in Members /\ m # <<>> /\ Object(m) = Characters("configurationId") + id + 7
  BY <1>1, <1>11, FirstText
<1> HIDE DEF m
<1>13. Object(m \o Json("dataSources", array)) = Object(m) + Characters("dataSources") + array + 4
  BY ZenonT(60), <1>8, <1>11, <1>12, NextJson
<1>14. Object(m) = 22 + id
  <2>1. id \in Nat /\ Object(m) = Characters("configurationId") + id + 7 /\ Characters("configurationId") = 15
    BY <1>1, <1>10, <1>12
  <2>. QED BY <2>1
<1>15. Object(m \o Json("dataSources", array)) = 39 + id + sum + (n - 1)
  BY <1>1, <1>3, <1>8, <1>10, <1>13, <1>14
<1>16. ItemSize(item) = MetaSize(item) + (39 + id + size + (n - 1))
  BY <1>2, <1>10 DEF size
<1>17. 39 + id + size + (n - 1) \in Nat /\ 39 + id + sum + (n - 1) \in Nat
       /\ 39 + id + sum + (n - 1) <= 39 + id + size + (n - 1)
  BY <1>1, <1>3, <1>8, <1>9
<1>18. WrittenPayload(item) = 39 + id + sum + (n - 1)
  BY <1>2, <1>15
<1>. QED BY <1>16, <1>17, <1>18

\* What json_from_item_meta and json_from_item_payload write of an item that validates is
\* never longer than json_get_item_size says (json.c), whatever fields it has, and however
\* many values, data points and data sources.
THEOREM EstimateSuffices ==
    ASSUME NEW item \in AnyItem, ContentsValid(item)
    PROVE  /\ WrittenMeta(item) \in Nat /\ WrittenPayload(item) \in Nat /\ ItemSize(item) \in Nat
           /\ WrittenMeta(item) + WrittenPayload(item) <= ItemSize(item)
<1>1. Nothing \notin Nat
  BY ConnectivityAssumption
<1>2. MetaSize(item) \in Nat /\ WrittenMeta(item) = MetaSize(item)
  BY <1>1, MetaIsSized
<1>3. \E size \in Nat : /\ WrittenPayload(item) \in Nat /\ WrittenPayload(item) <= size
                        /\ ItemSize(item) = MetaSize(item) + size
  <2>1. CASE item \in AnyEvent
    BY <1>1, <2>1, EventFits
  <2>2. CASE item \in AnyTimeseries
    BY <2>2, TimeseriesFits
  <2>3. CASE item \in AnyConfiguration
    BY <1>1, <2>3, ConfigurationFits
  <2>4. CASE item \in AnyFile
    <3>1. item.kind = "file" /\ item.size \in Nat
      BY <2>4 DEF AnyFile
    <3>2. WrittenPayload(item) = item.size /\ ItemSize(item) = MetaSize(item) + item.size
      BY <3>1 DEF WrittenPayload, ItemSize
    <3>. QED BY <3>1, <3>2
  <2>5. CASE item \in AnyCustom
    <3>1. item.kind = "custom" /\ item.size \in Nat
      BY <2>5 DEF AnyCustom
    <3>2. WrittenPayload(item) = item.size /\ ItemSize(item) = MetaSize(item) + item.size
      BY <3>1 DEF WrittenPayload, ItemSize
    <3>. QED BY <3>1, <3>2
  <2>. QED BY <2>1, <2>2, <2>3, <2>4, <2>5 DEF AnyItem
<1>4. PICK size \in Nat : /\ WrittenPayload(item) \in Nat /\ WrittenPayload(item) <= size
                          /\ ItemSize(item) = MetaSize(item) + size
  BY <1>3
<1>. QED BY <1>2, <1>4

-----------------------------------------------------------------------------
(* The inductive invariant.                                                *)

\* The handle points to what the core and the configuration have, unless it was replaced.
HandleFits ==
    handle # Nothing =>
        /\ handle.agent = client \/ "agent" \in careless
        /\ handle.url \in {Nothing, configuration.url} \/ "url" \in careless

ItemsFit == \A i \in Names : items[i] # Nothing /\ items[i].stale => "descriptor" \in careless

\* The store has complete items, each once, unless the application was careless.
StoreFits ==
    /\ \A e, f \in DOMAIN store : e # f /\ store[e].item = store[f].item => "twice" \in careless
    /\ \A e \in DOMAIN store :
          IF items[store[e].item] = Nothing THEN "twice" \in careless ELSE ContentsValid(items[store[e].item])

CallFits ==
    /\ pc \in {"idle", "token", "validate", "prepare"} => body = NoBody
    /\ pc # "idle" => handle # Nothing /\ (op = "exchange" <=> target # "none")
                      /\ (target \in Names => items[target] # Nothing)
    /\ pc \in {"prepare", "compose"} => op = "exchange" /\ (target \in Names => ContentsValid(items[target]))
    /\ pc = "crashed" => cause \in careless \cup {"parser"}

\* What an entry of the body at hand stands for.
EntryFits(entry) ==
    /\ IF target = "store" THEN entry \in DOMAIN store ELSE entry = 0 /\ target \in Names
    /\ ItemOf(entry) \in AnyItem /\ ContentsValid(ItemOf(entry))

IsComplete(item) == item.lacks \subseteq {"timestamp", "contentType"}

BodyFits ==
    /\ \A k \in DOMAIN body.queue : EntryFits(body.queue[k])
    /\ \A k \in DOMAIN body.added : EntryFits(body.added[k]) /\ IsComplete(ItemOf(body.added[k]))
    /\ body.queue # <<>> => \A step \in {MetaStep, PayloadStep} : step < body.step => ~NullAt(step, Current)

\* What the frames of a stack hold.
HeldBy(frames) == Total([i \in DOMAIN frames |-> frames[i].cells])
Held == HeldBy(stack)

ParserIsNew == stack = <<>> /\ raised = "OK" /\ live = 0 /\ lost = 0 /\ parsed = "none" /\ delivered = 0

ParserFits ==
    /\ pc \notin {"parse", "done", "crashed"} => ParserIsNew
    /\ pc = "parse" => IF parsed = "none" THEN delivered = 0 /\ live = lost + Held ELSE stack = <<>>
    /\ pc = "done" \/ parsed # "none" => live = delivered + lost

ArrayFits(frame) ==
    frame.array => /\ frame.next \in DOMAIN Fields(frame.kind)
                   /\ Fields(frame.kind)[frame.next] \in DOMAIN Lists

\* All but the innermost wait for an entry of their array.
StackFits ==
    \A i \in DOMAIN stack : ArrayFits(stack[i]) /\ (i < Len(stack) => stack[i].array /\ stack[i].left > 0)

\* Nothing the body is made of has grown since its size was taken.
Exact == ~\E i \in Concerned : items[i].drift > 0 \/ "contentType" \in items[i].lacks

Entries(queue) == {queue[k] : k \in DOMAIN queue}
SizeOf == [entry \in 0..Len(store) |-> TupleSize(ItemOf(entry))]
Waiting == SumFunctionOnSet(SizeOf, Entries(body.queue) \ {Head(body.queue)})

\* The sum of the spaces from a step on.
SpacesFrom == <<247, 223, 209, 192, 182, 162, 158, 134, 120, 76, 72, 72, 70, 46, 32, 32, 28, 28, 26, 0>>

\* What is still to be written of an item.
Needed(step, item) ==
    SpacesFrom[step] + (IF step <= MetaStep THEN WrittenMeta(item) ELSE 0)
    + (IF step <= ContentTypeStep THEN item.contentType ELSE 0)
    + (IF step <= PayloadStep THEN WrittenPayload(item) ELSE 0)

QueueFits ==
    /\ \A j, k \in DOMAIN body.queue : j < k => body.queue[j] < body.queue[k]
    /\ pc = "compose" /\ target = "store" => \A k \in DOMAIN body.queue : store[body.queue[k]].status # "ready"

SpaceFits ==
    /\ body.left >= 0 /\ body.before >= 0
    /\ pc = "compose" /\ Exact =>
          IF body.queue = <<>> THEN body.left >= Close
          ELSE /\ body.left >= Needed(body.step, Current) + Waiting + Close
               /\ body.before >= TupleSize(Current) + Waiting + Close
    /\ body.short /\ (target = "store" => pc \in {"compose", "request", "send"}) => ~Exact

IInv ==
    /\ TypeOK /\ HandleFits /\ ItemsFit /\ StoreFits /\ CallFits /\ BodyFits /\ ParserFits /\ StackFits
    /\ QueueFits /\ SpaceFits

-----------------------------------------------------------------------------
(* The entries that are selected, and the order they are taken in.         *)

LEMMA SelectionExists ==
    ASSUME NEW n \in Nat
    PROVE  \E chosen \in SUBSET (1..n) : \A e \in 1..n : e \in chosen <=> HasRoom(e, chosen)
<1> DEFINE Good(m) == \E chosen \in SUBSET (1..m) : \A e \in 1..m : e \in chosen <=> HasRoom(e, chosen)
           T == {m \in Nat : ~Good(m)}
<1>1. Good(0)
  <2>1. {} \in SUBSET (1..0) /\ 1..0 = {}
    OBVIOUS
  <2>. QED BY <2>1
<1>2. ASSUME NEW m \in Nat, Good(m)
      PROVE  Good(m + 1)
  <2>1. PICK chosen \in SUBSET (1..m) : \A e \in 1..m : e \in chosen <=> HasRoom(e, chosen)
    BY <1>2
  <2> DEFINE more == IF HasRoom(m + 1, chosen) THEN chosen \cup {m + 1} ELSE chosen
  <2>2. more \in SUBSET (1..(m + 1)) /\ m + 1 \notin chosen /\ (m + 1 \in more <=> HasRoom(m + 1, chosen))
    BY <2>1
  <2>3. ASSUME NEW e \in 1..(m + 1)
        PROVE  HasRoom(e, more) <=> HasRoom(e, chosen)
    <3>1. {f \in more : f < e} = {f \in chosen : f < e}
      BY <2>1, <2>3
    <3>. QED BY <3>1 DEF HasRoom
  <2>4. ASSUME NEW e \in 1..(m + 1)
        PROVE  e \in more <=> HasRoom(e, more)
    <3>1. CASE e = m + 1
      BY <2>2, <2>3, <3>1
    <3>2. CASE e \in 1..m
      <4>1. e \in more <=> e \in chosen
        BY <3>2
      <4>. QED BY <2>1, <2>3, <3>2, <4>1
    <3>. QED BY <3>1, <3>2
  <2> HIDE DEF more
  <2>. QED BY <2>2, <2>4
<1>3. T = {}
  <2> SUFFICES ASSUME T # {} PROVE FALSE
    OBVIOUS
  <2> HIDE DEF Good
  <2>1. PICK m \in T : \A k \in T : m <= k
    BY Least
  <2>2. m \in Nat /\ m # 0 /\ ~Good(m)
    BY <1>1, <2>1
  <2>3. m - 1 \in Nat /\ m - 1 \notin T
    BY <2>1, <2>2
  <2>4. Good(m - 1)
    BY <2>3
  <2>5. Good((m - 1) + 1)
    BY <1>2, <2>3, <2>4
  <2>. QED BY <2>2, <2>5
<1>. QED BY <1>3

LEMMA SelectedIsChosen ==
    ASSUME store \in Seq(AnyEntry)
    PROVE  Selected \in SUBSET DOMAIN store
<1>1. DOMAIN store = 1..Len(store) /\ Len(store) \in Nat
  BY DomainIsFinite
<1>2. \E chosen \in SUBSET DOMAIN store : \A e \in DOMAIN store : e \in chosen <=> HasRoom(e, chosen)
  BY <1>1, SelectionExists
<1>. QED BY <1>2 DEF Selected

LEMMA OrderExists ==
    ASSUME NEW n \in Nat, NEW S \in SUBSET (1..n)
    PROVE  \E s \in [1..Cardinality(S) -> S] : \A i, j \in 1..Cardinality(S) : i < j => s[i] < s[j]
<1> DEFINE IsOrder(s, U) == \A i, j \in 1..Cardinality(U) : i < j => s[i] < s[j]
           Good(m) == \A U \in SUBSET (1..m) : \E s \in [1..Cardinality(U) -> U] : IsOrder(s, U)
           T == {m \in Nat : ~Good(m)}
<1>1. Good(0)
  <2> SUFFICES ASSUME NEW U \in SUBSET (1..0)
               PROVE  \E s \in [1..Cardinality(U) -> U] : IsOrder(s, U)
    OBVIOUS
  <2>1. Cardinality(U) = 0 /\ 1..0 = {}
    <3>1. 1..0 = {}
      OBVIOUS
    <3>2. U = {}
      BY <3>1
    <3>. QED BY <3>1, <3>2, FS_EmptySet
  <2>2. [i \in 1..0 |-> i] \in [1..Cardinality(U) -> U]
    BY <2>1
  <2>3. IsOrder([i \in 1..0 |-> i], U)
    BY <2>1
  <2> HIDE DEF IsOrder
  <2>. QED BY <2>2, <2>3
<1>2. ASSUME NEW m \in Nat, Good(m)
      PROVE  Good(m + 1)
  <2> SUFFICES ASSUME NEW U \in SUBSET (1..(m + 1))
               PROVE  \E s \in [1..Cardinality(U) -> U] : IsOrder(s, U)
    OBVIOUS
  <2>1. CASE m + 1 \notin U
    <3>1. U \in SUBSET (1..m)
      BY <2>1
    <3>. QED BY <1>2, <3>1
  <2>2. CASE m + 1 \in U
    <3> DEFINE V == U \ {m + 1}
               k == Cardinality(V)
    <3>1. V \in SUBSET (1..m)
      OBVIOUS
    <3>2. k \in Nat /\ Cardinality(U) = k + 1
      <4>1. IsFiniteSet(1..(m + 1))
        BY FS_Interval
      <4>2. IsFiniteSet(U)
        BY <4>1, FS_Subset
      <4>. QED BY <2>2, <4>2, Smaller, FS_CardinalityType
    <3>3. PICK s \in [1..k -> V] : \A i, j \in 1..k : i < j => s[i] < s[j]
      BY <1>2, <3>1
    <3> HIDE DEF k
    <3> DEFINE t == [i \in 1..(k + 1) |-> IF i = k + 1 THEN m + 1 ELSE s[i]]
    <3>4. \A i \in 1..(k + 1) : t[i] \in U
      BY <2>2, <3>2, <3>3
    <3>5. t \in [1..Cardinality(U) -> U]
      BY <3>2, <3>4
    <3>6. ASSUME NEW i \in 1..(k + 1), NEW j \in 1..(k + 1), i < j
          PROVE  t[i] < t[j]
      <4>1. i \in 1..k /\ t[i] = s[i] /\ s[i] \in 1..m
        <5>1. i \in 1..k /\ i # k + 1
          BY <3>2, <3>6
        <5>2. t[i] = s[i]
          BY <5>1
        <5> HIDE DEF t
        <5>3. s[i] \in V
          BY <3>3, <5>1
        <5>. QED BY <3>1, <5>1, <5>2, <5>3
      <4>2. CASE j = k + 1
        <5>1. t[j] = m + 1
          BY <3>2, <4>2
        <5>. QED BY <4>1, <5>1
      <4>3. CASE j \in 1..k
        <5>1. t[j] = s[j]
          BY <3>2, <4>3
        <5>. QED BY <3>3, <3>6, <4>1, <4>3, <5>1
      <4>. QED BY <3>2, <4>2, <4>3
    <3> HIDE DEF t
    <3>7. IsOrder(t, U)
      BY <3>2, <3>6
    <3> HIDE DEF IsOrder
    <3>. QED BY <3>5, <3>7
  <2>. QED BY <2>1, <2>2
<1>3. T = {}
  <2> SUFFICES ASSUME T # {} PROVE FALSE
    OBVIOUS
  <2> HIDE DEF Good
  <2>1. PICK m \in T : \A k \in T : m <= k
    BY Least
  <2>2. m \in Nat /\ m # 0 /\ ~Good(m)
    BY <1>1, <2>1
  <2>3. m - 1 \in Nat /\ m - 1 \notin T
    BY <2>1, <2>2
  <2>4. Good(m - 1)
    BY <2>3
  <2>5. Good((m - 1) + 1)
    BY <1>2, <2>3, <2>4
  <2>. QED BY <2>2, <2>5
<1>4. Good(n)
  BY <1>3
<1>. QED BY <1>4

\* The entries of a set one after the other, each of them once.
LEMMA AscendingIsOrder ==
    ASSUME NEW n \in Nat, NEW S \in SUBSET (1..n)
    PROVE  /\ Cardinality(S) \in Nat /\ IsFiniteSet(S)
           /\ Ascending(S) \in [1..Cardinality(S) -> S] /\ Ascending(S) \in Seq(S)
           /\ DOMAIN Ascending(S) = 1..Cardinality(S) /\ Entries(Ascending(S)) = S
           /\ \A i, j \in DOMAIN Ascending(S) : i < j => Ascending(S)[i] < Ascending(S)[j]
<1> DEFINE k == Cardinality(S)
           s == Ascending(S)
<1>1. IsFiniteSet(S) /\ k \in Nat
  <2>1. IsFiniteSet(1..n)
    BY FS_Interval
  <2>2. IsFiniteSet(S)
    BY <2>1, FS_Subset
  <2>. QED BY <2>2, FS_CardinalityType
<1>2. s \in [1..k -> S] /\ \A i, j \in 1..k : i < j => s[i] < s[j]
  <2>1. \E t \in [1..k -> S] : \A i, j \in 1..k : i < j => t[i] < t[j]
    BY OrderExists
  <2>. QED BY <2>1 DEF Ascending
<1> HIDE DEF s
<1>3. s \in Injection(1..k, S)
  <2>1. \A i, j \in 1..k : s[i] = s[j] => i = j
    <3> SUFFICES ASSUME NEW i \in 1..k, NEW j \in 1..k, s[i] = s[j], i # j
                 PROVE  FALSE
      OBVIOUS
    <3>1. s[i] \in Nat /\ s[j] \in Nat
      <4>1. s[i] \in S /\ s[j] \in S
        BY <1>2
      <4>2. S \subseteq Nat
        <5>1. 1..n \subseteq Nat
          OBVIOUS
        <5>. QED BY <5>1
      <4>. QED BY <4>1, <4>2
    <3>2. i < j \/ j < i
      BY <1>1
    <3>. QED BY <1>2, <3>1, <3>2
  <2> HIDE DEF k
  <2>. QED BY <1>2, <2>1 DEF Injection, IsInjective
<1>4. IsFiniteSet(1..k) /\ Cardinality(1..k) = k
  BY <1>1, FS_Interval
<1>5. s \in Surjection(1..k, S)
  BY <1>1, <1>3, <1>4, FS_Injection
<1>6. Entries(s) = S
  BY <1>2, <1>5 DEF Entries, Surjection
<1>7. s \in Seq(S) /\ DOMAIN s = 1..k
  BY <1>1, <1>2
<1>. QED BY <1>1, <1>2, <1>6, <1>7 DEF s

-----------------------------------------------------------------------------
(* What the steps have in common.                                          *)

LEMMA FreshBody ==
    body = NoBody /\ pc # "compose" => BodyFits /\ QueueFits /\ SpaceFits /\ body \in AnyBody
<1> SUFFICES ASSUME body = NoBody, pc # "compose"
             PROVE  BodyFits /\ QueueFits /\ SpaceFits /\ body \in AnyBody
  OBVIOUS
<1>1. /\ body.queue = <<>> /\ body.added = <<>> /\ DOMAIN body.queue = {} /\ DOMAIN body.added = {}
      /\ body.left = 0 /\ body.before = 0 /\ ~body.short
  BY DEF NoBody
<1>2. BodyFits /\ QueueFits
  BY <1>1 DEF BodyFits, QueueFits
<1>3. SpaceFits
  BY <1>1 DEF SpaceFits
<1>4. body \in AnyBody
  BY DEF NoBody, AnyBody, Spaces
<1>. QED BY <1>2, <1>3, <1>4

LEMMA FreshParser ==
    ParserIsNew => ParserTypeOK /\ StackFits /\ ParserFits
<1> SUFFICES ASSUME ParserIsNew
             PROVE  ParserTypeOK /\ StackFits /\ ParserFits
  OBVIOUS
<1>1. stack = <<>> /\ raised = "OK" /\ live = 0 /\ lost = 0 /\ parsed = "none" /\ delivered = 0
  BY DEF ParserIsNew
<1>2. DOMAIN stack = {} /\ stack \in Seq(AnyFrame)
  BY <1>1
<1>3. [i \in DOMAIN stack |-> stack[i].cells] = <<>>
  BY <1>2
<1>4. Held = 0
  BY <1>3, TotalOfNone DEF Held, HeldBy
<1>5. ParserTypeOK /\ StackFits
  BY <1>1, <1>2 DEF ParserTypeOK, StackFits
<1>6. ParserFits
  BY <1>1, <1>4 DEF ParserFits, ParserIsNew
<1>. QED BY <1>5, <1>6

LEMMA FreshBodyNext ==
    body' = NoBody /\ pc' # "compose" => BodyFits' /\ QueueFits' /\ SpaceFits' /\ body' \in AnyBody
<1>1. (body = NoBody /\ pc # "compose" => BodyFits /\ QueueFits /\ SpaceFits /\ body \in AnyBody)'
  BY FreshBody, PTL
<1>. QED BY <1>1 DEF NoBody, AnyBody, Spaces

LEMMA FreshParserNext ==
    ParserIsNew' => ParserTypeOK' /\ StackFits' /\ ParserFits'
BY FreshParser, PTL

\* The steps of the application and of the core leave the calls alone.
LEMMA IdleStep ==
    ASSUME IInv, Idle
    PROVE  /\ CallFits' /\ BodyFits' /\ ParserFits' /\ StackFits' /\ QueueFits' /\ SpaceFits'
           /\ pc' \in {"idle"} /\ op' \in {"none", "exchange", "mapping", "source"}
           /\ target' \in Names \cup {"none", "store"} /\ body' \in AnyBody
           /\ answer' \in {"none", "success", "created", "other"}
           /\ cause' \in {"none", "agent", "url", "descriptor", "twice", "parser"}
           /\ ParserTypeOK'
<1>1. pc = "idle" /\ UNCHANGED callVars /\ UNCHANGED parserVars
  BY DEF Idle
<1>2. pc' = "idle" /\ body' = NoBody /\ UNCHANGED <<pc, op, target, body, answer, cause, result>>
  BY <1>1 DEF IInv, CallFits, callVars
<1>3. ParserIsNew'
  BY <1>1 DEF IInv, ParserFits, ParserIsNew, parserVars
<1>4. CallFits'
  BY <1>2 DEF CallFits, NoBody
<1>5. BodyFits' /\ QueueFits' /\ SpaceFits' /\ body' \in AnyBody
  BY <1>2, FreshBodyNext
<1>6. /\ op \in {"none", "exchange", "mapping", "source"} /\ target \in Names \cup {"none", "store"}
      /\ answer \in {"none", "success", "created", "other"}
      /\ cause \in {"none", "agent", "url", "descriptor", "twice", "parser"}
  BY DEF IInv, TypeOK
<1>. QED BY <1>2, <1>3, <1>4, <1>5, <1>6, FreshParserNext

\* The entries of the store are still for the same items.
Kept ==
    /\ items' = items /\ target' = target /\ DOMAIN store' = DOMAIN store
    /\ \A e \in DOMAIN store : store'[e].item = store[e].item

LEMMA EntryStays ==
    ASSUME Kept, NEW entry, EntryFits(entry)
    PROVE  EntryFits(entry)' /\ ItemOf(entry)' = ItemOf(entry)
<1>1. /\ items' = items /\ target' = target /\ DOMAIN store' = DOMAIN store
      /\ \A e \in DOMAIN store : store'[e].item = store[e].item
  BY DEF Kept
<1>2. IF target = "store" THEN entry \in DOMAIN store ELSE entry = 0 /\ target \in Names
  BY DEF EntryFits
<1>3. ItemOf(entry)' = ItemOf(entry)
  BY <1>1, <1>2 DEF ItemOf
<1>. QED BY <1>1, <1>2, <1>3 DEF EntryFits

\* The body stays what it is.
LEMMA BodyStays ==
    ASSUME Kept, BodyFits, body'.queue = body.queue, body'.added = body.added, body'.step = body.step,
           body \in AnyBody
    PROVE  BodyFits'
<1>1. ASSUME NEW e, EntryFits(e)
      PROVE  EntryFits(e)' /\ ItemOf(e)' = ItemOf(e)
  BY <1>1, EntryStays
<1>2. ASSUME NEW k \in DOMAIN body.queue
      PROVE  EntryFits(body.queue[k])' /\ ItemOf(body.queue[k])' = ItemOf(body.queue[k])
  <2>1. PICK e : e = body.queue[k]
    OBVIOUS
  <2>2. EntryFits(e)
    BY <2>1 DEF BodyFits
  <2>3. EntryFits(e)' /\ ItemOf(e)' = ItemOf(e)
    BY <1>1, <2>2
  <2>4. e = body'.queue[k]
    BY <2>1
  <2>. QED BY <2>1, <2>3, <2>4
<1>3. ASSUME NEW k \in DOMAIN body.added
      PROVE  EntryFits(body.added[k])' /\ IsComplete(ItemOf(body.added[k])')
  <2>1. PICK e : e = body.added[k]
    OBVIOUS
  <2>2. EntryFits(e) /\ IsComplete(ItemOf(e))
    BY <2>1 DEF BodyFits
  <2>3. EntryFits(e)' /\ ItemOf(e)' = ItemOf(e)
    BY <1>1, <2>2
  <2>4. e = body'.added[k]
    BY <2>1
  <2>. QED BY <2>2, <2>3, <2>4
<1>4. ASSUME body.queue # <<>>
      PROVE  Current' = Current
  <2>1. body.queue \in Seq(Nat)
    BY DEF AnyBody
  <2>2. 1 \in DOMAIN body.queue /\ Head(body.queue) = body.queue[1]
    BY <1>4, <2>1
  <2>3. ItemOf(body.queue[1])' = ItemOf(body.queue[1])
    BY <1>2, <2>2
  <2>4. Current' = ItemOf(body.queue[1])'
    BY <2>2 DEF Current
  <2>. QED BY <2>2, <2>3, <2>4 DEF Current
<1>5. \A k \in DOMAIN body'.queue : EntryFits(body.queue[k])'
  BY <1>2
<1>6. \A k \in DOMAIN body'.added : EntryFits(body.added[k])' /\ IsComplete(ItemOf(body.added[k])')
  BY <1>3
<1>7. body'.queue # <<>> => \A step \in {MetaStep, PayloadStep} : step < body'.step => ~NullAt(step, Current')
  BY <1>4 DEF BodyFits
<1>. QED BY <1>5, <1>6, <1>7 DEF BodyFits, IsComplete

-----------------------------------------------------------------------------
(* The items.                                                              *)

\* What a parameter does to an item: it stays of its kind, and so do its entries.
Alike(item, old) ==
    /\ item \in AnyItem /\ item # Nothing /\ item.kind = old.kind
    /\ ContentsValid(old) => ContentsValid(item)

LEMMA SameContents ==
    ASSUME NEW item, NEW old, item.kind = old.kind,
           item.kind = "timeseries" => item.lists = old.lists,
           item.kind = "configuration" => item.sources = old.sources,
           ContentsValid(old)
    PROVE  ContentsValid(item)
BY DEF ContentsValid

LEMMA NoNothing == \A item \in AnyItem : item # Nothing
BY ConnectivityAssumption

LEMMA TextIsSet ==
    ASSUME NEW old \in AnyItem, NEW field \in TextFields(old.kind), NEW n \in Nat,
           NEW lacks, lacks \in {old.lacks \ {field}, old.lacks \cup {field}}
    PROVE  LET item == [old EXCEPT !.lacks = lacks, ![field] = n]
           IN  Alike(item, old) /\ item.stale = old.stale
<1> DEFINE item == [old EXCEPT !.lacks = lacks, ![field] = n]
<1>1. /\ item \in AnyItem /\ item.kind = old.kind /\ item.stale = old.stale
      /\ item.kind = "timeseries" => item.lists = old.lists
      /\ item.kind = "configuration" => item.sources = old.sources
  <2>1. CASE old \in AnyEvent
    <3>1. field = "type"
      BY <2>1 DEF TextFields, AnyEvent
    <3>2. lacks \in SUBSET {"type", "timestamp"}
      BY <2>1, <3>1 DEF AnyEvent
    <3>3. item \in AnyEvent /\ item.kind = "event" /\ old.kind = "event" /\ item.stale = old.stale
      BY <2>1, <3>1, <3>2 DEF AnyEvent
    <3>. QED BY <3>3 DEF AnyItem
  <2>2. CASE old \in AnyTimeseries
    <3>1. field = "configurationId"
      BY <2>2 DEF TextFields, AnyTimeseries
    <3>2. lacks \in SUBSET {"configurationId", "timestamp"}
      BY <2>2, <3>1 DEF AnyTimeseries
    <3>3. /\ item \in AnyTimeseries /\ item.kind = "timeseries" /\ old.kind = "timeseries"
          /\ item.stale = old.stale /\ item.lists = old.lists
      BY <2>2, <3>1, <3>2 DEF AnyTimeseries
    <3>. QED BY <3>3 DEF AnyItem
  <2>3. CASE old \in AnyFile
    <3>1. field = "remoteName"
      BY <2>3 DEF TextFields, AnyFile
    <3>2. lacks \in SUBSET {"remoteName", "path"}
      BY <2>3, <3>1 DEF AnyFile
    <3>3. item \in AnyFile /\ item.kind = "file" /\ old.kind = "file" /\ item.stale = old.stale
      BY <2>3, <3>1, <3>2 DEF AnyFile
    <3>. QED BY <3>3 DEF AnyItem
  <2>4. CASE old \in AnyCustom
    <3>1. field \in {"type", "contentType"}
      BY <2>4 DEF TextFields, AnyCustom
    <3>2. lacks \in SUBSET {"type", "contentType"}
      BY <2>4, <3>1 DEF AnyCustom
    <3>3. item \in AnyCustom /\ item.kind = "custom" /\ old.kind = "custom" /\ item.stale = old.stale
      BY <2>4, <3>1, <3>2 DEF AnyCustom
    <3>. QED BY <3>3 DEF AnyItem
  <2>5. CASE old \in AnyConfiguration
    <3>1. field = "configurationId"
      BY <2>5 DEF TextFields, AnyConfiguration
    <3>2. lacks \in SUBSET {"configurationId"}
      BY <2>5, <3>1 DEF AnyConfiguration
    <3>3. /\ item \in AnyConfiguration /\ item.kind = "configuration" /\ old.kind = "configuration"
          /\ item.stale = old.stale /\ item.sources = old.sources
      BY <2>5, <3>1, <3>2 DEF AnyConfiguration
    <3>. QED BY <3>3 DEF AnyItem
  <2>. QED BY <2>1, <2>2, <2>3, <2>4, <2>5 DEF AnyItem
<1> HIDE DEF item
<1>2. ContentsValid(old) => ContentsValid(item)
  BY <1>1, SameContents
<1>3. Alike(item, old) /\ item.stale = old.stale
  BY <1>1, <1>2, NoNothing DEF Alike
<1>. QED BY <1>3 DEF item

LEMMA TimestampIsSet ==
    ASSUME NEW old \in AnyItem, old.kind \in {"event", "timeseries"}
    PROVE  LET item == [old EXCEPT !.lacks = @ \ {"timestamp"}]
           IN  Alike(item, old) /\ item.stale = old.stale
<1> DEFINE item == [old EXCEPT !.lacks = @ \ {"timestamp"}]
<1>1. /\ item \in AnyItem /\ item.kind = old.kind /\ item.stale = old.stale
      /\ item.kind = "timeseries" => item.lists = old.lists
      /\ item.kind # "configuration"
  <2>1. CASE old \in AnyEvent
    <3>1. item \in AnyEvent /\ item.kind = "event" /\ old.kind = "event" /\ item.stale = old.stale
      BY <2>1 DEF AnyEvent
    <3>. QED BY <3>1 DEF AnyItem
  <2>2. CASE old \in AnyTimeseries
    <3>1. /\ item \in AnyTimeseries /\ item.kind = "timeseries" /\ old.kind = "timeseries"
          /\ item.stale = old.stale /\ item.lists = old.lists
      BY <2>2 DEF AnyTimeseries
    <3>. QED BY <3>1 DEF AnyItem
  <2>. QED BY <2>1, <2>2 DEF AnyItem, AnyFile, AnyCustom, AnyConfiguration
<1> HIDE DEF item
<1>2. ContentsValid(old) => ContentsValid(item)
  BY <1>1, SameContents
<1>3. Alike(item, old) /\ item.stale = old.stale
  BY <1>1, <1>2, NoNothing DEF Alike
<1>. QED BY <1>3 DEF item

LEMMA PathIsSet ==
    ASSUME NEW old \in AnyItem, old.kind = "file",
           NEW item, item \in {[old EXCEPT !.lacks = @ \ {"path"}], NotOpened(old), [old EXCEPT !.stale = TRUE]}
    PROVE  Alike(item, old) /\ (item.stale = old.stale \/ item = [old EXCEPT !.stale = TRUE])
<1>1. old \in AnyFile
  BY DEF AnyItem, AnyFile, AnyEvent, AnyTimeseries, AnyCustom, AnyConfiguration
<1>2. item \in AnyFile /\ item.kind = "file" /\ (item.stale = old.stale \/ item = [old EXCEPT !.stale = TRUE])
  <2>1. CASE item = [old EXCEPT !.lacks = @ \ {"path"}]
    BY <1>1, <2>1 DEF AnyFile
  <2>2. CASE item = NotOpened(old)
    <3> DEFINE a == [old EXCEPT !.lacks = old.lacks \cup {"path"}]
               b == [a EXCEPT !.size = 0]
    <3>1. item = [b EXCEPT !.drift = 0]
      BY <2>2 DEF NotOpened
    <3>2. a \in AnyFile /\ a.stale = old.stale
      BY <1>1 DEF AnyFile
    <3> HIDE DEF a
    <3>3. b \in AnyFile /\ b.stale = a.stale
      BY <3>2 DEF AnyFile
    <3> HIDE DEF b
    <3>4. item \in AnyFile /\ item.stale = b.stale /\ item.kind = "file"
      BY <3>1, <3>3 DEF AnyFile
    <3>. QED BY <3>2, <3>3, <3>4
  <2>3. CASE item = [old EXCEPT !.stale = TRUE]
    BY <1>1, <2>3 DEF AnyFile
  <2>. QED BY <2>1, <2>2, <2>3
<1>3. ContentsValid(old) => ContentsValid(item)
  BY <1>2, SameContents
<1>. QED BY <1>2, <1>3, NoNothing DEF Alike, AnyItem

-----------------------------------------------------------------------------
(* The steps of the application and of the core.                           *)

AppTypeOK ==
    /\ client \in 1..(MaxRotations + 1) /\ sets \in 0..MaxSets
    /\ configuration \in [core : BOOLEAN, url : 1..MaxSets \cup {Nothing}]
    /\ handle \in [agent : 1..(MaxRotations + 1), url : 1..MaxSets \cup {Nothing}] \cup {Nothing}
    /\ items \in [Names -> AnyItem \cup {Nothing}] /\ changes \in 0..MaxChanges
    /\ store \in Seq(AnyEntry) /\ Len(store) <= MaxEntriesOfStore
    /\ careless \subseteq {"agent", "url", "descriptor", "twice"}

AppFits == AppTypeOK /\ HandleFits /\ ItemsFit /\ StoreFits

CallTypeOK ==
    /\ pc \in {"idle", "token", "validate", "prepare", "compose", "request", "send", "answer", "parse", "done",
              "crashed"}
    /\ op \in {"none", "exchange", "mapping", "source"} /\ target \in Names \cup {"none", "store"}
    /\ body \in AnyBody
    /\ answer \in {"none", "success", "created", "other"}
    /\ cause \in {"none", "agent", "url", "descriptor", "twice", "parser"}

LEMMA TypesAre == TypeOK <=> AppTypeOK /\ CallTypeOK /\ ParserTypeOK
BY DEF TypeOK, AppTypeOK, CallTypeOK

LEMMA TypesAreNext == TypeOK' <=> AppTypeOK' /\ CallTypeOK' /\ ParserTypeOK'
BY TypesAre, PTL

LEMMA IdleKeeps ==
    ASSUME IInv, Idle, AppFits'
    PROVE  IInv'
<1>1. CallTypeOK' /\ ParserTypeOK'
  BY IdleStep DEF CallTypeOK
<1>. QED BY <1>1, IdleStep, TypesAreNext DEF IInv, AppFits

\* A handle, the URLs and the client id.
LEMMA PointersStep ==
    ASSUME IInv, SetCore \/ InitializeHandle \/ DestroyHandle \/ DestroyConfiguration \/ Rotate
    PROVE  IInv'
<1>1. AppFits /\ AppTypeOK
  BY TypesAre DEF IInv, AppFits
<1>2. {MaxSets, MaxRotations} \subseteq Nat
  BY ConnectivityAssumption
<1>3. CASE SetCore
  <2>1. Idle /\ UNCHANGED <<client, handle, items, changes, store>>
    BY <1>3 DEF SetCore
  <2>2. sets' \in 0..MaxSets /\ configuration' \in [core : BOOLEAN, url : 1..MaxSets \cup {Nothing}]
    <3>1. /\ sets \in 0..MaxSets /\ MaxSets \in Nat /\ sets < MaxSets
          /\ configuration \in [core : BOOLEAN, url : 1..MaxSets \cup {Nothing}]
      BY <1>1, <1>2, <1>3 DEF SetCore, AppTypeOK
    <3>2. sets + 1 \in 0..MaxSets /\ sets + 1 \in 1..MaxSets \cup {Nothing}
      BY <3>1
    <3>3. sets' = sets + 1 /\ (\/ configuration' = [core |-> TRUE, url |-> sets + 1]
                              \/ configuration' = [configuration EXCEPT !.url = Nothing])
      BY <1>3 DEF SetCore
    <3>4. [core |-> TRUE, url |-> sets + 1] \in [core : BOOLEAN, url : 1..MaxSets \cup {Nothing}]
      BY <3>2
    <3>5. [configuration EXCEPT !.url = Nothing] \in [core : BOOLEAN, url : 1..MaxSets \cup {Nothing}]
      BY <3>1
    <3>. QED BY <3>2, <3>3, <3>4, <3>5
  <2>3. careless' = careless \cup (IF handle # Nothing THEN {"url"} ELSE {})
    BY <1>3 DEF SetCore, Careless
  <2>4. AppTypeOK'
    BY <1>1, <2>1, <2>2, <2>3 DEF AppTypeOK
  <2>5. HandleFits'
    BY <1>1, <2>1, <2>3 DEF AppFits, HandleFits
  <2>6. ItemsFit' /\ StoreFits'
    BY <1>1, <2>1, <2>3 DEF AppFits, ItemsFit, StoreFits
  <2>. QED BY <2>1, <2>4, <2>5, <2>6, IdleKeeps DEF AppFits
<1>4. CASE InitializeHandle
  <2>1. Idle /\ UNCHANGED <<client, configuration, sets, items, changes, store>>
        /\ handle' = [agent |-> client, url |-> configuration.url] /\ careless' = careless \ {"agent", "url"}
    BY <1>4 DEF InitializeHandle
  <2>2. AppTypeOK'
    BY <1>1, <2>1 DEF AppTypeOK
  <2>3. HandleFits'
    BY <2>1 DEF HandleFits
  <2>4. ItemsFit' /\ StoreFits'
    BY <1>1, <2>1 DEF AppFits, ItemsFit, StoreFits
  <2>. QED BY <2>1, <2>2, <2>3, <2>4, IdleKeeps DEF AppFits
<1>5. CASE DestroyHandle \/ DestroyConfiguration
  <2>1. Idle /\ UNCHANGED <<client, sets, items, changes, store, careless>> /\ handle' = Nothing
    BY <1>5 DEF DestroyHandle, DestroyConfiguration
  <2>2. configuration' \in [core : BOOLEAN, url : 1..MaxSets \cup {Nothing}]
    <3>1. configuration' = configuration \/ configuration' = [core |-> FALSE, url |-> Nothing]
      BY <1>5 DEF DestroyHandle, DestroyConfiguration
    <3>2. configuration \in [core : BOOLEAN, url : 1..MaxSets \cup {Nothing}]
      BY <1>1 DEF AppTypeOK
    <3>3. [core |-> FALSE, url |-> Nothing] \in [core : BOOLEAN, url : 1..MaxSets \cup {Nothing}]
      OBVIOUS
    <3>. QED BY <3>1, <3>2, <3>3
  <2>3. AppTypeOK'
    BY <1>1, <2>1, <2>2 DEF AppTypeOK
  <2>4. HandleFits' /\ ItemsFit' /\ StoreFits'
    BY <1>1, <2>1 DEF AppFits, HandleFits, ItemsFit, StoreFits
  <2>. QED BY <2>1, <2>3, <2>4, IdleKeeps DEF AppFits
<1>6. CASE Rotate
  <2>1. /\ Idle /\ UNCHANGED <<configuration, sets, handle, items, changes, store>>
        /\ client' \in 1..(MaxRotations + 1)
        /\ careless' = careless \cup (IF handle # Nothing THEN {"agent"} ELSE {})
    BY <1>1, <1>2, <1>6 DEF Rotate, Careless, AppTypeOK
  <2>2. AppTypeOK'
    BY <1>1, <2>1 DEF AppTypeOK
  <2>3. HandleFits'
    BY <1>1, <2>1 DEF AppFits, HandleFits
  <2>4. ItemsFit' /\ StoreFits'
    BY <1>1, <2>1 DEF AppFits, ItemsFit, StoreFits
  <2>. QED BY <2>1, <2>2, <2>3, <2>4, IdleKeeps DEF AppFits
<1>. QED BY <1>3, <1>4, <1>5, <1>6

LEMMA EntriesAreTyped ==
    ASSUME store \in Seq(AnyEntry)
    PROVE  /\ DOMAIN store = 1..Len(store) /\ Len(store) \in Nat
           /\ \A e \in DOMAIN store : /\ store[e] \in AnyEntry /\ store[e].item \in Names
                                    /\ store[e].status \in {"ready", "selected", "processed"}
<1>1. DOMAIN store = 1..Len(store) /\ Len(store) \in Nat /\ \A e \in DOMAIN store : store[e] \in AnyEntry
  BY DomainIsFinite
<1>2. \A entry \in AnyEntry : entry.item \in Names /\ entry.status \in {"ready", "selected", "processed"}
  BY DEF AnyEntry
<1>. QED BY <1>1, <1>2

\* A parameter of an item, also of one in the store.
LEMMA ParameterStep ==
    ASSUME IInv, Idle, NEW i \in Names, items[i] # Nothing, changes < MaxChanges,
           NEW item, Alike(item, items[i]), ItemIs(i, item),
           careless \subseteq careless', careless' \subseteq careless \cup {"descriptor"},
           item.stale = items[i].stale \/ "descriptor" \in careless'
    PROVE  IInv'
<1>1. AppFits /\ AppTypeOK
  BY TypesAre DEF IInv, AppFits
<1>2. /\ items' = [items EXCEPT ![i] = item] /\ changes' = changes + 1
      /\ UNCHANGED <<client, configuration, sets, handle, store>>
  BY DEF ItemIs
<1>3. items \in [Names -> AnyItem \cup {Nothing}] /\ item \in AnyItem /\ item # Nothing
  BY <1>1 DEF AppTypeOK, Alike
<1>4. \A j \in Names : items'[j] = IF j = i THEN item ELSE items[j]
  BY <1>2, <1>3
<1>5. AppTypeOK'
  <2>1. items' \in [Names -> AnyItem \cup {Nothing}]
    BY <1>2, <1>3
  <2>2. changes' \in 0..MaxChanges
    BY <1>1, <1>2, ConnectivityAssumption DEF AppTypeOK
  <2>3. careless' \subseteq {"agent", "url", "descriptor", "twice"}
    BY <1>1 DEF AppTypeOK
  <2>. QED BY <1>1, <1>2, <2>1, <2>2, <2>3 DEF AppTypeOK
<1>6. HandleFits'
  BY <1>1, <1>2 DEF AppFits, HandleFits
<1>7. ItemsFit'
  <2>1. ASSUME NEW j \in Names, items'[j] # Nothing, items'[j].stale
        PROVE  "descriptor" \in careless'
    <3>1. CASE j = i
      BY <1>1, <1>4, <2>1, <3>1 DEF AppFits, ItemsFit
    <3>2. CASE j # i
      BY <1>1, <1>4, <2>1, <3>2 DEF AppFits, ItemsFit
    <3>. QED BY <3>1, <3>2
  <2>. QED BY <2>1 DEF ItemsFit
<1>8. StoreFits'
  <2>1. \A e \in DOMAIN store : store[e].item \in Names
    BY <1>1, EntriesAreTyped DEF AppTypeOK
  <2>2. ASSUME NEW e \in DOMAIN store
        PROVE  IF items'[store[e].item] = Nothing THEN "twice" \in careless' ELSE ContentsValid(items'[store[e].item])
    <3>1. CASE store[e].item = i
      <4>1. items'[store[e].item] = item
        BY <1>4, <3>1
      <4>2. ContentsValid(items[i])
        BY <1>1, <3>1 DEF AppFits, StoreFits
      <4>. QED BY <1>3, <4>1, <4>2 DEF Alike
    <3>2. CASE store[e].item # i
      <4>1. items'[store[e].item] = items[store[e].item]
        BY <1>4, <2>1, <3>2
      <4>2. IF items[store[e].item] = Nothing THEN "twice" \in careless ELSE ContentsValid(items[store[e].item])
        BY <1>1 DEF AppFits, StoreFits
      <4>. QED BY <4>1, <4>2
    <3>. QED BY <3>1, <3>2
  <2>3. store' = store
    BY <1>2
  <2>4. \A e, f \in DOMAIN store : e # f /\ store[e].item = store[f].item => "twice" \in careless'
    BY <1>1 DEF AppFits, StoreFits
  <2>. QED BY <2>2, <2>3, <2>4 DEF StoreFits
<1>. QED BY <1>5, <1>6, <1>7, <1>8, IdleKeeps DEF AppFits

LEMMA SettingStep ==
    ASSUME IInv, NEW i \in Names, SetText(i) \/ SetTimestamp(i) \/ SetPath(i)
    PROVE  IInv'
<1> DEFINE old == items[i]
<1>1. Idle /\ old # Nothing /\ changes < MaxChanges
  BY DEF SetText, SetTimestamp, SetPath
<1>2. old \in AnyItem
  BY <1>1 DEF IInv, TypeOK
<1>3. ASSUME NEW item, Alike(item, old), ItemIs(i, item), careless' = careless, item.stale = old.stale
      PROVE  IInv'
  BY <1>1, <1>3, ParameterStep
<1>4. CASE SetText(i)
  <2>1. PICK field \in TextFields(old.kind) :
            \/ ItemIs(i, [old EXCEPT !.lacks = old.lacks \ {field}, ![field] = 1])
            \/ ItemIs(i, [old EXCEPT !.lacks = old.lacks \cup {field}, ![field] = 0])
    BY ZenonT(40), <1>4 DEF SetText
  <2>2. careless' = careless
    BY <1>4 DEF SetText
  <2>3. CASE ItemIs(i, [old EXCEPT !.lacks = old.lacks \ {field}, ![field] = 1])
    <3> DEFINE item == [old EXCEPT !.lacks = old.lacks \ {field}, ![field] = 1]
    <3>1. Alike(item, old) /\ item.stale = old.stale
      BY ZenonT(40), <1>2, TextIsSet
    <3>. QED BY <1>3, <2>2, <2>3, <3>1
  <2>4. CASE ItemIs(i, [old EXCEPT !.lacks = old.lacks \cup {field}, ![field] = 0])
    <3> DEFINE item == [old EXCEPT !.lacks = old.lacks \cup {field}, ![field] = 0]
    <3>1. Alike(item, old) /\ item.stale = old.stale
      BY ZenonT(40), <1>2, TextIsSet
    <3>. QED BY <1>3, <2>2, <2>4, <3>1
  <2>. QED BY SMTT(40), <2>1, <2>3, <2>4
<1>5. CASE SetTimestamp(i)
  <2> DEFINE item == [old EXCEPT !.lacks = @ \ {"timestamp"}]
  <2>1. ItemIs(i, item) /\ careless' = careless /\ old.kind \in {"event", "timeseries"}
    BY <1>5 DEF SetTimestamp
  <2>2. Alike(item, old) /\ item.stale = old.stale
    BY <1>2, <2>1, TimestampIsSet
  <2>. QED BY <1>3, <2>1, <2>2
<1>6. CASE SetPath(i)
  <2>1. old.kind = "file"
    BY <1>6 DEF SetPath
  <2>2. CASE ItemIs(i, [old EXCEPT !.lacks = @ \ {"path"}]) /\ careless' = careless
    <3> DEFINE item == [old EXCEPT !.lacks = @ \ {"path"}]
    <3>1. Alike(item, old)
      BY <1>2, <2>1, PathIsSet
    <3>2. item.stale = old.stale
      BY <1>2 DEF AnyItem, AnyFile, AnyEvent, AnyTimeseries, AnyCustom, AnyConfiguration
    <3>. QED BY <1>3, <2>2, <3>1, <3>2
  <2>3. CASE ItemIs(i, NotOpened(old)) /\ careless' = careless
    <3> DEFINE item == NotOpened(old)
    <3>1. Alike(item, old)
      BY <1>2, <2>1, PathIsSet
    <3>2. item.stale = old.stale
      BY <1>2 DEF NotOpened, AnyItem, AnyFile, AnyEvent, AnyTimeseries, AnyCustom, AnyConfiguration
    <3>. QED BY <1>3, <2>3, <3>1, <3>2
  <2>4. CASE ItemIs(i, [old EXCEPT !.stale = TRUE]) /\ careless' = careless \cup {"descriptor"}
    <3> DEFINE item == [old EXCEPT !.stale = TRUE]
    <3>1. Alike(item, old)
      BY <1>2, <2>1, PathIsSet
    <3>. QED BY <1>1, <2>4, <3>1, ParameterStep
  <2>. QED BY <1>6, <2>2, <2>3, <2>4 DEF SetPath, Careless
<1>. QED BY SMTT(40), <1>4, <1>5, <1>6

\* An item comes and goes while the store does not have it.
LEMMA AppearStep ==
    ASSUME IInv, NEW i \in Names, CreateItem(i) \/ DestroyItem(i)
    PROVE  IInv'
<1>1. AppFits /\ AppTypeOK
  BY TypesAre DEF IInv, AppFits
<1>2. /\ Idle /\ \A e \in DOMAIN store : store[e].item # i
      /\ UNCHANGED <<client, configuration, sets, handle, changes, store, careless>>
  BY DEF CreateItem, DestroyItem
<1>3. PICK item \in AnyItem \cup {Nothing} :
          items' = [items EXCEPT ![i] = item] /\ (item = Nothing \/ ~item.stale)
  <2>1. CASE CreateItem(i)
    <3>1. PICK item \in Catalogue[i] : items' = [items EXCEPT ![i] = item]
      BY <2>1 DEF CreateItem
    <3>2. item \in AnyItem /\ ~item.stale
      BY <3>1, CatalogueAssumption
    <3>. QED BY <3>1, <3>2
  <2>2. CASE DestroyItem(i)
    BY <2>2 DEF DestroyItem
  <2>. QED BY <2>1, <2>2
<1>4. items \in [Names -> AnyItem \cup {Nothing}]
  BY <1>1 DEF AppTypeOK
<1>5. items' \in [Names -> AnyItem \cup {Nothing}] /\ \A j \in Names : items'[j] = IF j = i THEN item ELSE items[j]
  BY <1>3, <1>4
<1>6. AppTypeOK'
  BY <1>1, <1>2, <1>5 DEF AppTypeOK
<1>7. HandleFits'
  BY <1>1, <1>2 DEF AppFits, HandleFits
<1>8. ItemsFit'
  <2>1. ASSUME NEW j \in Names, items'[j] # Nothing, items'[j].stale
        PROVE  "descriptor" \in careless'
    <3>1. j # i
      BY <1>3, <1>5, <2>1
    <3>2. items[j] # Nothing /\ items[j].stale
      BY <1>5, <2>1, <3>1
    <3>. QED BY <1>1, <1>2, <3>2 DEF AppFits, ItemsFit
  <2>. QED BY <2>1 DEF ItemsFit
<1>9. StoreFits'
  <2>1. \A e \in DOMAIN store : items'[store[e].item] = items[store[e].item]
    BY <1>1, <1>2, <1>5, EntriesAreTyped DEF AppTypeOK
  <2>. QED BY <1>1, <1>2, <2>1 DEF AppFits, StoreFits
<1>. QED BY <1>2, <1>6, <1>7, <1>8, <1>9, IdleKeeps DEF AppFits

LEMMA AddStep ==
    ASSUME IInv, NEW i \in Names, AddToStore(i)
    PROVE  IInv'
<1> DEFINE entry == [item |-> i, status |-> "ready"]
<1>1. AppFits /\ AppTypeOK
  BY TypesAre DEF IInv, AppFits
<1>2. /\ Idle /\ items[i] # Nothing /\ Len(store) < MaxEntriesOfStore
      /\ store' = Append(store, entry)
      /\ careless' = careless \cup (IF \E e \in DOMAIN store : store[e].item = i THEN {"twice"} ELSE {})
      /\ UNCHANGED <<client, configuration, sets, handle, items, changes>>
  BY DEF AddToStore, Careless
<1>3. ContentsValid(items[i])
  BY DEF AddToStore, IsValid
<1> DEFINE n == Len(store)
<1>4. store \in Seq(AnyEntry) /\ n \in Nat /\ entry \in AnyEntry /\ MaxEntriesOfStore \in Nat
  <2>1. store \in Seq(AnyEntry)
    BY <1>1 DEF AppTypeOK
  <2>2. entry \in AnyEntry
    BY DEF AnyEntry
  <2>. QED BY <2>1, <2>2, LenProperties, ConnectivityAssumption
<1>5. /\ store' \in Seq(AnyEntry) /\ Len(store') = n + 1 /\ DOMAIN store' = 1..(n + 1) /\ DOMAIN store = 1..n
      /\ store'[n + 1] = entry /\ \A e \in 1..n : store'[e] = store[e]
  <2> HIDE DEF entry
  <2>. QED BY <1>2, <1>4, AppendProperties, LenProperties
<1>6. AppTypeOK'
  BY <1>1, <1>2, <1>4, <1>5 DEF AppTypeOK
<1>7. HandleFits' /\ ItemsFit'
  BY <1>1, <1>2 DEF AppFits, HandleFits, ItemsFit
<1>8. entry.item = i
  OBVIOUS
<1> HIDE DEF entry, n
<1>9. \A e \in 1..(n + 1) : e \in 1..n \/ e = n + 1
  BY <1>4
<1>10. \A e \in DOMAIN store' :
          IF items'[store'[e].item] = Nothing THEN "twice" \in careless' ELSE ContentsValid(items'[store'[e].item])
  <2>1. ASSUME NEW e \in 1..(n + 1)
        PROVE  IF items[store'[e].item] = Nothing THEN "twice" \in careless' ELSE ContentsValid(items[store'[e].item])
    <3>1. CASE e = n + 1
      BY <1>2, <1>3, <1>5, <1>8, <3>1
    <3>2. CASE e \in 1..n
      <4>1. store'[e].item = store[e].item
        BY <1>5, <3>2
      <4>2. IF items[store[e].item] = Nothing THEN "twice" \in careless ELSE ContentsValid(items[store[e].item])
        BY <1>1, <1>5, <3>2 DEF AppFits, StoreFits
      <4>. QED BY <1>2, <4>1, <4>2
    <3>. QED BY <1>9, <3>1, <3>2
  <2>. QED BY <1>2, <1>5, <2>1
<1>11. ASSUME NEW e \in DOMAIN store', NEW f \in DOMAIN store', e # f, store'[e].item = store'[f].item
       PROVE  "twice" \in careless'
  <2>1. CASE e \in 1..n /\ f \in 1..n
    <3>1. store[e].item = store[f].item
      BY <1>5, <1>11, <2>1
    <3>2. "twice" \in careless
      BY <1>1, <1>5, <1>11, <2>1, <3>1 DEF AppFits, StoreFits
    <3>. QED BY <1>2, <3>2
  <2>2. CASE e \notin 1..n
    <3>1. e = n + 1 /\ f \in 1..n
      BY <1>5, <1>9, <1>11, <2>2
    <3>2. store[f].item = i
      BY <1>5, <1>8, <1>11, <3>1
    <3>. QED BY <1>2, <1>5, <3>1, <3>2
  <2>3. CASE f \notin 1..n
    <3>1. f = n + 1 /\ e \in 1..n
      BY <1>5, <1>9, <1>11, <2>3
    <3>2. store[e].item = i
      BY <1>5, <1>8, <1>11, <3>1
    <3>. QED BY <1>2, <1>5, <3>1, <3>2
  <2>. QED BY <2>1, <2>2, <2>3
<1>12. StoreFits'
  BY <1>10, <1>11 DEF StoreFits
<1>. QED BY <1>2, <1>6, <1>7, <1>12, IdleKeeps DEF AppFits

-----------------------------------------------------------------------------
(* The ends of a call, and the steps from one part of it to the next.      *)

LEMMA Parts ==
    ASSUME IInv
    PROVE  /\ AppFits /\ AppTypeOK /\ CallTypeOK /\ ParserTypeOK /\ CallFits /\ BodyFits /\ ParserFits /\ StackFits
           /\ QueueFits /\ SpaceFits /\ store \in Seq(AnyEntry) /\ body \in AnyBody
BY TypesAre DEF IInv, AppFits, AppTypeOK, CallTypeOK

LEMMA AppStays ==
    ASSUME AppFits, Keep, Kept, store' \in Seq(AnyEntry), Len(store') = Len(store)
    PROVE  AppFits'
<1>1. /\ UNCHANGED <<client, configuration, sets, handle, changes, careless, items>>
      /\ DOMAIN store' = DOMAIN store /\ \A e \in DOMAIN store : store'[e].item = store[e].item
  BY DEF Keep, Kept
<1>2. AppTypeOK'
  BY <1>1 DEF AppFits, AppTypeOK
<1>3. HandleFits' /\ ItemsFit'
  BY <1>1 DEF AppFits, HandleFits, ItemsFit
<1>4. StoreFits'
  BY <1>1 DEF AppFits, StoreFits
<1>. QED BY <1>2, <1>3, <1>4 DEF AppFits

LEMMA RevertedFits ==
    ASSUME store \in Seq(AnyEntry)
    PROVE  /\ Reverted \in Seq(AnyEntry) /\ Len(Reverted) = Len(store) /\ DOMAIN Reverted = DOMAIN store
           /\ \A e \in DOMAIN store : Reverted[e] \in AnyEntry /\ Reverted[e].item = store[e].item
<1>1. DOMAIN store = 1..Len(store) /\ Len(store) \in Nat /\ \A e \in DOMAIN store : store[e] \in AnyEntry
  BY EntriesAreTyped
<1>2. \A entry \in AnyEntry : /\ [entry EXCEPT !.status = "ready"] \in AnyEntry
                              /\ [entry EXCEPT !.status = "ready"].item = entry.item
  BY DEF AnyEntry
<1>3. Reverted = [e \in 1..Len(store) |-> [store[e] EXCEPT !.status = "ready"]]
  BY <1>1 DEF Reverted
<1>4. \A e \in 1..Len(store) : Reverted[e] \in AnyEntry /\ Reverted[e].item = store[e].item
  BY <1>1, <1>2, <1>3
<1>5. Reverted \in Seq(AnyEntry) /\ Len(Reverted) = Len(store) /\ DOMAIN Reverted = 1..Len(store)
  BY <1>1, <1>3, <1>4
<1>. QED BY <1>1, <1>4, <1>5

LEMMA ExactStays ==
    ASSUME items' = items, target' = target, store' = store \/ target # "store"
    PROVE  Exact' = Exact
BY DEF Exact, Concerned

\* What a step that leaves the body and the parser alone has to show.
LEMMA Collected ==
    ASSUME IInv, AppFits', CallTypeOK', CallFits', BodyFits', ParserFits', QueueFits', SpaceFits',
           UNCHANGED parserVars
    PROVE  IInv'
<1>1. ParserTypeOK'
  BY Parts DEF parserVars, ParserTypeOK
<1>2. StackFits'
  BY Parts DEF parserVars, StackFits
<1>. QED BY <1>1, <1>2, TypesAreNext DEF IInv, AppFits

LEMMA DoneStep ==
    ASSUME IInv, NEW code, Done(code), Keep, pc \notin {"idle", "crashed"}, pc = "parse" => parsed # "none"
    PROVE  IInv'
<1>1. /\ pc' = "done" /\ store' = Reverted /\ UNCHANGED <<items, body, answer, cause, parserVars>>
      /\ UNCHANGED <<op, target, handle>>
  BY DEF Done, Keep
<1>2. Kept /\ store' \in Seq(AnyEntry) /\ Len(store') = Len(store)
  BY <1>1, Parts, RevertedFits DEF Kept
<1>3. AppFits'
  BY <1>2, Parts, AppStays
<1>4. CallTypeOK'
  BY <1>1, Parts DEF CallTypeOK
<1>5. CallFits'
  BY <1>1, Parts DEF CallFits
<1>6. BodyFits'
  BY <1>1, <1>2, Parts, BodyStays
<1>7. ParserFits'
  BY <1>1, Parts DEF ParserFits, ParserIsNew, parserVars
<1>8. QueueFits'
  BY <1>1, Parts DEF QueueFits
<1>9. SpaceFits'
  <2>1. target # "store" => Exact' = Exact
    BY <1>1, ExactStays
  <2>. QED BY <1>1, <2>1, Parts DEF SpaceFits
<1>. QED BY <1>1, <1>3, <1>4, <1>5, <1>6, <1>7, <1>8, <1>9, Collected

LEMMA CrashStep ==
    ASSUME IInv, NEW why, Crash(why), Keep, pc # "idle",
           why \in careless \cup {"parser"}
    PROVE  IInv'
<1>1. /\ pc' = "crashed" /\ cause' = why /\ UNCHANGED <<items, store, body, answer, parserVars>>
      /\ UNCHANGED <<op, target, handle, careless>>
  BY DEF Crash, Keep
<1>2. Kept /\ store' \in Seq(AnyEntry) /\ Len(store') = Len(store)
  BY <1>1, Parts DEF Kept
<1>3. AppFits'
  BY <1>2, Parts, AppStays
<1>4. CallTypeOK'
  BY <1>1, Parts DEF CallTypeOK, AppTypeOK
<1>5. CallFits'
  BY <1>1, Parts DEF CallFits
<1>6. BodyFits'
  BY <1>1, <1>2, Parts, BodyStays
<1>7. ParserFits'
  BY <1>1, Parts DEF ParserFits, ParserIsNew, parserVars
<1>8. QueueFits'
  BY <1>1, Parts DEF QueueFits
<1>9. SpaceFits'
  <2>1. target # "store" => Exact' = Exact
    BY <1>1, ExactStays
  <2>. QED BY <1>1, <2>1, Parts DEF SpaceFits
<1>. QED BY <1>1, <1>3, <1>4, <1>5, <1>6, <1>7, <1>8, <1>9, Collected

LEMMA GoToStep ==
    ASSUME IInv, NEW label, GoTo(label), Keep,
           pc \in {"token", "validate", "request", "answer"},
           label \in {"validate", "prepare", "request", "send", "parse"},
           label \in {"validate", "prepare"} => pc \in {"token", "validate"},
           label = "prepare" => op = "exchange" /\ (target \in Names => ContentsValid(items[target])),
           label \in {"request", "send"} => pc \in {"validate", "request"}
    PROVE  IInv'
<1>1. /\ pc' = label /\ UNCHANGED <<items, store, body, answer, cause, parserVars>>
      /\ UNCHANGED <<op, target, handle, careless>>
  BY DEF GoTo, Keep
<1>2. Kept /\ store' \in Seq(AnyEntry) /\ Len(store') = Len(store)
  BY <1>1, Parts DEF Kept
<1>3. AppFits'
  BY <1>2, Parts, AppStays
<1>4. CallTypeOK'
  BY <1>1, Parts DEF CallTypeOK
<1>5. CallFits'
  BY <1>1, Parts DEF CallFits
<1>6. BodyFits'
  BY <1>1, <1>2, Parts, BodyStays
<1>7. ParserFits'
  <2>1. ParserIsNew'
    BY <1>1, Parts DEF ParserFits, ParserIsNew, parserVars
  <2>. QED BY <2>1, FreshParserNext
<1>8. QueueFits'
  BY <1>1, Parts DEF QueueFits
<1>9. SpaceFits'
  <2>1. Exact' = Exact
    BY <1>1, ExactStays
  <2>2. body.left >= 0 /\ body.before >= 0 /\ (body.short /\ (target = "store" => pc \in {"compose", "request", "send"}) => ~Exact)
    BY Parts DEF SpaceFits
  <2>3. pc = "validate" => body = NoBody /\ ~body.short
    BY Parts DEF CallFits, NoBody
  <2>4. body'.short /\ (target' = "store" => pc' \in {"compose", "request", "send"}) => ~Exact'
    BY <1>1, <2>1, <2>2, <2>3
  <2>. QED BY <1>1, <2>2, <2>4 DEF SpaceFits
<1>. QED BY <1>1, <1>3, <1>4, <1>5, <1>6, <1>7, <1>8, <1>9, Collected

LEMMA BeginStep ==
    ASSUME IInv, Begin
    PROVE  IInv'
<1>1. /\ pc = "idle" /\ handle # Nothing /\ pc' = "token" /\ op' \in {"exchange", "mapping", "source"}
      /\ target' \in IF op' = "exchange" THEN {"store"} \cup {i \in Names : items[i] # Nothing} ELSE {"none"}
      /\ UNCHANGED <<client, configuration, sets, handle, items, changes, store, careless>>
      /\ UNCHANGED <<body, answer, cause, result, parserVars>>
  BY DEF Begin, appVars
<1>2. AppFits'
  BY <1>1, Parts DEF AppFits, AppTypeOK, HandleFits, ItemsFit, StoreFits
<1>3. CallTypeOK'
  BY <1>1, Parts DEF CallTypeOK
<1>4. body' = NoBody
  BY <1>1, Parts DEF CallFits
<1>5. CallFits'
  <2>1. op' = "exchange" <=> target' # "none"
    BY <1>1, CatalogueAssumption
  <2>2. target' \in Names => items'[target'] # Nothing
    BY <1>1, CatalogueAssumption
  <2>3. body' = NoBody
    BY <1>4
  <2>. QED BY <1>1, <2>1, <2>2, <2>3 DEF CallFits, NoBody
<1>6. BodyFits' /\ QueueFits' /\ SpaceFits'
  BY <1>1, <1>4, FreshBodyNext
<1>7. ParserFits'
  <2>1. ParserIsNew'
    BY <1>1, Parts DEF ParserFits, ParserIsNew, parserVars
  <2>. QED BY <2>1, FreshParserNext
<1>. QED BY <1>1, <1>2, <1>3, <1>5, <1>6, <1>7, Collected

LEMMA GetTokenStep ==
    ASSUME IInv, GetToken
    PROVE  IInv'
<1>1. pc = "token" /\ Keep
  BY DEF GetToken
<1>2. CASE \E code \in {"OUT_OF_MEMORY", "NO_ACCESS_TOKEN_EXISTS"} : Done(code)
  BY <1>1, <1>2, DoneStep
<1>3. CASE GoTo("validate")
  BY <1>1, <1>3, GoToStep
<1>. QED BY <1>2, <1>3 DEF GetToken

LEMMA ValidateStep ==
    ASSUME IInv, Validate
    PROVE  IInv'
<1>1. pc = "validate" /\ Keep
  BY DEF Validate
<1>2. ASSUME NEW code, Done(code)
      PROVE  IInv'
  BY <1>1, <1>2, DoneStep
<1>3. ASSUME GoTo("request")
      PROVE  IInv'
  BY <1>1, <1>3, GoToStep
<1>4. CASE op = "mapping" /\ (Done("INVALID_PARAMETER") \/ GoTo("request"))
  BY <1>2, <1>3, <1>4
<1>5. CASE op = "source" /\ GoTo("request")
  BY <1>3, <1>5
<1>6. CASE /\ op = "exchange" /\ target # "store"
           /\ \E leftover \in BOOLEAN :
                 IF IsValid(items[target], leftover) THEN GoTo("prepare") ELSE Done("INVALID_PARAMETER")
  <2>1. PICK leftover \in BOOLEAN :
            IF IsValid(items[target], leftover) THEN GoTo("prepare") ELSE Done("INVALID_PARAMETER")
    BY <1>6
  <2>2. CASE IsValid(items[target], leftover)
    <3>1. GoTo("prepare") /\ ContentsValid(items[target])
      BY <2>1, <2>2 DEF IsValid
    <3>. QED BY <1>1, <1>6, <3>1, GoToStep
  <2>3. CASE ~IsValid(items[target], leftover)
    BY <1>2, <2>1, <2>3
  <2>. QED BY <2>2, <2>3
<1>7. CASE /\ target = "store"
           /\ IF store = <<>> THEN Done("STORE_IS_EMPTY")
              ELSE IF \A e \in DOMAIN store : Ignored(items[store[e].item])
              THEN Done("ITEM_EXCEEDS_MAX_HTTP_REQUEST_SIZE")
              ELSE GoTo("prepare")
  <2>1. CASE GoTo("prepare")
    <3>1. op = "exchange"
      BY <1>1, <1>7, Parts DEF CallFits
    <3>2. target \notin Names
      BY <1>7, CatalogueAssumption
    <3>. QED BY <1>1, <2>1, <3>1, <3>2, GoToStep
  <2>2. CASE ~GoTo("prepare")
    BY <1>2, <1>7, <2>2
  <2>. QED BY <2>1, <2>2
<1>. QED BY <1>4, <1>5, <1>6, <1>7 DEF Validate

LEMMA PrepareRequestStep ==
    ASSUME IInv, PrepareRequest
    PROVE  IInv'
<1>1. pc = "request" /\ Keep
  BY DEF PrepareRequest
<1>2. /\ handle # Nothing
      /\ handle.agent = client \/ "agent" \in careless
      /\ handle.url \in {Nothing, configuration.url} \/ "url" \in careless
  BY <1>1, Parts DEF CallFits, AppFits, HandleFits
<1>3. CASE op # "exchange" /\ handle.agent # client /\ Crash("agent")
  BY <1>1, <1>2, <1>3, CrashStep
<1>4. CASE Done("OUT_OF_MEMORY")
  BY <1>1, <1>4, DoneStep
<1>5. CASE Done("TRIGGERED_WITH_NULL")
  BY <1>1, <1>5, DoneStep
<1>6. CASE handle.url \notin {Nothing, configuration.url} /\ Crash("url")
  BY <1>1, <1>2, <1>6, CrashStep
<1>7. CASE GoTo("send")
  BY <1>1, <1>7, GoToStep
<1>. QED BY <1>3, <1>4, <1>5, <1>6, <1>7 DEF PrepareRequest

LEMMA SendStep ==
    ASSUME IInv, Send
    PROVE  IInv'
<1>1. pc = "send" /\ Keep
  BY DEF Send
<1>2. CASE \E code \in {"NETWORK_SEND_FAIL", "NETWORK_RECEIVE_FAIL"} : Done(code)
  BY <1>1, <1>2, DoneStep
<1>3. CASE /\ answer' \in {"success", "created", "other"} /\ pc' = "answer"
           /\ UNCHANGED <<items, store, body, cause, result, parserVars>>
  <2>1. UNCHANGED <<op, target, handle, careless>>
    BY <1>1 DEF Keep
  <2>2. Kept /\ store' \in Seq(AnyEntry) /\ Len(store') = Len(store)
    BY <1>3, <2>1, Parts DEF Kept
  <2>3. AppFits'
    BY <1>1, <2>2, Parts, AppStays
  <2>4. CallTypeOK'
    BY <1>3, <2>1, Parts DEF CallTypeOK
  <2>5. CallFits'
    BY <1>1, <1>3, <2>1, Parts DEF CallFits
  <2>6. BodyFits'
    BY <1>3, <2>2, Parts, BodyStays
  <2>7. ParserFits'
    <3>1. ParserIsNew'
      BY <1>1, <1>3, Parts DEF ParserFits, ParserIsNew, parserVars
    <3>. QED BY <3>1, FreshParserNext
  <2>8. QueueFits'
    BY <1>3, Parts DEF QueueFits
  <2>9. SpaceFits'
    <3>1. Exact' = Exact
      BY <1>3, <2>1, ExactStays
    <3>. QED BY <1>1, <1>3, <2>1, <3>1, Parts DEF SpaceFits
  <2>. QED BY <1>3, <2>3, <2>4, <2>5, <2>6, <2>7, <2>8, <2>9, Collected
<1>. QED BY <1>2, <1>3 DEF Send

LEMMA FreshCall ==
    ASSUME AppFits', body' = NoBody, ParserIsNew', pc' = "idle", op' = "none", target' = "none",
           answer' = "none", cause' = "none"
    PROVE  IInv'
<1>1. BodyFits' /\ QueueFits' /\ SpaceFits' /\ body' \in AnyBody
  BY FreshBodyNext
<1>2. ParserTypeOK' /\ StackFits' /\ ParserFits'
  BY FreshParserNext
<1>3. CallTypeOK'
  BY <1>1 DEF CallTypeOK
<1>4. CallFits'
  BY DEF CallFits, NoBody
<1>. QED BY <1>1, <1>2, <1>3, <1>4, TypesAreNext DEF IInv, AppFits

LEMMA FinishStep ==
    ASSUME IInv, Finish
    PROVE  IInv'
<1>1. /\ UNCHANGED <<client, configuration, sets, handle, items, changes, store, careless>>
      /\ body' = NoBody /\ pc' = "idle" /\ op' = "none" /\ target' = "none" /\ answer' = "none" /\ cause' = "none"
      /\ stack' = <<>> /\ raised' = "OK" /\ live' = 0 /\ lost' = 0 /\ parsed' = "none" /\ delivered' = 0
  BY DEF Finish, appVars
<1>2. AppFits'
  BY <1>1, Parts DEF AppFits, AppTypeOK, HandleFits, ItemsFit, StoreFits
<1>3. ParserIsNew'
  BY <1>1 DEF ParserIsNew
<1>. QED BY <1>1, <1>2, <1>3, FreshCall

\* The state the program starts in.
LEMMA FreshState ==
    client = 1 /\ configuration = [core |-> FALSE, url |-> Nothing] /\ sets = 0 /\ handle = Nothing
    /\ items = [i \in Names |-> Nothing] /\ changes = 0 /\ store = <<>> /\ careless = {}
    => AppFits
<1> SUFFICES ASSUME client = 1, configuration = [core |-> FALSE, url |-> Nothing], sets = 0, handle = Nothing,
                    items = [i \in Names |-> Nothing], changes = 0, store = <<>>, careless = {}
             PROVE  AppFits
  OBVIOUS
<1>1. /\ MaxSets \in Nat /\ MaxRotations \in Nat /\ MaxChanges \in Nat /\ MaxEntriesOfStore \in Nat
  BY ConnectivityAssumption
<1>2. DOMAIN store = {} /\ store \in Seq(AnyEntry) /\ Len(store) = 0
  OBVIOUS
<1>3. AppTypeOK
  <2>1. configuration \in [core : BOOLEAN, url : 1..MaxSets \cup {Nothing}]
    OBVIOUS
  <2>2. items \in [Names -> AnyItem \cup {Nothing}]
    OBVIOUS
  <2>. QED BY <1>1, <1>2, <2>1, <2>2 DEF AppTypeOK
<1>4. HandleFits /\ ItemsFit /\ StoreFits
  BY <1>2 DEF HandleFits, ItemsFit, StoreFits
<1>. QED BY <1>3, <1>4 DEF AppFits

LEMMA InitHolds == Init => IInv
<1> SUFFICES ASSUME Init PROVE IInv
  OBVIOUS
<1>1. AppFits
  BY FreshState DEF Init
<1>2. BodyFits /\ QueueFits /\ SpaceFits /\ body \in AnyBody
  BY FreshBody DEF Init
<1>3. ParserTypeOK /\ StackFits /\ ParserFits
  BY FreshParser DEF Init, ParserInit, ParserIsNew
<1>4. CallTypeOK
  BY <1>2 DEF Init, CallTypeOK
<1>5. CallFits
  BY DEF Init, CallFits
<1>. QED BY <1>1, <1>2, <1>3, <1>4, <1>5, TypesAre DEF IInv, AppFits

LEMMA RestartStep ==
    ASSUME Restart
    PROVE  IInv'
<1>1. AppFits'
  <2>1. (client = 1 /\ configuration = [core |-> FALSE, url |-> Nothing] /\ sets = 0 /\ handle = Nothing
         /\ items = [i \in Names |-> Nothing] /\ changes = 0 /\ store = <<>> /\ careless = {} => AppFits)'
    BY FreshState, PTL
  <2>. QED BY <2>1 DEF Restart
<1>2. ParserIsNew'
  BY DEF Restart, ParserIsNew
<1>. QED BY <1>1, <1>2, FreshCall DEF Restart

-----------------------------------------------------------------------------
(* The parser.                                                             *)

LEMMA Pushed ==
    ASSUME NEW frames \in Seq(AnyFrame), NEW f \in AnyFrame
    PROVE  /\ Append(frames, f) \in Seq(AnyFrame) /\ Append(frames, f) # <<>>
           /\ Len(Append(frames, f)) = Len(frames) + 1 /\ Len(frames) \in Nat
           /\ DOMAIN Append(frames, f) = 1..(Len(frames) + 1) /\ DOMAIN frames = 1..Len(frames)
           /\ \A i \in 1..Len(frames) : Append(frames, f)[i] = frames[i]
           /\ Append(frames, f)[Len(frames) + 1] = f
BY SMTT(40), AppendProperties, LenProperties

LEMMA Popped ==
    ASSUME NEW frames \in Seq(AnyFrame), frames # <<>>
    PROVE  /\ Front(frames) \in Seq(AnyFrame) /\ Len(frames) \in Nat \ {0}
           /\ Len(Front(frames)) = Len(frames) - 1 /\ DOMAIN frames = 1..Len(frames)
           /\ \A i \in 1..(Len(frames) - 1) : Front(frames)[i] = frames[i]
           /\ Last(frames) = frames[Len(frames)] /\ Last(frames) \in AnyFrame
           /\ frames = Append(Front(frames), Last(frames))
<1>1. /\ Len(frames) \in Nat \ {0} /\ Last(frames) = frames[Len(frames)] /\ Last(frames) \in AnyFrame
      /\ DOMAIN frames = 1..Len(frames)
  BY LenProperties, EmptySeq DEF Last
<1>2. \A i \in 1..(Len(frames) - 1) : frames[i] \in AnyFrame
  BY <1>1
<1>3. /\ Front(frames) \in Seq(AnyFrame)
      /\ Len(Front(frames)) = IF 1 <= Len(frames) - 1 THEN (Len(frames) - 1) - 1 + 1 ELSE 0
      /\ \A i \in 1..((Len(frames) - 1) - 1 + 1) : Front(frames)[i] = frames[1 + i - 1]
  BY <1>1, <1>2, SubSeqProperties DEF Front
<1>4. Len(Front(frames)) = Len(frames) - 1
  <2> DEFINE n == Len(frames)
             m == Len(Front(frames))
  <2>1. n \in Nat \ {0} /\ m = IF 1 <= n - 1 THEN (n - 1) - 1 + 1 ELSE 0
    BY <1>1, <1>3
  <2> HIDE DEF n, m
  <2>2. m = n - 1
    BY <2>1
  <2>. QED BY SMTT(40), <2>2 DEF n, m
<1>5. \A i \in 1..(Len(frames) - 1) : Front(frames)[i] = frames[i]
  <2> SUFFICES ASSUME NEW i \in 1..(Len(frames) - 1) PROVE Front(frames)[i] = frames[i]
    OBVIOUS
  <2>1. 1 + i - 1 = i /\ i \in 1..((Len(frames) - 1) - 1 + 1)
    BY <1>1
  <2>2. Front(frames)[i] = frames[1 + i - 1]
    BY <1>3, <2>1
  <2>. QED BY <2>1, <2>2
<1>6. frames = Append(Front(frames), Last(frames))
  <2> DEFINE s == Front(frames)
             f == Last(frames)
             n == Len(frames)
             t == Append(s, f)
  <2>1. n \in Nat \ {0} /\ Len(s) = n - 1 /\ \A i \in 1..(n - 1) : s[i] = frames[i]
    BY SMTT(40), <1>1, <1>4, <1>5
  <2>2. s \in Seq(AnyFrame) /\ f \in AnyFrame /\ f = frames[n]
    BY <1>1, <1>3
  <2> HIDE DEF s, f, n
  <2>3. /\ t \in Seq(AnyFrame) /\ Len(t) = Len(s) + 1 /\ t[Len(s) + 1] = f
        /\ \A i \in 1..Len(s) : t[i] = s[i]
    BY <2>2, Pushed
  <2>4. Len(t) = Len(frames) /\ Len(frames) = n
    BY <2>1, <2>3 DEF n
  <2>5. \A i \in 1..n : t[i] = frames[i]
    BY <2>1, <2>2, <2>3
  <2> HIDE DEF t
  <2>6. t = frames
    BY <2>3, <2>4, <2>5, SeqEqual
  <2>. QED BY <2>6 DEF t, s, f
<1>. QED BY ZenonT(40), <1>1, <1>3, <1>4, <1>5, <1>6

LEMMA HeldIsNat ==
    ASSUME NEW frames \in Seq(AnyFrame)
    PROVE  HeldBy(frames) \in Nat /\ [i \in DOMAIN frames |-> frames[i].cells] \in Seq(Nat)
<1>1. DOMAIN frames = 1..Len(frames) /\ Len(frames) \in Nat /\ \A i \in DOMAIN frames : frames[i] \in AnyFrame
  BY DomainIsFinite
<1>2. \A i \in DOMAIN frames : frames[i].cells \in Nat
  BY <1>1 DEF AnyFrame
<1>3. [i \in DOMAIN frames |-> frames[i].cells] \in Seq(Nat)
  BY <1>1, <1>2
<1>. QED BY <1>3, TotalIsNat DEF HeldBy

LEMMA HeldPushed ==
    ASSUME NEW frames \in Seq(AnyFrame), NEW f \in AnyFrame
    PROVE  HeldBy(Append(frames, f)) = HeldBy(frames) + f.cells /\ HeldBy(frames) \in Nat /\ f.cells \in Nat
<1> DEFINE more == Append(frames, f)
           s == [i \in DOMAIN frames |-> frames[i].cells]
           t == [i \in DOMAIN more |-> more[i].cells]
           k == Len(frames)
           x == f.cells
<1>1. /\ k \in Nat /\ DOMAIN more = 1..(k + 1) /\ DOMAIN frames = 1..k /\ \A i \in 1..k : more[i] = frames[i]
      /\ more[k + 1] = f
  BY Pushed
<1>2. x \in Nat
  BY DEF AnyFrame
<1>3. s \in Seq(Nat)
  BY HeldIsNat
<1>4. HeldBy(more) = Total(t) /\ HeldBy(frames) = Total(s)
  BY DEF HeldBy
<1>5. t = Append(s, x)
  <2>1. t = [i \in 1..(k + 1) |-> more[i].cells] /\ s = [i \in 1..k |-> frames[i].cells]
    BY <1>1
  <2>2. Len(s) = k
    BY <1>1, <2>1
  <2>3. Append(s, x) = [i \in 1..(k + 1) |-> IF i = k + 1 THEN x ELSE s[i]]
    <3> HIDE DEF s
    <3>. QED BY <1>1, <1>3, <2>2
  <2>4. \A i \in 1..(k + 1) : more[i].cells = IF i = k + 1 THEN x ELSE s[i]
    BY <1>1, <2>1
  <2> HIDE DEF s, t, more, x
  <2>. QED BY <2>1, <2>3, <2>4
<1> HIDE DEF s, t, more, x
<1>6. s \in Seq(Int) /\ x \in Int
  BY <1>2, <1>3
<1>7. Total(Append(s, x)) = Total(s) + x
  BY <1>6, TotalOfMore
<1>8. HeldBy(more) = HeldBy(frames) + x
  BY <1>4, <1>5, <1>7
<1>. QED BY <1>2, <1>8, HeldIsNat DEF more, x

LEMMA HeldPopped ==
    ASSUME NEW frames \in Seq(AnyFrame), frames # <<>>
    PROVE  /\ HeldBy(frames) = HeldBy(Front(frames)) + Last(frames).cells
           /\ HeldBy(Front(frames)) \in Nat /\ Last(frames).cells \in Nat
<1>1. Front(frames) \in Seq(AnyFrame) /\ Last(frames) \in AnyFrame /\ frames = Append(Front(frames), Last(frames))
  BY Popped
<1>. QED BY <1>1, HeldPushed

LEMMA HeldOfNone == HeldBy(<<>>) = 0
<1>1. [i \in DOMAIN <<>> |-> <<>>[i].cells] = <<>>
  OBVIOUS
<1>. QED BY <1>1, TotalOfNone DEF HeldBy

\* Where the parser is.
LEMMA TopFacts ==
    ASSUME IInv, pc = "parse", stack # <<>>
    PROVE  /\ stack \in Seq(AnyFrame) /\ Len(stack) \in Nat \ {0} /\ DOMAIN stack = 1..Len(stack)
           /\ Top = stack[Len(stack)] /\ Top \in AnyFrame /\ ArrayFits(Top) /\ Top.cells \in Nat
           /\ parsed = "none" /\ delivered = 0 /\ live = lost + Held /\ live \in Nat /\ lost \in Nat
           /\ raised \in {"OK", "NON_EXISTING_CHILD", "TYPE_MISMATCH", "OUT_OF_MEMORY"}
<1>1. stack \in Seq(AnyFrame) /\ live \in Nat /\ lost \in Nat
      /\ raised \in {"OK", "NON_EXISTING_CHILD", "TYPE_MISMATCH", "OUT_OF_MEMORY"}
  BY Parts DEF ParserTypeOK
<1>2. parsed = "none" /\ delivered = 0 /\ live = lost + Held
  BY Parts DEF ParserFits
<1>3. Len(stack) \in Nat \ {0} /\ DOMAIN stack = 1..Len(stack) /\ Top = stack[Len(stack)] /\ Top \in AnyFrame
  BY <1>1, Popped DEF Top
<1>4. ArrayFits(Top)
  BY <1>3, Parts DEF StackFits
<1>5. Top.cells \in Nat
  BY <1>3 DEF AnyFrame
<1>. QED BY <1>1, <1>2, <1>3, <1>4, <1>5

\* A step inside the parser: what it does to the stack decides.
LEMMA InsideParser ==
    ASSUME IInv, Parsing, ParserTypeOK', StackFits',
           IF parsed' = "none" THEN delivered' = 0 /\ live' = lost' + Held' ELSE stack' = <<>> /\ live' = delivered' + lost'
    PROVE  IInv'
<1>1. /\ pc = "parse" /\ pc' = "parse" /\ UNCHANGED <<items, store, body, answer, cause, result>>
      /\ UNCHANGED <<op, target, handle, careless>> /\ Keep
  BY DEF Parsing, Keep
<1>2. Kept /\ store' \in Seq(AnyEntry) /\ Len(store') = Len(store)
  BY <1>1, Parts DEF Kept
<1>3. AppFits'
  BY <1>1, <1>2, Parts, AppStays
<1>4. CallTypeOK'
  BY <1>1, Parts DEF CallTypeOK
<1>5. CallFits'
  BY <1>1, Parts DEF CallFits
<1>6. BodyFits'
  BY <1>1, <1>2, Parts, BodyStays
<1>7. ParserFits'
  BY <1>1 DEF ParserFits
<1>8. QueueFits'
  BY <1>1, Parts DEF QueueFits
<1>9. SpaceFits'
  <2>1. target # "store" => Exact' = Exact
    BY <1>1, ExactStays
  <2>. QED BY <1>1, <2>1, Parts DEF SpaceFits
<1>. QED BY <1>3, <1>4, <1>5, <1>6, <1>7, <1>8, <1>9, TypesAreNext DEF IInv, AppFits

\* The frames of the three kinds.
LEMMA FramesAreTyped ==
    ASSUME NEW kind \in {"configuration", "source", "point"}
    PROVE  Frame(kind) \in AnyFrame /\ ArrayFits(Frame(kind)) /\ Cells(kind) \in Nat /\ Frame(kind).cells = Cells(kind)
<1>1. Cells(kind) \in Nat
  BY DEF Cells
<1>. QED BY <1>1 DEF Frame, AnyFrame, ArrayFits

\* A field or an array changes the innermost frame.
LEMMA SetTopStep ==
    ASSUME IInv, Parsing, stack # <<>>, NEW frame \in AnyFrame, NEW more \in Nat, ArrayFits(frame),
           frame.cells = Top.cells + more, SetTop(frame, more)
    PROVE  IInv'
<1> DEFINE less == Front(stack)
           k == Len(stack)
<1>1. /\ stack' = Append(less, frame) /\ live' = live + more /\ UNCHANGED <<raised, lost, parsed, delivered>>
      /\ pc = "parse"
  BY DEF SetTop, Parsing
<1>2. /\ stack \in Seq(AnyFrame) /\ k \in Nat \ {0} /\ DOMAIN stack = 1..k /\ Top.cells \in Nat
      /\ parsed = "none" /\ delivered = 0 /\ live = lost + Held /\ live \in Nat /\ lost \in Nat
  BY SMTT(40), <1>1, TopFacts
<1>3. /\ less \in Seq(AnyFrame) /\ Len(less) = k - 1 /\ \A i \in 1..(k - 1) : less[i] = stack[i]
  BY ZenonT(40), <1>2, Popped
<1>4. /\ stack' \in Seq(AnyFrame) /\ Len(stack') = k /\ DOMAIN stack' = 1..k
      /\ \A i \in 1..(k - 1) : stack'[i] = stack[i]
      /\ stack'[k] = frame
  <2> HIDE DEF less, k
  <2>1. /\ stack' \in Seq(AnyFrame) /\ Len(stack') = Len(less) + 1 /\ DOMAIN stack' = 1..(Len(less) + 1)
        /\ \A i \in 1..Len(less) : stack'[i] = less[i]
        /\ stack'[Len(less) + 1] = frame
    BY <1>1, <1>3, Pushed
  <2>. QED BY <1>2, <1>3, <2>1
<1>5. Held' = Held + more /\ Held \in Nat
  <2>1. HeldBy(stack') = HeldBy(less) + frame.cells
    BY <1>1, <1>3, HeldPushed
  <2>2. HeldBy(stack) = HeldBy(less) + Top.cells /\ HeldBy(less) \in Nat /\ HeldBy(stack) \in Nat
    BY <1>2, HeldPopped, HeldIsNat DEF Top
  <2>3. Held' = HeldBy(stack') /\ Held = HeldBy(stack)
    BY DEF Held
  <2> HIDE DEF less, k
  <2>. QED BY <1>2, <2>1, <2>2, <2>3
<1>6. ParserTypeOK'
  <2>1. live' \in Nat
    <3>1. live \in Nat /\ live' = live + more
      BY <1>1, <1>2
    <3>. QED BY <3>1
  <2>2. stack' \in Seq(AnyFrame)
    BY <1>4
  <2>. QED BY <1>1, <2>1, <2>2, Parts DEF ParserTypeOK
<1>7. StackFits'
  <2> HIDE DEF less, k
  <2>1. \A i \in 1..k : ArrayFits(stack[i]) /\ (i < k => stack[i].array /\ stack[i].left > 0)
    BY <1>2, Parts DEF StackFits, k
  <2>2. ASSUME NEW i \in 1..k
        PROVE  ArrayFits(stack'[i]) /\ (i < k => stack'[i].array /\ stack'[i].left > 0)
    <3>1. CASE i = k
      BY <1>2, <1>4, <3>1
    <3>2. CASE i \in 1..(k - 1)
      BY <1>2, <1>4, <2>1, <3>2
    <3>. QED BY <1>2, <3>1, <3>2
  <2>. QED BY <1>4, <2>2 DEF StackFits
<1>8. live' = lost' + Held'
  <2>1. Held' = Held + more /\ Held \in Nat /\ live = lost + Held /\ live' = live + more /\ lost' = lost
    BY <1>1, <1>2, <1>5
  <2> HIDE DEF Held
  <2>. QED BY <1>2, <2>1
<1>. QED BY <1>1, <1>2, <1>6, <1>7, <1>8, InsideParser

\* A parser is called for the configuration, or for an entry.
LEMMA EnterStep ==
    ASSUME IInv, Parsing, NEW kind \in {"configuration", "source", "point"}, Enter(kind), parsed = "none",
           stack # <<>> => Top.array /\ Top.left > 0
    PROVE  IInv'
<1> DEFINE k == Len(stack)
           frame == Frame(kind)
           cells == Cells(kind)
<1>1. /\ stack' = Append(stack, frame) /\ live' = live + cells /\ UNCHANGED <<raised, lost, parsed, delivered>>
      /\ pc = "parse"
  BY DEF Enter, Parsing
<1>2. frame \in AnyFrame /\ ArrayFits(frame) /\ cells \in Nat /\ frame.cells = cells
  BY FramesAreTyped
<1> HIDE DEF frame, cells
<1>3. /\ stack \in Seq(AnyFrame) /\ delivered = 0 /\ live = lost + Held /\ live \in Nat /\ lost \in Nat
  BY <1>1, Parts DEF ParserFits, ParserTypeOK
<1>4. /\ stack' \in Seq(AnyFrame) /\ Len(stack') = k + 1 /\ DOMAIN stack' = 1..(k + 1) /\ DOMAIN stack = 1..k
      /\ \A i \in 1..k : stack'[i] = stack[i]
      /\ stack'[k + 1] = frame /\ k \in Nat
  BY <1>1, <1>2, <1>3, Pushed
<1>5. Held' = Held + cells /\ Held \in Nat
  <2>1. HeldBy(stack') = HeldBy(stack) + frame.cells /\ HeldBy(stack) \in Nat
    BY <1>1, <1>2, <1>3, HeldPushed
  <2>. QED BY <1>2, <2>1 DEF Held
<1>6. ParserTypeOK'
  BY <1>1, <1>2, <1>3, <1>4, Parts DEF ParserTypeOK
<1>7. StackFits'
  <2>1. \A i \in 1..k : ArrayFits(stack[i]) /\ (i < k => stack[i].array /\ stack[i].left > 0)
    BY <1>4, Parts DEF StackFits
  <2>2. k \in 1..k => stack[k].array /\ stack[k].left > 0
    <3>1. k \in 1..k => stack # <<>>
      BY <1>4
    <3>2. stack # <<>> => Top = stack[k]
      BY <1>1, TopFacts
    <3>. QED BY <3>1, <3>2
  <2> HIDE DEF k
  <2>3. ASSUME NEW i \in 1..(k + 1)
        PROVE  ArrayFits(stack'[i]) /\ (i < k + 1 => stack'[i].array /\ stack'[i].left > 0)
    <3>1. CASE i = k + 1
      BY <1>2, <1>4, <3>1
    <3>2. CASE i = k
      BY <1>4, <2>1, <2>2, <2>3, <3>2
    <3>3. CASE i \in 1..(k - 1)
      BY <1>4, <2>1, <3>3
    <3>. QED BY <1>4, <3>1, <3>2, <3>3
  <2>. QED BY <1>4, <2>3 DEF StackFits
<1>8. live' = lost' + Held'
  <2>1. Held' = Held + cells /\ Held \in Nat /\ live = lost + Held /\ live' = live + cells /\ lost' = lost
    BY <1>1, <1>3, <1>5
  <2> HIDE DEF Held
  <2>. QED BY <1>2, <1>3, <2>1
<1>. QED BY <1>1, <1>3, <1>6, <1>7, <1>8, InsideParser

LEMMA RaiseStep ==
    ASSUME IInv, Parsing, stack # <<>>, NEW code \in {"NON_EXISTING_CHILD", "TYPE_MISMATCH", "OUT_OF_MEMORY"}, Raise(code)
    PROVE  IInv'
<1>1. raised' = code /\ UNCHANGED <<stack, live, lost, parsed, delivered>> /\ pc = "parse"
  BY DEF Raise, Parsing
<1>2. parsed = "none" /\ delivered = 0 /\ live = lost + Held
  BY <1>1, TopFacts
<1>3. Held' = Held
  BY <1>1 DEF Held
<1>4. ParserTypeOK'
  BY <1>1, Parts DEF ParserTypeOK
<1>5. StackFits'
  BY <1>1, Parts DEF StackFits
<1>6. parsed' = "none" /\ delivered' = 0 /\ live' = lost' + Held'
  BY <1>1, <1>2, <1>3
<1>. QED BY <1>4, <1>5, <1>6, InsideParser

\* The functions of a field.
LEMMA FieldStep ==
    ASSUME IInv, Parsing, ParseValue \/ EnterArray
    PROVE  IInv'
<1>1. stack # <<>> /\ raised = "OK" /\ ~Top.array /\ Top.next <= Len(Fields(Top.kind)) /\ pc = "parse"
  BY DEF ParseValue, EnterArray, AtField, Active, Parsing
<1>2. Top \in AnyFrame /\ Top.cells \in Nat
  BY <1>1, TopFacts
<1>3. Top.next \in Nat \ {0}
  BY <1>2 DEF AnyFrame
<1> DEFINE next == [Top EXCEPT !.next = @ + 1]
<1>4. next \in AnyFrame /\ ArrayFits(next) /\ next.cells = Top.cells
  BY <1>1, <1>2 DEF AnyFrame, ArrayFits
<1>5. CASE ParseValue
  <2> DEFINE more == [next EXCEPT !.cells = @ + 1, !.first = @ /\ Top.next # 1]
  <2>1. more \in AnyFrame /\ ArrayFits(more) /\ more.cells = Top.cells + 1
    <3> HIDE DEF next
    <3>1. more \in AnyFrame /\ more.cells = next.cells + 1 /\ more.array = next.array
      <4>1. PICK b \in BOOLEAN : b = (next.first /\ Top.next # 1)
        OBVIOUS
      <4>2. more = [next EXCEPT !.cells = next.cells + 1, !.first = b]
        BY <4>1
      <4> HIDE DEF more
      <4> DEFINE fuller == [next EXCEPT !.cells = next.cells + 1]
      <4>3. fuller \in AnyFrame /\ fuller.cells = next.cells + 1 /\ fuller.array = next.array
        BY <1>4 DEF AnyFrame
      <4>4. more = [fuller EXCEPT !.first = b]
        BY <1>4, <4>2 DEF AnyFrame
      <4> HIDE DEF fuller
      <4>5. more \in AnyFrame /\ more.cells = fuller.cells /\ more.array = fuller.array
        BY <4>1, <4>3, <4>4 DEF AnyFrame
      <4>. QED BY <4>3, <4>5
    <3>2. next.array = FALSE
      BY <1>1, <1>2 DEF next, AnyFrame
    <3>. QED BY <1>4, <3>1, <3>2 DEF ArrayFits
  <2>2. \/ SetTop(next, 0) \/ SetTop(more, 1)
        \/ \E code \in {"NON_EXISTING_CHILD", "TYPE_MISMATCH", "OUT_OF_MEMORY"} : Raise(code)
    BY <1>5 DEF ParseValue
  <2>3. CASE SetTop(next, 0)
    <3> HIDE DEF next
    <3>1. next.cells = Top.cells + 0
      BY <1>2, <1>4
    <3>. QED BY <1>1, <1>4, <2>3, <3>1, SetTopStep
  <2>4. CASE SetTop(more, 1)
    <3> HIDE DEF more
    <3>. QED BY <1>1, <2>1, <2>4, SetTopStep
  <2>. QED BY <1>1, <2>2, <2>3, <2>4, RaiseStep
<1>6. CASE EnterArray
  <2>1. Field \in DOMAIN Lists
    BY <1>6 DEF EnterArray
  <2>2. CASE \E code \in {"NON_EXISTING_CHILD", "TYPE_MISMATCH", "OUT_OF_MEMORY"} : Raise(code)
    BY <1>1, <2>2, RaiseStep
  <2>3. CASE \E n \in 0..MaxEntries[Lists[Field]] : SetTop([Top EXCEPT !.array = TRUE, !.left = n], 0)
    <3>1. PICK n \in 0..MaxEntries[Lists[Field]] : SetTop([Top EXCEPT !.array = TRUE, !.left = n], 0)
      BY <2>3
    <3> DEFINE frame == [Top EXCEPT !.array = TRUE, !.left = n]
    <3>2. n \in Nat
      <4>1. Lists[Field] \in {"source", "point"}
        BY <2>1 DEF Lists
      <4>. QED BY <3>1, <4>1, MaxEntriesAssumption
    <3>3. frame \in AnyFrame /\ frame.cells = Top.cells /\ frame.kind = Top.kind /\ frame.next = Top.next
      BY <1>2, <3>2 DEF AnyFrame
    <3>4. Top.next \in DOMAIN Fields(Top.kind)
      <4>2. Top.kind \in {"configuration", "source", "point"}
        BY <1>2 DEF AnyFrame
      <4>3. Len(Fields(Top.kind)) \in Nat /\ DOMAIN Fields(Top.kind) = 1..Len(Fields(Top.kind))
        <5>1. CASE Top.kind = "configuration"
          BY <5>1 DEF Fields
        <5>2. CASE Top.kind = "source"
          BY <5>2 DEF Fields
        <5>3. CASE Top.kind = "point"
          BY <5>3 DEF Fields
        <5>. QED BY <4>2, <5>1, <5>2, <5>3
      <4>. QED BY <1>1, <1>3, <4>3
    <3>5. ArrayFits(frame)
      BY <2>1, <3>3, <3>4 DEF ArrayFits, Field
    <3> HIDE DEF frame
    <3>6. frame.cells = Top.cells + 0
      BY <1>2, <3>3
    <3>. QED BY <1>1, <3>1, <3>3, <3>5, <3>6, SetTopStep DEF frame
  <2>. QED BY <1>6, <2>2, <2>3 DEF EnterArray
<1>. QED BY <1>5, <1>6

LEMMA ListsOfTop ==
    ASSUME IInv, pc = "parse", stack # <<>>, Top.array
    PROVE  Field \in DOMAIN Lists /\ Lists[Field] \in {"configuration", "source", "point"}
<1>1. ArrayFits(Top)
  BY TopFacts
<1>. QED BY <1>1 DEF ArrayFits, Field, Lists

LEMMA EnterEntryStep ==
    ASSUME IInv, Parsing, EnterEntry
    PROVE  IInv'
<1>1. stack # <<>> /\ Top.array /\ Top.left > 0 /\ pc = "parse"
  BY DEF EnterEntry, Active, Parsing
<1>2. CASE Raise("OUT_OF_MEMORY")
  BY <1>1, <1>2, RaiseStep
<1>3. CASE Enter(Lists[Field])
  <2> DEFINE kind == Lists[Field]
  <2>1. kind \in {"configuration", "source", "point"} /\ Enter(kind) /\ parsed = "none"
    BY <1>1, <1>3, ListsOfTop, TopFacts
  <2> HIDE DEF kind
  <2>. QED BY <1>1, <2>1, EnterStep
<1>. QED BY <1>2, <1>3 DEF EnterEntry

LEMMA LeaveArrayStep ==
    ASSUME IInv, Parsing, LeaveArray
    PROVE  IInv'
<1>1. stack # <<>> /\ pc = "parse" /\ SetTop([Top EXCEPT !.array = FALSE, !.next = @ + 1], 0)
  BY DEF LeaveArray, Active, Parsing
<1>2. Top \in AnyFrame /\ Top.cells \in Nat
  BY <1>1, TopFacts
<1> DEFINE frame == [Top EXCEPT !.array = FALSE, !.next = @ + 1]
<1>3. frame \in AnyFrame /\ frame.cells = Top.cells /\ ~frame.array
  <2> DEFINE one == [Top EXCEPT !.array = FALSE]
             two == [one EXCEPT !.next = Top.next + 1]
  <2>1. Top.next \in Nat \ {0} /\ frame = two
    BY <1>2 DEF AnyFrame
  <2> HIDE DEF frame
  <2>2. one \in AnyFrame /\ one.cells = Top.cells /\ one.array = FALSE
    BY <1>2 DEF AnyFrame
  <2> HIDE DEF one
  <2>3. two \in AnyFrame /\ two.cells = one.cells /\ two.array = one.array
    BY <2>1, <2>2 DEF AnyFrame
  <2>. QED BY <2>1, <2>2, <2>3
<1> HIDE DEF frame
<1>4. ArrayFits(frame) /\ frame.cells = Top.cells + 0
  BY <1>2, <1>3 DEF ArrayFits
<1>. QED BY <1>1, <1>3, <1>4, SetTopStep DEF frame

\* The innermost function returns, and what it held is freed, delivered or lost.
LEMMA LeaveFacts ==
    ASSUME IInv, pc = "parse", stack # <<>>
    PROVE  /\ Front(stack) \in Seq(AnyFrame) /\ Held = HeldBy(Front(stack)) + Top.cells
           /\ HeldBy(Front(stack)) \in Nat /\ Len(Front(stack)) = Len(stack) - 1
           /\ \A i \in 1..(Len(stack) - 1) :
                 Front(stack)[i] = stack[i] /\ ArrayFits(stack[i]) /\ stack[i].array /\ stack[i].left > 0
<1>1. stack \in Seq(AnyFrame) /\ Len(stack) \in Nat \ {0} /\ DOMAIN stack = 1..Len(stack)
  BY SMTT(40), TopFacts
<1>2. /\ Front(stack) \in Seq(AnyFrame) /\ Len(Front(stack)) = Len(stack) - 1
      /\ \A i \in 1..(Len(stack) - 1) : Front(stack)[i] = stack[i]
  BY ZenonT(40), <1>1, Popped
<1>3. Held = HeldBy(Front(stack)) + Top.cells /\ HeldBy(Front(stack)) \in Nat
  BY <1>1, HeldPopped DEF Held, Top
<1>4. \A i \in 1..(Len(stack) - 1) : ArrayFits(stack[i]) /\ stack[i].array /\ stack[i].left > 0
  <2> DEFINE k == Len(stack)
  <2>1. \A i \in 1..k : ArrayFits(stack[i]) /\ (i < k => stack[i].array /\ stack[i].left > 0)
    BY <1>1, Parts DEF StackFits
  <2>2. \A i \in 1..(k - 1) : i \in 1..k /\ i < k
    BY <1>1
  <2> HIDE DEF k
  <2>3. \A i \in 1..(k - 1) : ArrayFits(stack[i]) /\ stack[i].array /\ stack[i].left > 0
    BY <2>1, <2>2
  <2>. QED BY <2>3 DEF k
<1>. QED BY <1>2, <1>3, <1>4

LEMMA FrontFits ==
    ASSUME IInv, pc = "parse", stack # <<>>, stack' = Front(stack)
    PROVE  stack' \in Seq(AnyFrame) /\ StackFits'
<1> DEFINE k == Len(stack)
<1>1. /\ stack' \in Seq(AnyFrame) /\ Len(stack') = k - 1 /\ k \in Nat \ {0}
      /\ \A i \in 1..(k - 1) : stack'[i] = stack[i] /\ ArrayFits(stack[i]) /\ stack[i].array /\ stack[i].left > 0
  BY LeaveFacts, TopFacts
<1>2. DOMAIN stack' = 1..Len(stack')
  BY <1>1, LenProperties
<1> HIDE DEF k
<1>3. DOMAIN stack' = 1..(k - 1)
  BY <1>1, <1>2
<1>4. \A i \in DOMAIN stack' : ArrayFits(stack'[i]) /\ stack'[i].array /\ stack'[i].left > 0
  BY <1>1, <1>3
<1>. QED BY <1>1, <1>4 DEF StackFits

LEMMA EntryLostStep ==
    ASSUME IInv, Parsing, EntryLost
    PROVE  IInv'
<1>1. /\ stack # <<>> /\ pc = "parse" /\ stack' = Front(stack) /\ raised' = "OUT_OF_MEMORY"
      /\ lost' = lost + Top.cells /\ UNCHANGED <<live, parsed, delivered>>
  BY DEF EntryLost, Complete, Active, Parsing
<1>2. /\ Top.cells \in Nat /\ parsed = "none" /\ delivered = 0 /\ live = lost + Held /\ live \in Nat /\ lost \in Nat
  BY <1>1, TopFacts
<1>3. Held = HeldBy(Front(stack)) + Top.cells /\ HeldBy(Front(stack)) \in Nat
  BY <1>1, LeaveFacts
<1>4. stack' \in Seq(AnyFrame) /\ StackFits'
  BY <1>1, FrontFits
<1>5. ParserTypeOK'
  <2>1. lost' \in Nat
    BY <1>1, <1>2
  <2>. QED BY <1>1, <1>4, <2>1, Parts DEF ParserTypeOK
<1>6. Held' = HeldBy(Front(stack))
  BY <1>1 DEF Held
<1>7. live' = lost' + Held'
  <2> DEFINE old == HeldBy(Front(stack))
  <2>1. /\ Held = old + Top.cells /\ old \in Nat /\ live = lost + Held /\ live' = live /\ lost' = lost + Top.cells
        /\ Held' = old
    BY <1>1, <1>2, <1>3, <1>6
  <2> HIDE DEF old, Held
  <2>. QED BY <1>2, <2>1
<1>. QED BY <1>1, <1>2, <1>4, <1>5, <1>7, InsideParser

LEMMA UnwindStep ==
    ASSUME IInv, Parsing, Unwind
    PROVE  IInv'
<1>1. /\ stack # <<>> /\ raised # "OK" /\ pc = "parse" /\ stack' = Front(stack) /\ live' = live - Top.cells
      /\ IF Len(stack) > 1 THEN UNCHANGED <<raised, parsed>> ELSE parsed' = raised /\ raised' = "OK"
      /\ UNCHANGED <<lost, delivered>>
  BY DEF Unwind, Freed, Parsing
<1>2. /\ Top.cells \in Nat /\ parsed = "none" /\ delivered = 0 /\ live = lost + Held /\ live \in Nat /\ lost \in Nat
      /\ raised \in {"NON_EXISTING_CHILD", "TYPE_MISMATCH", "OUT_OF_MEMORY"} /\ Len(stack) \in Nat \ {0}
  BY <1>1, TopFacts
<1>3. Held = HeldBy(Front(stack)) + Top.cells /\ HeldBy(Front(stack)) \in Nat /\ Len(Front(stack)) = Len(stack) - 1
  BY <1>1, LeaveFacts
<1>4. stack' \in Seq(AnyFrame) /\ StackFits'
  BY <1>1, FrontFits
<1>5. Held' = HeldBy(Front(stack))
  BY <1>1 DEF Held
<1>6. live' = lost' + Held' /\ Held' \in Nat
  <2> DEFINE old == HeldBy(Front(stack))
  <2>1. /\ Held = old + Top.cells /\ old \in Nat /\ live = lost + Held /\ live' = live - Top.cells /\ lost' = lost
        /\ Held' = old
    BY <1>1, <1>2, <1>3, <1>5
  <2> HIDE DEF old, Held
  <2>. QED BY SMTT(40), <1>2, <2>1
<1>7. ParserTypeOK'
  <2>1. live' \in Nat
    <3>1. lost' \in Nat
      BY <1>1, <1>2
    <3>2. live' = lost' + Held' /\ Held' \in Nat
      BY <1>6
    <3> DEFINE x == lost'
               y == Held'
    <3>3. x \in Nat /\ y \in Nat /\ live' = x + y
      BY <3>1, <3>2
    <3> HIDE DEF x, y
    <3>. QED BY <3>3
  <2>2. /\ raised' \in {"OK", "NON_EXISTING_CHILD", "TYPE_MISMATCH", "OUT_OF_MEMORY"}
        /\ parsed' \in {"none", "NON_EXISTING_CHILD", "TYPE_MISMATCH", "OUT_OF_MEMORY"}
    BY <1>1, <1>2
  <2>. QED BY <1>1, <1>4, <2>1, <2>2, Parts DEF ParserTypeOK
<1>8. CASE Len(stack) > 1
  BY <1>1, <1>2, <1>4, <1>6, <1>7, <1>8, InsideParser
<1>9. CASE ~(Len(stack) > 1)
  <2>1. parsed' # "none"
    BY <1>1, <1>2, <1>9
  <2>2. Len(stack) = 1 /\ Len(stack') = 0
    BY SMTT(40), <1>1, <1>2, <1>3, <1>9
  <2>3. stack' = <<>>
    BY <1>4, <2>2, EmptySeq
  <2>4. Held' = 0
    BY <2>3, HeldOfNone DEF Held
  <2>5. live' = delivered' + lost'
    <3>1. live' = lost' + Held' /\ lost' = lost /\ delivered' = 0 /\ lost \in Nat /\ Held' = 0
      BY <1>1, <1>2, <1>6, <2>4
    <3> HIDE DEF Held
    <3>. QED BY <3>1
  <2>. QED BY <1>4, <1>7, <2>1, <2>3, <2>5, InsideParser
<1>. QED BY <1>8, <1>9

\* What waits below the innermost function: its parent, and the rest.
LEMMA ParentFacts ==
    ASSUME NEW frames \in Seq(AnyFrame), Len(frames) > 1
    PROVE  /\ SubSeq(frames, 1, Len(frames) - 2) \in Seq(AnyFrame)
           /\ Len(SubSeq(frames, 1, Len(frames) - 2)) = Len(frames) - 2
           /\ \A i \in 1..(Len(frames) - 2) : SubSeq(frames, 1, Len(frames) - 2)[i] = frames[i]
           /\ frames[Len(frames) - 1] \in AnyFrame
           /\ Front(frames) = Append(SubSeq(frames, 1, Len(frames) - 2), frames[Len(frames) - 1])
<1> DEFINE n == Len(frames)
           s == SubSeq(frames, 1, n - 2)
           f == frames[n - 1]
           t == Append(s, f)
<1>1. n \in Nat /\ n > 1 /\ DOMAIN frames = 1..n /\ \A i \in DOMAIN frames : frames[i] \in AnyFrame
  BY LenProperties
<1> HIDE DEF n
<1>2. f \in AnyFrame
  BY <1>1
<1>3. \A i \in 1..(n - 2) : frames[i] \in AnyFrame
  BY <1>1
<1>4. /\ s \in Seq(AnyFrame)
      /\ Len(s) = IF 1 <= n - 2 THEN (n - 2) - 1 + 1 ELSE 0
      /\ \A i \in 1..((n - 2) - 1 + 1) : s[i] = frames[1 + i - 1]
  <2>1. n - 2 \in Int /\ 1 \in Int
    BY <1>1
  <2>. QED BY <1>3, <2>1, SubSeqProperties
<1>5. Len(s) = n - 2
  <2> DEFINE m == Len(s)
  <2>1. m = IF 1 <= n - 2 THEN (n - 2) - 1 + 1 ELSE 0
    BY <1>4
  <2> HIDE DEF m
  <2>2. m = n - 2
    BY <1>1, <2>1
  <2>. QED BY <2>2 DEF m
<1>6. ASSUME NEW i \in 1..(n - 2)
      PROVE  s[i] = frames[i]
  <2>1. 1 + i - 1 = i /\ i \in 1..((n - 2) - 1 + 1)
    BY <1>1
  <2>2. s[i] = frames[1 + i - 1]
    BY <1>4, <2>1
  <2>. QED BY <2>1, <2>2
<1>7. /\ Front(frames) \in Seq(AnyFrame) /\ Len(Front(frames)) = n - 1
      /\ \A i \in 1..(n - 1) : Front(frames)[i] = frames[i]
  <2>1. frames # <<>>
    BY <1>1 DEF n
  <2>. QED BY <2>1, Popped DEF n
<1>8. Front(frames) = t
  <2> HIDE DEF s, f
  <2>1. /\ t \in Seq(AnyFrame) /\ Len(t) = Len(s) + 1 /\ t[Len(s) + 1] = f
        /\ \A i \in 1..Len(s) : t[i] = s[i]
    BY <1>2, <1>4, Pushed
  <2> HIDE DEF t
  <2>2. Len(t) = n - 1 /\ t[n - 1] = f /\ \A i \in 1..(n - 2) : t[i] = s[i]
    BY <1>1, <1>5, <2>1
  <2>3. ASSUME NEW i \in 1..(n - 1)
        PROVE  Front(frames)[i] = t[i]
    <3>1. CASE i = n - 1
      BY <1>1, <1>7, <2>2, <3>1 DEF f
    <3>2. CASE i \in 1..(n - 2)
      BY <1>1, <1>6, <1>7, <2>2, <3>2
    <3>. QED BY <1>1, <3>1, <3>2
  <2>. QED BY <1>7, <2>1, <2>2, <2>3, SeqEqual
<1>. QED BY <1>2, <1>4, <1>5, <1>6, <1>8 DEF n

LEMMA AddEntryStep ==
    ASSUME IInv, Parsing, AddEntry
    PROVE  IInv'
<1> DEFINE k == Len(stack)
           less == SubSeq(stack, 1, k - 2)
           parent == stack[k - 1]
           frame == [parent EXCEPT !.left = @ - 1, !.cells = @ + Top.cells + 1]
<1>1. /\ stack # <<>> /\ k > 1 /\ pc = "parse" /\ stack' = Append(less, frame) /\ live' = live + 1
      /\ UNCHANGED <<raised, lost, parsed, delivered>>
  BY DEF AddEntry, Complete, Active, Parsing
<1>2. /\ stack \in Seq(AnyFrame) /\ k \in Nat \ {0} /\ DOMAIN stack = 1..k /\ Top.cells \in Nat
      /\ parsed = "none" /\ delivered = 0 /\ live = lost + Held /\ live \in Nat /\ lost \in Nat
  BY <1>1, TopFacts
<1>3. /\ less \in Seq(AnyFrame) /\ Len(less) = k - 2 /\ \A i \in 1..(k - 2) : less[i] = stack[i]
      /\ parent \in AnyFrame /\ Front(stack) = Append(less, parent)
  BY <1>1, <1>2, ParentFacts
<1>4. \A i \in 1..(k - 1) : ArrayFits(stack[i]) /\ stack[i].array /\ stack[i].left > 0
  BY <1>1, LeaveFacts
<1>5. ArrayFits(parent) /\ parent.array /\ parent.left > 0
  BY <1>1, <1>2, <1>4
<1>6. parent.left \in Nat /\ parent.cells \in Nat
  BY <1>3 DEF AnyFrame
<1>7. frame \in AnyFrame /\ ArrayFits(frame) /\ frame.cells = parent.cells + (Top.cells + 1)
  <2> DEFINE x == parent.left - 1
             y == parent.cells + Top.cells + 1
             one == [parent EXCEPT !.left = x]
             two == [one EXCEPT !.cells = y]
  <2>1. x \in Nat /\ y \in Nat /\ y = parent.cells + (Top.cells + 1)
    BY SMTT(40), <1>2, <1>5, <1>6
  <2> HIDE DEF parent
  <2>2. frame = two
    BY <1>3 DEF AnyFrame
  <2> HIDE DEF x, y, frame
  <2>3. one \in AnyFrame /\ one.array = parent.array /\ one.next = parent.next /\ one.kind = parent.kind
    BY <1>3, <2>1 DEF AnyFrame
  <2> HIDE DEF one
  <2>4. two \in AnyFrame /\ two.array = one.array /\ two.next = one.next /\ two.kind = one.kind /\ two.cells = y
    BY <2>1, <2>3 DEF AnyFrame
  <2> HIDE DEF two
  <2>5. ArrayFits(two)
    BY <1>5, <2>3, <2>4 DEF ArrayFits
  <2>6. two.cells = parent.cells + (Top.cells + 1)
    BY <2>1, <2>4
  <2>. QED BY <2>2, <2>4, <2>5, <2>6
<1> HIDE DEF frame
<1>8. Held' = Held + 1 /\ Held \in Nat
  <2> DEFINE old == HeldBy(less)
             x == parent.cells
             y == Top.cells
  <2>1. HeldBy(stack') = old + frame.cells /\ HeldBy(Front(stack)) = old + x /\ old \in Nat
    BY <1>1, <1>3, <1>7, HeldPushed
  <2>2. Held = HeldBy(Front(stack)) + y
    BY <1>1, LeaveFacts
  <2>3. Held' = HeldBy(stack')
    BY DEF Held
  <2>4. x \in Nat /\ y \in Nat /\ frame.cells = x + (y + 1)
    BY <1>2, <1>6, <1>7
  <2> HIDE DEF old, x, y, Held
  <2>. QED BY <2>1, <2>2, <2>3, <2>4
<1>9. /\ stack' \in Seq(AnyFrame) /\ DOMAIN stack' = 1..(k - 1) /\ Len(stack') = k - 1 /\ stack'[k - 1] = frame
      /\ \A i \in 1..(k - 2) : stack'[i] = stack[i]
  <2> HIDE DEF less, k
  <2>1. /\ stack' \in Seq(AnyFrame) /\ DOMAIN stack' = 1..(Len(less) + 1) /\ Len(stack') = Len(less) + 1
        /\ stack'[Len(less) + 1] = frame /\ \A i \in 1..Len(less) : stack'[i] = less[i]
    BY <1>1, <1>3, <1>7, Pushed
  <2>2. Len(less) + 1 = k - 1 /\ Len(less) = k - 2
    BY <1>2, <1>3
  <2>. QED BY <1>3, <2>1, <2>2
<1>10. ParserTypeOK'
  <2>1. live' \in Nat
    <3>1. live \in Nat /\ live' = live + 1
      BY <1>1, <1>2
    <3>. QED BY <3>1
  <2>. QED BY <1>1, <1>9, <2>1, Parts DEF ParserTypeOK
<1>11. StackFits'
  <2> HIDE DEF less, k
  <2>1. ASSUME NEW i \in 1..(k - 1)
        PROVE  ArrayFits(stack'[i]) /\ (i < k - 1 => stack'[i].array /\ stack'[i].left > 0)
    <3>1. CASE i = k - 1
      BY <1>2, <1>7, <1>9, <3>1
    <3>2. CASE i \in 1..(k - 2)
      BY <1>2, <1>4, <1>9, <2>1, <3>2
    <3>. QED BY <1>2, <3>1, <3>2
  <2>. QED BY <1>9, <2>1 DEF StackFits
<1>12. live' = lost' + Held'
  <2>1. Held' = Held + 1 /\ Held \in Nat /\ live = lost + Held /\ live' = live + 1 /\ lost' = lost
    BY <1>1, <1>2, <1>8
  <2> HIDE DEF Held
  <2>. QED BY <1>2, <2>1
<1>. QED BY <1>1, <1>2, <1>10, <1>11, <1>12, InsideParser

LEMMA DeliverStep ==
    ASSUME IInv, Parsing, Deliver
    PROVE  IInv'
<1>1. /\ stack # <<>> /\ Len(stack) = 1 /\ pc = "parse" /\ parsed' = "OK" /\ delivered' = Top.cells /\ stack' = <<>>
      /\ UNCHANGED <<raised, live, lost>>
  BY DEF Deliver, Complete, Active, Parsing
<1>2. /\ Top.cells \in Nat /\ live = lost + Held /\ live \in Nat /\ lost \in Nat
  BY <1>1, TopFacts
<1>3. /\ Held = HeldBy(Front(stack)) + Top.cells /\ Front(stack) \in Seq(AnyFrame) /\ Len(Front(stack)) = Len(stack) - 1
  BY <1>1, LeaveFacts
<1>4. Front(stack) = <<>>
  <2>1. Len(Front(stack)) = 0
    BY <1>1, <1>3
  <2>. QED BY <1>3, <2>1, EmptySeq
<1>5. Held = Top.cells
  <2>1. Held = 0 + Top.cells
    BY <1>3, <1>4, HeldOfNone
  <2>. QED BY <1>2, <2>1
<1>6. live' = delivered' + lost'
  <2>1. live' = lost + Top.cells /\ delivered' = Top.cells /\ lost' = lost
    BY <1>1, <1>2, <1>5
  <2>. QED BY <1>2, <2>1
<1>7. ParserTypeOK' /\ StackFits'
  <2>1. stack' \in Seq(AnyFrame) /\ DOMAIN stack' = {}
    BY <1>1
  <2>2. ParserTypeOK'
    BY <1>1, <1>2, <2>1, Parts DEF ParserTypeOK
  <2>. QED BY <2>1, <2>2 DEF StackFits
<1>. QED BY <1>1, <1>6, <1>7, InsideParser

LEMMA ParseStep ==
    ASSUME IInv, Parse
    PROVE  IInv'
<1>1. stack = <<>> /\ parsed = "none" /\ Parsing /\ pc = "parse"
  BY DEF Parse, Parsing
<1>2. ASSUME NEW code \in {"TRIGGERED_WITH_NULL", "FAIL", "OUT_OF_MEMORY"},
             parsed' = code, UNCHANGED <<stack, raised, live, lost, delivered>>
      PROVE  IInv'
  <2>1. delivered = 0 /\ live = lost + Held /\ live \in Nat /\ lost \in Nat
    BY <1>1, Parts DEF ParserFits, ParserTypeOK
  <2>2. Held = 0
    BY <1>1, HeldOfNone DEF Held
  <2>3. live' = delivered' + lost'
    <3>1. live = lost + 0
      BY <2>1, <2>2
    <3>. QED BY <1>2, <2>1, <3>1
  <2>4. ParserTypeOK' /\ StackFits'
    BY <1>2, Parts DEF ParserTypeOK, StackFits
  <2>. QED BY <1>1, <1>2, <2>3, <2>4, InsideParser
<1>3. CASE Enter("configuration")
  BY <1>1, <1>3, EnterStep
<1>. QED BY <1>2, <1>3 DEF Parse, StartParser

LEMMA ParseOnStep ==
    ASSUME IInv, ParseOn
    PROVE  IInv'
<1>1. Parsing /\ ParserStep
  BY DEF ParseOn
<1>. QED
  BY <1>1, FieldStep, EnterEntryStep, LeaveArrayStep, AddEntryStep, EntryLostStep, UnwindStep, DeliverStep
     DEF ParserStep

LEMMA CorruptedStep ==
    ASSUME IInv, Corrupted
    PROVE  IInv'
<1>1. pc = "parse" /\ Crash("parser") /\ Keep
  BY DEF Corrupted
<1>. QED BY <1>1, CrashStep

LEMMA ParsedStep ==
    ASSUME IInv, Parsed
    PROVE  IInv'
<1>1. pc = "parse" /\ parsed # "none" /\ Done(parsed) /\ Keep
  BY DEF Parsed
<1>. QED BY <1>1, DoneStep

-----------------------------------------------------------------------------
(* The body.                                                               *)

\* Sizes of an item that is complete enough to be sized.
LEMMA SizesAreTyped ==
    ASSUME NEW item \in AnyItem, ContentsValid(item)
    PROVE  /\ item.contentType \in Nat /\ item.drift \in Int /\ TupleSize(item) \in Nat
           /\ WrittenMeta(item) \in Nat /\ WrittenPayload(item) \in Nat
           /\ \A step \in 1..20 : Needed(step, item) \in Nat
           /\ Needed(1, item) <= TupleSize(item)
<1> DEFINE c == item.contentType
           m == WrittenMeta(item)
           p == WrittenPayload(item)
           z == ItemSize(item)
<1>1. m \in Nat /\ p \in Nat /\ z \in Nat /\ m + p <= z
  BY EstimateSuffices
<1>2. c \in Nat /\ item.drift \in Int
  BY DEF AnyItem, AnyEvent, AnyTimeseries, AnyFile, AnyCustom, AnyConfiguration
<1>3. TupleSize(item) = 247 + z + c
  BY DEF TupleSize
<1>4. \A step : Needed(step, item) =
        SpacesFrom[step] + (IF step <= MetaStep THEN m ELSE 0) + (IF step <= ContentTypeStep THEN c ELSE 0)
        + (IF step <= PayloadStep THEN p ELSE 0)
  BY DEF Needed
<1> HIDE DEF c, m, p, z
<1>5. \A step \in 1..20 : SpacesFrom[step] \in Nat
  BY DEF SpacesFrom
<1>6. \A step \in 1..20 : Needed(step, item) \in Nat
  <2> SUFFICES ASSUME NEW step \in 1..20 PROVE Needed(step, item) \in Nat
    OBVIOUS
  <2> DEFINE s == SpacesFrom[step]
             x == IF step <= MetaStep THEN m ELSE 0
             y == IF step <= ContentTypeStep THEN c ELSE 0
             w == IF step <= PayloadStep THEN p ELSE 0
  <2>1. s \in Nat /\ x \in Nat /\ y \in Nat /\ w \in Nat /\ Needed(step, item) = s + x + y + w
    BY <1>1, <1>2, <1>4, <1>5
  <2> HIDE DEF s, x, y, w
  <2>. QED BY <2>1
<1>7. Needed(1, item) = 247 + m + c + p
  <2>1. SpacesFrom[1] = 247 /\ 1 <= MetaStep /\ 1 <= ContentTypeStep /\ 1 <= PayloadStep
    BY DEF SpacesFrom, MetaStep, ContentTypeStep, PayloadStep
  <2>. QED BY <1>4, <2>1
<1>8. TupleSize(item) \in Nat /\ Needed(1, item) <= TupleSize(item)
  BY <1>1, <1>2, <1>3, <1>7
<1>. QED BY <1>1, <1>2, <1>6, <1>8 DEF c, m, p

\* What a step writes of an item that has not grown is what it needs.
LEMMA NeededStep ==
    ASSUME NEW item \in AnyItem, ContentsValid(item), item.drift <= 0, "contentType" \notin item.lacks,
           NEW step \in 1..19
    PROVE  /\ Written(step, item) \in Int /\ Needed(step, item) \in Nat /\ Needed(step + 1, item) \in Nat
           /\ Needed(step, item) >= Written(step, item) + Needed(step + 1, item)
           /\ step = PayloadStep => Needed(step, item) > Written(step, item)
<1> DEFINE c == item.contentType
           m == WrittenMeta(item)
           p == WrittenPayload(item)
           d == item.drift
<1>1. m \in Nat /\ p \in Nat /\ c \in Nat /\ d \in Int /\ d <= 0
  BY SizesAreTyped
<1>2. \A k : Needed(k, item) =
        SpacesFrom[k] + (IF k <= 11 THEN m ELSE 0) + (IF k <= 15 THEN c ELSE 0) + (IF k <= 17 THEN p ELSE 0)
  BY DEF Needed, MetaStep, ContentTypeStep, PayloadStep
<1>3. /\ step = 11 => Written(step, item) = m
      /\ step = 15 => Written(step, item) = c
      /\ step = 17 => Written(step, item) = p + d
      /\ step \notin {11, 15, 17} => Written(step, item) = Spaces[step]
  BY DEF Written, MetaStep, ContentTypeStep, PayloadStep
<1>4. step + 1 \in 1..20 /\ step \in 1..20
  OBVIOUS
<1>5. Needed(step, item) \in Nat /\ Needed(step + 1, item) \in Nat
  BY <1>4, SizesAreTyped
<1> HIDE DEF c, m, p, d
<1>6. /\ SpacesFrom[step] \in Nat /\ SpacesFrom[step + 1] \in Nat /\ Spaces[step] \in Nat
      /\ step \notin {11, 15, 17} => SpacesFrom[step] = Spaces[step] + SpacesFrom[step + 1]
      /\ step \in {11, 15, 17} => SpacesFrom[step] = SpacesFrom[step + 1] /\ SpacesFrom[step] >= 28
  BY <1>4 DEF SpacesFrom, Spaces
<1> DEFINE s == SpacesFrom[step]
           t == SpacesFrom[step + 1]
           u == Spaces[step]
           w == Written(step, item)
           x == Needed(step, item)
           y == Needed(step + 1, item)
<1>7. /\ x = s + (IF step <= 11 THEN m ELSE 0) + (IF step <= 15 THEN c ELSE 0) + (IF step <= 17 THEN p ELSE 0)
      /\ y = t + (IF step + 1 <= 11 THEN m ELSE 0) + (IF step + 1 <= 15 THEN c ELSE 0)
               + (IF step + 1 <= 17 THEN p ELSE 0)
  BY <1>2
<1>8. /\ s \in Nat /\ t \in Nat /\ u \in Nat
      /\ step \notin {11, 15, 17} => s = u + t /\ w = u
      /\ step \in {11, 15, 17} => s = t /\ s >= 28
      /\ step = 11 => w = m
      /\ step = 15 => w = c
      /\ step = 17 => w = p + d
  BY <1>3, <1>6
<1> HIDE DEF s, t, u, w, x, y
<1>9. w \in Int /\ x >= w + y /\ (step = 17 => x > w)
  <2>1. CASE step = 11
    BY <1>1, <1>7, <1>8, <2>1
  <2>2. CASE step = 15
    BY <1>1, <1>7, <1>8, <2>2
  <2>3. CASE step = 17
    BY <1>1, <1>7, <1>8, <2>3
  <2>4. CASE step \notin {11, 15, 17}
    <3>1. x = u + y /\ w = u
      <4>1. CASE step < 11
        BY <1>1, <1>7, <1>8, <2>4, <4>1
      <4>2. CASE step \in 12..14
        BY <1>1, <1>7, <1>8, <2>4, <4>2
      <4>3. CASE step = 16
        BY <1>1, <1>7, <1>8, <2>4, <4>3
      <4>4. CASE step > 17
        BY <1>1, <1>7, <1>8, <2>4, <4>4
      <4>. QED BY <2>4, <4>1, <4>2, <4>3, <4>4
    <3>2. y \in Nat
      BY <1>5 DEF y
    <3>. QED BY <1>8, <2>4, <3>1, <3>2
  <2>. QED BY <2>1, <2>2, <2>3, <2>4
<1>. QED BY <1>5, <1>9 DEF w, x, y, PayloadStep

IsAscending(queue) == \A j, k \in DOMAIN queue : j < k => queue[j] < queue[k]
Behind(queue) == SumFunctionOnSet(SizeOf, Entries(queue) \ {Head(queue)})

\* The entries after the first.
LEMMA RestOfQueue ==
    ASSUME NEW queue \in Seq(Nat), queue # <<>>, IsAscending(queue)
    PROVE  /\ Tail(queue) \in Seq(Nat) /\ IsAscending(Tail(queue)) /\ 1 \in DOMAIN queue /\ Head(queue) = queue[1]
           /\ \A k \in DOMAIN Tail(queue) : k + 1 \in DOMAIN queue /\ Tail(queue)[k] = queue[k + 1]
           /\ Entries(Tail(queue)) = Entries(queue) \ {Head(queue)} /\ Head(queue) \in Entries(queue)
           /\ \A k \in DOMAIN queue : queue[k] \in Entries(queue) /\ queue[k] \in Nat
<1> DEFINE n == Len(queue)
           rest == Tail(queue)
<1>1. n \in Nat \ {0} /\ DOMAIN queue = 1..n /\ Head(queue) = queue[1] /\ \A k \in 1..n : queue[k] \in Nat
  BY EmptySeq
<1>2. /\ rest \in Seq(Nat) /\ Len(rest) = n - 1 /\ DOMAIN rest = 1..(n - 1)
      /\ \A k \in 1..(n - 1) : rest[k] = queue[k + 1]
  BY <1>1, HeadTailProperties, LenProperties
<1> HIDE DEF n, rest
<1>3. IsAscending(rest)
  <2> SUFFICES ASSUME NEW j \in 1..(n - 1), NEW k \in 1..(n - 1), j < k
               PROVE  rest[j] < rest[k]
    BY <1>2 DEF IsAscending
  <2>1. j + 1 \in 1..n /\ k + 1 \in 1..n /\ j + 1 < k + 1
    BY <1>1
  <2>2. queue[j + 1] < queue[k + 1]
    BY <1>1, <2>1 DEF IsAscending
  <2>. QED BY <1>2, <2>2
<1>4. \A k \in 1..(n - 1) : k + 1 \in 1..n
  BY <1>1
<1>5. Entries(rest) = Entries(queue) \ {queue[1]}
  <2>1. ASSUME NEW k \in 1..n, k # 1
        PROVE  k - 1 \in 1..(n - 1) /\ rest[k - 1] = queue[k] /\ queue[k] # queue[1]
    <3>1. k - 1 \in 1..(n - 1) /\ (k - 1) + 1 = k /\ 1 \in 1..n /\ 1 < k
      BY <1>1, <2>1
    <3>2. queue[1] < queue[k] /\ queue[1] \in Nat /\ queue[k] \in Nat
      BY <1>1, <3>1 DEF IsAscending
    <3>. QED BY <1>2, <3>1, <3>2
  <2>2. \A k \in 1..(n - 1) : queue[k + 1] # queue[1]
    <3> SUFFICES ASSUME NEW k \in 1..(n - 1) PROVE queue[k + 1] # queue[1]
      OBVIOUS
    <3>1. k + 1 \in 1..n /\ k + 1 # 1
      BY <1>1
    <3>. QED BY <2>1, <3>1
  <2>3. ASSUME NEW x \in Entries(rest)
        PROVE  x \in Entries(queue) \ {queue[1]}
    <3>1. PICK k \in 1..(n - 1) : x = rest[k]
      BY <1>2 DEF Entries
    <3>2. x = queue[k + 1] /\ k + 1 \in 1..n
      BY <1>2, <1>4, <3>1
    <3>. QED BY <1>1, <2>2, <3>2 DEF Entries
  <2>4. ASSUME NEW x \in Entries(queue) \ {queue[1]}
        PROVE  x \in Entries(rest)
    <3>1. PICK k \in 1..n : x = queue[k]
      BY <1>1 DEF Entries
    <3>2. k # 1
      BY <3>1
    <3>3. k - 1 \in DOMAIN rest /\ x = rest[k - 1]
      BY <1>2, <2>1, <3>1, <3>2
    <3>. QED BY <3>3 DEF Entries
  <2>. QED BY <2>3, <2>4
<1>6. 1 \in 1..n
  BY <1>1
<1>. QED BY <1>1, <1>2, <1>3, <1>4, <1>5, <1>6 DEF rest, Entries

LEMMA EntriesAreFinite ==
    ASSUME NEW queue \in Seq(Nat)
    PROVE  IsFiniteSet(Entries(queue))
<1>1. DOMAIN queue = 1..Len(queue) /\ Len(queue) \in Nat
  BY LenProperties
<1>2. IsFiniteSet(DOMAIN queue)
  BY <1>1, FS_Interval
<1>3. queue \in Surjection(DOMAIN queue, Entries(queue))
  BY DEF Surjection, Entries
<1>. QED BY <1>2, <1>3, FS_Surjection

\* What the entries of a body take: the first, and those behind it.
LEMMA SizesOfQueue ==
    ASSUME store \in Seq(AnyEntry), NEW queue \in Seq(Nat), \A k \in DOMAIN queue : EntryFits(queue[k])
    PROVE  /\ \A x \in Entries(queue) : SizeOf[x] = TupleSize(ItemOf(x)) /\ SizeOf[x] \in Nat
           /\ SumFunctionOnSet(SizeOf, Entries(queue)) \in Nat
           /\ queue # <<>> =>
                 /\ Behind(queue) \in Nat /\ TupleSize(ItemOf(Head(queue))) \in Nat
                 /\ SumFunctionOnSet(SizeOf, Entries(queue)) = TupleSize(ItemOf(Head(queue))) + Behind(queue)
<1>1. DOMAIN store = 1..Len(store) /\ Len(store) \in Nat
  BY EntriesAreTyped
<1>2. ASSUME NEW x \in Entries(queue)
      PROVE  SizeOf[x] = TupleSize(ItemOf(x)) /\ SizeOf[x] \in Nat
  <2>1. EntryFits(x)
    BY DEF Entries
  <2>2. x \in 0..Len(store)
    BY <1>1, <2>1 DEF EntryFits
  <2>3. SizeOf[x] = TupleSize(ItemOf(x))
    BY <2>2 DEF SizeOf
  <2>4. TupleSize(ItemOf(x)) \in Nat
    <3> DEFINE item == ItemOf(x)
    <3>1. item \in AnyItem /\ ContentsValid(item)
      BY <2>1 DEF EntryFits
    <3> HIDE DEF item
    <3>2. TupleSize(item) \in Nat
      BY <3>1, SizesAreTyped
    <3>. QED BY <3>2 DEF item
  <2>. QED BY <2>3, <2>4
<1>3. IsFiniteSet(Entries(queue))
  BY EntriesAreFinite
<1> DEFINE f == SizeOf
           S == Entries(queue)
<1>4. \A x \in S : f[x] \in Nat /\ f[x] \in Int
  BY <1>2
<1> HIDE DEF f, S
<1>5. \A s \in SUBSET S : SumFunctionOnSet(f, s) \in Nat
  BY <1>3, <1>4, SumIsNat DEF S
<1>6. \A x \in S : SumFunctionOnSet(f, S) = f[x] + SumFunctionOnSet(f, S \ {x})
  BY ZenonT(60), <1>3, <1>4, SumOfAny DEF S
<1>7. ASSUME queue # <<>>
      PROVE  Head(queue) \in S
  <2>1. 1 \in DOMAIN queue /\ Head(queue) = queue[1]
    BY <1>7
  <2>. QED BY <2>1 DEF S, Entries
<1>8. S \in SUBSET S /\ \A x : S \ {x} \in SUBSET S
  OBVIOUS
<1>. QED BY <1>2, <1>5, <1>6, <1>7, <1>8 DEF f, S, Behind

LEMMA SizesStay ==
    ASSUME Kept, store \in Seq(AnyEntry), Len(store') = Len(store)
    PROVE  SizeOf' = SizeOf
<1>1. DOMAIN store = 1..Len(store) /\ Len(store) \in Nat
  BY EntriesAreTyped
<1>2. /\ items' = items /\ target' = target
      /\ \A e \in DOMAIN store : store'[e].item = store[e].item
  BY DEF Kept
<1>3. \A entry \in 0..Len(store) : ItemOf(entry)' = ItemOf(entry)
  <2> SUFFICES ASSUME NEW entry \in 0..Len(store) PROVE ItemOf(entry)' = ItemOf(entry)
    OBVIOUS
  <2>1. CASE entry = 0
    BY <1>2, <2>1 DEF ItemOf
  <2>2. CASE entry \in DOMAIN store
    BY <1>2, <2>2 DEF ItemOf
  <2>. QED BY <1>1, <2>1, <2>2
<1>. QED BY <1>3 DEF SizeOf, TupleSize

\* The queue of a body that is at the start of an item.
LEMMA QueueStays ==
    ASSUME Kept, store \in Seq(AnyEntry), Len(store') = Len(store), NEW queue \in Seq(Nat), body'.queue = queue,
           \A k \in DOMAIN queue : EntryFits(queue[k])
    PROVE  /\ \A k \in DOMAIN body'.queue : EntryFits(body.queue[k])'
           /\ queue # <<>> => Current' = ItemOf(Head(queue)) /\ Waiting' = Behind(queue)
<1>1. ASSUME NEW k \in DOMAIN queue
      PROVE  EntryFits(body.queue[k])' /\ ItemOf(body.queue[k])' = ItemOf(queue[k])
  <2>1. PICK e : e = queue[k]
    OBVIOUS
  <2>2. EntryFits(e)' /\ ItemOf(e)' = ItemOf(e)
    BY <2>1, EntryStays
  <2>3. e = body'.queue[k]
    BY <2>1
  <2>. QED BY <2>1, <2>2, <2>3
<1>2. ASSUME queue # <<>>
      PROVE  Current' = ItemOf(Head(queue)) /\ Waiting' = Behind(queue)
  <2>1. 1 \in DOMAIN queue /\ Head(queue) = queue[1] /\ Head(body'.queue) = body'.queue[1]
    BY <1>2
  <2>2. Current' = ItemOf(body.queue[1])'
    BY <2>1 DEF Current
  <2>3. ItemOf(body.queue[1])' = ItemOf(queue[1])
    BY <1>1, <2>1
  <2>4. Waiting' = SumFunctionOnSet(SizeOf', Entries(queue) \ {Head(queue)})
    BY DEF Waiting, Entries
  <2>. QED BY <2>1, <2>2, <2>3, <2>4, SizesStay DEF Behind
<1>. QED BY <1>1, <1>2

\* The space that is left suffices for the items that are to be written, from the next on.
LEMMA SpaceForQueue ==
    ASSUME Kept, store \in Seq(AnyEntry), Len(store') = Len(store), NEW queue \in Seq(Nat), body'.queue = queue,
           \A k \in DOMAIN queue : EntryFits(queue[k]), body'.step = 1, body'.left \in Int, body'.before \in Int,
           body'.left >= Close + SumFunctionOnSet(SizeOf, Entries(queue)),
           body'.before >= Close + SumFunctionOnSet(SizeOf, Entries(queue))
    PROVE  IF body'.queue = <<>> THEN body'.left >= Close
           ELSE /\ body'.left >= Needed(body'.step, Current') + Waiting' + Close
                /\ body'.before >= TupleSize(Current') + Waiting' + Close
<1> DEFINE sum == SumFunctionOnSet(SizeOf, Entries(queue))
           left == body'.left
           before == body'.before
<1>1. sum \in Nat /\ left \in Int /\ before \in Int /\ left >= 24 + sum /\ before >= 24 + sum
  BY SizesOfQueue DEF Close
<1>2. CASE queue = <<>>
  <2> HIDE DEF sum, left
  <2>1. left >= 24
    BY <1>1
  <2>. QED BY <1>2, <2>1 DEF left, Close
<1>3. CASE queue # <<>>
  <2> DEFINE item == ItemOf(Head(queue))
             size == TupleSize(item)
             behind == Behind(queue)
             needed == Needed(1, item)
  <2>1. Current' = item /\ Waiting' = behind
    BY <1>3, QueueStays
  <2>2. size \in Nat /\ behind \in Nat /\ sum = size + behind
    BY <1>3, SizesOfQueue
  <2>3. item \in AnyItem /\ ContentsValid(item)
    <3>1. 1 \in DOMAIN queue /\ Head(queue) = queue[1]
      BY <1>3
    <3>. QED BY <3>1 DEF EntryFits
  <2>4. needed \in Nat /\ needed <= size
    <3> HIDE DEF item
    <3>. QED BY <2>3, SizesAreTyped DEF needed, size
  <2>5. Needed(body'.step, Current') = needed /\ TupleSize(Current') = size
    BY <2>1
  <2> HIDE DEF item, size, behind, needed, sum, left, before
  <2>6. left >= needed + behind + 24 /\ before >= size + behind + 24
    BY <1>1, <2>2, <2>4
  <2>. QED BY <1>3, <2>1, <2>5, <2>6 DEF left, before, Close
<1>. QED BY <1>2, <1>3

LEMMA AscendingQueue ==
    ASSUME NEW n \in Nat, NEW S \in SUBSET (1..n)
    PROVE  Ascending(S) \in Seq(Nat) /\ IsAscending(Ascending(S)) /\ Entries(Ascending(S)) = S
           /\ \A k \in DOMAIN Ascending(S) : Ascending(S)[k] \in S
<1>1. Ascending(S) \in Seq(S) /\ IsAscending(Ascending(S)) /\ Entries(Ascending(S)) = S
  BY AscendingIsOrder DEF IsAscending
<1>2. S \subseteq Nat
  <2>1. 1..n \subseteq Nat
    OBVIOUS
  <2>. QED BY <2>1
<1>3. Ascending(S) \in Seq(Nat)
  <2> DEFINE s == Ascending(S)
             k == Cardinality(S)
  <2>1. k \in Nat /\ s \in [1..k -> S]
    BY AscendingIsOrder
  <2> HIDE DEF s, k
  <2>2. s \in [1..k -> Nat]
    BY <1>2, <2>1
  <2>3. s \in Seq(Nat)
    BY <2>1, <2>2
  <2>. QED BY <2>3 DEF s
<1>4. \A k \in DOMAIN Ascending(S) : Ascending(S)[k] \in S
  BY <1>1 DEF Entries
<1>. QED BY <1>1, <1>3, <1>4

\* What the body is allocated for.
LEMMA AllocationFits ==
    ASSUME IInv, pc = "prepare", ~(target = "store" /\ Dangling),
           NEW queue, queue = IF target = "store" THEN Ascending(Selected) ELSE << 0 >>
    PROVE  /\ queue \in Seq(Nat) /\ IsAscending(queue) /\ \A k \in DOMAIN queue : EntryFits(queue[k])
           /\ Buffer = Close + SumFunctionOnSet(SizeOf, Entries(queue))
           /\ SumFunctionOnSet(SizeOf, Entries(queue)) \in Nat
           /\ target = "store" => Selected \in SUBSET DOMAIN store /\ \A k \in DOMAIN queue : queue[k] \in Selected
<1>1. /\ store \in Seq(AnyEntry) /\ DOMAIN store = 1..Len(store) /\ Len(store) \in Nat
      /\ \A e \in DOMAIN store : store[e].item \in Names
  BY Parts, EntriesAreTyped
<1>2. items \in [Names -> AnyItem \cup {Nothing}] /\ target \in Names \cup {"none", "store"}
  BY Parts DEF AppTypeOK, CallTypeOK
<1>3. /\ op = "exchange" /\ target # "none" /\ (target \in Names => items[target] # Nothing /\ ContentsValid(items[target]))
  BY Parts DEF CallFits
<1>4. CASE target = "store"
  <2>1. Selected \in SUBSET DOMAIN store
    BY <1>1, SelectedIsChosen
  <2>2. queue = Ascending(Selected) /\ Selected \in SUBSET (1..Len(store))
    BY <1>1, <1>4, <2>1
  <2>3. /\ queue \in Seq(Nat) /\ IsAscending(queue) /\ Entries(queue) = Selected
        /\ \A k \in DOMAIN queue : queue[k] \in Selected
    BY <1>1, <2>2, AscendingQueue
  <2>4. ASSUME NEW e \in DOMAIN store
        PROVE  EntryFits(e)
    <3>1. items[store[e].item] # Nothing
      BY <1>4 DEF Dangling
    <3>2. items[store[e].item] \in AnyItem
      BY <1>1, <1>2, <3>1
    <3>3. ContentsValid(items[store[e].item])
      BY <3>1, Parts DEF AppFits, StoreFits
    <3>4. ItemOf(e) = items[store[e].item]
      <4>1. e # 0
        BY <1>1
      <4>. QED BY <4>1 DEF ItemOf
    <3>. QED BY <1>4, <3>2, <3>3, <3>4 DEF EntryFits
  <2>5. \A k \in DOMAIN queue : EntryFits(queue[k])
    BY <2>1, <2>3, <2>4
  <2>6. SumFunctionOnSet(SizeOf, Entries(queue)) \in Nat /\ \A x \in Entries(queue) : SizeOf[x] \in Nat
    BY <1>1, <2>3, <2>5, SizesOfQueue
  <2>7. SumFunctionOnSet(SizeOf, Selected) = SumFunctionOnSet(Sizes, Selected)
    <3>1. IsFiniteSet(Selected)
      BY <2>3, EntriesAreFinite
    <3>2. ASSUME NEW x \in Selected
          PROVE  SizeOf[x] \in Int /\ Sizes[x] = SizeOf[x]
      <4>1. x \in DOMAIN store /\ x \in 0..Len(store) /\ x # 0
        BY <1>1, <2>1
      <4>2. SizeOf[x] = TupleSize(ItemOf(x)) /\ ItemOf(x) = items[store[x].item]
        BY <4>1 DEF SizeOf, ItemOf
      <4>3. Sizes[x] = TupleSize(items[store[x].item])
        BY <4>1 DEF Sizes
      <4>. QED BY <2>3, <2>6, <4>2, <4>3
    <3> DEFINE f == SizeOf
               g == Sizes
               S == Selected
    <3>3. \A x \in S : f[x] \in Int /\ g[x] = f[x]
      BY <3>2
    <3> HIDE DEF f, g, S
    <3>4. SumFunctionOnSet(f, S) = SumFunctionOnSet(g, S)
      BY <3>1, <3>3, SumAgrees DEF S
    <3>. QED BY <3>4 DEF f, g, S
  <2>8. Buffer = Close + SumFunctionOnSet(SizeOf, Entries(queue))
    BY <1>4, <2>3, <2>7 DEF Buffer
  <2>. QED BY <2>1, <2>3, <2>5, <2>6, <2>8
<1>5. CASE target # "store"
  <2>1. target \in Names /\ queue = << 0 >>
    BY <1>2, <1>3, <1>5
  <2>2. queue \in Seq(Nat) /\ DOMAIN queue = {1} /\ queue[1] = 0 /\ IsAscending(queue)
    <3>1. queue \in Seq(Nat) /\ queue[1] = 0 /\ Len(queue) = 1
      <4>1. << 0 >> \in Seq(Nat)
        OBVIOUS
      <4>2. << 0 >>[1] = 0 /\ Len(<< 0 >>) = 1
        OBVIOUS
      <4>. QED BY <2>1, <4>1, <4>2
    <3>2. DOMAIN queue = {1}
      <4>1. 1..1 = {1}
        OBVIOUS
      <4>. QED BY <3>1, <4>1, LenProperties
    <3>3. IsAscending(queue)
      BY <3>2 DEF IsAscending
    <3>. QED BY <3>1, <3>2, <3>3
  <2>3. Entries(queue) = {0}
    BY <2>2 DEF Entries
  <2>4. ItemOf(0) = items[target] /\ items[target] \in AnyItem
    BY <1>2, <1>3, <2>1 DEF ItemOf
  <2>5. EntryFits(0)
    BY <1>3, <1>5, <2>1, <2>4 DEF EntryFits
  <2>6. \A k \in DOMAIN queue : EntryFits(queue[k])
    BY <2>2, <2>5
  <2>7. /\ SumFunctionOnSet(SizeOf, Entries(queue)) \in Nat /\ Behind(queue) \in Nat
        /\ TupleSize(ItemOf(Head(queue))) \in Nat
        /\ SumFunctionOnSet(SizeOf, Entries(queue)) = TupleSize(ItemOf(Head(queue))) + Behind(queue)
    <3>1. queue # <<>>
      BY <2>1
    <3>. QED BY <1>1, <2>2, <2>6, <3>1, SizesOfQueue
  <2>8. Behind(queue) = 0 /\ Head(queue) = 0
    <3>1. Head(queue) = 0
      BY <2>1
    <3>2. Entries(queue) \ {Head(queue)} = {}
      BY <2>3, <3>1
    <3>. QED BY <3>1, <3>2, SumOfNone DEF Behind
  <2>9. SumFunctionOnSet(SizeOf, Entries(queue)) = TupleSize(items[target])
    <3>1. SumFunctionOnSet(SizeOf, Entries(queue)) = TupleSize(items[target]) + 0 /\ TupleSize(items[target]) \in Nat
      BY <2>4, <2>7, <2>8
    <3>. QED BY <3>1
  <2>10. Buffer = Close + SumFunctionOnSet(SizeOf, Entries(queue))
    BY <1>5, <2>9 DEF Buffer
  <2>. QED BY <1>5, <2>2, <2>6, <2>7, <2>10
<1>. QED BY <1>4, <1>5

\* What a step of the composer has to show.
LEMMA Composed ==
    ASSUME IInv, Keep, pc \in {"prepare", "compose"}, pc' \in {"compose", "request", "done"},
           UNCHANGED <<items, cause, answer, parserVars>>,
           store' \in Seq(AnyEntry), Len(store') = Len(store), \A e \in DOMAIN store : store'[e].item = store[e].item,
           body' \in AnyBody, BodyFits', QueueFits', SpaceFits'
    PROVE  IInv'
<1>1. UNCHANGED <<op, target, handle, careless>>
  BY DEF Keep
<1>2. DOMAIN store' = DOMAIN store
  <2>1. store \in Seq(AnyEntry)
    BY Parts
  <2>. QED BY <2>1, LenProperties
<1>3. Kept
  BY <1>1, <1>2 DEF Kept
<1>4. AppFits'
  BY <1>3, Parts, AppStays
<1>5. CallTypeOK'
  BY <1>1, Parts DEF CallTypeOK
<1>6. CallFits'
  BY <1>1, Parts DEF CallFits
<1>7. ParserFits'
  <2>1. ParserIsNew'
    BY Parts DEF ParserFits, ParserIsNew, parserVars
  <2>. QED BY <2>1, FreshParserNext
<1>. QED BY <1>4, <1>5, <1>6, <1>7, Collected

LEMMA AllocateBodyStep ==
    ASSUME IInv, AllocateBody
    PROVE  IInv'
<1>1. pc = "prepare" /\ Keep
  BY DEF AllocateBody
<1>2. CASE target = "store" /\ Dangling /\ Crash("twice")
  <2>1. "twice" \in careless
    BY <1>2, Parts DEF Dangling, AppFits, StoreFits
  <2>. QED BY <1>1, <1>2, <2>1, CrashStep
<1>3. ASSUME NEW code, Done(code)
      PROVE  IInv'
  BY <1>1, <1>3, DoneStep
<1> DEFINE queue == IF target = "store" THEN Ascending(Selected) ELSE << 0 >>
<1>4. CASE /\ ~(target = "store" /\ Dangling)
           /\ body' = [NoBody EXCEPT !.buffer = Buffer, !.left = Buffer, !.before = Buffer, !.queue = queue]
           /\ store' = IF target # "store" THEN store
                       ELSE [e \in DOMAIN store |->
                                IF e \in Selected THEN [store[e] EXCEPT !.status = "selected"] ELSE store[e]]
           /\ pc' = "compose"
           /\ UNCHANGED <<items, answer, cause, result, parserVars>>
  <2> DEFINE sum == SumFunctionOnSet(SizeOf, Entries(queue))
  <2>1. /\ queue \in Seq(Nat) /\ IsAscending(queue) /\ \A k \in DOMAIN queue : EntryFits(queue[k])
        /\ Buffer = Close + sum /\ sum \in Nat
        /\ target = "store" => Selected \in SUBSET DOMAIN store /\ \A k \in DOMAIN queue : queue[k] \in Selected
    BY <1>1, <1>4, AllocationFits
  <2> HIDE DEF queue
  <2>2. Buffer \in Nat /\ Buffer \in Int /\ Buffer >= 0 /\ Buffer >= Close + sum
    <3> HIDE DEF sum
    <3>. QED BY <2>1 DEF Close
  <2>3. /\ body'.left = Buffer /\ body'.before = Buffer /\ body'.queue = queue /\ body'.added = <<>> /\ body'.step = 1
        /\ body'.short = FALSE /\ body'.buffer = Buffer
        /\ body' = [buffer |-> Buffer, left |-> Buffer, before |-> Buffer, step |-> 1, queue |-> queue,
                    added |-> <<>>, short |-> FALSE]
    BY <1>4 DEF NoBody
  <2>4. body' \in AnyBody
    <3>1. 1 \in DOMAIN Spaces /\ <<>> \in Seq(Nat)
      BY DEF Spaces
    <3>. QED BY <2>1, <2>2, <2>3, <3>1 DEF AnyBody
  <2>5. /\ store' \in Seq(AnyEntry) /\ Len(store') = Len(store) /\ DOMAIN store' = DOMAIN store
        /\ \A e \in DOMAIN store : store'[e].item = store[e].item
        /\ target = "store" => \A e \in Selected : store'[e].status = "selected"
    <3>1. /\ store \in Seq(AnyEntry) /\ DOMAIN store = 1..Len(store) /\ Len(store) \in Nat
          /\ \A e \in DOMAIN store : store[e] \in AnyEntry
      BY Parts, EntriesAreTyped
    <3>2. CASE target # "store"
      BY <1>4, <3>1, <3>2
    <3>3. CASE target = "store"
      <4> DEFINE one(e) == IF e \in Selected THEN [store[e] EXCEPT !.status = "selected"] ELSE store[e]
      <4>1. store' = [e \in 1..Len(store) |-> one(e)]
        BY <1>4, <3>1, <3>3
      <4>2. \A entry \in AnyEntry : /\ [entry EXCEPT !.status = "selected"] \in AnyEntry
                                    /\ [entry EXCEPT !.status = "selected"].item = entry.item
                                    /\ [entry EXCEPT !.status = "selected"].status = "selected"
        BY DEF AnyEntry
      <4>3. \A e \in 1..Len(store) : one(e) \in AnyEntry /\ one(e).item = store[e].item
                                     /\ (e \in Selected => one(e).status = "selected")
        BY <3>1, <4>2
      <4> HIDE DEF one
      <4>4. store' \in Seq(AnyEntry) /\ Len(store') = Len(store) /\ DOMAIN store' = 1..Len(store)
        BY <3>1, <4>1, <4>3
      <4>5. \A e \in 1..Len(store) : store'[e] = one(e)
        BY <4>1
      <4>. QED BY <2>1, <3>1, <3>3, <4>3, <4>4, <4>5
    <3>. QED BY <3>2, <3>3
  <2>6. Kept
    <3>1. items' = items /\ target' = target
      BY <1>1, <1>4 DEF Keep
    <3>. QED BY <2>5, <3>1 DEF Kept
  <2>7. store \in Seq(AnyEntry)
    BY Parts
  <2>8. \A k \in DOMAIN body'.queue : EntryFits(body.queue[k])'
    BY <2>1, <2>3, <2>5, <2>6, <2>7, QueueStays
  <2>9. BodyFits'
    <3>1. DOMAIN body'.added = {}
      BY <2>3
    <3>2. \A step \in {MetaStep, PayloadStep} : ~(step < body'.step)
      BY <2>3 DEF MetaStep, PayloadStep
    <3>. QED BY <2>8, <3>1, <3>2 DEF BodyFits
  <2>10. QueueFits'
    <3>1. \A j, k \in DOMAIN body'.queue : j < k => body'.queue[j] < body'.queue[k]
      BY <2>1, <2>3 DEF IsAscending
    <3>2. target' = target
      BY <2>6 DEF Kept
    <3>3. target' = "store" => \A k \in DOMAIN body'.queue : store'[body'.queue[k]].status # "ready"
      BY <2>1, <2>3, <2>5, <3>2
    <3>. QED BY <3>1, <3>3 DEF QueueFits
  <2>11. SpaceFits'
    <3>1. body'.left >= Close + sum /\ body'.before >= Close + sum
      BY <2>2, <2>3
    <3>2. IF body'.queue = <<>> THEN body'.left >= Close
          ELSE /\ body'.left >= Needed(body'.step, Current') + Waiting' + Close
               /\ body'.before >= TupleSize(Current') + Waiting' + Close
      <4>1. body'.left \in Int /\ body'.before \in Int
        BY <2>2, <2>3
      <4>. QED BY <2>1, <2>3, <2>5, <2>6, <2>7, <3>1, <4>1, SpaceForQueue
    <3>. QED BY <2>2, <2>3, <3>2 DEF SpaceFits
  <2>. QED BY <1>1, <1>4, <2>4, <2>5, <2>9, <2>10, <2>11, Composed
<1>. QED BY <1>2, <1>3, <1>4 DEF AllocateBody

\* Where the composer is.
LEMMA CurrentFits ==
    ASSUME IInv, body.queue # <<>>
    PROVE  /\ body.queue \in Seq(Nat) /\ IsAscending(body.queue) /\ store \in Seq(AnyEntry) /\ body.added \in Seq(Nat)
           /\ \A k \in DOMAIN body.queue : EntryFits(body.queue[k])
           /\ EntryFits(Head(body.queue)) /\ Current \in AnyItem /\ ContentsValid(Current)
           /\ Current = items[IF target = "store" THEN store[Head(body.queue)].item ELSE target]
           /\ IF target = "store" THEN Head(body.queue) \in DOMAIN store /\ store[Head(body.queue)].item \in Names
              ELSE Head(body.queue) = 0 /\ target \in Names
<1>1. body.queue \in Seq(Nat) /\ store \in Seq(AnyEntry) /\ body.added \in Seq(Nat)
  BY Parts DEF AnyBody
<1>2. /\ IsAscending(body.queue) /\ \A k \in DOMAIN body.queue : EntryFits(body.queue[k])
  BY Parts DEF QueueFits, BodyFits, IsAscending
<1>3. 1 \in DOMAIN body.queue /\ Head(body.queue) = body.queue[1]
  BY <1>1
<1>4. EntryFits(Head(body.queue))
  BY <1>2, <1>3
<1>5. Current \in AnyItem /\ ContentsValid(Current)
      /\ IF target = "store" THEN Head(body.queue) \in DOMAIN store ELSE Head(body.queue) = 0 /\ target \in Names
  BY <1>4 DEF EntryFits, Current
<1>6. target = "store" => Head(body.queue) # 0 /\ store[Head(body.queue)].item \in Names
  BY <1>1, <1>5, EntriesAreTyped
<1>7. target # "store" => Head(body.queue) = 0
  BY <1>5
<1>8. Current = items[IF target = "store" THEN store[Head(body.queue)].item ELSE target]
  BY <1>6, <1>7 DEF Current, ItemOf
<1>. QED BY <1>1, <1>2, <1>4, <1>5, <1>6, <1>8

LEMMA RewindStep ==
    ASSUME IInv, Rewind
    PROVE  IInv'
<1>1. pc = "compose" /\ body.queue # <<>> /\ Current.stale /\ Crash("descriptor") /\ Keep
  BY DEF Rewind, Composing
<1>2. PICK i : i = IF target = "store" THEN store[Head(body.queue)].item ELSE target
  OBVIOUS
<1>3. i \in Names /\ Current = items[i] /\ Current \in AnyItem
  BY <1>1, <1>2, CurrentFits
<1>4. items[i] # Nothing
  BY <1>3, ConnectivityAssumption
<1>5. "descriptor" \in careless
  BY <1>1, <1>3, <1>4, Parts DEF AppFits, ItemsFit
<1>. QED BY <1>1, <1>5, CrashStep

LEMMA WrittenIsInt ==
    ASSUME NEW item \in AnyItem, ContentsValid(item), NEW step \in DOMAIN Spaces
    PROVE  Written(step, item) \in Int
<1>1. item.contentType \in Nat /\ item.drift \in Int /\ WrittenMeta(item) \in Nat /\ WrittenPayload(item) \in Nat
  BY SizesAreTyped
<1>2. Spaces[step] \in Nat
  BY DEF Spaces
<1>. QED BY <1>1, <1>2 DEF Written, MetaStep, ContentTypeStep, PayloadStep

\* As long as nothing has grown what is to be written fits.
LEMMA ExactlyFits ==
    ASSUME IInv, pc = "compose", body.queue # <<>>, Exact
    PROVE  /\ Current.drift <= 0 /\ "contentType" \notin Current.lacks /\ Fits(body.step, Current)
           /\ body.step \in 1..19 /\ Waiting \in Nat
           /\ body.left - Written(body.step, Current) >= Needed(body.step + 1, Current) + Waiting + Close
<1>1. PICK i : i = IF target = "store" THEN store[Head(body.queue)].item ELSE target
  OBVIOUS
<1>2. /\ Current = items[i] /\ Current \in AnyItem /\ ContentsValid(Current)
      /\ target = "store" => Head(body.queue) \in DOMAIN store
      /\ body.queue \in Seq(Nat) /\ store \in Seq(AnyEntry)
      /\ \A k \in DOMAIN body.queue : EntryFits(body.queue[k])
  BY <1>1, CurrentFits
<1>3. i \in Concerned
  <2>1. CASE target = "store"
    <3>1. 1 \in DOMAIN body.queue /\ Head(body.queue) = body.queue[1]
      BY <1>2
    <3>2. store[Head(body.queue)].status # "ready"
      BY <2>1, <3>1, Parts DEF QueueFits
    <3>. QED BY <1>1, <1>2, <2>1, <3>2 DEF Concerned
  <2>2. CASE target # "store"
    BY <1>1, <2>2 DEF Concerned
  <2>. QED BY <2>1, <2>2
<1> DEFINE item == Current
           step == body.step
           w == Written(step, item)
           x == Needed(step, item)
           y == Needed(step + 1, item)
           behind == Waiting
           left == body.left
<1>4. item.drift \in Int /\ item.drift <= 0 /\ "contentType" \notin item.lacks
  <2>1. item.drift \in Int
    BY <1>2, SizesAreTyped
  <2>2. ~(item.drift > 0) /\ "contentType" \notin item.lacks
    BY <1>2, <1>3 DEF Exact
  <2> HIDE DEF item
  <2>. QED BY <2>1, <2>2
<1>5. step \in 1..19
  BY Parts DEF AnyBody, Spaces
<1>6. w \in Int /\ x \in Nat /\ y \in Nat /\ x >= w + y /\ (step = PayloadStep => x > w)
  <2> HIDE DEF item, step
  <2>1. item \in AnyItem /\ ContentsValid(item)
    BY <1>2 DEF item
  <2>. QED BY <1>4, <1>5, <2>1, NeededStep
<1>7. behind \in Nat
  BY <1>2, SizesOfQueue DEF Waiting, Behind
<1>8. left >= x + behind + 24
  BY Parts DEF SpaceFits, Close
<1>9. left \in Int
  BY Parts DEF AnyBody
<1> HIDE DEF w, x, y, behind, left
<1>10. left > 0 /\ w <= left /\ (step = PayloadStep => w < left) /\ left - w >= y + behind + 24
  BY <1>6, <1>7, <1>8, <1>9
<1>11. Fits(step, item)
  BY <1>10 DEF Fits, left, w
<1>. QED BY <1>4, <1>5, <1>7, <1>10, <1>11 DEF w, y, behind, left, Close

\* What was added is still there, and complete.
LEMMA AddedStays ==
    ASSUME Kept, NEW added, body'.added = added,
           \A k \in DOMAIN added : EntryFits(added[k]) /\ IsComplete(ItemOf(added[k]))
    PROVE  \A k \in DOMAIN body'.added : EntryFits(body.added[k])' /\ IsComplete(ItemOf(body.added[k])')
<1> SUFFICES ASSUME NEW k \in DOMAIN added
             PROVE  EntryFits(body.added[k])' /\ IsComplete(ItemOf(body.added[k])')
  OBVIOUS
<1>1. PICK e : e = added[k]
  OBVIOUS
<1>2. EntryFits(e) /\ IsComplete(ItemOf(e))
  BY <1>1
<1>3. EntryFits(e)' /\ ItemOf(e)' = ItemOf(e)
  BY <1>2, EntryStays
<1>4. e = body'.added[k]
  BY <1>1
<1>. QED BY <1>2, <1>3, <1>4

\* A body that begins with the next item of a queue.
LEMMA NextItem ==
    ASSUME IInv, pc = "compose", body.queue # <<>>, Kept, Len(store') = Len(store), Exact' => Exact,
           body'.queue = Tail(body.queue), body'.step = 1, body'.left \in Int, body'.before \in Int,
           Exact => body'.left >= Close + Waiting /\ body'.before >= Close + Waiting
    PROVE  /\ \A k \in DOMAIN body'.queue : EntryFits(body.queue[k])'
           /\ \A j, k \in DOMAIN body'.queue : j < k => body'.queue[j] < body'.queue[k]
           /\ Exact' => IF body'.queue = <<>> THEN body'.left >= Close
                        ELSE /\ body'.left >= Needed(body'.step, Current') + Waiting' + Close
                             /\ body'.before >= TupleSize(Current') + Waiting' + Close
<1> DEFINE rest == Tail(body.queue)
<1>1. /\ body.queue \in Seq(Nat) /\ IsAscending(body.queue) /\ store \in Seq(AnyEntry)
      /\ \A k \in DOMAIN body.queue : EntryFits(body.queue[k])
  BY CurrentFits
<1>2. /\ rest \in Seq(Nat) /\ IsAscending(rest) /\ Entries(rest) = Entries(body.queue) \ {Head(body.queue)}
      /\ \A k \in DOMAIN rest : k + 1 \in DOMAIN body.queue /\ rest[k] = body.queue[k + 1]
  BY <1>1, RestOfQueue
<1>3. \A k \in DOMAIN rest : EntryFits(rest[k])
  BY <1>1, <1>2
<1>4. SumFunctionOnSet(SizeOf, Entries(rest)) = Waiting
  BY <1>2 DEF Waiting
<1>5. body'.queue = rest
  OBVIOUS
<1> HIDE DEF rest
<1>6. \A k \in DOMAIN body'.queue : EntryFits(body.queue[k])'
  BY <1>1, <1>2, <1>3, <1>5, QueueStays
<1>7. \A j, k \in DOMAIN body'.queue : j < k => body'.queue[j] < body'.queue[k]
  BY <1>2, <1>5 DEF IsAscending
<1>8. ASSUME Exact'
      PROVE  IF body'.queue = <<>> THEN body'.left >= Close
             ELSE /\ body'.left >= Needed(body'.step, Current') + Waiting' + Close
                  /\ body'.before >= TupleSize(Current') + Waiting' + Close
  <2>1. body'.left >= Close + SumFunctionOnSet(SizeOf, Entries(rest))
        /\ body'.before >= Close + SumFunctionOnSet(SizeOf, Entries(rest))
    BY <1>4, <1>8
  <2>. QED BY <1>1, <1>2, <1>3, <1>5, <2>1, SpaceForQueue
<1>. QED BY <1>6, <1>7, <1>8

LEMMA TupleFailsStep ==
    ASSUME IInv, Composing, Keep, NEW code, NEW short \in BOOLEAN, TupleFails(code, short), short => ~Exact
    PROVE  IInv'
<1>1. pc = "compose" /\ body.queue # <<>> /\ UNCHANGED <<op, target>>
  BY DEF Composing, Keep
<1>2. UNCHANGED <<items, store, answer, cause, parserVars>>
  BY DEF TupleFails
<1>3. store \in Seq(AnyEntry) /\ Kept /\ body \in AnyBody /\ Exact' = Exact
  BY <1>1, <1>2, Parts, ExactStays DEF Kept
<1>4. body.queue \in Seq(Nat) /\ IsAscending(body.queue)
  BY <1>1, CurrentFits
<1>5. CASE target = "store"
  <2> DEFINE one == [body EXCEPT !.left = body.before]
             two == [one EXCEPT !.step = 1]
             three == [two EXCEPT !.queue = Tail(body.queue)]
  <2>1. PICK b \in BOOLEAN : b = (body.short \/ short)
    OBVIOUS
  <2>2. /\ body' = [body EXCEPT !.left = body.before, !.step = 1, !.queue = Tail(body.queue), !.short = b]
        /\ pc' = pc
    BY <1>5, <2>1 DEF TupleFails
  <2>3. body.before \in Int /\ body.left \in Int /\ body.added \in Seq(Nat)
    BY <1>3 DEF AnyBody
  <2>4. body' \in AnyBody /\ body'.left = body.before /\ body'.before = body.before /\ body'.step = 1
        /\ body'.queue = Tail(body.queue) /\ body'.added = body.added /\ body'.short = b
    <3>1. one \in AnyBody /\ one.left = body.before /\ one.before = body.before /\ one.added = body.added
      BY <1>3, <2>3 DEF AnyBody
    <3>2. body' = [[[one EXCEPT !.step = 1] EXCEPT !.queue = Tail(body.queue)] EXCEPT !.short = b]
      BY <1>3, <2>2 DEF AnyBody
    <3> HIDE DEF one
    <3>3. two \in AnyBody /\ two.left = one.left /\ two.before = one.before /\ two.added = one.added /\ two.step = 1
      <4>1. 1 \in DOMAIN Spaces
        BY DEF Spaces
      <4>. QED BY <3>1, <4>1 DEF AnyBody
    <3>4. body' = [three EXCEPT !.short = b]
      BY <3>2
    <3> HIDE DEF two
    <3>5. /\ three \in AnyBody /\ three.left = two.left /\ three.before = two.before /\ three.added = two.added
          /\ three.step = two.step /\ three.queue = Tail(body.queue)
      <4>1. Tail(body.queue) \in Seq(Nat)
        BY <1>1, <1>4, RestOfQueue
      <4>. QED BY <3>3, <4>1 DEF AnyBody
    <3> HIDE DEF three
    <3>6. /\ body' \in AnyBody /\ body'.left = three.left /\ body'.before = three.before /\ body'.added = three.added
          /\ body'.step = three.step /\ body'.queue = three.queue /\ body'.short = b
      BY <2>1, <3>4, <3>5 DEF AnyBody
    <3>. QED BY <3>1, <3>3, <3>5, <3>6
  <2>5. Exact => body.before >= Close + Waiting
    <3> SUFFICES ASSUME Exact PROVE body.before >= Close + Waiting
      OBVIOUS
    <3> DEFINE size == TupleSize(Current)
               behind == Waiting
               before == body.before
    <3>1. before >= size + behind + 24 /\ before \in Int
      BY <1>1, <2>3, Parts DEF SpaceFits, Close
    <3>2. behind \in Nat
      BY <1>1, ExactlyFits
    <3>3. size \in Nat
      BY <1>1, CurrentFits, SizesAreTyped
    <3> HIDE DEF size, behind, before
    <3>4. before >= 24 + behind
      BY <3>1, <3>2, <3>3
    <3>. QED BY <3>4 DEF before, behind, Close
  <2>6. /\ \A k \in DOMAIN body'.queue : EntryFits(body.queue[k])'
        /\ \A j, k \in DOMAIN body'.queue : j < k => body'.queue[j] < body'.queue[k]
        /\ Exact' => IF body'.queue = <<>> THEN body'.left >= Close
                     ELSE /\ body'.left >= Needed(body'.step, Current') + Waiting' + Close
                          /\ body'.before >= TupleSize(Current') + Waiting' + Close
    BY <1>1, <1>2, <1>3, <2>3, <2>4, <2>5, NextItem
  <2>7. BodyFits'
    <3>1. \A k \in DOMAIN body'.added : EntryFits(body.added[k])' /\ IsComplete(ItemOf(body.added[k])')
      BY <1>3, <2>4, Parts, AddedStays DEF BodyFits
    <3>2. \A step \in {MetaStep, PayloadStep} : ~(step < body'.step)
      BY <2>4 DEF MetaStep, PayloadStep
    <3>. QED BY <2>6, <3>1, <3>2 DEF BodyFits, IsComplete
  <2>8. QueueFits'
    <3>1. \A k \in DOMAIN body'.queue : store'[body'.queue[k]].status # "ready"
      <4>1. \A k \in DOMAIN body.queue : store[body.queue[k]].status # "ready"
        BY <1>1, <1>5, Parts DEF QueueFits
      <4>2. \A k \in DOMAIN body'.queue : k + 1 \in DOMAIN body.queue /\ body'.queue[k] = body.queue[k + 1]
        BY <1>1, <1>4, <2>4, RestOfQueue
      <4>. QED BY <1>2, <4>1, <4>2
    <3>. QED BY <2>6, <3>1 DEF QueueFits
  <2>9. SpaceFits'
    <3>1. body'.left >= 0 /\ body'.before >= 0
      BY <2>4, Parts DEF SpaceFits
    <3>2. body.short => ~Exact
      BY <1>1, Parts DEF SpaceFits
    <3>3. body'.short => ~Exact'
      BY <1>3, <2>1, <2>4, <3>2
    <3>. QED BY <2>6, <3>1, <3>3 DEF SpaceFits
  <2>. QED BY <1>1, <1>2, <1>3, <2>2, <2>4, <2>7, <2>8, <2>9, Composed
<1>6. CASE target # "store"
  <2>1. body' = [body EXCEPT !.short = short] /\ pc' = "done"
    BY <1>6 DEF TupleFails
  <2>2. body' \in AnyBody /\ body'.left = body.left /\ body'.before = body.before /\ body'.step = body.step
        /\ body'.queue = body.queue /\ body'.added = body.added /\ body'.short = short
    BY <1>3, <2>1 DEF AnyBody
  <2>3. BodyFits'
    BY <1>3, <2>2, Parts, BodyStays
  <2>4. QueueFits'
    BY <2>1, <2>2, Parts DEF QueueFits
  <2>5. SpaceFits'
    BY <1>3, <2>1, <2>2, Parts DEF SpaceFits
  <2>. QED BY <1>1, <1>2, <1>3, <2>1, <2>2, <2>3, <2>4, <2>5, Composed
<1>. QED BY <1>5, <1>6

LEMMA NotBelow ==
    ASSUME NEW x \in Int, NEW w \in Int, w <= x
    PROVE  x - w \in Int /\ x - w >= 0
OBVIOUS

LEMMA BelowNext ==
    ASSUME NEW k \in 1..19, NEW s \in Nat, s < k + 1
    PROVE  s < k \/ s = k
OBVIOUS

LEMMA OneMore ==
    ASSUME NEW k \in 1..19, k < 19
    PROVE  k + 1 \in 1..19
OBVIOUS

\* The next step of an item.
LEMMA GoOnStep ==
    ASSUME IInv, Composing, Keep, ~NullAt(body.step, Current), Fits(body.step, Current), body.step < Len(Spaces),
           body' = [body EXCEPT !.left = @ - Written(body.step, Current), !.step = @ + 1],
           UNCHANGED <<pc, items, store, answer, cause, result, parserVars>>
    PROVE  IInv'
<1>1. pc = "compose" /\ body.queue # <<>> /\ UNCHANGED <<op, target>>
  BY DEF Composing, Keep
<1>2. store \in Seq(AnyEntry) /\ Kept /\ body \in AnyBody /\ Exact' = Exact
  BY <1>1, Parts, ExactStays DEF Kept
<1>3. /\ body.queue \in Seq(Nat) /\ IsAscending(body.queue) /\ \A k \in DOMAIN body.queue : EntryFits(body.queue[k])
      /\ Current \in AnyItem /\ ContentsValid(Current)
  BY <1>1, CurrentFits
<1> DEFINE w == Written(body.step, Current)
           left == body.left - w
           step == body.step + 1
           one == [body EXCEPT !.left = left]
<1>4. w \in Int /\ w <= body.left /\ body.left \in Int /\ body.step \in 1..19 /\ body.step < 19
  <2>1. body.step \in DOMAIN Spaces /\ body.left \in Int
    BY <1>2 DEF AnyBody
  <2>2. w \in Int
    BY <1>3, <2>1, WrittenIsInt
  <2>3. DOMAIN Spaces = 1..19 /\ Len(Spaces) = 19
    BY DEF Spaces
  <2>4. w <= body.left
    BY DEF Fits
  <2> HIDE DEF w
  <2>. QED BY <2>1, <2>2, <2>3, <2>4
<1>5. left \in Int /\ left >= 0 /\ step \in 1..19
  <2>1. body.left - w \in Int /\ body.left - w >= 0
    BY <1>4, NotBelow
  <2>2. body.step + 1 \in 1..19
    BY <1>4, OneMore
  <2>. QED BY <2>1, <2>2
<1>6. body' \in AnyBody /\ body'.left = left /\ body'.before = body.before /\ body'.step = step
      /\ body'.queue = body.queue /\ body'.added = body.added /\ body'.short = body.short
  <2>1. body' = [one EXCEPT !.step = step]
    BY <1>2 DEF AnyBody
  <2> HIDE DEF w, left, step
  <2>2. one \in AnyBody /\ one.left = left /\ one.before = body.before /\ one.queue = body.queue
        /\ one.added = body.added /\ one.short = body.short
    BY <1>2, <1>5 DEF AnyBody
  <2>3. step \in DOMAIN Spaces
    BY <1>5 DEF Spaces
  <2> HIDE DEF one
  <2>. QED BY <2>1, <2>2, <2>3 DEF AnyBody
<1>7. /\ \A k \in DOMAIN body'.queue : EntryFits(body.queue[k])'
      /\ Current' = Current /\ Waiting' = Waiting
  <2>1. PICK queue : queue = body.queue
    OBVIOUS
  <2>2. /\ \A k \in DOMAIN body'.queue : EntryFits(body.queue[k])'
        /\ Current' = ItemOf(Head(queue)) /\ Waiting' = Behind(queue)
    <3>1. queue \in Seq(Nat) /\ body'.queue = queue /\ queue # <<>> /\ \A k \in DOMAIN queue : EntryFits(queue[k])
      BY <1>1, <1>3, <1>6, <2>1
    <3>. QED BY <1>2, <3>1, QueueStays
  <2>. QED BY <2>1, <2>2 DEF Current, Waiting, Behind
<1>8. BodyFits'
  <2>1. \A k \in DOMAIN body'.added : EntryFits(body.added[k])' /\ IsComplete(ItemOf(body.added[k])')
    BY <1>2, <1>6, Parts, AddedStays DEF BodyFits
  <2>2. \A s \in {MetaStep, PayloadStep} : s < body'.step => ~NullAt(s, Current')
    <3>1. \A s \in {MetaStep, PayloadStep} : s < body.step => ~NullAt(s, Current)
      BY <1>1, Parts DEF BodyFits
    <3>2. ASSUME NEW s \in {MetaStep, PayloadStep}, s < body'.step
          PROVE  s < body.step \/ s = body.step
      <4>1. s \in Nat
        BY DEF MetaStep, PayloadStep
      <4>2. s < body.step + 1
        BY <1>6, <3>2
      <4>. QED BY <1>4, <4>1, <4>2, BelowNext
    <3>. QED BY <1>7, <3>1, <3>2
  <2>. QED BY <1>7, <2>1, <2>2 DEF BodyFits, IsComplete
<1>9. QueueFits'
  BY <1>1, <1>6, Parts DEF QueueFits
<1>10. SpaceFits'
  <2>1. body'.left >= 0 /\ body'.before >= 0
    BY <1>5, <1>6, Parts DEF SpaceFits
  <2>2. ASSUME Exact'
        PROVE  /\ body'.left >= Needed(body'.step, Current') + Waiting' + Close
               /\ body'.before >= TupleSize(Current') + Waiting' + Close
    <3>1. left >= Needed(step, Current) + Waiting + Close
      BY <1>1, <1>2, <2>2, ExactlyFits
    <3>2. body.before >= TupleSize(Current) + Waiting + Close
      BY <1>1, <1>2, <2>2, Parts DEF SpaceFits
    <3> HIDE DEF left, step
    <3>. QED BY <1>6, <1>7, <3>1, <3>2
  <2>3. body'.queue # <<>>
    BY <1>1, <1>6
  <2>4. body'.short => ~Exact'
    BY <1>1, <1>2, <1>6, Parts DEF SpaceFits
  <2>. QED BY <2>1, <2>2, <2>3, <2>4 DEF SpaceFits
<1>. QED BY <1>1, <1>2, <1>6, <1>8, <1>9, <1>10, Composed

\* Whatever kind it is of, an item whose last step is reached has all that is mandatory.
LEMMA CompleteAtLast ==
    ASSUME NEW item \in AnyItem, ~NullAt(MetaStep, item), ~NullAt(PayloadStep, item)
    PROVE  IsComplete(item)
<1>1. CASE item \in AnyEvent
  BY <1>1 DEF AnyEvent, NullAt, IsComplete, MetaStep, PayloadStep
<1>2. CASE item \in AnyTimeseries
  BY <1>2 DEF AnyTimeseries, NullAt, IsComplete, MetaStep, PayloadStep
<1>3. CASE item \in AnyFile
  BY <1>3 DEF AnyFile, NullAt, IsComplete, MetaStep, PayloadStep
<1>4. CASE item \in AnyCustom
  BY <1>4 DEF AnyCustom, NullAt, IsComplete, MetaStep, PayloadStep
<1>5. CASE item \in AnyConfiguration
  BY <1>5 DEF AnyConfiguration, NullAt, IsComplete, MetaStep, PayloadStep
<1>. QED BY <1>1, <1>2, <1>3, <1>4, <1>5 DEF AnyItem

\* The store of a body whose first item is added.
LEMMA ProcessedFits ==
    ASSUME IInv, Composing, Keep, UNCHANGED items,
           store' = IF target = "store" THEN [store EXCEPT ![Head(body.queue)].status = "processed"] ELSE store
    PROVE  /\ store' \in Seq(AnyEntry) /\ Len(store') = Len(store) /\ Kept /\ Exact' = Exact
           /\ target = "store" =>
                 \A e \in DOMAIN store : store[e].status # "ready" => store'[e].status # "ready"
<1> DEFINE first == Head(body.queue)
<1>1. pc = "compose" /\ body.queue # <<>> /\ UNCHANGED <<op, target>>
  BY DEF Composing, Keep
<1>2. /\ store \in Seq(AnyEntry) /\ DOMAIN store = 1..Len(store) /\ Len(store) \in Nat
      /\ \A e \in DOMAIN store : store[e] \in AnyEntry
  BY Parts, EntriesAreTyped
<1>3. CASE target # "store"
  <2>1. store' = store
    BY <1>3
  <2>. QED BY <1>1, <1>2, <1>3, <2>1, ExactStays DEF Kept
<1>4. CASE target = "store"
  <2>1. first \in DOMAIN store /\ store[first].status # "ready"
    <3>1. 1 \in DOMAIN body.queue /\ first = body.queue[1] /\ first \in DOMAIN store
      <4>1. body.queue \in Seq(Nat) /\ first \in DOMAIN store
        BY <1>1, <1>4, CurrentFits
      <4>. QED BY <1>1, <4>1
    <3>. QED BY <1>1, <1>4, <3>1, Parts DEF QueueFits
  <2> DEFINE entry == [store[first] EXCEPT !.status = "processed"]
  <2>2. store' = [store EXCEPT ![first] = entry]
    BY <1>4
  <2>3. entry \in AnyEntry /\ entry.item = store[first].item /\ entry.status = "processed"
    BY <1>2, <2>1 DEF AnyEntry
  <2> HIDE DEF entry, first
  <2>4. store' \in Seq(AnyEntry) /\ Len(store') = Len(store) /\ DOMAIN store' = DOMAIN store
    <3>1. first \in 1..Len(store) /\ entry \in AnyEntry /\ store \in Seq(AnyEntry)
      BY <1>2, <2>1, <2>3
    <3> DEFINE more == [store EXCEPT ![first] = entry]
    <3>2. more \in Seq(AnyEntry) /\ Len(more) = Len(store)
      BY <3>1, ExceptSeq
    <3>3. DOMAIN more = DOMAIN store
      OBVIOUS
    <3>. QED BY <2>2, <3>2, <3>3
  <2>5. \A e \in DOMAIN store : store'[e] = IF e = first THEN entry ELSE store[e]
    BY <1>2, <2>1, <2>2
  <2>6. /\ \A e \in DOMAIN store : store'[e].item = store[e].item
        /\ \A e \in DOMAIN store : store[e].status # "ready" <=> store'[e].status # "ready"
    BY <2>1, <2>3, <2>5
  <2>7. Kept
    BY <1>1, <2>4, <2>6 DEF Kept
  <2>8. Concerned' = Concerned
    <3>1. {f \in DOMAIN store' : store'[f].status # "ready"} = {f \in DOMAIN store : store[f].status # "ready"}
      BY <2>4, <2>6
    <3> DEFINE A == {f \in DOMAIN store : store[f].status # "ready"}
    <3>2. \A e \in A : store'[e].item = store[e].item
      BY <2>6
    <3>3. Concerned = {store[e].item : e \in A}
      BY <1>4 DEF Concerned
    <3>4. Concerned' = {store'[e].item : e \in A}
      BY <1>1, <1>4, <3>1 DEF Concerned
    <3> HIDE DEF A
    <3>. QED BY <3>2, <3>3, <3>4
  <2>9. Exact' = Exact
    BY <2>8 DEF Exact
  <2>. QED BY <2>4, <2>6, <2>7, <2>9
<1>. QED BY <1>3, <1>4

\* The last step of an item.
LEMMA LastStep ==
    ASSUME IInv, Composing, Keep, Fits(body.step, Current), body.step = Len(Spaces),
           LET left == body.left - Written(body.step, Current)
           IN body' = [body EXCEPT !.left = left, !.before = left, !.step = 1,
                                   !.queue = Tail(@), !.added = Append(@, Head(body.queue))],
           store' = IF target = "store" THEN [store EXCEPT ![Head(body.queue)].status = "processed"] ELSE store,
           UNCHANGED <<pc, items, answer, cause, result, parserVars>>
    PROVE  IInv'
<1>1. pc = "compose" /\ body.queue # <<>> /\ UNCHANGED <<op, target>>
  BY DEF Composing, Keep
<1>2. /\ store' \in Seq(AnyEntry) /\ Len(store') = Len(store) /\ Kept /\ Exact' = Exact
      /\ target = "store" => \A e \in DOMAIN store : store[e].status # "ready" => store'[e].status # "ready"
  BY ProcessedFits
<1>3. /\ body.queue \in Seq(Nat) /\ IsAscending(body.queue) /\ store \in Seq(AnyEntry) /\ body.added \in Seq(Nat)
      /\ EntryFits(Head(body.queue)) /\ Current \in AnyItem /\ ContentsValid(Current) /\ body \in AnyBody
      /\ \A k \in DOMAIN body.queue : EntryFits(body.queue[k])
  BY <1>1, CurrentFits, Parts
<1> DEFINE w == Written(body.step, Current)
           left == body.left - w
           rest == Tail(body.queue)
           first == Head(body.queue)
           added == Append(body.added, first)
           one == [body EXCEPT !.left = left]
           two == [one EXCEPT !.before = left]
           three == [two EXCEPT !.step = 1]
           four == [three EXCEPT !.queue = rest]
<1>4. left \in Int /\ left >= 0 /\ body.step = 19
  <2>1. body.step \in DOMAIN Spaces /\ body.left \in Int
    BY <1>3 DEF AnyBody
  <2>2. w \in Int
    BY <1>3, <2>1, WrittenIsInt
  <2>3. w <= body.left
    BY DEF Fits
  <2>4. body.step = 19
    BY DEF Spaces
  <2>. QED BY <2>1, <2>2, <2>3, <2>4, NotBelow
<1>5. rest \in Seq(Nat) /\ first \in Nat /\ added \in Seq(Nat)
  <2>1. rest \in Seq(Nat) /\ first \in Nat
    BY <1>1, <1>3, RestOfQueue
  <2>. QED BY <1>3, <2>1, AppendProperties
<1>6. body' \in AnyBody /\ body'.left = left /\ body'.before = left /\ body'.step = 1
      /\ body'.queue = rest /\ body'.added = added /\ body'.short = body.short
  <2>1. body' = [four EXCEPT !.added = added]
    BY <1>3 DEF AnyBody
  <2> HIDE DEF w, left, rest, first, added
  <2>2. /\ one \in AnyBody /\ one.left = left /\ one.short = body.short
    BY <1>3, <1>4 DEF AnyBody
  <2> HIDE DEF one
  <2>3. /\ two \in AnyBody /\ two.left = one.left /\ two.before = left /\ two.short = one.short
    BY <1>4, <2>2 DEF AnyBody
  <2> HIDE DEF two
  <2>4. /\ three \in AnyBody /\ three.left = two.left /\ three.before = two.before /\ three.short = two.short
        /\ three.step = 1
    <3>1. 1 \in DOMAIN Spaces
      BY DEF Spaces
    <3>. QED BY <2>3, <3>1 DEF AnyBody
  <2> HIDE DEF three
  <2>5. /\ four \in AnyBody /\ four.left = three.left /\ four.before = three.before /\ four.short = three.short
        /\ four.step = three.step /\ four.queue = rest
    BY <1>5, <2>4 DEF AnyBody
  <2> HIDE DEF four
  <2>6. /\ body' \in AnyBody /\ body'.left = four.left /\ body'.before = four.before /\ body'.short = four.short
        /\ body'.step = four.step /\ body'.queue = four.queue /\ body'.added = added
    BY <1>5, <2>1, <2>5 DEF AnyBody
  <2>. QED BY <2>2, <2>3, <2>4, <2>5, <2>6
<1>7. Exact => left >= Close + Waiting
  <2> SUFFICES ASSUME Exact PROVE left >= Close + Waiting
    OBVIOUS
  <2> DEFINE needed == Needed(body.step + 1, Current)
             behind == Waiting
  <2>1. left >= needed + behind + 24 /\ behind \in Nat
    BY <1>1, ExactlyFits DEF Close
  <2>2. needed \in Nat
    <3>1. body.step + 1 \in 1..20
      BY <1>4
    <3>. QED BY <1>3, <3>1, SizesAreTyped
  <2> HIDE DEF needed, behind, left
  <2>3. left >= 24 + behind
    BY <1>4, <2>1, <2>2
  <2>. QED BY <2>3 DEF behind, Close
<1> HIDE DEF left, rest, first, added
<1>8. /\ \A k \in DOMAIN body'.queue : EntryFits(body.queue[k])'
      /\ \A j, k \in DOMAIN body'.queue : j < k => body'.queue[j] < body'.queue[k]
      /\ Exact' => IF body'.queue = <<>> THEN body'.left >= Close
                   ELSE /\ body'.left >= Needed(body'.step, Current') + Waiting' + Close
                        /\ body'.before >= TupleSize(Current') + Waiting' + Close
  <2>1. body'.queue = Tail(body.queue)
    BY <1>6 DEF rest
  <2>. QED BY <1>1, <1>2, <1>4, <1>6, <1>7, <2>1, NextItem
<1>9. BodyFits'
  <2>1. IsComplete(Current)
    <3>1. ~NullAt(MetaStep, Current) /\ ~NullAt(PayloadStep, Current)
      <4>1. \A step \in {MetaStep, PayloadStep} : step < body.step => ~NullAt(step, Current)
        BY <1>1, Parts DEF BodyFits
      <4>. QED BY <1>4, <4>1 DEF MetaStep, PayloadStep
    <3>. QED BY <1>3, <3>1, CompleteAtLast
  <2>2. EntryFits(first) /\ IsComplete(ItemOf(first))
    BY <1>3, <2>1 DEF first, Current
  <2>3. \A k \in DOMAIN body.added : EntryFits(body.added[k]) /\ IsComplete(ItemOf(body.added[k]))
    BY Parts DEF BodyFits
  <2>4. \A k \in DOMAIN added : EntryFits(added[k]) /\ IsComplete(ItemOf(added[k]))
    <3> SUFFICES ASSUME NEW k \in DOMAIN added
                 PROVE  added[k] = first \/ \E j \in DOMAIN body.added : added[k] = body.added[j]
      BY <2>2, <2>3
    <3> DEFINE old == body.added
    <3>1. old \in Seq(Nat) /\ first \in Nat /\ added = Append(old, first)
      BY <1>3, <1>5 DEF added
    <3> HIDE DEF old
    <3>2. /\ DOMAIN old = 1..Len(old) /\ Len(old) \in Nat /\ DOMAIN added = 1..(Len(old) + 1)
          /\ added[Len(old) + 1] = first /\ \A j \in 1..Len(old) : added[j] = old[j]
      BY <3>1, AppendProperties, LenProperties
    <3>3. k \in 1..Len(old) \/ k = Len(old) + 1
      BY <3>2
    <3>. QED BY <3>2, <3>3 DEF old
  <2>5. \A k \in DOMAIN body'.added : EntryFits(body.added[k])' /\ IsComplete(ItemOf(body.added[k])')
    BY <1>2, <1>6, <2>4, AddedStays
  <2>6. \A step \in {MetaStep, PayloadStep} : ~(step < body'.step)
    BY <1>6 DEF MetaStep, PayloadStep
  <2>. QED BY <1>8, <2>5, <2>6 DEF BodyFits, IsComplete
<1>10. QueueFits'
  <2>1. ASSUME target = "store"
        PROVE  \A k \in DOMAIN body'.queue : store'[body'.queue[k]].status # "ready"
    <3>1. \A k \in DOMAIN body.queue : store[body.queue[k]].status # "ready" /\ body.queue[k] \in DOMAIN store
      BY <1>1, <1>3, <2>1, Parts DEF QueueFits, EntryFits
    <3>2. \A k \in DOMAIN body'.queue : k + 1 \in DOMAIN body.queue /\ body'.queue[k] = body.queue[k + 1]
      BY SMTT(40), <1>1, <1>3, <1>6, RestOfQueue DEF rest
    <3>. QED BY <1>2, <2>1, <3>1, <3>2
  <2>. QED BY <1>1, <1>8, <2>1 DEF QueueFits
<1>11. SpaceFits'
  <2>1. body'.left >= 0 /\ body'.before >= 0
    BY <1>4, <1>6
  <2>2. body'.short => ~Exact'
    BY <1>1, <1>2, <1>6, Parts DEF SpaceFits
  <2>. QED BY <1>8, <2>1, <2>2 DEF SpaceFits
<1>12. \A e \in DOMAIN store : store'[e].item = store[e].item
  BY <1>2 DEF Kept
<1>. QED BY <1>1, <1>2, <1>6, <1>9, <1>10, <1>11, <1>12, Composed

LEMMA WriteTupleStep ==
    ASSUME IInv, WriteTuple
    PROVE  IInv'
<1>1. Composing /\ Keep /\ pc = "compose" /\ body.queue # <<>>
  BY DEF WriteTuple, Composing
<1>2. ASSUME NEW code, TupleFails(code, FALSE)
      PROVE  IInv'
  BY <1>1, <1>2, TupleFailsStep
<1>3. CASE ~Fits(body.step, Current) /\ TupleFails("FAIL", TRUE)
  <2>1. ~Exact
    BY <1>1, <1>3, ExactlyFits
  <2>. QED BY <1>1, <1>3, <2>1, TupleFailsStep
<1>4. CASE /\ ~NullAt(body.step, Current) /\ Fits(body.step, Current) /\ body.step < Len(Spaces)
           /\ body' = [body EXCEPT !.left = @ - Written(body.step, Current), !.step = @ + 1]
           /\ UNCHANGED <<pc, items, store, answer, cause, result, parserVars>>
  BY <1>1, <1>4, GoOnStep
<1>5. CASE /\ Fits(body.step, Current) /\ body.step = Len(Spaces)
           /\ LET left == body.left - Written(body.step, Current)
              IN body' = [body EXCEPT !.left = left, !.before = left, !.step = 1,
                                      !.queue = Tail(@), !.added = Append(@, Head(body.queue))]
           /\ store' = IF target = "store" THEN [store EXCEPT ![Head(body.queue)].status = "processed"] ELSE store
           /\ UNCHANGED <<pc, items, answer, cause, result, parserVars>>
  BY <1>1, <1>5, LastStep
<1>. QED BY <1>2, <1>3, <1>4, <1>5 DEF WriteTuple

LEMMA CloseBodyStep ==
    ASSUME IInv, CloseBody
    PROVE  IInv'
<1>1. pc = "compose" /\ body.queue = <<>> /\ Keep
  BY DEF CloseBody
<1>2. CASE Done("FAIL")
  BY <1>1, <1>2, DoneStep
<1>3. CASE /\ ~(body.left < Close) /\ body' = [body EXCEPT !.left = @ - Close] /\ pc' = "request"
           /\ UNCHANGED <<items, store, answer, cause, result, parserVars>>
  <2>1. UNCHANGED <<op, target>>
    BY <1>1 DEF Keep
  <2>2. store \in Seq(AnyEntry) /\ Kept /\ body \in AnyBody /\ Exact' = Exact
    BY <1>3, <2>1, Parts, ExactStays DEF Kept
  <2> DEFINE left == body.left - Close
  <2>3. left \in Int /\ left >= 0
    <3>1. body.left \in Int /\ Close \in Int
      BY <2>2 DEF AnyBody, Close
    <3>2. Close <= body.left
      BY <1>3, <3>1
    <3>. QED BY <3>1, <3>2, NotBelow
  <2>4. body' = [body EXCEPT !.left = left]
    BY <1>3
  <2> HIDE DEF left
  <2>5. body' \in AnyBody /\ body'.left = left /\ body'.before = body.before /\ body'.step = body.step
        /\ body'.queue = body.queue /\ body'.added = body.added /\ body'.short = body.short
    BY <2>2, <2>3, <2>4 DEF AnyBody
  <2>6. BodyFits'
    BY <2>2, <2>5, Parts, BodyStays
  <2>7. QueueFits'
    BY <1>3, <2>5, Parts DEF QueueFits
  <2>8. SpaceFits'
    <3>1. body'.left >= 0 /\ body'.before >= 0
      BY <2>3, <2>5, Parts DEF SpaceFits
    <3>2. body'.short => ~Exact'
      BY <1>1, <2>2, <2>5, Parts DEF SpaceFits
    <3>. QED BY <1>3, <3>1, <3>2 DEF SpaceFits
  <2>. QED BY <1>1, <1>3, <2>2, <2>5, <2>6, <2>7, <2>8, Composed
<1>. QED BY <1>2, <1>3 DEF CloseBody

-----------------------------------------------------------------------------
(* The answer.                                                             *)

\* What scanning leaves of the store: each entry once, in order.
LEMMA LeftFits ==
    ASSUME store \in Seq(AnyEntry)
    PROVE  /\ Left \in Seq(AnyEntry) /\ Len(Left) <= Len(store)
           /\ \A k \in DOMAIN Left :
                 \E e \in DOMAIN store \ Processed :
                     e = Ascending(DOMAIN store \ Processed)[k] /\ Left[k].item = store[e].item
           /\ \A j, k \in DOMAIN Left :
                 j # k => Ascending(DOMAIN store \ Processed)[j] # Ascending(DOMAIN store \ Processed)[k]
<1> DEFINE R == DOMAIN store \ Processed
           s == Ascending(R)
           n == Cardinality(R)
<1>1. DOMAIN store = 1..Len(store) /\ Len(store) \in Nat
  BY EntriesAreTyped
<1>2. R \in SUBSET (1..Len(store))
  BY <1>1
<1> HIDE DEF R
<1>3. /\ n \in Nat /\ s \in [1..n -> R] /\ DOMAIN s = 1..n
      /\ \A i, j \in DOMAIN s : i < j => s[i] < s[j]
  BY <1>1, <1>2, AscendingIsOrder
<1>4. n <= Len(store)
  <2>1. IsFiniteSet(1..Len(store)) /\ Cardinality(1..Len(store)) = Len(store)
    BY SMTT(40), <1>1, FS_Interval
  <2>2. Cardinality(R) <= Cardinality(1..Len(store))
    BY <1>2, <2>1, FS_Subset
  <2>. QED BY <2>1, <2>2
<1>5. Left = [k \in 1..n |-> Reverted[s[k]]]
  BY DEF Left, R
<1> HIDE DEF s, n
<1>6. ASSUME NEW k \in 1..n
      PROVE  s[k] \in R /\ s[k] \in DOMAIN store /\ Reverted[s[k]] \in AnyEntry /\ Reverted[s[k]].item = store[s[k]].item
  <2>1. s[k] \in R
    BY <1>3
  <2>2. s[k] \in DOMAIN store
    BY <1>1, <1>2, <2>1
  <2>. QED BY <2>1, <2>2, RevertedFits
<1>7. Left \in Seq(AnyEntry) /\ Len(Left) = n /\ DOMAIN Left = 1..n
  BY <1>3, <1>5, <1>6
<1>8. ASSUME NEW k \in DOMAIN Left
      PROVE  \E e \in R : e = s[k] /\ Left[k].item = store[e].item
  BY <1>5, <1>6, <1>7
<1>9. ASSUME NEW j \in DOMAIN Left, NEW k \in DOMAIN Left, j # k
      PROVE  s[j] # s[k]
  <2>1. j \in 1..n /\ k \in 1..n /\ (j < k \/ k < j)
    BY <1>3, <1>7, <1>9
  <2>2. s[j] \in Nat /\ s[k] \in Nat
    BY <1>1, <1>6, <2>1
  <2>3. s[j] < s[k] \/ s[k] < s[j]
    BY <1>3, <2>1
  <2>. QED BY <2>2, <2>3
<1>. QED BY <1>4, <1>7, <1>8, <1>9 DEF s, R

LEMMA ScanStoreStep ==
    ASSUME IInv, pc = "answer", op = "exchange", target = "store", ScanStore, Keep
    PROVE  IInv'
<1>1. store \in Seq(AnyEntry) /\ UNCHANGED <<client, configuration, sets, handle, changes, careless, op, target>>
  BY Parts DEF Keep
<1>2. /\ \A e, f \in DOMAIN store : e # f /\ store[e].item = store[f].item => "twice" \in careless
      /\ \A e \in DOMAIN store :
            IF items[store[e].item] = Nothing THEN "twice" \in careless ELSE ContentsValid(items[store[e].item])
      /\ \A e \in DOMAIN store : store[e].item \in Names
  BY <1>1, Parts, EntriesAreTyped DEF AppFits, StoreFits
<1>3. Processed \subseteq DOMAIN store
  BY DEF Processed
<1>4. CASE Twice
  <2>1. "twice" \in careless
    BY <1>2, <1>3, <1>4 DEF Twice
  <2>. QED BY <1>4, <2>1, CrashStep DEF ScanStore
<1>5. CASE ~Twice
  <2>1. /\ store' = Left
        /\ items' = [i \in Names |-> IF \E e \in Processed : store[e].item = i THEN Nothing ELSE items[i]]
        /\ pc' \in {"done", "prepare"} /\ body' = NoBody /\ UNCHANGED <<answer, cause, parserVars>>
    BY <1>5 DEF ScanStore
  <2>2. \A i \in Names : IF \E e \in Processed : store[e].item = i THEN items'[i] = Nothing ELSE items'[i] = items[i]
    BY <2>1
  <2>3. /\ store' \in Seq(AnyEntry) /\ Len(store') <= Len(store)
        /\ \A k \in DOMAIN store' :
              \E e \in DOMAIN store \ Processed :
                  e = Ascending(DOMAIN store \ Processed)[k] /\ store'[k].item = store[e].item
        /\ \A j, k \in DOMAIN store' :
              j # k => Ascending(DOMAIN store \ Processed)[j] # Ascending(DOMAIN store \ Processed)[k]
    BY <1>1, <2>1, LeftFits
  <2>4. AppTypeOK'
    <3>1. items' \in [Names -> AnyItem \cup {Nothing}]
      <4>1. items \in [Names -> AnyItem \cup {Nothing}]
        BY Parts DEF AppTypeOK
      <4>2. \A i \in Names : items'[i] \in AnyItem \cup {Nothing}
        BY <2>2, <4>1
      <4>. QED BY <2>1, <4>2
    <3>2. Len(store') <= MaxEntriesOfStore
      <4>1. Len(store) <= MaxEntriesOfStore /\ Len(store) \in Nat /\ Len(store') \in Nat
        BY <1>1, <2>3, Parts, LenProperties DEF AppTypeOK
      <4>. QED BY <2>3, <4>1, ConnectivityAssumption
    <3>. QED BY <1>1, <2>3, <3>1, <3>2, Parts DEF AppTypeOK
  <2>5. HandleFits'
    BY <1>1, Parts DEF AppFits, HandleFits
  <2>6. ItemsFit'
    BY <1>1, <2>2, Parts DEF AppFits, ItemsFit
  <2>7. StoreFits'
    <3>1. ASSUME NEW j \in DOMAIN store', NEW k \in DOMAIN store', j # k, store'[j].item = store'[k].item
          PROVE  "twice" \in careless'
      <4>1. PICK e \in DOMAIN store \ Processed :
                e = Ascending(DOMAIN store \ Processed)[j] /\ store'[j].item = store[e].item
        BY <2>3
      <4>2. PICK f \in DOMAIN store \ Processed :
                f = Ascending(DOMAIN store \ Processed)[k] /\ store'[k].item = store[f].item
        BY <2>3
      <4>3. e # f
        BY <2>3, <3>1, <4>1, <4>2
      <4>. QED BY <1>1, <1>2, <3>1, <4>1, <4>2, <4>3
    <3>2. ASSUME NEW k \in DOMAIN store'
          PROVE  IF items'[store'[k].item] = Nothing THEN "twice" \in careless'
                 ELSE ContentsValid(items'[store'[k].item])
      <4>1. PICK e \in DOMAIN store \ Processed : store'[k].item = store[e].item
        BY <2>3
      <4>2. store[e].item \in Names
        BY <1>2
      <4>3. CASE \E p \in Processed : store[p].item = store[e].item
        <5>1. "twice" \in careless
          BY <1>2, <1>3, <4>3
        <5>2. items'[store'[k].item] = Nothing
          BY <2>2, <4>1, <4>2, <4>3
        <5>. QED BY <1>1, <5>1, <5>2
      <4>4. CASE ~\E p \in Processed : store[p].item = store[e].item
        <5>1. items'[store'[k].item] = items[store[e].item]
          BY <2>2, <4>1, <4>2, <4>4
        <5>. QED BY <1>1, <1>2, <5>1
      <4>. QED BY <4>3, <4>4
    <3>. QED BY <3>1, <3>2 DEF StoreFits
  <2>8. BodyFits' /\ QueueFits' /\ SpaceFits' /\ body' \in AnyBody
    BY <2>1, FreshBodyNext
  <2>9. CallTypeOK'
    BY <1>1, <2>1, <2>8, Parts DEF CallTypeOK
  <2>10. CallFits'
    <3>1. handle # Nothing /\ target \notin Names /\ target' = target /\ handle' = handle /\ op' = op
      BY <1>1, Parts, CatalogueAssumption DEF CallFits
    <3>2. pc' \in {"done", "prepare"} /\ body' = NoBody
      BY <2>1
    <3>. QED BY <3>1, <3>2 DEF CallFits, NoBody
  <2>11. ParserFits'
    <3>1. ParserIsNew'
      BY <2>1, Parts DEF ParserFits, ParserIsNew, parserVars
    <3>. QED BY <3>1, FreshParserNext
  <2>. QED BY <2>1, <2>4, <2>5, <2>6, <2>7, <2>8, <2>9, <2>10, <2>11, Collected DEF AppFits
<1>. QED BY <1>4, <1>5

LEMMA EvaluateStep ==
    ASSUME IInv, Evaluate
    PROVE  IInv'
<1>1. pc = "answer" /\ Keep
  BY DEF Evaluate
<1>2. ASSUME NEW code, Done(code)
      PROVE  IInv'
  BY <1>1, <1>2, DoneStep
<1>3. CASE op = "exchange" /\ target = "store" /\ ScanStore
  BY <1>1, <1>3, ScanStoreStep
<1>4. CASE GoTo("parse")
  BY <1>1, <1>4, GoToStep
<1>. QED BY <1>2, <1>3, <1>4 DEF Evaluate

LEMMA StutterStep ==
    ASSUME IInv, UNCHANGED vars
    PROVE  IInv'
<1>1. UNCHANGED <<client, configuration, sets, handle, items, changes, store, careless>>
      /\ UNCHANGED <<pc, op, target, body, answer, cause, result>> /\ UNCHANGED parserVars
  BY DEF vars, appVars, callVars
<1>2. store \in Seq(AnyEntry) /\ Kept /\ body \in AnyBody /\ Exact' = Exact
  BY <1>1, Parts, ExactStays DEF Kept
<1>3. AppFits'
  BY <1>1, <1>2, Parts DEF AppFits, AppTypeOK, HandleFits, ItemsFit, StoreFits
<1>4. CallTypeOK'
  BY <1>1, Parts DEF CallTypeOK
<1>5. CallFits'
  BY <1>1, Parts DEF CallFits
<1>6. BodyFits'
  BY <1>1, <1>2, Parts, BodyStays
<1>7. ParserFits'
  BY <1>1, Parts DEF ParserFits, ParserIsNew, parserVars, Held
<1>8. QueueFits'
  BY <1>1, Parts DEF QueueFits
<1>9. SpaceFits'
  <2>1. SizeOf' = SizeOf
    BY <1>1, <1>2, SizesStay
  <2>2. Current' = Current /\ Waiting' = Waiting
    BY <1>1, <2>1 DEF Current, ItemOf, Waiting, Entries
  <2>. QED BY <1>1, <1>2, <2>2, Parts DEF SpaceFits
<1>. QED BY <1>1, <1>3, <1>4, <1>5, <1>6, <1>7, <1>8, <1>9, Collected

-----------------------------------------------------------------------------
(* The theorems.                                                           *)

LEMMA StepHolds ==
    ASSUME IInv, [Next]_vars
    PROVE  IInv'
<1>1. CASE UNCHANGED vars
  BY <1>1, StutterStep
<1>2. CASE SetCore \/ InitializeHandle \/ DestroyHandle \/ DestroyConfiguration \/ Rotate
  BY <1>2, PointersStep
<1>3. CASE \E i \in Names :
              CreateItem(i) \/ SetText(i) \/ SetTimestamp(i) \/ SetPath(i) \/ DestroyItem(i) \/ AddToStore(i)
  <2>1. PICK i \in Names :
            CreateItem(i) \/ SetText(i) \/ SetTimestamp(i) \/ SetPath(i) \/ DestroyItem(i) \/ AddToStore(i)
    BY <1>3
  <2>. QED BY <2>1, SettingStep, AppearStep, AddStep
<1>4. CASE Begin \/ GetToken \/ Validate \/ AllocateBody
  BY <1>4, BeginStep, GetTokenStep, ValidateStep, AllocateBodyStep
<1>5. CASE Rewind \/ WriteTuple \/ CloseBody
  BY <1>5, RewindStep, WriteTupleStep, CloseBodyStep
<1>6. CASE PrepareRequest \/ Send \/ Evaluate
  BY <1>6, PrepareRequestStep, SendStep, EvaluateStep
<1>7. CASE Parse \/ ParseOn \/ Corrupted \/ Parsed
  BY <1>7, ParseStep, ParseOnStep, CorruptedStep, ParsedStep
<1>8. CASE Finish \/ Restart
  BY <1>8, FinishStep, RestartStep
<1>. QED BY <1>1, <1>2, <1>3, <1>4, <1>5, <1>6, <1>7, <1>8 DEF Next

\* Every part of the program keeps its part of the invariant: the core, the configuration
\* and the handle, the items and the store, the composer and the parser.
THEOREM Invariance == Spec => []IInv
<1>1. Init => IInv
  BY InitHolds
<1>2. IInv /\ [Next]_vars => IInv'
  BY StepHolds
<1>. QED BY <1>1, <1>2, PTL DEF Spec

\* Every variable keeps its type; the store keeps within its limit, also when what was
\* processed is taken out of it (_remove_uploaded_store_items).
THEOREM TypeCorrect == Spec => []TypeOK
<1>1. IInv => TypeOK
  BY DEF IInv
<1>. QED BY <1>1, Invariance, PTL

\* A crash has one of the named causes, for every number of items, of entries and of
\* changes of the core: a pointer that was in use when it was replaced, an item that was
\* added twice (mcl_store_add), a file that could not be closed (_set_file_local_path), or
\* an answer for which memory ran out.
THEOREM CrashIsExplained == Spec => []CrashExplained
<1>1. IInv => CrashExplained
  BY DEF IInv, CallFits, CrashExplained
<1>. QED BY <1>1, Invariance, PTL

\* Only what is complete leaves: each tuple that multipart_add_tuple_with_callback has
\* finished is of an item with all its mandatory fields, whatever was set since the item
\* was added to the store.
THEOREM OnlyCompleteItems == Spec => []SentComplete
<1>1. IInv => SentComplete
  BY DEF IInv, BodyFits, EntryFits, IsComplete, SentComplete
<1>. QED BY <1>1, Invariance, PTL

\* What the parser has allocated and neither delivered nor freed is what mcl_list_add
\* refused, for every number of data sources and of data points, at whatever depth
\* parsing breaks off (json_parse_item and the destroy functions).
THEOREM ParserFrees == Spec => []ParserClean
<1>1. IInv => ParserClean
  BY DEF IInv, ParserFits, ParserClean
<1>. QED BY <1>1, Invariance, PTL

\* A body that was allocated by the estimate holds what is written to it, for every item
\* the application can make and every store of them: none is left out for space, and the
\* closing boundary fits, unless an item has grown since (json_get_item_size,
\* multipart_add_tuple_with_callback, multipart_close).
THEOREM EstimateIsEnough == Spec => []EstimateFits
<1>1. IInv => EstimateFits
  <2> SUFFICES ASSUME IInv PROVE EstimateFits
    OBVIOUS
  <2>1. SpaceFits /\ body \in AnyBody
    BY Parts
  <2>2. TooShort => ~Exact
    <3>1. pc = "compose" /\ body.queue = <<>> /\ Exact => body.left >= Close
      BY <2>1 DEF SpaceFits
    <3>2. body.left \in Int /\ Close \in Int
      BY <2>1 DEF AnyBody, Close
    <3>3. body.left >= Close => ~(body.left < Close)
      BY <3>2
    <3>. QED BY <2>1, <3>1, <3>3 DEF TooShort, SpaceFits
  <2>. QED BY <2>1, <2>2 DEF EstimateFits, Exact, SpaceFits
<1>. QED BY <1>1, Invariance, PTL
====
