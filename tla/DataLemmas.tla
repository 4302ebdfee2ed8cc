----------------------------- MODULE DataLemmas -----------------------------
(***************************************************************************)
(* Facts about the data the models are made of.                            *)
(*                                                                         *)
(* Lists without repetitions, as the free lists of the pools and the       *)
(* queues of the price levels are: what each operator of the models does   *)
(* to the elements of such a list.  Sums over finite sets.                 *)
(***************************************************************************)
EXTENDS Integers, Sequences, FiniteSets, SequencesExt, TLAPS,
        SequenceTheorems, FiniteSetTheorems

(* freeList_ and a level's list when they hold nothing.                    *)
LEMMA EmptyList ==
  ASSUME NEW S
  PROVE  /\ <<>> \in Seq(S) /\ IsInjective(<<>>) /\ ToSet(<<>>) = {}
         /\ \A q \in Seq(S) : ToSet(q) = {} <=> q = <<>>
<1>1. <<>> \in Seq(S) /\ Len(<<>>) = 0 /\ DOMAIN <<>> = 1 .. 0
  OBVIOUS
<1>2. IsInjective(<<>>)
  BY <1>1 DEF IsInjective
<1>3. ASSUME NEW q \in Seq(S)
      PROVE  ToSet(q) = {} <=> q = <<>>
  <2>1. Len(q) \in Nat /\ DOMAIN q = 1 .. Len(q)
    OBVIOUS
  <2>2. ASSUME q # <<>> PROVE q[1] \in ToSet(q)
    BY <2>1, <2>2, EmptySeq DEF ToSet
  <2>3. ASSUME q = <<>> PROVE ToSet(q) = {}
    BY <1>1, <2>3 DEF ToSet
  <2>4. QED
    BY <2>2, <2>3
<1>4. QED
  BY <1>1, <1>2, <1>3

(* A list's elements are what its indices reach.                           *)
LEMMA ListElements ==
  ASSUME NEW S, NEW q \in Seq(S)
  PROVE  /\ DOMAIN q = 1 .. Len(q)
         /\ ToSet(q) \subseteq S
         /\ \A x : x \in ToSet(q) <=> \E i \in 1 .. Len(q) : q[i] = x
  BY DEF ToSet

(* Appending a new element: deallocate(), append().                        *)
LEMMA AppendList ==
  ASSUME NEW S, NEW q \in Seq(S), NEW x \in S, IsInjective(q), x \notin ToSet(q)
  PROVE  /\ Append(q, x) \in Seq(S)
         /\ Append(q, x) # <<>>
         /\ IsInjective(Append(q, x))
         /\ ToSet(Append(q, x)) = ToSet(q) \cup {x}
  BY AppendProperties DEF IsInjective, ToSet

(* Taking the last element off: allocate().                                *)
LEMMA FrontList ==
  ASSUME NEW S, NEW q \in Seq(S), IsInjective(q), q # <<>>
  PROVE  /\ Last(q) \in ToSet(q) /\ Last(q) \in S
         /\ Front(q) \in Seq(S)
         /\ IsInjective(Front(q))
         /\ ToSet(Front(q)) = ToSet(q) \ {Last(q)}
<1>1. /\ Len(q) \in Nat \ {0} /\ DOMAIN q = 1 .. Len(q)
      /\ \A i \in 1 .. Len(q) : q[i] \in S
  BY DEF IsInjective
<1>2. /\ Front(q) \in Seq(S) /\ Len(Front(q)) = Len(q) - 1
      /\ \A i \in 1 .. Len(q) - 1 : Front(q)[i] = q[i]
  <2>1. /\ SubSeq(q, 1, Len(q) - 1) \in Seq(S)
        /\ Len(SubSeq(q, 1, Len(q) - 1)) =
             IF 1 <= Len(q) - 1 THEN Len(q) - 1 - 1 + 1 ELSE 0
        /\ \A i \in 1 .. Len(q) - 1 - 1 + 1 : SubSeq(q, 1, Len(q) - 1)[i] = q[1 + i - 1]
    BY <1>1, SubSeqProperties
  <2>2. QED
    BY <1>1, <2>1 DEF Front
<1>3. DOMAIN Front(q) = 1 .. Len(q) - 1
  BY <1>1, <1>2
<1>4. QED
  BY <1>1, <1>2, <1>3 DEF Last, IsInjective, ToSet

(* Taking element i out: remove().                                         *)
LEMMA RemoveAtList ==
  ASSUME NEW S, NEW q \in Seq(S), NEW i \in 1 .. Len(q)
  PROVE  /\ RemoveAt(q, i) \in Seq(S)
         /\ Len(RemoveAt(q, i)) = Len(q) - 1
         /\ \A j \in 1 .. Len(q) - 1 :
              RemoveAt(q, i)[j] = IF j < i THEN q[j] ELSE q[j + 1]
<1> DEFINE a == SubSeq(q, 1, i - 1)
           b == SubSeq(q, i + 1, Len(q))
<1>1. /\ Len(q) \in Nat \ {0} /\ i \in Int /\ i - 1 \in Int /\ i + 1 \in Int /\ Len(q) \in Int
      /\ \A j \in 1 .. Len(q) : q[j] \in S
  OBVIOUS
<1>2. /\ a \in Seq(S) /\ Len(a) = i - 1
      /\ \A j \in 1 .. i - 1 : a[j] = q[j]
  <2>1. /\ a \in Seq(S)
        /\ Len(a) = IF 1 <= i - 1 THEN i - 1 - 1 + 1 ELSE 0
        /\ \A j \in 1 .. i - 1 - 1 + 1 : a[j] = q[1 + j - 1]
    BY <1>1, SubSeqProperties
  <2>2. QED
    BY <1>1, <2>1
<1>3. /\ b \in Seq(S) /\ Len(b) = Len(q) - i
      /\ \A j \in 1 .. Len(q) - i : b[j] = q[i + j]
  <2>1. /\ b \in Seq(S)
        /\ Len(b) = IF i + 1 <= Len(q) THEN Len(q) - (i + 1) + 1 ELSE 0
        /\ \A j \in 1 .. Len(q) - (i + 1) + 1 : b[j] = q[i + 1 + j - 1]
    BY <1>1, SubSeqProperties
  <2>2. QED
    BY <1>1, <2>1
<1>4. /\ a \o b \in Seq(S) /\ Len(a \o b) = Len(a) + Len(b)
      /\ \A j \in 1 .. Len(a) + Len(b) :
           (a \o b)[j] = IF j <= Len(a) THEN a[j] ELSE b[j - Len(a)]
  BY <1>2, <1>3, ConcatProperties
<1> HIDE DEF a, b
<1>5. RemoveAt(q, i) = a \o b
  BY DEF RemoveAt, a, b
<1>6. ASSUME NEW j \in 1 .. Len(q) - 1
      PROVE  (a \o b)[j] = IF j < i THEN q[j] ELSE q[j + 1]
  <2>1. CASE j < i
    BY <2>1, <1>1, <1>2, <1>3, <1>4
  <2>2. CASE ~(j < i)
    <3>1. j \in 1 .. Len(a) + Len(b) /\ j - Len(a) \in 1 .. Len(q) - i /\ ~(j <= Len(a))
      BY <2>2, <1>1, <1>2, <1>3
    <3>2. (a \o b)[j] = b[j - Len(a)] /\ b[j - Len(a)] = q[i + (j - Len(a))]
      BY <3>1, <1>3, <1>4
    <3>3. i + (j - Len(a)) = j + 1
      BY <1>1, <1>2
    <3>4. QED
      BY <2>2, <3>2, <3>3
  <2>3. QED
    BY <2>1, <2>2
<1>7. QED
  <2>1. a \o b \in Seq(S) /\ Len(a \o b) = Len(q) - 1
    BY <1>1, <1>2, <1>3, <1>4
  <2>2. QED
    BY <1>5, <1>6, <2>1

(* remove(): the list without one of its elements; the first element of    *)
(* what remains is the old one, unless that is the one removed.            *)
LEMMA RemoveList ==
  ASSUME NEW S, NEW q \in Seq(S), IsInjective(q),
         NEW i \in 1 .. Len(q)
  PROVE  /\ RemoveAt(q, i) \in Seq(S)
         /\ IsInjective(RemoveAt(q, i))
         /\ ToSet(RemoveAt(q, i)) = ToSet(q) \ {q[i]}
         /\ i = 1 => \A j \in 1 .. Len(q) - 1 : RemoveAt(q, i)[j] = q[j + 1]
<1> DEFINE r == RemoveAt(q, i)
<1>1. /\ Len(q) \in Nat /\ DOMAIN q = 1 .. Len(q)
      /\ \A j, k \in 1 .. Len(q) : q[j] = q[k] => j = k
  BY DEF IsInjective
<1>2. /\ r \in Seq(S) /\ Len(r) = Len(q) - 1 /\ DOMAIN r = 1 .. Len(q) - 1
      /\ \A j \in 1 .. Len(q) - 1 : r[j] = IF j < i THEN q[j] ELSE q[j + 1]
  BY RemoveAtList
<1> HIDE DEF r
<1>3. IsInjective(r)
  BY <1>1, <1>2 DEF IsInjective
<1>4. ASSUME NEW x \in ToSet(r) PROVE x \in ToSet(q) \ {q[i]}
  <2>1. PICK j \in 1 .. Len(q) - 1 : r[j] = x
    BY <1>2 DEF ToSet
  <2>2. PICK k \in 1 .. Len(q) : q[k] = x /\ k # i
    BY <1>1, <1>2, <2>1
  <2>3. QED
    BY <1>1, <2>2 DEF ToSet
<1>5. ASSUME NEW x \in ToSet(q) \ {q[i]} PROVE x \in ToSet(r)
  <2>1. PICK k \in 1 .. Len(q) : q[k] = x
    BY <1>1 DEF ToSet
  <2>2. k # i
    BY <2>1
  <2>3. CASE k < i
    <3>1. k \in 1 .. Len(q) - 1 /\ r[k] = x
      BY <1>1, <1>2, <2>1, <2>3
    <3>2. QED
      BY <1>2, <3>1 DEF ToSet
  <2>4. CASE k > i
    <3>1. k - 1 \in 1 .. Len(q) - 1 /\ ~(k - 1 < i) /\ k - 1 + 1 = k
      BY <1>1, <2>4
    <3>2. r[k - 1] = x
      BY <1>2, <2>1, <3>1
    <3>3. QED
      BY <1>2, <3>1, <3>2 DEF ToSet
  <2>5. QED
    BY <1>1, <2>2, <2>3, <2>4
<1>6. i = 1 => \A j \in 1 .. Len(q) - 1 : r[j] = q[j + 1]
  BY <1>1, <1>2
<1>7. QED
  BY <1>2, <1>3, <1>4, <1>5, <1>6 DEF r

(* Emptying a container in some order: the destructor's loops.             *)
LEMMA EnumerationList ==
  ASSUME NEW S, NEW T \in SUBSET S, IsFiniteSet(S)
  PROVE  /\ SetToSeq(T) \in Seq(S)
         /\ IsInjective(SetToSeq(T))
         /\ ToSet(SetToSeq(T)) = T
<1>1. IsFiniteSet(T) /\ Cardinality(T) \in Nat
      /\ ExistsBijection(1 .. Cardinality(T), T)
  BY FS_Subset, FS_CardinalityType
<1> DEFINE n == Cardinality(T)
           e == SetToSeq(T)
<1>2. PICK f : f \in Bijection(1 .. n, T)
  BY <1>1 DEF ExistsBijection
<1>3. f \in [1 .. n -> T] /\ IsInjective(f)
  BY <1>2 DEF Bijection, Injection
<1>4. e \in [1 .. n -> T] /\ IsInjective(e)
  BY <1>3 DEF SetToSeq
<1>5. e \in Injection(1 .. n, T)
  BY <1>4 DEF Injection
<1>6. Cardinality(1 .. n) = n
  BY <1>1, FS_Interval
<1>7. e \in Surjection(1 .. n, T)
  BY <1>1, <1>5, <1>6, FS_Injection
<1>8. ToSet(e) = T
  BY <1>4, <1>7 DEF Surjection, ToSet
<1>9. e \in Seq(S)
  BY <1>1, <1>4
<1>10. QED
  BY <1>4, <1>8, <1>9

LEMMA ConcatList ==
  ASSUME NEW S, NEW p \in Seq(S), NEW q \in Seq(S),
         IsInjective(p), IsInjective(q), ToSet(p) \cap ToSet(q) = {}
  PROVE  /\ p \o q \in Seq(S)
         /\ IsInjective(p \o q)
         /\ ToSet(p \o q) = ToSet(p) \cup ToSet(q)
<1> DEFINE r == p \o q
<1>1. /\ Len(p) \in Nat /\ Len(q) \in Nat
      /\ DOMAIN p = 1 .. Len(p) /\ DOMAIN q = 1 .. Len(q)
  OBVIOUS
<1>2. /\ r \in Seq(S) /\ Len(r) = Len(p) + Len(q)
      /\ DOMAIN r = 1 .. Len(p) + Len(q)
      /\ \A i \in 1 .. Len(p) + Len(q) :
           r[i] = IF i <= Len(p) THEN p[i] ELSE q[i - Len(p)]
  BY ConcatProperties
<1> HIDE DEF r
<1>3. \A i \in 1 .. Len(p) : i \in 1 .. Len(p) + Len(q) /\ r[i] = p[i]
  BY <1>1, <1>2
<1>4. \A i \in 1 .. Len(q) :
        Len(p) + i \in 1 .. Len(p) + Len(q) /\ r[Len(p) + i] = q[i]
  <2>1. ASSUME NEW i \in 1 .. Len(q)
        PROVE  Len(p) + i \in 1 .. Len(p) + Len(q) /\ r[Len(p) + i] = q[i]
    <3>1. /\ Len(p) + i \in 1 .. Len(p) + Len(q) /\ ~(Len(p) + i <= Len(p))
          /\ Len(p) + i - Len(p) = i
      BY <1>1
    <3>2. QED
      BY <1>2, <3>1
  <2>2. QED
    BY <2>1
<1>5. \A i \in 1 .. Len(p) + Len(q) :
        \/ i \in 1 .. Len(p)
        \/ \E j \in 1 .. Len(q) : i = Len(p) + j
  <2>1. ASSUME NEW i \in 1 .. Len(p) + Len(q), i \notin 1 .. Len(p)
        PROVE  \E j \in 1 .. Len(q) : i = Len(p) + j
    <3>1. i - Len(p) \in 1 .. Len(q) /\ i = Len(p) + (i - Len(p))
      BY <1>1, <2>1
    <3>2. QED
      BY <3>1
  <2>2. QED
    BY <2>1
<1>6. ToSet(r) = ToSet(p) \cup ToSet(q)
  <2>1. ASSUME NEW x \in ToSet(r) PROVE x \in ToSet(p) \cup ToSet(q)
    <3>1. PICK i \in 1 .. Len(p) + Len(q) : r[i] = x
      BY <1>2 DEF ToSet
    <3>2. CASE i \in 1 .. Len(p)
      BY <1>1, <1>3, <3>1, <3>2 DEF ToSet
    <3>3. CASE i \notin 1 .. Len(p)
      <4>1. PICK j \in 1 .. Len(q) : i = Len(p) + j
        BY <1>5, <3>3
      <4>2. q[j] = x
        BY <1>4, <3>1, <4>1
      <4>3. QED
        BY <1>1, <4>2 DEF ToSet
    <3>4. QED
      BY <3>2, <3>3
  <2>2. ASSUME NEW x \in ToSet(p) PROVE x \in ToSet(r)
    BY <1>1, <1>2, <1>3 DEF ToSet
  <2>3. ASSUME NEW x \in ToSet(q) PROVE x \in ToSet(r)
    <3>1. PICK j \in 1 .. Len(q) : q[j] = x
      BY <1>1 DEF ToSet
    <3>2. Len(p) + j \in 1 .. Len(p) + Len(q) /\ r[Len(p) + j] = x
      BY <1>4, <3>1
    <3>3. QED
      BY <1>2, <3>2 DEF ToSet
  <2>4. QED
    BY <2>1, <2>2, <2>3
<1>7. ASSUME NEW i \in 1 .. Len(p) + Len(q), NEW j \in 1 .. Len(p) + Len(q),
             r[i] = r[j]
      PROVE  i = j
  <2>1. \A k \in 1 .. Len(p), m \in 1 .. Len(q) : p[k] # q[m]
    BY <1>1 DEF ToSet
  <2>2. CASE i \in 1 .. Len(p) /\ j \in 1 .. Len(p)
    BY <1>1, <1>3, <1>7, <2>2 DEF IsInjective
  <2>3. CASE i \in 1 .. Len(p) /\ j \notin 1 .. Len(p)
    <3>1. PICK m \in 1 .. Len(q) : j = Len(p) + m
      BY <1>5, <2>3
    <3>2. p[i] = q[m]
      BY <1>3, <1>4, <1>7, <2>3, <3>1
    <3>3. QED
      BY <2>1, <2>3, <3>2
  <2>4. CASE i \notin 1 .. Len(p) /\ j \in 1 .. Len(p)
    <3>1. PICK m \in 1 .. Len(q) : i = Len(p) + m
      BY <1>5, <2>4
    <3>2. p[j] = q[m]
      BY <1>3, <1>4, <1>7, <2>4, <3>1
    <3>3. QED
      BY <2>1, <2>4, <3>2
  <2>5. CASE i \notin 1 .. Len(p) /\ j \notin 1 .. Len(p)
    <3>1. PICK k \in 1 .. Len(q) : i = Len(p) + k
      BY <1>5, <2>5
    <3>2. PICK m \in 1 .. Len(q) : j = Len(p) + m
      BY <1>5, <2>5
    <3>3. q[k] = q[m]
      BY <1>4, <1>7, <3>1, <3>2
    <3>4. k = m
      BY <1>1, <3>3 DEF IsInjective
    <3>5. QED
      BY <3>1, <3>2, <3>4
  <2>6. QED
    BY <2>2, <2>3, <2>4, <2>5
<1>8. IsInjective(r)
  BY <1>2, <1>7 DEF IsInjective
<1>9. QED
  BY <1>2, <1>6, <1>8 DEF r

(* A list without repetitions is as long as it has elements.               *)
LEMMA DistinctListLength ==
  ASSUME NEW S, NEW q \in Seq(S), IsInjective(q)
  PROVE  Len(q) = Cardinality(ToSet(q))
<1>1. Len(q) \in Nat /\ DOMAIN q = 1 .. Len(q) /\ q \in [1 .. Len(q) -> ToSet(q)]
  BY DEF ToSet
<1>2. q \in Bijection(1 .. Len(q), ToSet(q))
  BY <1>1 DEF Bijection, Injection, Surjection, IsInjective, ToSet
<1> QED BY <1>1, <1>2, FS_CountingElements DEF ExistsBijection
-----------------------------------------------------------------------------
(* Induction on the subsets of a finite set, told with a set of subsets in *)
(* the place of a predicate.                                               *)
LEMMA SubsetInduction ==
  ASSUME NEW S, IsFiniteSet(S), NEW P \in SUBSET SUBSET S, {} \in P,
         \A A \in SUBSET S : A # {} /\ (\A x \in A : A \ {x} \in P) => A \in P
  PROVE  P = SUBSET S
<1> DEFINE T == (SUBSET S) \ P
           R == StrictSubsetOrdering(S)
<1>1. SUFFICES ASSUME T # {} PROVE FALSE
  OBVIOUS
<1>2. IsWellFoundedOn(R, SUBSET S)
  BY FS_StrictSubsetOrderingWellFounded, FS_FiniteSubsetsOfFinite
<1>3. PICK A \in T : \A B \in T : <<B, A>> \notin R
  <2> HIDE DEF T, R
  <2>1. T \subseteq SUBSET S
    BY DEF T
  <2> QED BY <1>1, <1>2, <2>1, WFMin
<1>4. ASSUME NEW x \in A PROVE A \ {x} \in P
  <2>1. <<A \ {x}, A>> \in R
    BY DEF StrictSubsetOrdering
  <2> QED BY <1>3, <2>1
<1> QED BY <1>3, <1>4

(***************************************************************************)
(* Sums.                                                                   *)
(***************************************************************************)
Total(f, S) == MapThenSumSet(LAMBDA x : f[x], S)

(* A sum taken in the order of CHOOSE, as a function of the subset.        *)
Adds(f, S, g) ==
  g = [A \in SUBSET S |->
         IF A = {} THEN 0
         ELSE f[CHOOSE x \in A : TRUE] + g[A \ {CHOOSE x \in A : TRUE}]]

LEMMA TotalAdds ==
  ASSUME NEW f, NEW S
  PROVE  Total(f, S) = (CHOOSE g : Adds(f, S, g))[S]
  BY DEF Total, MapThenSumSet, MapThenFoldSet, Adds
Chosen(A) == CHOOSE x \in A : TRUE

LEMMA ChosenIn ==
  ASSUME NEW A, A # {} PROVE Chosen(A) \in A
  BY DEF Chosen

LEMMA AddsAt ==
  ASSUME NEW f, NEW S, NEW g, Adds(f, S, g)
  PROVE  /\ g[{}] = 0
         /\ \A A \in SUBSET S : A # {} => g[A] = f[Chosen(A)] + g[A \ {Chosen(A)}]
  BY DEF Adds, Chosen

(* Two such functions agree on the subsets they share.                     *)
LEMMA AddsUnique ==
  ASSUME NEW f, NEW S, IsFiniteSet(S), NEW g, Adds(f, S, g),
         NEW T, S \subseteq T, NEW h, Adds(f, T, h)
  PROVE  \A A \in SUBSET S : g[A] = h[A]
<1> DEFINE P == {A \in SUBSET S : g[A] = h[A]}
<1>0. /\ g[{}] = 0 /\ h[{}] = 0
      /\ \A B \in SUBSET S : B # {} => g[B] = f[Chosen(B)] + g[B \ {Chosen(B)}]
      /\ \A B \in SUBSET T : B # {} => h[B] = f[Chosen(B)] + h[B \ {Chosen(B)}]
  BY AddsAt
<1>1. {} \in P
  BY <1>0
<1>2. ASSUME NEW A \in SUBSET S, A # {}, \A x \in A : A \ {x} \in P PROVE A \in P
  <2>1. g[A \ {Chosen(A)}] = h[A \ {Chosen(A)}]
    BY <1>2, ChosenIn
  <2>2. g[A] = f[Chosen(A)] + g[A \ {Chosen(A)}] /\ h[A] = f[Chosen(A)] + h[A \ {Chosen(A)}]
    <3>1. A \in SUBSET T
      OBVIOUS
    <3> QED BY <1>0, <1>2, <3>1
  <2> QED BY <2>1, <2>2
<1>3. P \in SUBSET SUBSET S
  OBVIOUS
<1> HIDE DEF P
<1>4. P = SUBSET S
  BY <1>1, <1>2, <1>3, SubsetInduction
<1> QED BY <1>4 DEF P

LEMMA AddsRestricts ==
  ASSUME NEW f, NEW S, NEW T, S \subseteq T, NEW h, Adds(f, T, h)
  PROVE  \E g : Adds(f, S, g)
<1> DEFINE g == [A \in SUBSET S |-> h[A]]
<1>1. ASSUME NEW A \in SUBSET S
      PROVE  h[A] = IF A = {} THEN 0 ELSE f[Chosen(A)] + h[A \ {Chosen(A)}]
  <2>1. /\ h[{}] = 0
        /\ \A B \in SUBSET T : B # {} => h[B] = f[Chosen(B)] + h[B \ {Chosen(B)}]
    BY AddsAt
  <2>2. A \in SUBSET T
    OBVIOUS
  <2> QED BY <2>1, <2>2
<1>2. g = [A \in SUBSET S |-> IF A = {} THEN 0 ELSE f[Chosen(A)] + g[A \ {Chosen(A)}]]
  BY <1>1
<1>3. Adds(f, S, g)
  BY <1>2 DEF Adds, Chosen
<1> QED BY <1>3

LEMMA AddsExists ==
  ASSUME NEW f, NEW S, IsFiniteSet(S) PROVE \E g : Adds(f, S, g)
<1> DEFINE P == {A \in SUBSET S : \E g : Adds(f, A, g)}
           H(A) == (CHOOSE g : Adds(f, A, g))[A]
<1>1. {} \in P
  <2>1. Adds(f, {}, [A \in SUBSET {} |-> 0])
    BY DEF Adds
  <2> QED BY <2>1
<1>2. ASSUME NEW A \in SUBSET S, A # {}, \A x \in A : A \ {x} \in P PROVE A \in P
  <2>1. ASSUME NEW B \in SUBSET A, B # A PROVE Adds(f, B, CHOOSE g : Adds(f, B, g))
    <3>1. PICK x \in A : x \notin B
      BY <2>1
    <3>2. PICK h : Adds(f, A \ {x}, h)
      BY <1>2
    <3>3. B \subseteq A \ {x}
      BY <3>1
    <3>4. \E g : Adds(f, B, g)
      BY <3>2, <3>3, AddsRestricts
    <3> QED BY <3>4
  <2>2. ASSUME NEW B \in SUBSET A, B # A, B # {}
        PROVE  H(B) = f[Chosen(B)] + H(B \ {Chosen(B)})
    <3> DEFINE C == B \ {Chosen(B)}
               gB == CHOOSE g : Adds(f, B, g)
               gC == CHOOSE g : Adds(f, C, g)
    <3>1. C \subseteq B /\ C \in SUBSET A /\ C # A /\ IsFiniteSet(C)
      BY <2>2, FS_Subset
    <3>2. Adds(f, B, gB) /\ Adds(f, C, gC)
      BY <2>1, <2>2, <3>1
    <3> HIDE DEF gB, gC, C
    <3>3. gC[C] = gB[C]
      BY <3>1, <3>2, AddsUnique
    <3>4. gB[B] = f[Chosen(B)] + gB[C]
      BY <2>2, <3>2, AddsAt DEF C
    <3> QED BY <3>3, <3>4 DEF gB, gC, C
  <2>3. H({}) = 0
    BY <1>2, <2>1, AddsAt
  <2> DEFINE k == [B \in SUBSET A |->
                     IF B = {} THEN 0 ELSE f[Chosen(B)] + H(B \ {Chosen(B)})]
  <2> HIDE DEF H
  <2>4. ASSUME NEW B \in SUBSET A, B # {}
        PROVE  H(B \ {Chosen(B)}) = k[B \ {Chosen(B)}]
    <3> DEFINE C == B \ {Chosen(B)}
    <3>1. C \in SUBSET A /\ C # A
      BY <2>4, ChosenIn
    <3> HIDE DEF C
    <3>2. k[C] = IF C = {} THEN 0 ELSE f[Chosen(C)] + H(C \ {Chosen(C)})
      BY <3>1
    <3>3. H(C) = k[C]
      BY <2>2, <2>3, <3>1, <3>2
    <3> QED BY <3>3 DEF C
  <2>5. k = [B \in SUBSET A |-> IF B = {} THEN 0 ELSE f[Chosen(B)] + k[B \ {Chosen(B)}]]
    BY <2>4
  <2>6. Adds(f, A, k)
    BY <2>5 DEF Adds, Chosen
  <2> QED BY <2>6
<1>3. P \in SUBSET SUBSET S
  OBVIOUS
<1> HIDE DEF P
<1>4. P = SUBSET S
  BY <1>1, <1>2, <1>3, SubsetInduction
<1> QED BY <1>4 DEF P

LEMMA TotalEmpty == ASSUME NEW f PROVE Total(f, {}) = 0
  BY TotalAdds, AddsExists, FS_EmptySet, AddsAt

LEMMA TotalChosen ==
  ASSUME NEW f, NEW S, IsFiniteSet(S), S # {}
  PROVE  Total(f, S) = f[Chosen(S)] + Total(f, S \ {Chosen(S)})
<1> DEFINE C == S \ {Chosen(S)}
           gS == CHOOSE g : Adds(f, S, g)
           gC == CHOOSE g : Adds(f, C, g)
<1>1. C \subseteq S /\ IsFiniteSet(C)
  BY FS_Subset
<1>2. Adds(f, S, gS) /\ Adds(f, C, gC)
  BY <1>1, AddsExists
<1>3. Total(f, S) = gS[S] /\ Total(f, C) = gC[C]
  BY TotalAdds
<1> HIDE DEF gS, gC, C
<1>4. gC[C] = gS[C]
  BY <1>1, <1>2, AddsUnique
<1>5. gS[S] = f[Chosen(S)] + gS[C]
  BY <1>2, AddsAt DEF C
<1> QED BY <1>3, <1>4, <1>5 DEF C
LEMMA TotalNat ==
  ASSUME NEW f, NEW S, IsFiniteSet(S), \A x \in S : f[x] \in Nat
  PROVE  Total(f, S) \in Nat
<1> DEFINE P == {A \in SUBSET S : Total(f, A) \in Nat}
<1>1. {} \in P
  BY TotalEmpty
<1>2. ASSUME NEW A \in SUBSET S, A # {}, \A x \in A : A \ {x} \in P PROVE A \in P
  <2>1. IsFiniteSet(A) /\ Chosen(A) \in A
    BY <1>2, FS_Subset, ChosenIn
  <2>2. Total(f, A) = f[Chosen(A)] + Total(f, A \ {Chosen(A)})
    BY <1>2, <2>1, TotalChosen
  <2>3. Total(f, A \ {Chosen(A)}) \in Nat /\ f[Chosen(A)] \in Nat
    BY <1>2, <2>1
  <2> QED BY <2>2, <2>3
<1>3. P \in SUBSET SUBSET S
  OBVIOUS
<1> HIDE DEF P
<1>4. P = SUBSET S
  BY <1>1, <1>2, <1>3, SubsetInduction
<1> QED BY <1>4 DEF P

(* A sum may be begun with any of its terms.                               *)
LEMMA TotalTake ==
  ASSUME NEW f, NEW S, IsFiniteSet(S), \A x \in S : f[x] \in Nat, NEW y \in S
  PROVE  Total(f, S) = f[y] + Total(f, S \ {y})
<1> DEFINE P == {A \in SUBSET S : \A x \in A : Total(f, A) = f[x] + Total(f, A \ {x})}
<1>1. {} \in P
  OBVIOUS
<1>2. ASSUME NEW A \in SUBSET S, A # {}, \A x \in A : A \ {x} \in P PROVE A \in P
  <2> DEFINE c == Chosen(A)
  <2>1. IsFiniteSet(A) /\ c \in A
    BY <1>2, FS_Subset, ChosenIn
  <2>2. Total(f, A) = f[c] + Total(f, A \ {c})
    BY <1>2, <2>1, TotalChosen
  <2> HIDE DEF c
  <2>3. ASSUME NEW x \in A, x # c PROVE Total(f, A) = f[x] + Total(f, A \ {x})
    <3> DEFINE r == Total(f, (A \ {x}) \ {c})
    <3>1. Total(f, A \ {c}) = f[x] + Total(f, (A \ {c}) \ {x})
      BY <1>2, <2>1, <2>3
    <3>2. Total(f, A \ {x}) = f[c] + Total(f, (A \ {x}) \ {c})
      BY <1>2, <2>1, <2>3
    <3>3. (A \ {c}) \ {x} = (A \ {x}) \ {c}
      OBVIOUS
    <3>4. r \in Nat /\ f[x] \in Nat /\ f[c] \in Nat
      <4>1. IsFiniteSet((A \ {x}) \ {c}) /\ \A z \in (A \ {x}) \ {c} : f[z] \in Nat
        BY <2>1, FS_Subset
      <4>2. r \in Nat
        BY <4>1, TotalNat
      <4> QED BY <2>1, <2>3, <4>2
    <3>5. Total(f, A \ {c}) = f[x] + r /\ Total(f, A \ {x}) = f[c] + r
      BY <3>1, <3>2, <3>3
    <3> HIDE DEF r
    <3> QED BY <2>2, <3>4, <3>5
  <2> QED BY <2>1, <2>2, <2>3
<1>3. P \in SUBSET SUBSET S
  OBVIOUS
<1> HIDE DEF P
<1>4. P = SUBSET S
  BY <1>1, <1>2, <1>3, SubsetInduction
<1>5. S \in P
  BY <1>4
<1> QED BY <1>5 DEF P

LEMMA TotalSame ==
  ASSUME NEW f, NEW g, NEW S, IsFiniteSet(S), \A x \in S : f[x] = g[x]
  PROVE  Total(f, S) = Total(g, S)
<1> DEFINE P == {A \in SUBSET S : Total(f, A) = Total(g, A)}
<1>1. {} \in P
  BY TotalEmpty
<1>2. ASSUME NEW A \in SUBSET S, A # {}, \A x \in A : A \ {x} \in P PROVE A \in P
  <2>1. IsFiniteSet(A) /\ Chosen(A) \in A
    BY <1>2, FS_Subset, ChosenIn
  <2>2. /\ Total(f, A) = f[Chosen(A)] + Total(f, A \ {Chosen(A)})
        /\ Total(g, A) = g[Chosen(A)] + Total(g, A \ {Chosen(A)})
    BY <1>2, <2>1, TotalChosen
  <2>3. Total(f, A \ {Chosen(A)}) = Total(g, A \ {Chosen(A)}) /\ f[Chosen(A)] = g[Chosen(A)]
    BY <1>2, <2>1
  <2> QED BY <2>2, <2>3
<1>3. P \in SUBSET SUBSET S
  OBVIOUS
<1> HIDE DEF P
<1>4. P = SUBSET S
  BY <1>1, <1>2, <1>3, SubsetInduction
<1> QED BY <1>4 DEF P

(* A term changes and the sum with it.                                     *)
LEMMA TotalChange ==
  ASSUME NEW f, NEW g, NEW S, IsFiniteSet(S), NEW y \in S,
         \A x \in S : f[x] \in Nat /\ g[x] \in Nat,
         \A x \in S \ {y} : g[x] = f[x]
  PROVE  Total(g, S) + f[y] = Total(f, S) + g[y]
<1> DEFINE r == Total(f, S \ {y})
<1>1. Total(f, S) = f[y] + r /\ Total(g, S) = g[y] + Total(g, S \ {y})
  BY TotalTake
<1>2. IsFiniteSet(S \ {y})
  BY FS_Subset
<1>3. Total(g, S \ {y}) = r /\ r \in Nat
  BY <1>2, TotalSame, TotalNat
<1> HIDE DEF r
<1> QED BY <1>1, <1>3

(* All terms are the same, or none is greater.                             *)
LEMMA TotalBound ==
  ASSUME NEW f, NEW S, IsFiniteSet(S), NEW k \in Nat,
         \A x \in S : f[x] \in Nat /\ f[x] <= k
  PROVE  /\ Total(f, S) <= Cardinality(S) * k
         /\ (\A x \in S : f[x] = k) => Total(f, S) = Cardinality(S) * k
<1> DEFINE Q(A) == /\ Total(f, A) <= Cardinality(A) * k
                   /\ (\A x \in A : f[x] = k) => Total(f, A) = Cardinality(A) * k
           P == {A \in SUBSET S : Q(A)}
<1>1. {} \in P
  BY TotalEmpty, FS_EmptySet
<1>2. ASSUME NEW A \in SUBSET S, A # {}, \A x \in A : A \ {x} \in P PROVE A \in P
  <2> DEFINE c == Chosen(A)
             r == Total(f, A \ {c})
             n == Cardinality(A \ {c})
  <2>1. IsFiniteSet(A) /\ c \in A /\ A \ {c} \in P
    BY <1>2, FS_Subset, ChosenIn
  <2>2. Total(f, A) = f[c] + r
    BY <1>2, <2>1, TotalChosen
  <2>3. Cardinality(A) = n + 1 /\ n \in Nat
    <3>1. IsFiniteSet(A \ {c})
      BY <2>1, FS_Subset
    <3>2. n \in Nat /\ Cardinality(A) \in Nat /\ n = Cardinality(A) - 1
      BY <2>1, <3>1, FS_RemoveElement, FS_CardinalityType
    <3> HIDE DEF n
    <3> QED BY <3>2
  <2>4. r \in Nat
    BY <2>1, FS_Subset, TotalNat
  <2>5. Q(A \ {c})
    BY <2>1
  <2>6. f[c] \in Nat /\ f[c] <= k
    BY <2>1
  <2>7. (n + 1) * k = n * k + k
    BY <2>3
  <2> HIDE DEF r, n, c
  <2>8. Total(f, A) <= Cardinality(A) * k
    BY <2>2, <2>3, <2>4, <2>5, <2>6, <2>7 DEF r, n
  <2>9. ASSUME \A x \in A : f[x] = k PROVE Total(f, A) = Cardinality(A) * k
    <3>1. r = n * k /\ f[c] = k
      BY <2>1, <2>5, <2>9 DEF r, n
    <3> QED BY <2>2, <2>3, <2>7, <3>1
  <2> QED BY <2>8, <2>9
<1>3. P \in SUBSET SUBSET S
  OBVIOUS
<1> HIDE DEF P
<1>4. P = SUBSET S
  BY <1>1, <1>2, <1>3, SubsetInduction
<1>5. S \in P
  BY <1>4
<1> QED BY <1>5 DEF P

(* Greater terms, a greater sum.                                           *)
LEMMA TotalMonotone ==
  ASSUME NEW f, NEW g, NEW S, IsFiniteSet(S),
         \A x \in S : f[x] \in Nat /\ g[x] \in Nat /\ f[x] <= g[x]
  PROVE  Total(f, S) <= Total(g, S)
<1> DEFINE P == {A \in SUBSET S : Total(f, A) <= Total(g, A)}
<1>1. {} \in P
  BY TotalEmpty
<1>2. ASSUME NEW A \in SUBSET S, A # {}, \A x \in A : A \ {x} \in P PROVE A \in P
  <2> DEFINE c == Chosen(A)
             r == Total(f, A \ {c})
             t == Total(g, A \ {c})
  <2>1. IsFiniteSet(A) /\ c \in A /\ A \ {c} \in P /\ IsFiniteSet(A \ {c})
    BY <1>2, FS_Subset, ChosenIn
  <2>2. Total(f, A) = f[c] + r /\ Total(g, A) = g[c] + t
    BY <1>2, <2>1, TotalChosen
  <2>3. r \in Nat /\ t \in Nat
    BY <2>1, TotalNat
  <2>4. r <= t
    BY <2>1
  <2>5. f[c] \in Nat /\ g[c] \in Nat /\ f[c] <= g[c]
    BY <2>1
  <2> HIDE DEF r, t, c
  <2> QED BY <2>2, <2>3, <2>4, <2>5
<1>3. P \in SUBSET SUBSET S
  OBVIOUS
<1> HIDE DEF P
<1>4. P = SUBSET S
  BY <1>1, <1>2, <1>3, SubsetInduction
<1> QED BY <1>4 DEF P

(* The sum over a list without repetitions is that over its elements.      *)
LEMMA TotalImage ==
  ASSUME NEW h, NEW S, IsFiniteSet(S), NEW f, NEW g,
         \A x, y \in S : h[x] = h[y] => x = y,
         \A x \in S : g[x] = f[h[x]] /\ g[x] \in Nat
  PROVE  Total(g, S) = Total(f, {h[x] : x \in S})
<1> DEFINE Img(A) == {h[x] : x \in A}
           P == {A \in SUBSET S : IsFiniteSet(Img(A)) /\ Total(g, A) = Total(f, Img(A))}
<1>1. {} \in P
  <2>1. Img({}) = {}
    OBVIOUS
  <2> HIDE DEF Img
  <2> QED BY <2>1, TotalEmpty, FS_EmptySet
<1>2. ASSUME NEW A \in SUBSET S, A # {}, \A x \in A : A \ {x} \in P PROVE A \in P
  <2>1. PICK c \in A : TRUE
    BY <1>2
  <2>2. IsFiniteSet(A) /\ A \ {c} \in P
    BY <1>2, FS_Subset
  <2>3. /\ Img(A) = Img(A \ {c}) \cup {h[c]} /\ Img(A) \ {h[c]} = Img(A \ {c})
        /\ \A z \in Img(A) : f[z] \in Nat
    OBVIOUS
  <2>4. /\ IsFiniteSet(Img(A \ {c})) /\ g[c] = f[h[c]]
        /\ Total(g, A \ {c}) = Total(f, Img(A \ {c}))
    BY <2>2
  <2> DEFINE I == Img(A)
             J == Img(A \ {c})
             z == h[c]
  <2>5. I = J \cup {z} /\ I \ {z} = J /\ IsFiniteSet(J) /\ \A y \in I : f[y] \in Nat
    BY <2>3, <2>4
  <2> HIDE DEF I, J, z
  <2>6. z \in I /\ IsFiniteSet(I)
    BY <2>5, FS_AddElement
  <2>7. Total(f, I) = f[z] + Total(f, J)
    BY <2>5, <2>6, TotalTake
  <2>8. Total(g, A) = g[c] + Total(g, A \ {c})
    BY <2>2, TotalTake
  <2>9. Total(g, A) = Total(f, I)
    BY <2>4, <2>7, <2>8 DEF J, z
  <2> QED BY <2>6, <2>9 DEF I
<1>3. P \in SUBSET SUBSET S
  OBVIOUS
<1> HIDE DEF P
<1>4. P = SUBSET S
  BY <1>1, <1>2, <1>3, SubsetInduction
<1>5. S \in P
  BY <1>4
<1> QED BY <1>5 DEF P

(* A list read backwards, and two lists joined.                            *)
LEMMA ReverseFacts ==
  ASSUME NEW T, NEW f \in Seq(T)
  PROVE  LET k == Len(f)
         IN  /\ Reverse(f) \in Seq(T) /\ Len(Reverse(f)) = k
             /\ \A i \in 1 .. k : (k - i) + 1 \in 1 .. k /\ Reverse(f)[i] = f[(k - i) + 1]
<1> DEFINE k == Len(f)
           r == Reverse(f)
<1>1. k \in Nat /\ f \in [1 .. k -> T]
  OBVIOUS
<1>2. r = [i \in 1 .. k |-> f[(k - i) + 1]]
  BY DEF Reverse
<1> HIDE DEF k, r
<1>3. \A i \in 1 .. k : (k - i) + 1 \in 1 .. k
  BY <1>1
<1>4. r \in [1 .. k -> T]
  BY <1>1, <1>2, <1>3
<1>5. r \in Seq(T) /\ Len(r) = k
  BY <1>1, <1>4, SeqDef
<1> QED BY <1>2, <1>3, <1>5 DEF k, r

LEMMA JoinedLists ==
  ASSUME NEW T, NEW p \in Seq(T), NEW q \in Seq(T)
  PROVE  /\ DOMAIN (p \o q) = 1 .. Len(p) + Len(q)
         /\ \A i \in 1 .. Len(p) : (p \o q)[i] = p[i]
         /\ \A i \in Len(p) + 1 .. Len(p) + Len(q) :
              i - Len(p) \in 1 .. Len(q) /\ (p \o q)[i] = q[i - Len(p)]
<1> DEFINE r == p \o q
<1>1. /\ r \in Seq(T) /\ Len(r) = Len(p) + Len(q)
      /\ \A i \in 1 .. Len(p) + Len(q) :
           r[i] = IF i <= Len(p) THEN p[i] ELSE q[i - Len(p)]
  BY ConcatProperties
<1>2. Len(p) \in Nat /\ Len(q) \in Nat /\ DOMAIN r = 1 .. Len(r)
  BY <1>1
<1> HIDE DEF r
<1>3. ASSUME NEW i \in 1 .. Len(p) PROVE r[i] = p[i]
  BY <1>1, <1>2
<1>4. ASSUME NEW i \in Len(p) + 1 .. Len(p) + Len(q)
      PROVE  i - Len(p) \in 1 .. Len(q) /\ r[i] = q[i - Len(p)]
  <2>1. i \in 1 .. Len(p) + Len(q) /\ ~(i <= Len(p)) /\ i - Len(p) \in 1 .. Len(q)
    BY <1>2
  <2> QED BY <1>1, <2>1
<1> QED BY <1>1, <1>2, <1>3, <1>4 DEF r
=============================================================================
