--------------------------- MODULE CommunityProofs ---------------------------
(***************************************************************************)
(* Proofs about Community, for any members, grants, amounts and dividend   *)
(* policy.                                                                 *)
(*                                                                         *)
(* The ledger adds up entries with the folds of the community modules.     *)
(* Their recursion is dealt with once, here: what a sum and a list of      *)
(* transactions amount to follows from the existence of the function they  *)
(* recur on, and that from the smallest set on which it would not exist.   *)
(***************************************************************************)
EXTENDS CommunityProperties, FiniteSetTheorems, WellFoundedInduction, TLAPS

-----------------------------------------------------------------------------
(* Induction over numbers and over the subsets of a finite set, for sets   *)
(* in the place of predicates.                                             *)
LEMMA SmallestNumber ==
    ASSUME NEW T \in SUBSET Nat, T # {}
    PROVE  \E x \in T : \A y \in T : ~(y < x)
<1>1. \E x \in T : \A y \in T : ~ (<<y, x>> \in OpToRel(<,Nat))
  BY NatLessThanWellFounded, WFMin
<1> QED BY <1>1 DEF OpToRel

LEMMA NumberInduction ==
    ASSUME NEW Q \in SUBSET Nat, 0 \in Q, \A n \in Q : n + 1 \in Q
    PROVE  Q = Nat
<1> SUFFICES ASSUME Q # Nat PROVE FALSE
  OBVIOUS
<1>1. PICK x \in Nat \ Q : \A y \in Nat \ Q : ~(y < x)
  BY SmallestNumber
<1>2. x # 0 /\ x - 1 \in Nat /\ x - 1 < x /\ (x - 1) + 1 = x
  BY <1>1
<1> QED BY <1>1, <1>2

(* The same below a bound.                                                 *)
LEMMA UpToInduction ==
    ASSUME NEW n \in Nat, NEW Q, 0 \in Q, \A k \in 0..(n - 1) : k \in Q => k + 1 \in Q
    PROVE  \A k \in 0..n : k \in Q
<1> DEFINE R == {k \in Nat : k <= n => k \in Q}
<1>1. 0 \in R /\ \A k \in R : k + 1 \in R
  OBVIOUS
<1>2. R = Nat
  <2> HIDE DEF R
  <2>1. R \in SUBSET Nat
    BY DEF R
  <2> QED BY <1>1, <2>1, NumberInduction
<1> QED BY <1>2

LEMMA SubsetInduction ==
    ASSUME NEW D, IsFiniteSet(D), NEW Q,
           \A s \in SUBSET D : (\A x \in s : s \ {x} \in Q) => s \in Q
    PROVE  \A s \in SUBSET D : s \in Q
<1> DEFINE R == {n \in Nat : \A s \in SUBSET D : Cardinality(s) = n => s \in Q}
<1>1. 0 \in R
  BY FS_Subset, FS_EmptySet
<1>2. ASSUME NEW n \in R PROVE n + 1 \in R
  <2> SUFFICES ASSUME NEW s \in SUBSET D, Cardinality(s) = n + 1 PROVE s \in Q
    OBVIOUS
  <2>1. IsFiniteSet(s)
    BY FS_Subset
  <2>2. ASSUME NEW x \in s PROVE s \ {x} \in Q
    <3>1. Cardinality(s \ {x}) = n
      BY <2>1, FS_RemoveElement
    <3> QED BY <3>1
  <2> QED BY <2>2
<1>3. R = Nat
  <2>1. R \in SUBSET Nat
    OBVIOUS
  <2> HIDE DEF R
  <2> QED BY <1>1, <1>2, <2>1, NumberInduction
<1> SUFFICES ASSUME NEW s \in SUBSET D PROVE s \in Q
  OBVIOUS
<1>4. Cardinality(s) \in Nat
  BY FS_Subset, FS_CardinalityType
<1> QED BY <1>3, <1>4

-----------------------------------------------------------------------------
(* A function on the subsets of D that is built up from the empty set by   *)
(* adding, to every set s, the element ch[s].                              *)
IsRecursion(D, A, b, ch, St, g) ==
    /\ g \in [SUBSET D -> A]
    /\ \A s \in SUBSET D :
          g[s] = IF s = {} THEN b ELSE St[ch[s]][g[s \ {ch[s]}]]

LEMMA RecursionExists ==
    ASSUME NEW D, IsFiniteSet(D), NEW A, NEW b \in A, NEW ch,
           \A s \in SUBSET D : s # {} => ch[s] \in s,
           NEW St \in [D -> [A -> A]]
    PROVE  \E g : IsRecursion(D, A, b, ch, St, g)
<1> DEFINE Good(g, n) ==
             /\ g \in [SUBSET D -> A] /\ g[{}] = b
             /\ \A s \in SUBSET D :
                   s # {} /\ Cardinality(s) <= n => g[s] = St[ch[s]][g[s \ {ch[s]}]]
<1> DEFINE Q == {n \in Nat : \E g : Good(g, n)}
<1>c. \A s \in SUBSET D :
        IsFiniteSet(s) /\ Cardinality(s) \in Nat /\ Cardinality(s) <= Cardinality(D)
  BY FS_Subset, FS_CardinalityType
<1>1. 0 \in Q
  <2> DEFINE g == [s \in SUBSET D |-> b]
  <2>1. \A s \in SUBSET D : s # {} => ~(Cardinality(s) <= 0)
    BY <1>c, FS_EmptySet
  <2>2. Good(g, 0)
    BY <2>1
  <2> QED BY <2>2
<1>2. ASSUME NEW n \in Q PROVE n + 1 \in Q
  <2>1. PICK g : Good(g, n)
    OBVIOUS
  <2> DEFINE h == [s \in SUBSET D |-> IF s = {} THEN b ELSE St[ch[s]][g[s \ {ch[s]}]]]
  <2>2. h \in [SUBSET D -> A] /\ h[{}] = b
    BY <2>1
  <2>3. ASSUME NEW s \in SUBSET D, s # {}, Cardinality(s) <= n + 1
        PROVE  h[s] = St[ch[s]][h[s \ {ch[s]}]]
    <3> DEFINE r == s \ {ch[s]}
    <3>1. r \in SUBSET D /\ ch[s] \in s
      BY <2>3
    <3>2. Cardinality(r) = Cardinality(s) - 1
      BY <3>1, <1>c, FS_RemoveElement
    <3>3. Cardinality(r) <= n
      BY <3>1, <3>2, <2>3, <1>c, n \in Nat
    <3>4. h[r] = g[r]
      <4>1. CASE r = {}
        BY <4>1, <2>1, <2>2
      <4>2. CASE r # {}
        BY <4>2, <2>1, <3>1, <3>3
      <4> QED BY <4>1, <4>2
    <3> QED BY <3>4, <2>3
  <2>4. Good(h, n + 1)
    <3> HIDE DEF h
    <3> QED BY <2>2, <2>3
  <2> QED
    <3>1. \E k : Good(k, n + 1)
      BY <2>4
    <3> HIDE DEF Good
    <3> QED BY <3>1
<1>3. Q = Nat
  <2>1. Q \in SUBSET Nat
    OBVIOUS
  <2> HIDE DEF Q
  <2> QED BY <1>1, <1>2, <2>1, NumberInduction
<1>4. PICK g : Good(g, Cardinality(D))
  <2>1. Cardinality(D) \in Nat
    BY FS_CardinalityType
  <2> QED BY <1>3, <2>1
<1>5. IsRecursion(D, A, b, ch, St, g)
  BY <1>4, <1>c DEF IsRecursion
<1> QED BY <1>5

-----------------------------------------------------------------------------
(* Sums.  g is the sum of f over the subsets of its domain, whichever      *)
(* element is taken last.                                                  *)
IsSum(D, f, g) ==
    /\ g \in [SUBSET D -> Int] /\ g[{}] = 0
    /\ \A s \in SUBSET D : \A x \in s : g[s] = f[x] + g[s \ {x}]

LEMMA SumIsAny ==
    ASSUME NEW D, IsFiniteSet(D), NEW f \in [D -> Int], NEW g \in [SUBSET D -> Int],
           g = [s \in SUBSET D |-> IF s = {} THEN 0
                  ELSE LET x == CHOOSE x \in s : TRUE IN f[x] + g[s \ {x}]]
    PROVE  IsSum(D, f, g)
<1> DEFINE Q == {s \in SUBSET D : \A x \in s : g[s] = f[x] + g[s \ {x}]}
<1>1. ASSUME NEW s \in SUBSET D, \A x \in s : s \ {x} \in Q PROVE s \in Q
  <2> SUFFICES ASSUME NEW x \in s PROVE g[s] = f[x] + g[s \ {x}]
    OBVIOUS
  <2>1. PICK y \in s : g[s] = f[y] + g[s \ {y}]
    <3>1. (CHOOSE z \in s : TRUE) \in s
      OBVIOUS
    <3> QED BY <3>1, Zenon
  <2>2. CASE x = y
    BY <2>1, <2>2
  <2>3. CASE x # y
    <3> DEFINE r == (s \ {x}) \ {y}
    <3>1. r = (s \ {y}) \ {x} /\ r \in SUBSET D
      BY <2>3
    <3>a. s \ {x} \in Q /\ s \ {y} \in Q
      BY <1>1, <2>1
    <3>b. x \in s \ {y} /\ y \in s \ {x}
      BY <2>1, <2>3
    <3>2. g[s \ {y}] = f[x] + g[r]
      BY <3>a, <3>b, <3>1
    <3>3. g[s \ {x}] = f[y] + g[r]
      BY <3>a, <3>b, <3>1
    <3>4. f[x] \in Int /\ f[y] \in Int /\ g[r] \in Int
      BY <3>1, <2>1
    <3> QED BY <2>1, <3>2, <3>3, <3>4
  <2> QED BY <2>2, <2>3
<1>2. \A s \in SUBSET D : s \in Q
  <2> HIDE DEF Q
  <2> QED BY <1>1, SubsetInduction
<1>3. g[{}] = 0
  OBVIOUS
<1> QED BY <1>2, <1>3 DEF IsSum

SumBody(D, f, g) ==
    [s \in SUBSET D |-> IF s = {} THEN 0
                        ELSE LET x == CHOOSE x \in s : TRUE IN f[x] + g[s \ {x}]]

LEMMA SumUnfolds ==
    ASSUME NEW f, NEW g, g = SumBody(DOMAIN f, f, g)
    PROVE  \E h : h = SumBody(DOMAIN f, f, h) /\ EntrySum(f) = h[DOMAIN f]
BY DEF SumBody, EntrySum, FoldFunction, FoldFunctionOnSet, MapThenFoldSet

LEMMA SumExists ==
    ASSUME NEW D, IsFiniteSet(D), NEW f \in [D -> Int]
    PROVE  \E g : IsSum(D, f, g) /\ EntrySum(f) = g[D]
<1> DEFINE ch == [s \in SUBSET D |-> CHOOSE x \in s : TRUE]
           St == [x \in D |-> [a \in Int |-> f[x] + a]]
           Body(g) == SumBody(D, f, g)
<1>1. \A s \in SUBSET D : s # {} => ch[s] \in s
  OBVIOUS
<1>2. St \in [D -> [Int -> Int]]
  OBVIOUS
<1>3. PICK g : IsRecursion(D, Int, 0, ch, St, g)
  <2>1. 0 \in Int
    OBVIOUS
  <2> HIDE DEF ch, St
  <2> QED BY <1>1, <1>2, <2>1, Zenon, RecursionExists
<1>4. g = Body(g)
  <2>1. g \in [SUBSET D -> Int]
    BY <1>3 DEF IsRecursion
  <2> USE DEF SumBody
  <2>2. ASSUME NEW s \in SUBSET D PROVE g[s] = Body(g)[s]
    <3>1. CASE s = {}
      BY <1>3, <3>1 DEF IsRecursion
    <3>2. CASE s # {}
      <4>1. g[s] = St[ch[s]][g[s \ {ch[s]}]]
        BY <1>3, <3>2 DEF IsRecursion
      <4>2. ch[s] \in D /\ s \ {ch[s]} \in SUBSET D
        BY <1>1, <3>2
      <4>3. g[s \ {ch[s]}] \in Int
        BY <4>2, <2>1
      <4>4. g[s] = f[ch[s]] + g[s \ {ch[s]}]
        <5> HIDE DEF ch
        <5> QED BY <4>1, <4>2, <4>3
      <4> QED BY <4>4, <3>2
    <3> QED BY <3>1, <3>2
  <2> QED BY <2>1, <2>2
<1>5. PICK h : h = Body(h) /\ EntrySum(f) = h[D]
  <2>1. DOMAIN f = D
    OBVIOUS
  <2> QED BY <1>4, <2>1, Zenon, SumUnfolds
<1>6. h \in [SUBSET D -> Int]
  <2> USE DEF SumBody
  <2> DEFINE Q == {s \in SUBSET D : h[s] \in Int}
  <2>1. ASSUME NEW s \in SUBSET D, \A x \in s : s \ {x} \in Q PROVE s \in Q
    <3>1. CASE s = {}
      BY <1>5, <3>1
    <3>2. CASE s # {}
      <4>1. PICK x \in s : h[s] = f[x] + h[s \ {x}]
        <5>1. (CHOOSE z \in s : TRUE) \in s
          BY <3>2
        <5>2. h[s] = Body(h)[s]
          BY <1>5
        <5> QED BY <5>1, <5>2, <3>2, Zenon
      <4>2. h[s \ {x}] \in Int /\ f[x] \in Int
        BY <2>1, <4>1
      <4> QED BY <4>1, <4>2
    <3> QED BY <3>1, <3>2
  <2>2. \A s \in SUBSET D : s \in Q
    <3> HIDE DEF Q
    <3> QED BY <2>1, SubsetInduction
  <2> QED BY <2>2, <1>5
<1>7. IsSum(D, f, h)
  BY <1>5, <1>6, SumIsAny DEF SumBody
<1> QED BY <1>5, <1>7

(* A sum is an integer, and none of its terms is more than a sum of terms  *)
(* that are not negative.                                                  *)
LEMMA SumType ==
    ASSUME NEW D, IsFiniteSet(D), NEW f \in [D -> Int]
    PROVE  EntrySum(f) \in Int
<1>1. PICK g : IsSum(D, f, g) /\ EntrySum(f) = g[D]
  BY SumExists
<1> QED BY <1>1 DEF IsSum

LEMMA SumOfNaturals ==
    ASSUME NEW D, IsFiniteSet(D), NEW f \in [D -> Nat]
    PROVE  EntrySum(f) \in Nat /\ \A x \in D : f[x] <= EntrySum(f)
<1>1. PICK g : IsSum(D, f, g) /\ EntrySum(f) = g[D]
  <2>1. f \in [D -> Int]
    OBVIOUS
  <2> QED BY <2>1, SumExists
<1> DEFINE Q == {s \in SUBSET D : g[s] \in Nat}
<1>2. ASSUME NEW s \in SUBSET D, \A x \in s : s \ {x} \in Q PROVE s \in Q
  <2>1. CASE s = {}
    BY <1>1, <2>1 DEF IsSum
  <2>2. CASE s # {}
    <3>1. PICK x : x \in s
      BY <2>2
    <3>2. g[s] = f[x] + g[s \ {x}] /\ g[s \ {x}] \in Nat
      BY <1>1, <1>2, <3>1 DEF IsSum
    <3> QED BY <3>1, <3>2
  <2> QED BY <2>1, <2>2
<1>3. \A s \in SUBSET D : s \in Q
  <2> HIDE DEF Q
  <2> QED BY <1>2, SubsetInduction
<1>4. ASSUME NEW x \in D PROVE f[x] <= g[D]
  <2>1. g[D] = f[x] + g[D \ {x}] /\ g[D \ {x}] \in Nat
    BY <1>1, <1>3 DEF IsSum
  <2> QED BY <2>1
<1> QED BY <1>1, <1>3, <1>4

(* Equal terms add up to a product.                                        *)
LEMMA SumOfEqual ==
    ASSUME NEW D, IsFiniteSet(D), NEW c \in Int, NEW f \in [D -> Int],
           \A x \in D : f[x] = c
    PROVE  EntrySum(f) = c * Cardinality(D)
<1>1. PICK g : IsSum(D, f, g) /\ EntrySum(f) = g[D]
  BY SumExists
<1> DEFINE Q == {s \in SUBSET D : g[s] = c * Cardinality(s)}
<1>2. ASSUME NEW s \in SUBSET D, \A x \in s : s \ {x} \in Q PROVE s \in Q
  <2>1. CASE s = {}
    BY <1>1, <2>1, FS_EmptySet DEF IsSum
  <2>2. CASE s # {}
    <3>1. PICK x : x \in s
      BY <2>2
    <3>2. g[s] = c + g[s \ {x}] /\ g[s \ {x}] = c * Cardinality(s \ {x})
      BY <1>1, <1>2, <3>1 DEF IsSum
    <3>3. Cardinality(s \ {x}) = Cardinality(s) - 1 /\ Cardinality(s) \in Nat
      BY <3>1, FS_Subset, FS_CardinalityType, FS_RemoveElement
    <3>4. \A n \in Nat : c + c * (n - 1) = c * n
      OBVIOUS
    <3> QED BY <3>2, <3>3, <3>4
  <2> QED BY <2>1, <2>2
<1>3. \A s \in SUBSET D : s \in Q
  <2> HIDE DEF Q
  <2> QED BY <1>2, SubsetInduction
<1> QED BY <1>1, <1>3

(* The sum of f with the entries h added to some of its terms.             *)
Adds(D, f, B, h, k) == \A x \in D : k[x] = f[x] + IF x \in B THEN h[x] ELSE 0

LEMMA SumOfBoth ==
    ASSUME NEW D, IsFiniteSet(D), NEW f \in [D -> Int],
           NEW B \in SUBSET D, NEW h \in [B -> Int], NEW k \in [D -> Int],
           Adds(D, f, B, h, k)
    PROVE  EntrySum(k) = EntrySum(f) + EntrySum(h)
<1> USE DEF Adds
<1>1. PICK gf : IsSum(D, f, gf) /\ EntrySum(f) = gf[D]
  BY SumExists
<1>2. PICK gk : IsSum(D, k, gk) /\ EntrySum(k) = gk[D]
  BY SumExists
<1>3. PICK gh : IsSum(B, h, gh) /\ EntrySum(h) = gh[B]
  <2>1. IsFiniteSet(B)
    BY FS_Subset
  <2> QED BY <2>1, SumExists
<1> DEFINE Q == {s \in SUBSET D : gk[s] = gf[s] + gh[s \cap B]}
<1>4. ASSUME NEW s \in SUBSET D, \A x \in s : s \ {x} \in Q PROVE s \in Q
  <2>1. CASE s = {}
    <3>1. s \cap B = {}
      BY <2>1
    <3> QED BY <1>1, <1>2, <1>3, <2>1, <3>1 DEF IsSum
  <2>2. CASE s # {}
    <3>1. PICK x : x \in s
      BY <2>2
    <3> DEFINE r == s \ {x}
    <3>2. gk[s] = k[x] + gk[r] /\ gf[s] = f[x] + gf[r] /\ gk[r] = gf[r] + gh[r \cap B]
      BY <1>1, <1>2, <1>4, <3>1 DEF IsSum
    <3>3. gf[r] \in Int /\ gh[r \cap B] \in Int /\ f[x] \in Int /\ r \cap B \in SUBSET B
      BY <1>1, <1>3, <3>1 DEF IsSum
    <3>4. CASE x \in B
      <4> DEFINE sb == s \cap B
      <4>1. sb \ {x} = r \cap B /\ x \in sb /\ sb \in SUBSET B /\ h[x] \in Int
        BY <3>1, <3>4
      <4>2. gh[sb] = h[x] + gh[r \cap B]
        <5> HIDE DEF sb
        <5>1. gh[sb] = h[x] + gh[sb \ {x}]
          BY <4>1, <1>3 DEF IsSum
        <5> QED BY <4>1, <5>1
      <4>3. k[x] = f[x] + h[x]
        BY <3>1, <3>4
      <4>4. gk[s] = gf[s] + gh[sb]
        <5> HIDE DEF sb, r
        <5> QED BY <3>2, <3>3, <4>1, <4>2, <4>3
      <4> QED BY <4>4
    <3>5. CASE x \notin B
      <4>1. s \cap B = r \cap B
        BY <3>5
      <4>2. k[x] = f[x]
        BY <3>1, <3>5
      <4>3. gh[s \cap B] = gh[r \cap B]
        BY <4>1
      <4>4. gk[s] = gf[s] + gh[s \cap B]
        <5> HIDE DEF r
        <5> QED BY <3>2, <3>3, <4>2, <4>3
      <4> QED BY <4>4
    <3> QED BY <3>4, <3>5
  <2> QED BY <2>1, <2>2
<1>5. \A s \in SUBSET D : s \in Q
  <2> HIDE DEF Q
  <2> QED BY <1>4, SubsetInduction
<1>6. D \cap B = B
  OBVIOUS
<1> QED BY <1>1, <1>2, <1>3, <1>5, <1>6

(* Terms that are zero may be left out, and a term may be split off.       *)
LEMMA SumWithout ==
    ASSUME NEW D, IsFiniteSet(D), NEW B \in SUBSET D, NEW h \in [B -> Int],
           NEW k \in [D -> Int], \A x \in D : k[x] = IF x \in B THEN h[x] ELSE 0
    PROVE  EntrySum(k) = EntrySum(h)
<1> DEFINE f == [x \in D |-> 0]
<1>1. f \in [D -> Int] /\ (\A x \in D : f[x] = 0)
  OBVIOUS
<1>2. EntrySum(f) = 0
  <2>1. EntrySum(f) = 0 * Cardinality(D)
    <3> HIDE DEF f
    <3> QED BY <1>1, SumOfEqual
  <2>2. Cardinality(D) \in Nat
    BY FS_CardinalityType
  <2> HIDE DEF f
  <2> QED BY <2>1, <2>2
<1>3. Adds(D, f, B, h, k)
  BY DEF Adds
<1>4. EntrySum(k) = EntrySum(f) + EntrySum(h)
  <2> HIDE DEF f
  <2>1. f \in [D -> Int]
    BY <1>1
  <2> QED BY <2>1, <1>3, SumOfBoth
<1>5. EntrySum(h) \in Int
  BY FS_Subset, SumType
<1> HIDE DEF f
<1> QED BY <1>2, <1>4, <1>5

LEMMA SumAndOne ==
    ASSUME NEW D, IsFiniteSet(D), NEW a, a \notin D, NEW f \in [D -> Int],
           NEW k \in [D \cup {a} -> Int], \A x \in D : k[x] = f[x]
    PROVE  EntrySum(k) = EntrySum(f) + k[a]
<1> DEFINE A == D \cup {a}
<1>1. IsFiniteSet(A)
  BY FS_AddElement
<1>2. PICK gk : IsSum(A, k, gk) /\ EntrySum(k) = gk[A]
  BY <1>1, SumExists
<1>3. PICK gf : IsSum(D, f, gf) /\ EntrySum(f) = gf[D]
  BY SumExists
<1> DEFINE Q == {s \in SUBSET D : gk[s] = gf[s]}
<1>4. ASSUME NEW s \in SUBSET D, \A x \in s : s \ {x} \in Q PROVE s \in Q
  <2>0. s \in SUBSET A
    OBVIOUS
  <2>1. CASE s = {}
    BY <1>2, <1>3, <2>1 DEF IsSum
  <2>2. CASE s # {}
    <3>1. PICK x : x \in s
      BY <2>2
    <3>2. gk[s] = k[x] + gk[s \ {x}] /\ gf[s] = f[x] + gf[s \ {x}]
      BY <1>2, <1>3, <2>0, <3>1 DEF IsSum
    <3>3. gk[s \ {x}] = gf[s \ {x}] /\ k[x] = f[x]
      BY <1>4, <3>1
    <3> QED BY <3>2, <3>3
  <2> QED BY <2>1, <2>2
<1>5. \A s \in SUBSET D : s \in Q
  <2> HIDE DEF Q
  <2> QED BY <1>4, SubsetInduction
<1>6. gk[A] = k[a] + gk[D] /\ gk[D] \in Int
  <2>1. A \ {a} = D /\ a \in A /\ D \in SUBSET A
    OBVIOUS
  <2> QED BY <1>2, <2>1 DEF IsSum
<1>7. k[a] \in Int
  OBVIOUS
<1> QED BY <1>2, <1>3, <1>5, <1>6, <1>7

LEMMA SumOfMove ==
    ASSUME NEW a, NEW b, NEW n \in Int, a # b
    PROVE  EntrySum(Move(a, b, n)) = 0
<1> DEFINE f == [x \in {a} |-> -n]
           k == [x \in {a} \cup {b} |-> IF x = a THEN -n ELSE n]
<1>1. IsFiniteSet({a}) /\ Cardinality({a}) = 1
  BY FS_Singleton
<1>2. EntrySum(f) = -n
  <2>1. f \in [{a} -> Int] /\ (\A x \in {a} : f[x] = -n) /\ -n \in Int
    OBVIOUS
  <2>2. EntrySum(f) = (-n) * Cardinality({a})
    <3> HIDE DEF f
    <3> QED BY <1>1, <2>1, SumOfEqual
  <2> HIDE DEF f
  <2> QED BY <1>1, <2>2
<1>3. EntrySum(k) = EntrySum(f) + k[b]
  <2>1. /\ f \in [{a} -> Int] /\ k \in [{a} \cup {b} -> Int]
        /\ (\A x \in {a} : k[x] = f[x]) /\ b \notin {a}
    OBVIOUS
  <2> HIDE DEF f, k
  <2> QED BY <1>1, <2>1, SumAndOne
<1>4. k[b] = n
  OBVIOUS
<1>5. Move(a, b, n) = k
  BY DEF Move
<1> HIDE DEF f, k
<1> QED BY <1>2, <1>3, <1>4, <1>5

-----------------------------------------------------------------------------
(* A list of transactions, posted one after the other.                     *)
Books == [Account -> Int]
Result == [bal : Books, ok : BOOLEAN]

(* Entries to some of the accounts.                                        *)
IsEntry(tx) == DOMAIN tx \subseteq Account /\ tx \in [DOMAIN tx -> Int]

LEMMA AccountsFinite == IsFiniteSet(Account)
<1>1. IsFiniteSet({"issuance", "fund", "wallet"})
  <2>1. IsFiniteSet({} \cup {"issuance"})
    BY FS_EmptySet, FS_AddElement
  <2>2. IsFiniteSet(({} \cup {"issuance"}) \cup {"fund"})
    BY <2>1, FS_AddElement
  <2>3. IsFiniteSet((({} \cup {"issuance"}) \cup {"fund"}) \cup {"wallet"})
    BY <2>2, FS_AddElement
  <2>4. {"issuance", "fund", "wallet"} = (({} \cup {"issuance"}) \cup {"fund"}) \cup {"wallet"}
    OBVIOUS
  <2> QED BY <2>3, <2>4
<1> QED BY <1>1, MemberAssumption, FS_Union DEF Account

LEMMA PostedType ==
    ASSUME NEW bal \in Books, NEW tx, IsEntry(tx)
    PROVE  Posted(bal, tx) \in Books
<1>1. ASSUME NEW a \in Account PROVE bal[a] + (IF a \in DOMAIN tx THEN tx[a] ELSE 0) \in Int
  BY DEF Books, IsEntry
<1> QED BY <1>1 DEF Posted, Books

(* What one more transaction does to the result so far.                    *)
PostNext(acc, tx) ==
    IF acc.ok /\ AppendOK(acc.bal, tx)
    THEN [bal |-> Posted(acc.bal, tx), ok |-> TRUE]
    ELSE [acc EXCEPT !.ok = FALSE]

LEMMA PostNextType ==
    ASSUME NEW acc \in Result, NEW tx, IsEntry(tx)
    PROVE  PostNext(acc, tx) \in Result
<1>1. acc.bal \in Books
  BY DEF Result
<1>2. Posted(acc.bal, tx) \in Books
  BY <1>1, PostedType
<1> QED BY <1>2 DEF PostNext, Result

LEMMA MaxOfSome ==
    ASSUME NEW n \in Nat, NEW s \in SUBSET (1..n), s # {}
    PROVE  Max(s) \in s /\ \A y \in s : Max(s) >= y
<1> DEFINE T == {n - x : x \in s}
<1>1. T \in SUBSET Nat /\ T # {}
  OBVIOUS
<1>2. PICK z \in T : \A y \in T : ~(y < z)
  <2> HIDE DEF T
  <2> QED BY <1>1, SmallestNumber
<1>3. PICK x \in s : z = n - x
  OBVIOUS
<1>4. \A y \in s : x >= y
  <2> SUFFICES ASSUME NEW y \in s PROVE x >= y
    OBVIOUS
  <2>1. ~(n - y < n - x) /\ x \in Int /\ y \in Int
    BY <1>2, <1>3
  <2> QED BY <2>1
<1> QED BY <1>4 DEF Max

PostBody(D, bal, txs, g) ==
    [s \in SUBSET D |-> IF s = {} THEN [bal |-> bal, ok |-> TRUE]
                        ELSE LET x == Max(s) IN PostNext(g[s \ {x}], txs[x])]

LEMMA PostUnfolds ==
    ASSUME NEW bal, NEW txs, NEW g, g = PostBody(DOMAIN txs, bal, txs, g)
    PROVE  \E h : /\ h = PostBody(DOMAIN txs, bal, txs, h)
                  /\ PostAll(bal, txs) = h[DOMAIN txs]
BY DEF PostBody, PostNext, PostAll, FoldLeft, MapThenFoldSet

(* The results after each of the transactions.                             *)
IsPosting(bal, txs, n, h) ==
    /\ h \in [0..n -> Result]
    /\ h[0] = [bal |-> bal, ok |-> TRUE]
    /\ \A k \in 1..n : h[k] = PostNext(h[k - 1], txs[k])

LEMMA PostAllSteps ==
    ASSUME NEW bal \in Books, NEW n \in Nat, NEW txs, DOMAIN txs = 1..n,
           \A i \in 1..n : IsEntry(txs[i])
    PROVE  \E h : IsPosting(bal, txs, n, h) /\ PostAll(bal, txs) = h[n]
<1> DEFINE D == 1..n
           ch == [s \in SUBSET D |-> Max(s)]
           St == [x \in D |-> [a \in Result |-> PostNext(a, txs[x])]]
           b == [bal |-> bal, ok |-> TRUE]
<1>0. IsFiniteSet(D)
  BY FS_Interval
<1>1. \A s \in SUBSET D : s # {} => ch[s] \in s
  BY MaxOfSome
<1>2. St \in [D -> [Result -> Result]]
  BY PostNextType
<1>3. PICK g : IsRecursion(D, Result, b, ch, St, g)
  <2>1. b \in Result
    BY DEF Result
  <2> HIDE DEF D, ch, St, b
  <2> QED BY <1>0, <1>1, <1>2, <2>1, Zenon, RecursionExists
<1>4. g = PostBody(D, bal, txs, g)
  <2>1. g \in [SUBSET D -> Result]
    BY <1>3 DEF IsRecursion
  <2> DEFINE Body == PostBody(D, bal, txs, g)
  <2>2. ASSUME NEW s \in SUBSET D PROVE g[s] = Body[s]
    <3>1. CASE s = {}
      BY <1>3, <3>1 DEF IsRecursion, PostBody
    <3>2. CASE s # {}
      <4>1. g[s] = St[ch[s]][g[s \ {ch[s]}]]
        BY <1>3, <3>2 DEF IsRecursion
      <4>2. ch[s] \in D /\ s \ {ch[s]} \in SUBSET D
        BY <1>1, <3>2
      <4>3. g[s \ {ch[s]}] \in Result
        BY <4>2, <2>1
      <4>4. g[s] = PostNext(g[s \ {ch[s]}], txs[ch[s]])
        <5> HIDE DEF ch, D
        <5> QED BY <4>1, <4>2, <4>3
      <4>5. Body[s] = PostNext(g[s \ {ch[s]}], txs[ch[s]])
        BY <3>2 DEF PostBody
      <4> QED BY <4>4, <4>5
    <3> QED BY <3>1, <3>2
  <2>3. DOMAIN Body = SUBSET D /\ DOMAIN g = SUBSET D
    BY <2>1 DEF PostBody
  <2>4. Body = [s \in SUBSET D |-> Body[s]] /\ g = [s \in SUBSET D |-> g[s]]
    BY <2>1 DEF PostBody
  <2> HIDE DEF Body
  <2>5. g = Body
    BY <2>2, <2>4
  <2> QED BY <2>5 DEF Body
<1>5. PICK r : r = PostBody(D, bal, txs, r) /\ PostAll(bal, txs) = r[D]
  <2>1. DOMAIN txs = D
    OBVIOUS
  <2> HIDE DEF D
  <2> QED BY <1>4, <2>1, Zenon, PostUnfolds
<1>6. ASSUME NEW k \in 1..n PROVE r[1..k] = PostNext(r[1..(k - 1)], txs[k])
  <2> DEFINE s == 1..k
  <2>1. s \in SUBSET D /\ s # {} /\ k \in s
    OBVIOUS
  <2>2. Max(s) \in s /\ Max(s) >= k
    BY <2>1, MaxOfSome
  <2>3. Max(s) = k
    BY <2>2
  <2>4. s \ {k} = 1..(k - 1)
    OBVIOUS
  <2>5. r[s] = PostNext(r[s \ {Max(s)}], txs[Max(s)])
    <3> HIDE DEF s, D
    <3> QED BY <1>5, <2>1 DEF PostBody
  <2> QED BY <2>3, <2>4, <2>5
<1>7. r[1..0] = b
  <2>1. 1..0 = {}
    OBVIOUS
  <2> QED BY <1>5, <2>1 DEF PostBody
<1> DEFINE h == [k \in 0..n |-> r[1..k]]
<1>8. h[0] = b /\ \A k \in 1..n : h[k] = PostNext(h[k - 1], txs[k])
  <2>1. \A k \in 1..n : k \in 0..n /\ k - 1 \in 0..n
    OBVIOUS
  <2> QED BY <1>6, <1>7, <2>1
<1>9. \A k \in 0..n : h[k] \in Result
  <2> DEFINE Q == {k \in 0..n : h[k] \in Result}
  <2>1. 0 \in Q
    <3>1. b \in Result /\ 0 \in 0..n
      BY DEF Result
    <3> HIDE DEF h, b
    <3> QED BY <1>8, <3>1
  <2>2. \A k \in 0..(n - 1) : k \in Q => k + 1 \in Q
    <3> SUFFICES ASSUME NEW k \in 0..(n - 1), h[k] \in Result PROVE h[k + 1] \in Result
      OBVIOUS
    <3>1. k + 1 \in 1..n /\ (k + 1) - 1 = k
      OBVIOUS
    <3>2. h[k + 1] = PostNext(h[k], txs[k + 1])
      <4> HIDE DEF h
      <4> QED BY <1>8, <3>1
    <3> HIDE DEF h
    <3> QED BY <3>1, <3>2, PostNextType
  <2> HIDE DEF Q
  <2>3. \A k \in 0..n : k \in Q
    BY <2>1, <2>2, UpToInduction
  <2> QED BY <2>3 DEF Q
<1>10. IsPosting(bal, txs, n, h)
  <2>1. DOMAIN h = 0..n /\ h = [k \in 0..n |-> h[k]]
    OBVIOUS
  <2> HIDE DEF h
  <2> QED BY <1>8, <1>9, <2>1 DEF IsPosting
<1>11. PostAll(bal, txs) = h[n]
  BY <1>5
<1> QED BY <1>10, <1>11

-----------------------------------------------------------------------------
(* What posting an entry does to the books.                                *)
LEMMA PostedSum ==
    ASSUME NEW bal \in Books, NEW tx, IsEntry(tx)
    PROVE  EntrySum(Posted(bal, tx)) = EntrySum(bal)
<1>1. CASE AppendOK(bal, tx)
  <2> DEFINE k == [a \in Account |-> bal[a] + IF a \in DOMAIN tx THEN tx[a] ELSE 0]
  <2>1. Posted(bal, tx) = k
    BY <1>1 DEF Posted
  <2>2. k \in [Account -> Int]
    BY <2>1, PostedType DEF Books
  <2>3. Adds(Account, bal, DOMAIN tx, tx, k)
    BY DEF Adds
  <2>4. bal \in [Account -> Int] /\ DOMAIN tx \in SUBSET Account /\ tx \in [DOMAIN tx -> Int]
    BY DEF Books, IsEntry
  <2>5. EntrySum(k) = EntrySum(bal) + EntrySum(tx)
    <3> HIDE DEF k
    <3> QED BY <2>2, <2>3, <2>4, AccountsFinite, SumOfBoth
  <2>6. EntrySum(tx) = 0 /\ EntrySum(bal) \in Int
    BY <1>1, <2>4, AccountsFinite, SumType DEF AppendOK
  <2> HIDE DEF k
  <2> QED BY <2>1, <2>5, <2>6
<1>2. CASE ~AppendOK(bal, tx)
  BY <1>2 DEF Posted
<1> QED BY <1>1, <1>2

LEMMA PostedUntouched ==
    ASSUME NEW bal \in Books, NEW tx, IsEntry(tx), NEW a \in Account, a \notin DOMAIN tx
    PROVE  Posted(bal, tx)[a] = bal[a]
<1>1. bal[a] \in Int
  BY DEF Books
<1> QED BY <1>1 DEF Posted

LEMMA PostedAt ==
    ASSUME NEW bal \in Books, NEW tx, IsEntry(tx), AppendOK(bal, tx), NEW a \in DOMAIN tx
    PROVE  Posted(bal, tx)[a] = bal[a] + tx[a]
BY DEF Posted, IsEntry

LEMMA PostedWallet ==
    ASSUME NEW bal \in Books, NEW tx, IsEntry(tx), bal["wallet"] >= 0
    PROVE  Posted(bal, tx)["wallet"] >= 0
<1>1. "wallet" \in Account
  BY DEF Account
<1>2. CASE "wallet" \in DOMAIN tx /\ AppendOK(bal, tx)
  BY <1>2, PostedAt DEF AppendOK
<1>3. CASE "wallet" \notin DOMAIN tx
  BY <1>1, <1>3, PostedUntouched
<1>4. CASE ~AppendOK(bal, tx)
  BY <1>4 DEF Posted
<1> QED BY <1>2, <1>3, <1>4

LEMMA MoveIsEntry ==
    ASSUME NEW a \in Account, NEW b \in Account, NEW n \in Int
    PROVE  IsEntry(Move(a, b, n)) /\ DOMAIN Move(a, b, n) = {a, b}
BY DEF Move, IsEntry

(* A move is only refused because of the wallet.                           *)
LEMMA MovePosted ==
    ASSUME NEW bal \in Books, NEW a \in Account, NEW b \in Account, a # b, NEW n \in Int,
           a = "wallet" => bal[a] >= n, b = "wallet" => bal[b] + n >= 0
    PROVE  /\ AppendOK(bal, Move(a, b, n))
           /\ Posted(bal, Move(a, b, n))[a] = bal[a] - n
           /\ Posted(bal, Move(a, b, n))[b] = bal[b] + n
<1> DEFINE tx == Move(a, b, n)
<1>1. EntrySum(tx) = 0 /\ IsEntry(tx) /\ DOMAIN tx = {a, b}
  BY SumOfMove, MoveIsEntry
<1>2. tx[a] = -n /\ tx[b] = n /\ bal[a] \in Int /\ bal[b] \in Int
  BY DEF Move, Books
<1>3. AppendOK(bal, tx)
  <2> HIDE DEF tx
  <2> QED BY <1>1, <1>2 DEF AppendOK
<1>4. Posted(bal, tx)[a] = bal[a] + tx[a] /\ Posted(bal, tx)[b] = bal[b] + tx[b]
  <2> HIDE DEF tx
  <2> QED BY <1>1, <1>3, PostedAt
<1> HIDE DEF tx
<1> QED BY <1>2, <1>3, <1>4 DEF tx

-----------------------------------------------------------------------------
(* The dividend.                                                           *)
Statuses == [Member -> {"unknown", "active", "left"}]

LEMMA ActiveFinite ==
    ASSUME NEW st
    PROVE  /\ Active(st) \in SUBSET Member /\ IsFiniteSet(Active(st))
           /\ Cardinality(Active(st)) \in Nat
           /\ Cardinality(Active(st)) = 0 <=> Active(st) = {}
<1>1. Active(st) \in SUBSET Member
  BY DEF Active
<1>2. IsFiniteSet(Active(st))
  BY <1>1, MemberAssumption, FS_Subset
<1> QED BY <1>1, <1>2, FS_CardinalityType, FS_EmptySet

LEMMA UDBaseIs ==
    ASSUME NEW st, NEW bal \in Books
    PROVE  /\ UDBase(st, bal) \in Nat
           /\ Active(st) = {} => UDBase(st, bal) = 0
           /\ Active(st) # {} /\ bal["issuance"] <= 0 => UDBase(st, bal) >= GenesisUD
<1> DEFINE n == Cardinality(Active(st))
           supply == MoneySupply(bal)
           base == (supply * CPeriodPpm) \div (1000000 * n)
<1>1. bal["issuance"] \in Int
  BY DEF Books, Account
<1>2. supply \in Int /\ (supply < 0 <=> bal["issuance"] > 0)
  BY <1>1 DEF MoneySupply
<1>3. n \in Nat /\ (n = 0 <=> Active(st) = {})
  BY ActiveFinite
<1>4. UDBase(st, bal) = IF 1000000 * n = 0 \/ supply < 0 THEN 0
                        ELSE IF base < GenesisUD THEN GenesisUD ELSE base
  BY DEF UDBase, StandardWeight
<1>5. n > 0 => base \in Int
  <2>1. supply * CPeriodPpm \in Int
    BY <1>2, PolicyAssumption
  <2>2. \A x \in Int : \A y \in Nat : y > 0 => x \div y \in Int
    OBVIOUS
  <2>3. n > 0 => 1000000 * n \in Nat /\ 1000000 * n > 0
    BY <1>3
  <2> HIDE DEF n, supply
  <2> QED BY <2>1, <2>2, <2>3
<1>6. GenesisUD \in Nat
  BY PolicyAssumption
<1>7. (1000000 * n = 0) <=> (n = 0)
  BY <1>3
<1> HIDE DEF n, supply, base
<1> QED BY <1>1, <1>2, <1>3, <1>4, <1>5, <1>6, <1>7

(* It depends on the books by what has been issued only.                   *)
LEMMA UDBaseSame ==
    ASSUME NEW st, NEW bal, NEW bal2, bal["issuance"] = bal2["issuance"]
    PROVE  UDBase(st, bal) = UDBase(st, bal2)
BY DEF UDBase, MoneySupply

LEMMA ShareIs ==
    ASSUME NEW fund \in Nat, NEW n \in Nat, n > 0
    PROVE  /\ fund \div n \in Nat
           /\ fund - (fund \div n) * n \in 0..(n - 1)
<1>1. fund \div n \in Int /\ fund % n \in 0..(n - 1) /\ fund = n * (fund \div n) + (fund % n)
  OBVIOUS
<1>2. n * (fund \div n) = (fund \div n) * n
  BY <1>1
<1>3. fund \div n >= 0
  OBVIOUS
<1> QED BY <1>1, <1>2, <1>3

LEMMA RecipientUDIs ==
    ASSUME NEW ud \in Nat
    PROVE  RecipientUD(ud) = ud
BY DEF RecipientUD, StandardWeight, Million

-----------------------------------------------------------------------------
(* RunUD, transaction by transaction.                                      *)
AfterDividend(ud) ==
    [a \in Account |->
        balance[a] + IF a \in Recipients THEN ud
                     ELSE IF a = "issuance" THEN -(ud * Cardinality(Recipients)) ELSE 0]

LEMMA RecipientsAre ==
    /\ Recipients \subseteq Member /\ IsFiniteSet(Recipients)
    /\ Cardinality(Recipients) \in Nat
    /\ Cardinality(Recipients) = 0 <=> Recipients = {}
    /\ Recipients \subseteq Account
    /\ Recipients \cap {"issuance", "fund", "wallet"} = {}
    /\ {"issuance", "fund", "wallet"} \subseteq Account
BY ActiveFinite, MemberAssumption DEF Recipients, Account

(* An entry that gives the same to all recipients, out of one account.     *)
SharedOut(from, total, c) ==
    [a \in Recipients \cup {from} |-> IF a = from THEN -total ELSE c]

LEMMA SharedEntry ==
    ASSUME NEW c \in Int, NEW from \in {"issuance", "fund"}, NEW total \in Int,
           total = c * Cardinality(Recipients)
    PROVE  /\ IsEntry(SharedOut(from, total, c))
           /\ DOMAIN SharedOut(from, total, c) = Recipients \cup {from}
           /\ EntrySum(SharedOut(from, total, c)) = 0
           /\ SharedOut(from, total, c)[from] = -total
           /\ \A m \in Recipients : SharedOut(from, total, c)[m] = c
<1> DEFINE tx == SharedOut(from, total, c)
<1> DEFINE R == Recipients
           f == [m \in R |-> c]
<1>1. from \notin R /\ R \cup {from} \subseteq Account /\ IsFiniteSet(R)
  BY RecipientsAre
<1>2. EntrySum(f) = total
  <2>1. f \in [R -> Int] /\ \A x \in R : f[x] = c
    OBVIOUS
  <2> HIDE DEF f
  <2>2. EntrySum(f) = c * Cardinality(R)
    <3> HIDE DEF R
    <3> QED BY <1>1, <2>1, SumOfEqual
  <2> QED BY <2>2
<1>3. tx \in [R \cup {from} -> Int] /\ tx[from] = -total /\ \A m \in R : tx[m] = f[m]
  BY <1>1 DEF SharedOut
<1>4. EntrySum(tx) = EntrySum(f) + tx[from]
  <2>1. f \in [R -> Int]
    OBVIOUS
  <2>2. tx \in [R \cup {from} -> Int] /\ \A x \in R : tx[x] = f[x]
    BY <1>3
  <2> HIDE DEF R, f, tx
  <2>3. \A k \in [R \cup {from} -> Int] :
          (\A x \in R : k[x] = f[x]) => EntrySum(k) = EntrySum(f) + k[from]
    BY <1>1, <2>1, SumAndOne
  <2> QED BY <2>2, <2>3
<1>5. EntrySum(tx) = 0
  <2> HIDE DEF f, tx
  <2> QED BY <1>2, <1>3, <1>4
<1>6. IsEntry(tx) /\ DOMAIN tx = R \cup {from}
  <2> HIDE DEF tx
  <2> QED BY <1>1, <1>3 DEF IsEntry
<1>7. \A m \in R : tx[m] = c
  BY <1>3
<1> QED BY <1>1, <1>3, <1>5, <1>6, <1>7

Batched(ud) == SharedOut("issuance", ud * Cardinality(Recipients), ud)

LEMMA BatchedIs ==
    ASSUME NEW ud \in Nat, ud > 0, Recipients # {}
    PROVE  DividendTxs(ud, TRUE) = <<Batched(ud)>>
<1> DEFINE R == Recipients
           f == [m \in R |-> RecipientUD(ud)]
<1>1. f \in [R -> Int] /\ (\A x \in R : f[x] = ud) /\ ud \in Int
  BY RecipientUDIs
<1>2. EntrySum(f) = ud * Cardinality(R)
  <2>1. IsFiniteSet(R)
    BY RecipientsAre
  <2> HIDE DEF f, R
  <2> QED BY <1>1, <2>1, SumOfEqual
<1>3. DividendTxs(ud, TRUE) =
        <<[a \in R \cup {"issuance"} |-> IF a = "issuance" THEN -EntrySum(f) ELSE f[a]]>>
  BY DEF DividendTxs
<1>4. [a \in R \cup {"issuance"} |-> IF a = "issuance" THEN -EntrySum(f) ELSE f[a]] = Batched(ud)
  <2> HIDE DEF f
  <2> QED BY <1>1, <1>2 DEF Batched, SharedOut
<1> QED BY <1>3, <1>4

LEMMA BatchedPosted ==
    ASSUME balance \in Books, NEW ud \in Nat
    PROVE  /\ IsEntry(Batched(ud)) /\ DOMAIN Batched(ud) = Recipients \cup {"issuance"}
           /\ PostNext([bal |-> balance, ok |-> TRUE], Batched(ud))
                = [bal |-> AfterDividend(ud), ok |-> TRUE]
<1> DEFINE tx == Batched(ud)
           total == ud * Cardinality(Recipients)
<1>1. total \in Int
  BY RecipientsAre
<1>2. /\ IsEntry(tx) /\ DOMAIN tx = Recipients \cup {"issuance"} /\ EntrySum(tx) = 0
      /\ tx["issuance"] = -total /\ \A m \in Recipients : tx[m] = ud
  <2>1. tx = SharedOut("issuance", total, ud)
    BY DEF Batched
  <2> HIDE DEF tx
  <2> QED BY <1>1, <2>1, SharedEntry
<1>3. AppendOK(balance, tx)
  BY <1>2, RecipientsAre DEF AppendOK
<1>4. Posted(balance, tx) = AfterDividend(ud)
  <2>1. \A a \in Account :
          (IF a \in DOMAIN tx THEN tx[a] ELSE 0)
             = IF a \in Recipients THEN ud ELSE IF a = "issuance" THEN -total ELSE 0
    BY <1>2, RecipientsAre
  <2> HIDE DEF tx
  <2> QED BY <1>3, <2>1 DEF Posted, AfterDividend
<1> HIDE DEF tx
<1> QED BY <1>2, <1>3, <1>4 DEF PostNext, tx

(* One transaction per recipient.                                          *)
IsOrder(order) ==
    /\ order \in [1..Cardinality(Recipients) -> Recipients]
    /\ \A i, j \in DOMAIN order : order[i] = order[j] => i = j
    /\ \A m \in Recipients : \E i \in DOMAIN order : order[i] = m

LEMMA OrderExists == IsOrder(SetToSeq(Recipients))
<1> DEFINE n == Cardinality(Recipients)
           order == SetToSeq(Recipients)
<1>1. PICK f : f \in Bijection(1..n, Recipients)
  BY RecipientsAre, FS_CardinalityType DEF ExistsBijection
<1>2. f \in [1..n -> Recipients] /\ IsInjective(f)
  BY <1>1 DEF Bijection, Injection, IsInjective
<1>3. order \in [1..n -> Recipients] /\ IsInjective(order)
  BY <1>2 DEF SetToSeq
<1>4. order \in Injection(1..n, Recipients)
  <2> HIDE DEF order, n
  <2>1. \A i, j \in 1..n : order[i] = order[j] => i = j
    BY <1>3 DEF IsInjective
  <2> QED BY <1>3, <2>1 DEF Injection, IsInjective
<1>5. Cardinality(1..n) = n /\ IsFiniteSet(1..n)
  BY RecipientsAre, FS_Interval
<1>6. order \in Surjection(1..n, Recipients)
  <2> HIDE DEF order
  <2> QED BY <1>4, <1>5, RecipientsAre, FS_Injection
<1>7. \A m \in Recipients : \E i \in 1..n : order[i] = m
  <2> HIDE DEF order
  <2> QED BY <1>6 DEF Surjection
<1> HIDE DEF order
<1> QED BY <1>3, <1>7 DEF IsOrder, IsInjective, order

Each(ud, order) == [i \in DOMAIN order |-> Move("issuance", order[i], ud)]

LEMMA EachIs ==
    ASSUME NEW ud \in Nat, ud > 0, Recipients # {}
    PROVE  DividendTxs(ud, FALSE) = Each(ud, SetToSeq(Recipients))
<1> DEFINE R == Recipients
           order == SetToSeq(R)
           amounts == [m \in R |-> RecipientUD(ud)]
<1>1. DividendTxs(ud, FALSE) =
        [i \in DOMAIN order |-> Move("issuance", order[i], amounts[order[i]])]
  BY DEF DividendTxs
<1>2. \A i \in DOMAIN order : amounts[order[i]] = ud
  <2>1. \A i \in DOMAIN order : order[i] \in R
    <3> HIDE DEF order
    <3> QED BY OrderExists DEF IsOrder, order
  <2> HIDE DEF order
  <2> QED BY <2>1, RecipientUDIs
<1> HIDE DEF order, amounts
<1> QED BY <1>1, <1>2 DEF Each, order

(* The books when the first k of them have been paid.                      *)
PaidUpTo(ud, order, k) ==
    [a \in Account |->
        balance[a] + IF \E i \in 1..k : order[i] = a THEN ud
                     ELSE IF a = "issuance" THEN -(ud * k) ELSE 0]

LEMMA PaidNext ==
    ASSUME balance \in Books, NEW ud \in Nat, NEW order, IsOrder(order),
           NEW k \in Nat, k + 1 <= Cardinality(Recipients)
    PROVE  LET tx == Move("issuance", order[k + 1], ud)
           IN  PostNext([bal |-> PaidUpTo(ud, order, k), ok |-> TRUE], tx)
                 = [bal |-> PaidUpTo(ud, order, k + 1), ok |-> TRUE]
<1> DEFINE m == order[k + 1]
           tx == Move("issuance", m, ud)
           bal == PaidUpTo(ud, order, k)
           next == PaidUpTo(ud, order, k + 1)
<1>1. /\ Cardinality(Recipients) \in Nat /\ k + 1 \in 1..Cardinality(Recipients)
      /\ m \in Recipients /\ m \in Account /\ m # "issuance" /\ m # "wallet"
      /\ "issuance" \in Account
      /\ \A i \in 1..(k + 1) : order[i] # "issuance"
  BY RecipientsAre DEF IsOrder
<1>2. \A i \in 1..k : order[i] # m
  <2>1. \A i \in 1..k : i \in DOMAIN order /\ k + 1 \in DOMAIN order /\ i # k + 1
    BY <1>1 DEF IsOrder
  <2> QED BY <2>1 DEF IsOrder
<1>3. bal \in Books
  <2>1. ud * k \in Int
    OBVIOUS
  <2>2. \A a \in Account : balance[a] \in Int
    BY DEF Books
  <2> QED BY <2>1, <2>2 DEF PaidUpTo, Books
<1>4. /\ AppendOK(bal, tx)
      /\ Posted(bal, tx)["issuance"] = bal["issuance"] - ud
      /\ Posted(bal, tx)[m] = bal[m] + ud
  <2> HIDE DEF bal, m
  <2> QED BY <1>1, <1>3, MovePosted
<1>5. IsEntry(tx) /\ DOMAIN tx = {"issuance", m}
  <2>1. ud \in Int
    OBVIOUS
  <2> HIDE DEF m
  <2> QED BY <1>1, <2>1, Zenon, MoveIsEntry
<1>6. ASSUME NEW a \in Account PROVE Posted(bal, tx)[a] = next[a]
  <2>0. balance[a] \in Int /\ balance["issuance"] \in Int
    BY <1>1 DEF Books
  <2>1. CASE a = "issuance"
    <3>1. bal[a] = balance[a] - ud * k /\ next[a] = balance[a] - ud * (k + 1)
      <4>1. ~ \E i \in 1..k : order[i] = a
        BY <1>1, <2>1
      <4>2. ~ \E i \in 1..(k + 1) : order[i] = a
        BY <1>1, <2>1
      <4>3. bal[a] = balance[a] + -(ud * k) /\ next[a] = balance[a] + -(ud * (k + 1))
        BY <4>1, <4>2, <2>1 DEF PaidUpTo
      <4> QED BY <4>3, <2>0
    <3>2. ud * (k + 1) = ud * k + ud /\ ud * k \in Int
      OBVIOUS
    <3> HIDE DEF bal, next, tx
    <3> QED BY <1>4, <2>0, <2>1, <3>1, <3>2
  <2>2. CASE a = m
    <3>1. bal[a] = balance[a]
      <4>1. ~ \E i \in 1..k : order[i] = a
        BY <1>2, <2>2
      <4>2. bal[a] = balance[a] + 0
        BY <1>1, <4>1, <2>2 DEF PaidUpTo
      <4> QED BY <4>2, <2>0
    <3>2. next[a] = balance[a] + ud
      <4>1. \E i \in 1..(k + 1) : order[i] = a
        BY <2>2
      <4> QED BY <4>1 DEF PaidUpTo
    <3> HIDE DEF bal, next, tx, m
    <3> QED BY <1>4, <2>2, <3>1, <3>2
  <2>3. CASE a # "issuance" /\ a # m
    <3>1. Posted(bal, tx)[a] = bal[a]
      <4> HIDE DEF bal, tx, m
      <4> QED BY <1>3, <1>5, <2>3, PostedUntouched
    <3>2. (\E i \in 1..k : order[i] = a) <=> (\E i \in 1..(k + 1) : order[i] = a)
      <4>1. 1..(k + 1) = 1..k \cup {k + 1}
        OBVIOUS
      <4> QED BY <4>1, <2>3
    <3>3. bal[a] = next[a]
      BY <2>3, <3>2 DEF PaidUpTo
    <3> QED BY <3>1, <3>3
  <2> QED BY <2>1, <2>2, <2>3
<1>7. Posted(bal, tx) = next
  <2>1. Posted(bal, tx) \in Books /\ next = [a \in Account |-> next[a]]
    <3>1. next = [a \in Account |-> next[a]]
      BY DEF PaidUpTo
    <3> HIDE DEF bal, tx, next
    <3> QED BY <1>3, <1>5, <3>1, PostedType
  <2> HIDE DEF bal, tx, next
  <2> QED BY <1>6, <2>1 DEF Books
<1> HIDE DEF bal, tx, next, m
<1>8. PostNext([bal |-> bal, ok |-> TRUE], tx) = [bal |-> next, ok |-> TRUE]
  BY <1>4, <1>7 DEF PostNext
<1> QED BY <1>8 DEF bal, tx, next, m

(* The dividend, in one transaction or in many: it is all posted.          *)
LEMMA DividendPosted ==
    ASSUME balance \in Books, NEW ud \in Nat, ud > 0, Recipients # {},
           NEW batch \in BOOLEAN
    PROVE  \E n \in Nat :
              LET txs == DividendTxs(ud, batch)
              IN  /\ txs \in Seq(UNION {[B -> Int] : B \in SUBSET Account}) /\ Len(txs) = n
                  /\ \A i \in 1..n : IsEntry(txs[i])
                  /\ \A N \in Nat : \A all, h :
                        /\ n <= N /\ (\A i \in 1..n : all[i] = txs[i])
                        /\ IsPosting(balance, all, N, h)
                        => h[n] = [bal |-> AfterDividend(ud), ok |-> TRUE]
<1> DEFINE Entries == UNION {[B -> Int] : B \in SUBSET Account}
<1>e. \A tx : IsEntry(tx) => tx \in Entries
  BY DEF IsEntry
<1>1. CASE batch = TRUE
  <2> DEFINE tx == Batched(ud)
  <2>1. DividendTxs(ud, batch) = <<tx>>
    BY <1>1, BatchedIs
  <2>2. IsEntry(tx)
    BY BatchedPosted
  <2>3. ASSUME NEW N \in Nat, NEW all, NEW h, 1 <= N, all[1] = tx, IsPosting(balance, all, N, h)
        PROVE  h[1] = [bal |-> AfterDividend(ud), ok |-> TRUE]
    <3>1. h[0] = [bal |-> balance, ok |-> TRUE] /\ h[1] = PostNext(h[0], tx)
      <4>1. 1 \in 1..N /\ 1 - 1 = 0
        BY <2>3
      <4> HIDE DEF tx
      <4> QED BY <2>3, <4>1 DEF IsPosting
    <3> QED BY <3>1, BatchedPosted
  <2> HIDE DEF tx, Entries
  <2>4. <<tx>> \in Seq(Entries) /\ Len(<<tx>>) = 1 /\ <<tx>>[1] = tx
    BY <2>2, <1>e
  <2>5. \A N \in Nat : \A all, h :
          /\ 1 <= N /\ (\A i \in 1..1 : all[i] = <<tx>>[i])
          /\ IsPosting(balance, all, N, h)
          => h[1] = [bal |-> AfterDividend(ud), ok |-> TRUE]
    <3>1. 1 \in 1..1
      OBVIOUS
    <3> QED BY <2>3, <2>4, <3>1
  <2>6. \A i \in 1..1 : IsEntry(<<tx>>[i])
    <3>1. \A i \in 1..1 : i = 1
      OBVIOUS
    <3> QED BY <2>2, <2>4, <3>1
  <2> WITNESS 1 \in Nat
  <2> QED BY <2>1, <2>4, <2>5, <2>6 DEF Entries
<1>2. CASE batch = FALSE
  <2> DEFINE order == SetToSeq(Recipients)
             txs == Each(ud, order)
             n == Cardinality(Recipients)
  <2>1. DividendTxs(ud, batch) = txs /\ IsOrder(order) /\ n \in Nat
    BY <1>2, EachIs, OrderExists, RecipientsAre
  <2> HIDE DEF order
  <2>2. DOMAIN order = 1..n /\ \A i \in 1..n : order[i] \in Account /\ "issuance" \in Account
    BY <2>1, RecipientsAre DEF IsOrder
  <2>3. \A i \in 1..n : txs[i] = Move("issuance", order[i], ud) /\ IsEntry(txs[i])
    <3>1. ud \in Int
      OBVIOUS
    <3>2. \A i \in 1..n : txs[i] = Move("issuance", order[i], ud)
      BY <2>2 DEF Each
    <3>3. ASSUME NEW i \in 1..n PROVE IsEntry(Move("issuance", order[i], ud))
      <4>1. order[i] \in Account /\ "issuance" \in Account
        BY <2>2
      <4> QED BY <3>1, <4>1, Zenon, MoveIsEntry
    <3> HIDE DEF txs
    <3> QED BY <3>2, <3>3
  <2>4. txs \in Seq(Entries) /\ Len(txs) = n
    <3>1. txs \in [1..n -> Entries]
      <4>1. txs = [i \in 1..n |-> txs[i]]
        BY <2>2 DEF Each
      <4> HIDE DEF txs, Entries
      <4> QED BY <2>3, <1>e, <4>1
    <3> HIDE DEF txs, Entries, n
    <3> QED BY <3>1, <2>1
  <2>5. ASSUME NEW N \in Nat, NEW all, NEW h, n <= N, \A i \in 1..n : all[i] = txs[i],
               IsPosting(balance, all, N, h)
        PROVE  h[n] = [bal |-> AfterDividend(ud), ok |-> TRUE]
    <3> DEFINE P(k) == [bal |-> PaidUpTo(ud, order, k), ok |-> TRUE]
               Q == {k \in 0..n : h[k] = P(k)}
    <3>1. 0 \in Q
      <4>1. PaidUpTo(ud, order, 0) = balance
        <5>1. \A a \in Account : balance[a] \in Int /\ (~ \E i \in 1..0 : order[i] = a)
          BY DEF Books
        <5>2. ud * 0 = 0
          OBVIOUS
        <5>3. \A a \in Account : balance[a] = PaidUpTo(ud, order, 0)[a]
          BY <5>1, <5>2 DEF PaidUpTo
        <5> QED BY <5>3 DEF PaidUpTo, Books
      <4> QED BY <4>1, <2>1, <2>5 DEF IsPosting
    <3>2. \A k \in 0..(n - 1) : k \in Q => k + 1 \in Q
      <4> SUFFICES ASSUME NEW k \in 0..(n - 1), h[k] = P(k) PROVE h[k + 1] = P(k + 1)
        BY <2>1
      <4>1. k + 1 \in 1..n /\ (k + 1) - 1 = k /\ k + 1 \in 1..N /\ k \in Nat /\ k + 1 <= n
        BY <2>1, <2>5
      <4>2. h[k + 1] = PostNext(h[k], Move("issuance", order[k + 1], ud))
        <5>1. h[k + 1] = PostNext(h[(k + 1) - 1], all[k + 1])
          BY <2>5, <4>1 DEF IsPosting
        <5>2. all[k + 1] = Move("issuance", order[k + 1], ud)
          <6> HIDE DEF txs
          <6> QED BY <2>3, <2>5, <4>1
        <5> QED BY <4>1, <5>1, <5>2
      <4>3. PostNext(P(k), Move("issuance", order[k + 1], ud)) = P(k + 1)
        BY <2>1, <4>1, PaidNext
      <4> HIDE DEF P
      <4> QED BY <4>2, <4>3
    <3>3. n \in Q
      <4> HIDE DEF Q
      <4>1. \A k \in 0..n : k \in Q
        BY <2>1, <3>1, <3>2, UpToInduction
      <4> QED BY <2>1, <4>1
    <3>4. PaidUpTo(ud, order, n) = AfterDividend(ud)
      <4>1. \A a \in Account : (\E i \in 1..n : order[i] = a) <=> a \in Recipients
        BY <2>1 DEF IsOrder
      <4> QED BY <4>1 DEF PaidUpTo, AfterDividend
    <3> QED BY <3>3, <3>4
  <2> HIDE DEF txs, Entries
  <2> WITNESS n \in Nat
  <2> QED BY <2>1, <2>3, <2>4, <2>5 DEF Entries
<1> QED BY <1>1, <1>2

(* The fund, shared out.                                                   *)
Share == balance["fund"] \div Cardinality(Recipients)
Redistribution == SharedOut("fund", Share * Cardinality(Recipients), Share)

AfterRun(ud) ==
    [a \in Account |->
        balance[a] + IF a \in Recipients THEN ud + Share
                     ELSE IF a = "issuance" THEN -(ud * Cardinality(Recipients))
                     ELSE IF a = "fund" THEN -(Share * Cardinality(Recipients)) ELSE 0]

LEMMA ShareType ==
    ASSUME balance["fund"] \in Nat, Recipients # {}
    PROVE  /\ Share \in Nat /\ Cardinality(Recipients) \in Nat /\ Cardinality(Recipients) > 0
           /\ Share * Cardinality(Recipients) \in Nat
           /\ balance["fund"] - Share * Cardinality(Recipients) \in 0..(Cardinality(Recipients) - 1)
<1> DEFINE n == Cardinality(Recipients)
<1>1. n \in Nat /\ n > 0
  BY RecipientsAre
<1>2. Share \in Nat /\ balance["fund"] - Share * n \in 0..(n - 1)
  <2> HIDE DEF n
  <2>1. /\ balance["fund"] \div n \in Nat
        /\ balance["fund"] - (balance["fund"] \div n) * n \in 0..(n - 1)
    BY <1>1, ShareIs
  <2> QED BY <2>1 DEF Share, n
<1>3. \A x, y \in Nat : x * y \in Nat
  OBVIOUS
<1> QED BY <1>1, <1>2, <1>3

LEMMA RedistributionIs ==
    ASSUME balance["fund"] \in Nat, Recipients # {}
    PROVE  RedistributeTxs = IF Share = 0 THEN <<>> ELSE <<Redistribution>>
<1>1. balance["fund"] = 0 => Share = 0
  <2>1. \A n \in Nat : n > 0 => 0 \div n = 0
    OBVIOUS
  <2> QED BY <2>1, ShareType DEF Share
<1>2. balance["fund"] <= 0 <=> balance["fund"] = 0
  OBVIOUS
<1> QED BY <1>1, <1>2 DEF RedistributeTxs, Redistribution, SharedOut, Share

LEMMA RedistributionPosted ==
    ASSUME balance \in Books, balance["fund"] \in Nat, Recipients # {}, NEW ud \in Nat
    PROVE  /\ IsEntry(Redistribution)
           /\ PostNext([bal |-> AfterDividend(ud), ok |-> TRUE], Redistribution)
                = [bal |-> AfterRun(ud), ok |-> TRUE]
<1> DEFINE tx == Redistribution
           n == Cardinality(Recipients)
           bal == AfterDividend(ud)
<1>1. /\ IsEntry(tx) /\ DOMAIN tx = Recipients \cup {"fund"} /\ EntrySum(tx) = 0
      /\ tx["fund"] = -(Share * n) /\ \A m \in Recipients : tx[m] = Share
  <2>1. Share \in Int /\ Share * n \in Int
    BY ShareType
  <2> QED BY <2>1, SharedEntry DEF Redistribution
<1>2. AppendOK(bal, tx)
  <2> HIDE DEF tx, bal
  <2> QED BY <1>1, RecipientsAre DEF AppendOK
<1>3. ASSUME NEW a \in Account
      PROVE  bal[a] + (IF a \in DOMAIN tx THEN tx[a] ELSE 0) = AfterRun(ud)[a]
  <2>1. balance[a] \in Int /\ Share \in Int /\ ud * n \in Int /\ Share * n \in Int
    BY ShareType DEF Books
  <2>2. CASE a \in Recipients
    <3>1. bal[a] = balance[a] + ud /\ AfterRun(ud)[a] = balance[a] + (ud + Share) /\ tx[a] = Share
          /\ a \in DOMAIN tx
      BY <2>2, <1>1 DEF AfterDividend, AfterRun
    <3> HIDE DEF bal, tx
    <3> QED BY <2>1, <3>1
  <2>3. CASE a = "fund"
    <3>1. bal[a] = balance[a] + 0 /\ AfterRun(ud)[a] = balance[a] + -(Share * n)
          /\ tx[a] = -(Share * n) /\ a \in DOMAIN tx
      BY <2>3, <1>1, RecipientsAre DEF AfterDividend, AfterRun
    <3> HIDE DEF bal, tx, n
    <3> QED BY <2>1, <3>1
  <2>4. CASE a = "issuance"
    <3>1. bal[a] = balance[a] + -(ud * n) /\ AfterRun(ud)[a] = balance[a] + -(ud * n)
          /\ a \notin DOMAIN tx
      BY <2>4, <1>1, RecipientsAre DEF AfterDividend, AfterRun
    <3> HIDE DEF bal, tx, n
    <3> QED BY <2>1, <3>1
  <2>5. CASE a \notin Recipients \cup {"fund", "issuance"}
    <3>1. bal[a] = balance[a] + 0 /\ AfterRun(ud)[a] = balance[a] + 0 /\ a \notin DOMAIN tx
      BY <2>5, <1>1, RecipientsAre DEF AfterDividend, AfterRun
    <3> HIDE DEF bal, tx, n
    <3> QED BY <2>1, <3>1
  <2> QED BY <2>2, <2>3, <2>4, <2>5
<1>4. Posted(bal, tx) = AfterRun(ud)
  <2>1. AfterRun(ud) = [a \in Account |-> AfterRun(ud)[a]]
    BY DEF AfterRun
  <2> HIDE DEF bal, tx
  <2> QED BY <1>2, <1>3, <2>1 DEF Posted
<1> HIDE DEF bal, tx
<1>5. PostNext([bal |-> bal, ok |-> TRUE], tx) = [bal |-> AfterRun(ud), ok |-> TRUE]
  BY <1>2, <1>4 DEF PostNext
<1> QED BY <1>1, <1>5 DEF bal, tx

(* Every transaction of a run is accepted.                                 *)
LEMMA RunIsWhole ==
    ASSUME balance \in Books, balance["fund"] \in Nat, Recipients # {},
           NEW ud \in Nat, ud > 0, NEW batch \in BOOLEAN
    PROVE  PostAll(balance, DividendTxs(ud, batch) \o RedistributeTxs)
             = [bal |-> AfterRun(ud), ok |-> TRUE]
<1> DEFINE txs == DividendTxs(ud, batch)
           all == txs \o RedistributeTxs
           Entries == UNION {[B -> Int] : B \in SUBSET Account}
           paid == [bal |-> AfterDividend(ud), ok |-> TRUE]
<1>1. PICK n \in Nat :
        /\ txs \in Seq(Entries) /\ Len(txs) = n
        /\ \A i \in 1..n : IsEntry(txs[i])
        /\ \A N \in Nat : \A a, h :
              /\ n <= N /\ (\A i \in 1..n : a[i] = txs[i])
              /\ IsPosting(balance, a, N, h)
              => h[n] = paid
  BY DividendPosted
<1> HIDE DEF txs, paid
<1>2. CASE Share = 0
  <2>1. all = txs
    <3>1. all = txs \o <<>>
      BY <1>2, RedistributionIs
    <3> HIDE DEF Entries
    <3> QED BY <3>1, <1>1
  <2>2. DOMAIN txs = 1..n
    <3> HIDE DEF Entries
    <3> QED BY <1>1
  <2>3. PICK h : IsPosting(balance, txs, n, h) /\ PostAll(balance, txs) = h[n]
    BY <1>1, <2>2, PostAllSteps
  <2>4. h[n] = paid
    BY <1>1, <2>3
  <2>5. AfterDividend(ud) = AfterRun(ud)
    <3>1. ud + Share = ud /\ -(Share * Cardinality(Recipients)) = 0
      BY <1>2, ShareType
    <3> QED BY <3>1 DEF AfterDividend, AfterRun
  <2> HIDE DEF all
  <2> QED BY <2>1, <2>3, <2>4, <2>5 DEF all, txs, paid
<1>3. CASE Share # 0
  <2> DEFINE tx == Redistribution
  <2>1. all = txs \o <<tx>>
    BY <1>3, RedistributionIs
  <2>2. IsEntry(tx)
    BY RedistributionPosted
  <2> HIDE DEF tx
  <2>3. tx \in Entries
    BY <2>2 DEF IsEntry
  <2>4. /\ DOMAIN all = 1..(n + 1) /\ all[n + 1] = tx
        /\ \A i \in 1..n : all[i] = txs[i]
    <3> HIDE DEF all, Entries
    <3> QED BY <1>1, <2>1, <2>3
  <2> HIDE DEF all
  <2>5. \A i \in 1..(n + 1) : IsEntry(all[i])
    <3>1. \A i \in 1..(n + 1) : i \in 1..n \/ i = n + 1
      OBVIOUS
    <3> QED BY <1>1, <2>2, <2>4, <3>1
  <2>6. PICK h : IsPosting(balance, all, n + 1, h) /\ PostAll(balance, all) = h[n + 1]
    <3>1. n + 1 \in Nat
      OBVIOUS
    <3> QED BY <2>4, <2>5, <3>1, PostAllSteps
  <2>7. h[n] = paid
    <3>1. n + 1 \in Nat /\ n <= n + 1
      OBVIOUS
    <3> QED BY <1>1, <2>4, <2>6, <3>1
  <2>8. h[n + 1] = PostNext(paid, tx)
    <3>1. n + 1 \in 1..(n + 1) /\ (n + 1) - 1 = n
      OBVIOUS
    <3> QED BY <2>4, <2>6, <2>7, <3>1 DEF IsPosting
  <2>9. PostNext(paid, tx) = [bal |-> AfterRun(ud), ok |-> TRUE]
    BY RedistributionPosted DEF tx, paid
  <2> QED BY <2>6, <2>8, <2>9 DEF all, txs
<1> QED BY <1>2, <1>3

-----------------------------------------------------------------------------
(***************************************************************************)
(* The invariant: types, and a ledger whose accounts add up to zero.       *)
(***************************************************************************)
CInv == TypeOK /\ EntrySum(balance) = 0

Sound(bal) ==
    /\ bal \in Books /\ bal["fund"] \in Nat /\ bal["wallet"] \in Nat
    /\ EntrySum(bal) = 0

LEMMA AccountsAre ==
    /\ Member \subseteq Account
    /\ {"issuance", "fund", "wallet"} \subseteq Account
    /\ "issuance" \notin Member /\ "fund" \notin Member /\ "wallet" \notin Member
    /\ None \notin Member
BY MemberAssumption DEF Account

LEMMA MoveKeeps ==
    ASSUME NEW bal, Sound(bal), NEW a \in Account, NEW b \in Account, NEW n \in Int,
           a # "fund", b = "fund" => n >= 0
    PROVE  Sound(Posted(bal, Move(a, b, n)))
<1> DEFINE tx == Move(a, b, n)
           next == Posted(bal, tx)
<1>1. IsEntry(tx) /\ DOMAIN tx = {a, b}
  BY MoveIsEntry
<1>2. next \in Books /\ EntrySum(next) = 0 /\ next["wallet"] >= 0
  <2> HIDE DEF tx
  <2> QED BY <1>1, PostedType, PostedSum, PostedWallet DEF Sound
<1>3. next["fund"] >= 0
  <2>1. CASE b # "fund"
    <3> HIDE DEF tx
    <3> QED BY <1>1, <2>1, AccountsAre, PostedUntouched DEF Sound
  <2>2. CASE b = "fund" /\ AppendOK(bal, tx)
    <3>1. tx[b] = n
      BY <2>2 DEF Move
    <3>2. next[b] = bal[b] + tx[b]
      <4>1. b \in DOMAIN tx
        BY <1>1
      <4> HIDE DEF tx
      <4> QED BY <1>1, <2>2, <4>1, PostedAt DEF Sound
    <3> HIDE DEF next, tx
    <3> QED BY <2>2, <3>1, <3>2 DEF Sound
  <2>3. CASE ~AppendOK(bal, tx)
    BY <2>3 DEF Posted, Sound
  <2> QED BY <2>1, <2>2, <2>3
<1>4. next["fund"] \in Int /\ next["wallet"] \in Int
  <2> HIDE DEF next
  <2> QED BY <1>2, AccountsAre DEF Books
<1> HIDE DEF next
<1>5. Sound(next)
  BY <1>2, <1>3, <1>4 DEF Sound
<1> QED BY <1>5 DEF next

(* A member's account of a move, and everyone else's.                      *)
LEMMA MoveOthers ==
    ASSUME NEW bal \in Books, NEW a \in Account, NEW b \in Account, NEW n \in Int,
           NEW x \in Account, x # a, x # b
    PROVE  Posted(bal, Move(a, b, n))[x] = bal[x]
<1>1. IsEntry(Move(a, b, n)) /\ DOMAIN Move(a, b, n) = {a, b}
  BY MoveIsEntry
<1>2. x \notin DOMAIN Move(a, b, n)
  BY <1>1
<1> QED BY <1>1, <1>2, PostedUntouched

LEMMA MoveReceives ==
    ASSUME NEW bal \in Books, NEW a \in Account, NEW b \in Account, a # b, NEW n \in Nat
    PROVE  Posted(bal, Move(a, b, n))[b] >= bal[b]
<1> DEFINE tx == Move(a, b, n)
<1>1. bal[b] \in Int /\ IsEntry(tx) /\ b \in DOMAIN tx /\ tx[b] = n
  BY MoveIsEntry DEF Move, Books
<1>2. CASE AppendOK(bal, tx)
  <2>1. Posted(bal, tx)[b] = bal[b] + tx[b]
    <3> HIDE DEF tx
    <3> QED BY <1>1, <1>2, PostedAt
  <2> HIDE DEF tx
  <2> QED BY <1>1, <2>1 DEF tx
<1>3. CASE ~AppendOK(bal, tx)
  BY <1>1, <1>3 DEF Posted
<1> QED BY <1>2, <1>3

LEMMA RunIs ==
    ASSUME CInv, NEW batch \in BatchUD, RunUD(batch)
    PROVE  LET ud == UDBase(status, balance)
           IN  /\ ud \in Nat /\ ud > 0 /\ Recipients # {}
               /\ balance' = AfterRun(ud)
               /\ currentUD' = UDBase(status, balance')
               /\ issues' = issues + 1
               /\ UNCHANGED <<status, transfer, closed>>
<1> DEFINE ud == UDBase(status, balance)
           result == PostAll(balance, DividendTxs(ud, batch) \o RedistributeTxs)
<1>1. balance \in Books /\ balance["fund"] \in Nat /\ batch \in BOOLEAN
  BY PolicyAssumption DEF CInv, TypeOK, Books
<1>2. ud \in Nat /\ (Recipients = {} => ud = 0)
  BY <1>1, UDBaseIs DEF Recipients
<1>3. /\ ud > 0 /\ balance' = result.bal
      /\ currentUD' = IF result.ok THEN UDBase(status, result.bal) ELSE currentUD
      /\ issues' = issues + 1 /\ UNCHANGED <<status, transfer, closed>>
  BY DEF RunUD
<1>4. result = [bal |-> AfterRun(ud), ok |-> TRUE]
  <2> HIDE DEF ud
  <2> QED BY <1>1, <1>2, <1>3, RunIsWhole
<1> HIDE DEF ud, result
<1>5. balance' = AfterRun(ud) /\ currentUD' = UDBase(status, balance')
  BY <1>3, <1>4
<1> QED BY <1>2, <1>3, <1>5 DEF ud

LEMMA RunKeeps ==
    ASSUME Sound(balance), Recipients # {}, NEW ud \in Nat, ud > 0
    PROVE  Sound(AfterRun(ud))
<1> DEFINE n == Cardinality(Recipients)
<1>1. balance \in Books /\ balance["fund"] \in Nat /\ balance["wallet"] \in Nat /\ n \in Nat
      /\ Share \in Nat /\ Share * n \in Nat /\ balance["fund"] - Share * n >= 0
  BY ShareType DEF Sound
<1>2. PostNext([bal |-> balance, ok |-> TRUE], Batched(ud))
        = [bal |-> AfterDividend(ud), ok |-> TRUE]
  BY <1>1, BatchedPosted
<1>3. PostNext([bal |-> AfterDividend(ud), ok |-> TRUE], Redistribution)
        = [bal |-> AfterRun(ud), ok |-> TRUE]
  BY <1>1, RedistributionPosted
<1>4. AfterDividend(ud) = Posted(balance, Batched(ud))
  BY <1>2 DEF PostNext
<1>5. AfterRun(ud) = Posted(AfterDividend(ud), Redistribution)
  BY <1>3 DEF PostNext
<1>6. IsEntry(Batched(ud)) /\ IsEntry(Redistribution)
  BY <1>1, BatchedPosted, RedistributionPosted
<1>7. AfterDividend(ud) \in Books /\ EntrySum(AfterDividend(ud)) = 0
  BY <1>1, <1>4, <1>6, PostedType, PostedSum DEF Sound
<1>8. AfterRun(ud) \in Books /\ EntrySum(AfterRun(ud)) = 0
  BY <1>5, <1>6, <1>7, PostedType, PostedSum
<1>9. AfterRun(ud)["fund"] \in Nat /\ AfterRun(ud)["wallet"] \in Nat
  <2>1. AfterRun(ud)["fund"] = balance["fund"] + -(Share * n)
    BY RecipientsAre DEF AfterRun
  <2>2. AfterRun(ud)["wallet"] = balance["wallet"] + 0
    BY RecipientsAre DEF AfterRun
  <2> HIDE DEF n
  <2> QED BY <1>1, <2>1, <2>2
<1> QED BY <1>8, <1>9 DEF Sound

LEMMA InitSound ==
    ASSUME Init
    PROVE  CInv
<1>1. PICK grant \in [Founders -> Grants] :
        /\ status = [m \in Member |-> IF m \in Founders THEN "active" ELSE "unknown"]
        /\ balance = [a \in Account |->
                        CASE a \in Founders -> grant[a]
                          [] a = "wallet" -> Seed
                          [] a = "issuance" -> -(EntrySum(grant) + Seed)
                          [] OTHER -> 0]
        /\ currentUD = UDBase(status, [balance EXCEPT !["issuance"] = @ + Seed])
        /\ transfer = None /\ closed = FALSE /\ issues = 0
  BY DEF Init
<1> DEFINE total == EntrySum(grant)
<1>2. /\ Founders \subseteq Member /\ Founders \subseteq Account /\ IsFiniteSet(Founders)
      /\ grant \in [Founders -> Nat] /\ grant \in [Founders -> Int] /\ Seed \in Nat
  <2>1. Founders \in SUBSET Member /\ IsFiniteSet(Member)
    BY MemberAssumption
  <2>2. IsFiniteSet(Founders)
    BY <2>1, FS_Subset
  <2>3. Grants \subseteq Nat /\ Seed \in Nat
    BY MoneyAssumption
  <2>4. grant \in [Founders -> Nat] /\ grant \in [Founders -> Int]
    <3>0. \A x \in Founders : grant[x] \in Grants
      OBVIOUS
    <3>1. \A x \in Founders : grant[x] \in Nat /\ grant[x] \in Int
      <4>1. \A y \in Nat : y \in Int
        OBVIOUS
      <4> QED BY <2>3, <3>0, <4>1, Zenon
    <3>2. grant = [x \in Founders |-> grant[x]]
      OBVIOUS
    <3> QED BY <3>1, <3>2, Zenon
  <2>5. Founders \subseteq Account
    BY <2>1, AccountsAre
  <2> QED BY <2>1, <2>2, <2>3, <2>4, <2>5
<1>3. total \in Int
  BY <1>2, SumType
<1>a. /\ \A a \in Founders : balance[a] = grant[a]
      /\ balance["wallet"] = Seed /\ balance["issuance"] = -(total + Seed)
      /\ \A a \in Account : a \notin Founders \cup {"wallet", "issuance"} => balance[a] = 0
      /\ balance = [a \in Account |-> balance[a]]
  <2> HIDE DEF total
  <2>1. "wallet" \notin Founders /\ "issuance" \notin Founders
        /\ "wallet" \in Account /\ "issuance" \in Account
    BY <1>2, AccountsAre
  <2> QED BY <1>1, <1>2, <2>1 DEF total
<1> HIDE DEF total
<1>4. balance \in Books /\ balance["fund"] = 0
  <2>1. \A a \in Account : balance[a] \in Int
    BY <1>a, <1>2, <1>3
  <2>2. balance["fund"] = 0
    BY <1>a, <1>2, AccountsAre
  <2> QED BY <1>a, <2>1, <2>2 DEF Books
<1>5. EntrySum(balance) = 0
  <2> DEFINE f == [a \in Account |-> IF a \in Founders THEN grant[a] ELSE 0]
             w == [a \in {"wallet"} |-> Seed]
             h == [a \in {"wallet"} \cup {"issuance"} |->
                     IF a = "wallet" THEN Seed ELSE -(total + Seed)]
  <2>1. EntrySum(f) = total
    <3>1. /\ f \in [Account -> Int]
          /\ \A x \in Account : f[x] = IF x \in Founders THEN grant[x] ELSE 0
      BY <1>2
    <3> HIDE DEF f
    <3>2. EntrySum(f) = EntrySum(grant)
      BY <1>2, <3>1, AccountsFinite, SumWithout
    <3> QED BY <3>2 DEF total
  <2>2. EntrySum(w) = Seed
    <3>1. w \in [{"wallet"} -> Int] /\ (\A x \in {"wallet"} : w[x] = Seed) /\ Seed \in Int
      BY <1>2
    <3>2. IsFiniteSet({"wallet"}) /\ Cardinality({"wallet"}) = 1
      BY FS_Singleton
    <3> HIDE DEF w
    <3>3. EntrySum(w) = Seed * Cardinality({"wallet"})
      BY <3>1, <3>2, SumOfEqual
    <3> QED BY <1>2, <3>2, <3>3
  <2>3. EntrySum(h) = -total
    <3>1. w \in [{"wallet"} -> Int] /\ h \in [{"wallet"} \cup {"issuance"} -> Int]
          /\ (\A x \in {"wallet"} : h[x] = w[x])
      BY <1>2, <1>3
    <3>a. IsFiniteSet({"wallet"})
      BY FS_Singleton
    <3>2. h["issuance"] = -(total + Seed) /\ "issuance" \notin {"wallet"}
      OBVIOUS
    <3> HIDE DEF w, h
    <3>b. \A k \in [{"wallet"} \cup {"issuance"} -> Int] :
            (\A x \in {"wallet"} : k[x] = w[x]) => EntrySum(k) = EntrySum(w) + k["issuance"]
      BY <3>1, <3>a, <3>2, SumAndOne
    <3>3. EntrySum(h) = EntrySum(w) + h["issuance"]
      BY <3>1, <3>b
    <3> QED BY <2>2, <3>2, <3>3, <1>2, <1>3
  <2>4. EntrySum(balance) = EntrySum(f) + EntrySum(h)
    <3> DEFINE B == {"wallet"} \cup {"issuance"}
    <3>1. f \in [Account -> Int] /\ B \in SUBSET Account /\ h \in [B -> Int]
      BY <1>2, <1>3, AccountsAre
    <3>2. Adds(Account, f, B, h, balance)
      <4> SUFFICES ASSUME NEW a \in Account
                   PROVE  balance[a] = f[a] + IF a \in B THEN h[a] ELSE 0
        BY DEF Adds
      <4>1. CASE a \in Founders
        BY <1>a, <1>2, <4>1, AccountsAre
      <4>2. CASE a = "wallet" \/ a = "issuance"
        BY <1>a, <1>2, <1>3, <4>2, AccountsAre
      <4>3. CASE a \notin Founders \cup {"wallet", "issuance"}
        BY <1>a, <4>3
      <4> QED BY <4>1, <4>2, <4>3
    <3>3. balance \in [Account -> Int]
      BY <1>4 DEF Books
    <3> HIDE DEF f, h, B
    <3> QED BY <3>1, <3>2, <3>3, AccountsFinite, SumOfBoth
  <2> HIDE DEF f, h
  <2> QED BY <1>3, <2>1, <2>3, <2>4
<1>6. currentUD \in Nat
  <2> DEFINE bal == [balance EXCEPT !["issuance"] = @ + Seed]
  <2>1. bal \in Books
    BY <1>2, <1>4, AccountsAre DEF Books
  <2> HIDE DEF bal
  <2> QED BY <1>1, <2>1, UDBaseIs DEF bal
<1>7. TypeOK
  <2>1. status \in [Member -> {"unknown", "active", "left"}]
    BY <1>1
  <2>2. transfer \in Transfer \cup {None} /\ closed \in BOOLEAN /\ issues \in 0..MaxIssues
    <3>1. transfer = None /\ closed = FALSE /\ issues = 0
      BY <1>1
    <3>2. closed \in BOOLEAN
      BY <3>1, Zenon
    <3>3. issues \in 0..MaxIssues
      BY <3>1, BoundAssumption
    <3> QED BY <3>1, <3>2, <3>3, Zenon
  <2>3. balance \in [Account -> Int] /\ balance["fund"] \in Nat /\ balance["wallet"] \in Nat
    BY <1>2, <1>4, <1>a DEF Books
  <2> QED BY <1>6, <2>1, <2>2, <2>3 DEF TypeOK
<1> QED BY <1>5, <1>7 DEF CInv

-----------------------------------------------------------------------------
(* Every step keeps the invariant.                                         *)
LEMMA TransferType ==
    ASSUME CInv, transfer # None
    PROVE  /\ transfer.from \in Member \cup {"wallet"} /\ transfer.to \in Member \cup {"wallet"}
           /\ transfer.from \in Account /\ transfer.to \in Account
           /\ transfer.from # "fund" /\ transfer.to # "fund"
           /\ transfer.from # "issuance" /\ transfer.to # "issuance"
           /\ transfer.amount \in Nat /\ transfer.amount \in Int
<1>1. transfer \in Transfer
  BY DEF CInv, TypeOK
<1>2. /\ transfer.from \in Member \cup {"wallet"} /\ transfer.to \in Member \cup {"wallet"}
      /\ transfer.amount \in Amounts
  BY <1>1 DEF Transfer
<1>3. transfer.amount \in Nat
  BY <1>2, MoneyAssumption
<1> QED BY <1>2, <1>3, AccountsAre

LEMMA LedgerKept ==
    ASSUME CInv, [Next]_vars
    PROVE  Sound(balance')
<1>0. Sound(balance)
  BY DEF CInv, TypeOK, Sound, Books
<1>1. ASSUME NEW m \in Member, NEW n \in Grants, AddMember(m, n) PROVE Sound(balance')
  <2>1. balance' = Posted(balance, Move("issuance", m, n)) /\ n \in Int /\ m \in Account
        /\ "issuance" \in Account /\ m # "fund"
    BY <1>1, MoneyAssumption, AccountsAre DEF AddMember, SetMembers
  <2> QED BY <1>0, <2>1, MoveKeeps
<1>2. ASSUME NEW m \in Member, DeactivateMember(m) \/ Reactivate(m) \/ LeaveKeep(m)
      PROVE Sound(balance')
  BY <1>0, <1>2 DEF DeactivateMember, Reactivate, LeaveKeep, SetMembers
<1>3. ASSUME NEW m \in Member, NEW to \in Account, LeaveTo(m, to) PROVE Sound(balance')
  <2>1. CASE WorthMoving(m)
    <3>1. balance' = Posted(balance, Move(m, to, balance[m])) /\ balance[m] > 0
      BY <1>3, <2>1 DEF LeaveTo, SetMembers, WorthMoving
    <3>2. balance[m] \in Int /\ m \in Account /\ m # "fund"
      BY <1>0, AccountsAre DEF Sound, Books
    <3> QED BY <1>0, <3>1, <3>2, MoveKeeps
  <2>2. CASE ~WorthMoving(m)
    BY <1>0, <1>3, <2>2 DEF LeaveTo, SetMembers
  <2> QED BY <2>1, <2>2
<1>4. ASSUME NEW m \in Member, NEW to \in Member, NEW n \in Amounts, Pay(m, to, n)
      PROVE Sound(balance')
  <2>1. balance' = Posted(balance, Move(m, to, n)) /\ n \in Int /\ m \in Account
        /\ to \in Account /\ m # "fund" /\ to # "fund"
    BY <1>4, MoneyAssumption, AccountsAre DEF Pay
  <2> QED BY <1>0, <2>1, MoveKeeps
<1>5. ASSUME NEW m \in Member, NEW n \in Amounts, StartTransfer(m, n) \/ AcceptTransfer(m, n)
      PROVE Sound(balance')
  BY <1>0, <1>5 DEF StartTransfer, AcceptTransfer
<1>6. ASSUME CommitTransfer PROVE Sound(balance')
  <2>1. transfer # None
        /\ balance' = Posted(balance, Move(transfer.from, transfer.to, transfer.amount))
    BY <1>6 DEF CommitTransfer
  <2> QED BY <1>0, <2>1, TransferType, MoveKeeps
<1>7. CASE DropTransfer \/ CloseContact
  BY <1>0, <1>7 DEF DropTransfer, CloseContact
<1>8. ASSUME NEW d \in Deltas, AdjustReserve(d) PROVE Sound(balance')
  <2>1. balance' = Posted(balance, Move("issuance", "wallet", d)) /\ d \in Int
        /\ "issuance" \in Account /\ "wallet" \in Account
    BY <1>8, MoneyAssumption, AccountsAre DEF AdjustReserve
  <2> QED BY <1>0, <2>1, MoveKeeps
<1>9. ASSUME RetireReserve PROVE Sound(balance')
  <2>1. balance' = Posted(balance, Move("wallet", "issuance", balance["wallet"]))
        /\ balance["wallet"] \in Int /\ "issuance" \in Account /\ "wallet" \in Account
    BY <1>0, <1>9, AccountsAre DEF RetireReserve, Sound
  <2> QED BY <1>0, <2>1, MoveKeeps
<1>10. ASSUME NEW batch \in BatchUD, RunUD(batch) PROVE Sound(balance')
  <2> DEFINE ud == UDBase(status, balance)
  <2>1. ud \in Nat /\ ud > 0 /\ Recipients # {} /\ balance' = AfterRun(ud)
    BY <1>10, RunIs
  <2> HIDE DEF ud
  <2> QED BY <1>0, <2>1, RunKeeps
<1>11. CASE UNCHANGED vars
  BY <1>0, <1>11 DEF vars
<1> QED BY Zenon, <1>1, <1>2, <1>3, <1>4, <1>5, <1>6, <1>7, <1>8, <1>9, <1>10, <1>11 DEF Next

LEMMA StepKeepsTypes ==
    ASSUME CInv, [Next]_vars
    PROVE  TypeOK'
<1> DEFINE others == /\ status \in Statuses /\ currentUD \in Nat
                     /\ transfer \in Transfer \cup {None}
                     /\ closed \in BOOLEAN /\ issues \in 0..MaxIssues
<1>0. others /\ Sound(balance) /\ Sound(balance') /\ balance' \in Books
  BY LedgerKept DEF CInv, TypeOK, Sound, Books, Statuses
<1>u. \A st : UDBase(st, balance') \in Nat
  BY <1>0, UDBaseIs
<1>1. ASSUME NEW m \in Member, NEW n \in Grants, AddMember(m, n) PROVE others'
  <2>1. status' = [status EXCEPT ![m] = "active"] /\ currentUD' = UDBase(status', balance')
        /\ UNCHANGED <<transfer, closed, issues>>
    BY <1>1 DEF AddMember, SetMembers
  <2>2. status' \in Statuses
    BY <1>0, <2>1 DEF Statuses
  <2> QED BY <1>0, <1>u, <2>1, <2>2
<1>2. ASSUME NEW m \in Member, DeactivateMember(m) \/ Reactivate(m) \/ LeaveKeep(m)
      PROVE others'
  <2>1. status' \in {[status EXCEPT ![m] = "active"], [status EXCEPT ![m] = "left"]}
        /\ currentUD' = UDBase(status', balance')
        /\ UNCHANGED <<transfer, closed, issues>>
    BY <1>2 DEF DeactivateMember, Reactivate, LeaveKeep, SetMembers
  <2>2. status' \in Statuses
    BY <1>0, <2>1 DEF Statuses
  <2> QED BY <1>0, <1>u, <2>1, <2>2
<1>3. ASSUME NEW m \in Member, NEW to \in Account, LeaveTo(m, to) PROVE others'
  <2>1. status' = [status EXCEPT ![m] = "left"] /\ currentUD' = UDBase(status', balance')
        /\ UNCHANGED <<transfer, closed, issues>>
    BY <1>3 DEF LeaveTo, SetMembers
  <2>2. status' \in Statuses
    BY <1>0, <2>1 DEF Statuses
  <2> QED BY <1>0, <1>u, <2>1, <2>2
<1>4. ASSUME NEW m \in Member, NEW to \in Member, NEW n \in Amounts, Pay(m, to, n) PROVE others'
  BY <1>0, <1>4 DEF Pay
<1>5. ASSUME NEW m \in Member, NEW n \in Amounts, StartTransfer(m, n) \/ AcceptTransfer(m, n)
      PROVE others'
  <2>1. transfer' \in Transfer /\ UNCHANGED <<status, currentUD, closed, issues>>
    BY <1>5 DEF StartTransfer, AcceptTransfer, Transfer
  <2> QED BY <1>0, <2>1
<1>6. ASSUME CommitTransfer \/ DropTransfer PROVE others'
  BY <1>0, <1>6 DEF CommitTransfer, DropTransfer
<1>7. ASSUME CloseContact \/ RetireReserve PROVE others'
  <2>1. closed' \in BOOLEAN /\ UNCHANGED <<status, currentUD, transfer, issues>>
    BY <1>0, <1>7, Zenon DEF CloseContact, RetireReserve
  <2> QED BY <1>0, <2>1
<1>8. ASSUME NEW d \in Deltas, AdjustReserve(d) PROVE others'
  <2>1. issues < MaxIssues /\ issues' = issues + 1
        /\ UNCHANGED <<status, currentUD, transfer, closed>>
    BY <1>8 DEF AdjustReserve
  <2>2. issues' \in 0..MaxIssues
    BY <1>0, <2>1, BoundAssumption
  <2> QED BY <1>0, <2>1, <2>2
<1>9. ASSUME NEW batch \in BatchUD, RunUD(batch) PROVE others'
  <2>1. issues < MaxIssues
    BY <1>9 DEF RunUD
  <2>2. currentUD' = UDBase(status, balance') /\ issues' = issues + 1
        /\ UNCHANGED <<status, transfer, closed>>
    BY <1>9, RunIs
  <2>3. issues' \in 0..MaxIssues
    BY <1>0, <2>1, <2>2, BoundAssumption
  <2> QED BY <1>0, <1>u, <2>2, <2>3
<1>10. ASSUME UNCHANGED vars PROVE others'
  BY <1>0, <1>10 DEF vars
<1>11. others'
  <2> HIDE DEF others
  <2> QED BY Zenon, <1>1, <1>2, <1>3, <1>4, <1>5, <1>6, <1>7, <1>8, <1>9, <1>10 DEF Next
<1> QED BY <1>0, <1>11 DEF TypeOK, Sound, Books, Statuses

LEMMA StepKeepsInv ==
    ASSUME CInv, [Next]_vars
    PROVE  CInv'
BY LedgerKept, StepKeepsTypes DEF CInv, Sound

LEMMA Invariance == Spec => []CInv
BY InitSound, StepKeepsInv, PTL DEF Spec

(* The types of a node's members and money, with a wallet and a fund that  *)
(* are never negative.                                                     *)
THEOREM MoneyTypesKept == Spec => []TypeOK
<1>1. CInv => TypeOK
  BY DEF CInv
<1> QED BY <1>1, Invariance, PTL

(* Every entry of the ledger has a counter-entry: all accounts together    *)
(* come to zero, however members come, pay and leave (Ledger.Append).      *)
THEOREM LedgerBalances == Spec => [](EntrySum(balance) = 0)
<1>1. CInv => EntrySum(balance) = 0
  BY DEF CInv
<1> QED BY <1>1, Invariance, PTL

(* With anybody left to receive a dividend it is zero only while someone   *)
(* is in debt: a supply can only be negative when members owe the rest     *)
(* (computeUDBase), provided the configuration pays a dividend at all.     *)
THEOREM DividendNeedsNoDebt ==
    ASSUME GenesisUD > 0
    PROVE  Spec => []NoDividendNeedsDebt
<1>1. CInv => NoDividendNeedsDebt
  <2> SUFFICES ASSUME CInv, UDBase(status, balance) = 0, Active(status) # {},
                      \A m \in Member : ~(balance[m] < 0)
               PROVE  FALSE
    BY DEF NoDividendNeedsDebt
  <2>1. balance \in Books /\ balance["fund"] \in Nat /\ balance["wallet"] \in Nat
        /\ EntrySum(balance) = 0
    BY DEF CInv, TypeOK, Books
  <2>2. balance["issuance"] \in Int /\ balance["issuance"] > 0
    <3>1. balance["issuance"] \in Int
      BY <2>1, AccountsAre DEF Books
    <3>2. GenesisUD \in Nat
      BY PolicyAssumption
    <3> QED BY <2>1, <3>1, <3>2, UDBaseIs
  <2>3. \A a \in Account : balance[a] \in Nat
    <3>1. \A a \in Account : balance[a] \in Int
      BY <2>1 DEF Books
    <3>2. \A a \in Account : a \in Member \/ a \in {"issuance", "fund", "wallet"}
      BY DEF Account
    <3> QED BY <2>1, <2>2, <3>1, <3>2
  <2>4. balance \in [Account -> Nat]
    BY <2>1, <2>3 DEF Books
  <2>5. balance["issuance"] <= EntrySum(balance)
    BY <2>4, AccountsFinite, AccountsAre, SumOfNaturals
  <2> QED BY <2>1, <2>2, <2>5
<1> QED BY <1>1, Invariance, PTL

-----------------------------------------------------------------------------
(* What one step does to the account of one member: it gains something     *)
(* while it has not left, it spends what it has, or its transfer commits.  *)
LEMMA MemberStep ==
    ASSUME CInv, Next, NEW x \in Member
    PROVE  \/ balance'[x] = balance[x]
           \/ status[x] # "left" /\ (balance'[x] >= balance[x] \/ balance'[x] >= 0)
           \/ Commits(x) /\ (balance'[x] >= balance[x] \/ transfer.from = x)
<1> DEFINE Goal == \/ balance'[x] = balance[x]
                   \/ status[x] # "left" /\ (balance'[x] >= balance[x] \/ balance'[x] >= 0)
                   \/ Commits(x) /\ (balance'[x] >= balance[x] \/ transfer.from = x)
<1>0. /\ balance \in Books /\ balance[x] \in Int /\ x \in Account
      /\ x \notin {"issuance", "fund", "wallet"}
      /\ {"issuance", "fund", "wallet"} \subseteq Account
  BY AccountsAre DEF CInv, TypeOK, Books
<1>1. ASSUME NEW m \in Member, NEW n \in Grants, AddMember(m, n) PROVE Goal
  <2>1. balance' = Posted(balance, Move("issuance", m, n)) /\ n \in Nat /\ n \in Int
        /\ m \in Account /\ m # "issuance" /\ status[m] = "unknown"
    BY <1>1, MoneyAssumption, AccountsAre DEF AddMember, SetMembers
  <2>2. CASE x = m
    <3>1. balance'[x] >= balance[x]
      BY <1>0, <2>1, <2>2, MoveReceives
    <3> QED BY <2>1, <2>2, <3>1
  <2>3. CASE x # m
    BY <1>0, <2>1, <2>3, MoveOthers
  <2> QED BY <2>2, <2>3
<1>2. ASSUME NEW m \in Member, DeactivateMember(m) \/ Reactivate(m) \/ LeaveKeep(m)
      PROVE Goal
  BY <1>2 DEF DeactivateMember, Reactivate, LeaveKeep, SetMembers
<1>3. ASSUME NEW m \in Member, NEW to \in Account, LeaveTo(m, to) PROVE Goal
  <2>1. status[m] = "active" /\ m \in Account /\ to # m /\ to # "wallet" /\ m # "wallet"
        /\ (to \in Member => status[to] = "active")
    BY <1>3, AccountsAre DEF LeaveTo, Destinations, Heirs, Active
  <2>2. CASE WorthMoving(m)
    <3>1. balance' = Posted(balance, Move(m, to, balance[m])) /\ balance[m] > 0
      BY <1>3, <2>2 DEF LeaveTo, SetMembers, WorthMoving
    <3>2. balance[m] \in Int /\ balance[m] \in Nat
      BY <1>0, <2>1, <3>1 DEF Books
    <3>3. CASE x = m
      <4>1. balance'[m] = balance[m] - balance[m]
        BY <1>0, <2>1, <3>1, <3>2, MovePosted
      <4> QED BY <2>1, <3>2, <3>3, <4>1
    <3>4. CASE x = to
      <4>1. balance'[x] >= balance[x]
        BY <1>0, <2>1, <3>1, <3>2, <3>4, MoveReceives
      <4> QED BY <2>1, <3>4, <4>1
    <3>5. CASE x # m /\ x # to
      BY <1>0, <2>1, <3>1, <3>2, <3>5, MoveOthers
    <3> QED BY <3>3, <3>4, <3>5
  <2>3. CASE ~WorthMoving(m)
    BY <1>3, <2>3 DEF LeaveTo, SetMembers
  <2> QED BY <2>2, <2>3
<1>4. ASSUME NEW m \in Member, NEW to \in Member, NEW n \in Amounts, Pay(m, to, n) PROVE Goal
  <2>1. /\ balance' = Posted(balance, Move(m, to, n)) /\ n \in Nat /\ n \in Int
        /\ m \in Account /\ to \in Account /\ m # to /\ m # "wallet" /\ to # "wallet"
        /\ status[m] = "active" /\ status[to] = "active"
        /\ balance[m] >= n /\ balance[m] \in Int
    BY <1>0, <1>4, MoneyAssumption, AccountsAre DEF Pay, Active, Books
  <2>2. CASE x = m
    <3>1. balance'[m] = balance[m] - n
      BY <1>0, <2>1, MovePosted
    <3> QED BY <2>1, <2>2, <3>1
  <2>3. CASE x = to
    <3>1. balance'[x] >= balance[x]
      BY <1>0, <2>1, <2>3, MoveReceives
    <3> QED BY <2>1, <2>3, <3>1
  <2>4. CASE x # m /\ x # to
    BY <1>0, <2>1, <2>4, MoveOthers
  <2> QED BY <2>2, <2>3, <2>4
<1>5. ASSUME NEW m \in Member, NEW n \in Amounts, StartTransfer(m, n) \/ AcceptTransfer(m, n)
      PROVE Goal
  BY <1>5 DEF StartTransfer, AcceptTransfer
<1>6. ASSUME CommitTransfer PROVE Goal
  <2>1. transfer # None /\ transfer' = None
        /\ balance' = Posted(balance, Move(transfer.from, transfer.to, transfer.amount))
    BY <1>6 DEF CommitTransfer
  <2>2. transfer.from \in Account /\ transfer.to \in Account /\ transfer.amount \in Nat
        /\ transfer.amount \in Int
    BY <2>1, TransferType
  <2>3. CASE x = transfer.from
    BY <2>1, <2>3 DEF Commits
  <2>4. CASE x = transfer.to /\ x # transfer.from
    <3>1. balance'[x] >= balance[x]
      BY <1>0, <2>1, <2>2, <2>4, MoveReceives
    <3> QED BY <2>1, <2>4, <3>1 DEF Commits
  <2>5. CASE x # transfer.from /\ x # transfer.to
    BY <1>0, <2>1, <2>2, <2>5, MoveOthers
  <2> QED BY <2>3, <2>4, <2>5
<1>7. ASSUME DropTransfer \/ CloseContact PROVE Goal
  BY <1>7 DEF DropTransfer, CloseContact
<1>8. ASSUME NEW d \in Deltas, AdjustReserve(d) PROVE Goal
  <2>1. balance' = Posted(balance, Move("issuance", "wallet", d)) /\ d \in Int
    BY <1>8, MoneyAssumption DEF AdjustReserve
  <2> QED BY <1>0, <2>1, MoveOthers
<1>9. ASSUME RetireReserve PROVE Goal
  <2>1. balance' = Posted(balance, Move("wallet", "issuance", balance["wallet"]))
        /\ balance["wallet"] \in Int
    BY <1>0, <1>9 DEF RetireReserve, Books
  <2> QED BY <1>0, <2>1, MoveOthers
<1>10. ASSUME NEW batch \in BatchUD, RunUD(batch) PROVE Goal
  <2> DEFINE ud == UDBase(status, balance)
  <2>1. ud \in Nat /\ Recipients # {} /\ balance' = AfterRun(ud)
    BY <1>10, RunIs
  <2> HIDE DEF ud
  <2>2. CASE x \in Recipients
    <3>1. balance'[x] = balance[x] + (ud + Share)
      BY <1>0, <2>1, <2>2 DEF AfterRun
    <3>2. Share \in Nat
      BY <2>1, ShareType DEF CInv, TypeOK
    <3>3. status[x] # "left"
      BY <2>2 DEF Recipients, Active
    <3> QED BY <1>0, <2>1, <3>1, <3>2, <3>3
  <2>3. CASE x \notin Recipients
    <3>1. balance'[x] = balance[x] + 0
      BY <1>0, <2>1, <2>3 DEF AfterRun
    <3> QED BY <1>0, <3>1
  <2> QED BY <2>2, <2>3
<1> HIDE DEF Goal
<1>11. Goal
  BY Zenon, <1>1, <1>2, <1>3, <1>4, <1>5, <1>6, <1>7, <1>8, <1>9, <1>10 DEF Next
<1> QED BY <1>11 DEF Goal

(* Whoever has left is out: nothing reaches or leaves the account any more *)
(* but by a transfer started or accepted before (Leave, RunUD, Pay,        *)
(* redistributeLocked and the two commits of transfer.go).                 *)
THEOREM LeftStaysOut == Spec => LeftIsFinal
<1> DEFINE Step == \A m \in Member :
                      (status[m] = "left" /\ balance'[m] # balance[m]) => Commits(m)
<1>1. CInv /\ [Next]_vars => [Step]_vars
  BY MemberStep
<1>2. LeftIsFinal <=> [][Step]_vars
  BY DEF LeftIsFinal
<1> HIDE DEF Step
<1> QED BY <1>1, <1>2, Invariance, PTL DEF Spec

(* Nobody is put into debt, or deeper into it, but by a transfer of their  *)
(* own, whose balance was checked when it started (Pay, Leave,             *)
(* handleTransferAccept).                                                  *)
THEOREM OnlyTransfersIndebt == Spec => DebtOnlyByTransfer
<1> DEFINE Step == \A m \in Member :
                      (balance'[m] < balance[m] /\ balance'[m] < 0)
                      => Commits(m) /\ transfer.from = m
<1>1. CInv /\ [Next]_vars => [Step]_vars
  <2> SUFFICES ASSUME CInv, Next, NEW m \in Member, balance'[m] < balance[m], balance'[m] < 0
               PROVE  Commits(m) /\ transfer.from = m
    OBVIOUS
  <2>1. balance[m] \in Int /\ balance'[m] \in Int
    BY StepKeepsInv, AccountsAre DEF CInv, TypeOK
  <2> QED BY <2>1, MemberStep
<1>2. DebtOnlyByTransfer <=> [][Step]_vars
  BY DEF DebtOnlyByTransfer
<1> HIDE DEF Step
<1> QED BY <1>1, <1>2, Invariance, PTL DEF Spec

(* A dividend is all or nothing, although unbatched it is one transaction  *)
(* per member: every active member gets the dividend and a share of the    *)
(* fund, the supply grows by the dividends alone, and less than one unit   *)
(* each is left in the fund (RunUD, redistributeLocked).                   *)
THEOREM EveryDividendWhole == Spec => DividendIsWhole
<1> DEFINE Whole ==
             LET n == Cardinality(Active(status))
                 ud == UDBase(status, balance)
                 share == balance["fund"] \div n
             IN  /\ \A m \in Active(status) : balance'[m] = balance[m] + ud + share
                 /\ balance'["fund"] \in 0..(n - 1)
                 /\ MoneySupply(balance') = MoneySupply(balance) + n * ud
<1> DEFINE Step == Issued => Whole
<1>1. ASSUME CInv, Next, Issued PROVE Whole
  <2>0. balance \in Books /\ balance["fund"] \in Nat /\ balance["wallet"] \in Nat /\ issues \in Nat
    BY <1>1, BoundAssumption DEF CInv, TypeOK, Books
  <2>1. ASSUME NEW d \in Deltas, AdjustReserve(d) PROVE FALSE
    <3>1. /\ balance' = Posted(balance, Move("issuance", "wallet", d))
          /\ d \in Int /\ d # 0 /\ balance["wallet"] + d >= 0
      BY <2>1, MoneyAssumption DEF AdjustReserve
    <3>2. balance'["wallet"] = balance["wallet"] + d
      BY <2>0, <3>1, AccountsAre, MovePosted
    <3> QED BY <1>1, <2>0, <3>1, <3>2 DEF Issued
  <2>2. PICK batch \in BatchUD : RunUD(batch)
    <3>1. issues' # issues
      BY <1>1, <2>0 DEF Issued
    <3> QED BY <1>1, <2>1, <3>1 DEF Next, AddMember, DeactivateMember, Reactivate, LeaveKeep,
          LeaveTo, Pay, StartTransfer, AcceptTransfer, CommitTransfer, DropTransfer,
          CloseContact, RetireReserve
  <2> DEFINE n == Cardinality(Recipients)
             ud == UDBase(status, balance)
  <2>3. ud \in Nat /\ Recipients # {} /\ balance' = AfterRun(ud)
    BY <1>1, <2>2, RunIs
  <2>4. /\ Share \in Nat /\ n \in Nat /\ n > 0 /\ Share * n \in Nat
        /\ balance["fund"] - Share * n \in 0..(n - 1)
    BY <2>0, <2>3, ShareType
  <2> HIDE DEF ud
  <2>5. ASSUME NEW m \in Recipients PROVE balance'[m] = balance[m] + ud + Share
    <3>1. balance'[m] = balance[m] + (ud + Share)
      BY <2>3, RecipientsAre DEF AfterRun
    <3>2. balance[m] \in Int
      BY <2>0, RecipientsAre DEF Books
    <3> QED BY <2>3, <2>4, <3>1, <3>2
  <2>6. balance'["fund"] = balance["fund"] + -(Share * n)
    BY <2>3, RecipientsAre DEF AfterRun
  <2>7. balance'["issuance"] = balance["issuance"] + -(ud * n)
    BY <2>3, RecipientsAre DEF AfterRun
  <2>8. balance'["fund"] \in 0..(n - 1)
    <3> HIDE DEF n
    <3> QED BY <2>0, <2>4, <2>6
  <2>9. MoneySupply(balance') = MoneySupply(balance) + n * ud
    <3>1. balance["issuance"] \in Int /\ ud * n = n * ud /\ ud * n \in Int
      BY <2>0, <2>3, <2>4, AccountsAre DEF Books
    <3> HIDE DEF n
    <3> QED BY <2>7, <3>1 DEF MoneySupply
  <2> QED BY <2>5, <2>8, <2>9 DEF Recipients, Share, ud
<1>2. CInv /\ [Next]_vars => [Step]_vars
  <2> HIDE DEF Whole
  <2> QED BY <1>1
<1>3. DividendIsWhole <=> [][Step]_vars
  BY DEF DividendIsWhole
<1> HIDE DEF Step
<1> QED BY <1>2, <1>3, Invariance, PTL DEF Spec

(* The published dividend is the one the next RunUD pays, until the        *)
(* reserve of the contact changes: only handleReserveAccept and            *)
(* RetireReserve forget currentUD (SetMembers, RunUD, CommitTransfer).     *)
THEOREM PublishedUntilReserve == Spec => StaleOnlyByReserve
<1> DEFINE Stale == (/\ Published(currentUD, status, balance)
                     /\ ~Published(currentUD', status', balance'))
           Step == (/\ Published(currentUD, status, balance)
                    /\ ~Published(currentUD', status', balance'))
                   => /\ balance'["wallet"] # balance["wallet"]
                      /\ balance'["issuance"] # balance["issuance"]
<1>1. CInv /\ [Next]_vars => [Step]_vars
  <2> SUFFICES ASSUME CInv, Next PROVE Step
    OBVIOUS
  <2>0. /\ balance \in Books /\ balance["wallet"] \in Nat /\ balance["issuance"] \in Int
        /\ Member \subseteq Account /\ {"issuance", "fund", "wallet"} \subseteq Account
        /\ "issuance" \notin Member
    BY AccountsAre DEF CInv, TypeOK, Books
  <2>s. currentUD' = UDBase(status', balance') => Step
    BY DEF Published
  <2>i. balance'["issuance"] = balance["issuance"] /\ UNCHANGED <<status, currentUD>> => Step
    BY UDBaseSame DEF Published
  <2>1. ASSUME NEW m \in Member, NEW n \in Grants, AddMember(m, n) PROVE Step
    BY <2>s, <2>1 DEF AddMember, SetMembers
  <2>2. ASSUME NEW m \in Member, DeactivateMember(m) \/ Reactivate(m) \/ LeaveKeep(m)
        PROVE Step
    BY <2>s, <2>2 DEF DeactivateMember, Reactivate, LeaveKeep, SetMembers
  <2>3. ASSUME NEW m \in Member, NEW to \in Account, LeaveTo(m, to) PROVE Step
    BY <2>s, <2>3 DEF LeaveTo, SetMembers
  <2>4. ASSUME NEW m \in Member, NEW to \in Member, NEW n \in Amounts, Pay(m, to, n) PROVE Step
    <3>1. balance' = Posted(balance, Move(m, to, n)) /\ n \in Int
          /\ UNCHANGED <<status, currentUD>>
      BY <2>4, MoneyAssumption DEF Pay
    <3>2. balance'["issuance"] = balance["issuance"]
      BY <2>0, <3>1, MoveOthers
    <3> QED BY <2>i, <3>1, <3>2
  <2>5. ASSUME NEW m \in Member, NEW n \in Amounts, StartTransfer(m, n) \/ AcceptTransfer(m, n)
        PROVE Step
    BY <2>i, <2>5 DEF StartTransfer, AcceptTransfer
  <2>6. ASSUME CommitTransfer PROVE Step
    <3>1. transfer # None /\ UNCHANGED <<status, currentUD>>
          /\ balance' = Posted(balance, Move(transfer.from, transfer.to, transfer.amount))
      BY <2>6 DEF CommitTransfer
    <3>2. balance'["issuance"] = balance["issuance"]
      BY <2>0, <3>1, TransferType, MoveOthers
    <3> QED BY <2>i, <3>1, <3>2
  <2>7. ASSUME DropTransfer \/ CloseContact PROVE Step
    BY <2>i, <2>7 DEF DropTransfer, CloseContact
  <2>8. ASSUME NEW d \in Deltas, AdjustReserve(d) PROVE Step
    <3>1. /\ balance' = Posted(balance, Move("issuance", "wallet", d))
          /\ d \in Int /\ d # 0 /\ balance["wallet"] + d >= 0
      BY <2>8, MoneyAssumption DEF AdjustReserve
    <3>2. /\ balance'["wallet"] = balance["wallet"] + d
          /\ balance'["issuance"] = balance["issuance"] - d
      BY <2>0, <3>1, MovePosted
    <3> QED BY <2>0, <3>1, <3>2
  <2>9. ASSUME RetireReserve PROVE Step
    <3> DEFINE n == balance["wallet"]
    <3>1. balance' = Posted(balance, Move("wallet", "issuance", n)) /\ n > 0 /\ n \in Int
      BY <2>0, <2>9 DEF RetireReserve
    <3>2. balance'["wallet"] = n - n /\ balance'["issuance"] = balance["issuance"] + n
      <4>1. balance["wallet"] >= n
        BY <2>0
      <4> HIDE DEF n
      <4>2. /\ balance'["wallet"] = balance["wallet"] - n
            /\ balance'["issuance"] = balance["issuance"] + n
        BY <2>0, <3>1, <4>1, MovePosted
      <4> QED BY <4>2 DEF n
    <3> QED BY <2>0, <3>1, <3>2
  <2>10. ASSUME NEW batch \in BatchUD, RunUD(batch) PROVE Step
    BY <2>s, <2>10, RunIs
  <2> HIDE DEF Step
  <2> QED BY Zenon, <2>1, <2>2, <2>3, <2>4, <2>5, <2>6, <2>7, <2>8, <2>9, <2>10 DEF Next
<1>2. StaleOnlyByReserve <=> [][Step]_vars
  BY DEF StaleOnlyByReserve
<1> HIDE DEF Step
<1> QED BY <1>1, <1>2, Invariance, PTL DEF Spec
=============================================================================
