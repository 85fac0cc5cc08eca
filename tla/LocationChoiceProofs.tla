------------------------ MODULE LocationChoiceProofs ------------------------
(***************************************************************************)
(* Theorems about LocationChoice, and about the functions of SectionIndex  *)
(* for every list and of DishSections for every menu.  The folds of the    *)
(* community modules are functions that are defined by recursion over      *)
(* finite sets; what they compute is proved by induction, from the fact    *)
(* that the natural numbers are well ordered.                              *)
(***************************************************************************)
EXTENDS LocationChoice, MCSectionIndex, Integers, FiniteSetTheorems, WellFoundedInduction, TLAPS

-----------------------------------------------------------------------------
(* Induction and recursion.                                                *)

LEMMA Induct ==
    ASSUME NEW T, 0 \in T, \A n \in Nat : n \in T => n + 1 \in T
    PROVE  Nat \subseteq T
<1> DEFINE R == OpToRel(<, Nat)
<1> DEFINE C == Nat \ T
<1>1. IsWellFoundedOn(R, Nat)
  BY NatLessThanWellFounded
<1>2. \A x, y \in Nat : y < x => <<y, x>> \in R
  BY DEF OpToRel
<1>3. SUFFICES ASSUME C # {} PROVE FALSE
  OBVIOUS
<1> HIDE DEF R
<1>4. PICK x \in C : \A y \in C : <<y, x>> \notin R
  <2> HIDE DEF C
  <2>1. C \subseteq Nat
    BY DEF C
  <2> QED
    BY <1>1, <1>3, <2>1, WFMin
<1>5. x \in Nat /\ x # 0
  BY <1>4
<1>6. x - 1 \in Nat /\ x - 1 < x /\ (x - 1) + 1 = x
  BY <1>5
<1>7. x - 1 \notin C
  BY <1>2, <1>4, <1>5, <1>6
<1> QED
  BY <1>4, <1>5, <1>6, <1>7

\* A set of naturals up to n that is not empty has a largest element.
LEMMA MaxIn ==
    ASSUME NEW n \in Nat, NEW t \in SUBSET (1..n), t # {}
    PROVE  Max(t) \in t /\ \A y \in t : Max(t) >= y
<1> DEFINE T == {m \in Nat : \A u \in SUBSET (1..m) : u # {} => \E x \in u : \A y \in u : x >= y}
<1>1. 0 \in T
  <2>1. 1..0 = {}
    OBVIOUS
  <2> QED
    BY <2>1
<1>2. ASSUME NEW m \in Nat, m \in T PROVE m + 1 \in T
  <2> SUFFICES ASSUME NEW u \in SUBSET (1..(m + 1)), u # {} PROVE \E x \in u : \A y \in u : x >= y
    OBVIOUS
  <2>1. CASE m + 1 \in u
    BY <2>1
  <2>2. CASE m + 1 \notin u
    <3>1. u \in SUBSET (1..m)
      BY <2>2
    <3> QED
      BY <1>2, <3>1
  <2> QED
    BY <2>1, <2>2
<1>3. n \in T
  <2> HIDE DEF T
  <2> QED
    BY <1>1, <1>2, Induct
<1>4. \E x \in t : \A y \in t : x >= y
  BY <1>3
<1> QED
  BY <1>4 DEF Max

\* ch chooses an element of each subset of D that is not empty.
Chooses(ch, D) == \A t \in SUBSET D : t # {} => ch[t] \in t

\* A recursion that takes one element after the other from a finite set, in
\* the order in which ch chooses them.
Solution(g, D, base, step, ch) ==
    \A t \in SUBSET D : g[t] = IF t = {} THEN base ELSE step[ch[t]][g[t \ {ch[t]}]]

LEMMA Recursion ==
    ASSUME NEW D, IsFiniteSet(D), NEW V, NEW base \in V, NEW step \in [D -> [V -> V]],
           NEW ch, Chooses(ch, D)
    PROVE  \E g \in [SUBSET D -> V] : Solution(g, D, base, step, ch)
<1> DEFINE Sub(n) == {t \in SUBSET D : Cardinality(t) <= n}
<1> DEFINE Solves(g, n) ==
               \A t \in Sub(n) : g[t] = IF t = {} THEN base ELSE step[ch[t]][g[t \ {ch[t]}]]
<1> DEFINE T == {n \in Nat : \E g \in [Sub(n) -> V] : Solves(g, n)}
<1>0. \A t \in SUBSET D : IsFiniteSet(t) /\ Cardinality(t) \in Nat
  BY FS_Subset, FS_CardinalityType
<1>1. 0 \in T
  <2> DEFINE g == [t \in Sub(0) |-> base]
  <2>1. \A t \in Sub(0) : t = {}
    BY <1>0, FS_EmptySet
  <2>2. g \in [Sub(0) -> V] /\ Solves(g, 0)
    BY <2>1
  <2> QED
    BY <2>2
<1>2. ASSUME NEW n \in Nat, n \in T PROVE n + 1 \in T
  <2>1. PICK g \in [Sub(n) -> V] : Solves(g, n)
    BY <1>2
  <2> DEFINE h == [t \in Sub(n + 1) |-> IF t = {} THEN base ELSE step[ch[t]][g[t \ {ch[t]}]]]
  <2>2. ASSUME NEW t \in Sub(n + 1), t # {}
        PROVE  ch[t] \in D /\ t \ {ch[t]} \in Sub(n) /\ t \ {ch[t]} \in Sub(n + 1)
    <3>1. ch[t] \in t
      BY <2>2 DEF Chooses
    <3>2. Cardinality(t \ {ch[t]}) = Cardinality(t) - 1
      BY <1>0, <3>1, FS_RemoveElement
    <3> QED
      BY <1>0, <3>1, <3>2
  <2>3. h \in [Sub(n + 1) -> V]
    BY <2>2
  <2>4. ASSUME NEW t \in Sub(n) PROVE t \in Sub(n + 1) /\ h[t] = g[t]
    <3>1. t \in Sub(n + 1)
      BY <1>0
    <3>2. g[t] = IF t = {} THEN base ELSE step[ch[t]][g[t \ {ch[t]}]]
      BY <2>1
    <3> QED
      BY <3>1, <3>2
  <2>5. Solves(h, n + 1)
    BY <2>2, <2>4
  <2> HIDE DEF h, Sub, Solves
  <2> QED
    BY <2>3, <2>5
<1>3. Cardinality(D) \in T
  <2>1. Cardinality(D) \in Nat
    BY FS_CardinalityType
  <2> HIDE DEF T
  <2> QED
    BY <1>1, <1>2, <2>1, Induct
<1>4. Sub(Cardinality(D)) = SUBSET D
  BY FS_Subset, FS_CardinalityType
<1> QED
  BY <1>3, <1>4 DEF Solution

\* A function from 1..n is a sequence of length n.
LEMMA SeqOfLen ==
    ASSUME NEW n \in Nat, NEW S, NEW s \in [1..n -> S]
    PROVE  s \in Seq(S) /\ Len(s) = n
<1>1. s \in Seq(S)
  OBVIOUS
<1>2. Len(s) \in Nat /\ DOMAIN s = 1..Len(s)
  BY <1>1
<1>3. 1..Len(s) = 1..n
  BY <1>2
<1>4. Len(s) = n
  BY <1>2, <1>3
<1> QED
  BY <1>1, <1>4

LEMMA NoneBefore == 1..0 = {}
OBVIOUS

-----------------------------------------------------------------------------
(* Sorting.                                                                *)

\* k has the elements of l, in another order.
Rearranged(k, l, n) ==
    \E p, q \in [1..n -> 1..n] :
        \A i \in 1..n : q[p[i]] = i /\ p[q[i]] = i /\ k[i] = l[p[i]]

LEMMA RearrangedSelf ==
    ASSUME NEW n \in Nat, NEW l
    PROVE  Rearranged(l, l, n)
<1> DEFINE p == [i \in 1..n |-> i]
<1>1. p \in [1..n -> 1..n]
  OBVIOUS
<1>2. \A i \in 1..n : p[p[i]] = i /\ l[i] = l[p[i]]
  OBVIOUS
<1> QED
  BY <1>1, <1>2 DEF Rearranged

LEMMA RearrangedTwice ==
    ASSUME NEW n \in Nat, NEW j, NEW k, NEW l, Rearranged(j, k, n), Rearranged(k, l, n)
    PROVE  Rearranged(j, l, n)
<1>1. PICK p, q \in [1..n -> 1..n] :
             \A i \in 1..n : q[p[i]] = i /\ p[q[i]] = i /\ j[i] = k[p[i]]
  BY DEF Rearranged
<1>2. PICK r, s \in [1..n -> 1..n] :
             \A i \in 1..n : s[r[i]] = i /\ r[s[i]] = i /\ k[i] = l[r[i]]
  BY DEF Rearranged
<1> DEFINE f == [i \in 1..n |-> r[p[i]]]
<1> DEFINE g == [i \in 1..n |-> q[s[i]]]
<1>3. f \in [1..n -> 1..n] /\ g \in [1..n -> 1..n]
  OBVIOUS
<1>4. ASSUME NEW i \in 1..n
      PROVE  g[f[i]] = i /\ f[g[i]] = i /\ j[i] = l[f[i]]
  <2>1. p[i] \in 1..n /\ r[p[i]] \in 1..n /\ s[i] \in 1..n /\ q[s[i]] \in 1..n
    OBVIOUS
  <2> QED
    BY <1>1, <1>2, <2>1
<1> HIDE DEF f, g
<1> QED
  BY <1>3, <1>4 DEF Rearranged

\* What an exchange at j does.
Exchanged(k, l, n, j) ==
    /\ k \in [1..n -> Nat]
    /\ Rearranged(k, l, n)
    /\ \A i \in 1..n : i # j /\ i # j + 1 => k[i] = l[i]
    /\ k[j] <= k[j + 1]
    /\ \/ k[j] = l[j] /\ k[j + 1] = l[j + 1]
       \/ k[j] = l[j + 1] /\ k[j + 1] = l[j]

LEMMA ExchangeStep ==
    ASSUME NEW n \in Nat, NEW l \in [1..n -> Nat], NEW j \in 1..(n - 1)
    PROVE  Exchanged(Exchange(l, j), l, n, j)
<1> DEFINE k == Exchange(l, j)
<1>1. j \in 1..n /\ j + 1 \in 1..n /\ l[j] \in Nat /\ l[j + 1] \in Nat
  OBVIOUS
<1>2. CASE l[j] > l[j + 1]
  <2>1. k = [l EXCEPT ![j] = l[j + 1], ![j + 1] = l[j]]
    BY <1>2 DEF Exchange
  <2>2. /\ k \in [1..n -> Nat] /\ k[j] = l[j + 1] /\ k[j + 1] = l[j]
        /\ \A i \in 1..n : i # j /\ i # j + 1 => k[i] = l[i]
    BY <1>1, <2>1
  <2> DEFINE p == [i \in 1..n |-> IF i = j THEN j + 1 ELSE IF i = j + 1 THEN j ELSE i]
  <2>3. p \in [1..n -> 1..n] /\ \A i \in 1..n : p[p[i]] = i /\ k[i] = l[p[i]]
    BY <1>1, <2>2
  <2>4. Rearranged(k, l, n)
    <3> HIDE DEF p
    <3> QED
      BY <2>3 DEF Rearranged
  <2>5. k[j] <= k[j + 1]
    BY <1>1, <1>2, <2>2
  <2> QED
    BY <2>2, <2>4, <2>5 DEF Exchanged
<1>3. CASE ~(l[j] > l[j + 1])
  <2>1. k = l
    BY <1>3 DEF Exchange
  <2> QED
    BY <1>1, <1>3, <2>1, RearrangedSelf DEF Exchanged
<1> QED
  BY <1>2, <1>3

\* The recursion by which a list of length m is folded.
FoldSolution(g, m, base, step) ==
    \A t \in SUBSET (1..m) : g[t] = IF t = {} THEN base ELSE step[Max(t)][g[t \ {Max(t)}]]

LEMMA FoldRecursion ==
    ASSUME NEW m \in Nat, NEW V, NEW base \in V, NEW step \in [1..m -> [V -> V]]
    PROVE  \E g \in [SUBSET (1..m) -> V] : FoldSolution(g, m, base, step)
<1> DEFINE D == 1..m
<1> DEFINE ch == [t \in SUBSET D |-> Max(t)]
<1>1. ASSUME NEW t \in SUBSET D PROVE ch[t] = Max(t) /\ (t # {} => ch[t] \in t)
  <2>1. CASE t # {}
    BY <2>1, MaxIn
  <2> QED
    BY <2>1
<1>2. IsFiniteSet(D)
  BY FS_Interval
<1>3. step \in [D -> [V -> V]]
  OBVIOUS
<1> HIDE DEF ch
<1>4. Chooses(ch, D)
  BY <1>1 DEF Chooses
<1> HIDE DEF D
<1>5. PICK g \in [SUBSET D -> V] : Solution(g, D, base, step, ch)
  BY <1>2, <1>3, <1>4, Recursion
<1> USE DEF D
<1>6. ASSUME NEW t \in SUBSET D
      PROVE  g[t] = IF t = {} THEN base ELSE step[Max(t)][g[t \ {Max(t)}]]
  BY <1>1, <1>5 DEF Solution
<1> QED
  BY <1>6 DEF FoldSolution

\* What is left of an interval without its largest element.
LEMMA IntervalPrefix ==
    ASSUME NEW m \in Nat, NEW j \in 1..m
    PROVE  /\ (1..j) \in SUBSET (1..m) /\ 1..j # {}
           /\ Max(1..j) = j
           /\ (1..j) \ {j} = 1..(j - 1)
<1>1. j \in Nat /\ (1..j) \in SUBSET (1..j) /\ 1..j # {} /\ j \in 1..j
  OBVIOUS
<1>2. Max(1..j) \in 1..j /\ \A y \in 1..j : Max(1..j) >= y
  BY ONLY <1>1, MaxIn
<1>3. Max(1..j) = j
  <2> DEFINE x == Max(1..j)
  <2>1. x \in 1..j /\ x >= j
    BY <1>1, <1>2
  <2> HIDE DEF x
  <2>2. x = j
    BY <2>1
  <2> QED
    BY <2>2 DEF x
<1> QED
  BY <1>3

\* The exchanges of a pass, one after the other.
LEMMA PassSteps ==
    ASSUME NEW n \in Nat, NEW l \in [1..n -> Nat], NEW m \in Nat, m < n \/ m = 0
    PROVE  \E f : /\ f[0] = l
                  /\ \A j \in 1..m : f[j] = Exchange(f[j - 1], j)
                  /\ FoldLeft(Exchange, l, UpTo(m)) = f[m]
<1> DEFINE Body(g) == [t \in SUBSET (1..m) |-> IF t = {} THEN l
                                               ELSE Exchange(g[t \ {Max(t)}], UpTo(m)[Max(t)])]
<1> DEFINE iter == CHOOSE g : g = Body(g)
<1>1. \E g : g = Body(g)
  <2> DEFINE V == [1..n -> Nat]
  <2> DEFINE step == [j \in 1..m |-> [k \in V |-> Exchange(k, j)]]
  <2>1. step \in [1..m -> [V -> V]]
    BY ExchangeStep DEF Exchanged
  <2>2. PICK g \in [SUBSET (1..m) -> V] : FoldSolution(g, m, l, step)
    <3>1. l \in V
      OBVIOUS
    <3> HIDE DEF V, step
    <3> QED
      BY <2>1, <3>1, FoldRecursion
  <2>3. ASSUME NEW t \in SUBSET (1..m), t # {}
        PROVE  g[t] = Exchange(g[t \ {Max(t)}], UpTo(m)[Max(t)])
    <3>1. Max(t) \in 1..m /\ t \ {Max(t)} \in SUBSET (1..m)
      BY <2>3, MaxIn
    <3>2. UpTo(m)[Max(t)] = Max(t)
      BY <3>1 DEF UpTo
    <3>3. g[t] = step[Max(t)][g[t \ {Max(t)}]]
      BY <2>2, <2>3 DEF FoldSolution
    <3>4. g[t \ {Max(t)}] \in V
      BY <3>1
    <3> QED
      BY <3>1, <3>2, <3>3, <3>4
  <2>4. g = Body(g)
    BY <2>2, <2>3 DEF FoldSolution
  <2> QED
    BY <2>4
<1>2. iter = Body(iter)
  BY <1>1
<1>3. FoldLeft(Exchange, l, UpTo(m)) = iter[1..m]
  <2>1. DOMAIN UpTo(m) = 1..m
    BY DEF UpTo
  <2> QED
    BY <2>1 DEF FoldLeft, MapThenFoldSet
<1> HIDE DEF iter
<1>4. \A t \in SUBSET (1..m) : iter[t] = IF t = {} THEN l
                                         ELSE Exchange(iter[t \ {Max(t)}], UpTo(m)[Max(t)])
  BY <1>2
<1> DEFINE f == [j \in 0..m |-> iter[1..j]]
<1>5. f[0] = l
  <2>1. f[0] = iter[1..0] /\ 1..0 = {}
    OBVIOUS
  <2> HIDE DEF f
  <2> QED
    BY <1>4, <2>1
<1>6. ASSUME NEW j \in 1..m PROVE f[j] = Exchange(f[j - 1], j)
  <2>1. f[j] = iter[1..j] /\ f[j - 1] = iter[1..(j - 1)]
    OBVIOUS
  <2>2. UpTo(m)[j] = j
    BY DEF UpTo
  <2> DEFINE t == 1..j
  <2>3. t \in SUBSET (1..m) /\ t # {} /\ Max(t) = j /\ t \ {j} = 1..(j - 1)
    BY IntervalPrefix
  <2> HIDE DEF f, t
  <2>4. iter[t] = Exchange(iter[t \ {j}], j)
    BY <1>4, <2>2, <2>3
  <2> QED
    BY <2>1, <2>3, <2>4 DEF t
<1>7. f[m] = iter[1..m]
  OBVIOUS
<1> HIDE DEF f
<1> QED
  BY <1>3, <1>5, <1>6, <1>7

\* What the first j exchanges have done: the largest of the first j + 1
\* elements is the last of them.
Carried(k, l, n, j) ==
    /\ k \in [1..n -> Nat]
    /\ Rearranged(k, l, n)
    /\ \A i \in 1..n : i > j + 1 => k[i] = l[i]
    /\ \A i \in 1..n : i <= j + 1 => k[i] <= k[j + 1]
    /\ \A i \in 1..n : i <= j + 1 => \E b \in 1..n : b <= j + 1 /\ k[i] = l[b]

LEMMA ExchangeCarries ==
    ASSUME NEW n \in Nat, NEW l \in [1..n -> Nat], NEW j \in 1..(n - 1),
           NEW h, Carried(h, l, n, j - 1), NEW k, k = Exchange(h, j)
    PROVE  Carried(k, l, n, j)
<1>1. /\ h \in [1..n -> Nat]
      /\ Rearranged(h, l, n)
      /\ \A i \in 1..n : i > j => h[i] = l[i]
      /\ \A i \in 1..n : i <= j => h[i] <= h[j]
      /\ \A i \in 1..n : i <= j => \E b \in 1..n : b <= j /\ h[i] = l[b]
  <2>1. (j - 1) + 1 = j
    OBVIOUS
  <2> QED
    BY <2>1 DEF Carried
<1>2. /\ k \in [1..n -> Nat]
      /\ Rearranged(k, h, n)
      /\ \A i \in 1..n : i # j /\ i # j + 1 => k[i] = h[i]
      /\ k[j] <= k[j + 1]
      /\ \/ k[j] = h[j] /\ k[j + 1] = h[j + 1]
         \/ k[j] = h[j + 1] /\ k[j + 1] = h[j]
  <2>1. h \in [1..n -> Nat]
    BY <1>1
  <2> QED
    BY <2>1, ExchangeStep DEF Exchanged
<1>3. Rearranged(k, l, n)
  BY <1>1, <1>2, RearrangedTwice
<1>4. j \in 1..n /\ j + 1 \in 1..n /\ h[j] \in Nat /\ h[j + 1] \in Nat /\ k[j + 1] \in Nat
  BY <1>1, <1>2
<1>5. h[j] <= k[j + 1]
  BY <1>2, <1>4
<1>6. ASSUME NEW i \in 1..n, i <= j + 1 PROVE k[i] <= k[j + 1]
  <2>1. CASE i < j
    <3>1. i # j /\ i # j + 1 /\ i <= j
      BY <2>1
    <3>2. k[i] = h[i] /\ h[i] <= h[j] /\ h[i] \in Nat
      BY <1>1, <1>2, <3>1
    <3> QED
      BY <1>4, <1>5, <3>2
  <2>2. CASE i = j \/ i = j + 1
    BY <1>2, <1>4, <2>2
  <2> QED
    BY <1>6, <2>1, <2>2
<1>7. ASSUME NEW i \in 1..n, i <= j + 1 PROVE \E b \in 1..n : b <= j + 1 /\ k[i] = l[b]
  <2>1. h[j + 1] = l[j + 1]
    BY <1>1, <1>4
  <2>2. PICK b \in 1..n : b <= j /\ h[j] = l[b]
    BY <1>1, <1>4
  <2>3. CASE i < j
    <3>1. k[i] = h[i]
      BY <1>2, <2>3
    <3>2. PICK c \in 1..n : c <= j /\ h[i] = l[c]
      BY <1>1, <2>3
    <3> QED
      BY <3>1, <3>2
  <2>4. CASE i = j \/ i = j + 1
    <3>1. k[i] = h[j] \/ k[i] = h[j + 1]
      BY <1>2, <2>4
    <3> QED
      BY <1>4, <2>1, <2>2, <3>1
  <2> QED
    BY <1>7, <2>3, <2>4
<1>8. \A i \in 1..n : i > j + 1 => k[i] = l[i]
  BY <1>1, <1>2
<1> QED
  BY <1>2, <1>3, <1>6, <1>7, <1>8 DEF Carried

LEMMA PassCarries ==
    ASSUME NEW n \in Nat, NEW l \in [1..n -> Nat], NEW m \in Nat, m < n \/ m = 0
    PROVE  Carried(FoldLeft(Exchange, l, UpTo(m)), l, n, m)
<1>1. PICK f : /\ f[0] = l
               /\ \A j \in 1..m : f[j] = Exchange(f[j - 1], j)
               /\ FoldLeft(Exchange, l, UpTo(m)) = f[m]
  BY PassSteps
<1> DEFINE T == {j \in Nat : j <= m => Carried(f[j], l, n, j)}
<1>2. 0 \in T
  <2>1. Carried(l, l, n, 0)
    BY RearrangedSelf DEF Carried
  <2> QED
    BY <1>1, <2>1
<1>3. ASSUME NEW j \in Nat, j \in T PROVE j + 1 \in T
  <2> SUFFICES ASSUME j + 1 <= m PROVE Carried(f[j + 1], l, n, j + 1)
    OBVIOUS
  <2>1. j + 1 \in 1..m /\ (j + 1) - 1 = j /\ j + 1 \in 1..(n - 1) /\ j <= m
    OBVIOUS
  <2>2. f[j + 1] = Exchange(f[j], j + 1)
    BY <1>1, <2>1
  <2>3. Carried(f[j], l, n, (j + 1) - 1)
    BY <1>3, <2>1
  <2> QED
    BY <2>1, <2>2, <2>3, ExchangeCarries
<1>4. m \in T
  <2> HIDE DEF T
  <2> QED
    BY <1>2, <1>3, Induct
<1> QED
  BY <1>1, <1>4

\* The elements from the n - i th on are in place.
SortedBeyond(k, n, i) == \A a, b \in 1..n : a < b /\ b > n - i => k[a] <= k[b]

LEMMA PassSorts ==
    ASSUME NEW n \in Nat, NEW l \in [1..n -> Nat], NEW i \in 1..n
    PROVE  /\ Pass(l, i) \in [1..n -> Nat]
           /\ Rearranged(Pass(l, i), l, n)
           /\ SortedBeyond(l, n, i - 1) => SortedBeyond(Pass(l, i), n, i)
<1> DEFINE m == n - i
<1> DEFINE k == FoldLeft(Exchange, l, UpTo(m))
<1>1. Pass(l, i) = k
  BY SeqOfLen DEF Pass
<1>2. m \in Nat /\ m < n /\ m + 1 \in 1..n
  OBVIOUS
<1>3. Carried(k, l, n, m)
  <2> HIDE DEF m
  <2> QED
    BY <1>2, PassCarries
<1>4. /\ k \in [1..n -> Nat]
      /\ Rearranged(k, l, n)
      /\ \A a \in 1..n : a > m + 1 => k[a] = l[a]
      /\ \A a \in 1..n : a <= m + 1 => k[a] <= k[m + 1]
      /\ \A a \in 1..n : a <= m + 1 => \E b \in 1..n : b <= m + 1 /\ k[a] = l[b]
  BY <1>3 DEF Carried
<1> HIDE DEF k
<1>5. ASSUME SortedBeyond(l, n, i - 1),
             NEW a \in 1..n, NEW b \in 1..n, a < b, b > n - i
      PROVE  k[a] <= k[b]
  <2>1. CASE b = m + 1
    BY <1>4, <1>5, <2>1
  <2>2. CASE b > m + 1
    <3>1. k[b] = l[b] /\ b > n - (i - 1)
      BY <1>4, <2>2
    <3>2. \E c \in 1..n : c < b /\ k[a] = l[c]
      BY <1>2, <1>4, <1>5, <2>2
    <3> QED
      BY <1>5, <3>1, <3>2 DEF SortedBeyond
  <2> QED
    BY <1>5, <2>1, <2>2
<1> QED
  BY <1>1, <1>4, <1>5 DEF SortedBeyond

\* The passes of a list, one after the other.
LEMMA SortSteps ==
    ASSUME NEW n \in Nat \ {0}, NEW l \in [1..n -> Nat]
    PROVE  \E f : /\ f[0] = l
                  /\ \A j \in 1..(n - 1) : f[j] = Pass(f[j - 1], j)
                  /\ BubbleSort(l) = f[n - 1]
<1> DEFINE m == n - 1
<1> DEFINE Body(g) == [t \in SUBSET (1..m) |-> IF t = {} THEN l
                                               ELSE Pass(g[t \ {Max(t)}], UpTo(m)[Max(t)])]
<1> DEFINE iter == CHOOSE g : g = Body(g)
<1>m. m \in Nat
  OBVIOUS
<1>l. Len(l) = n
  BY SeqOfLen
<1>1. \E g : g = Body(g)
  <2> DEFINE V == [1..n -> Nat]
  <2> DEFINE step == [j \in 1..m |-> [k \in V |-> Pass(k, j)]]
  <2>1. step \in [1..m -> [V -> V]]
    BY PassSorts
  <2>2. PICK g \in [SUBSET (1..m) -> V] : FoldSolution(g, m, l, step)
    <3>1. l \in V
      OBVIOUS
    <3> HIDE DEF V, step, m
    <3> QED
      BY <1>m, <2>1, <3>1, FoldRecursion
  <2> HIDE DEF m
  <2>3. ASSUME NEW t \in SUBSET (1..m), t # {}
        PROVE  g[t] = Pass(g[t \ {Max(t)}], UpTo(m)[Max(t)])
    <3>1. Max(t) \in 1..m /\ t \ {Max(t)} \in SUBSET (1..m)
      BY <1>m, <2>3, MaxIn
    <3>2. UpTo(m)[Max(t)] = Max(t)
      BY <3>1 DEF UpTo
    <3>3. g[t] = step[Max(t)][g[t \ {Max(t)}]]
      BY <2>2, <2>3 DEF FoldSolution
    <3>4. g[t \ {Max(t)}] \in V
      BY <3>1
    <3> QED
      BY <3>1, <3>2, <3>3, <3>4
  <2>4. g = Body(g)
    BY <2>2, <2>3 DEF FoldSolution
  <2> QED
    BY <2>4
<1>2. iter = Body(iter)
  BY <1>1
<1>3. BubbleSort(l) = iter[1..m]
  <2>1. DOMAIN UpTo(m) = 1..m
    BY DEF UpTo
  <2> QED
    BY <1>l, <2>1 DEF BubbleSort, FoldLeft, MapThenFoldSet
<1> HIDE DEF iter, m
<1>4. \A t \in SUBSET (1..m) : iter[t] = IF t = {} THEN l
                                         ELSE Pass(iter[t \ {Max(t)}], UpTo(m)[Max(t)])
  BY <1>2
<1> DEFINE f == [j \in 0..m |-> iter[1..j]]
<1>5. f[0] = l
  <2>1. f[0] = iter[1..0] /\ 1..0 = {}
    BY <1>m
  <2> HIDE DEF f
  <2> QED
    BY <1>4, <2>1
<1>6. ASSUME NEW j \in 1..m PROVE f[j] = Pass(f[j - 1], j)
  <2>1. f[j] = iter[1..j] /\ f[j - 1] = iter[1..(j - 1)]
    BY <1>m
  <2>2. UpTo(m)[j] = j
    BY DEF UpTo
  <2> DEFINE t == 1..j
  <2>3. t \in SUBSET (1..m) /\ t # {} /\ Max(t) = j /\ t \ {j} = 1..(j - 1)
    BY <1>m, IntervalPrefix
  <2> HIDE DEF f, t
  <2>4. iter[t] = Pass(iter[t \ {j}], j)
    BY <1>4, <2>2, <2>3
  <2> QED
    BY <2>1, <2>3, <2>4 DEF t
<1>7. f[m] = iter[1..m]
  BY <1>m
<1> HIDE DEF f
<1> QED
  BY <1>3, <1>5, <1>6, <1>7 DEF m

\* bubbleSort of a list that is not empty: its elements, each once, in order
\* (SelectedLocationTVC.m:25-41, LocationList).
THEOREM BubbleSortSorts ==
    ASSUME NEW n \in Nat \ {0}, NEW l \in [1..n -> Nat]
    PROVE  /\ BubbleSort(l) \in [1..n -> Nat]
           /\ Rearranged(BubbleSort(l), l, n)
           /\ \A a, b \in 1..n : a < b => BubbleSort(l)[a] <= BubbleSort(l)[b]
<1>1. PICK f : /\ f[0] = l
               /\ \A j \in 1..(n - 1) : f[j] = Pass(f[j - 1], j)
               /\ BubbleSort(l) = f[n - 1]
  BY SortSteps
<1> DEFINE Sorted(k, i) == /\ k \in [1..n -> Nat]
                           /\ Rearranged(k, l, n)
                           /\ SortedBeyond(k, n, i)
<1> DEFINE T == {j \in Nat : j <= n - 1 => Sorted(f[j], j)}
<1>2. 0 \in T
  <2>1. Sorted(l, 0)
    BY RearrangedSelf DEF SortedBeyond
  <2> QED
    BY <1>1, <2>1
<1>3. ASSUME NEW j \in Nat, j \in T PROVE j + 1 \in T
  <2> SUFFICES ASSUME j + 1 <= n - 1 PROVE Sorted(f[j + 1], j + 1)
    OBVIOUS
  <2>1. j + 1 \in 1..n /\ j + 1 \in 1..(n - 1) /\ (j + 1) - 1 = j /\ j <= n - 1
    OBVIOUS
  <2>2. f[j + 1] = Pass(f[j], j + 1)
    BY <1>1, <2>1
  <2>3. Sorted(f[j], j)
    BY <1>3, <2>1
  <2> DEFINE k == Pass(f[j], j + 1)
  <2>4. k \in [1..n -> Nat] /\ Rearranged(k, f[j], n) /\ SortedBeyond(k, n, j + 1)
    BY <2>1, <2>3, PassSorts
  <2> HIDE DEF k
  <2>5. Rearranged(k, l, n)
    BY <2>3, <2>4, RearrangedTwice
  <2>6. Sorted(k, j + 1)
    BY <2>4, <2>5
  <2> QED
    BY <2>2, <2>6 DEF k
<1>4. n - 1 \in T
  <2>1. n - 1 \in Nat
    OBVIOUS
  <2> HIDE DEF T
  <2> QED
    BY <1>2, <1>3, <2>1, Induct
<1>5. Sorted(BubbleSort(l), n - 1)
  BY <1>1, <1>4
<1>6. ASSUME NEW a \in 1..n, NEW b \in 1..n, a < b PROVE BubbleSort(l)[a] <= BubbleSort(l)[b]
  <2>1. b > n - (n - 1)
    BY <1>6
  <2> QED
    BY <1>5, <1>6, <2>1 DEF SortedBeyond
<1> QED
  BY <1>5, <1>6

-----------------------------------------------------------------------------
(* Cutting a sorted list into sections.                                    *)

\* v is the part of s that has the names of letter k.
IsSection(v, k, s, n) ==
    \E lo, hi \in 1..n :
        /\ lo <= hi
        /\ v = [x \in 1..(hi - lo + 1) |-> s[lo + x - 1]]
        /\ \A j \in 1..n : Initial(s[j]) = k <=> lo <= j /\ j <= hi

\* After i names those up to the c th are in sections, the others in tmpArray.
CutAt(acc, s, n, i, c) ==
    /\ c \in 0..i
    /\ i > 0 => c < i
    /\ acc.prehead = Initial(s[c + 1])
    /\ acc.tmpArray = [x \in 1..(i - c) |-> s[c + x]]
    /\ \A j \in 1..n : j > c /\ j <= i => Initial(s[j]) = acc.prehead
    /\ \A j \in 1..n : j <= c => Initial(s[j]) < acc.prehead
    /\ DOMAIN acc.dic = {Initial(s[j]) : j \in 1..c}
    /\ \A k \in DOMAIN acc.dic : IsSection(acc.dic[k], k, s, n)

Dictionaries == UNION {[K -> Seq(Nat)] : K \in SUBSET Nat}

Accumulators == [dic : Dictionaries, prehead : Nat, tmpArray : Seq(Nat)]

Sorted(s, n) == /\ s \in [1..n -> Nat]
                /\ \A a, b \in 1..n : a < b => s[a] <= s[b]

LEMMA InitialType ==
    ASSUME NEW x \in Nat
    PROVE  Initial(x) \in Nat
BY DEF Initial

LEMMA InitialMonotonic ==
    ASSUME NEW x \in Nat, NEW y \in Nat, x <= y
    PROVE  Initial(x) <= Initial(y)
BY DEF Initial

LEMMA SetObjectType ==
    ASSUME NEW dic \in Dictionaries, NEW key \in Nat, NEW value \in Seq(Nat)
    PROVE  SetObject(dic, key, value) \in Dictionaries
<1>1. PICK K \in SUBSET Nat : dic \in [K -> Seq(Nat)]
  BY DEF Dictionaries
<1>2. K \cup {key} \in SUBSET Nat
  OBVIOUS
<1>3. SetObject(dic, key, value) \in [K \cup {key} -> Seq(Nat)]
  BY <1>1 DEF SetObject
<1> QED
  BY <1>2, <1>3 DEF Dictionaries

LEMMA NextNameType ==
    ASSUME NEW acc \in Accumulators, NEW name \in Nat
    PROVE  NextName(acc, name) \in Accumulators
<1>1. acc.dic \in Dictionaries /\ acc.prehead \in Nat /\ acc.tmpArray \in Seq(Nat)
  BY DEF Accumulators
<1>2. CASE Initial(name) = acc.prehead
  <2>1. Append(acc.tmpArray, name) \in Seq(Nat)
    BY <1>1
  <2> QED
    BY <1>2, <2>1 DEF NextName, Accumulators
<1>3. CASE Initial(name) # acc.prehead
  <2>1. SetObject(acc.dic, acc.prehead, acc.tmpArray) \in Dictionaries
    BY <1>1, SetObjectType
  <2>2. Initial(name) \in Nat /\ <<name>> \in Seq(Nat)
    BY InitialType
  <2> QED
    BY <1>3, <2>1, <2>2 DEF NextName, Accumulators
<1> QED
  BY <1>2, <1>3

\* The names, one after the other.
LEMMA CutSteps ==
    ASSUME NEW n \in Nat, NEW s \in [1..n -> Nat], NEW base \in Accumulators
    PROVE  \E f : /\ f[0] = base
                  /\ \A j \in 1..n : f[j] = NextName(f[j - 1], s[j])
                  /\ FoldLeft(NextName, base, s) = f[n]
<1> DEFINE Body(g) == [t \in SUBSET (1..n) |-> IF t = {} THEN base
                                               ELSE NextName(g[t \ {Max(t)}], s[Max(t)])]
<1> DEFINE iter == CHOOSE g : g = Body(g)
<1>1. \E g : g = Body(g)
  <2> DEFINE V == Accumulators
  <2> DEFINE step == [j \in 1..n |-> [k \in V |-> NextName(k, s[j])]]
  <2>1. step \in [1..n -> [V -> V]]
    BY NextNameType
  <2>2. PICK g \in [SUBSET (1..n) -> V] : FoldSolution(g, n, base, step)
    <3> HIDE DEF step
    <3> QED
      BY <2>1, FoldRecursion
  <2>3. ASSUME NEW t \in SUBSET (1..n), t # {}
        PROVE  g[t] = NextName(g[t \ {Max(t)}], s[Max(t)])
    <3>1. Max(t) \in 1..n /\ t \ {Max(t)} \in SUBSET (1..n)
      BY <2>3, MaxIn
    <3>3. g[t] = step[Max(t)][g[t \ {Max(t)}]]
      BY <2>2, <2>3 DEF FoldSolution
    <3>4. g[t \ {Max(t)}] \in V
      BY <3>1
    <3> QED
      BY <3>1, <3>3, <3>4
  <2>4. g = Body(g)
    BY <2>2, <2>3 DEF FoldSolution
  <2> QED
    BY <2>4
<1>2. iter = Body(iter)
  BY <1>1
<1>3. FoldLeft(NextName, base, s) = iter[1..n]
  <2>1. DOMAIN s = 1..n
    OBVIOUS
  <2> QED
    BY <2>1 DEF FoldLeft, MapThenFoldSet
<1> HIDE DEF iter
<1>4. \A t \in SUBSET (1..n) : iter[t] = IF t = {} THEN base
                                         ELSE NextName(iter[t \ {Max(t)}], s[Max(t)])
  BY <1>2
<1> DEFINE f == [j \in 0..n |-> iter[1..j]]
<1>5. f[0] = base
  <2>1. f[0] = iter[1..0] /\ 1..0 = {}
    OBVIOUS
  <2> HIDE DEF f
  <2> QED
    BY <1>4, <2>1
<1>6. ASSUME NEW j \in 1..n PROVE f[j] = NextName(f[j - 1], s[j])
  <2>1. f[j] = iter[1..j] /\ f[j - 1] = iter[1..(j - 1)]
    OBVIOUS
  <2> DEFINE t == 1..j
  <2>3. t \in SUBSET (1..n) /\ t # {} /\ Max(t) = j /\ t \ {j} = 1..(j - 1)
    BY IntervalPrefix
  <2> HIDE DEF f, t
  <2>4. iter[t] = NextName(iter[t \ {j}], s[j])
    BY <1>4, <2>3
  <2> QED
    BY <2>1, <2>3, <2>4 DEF t
<1>7. f[n] = iter[1..n]
  OBVIOUS
<1> HIDE DEF f
<1> QED
  BY <1>3, <1>5, <1>6, <1>7

\* Of a sorted list, the letters of later names are not smaller.
LEMMA SortedInitials ==
    ASSUME NEW n \in Nat, NEW s, Sorted(s, n)
    PROVE  \A a, b \in 1..n : a <= b => Initial(s[a]) <= Initial(s[b])
<1> SUFFICES ASSUME NEW a \in 1..n, NEW b \in 1..n, a <= b
             PROVE  Initial(s[a]) <= Initial(s[b])
  OBVIOUS
<1>1. s[a] \in Nat /\ s[b] \in Nat
  BY DEF Sorted
<1>2. s[a] <= s[b]
  BY <1>1 DEF Sorted
<1> QED
  BY <1>1, <1>2, InitialMonotonic

\* A run of names that ends where a name with another letter follows, or with
\* the list, is a section.
LEMMA RunIsSection ==
    ASSUME NEW n \in Nat, NEW s, Sorted(s, n), NEW i \in 1..n, NEW c \in 0..(i - 1), NEW k \in Nat,
           \A j \in 1..n : j > c /\ j <= i => Initial(s[j]) = k,
           \A j \in 1..n : j <= c => Initial(s[j]) < k,
           i < n => Initial(s[i + 1]) # k
    PROVE  IsSection([x \in 1..(i - c) |-> s[c + x]], k, s, n)
<1> DEFINE lo == c + 1
<1> DEFINE v == [x \in 1..(i - c) |-> s[c + x]]
<1>1. lo \in 1..n /\ i \in 1..n /\ lo <= i
  OBVIOUS
<1>2. v = [x \in 1..(i - lo + 1) |-> s[lo + x - 1]]
  OBVIOUS
<1>3. \A j \in 1..n : Initial(s[j]) \in Nat
  BY InitialType DEF Sorted
<1>4. ASSUME NEW j \in 1..n, j > i PROVE Initial(s[j]) # k
  <2>1. i + 1 \in 1..n /\ i + 1 <= j /\ i < n
    BY <1>4
  <2>2. Initial(s[i]) <= Initial(s[i + 1]) /\ Initial(s[i + 1]) <= Initial(s[j])
    BY <2>1, SortedInitials
  <2>3. Initial(s[i]) = k /\ Initial(s[i + 1]) # k
    BY <2>1
  <2> QED
    BY <1>3, <2>1, <2>2, <2>3
<1>5. ASSUME NEW j \in 1..n PROVE Initial(s[j]) = k <=> lo <= j /\ j <= i
  <2>1. CASE j <= c
    <3>1. Initial(s[j]) < k /\ Initial(s[j]) \in Nat
      BY <1>3, <2>1
    <3> QED
      BY <2>1, <3>1
  <2>2. CASE j > c /\ j <= i
    BY <2>2
  <2>3. CASE j > i
    BY <1>4, <2>3
  <2> QED
    BY <2>1, <2>2, <2>3
<1> HIDE DEF lo, v
<1>6. IsSection(v, k, s, n)
  BY <1>1, <1>2, <1>5 DEF IsSection
<1> QED
  BY <1>6 DEF v

LEMMA NextNameCuts ==
    ASSUME NEW n \in Nat, NEW s, Sorted(s, n), NEW i \in 1..n,
           NEW acc \in Accumulators, NEW c, CutAt(acc, s, n, i - 1, c)
    PROVE  \E d : CutAt(NextName(acc, s[i]), s, n, i, d)
<1> DEFINE tmp == [x \in 1..(i - 1 - c) |-> s[c + x]]
<1>1. /\ c \in 0..(i - 1)
      /\ i > 1 => c < i - 1
      /\ acc.prehead = Initial(s[c + 1])
      /\ acc.tmpArray = tmp
      /\ \A j \in 1..n : j > c /\ j < i => Initial(s[j]) = acc.prehead
      /\ \A j \in 1..n : j <= c => Initial(s[j]) < acc.prehead
      /\ DOMAIN acc.dic = {Initial(s[j]) : j \in 1..c}
      /\ \A k \in DOMAIN acc.dic : IsSection(acc.dic[k], k, s, n)
  BY DEF CutAt
<1>2. s \in [1..n -> Nat] /\ s[i] \in Nat
  BY DEF Sorted
<1>3. \A j \in 1..n : Initial(s[j]) \in Nat
  BY <1>2, InitialType
<1>4. acc.prehead \in Nat /\ acc.dic \in Dictionaries
  BY DEF Accumulators
<1>5. CASE Initial(s[i]) = acc.prehead
  <2> DEFINE new == NextName(acc, s[i])
  <2>1. new = [acc EXCEPT !.tmpArray = Append(@, s[i])]
    BY <1>5 DEF NextName
  <2>2. /\ new.prehead = acc.prehead /\ new.dic = acc.dic
        /\ new.tmpArray = Append(tmp, s[i])
    BY <1>1, <2>1 DEF Accumulators
  <2>3. Append(tmp, s[i]) = [x \in 1..(i - c) |-> s[c + x]]
    <3> DEFINE m == i - 1 - c
    <3>1. m \in Nat /\ m + 1 = i - c /\ c + (m + 1) = i
      BY <1>1
    <3>2. tmp \in [1..m -> Nat]
      BY <1>1, <1>2
    <3>3. tmp \in Seq(Nat) /\ Len(tmp) = m
      BY <3>1, <3>2, SeqOfLen
    <3>4. \A x \in 1..m : tmp[x] = s[c + x]
      OBVIOUS
    <3> HIDE DEF tmp, m
    <3> QED
      BY <1>2, <3>1, <3>3, <3>4
  <2>4. CutAt(new, s, n, i, c)
    <3>1. c \in 0..i /\ (i > 0 => c < i)
      BY <1>1
    <3>2. \A j \in 1..n : j > c /\ j <= i => Initial(s[j]) = acc.prehead
      BY <1>1, <1>5
    <3> HIDE DEF new, tmp
    <3> QED
      BY <1>1, <2>2, <2>3, <3>1, <3>2 DEF CutAt
  <2> QED
    BY <2>4
<1>6. CASE Initial(s[i]) # acc.prehead
  <2> DEFINE new == NextName(acc, s[i])
  <2>1. /\ new.dic = SetObject(acc.dic, acc.prehead, acc.tmpArray)
        /\ new.prehead = Initial(s[i])
        /\ new.tmpArray = <<s[i]>>
    BY <1>6 DEF NextName
  <2>2. i > 1 /\ c < i - 1
    <3>1. CASE i = 1
      BY <1>1, <1>6, <3>1
    <3> QED
      BY <1>1, <3>1
  <2> DEFINE m == i - 1
  <2>3. m \in 1..n /\ c \in 0..(m - 1) /\ m + 1 = i
    BY <1>1, <2>2
  <2>4. IsSection(tmp, acc.prehead, s, n)
    <3>1. \A j \in 1..n : j > c /\ j <= m => Initial(s[j]) = acc.prehead
      BY <1>1
    <3>2. m < n => Initial(s[m + 1]) # acc.prehead
      BY <1>6, <2>3
    <3>3. IsSection([x \in 1..(m - c) |-> s[c + x]], acc.prehead, s, n)
      <4> HIDE DEF m
      <4> QED
        BY <1>1, <1>4, <2>3, <3>1, <3>2, RunIsSection
    <3> QED
      BY <3>3
  <2>5. ASSUME NEW j \in 1..n, j <= m PROVE Initial(s[j]) < Initial(s[i])
    <3>1. Initial(s[m]) = acc.prehead
      BY <1>1, <2>2, <2>3
    <3>2. Initial(s[j]) <= Initial(s[m]) /\ Initial(s[m]) <= Initial(s[i])
      BY <2>3, <2>5, SortedInitials
    <3> QED
      BY <1>3, <1>6, <2>3, <3>1, <3>2
  <2>6. DOMAIN new.dic = {Initial(s[j]) : j \in 1..m}
    <3>1. DOMAIN new.dic = {Initial(s[j]) : j \in 1..c} \cup {acc.prehead}
      BY <1>1, <2>1 DEF SetObject
    <3>2. ASSUME NEW j \in 1..m, j > c PROVE Initial(s[j]) = acc.prehead
      BY <1>1, <2>3, <3>2
    <3>3. c + 1 \in 1..m /\ acc.prehead = Initial(s[c + 1])
      BY <1>1, <2>2
    <3>4. 1..c \subseteq 1..m
      BY <2>3
    <3> HIDE DEF new, m
    <3> QED
      BY <2>3, <3>1, <3>2, <3>3, <3>4
  <2>7. ASSUME NEW k \in DOMAIN new.dic PROVE IsSection(new.dic[k], k, s, n)
    <3>1. CASE k = acc.prehead
      <4>1. new.dic[k] = tmp
        BY <1>1, <2>1, <3>1 DEF SetObject
      <4> QED
        BY <2>4, <3>1, <4>1
    <3>2. CASE k # acc.prehead
      <4>1. k \in DOMAIN acc.dic /\ new.dic[k] = acc.dic[k]
        BY <2>1, <2>7, <3>2 DEF SetObject
      <4> QED
        BY <1>1, <4>1
    <3> QED
      BY <3>1, <3>2
  <2>8. CutAt(new, s, n, i, m)
    <3>1. m \in 0..i /\ m < i /\ m + 1 = i
      OBVIOUS
    <3>2. <<s[i]>> = [x \in 1..(i - m) |-> s[m + x]]
      BY <3>1
    <3>3. \A j \in 1..n : j > m /\ j <= i => Initial(s[j]) = Initial(s[i])
      <4>1. \A j \in 1..n : j > m /\ j <= i => j = i
        OBVIOUS
      <4> QED
        BY <4>1
    <3> HIDE DEF new, m
    <3> QED
      BY <2>1, <2>5, <2>6, <2>7, <3>1, <3>2, <3>3 DEF CutAt
  <2> QED
    BY <2>8
<1> QED
  BY <1>5, <1>6

\* dic has a section for each letter of s.
Sections(dic, s, n) ==
    /\ DOMAIN dic = {Initial(s[j]) : j \in 1..n}
    /\ \A k \in DOMAIN dic : IsSection(dic[k], k, s, n)

LEMMA StoreLastCuts ==
    ASSUME NEW n \in Nat \ {0}, NEW s, Sorted(s, n),
           NEW acc \in Accumulators, NEW c, CutAt(acc, s, n, n, c)
    PROVE  Sections(StoreLast(acc), s, n)
<1> DEFINE tmp == [x \in 1..(n - c) |-> s[c + x]]
<1> DEFINE new == StoreLast(acc)
<1>1. /\ c \in 0..(n - 1)
      /\ acc.prehead = Initial(s[c + 1])
      /\ acc.tmpArray = tmp
      /\ \A j \in 1..n : j > c /\ j <= n => Initial(s[j]) = acc.prehead
      /\ \A j \in 1..n : j <= c => Initial(s[j]) < acc.prehead
      /\ DOMAIN acc.dic = {Initial(s[j]) : j \in 1..c}
      /\ \A k \in DOMAIN acc.dic : IsSection(acc.dic[k], k, s, n)
  BY DEF CutAt
<1>2. new = SetObject(acc.dic, acc.prehead, tmp)
  BY <1>1 DEF StoreLast
<1>3. IsSection(tmp, acc.prehead, s, n)
  <2>1. acc.prehead \in Nat
    BY DEF Accumulators
  <2>2. n \in Nat /\ n \in 1..n /\ ~(n < n)
    OBVIOUS
  <2>3. /\ \A j \in 1..n : j > c /\ j <= n => Initial(s[j]) = acc.prehead
        /\ \A j \in 1..n : j <= c => Initial(s[j]) < acc.prehead
        /\ c \in 0..(n - 1)
    BY <1>1
  <2>4. IsSection([x \in 1..(n - c) |-> s[c + x]], acc.prehead, s, n)
    BY ONLY Sorted(s, n), <2>1, <2>2, <2>3, RunIsSection
  <2> QED
    BY <2>4
<1>4. DOMAIN new = {Initial(s[j]) : j \in 1..n}
  <2>1. DOMAIN new = {Initial(s[j]) : j \in 1..c} \cup {acc.prehead}
    BY <1>1, <1>2 DEF SetObject
  <2>2. \A j \in 1..n : j > c => Initial(s[j]) = acc.prehead
    BY <1>1
  <2>3. c + 1 \in 1..n /\ 1..c \subseteq 1..n /\ \A j \in 1..n : j <= c => j \in 1..c
    BY <1>1
  <2> HIDE DEF new
  <2> QED
    BY <1>1, <2>1, <2>2, <2>3
<1>5. ASSUME NEW k \in DOMAIN new PROVE IsSection(new[k], k, s, n)
  <2>1. CASE k = acc.prehead
    <3>1. new[k] = tmp
      BY <1>2, <2>1 DEF SetObject
    <3> QED
      BY <1>3, <2>1, <3>1
  <2>2. CASE k # acc.prehead
    <3>1. k \in DOMAIN acc.dic /\ new[k] = acc.dic[k]
      BY <1>2, <1>5, <2>2 DEF SetObject
    <3> QED
      BY <1>1, <3>1
  <2> QED
    BY <2>1, <2>2
<1> HIDE DEF new
<1>6. Sections(new, s, n)
  BY <1>4, <1>5 DEF Sections
<1> QED
  BY <1>6 DEF new

\* convertArraytoDictionary, for every list that is not empty.
LEMMA ConvertCuts ==
    ASSUME NEW n \in Nat \ {0}, NEW l \in [1..n -> Nat]
    PROVE  \E s : /\ Sorted(s, n)
                  /\ Rearranged(s, l, n)
                  /\ Sections(ConvertArraytoDictionary(l), s, n)
<1> DEFINE s == BubbleSort(l)
<1>1. Sorted(s, n) /\ Rearranged(s, l, n)
  BY BubbleSortSorts DEF Sorted
<1>2. s \in [1..n -> Nat] /\ s[1] \in Nat /\ Initial(s[1]) \in Nat
  <2>1. s \in [1..n -> Nat] /\ 1 \in 1..n
    BY <1>1 DEF Sorted
  <2> HIDE DEF s
  <2> QED
    BY <2>1, InitialType
<1> DEFINE dic0 == [k \in {} |-> <<>>]
<1> DEFINE base == [dic |-> dic0, prehead |-> Initial(s[1]), tmpArray |-> <<>>]
<1>3. ConvertArraytoDictionary(l) = StoreLast(FoldLeft(NextName, base, s))
  BY DEF ConvertArraytoDictionary
<1>4. base \in Accumulators
  <2>1. dic0 \in [{} -> Seq(Nat)] /\ {} \in SUBSET Nat
    OBVIOUS
  <2>2. dic0 \in Dictionaries
    BY <2>1 DEF Dictionaries
  <2>3. <<>> \in Seq(Nat)
    OBVIOUS
  <2> HIDE DEF s, dic0
  <2> QED
    BY <1>2, <2>2, <2>3 DEF Accumulators
<1>5. CutAt(base, s, n, 0, 0)
  <2>1. <<>> = [x \in 1..(0 - 0) |-> s[0 + x]]
    OBVIOUS
  <2>2. DOMAIN dic0 = {Initial(s[j]) : j \in 1..0}
    OBVIOUS
  <2>3. \A k \in DOMAIN dic0 : IsSection(dic0[k], k, s, n)
    OBVIOUS
  <2> HIDE DEF s, dic0
  <2> QED
    BY <2>1, <2>2, <2>3 DEF CutAt
<1> HIDE DEF base
<1>6. PICK f : /\ f[0] = base
               /\ \A j \in 1..n : f[j] = NextName(f[j - 1], s[j])
               /\ FoldLeft(NextName, base, s) = f[n]
  BY <1>2, <1>4, CutSteps
<1> HIDE DEF s
<1> DEFINE Good(j) == f[j] \in Accumulators /\ \E c : CutAt(f[j], s, n, j, c)
<1> DEFINE T == {j \in Nat : j <= n => Good(j)}
<1>7. 0 \in T
  BY <1>4, <1>5, <1>6
<1>8. ASSUME NEW j \in Nat, j \in T PROVE j + 1 \in T
  <2> SUFFICES ASSUME j + 1 <= n PROVE Good(j + 1)
    OBVIOUS
  <2>1. j + 1 \in 1..n /\ (j + 1) - 1 = j /\ j <= n
    OBVIOUS
  <2>2. f[j + 1] = NextName(f[j], s[j + 1])
    BY <1>6, <2>1
  <2>3. Good(j)
    BY <1>8, <2>1
  <2>4. PICK c : CutAt(f[j], s, n, (j + 1) - 1, c)
    BY <2>1, <2>3
  <2>5. \E d : CutAt(f[j + 1], s, n, j + 1, d)
    BY <1>1, <2>1, <2>2, <2>3, <2>4, NextNameCuts
  <2>6. f[j + 1] \in Accumulators
    BY <1>2, <2>1, <2>2, <2>3, NextNameType
  <2> QED
    BY <2>5, <2>6
<1>9. Good(n)
  <2> HIDE DEF Good
  <2>1. n \in T
    <3> HIDE DEF T
    <3> QED
      BY <1>7, <1>8, Induct
  <2> QED
    BY <2>1
<1>10. Sections(StoreLast(f[n]), s, n)
  BY <1>1, <1>9, StoreLastCuts
<1> QED
  BY <1>1, <1>3, <1>6, <1>10

-----------------------------------------------------------------------------
(* Enumerating a finite set, in an order.                                  *)

\* R orders S.
Orders(R, S) ==
    /\ \A x, y, z \in S : <<x, y>> \in R /\ <<y, z>> \in R => <<x, z>> \in R
    /\ \A x, y \in S : x # y => <<x, y>> \in R \/ <<y, x>> \in R

\* s has the elements of S, each once.
Enumerates(s, S) ==
    /\ s \in [1..Cardinality(S) -> S]
    /\ \A i, j \in 1..Cardinality(S) : i # j => s[i] # s[j]

LEMMA EnumeratesAll ==
    ASSUME NEW S, IsFiniteSet(S), NEW s \in SetToSeqs(S)
    PROVE  /\ Cardinality(S) \in Nat
           /\ Enumerates(s, S)
           /\ \A x \in S : \E i \in 1..Cardinality(S) : s[i] = x
<1> DEFINE n == Cardinality(S)
<1>1. n \in Nat
  BY FS_CardinalityType
<1>2. Enumerates(s, S)
  BY DEF SetToSeqs, Enumerates
<1>3. s \in Injection(1..n, S)
  BY <1>2 DEF Enumerates, Injection, IsInjective
<1>4. Cardinality(1..n) = n
  <2> HIDE DEF n
  <2> QED
    BY <1>1, FS_Interval
<1>5. s \in Surjection(1..n, S)
  BY <1>3, <1>4, FS_Injection
<1> QED
  BY <1>1, <1>2, <1>5 DEF Surjection

LEMMA LastExists ==
    ASSUME NEW S, NEW R, Orders(R, S)
    PROVE  \A n \in Nat : \A U \in SUBSET S :
               IsFiniteSet(U) /\ Cardinality(U) = n /\ U # {} =>
                   \E x \in U : \A y \in U \ {x} : <<y, x>> \in R
<1> DEFINE Good(U) == U # {} => \E x \in U : \A y \in U \ {x} : <<y, x>> \in R
<1> DEFINE T == {n \in Nat : \A U \in SUBSET S : IsFiniteSet(U) /\ Cardinality(U) = n => Good(U)}
<1>1. 0 \in T
  <2>1. \A U \in SUBSET S : IsFiniteSet(U) /\ Cardinality(U) = 0 => U = {}
    BY FS_EmptySet
  <2> QED
    BY <2>1
<1>2. ASSUME NEW n \in Nat, n \in T PROVE n + 1 \in T
  <2> SUFFICES ASSUME NEW U \in SUBSET S, IsFiniteSet(U), Cardinality(U) = n + 1
               PROVE  U # {} => \E x \in U : \A y \in U \ {x} : <<y, x>> \in R
    OBVIOUS
  <2> SUFFICES ASSUME U # {} PROVE \E x \in U : \A y \in U \ {x} : <<y, x>> \in R
    OBVIOUS
  <2>1. PICK a \in U : TRUE
    OBVIOUS
  <2> DEFINE W == U \ {a}
  <2>2. IsFiniteSet(W) /\ Cardinality(W) = n /\ W \in SUBSET S
    BY FS_RemoveElement
  <2>3. CASE W = {}
    BY <2>1, <2>3
  <2>4. CASE W # {}
    <3>1. PICK b \in W : \A y \in W \ {b} : <<y, b>> \in R
      BY <1>2, <2>2, <2>4
    <3>2. a \in S /\ b \in S /\ a # b
      BY <2>1, <3>1
    <3>3. CASE <<a, b>> \in R
      <4>1. \A y \in U \ {b} : <<y, b>> \in R
        BY <3>1, <3>3
      <4> QED
        BY <3>1, <4>1
    <3>4. CASE <<b, a>> \in R
      <4>1. \A y \in U \ {a} : <<y, a>> \in R
        BY <3>1, <3>2, <3>4 DEF Orders
      <4> QED
        BY <2>1, <4>1
    <3> QED
      BY <3>2, <3>3, <3>4 DEF Orders
  <2> QED
    BY <2>3, <2>4
<1>3. Nat \subseteq T
  <2> HIDE DEF T
  <2> QED
    BY <1>1, <1>2, Induct
<1> QED
  BY <1>3

LEMMA OrderedExists ==
    ASSUME NEW S, IsFiniteSet(S), NEW R, Orders(R, S)
    PROVE  \E s \in SetToSeqs(S) : \A i, j \in DOMAIN s : i < j => <<s[i], s[j]>> \in R
<1> DEFINE Good(U) == \E s : Enumerates(s, U) /\ \A i, j \in 1..Cardinality(U) :
                                                    i < j => <<s[i], s[j]>> \in R
<1> DEFINE T == {n \in Nat : \A U \in SUBSET S : Cardinality(U) = n => Good(U)}
<1>0. \A U \in SUBSET S : IsFiniteSet(U)
  BY FS_Subset
<1>1. 0 \in T
  <2> SUFFICES ASSUME NEW U \in SUBSET S, Cardinality(U) = 0 PROVE Good(U)
    OBVIOUS
  <2>1. Enumerates(<<>>, U)
    BY DEF Enumerates
  <2> QED
    BY <2>1
<1>2. ASSUME NEW n \in Nat, n \in T PROVE n + 1 \in T
  <2> SUFFICES ASSUME NEW U \in SUBSET S, Cardinality(U) = n + 1 PROVE Good(U)
    OBVIOUS
  <2>1. U # {}
    BY FS_EmptySet
  <2>2. PICK x \in U : \A y \in U \ {x} : <<y, x>> \in R
    BY <1>0, <2>1, LastExists
  <2> DEFINE W == U \ {x}
  <2>3. Cardinality(W) = n /\ W \in SUBSET S
    <3>1. IsFiniteSet(U) /\ x \in U
      BY <1>0
    <3> QED
      BY <3>1, FS_RemoveElement
  <2>4. PICK s : /\ Enumerates(s, W)
                 /\ \A i, j \in 1..Cardinality(W) : i < j => <<s[i], s[j]>> \in R
    BY <1>2, <2>3
  <2> DEFINE r == [i \in 1..(n + 1) |-> IF i = n + 1 THEN x ELSE s[i]]
  <2>5. s \in [1..n -> W] /\ \A i, j \in 1..n : i # j => s[i] # s[j]
    BY <2>3, <2>4 DEF Enumerates
  <2>6. \A i \in 1..(n + 1) : i # n + 1 => i \in 1..n
    OBVIOUS
  <2>7. r \in [1..(n + 1) -> U]
    BY <2>5, <2>6
  <2>8. \A i, j \in 1..(n + 1) : i # j => r[i] # r[j]
    <3> SUFFICES ASSUME NEW i \in 1..(n + 1), NEW j \in 1..(n + 1), i # j PROVE r[i] # r[j]
      OBVIOUS
    <3>1. CASE i # n + 1 /\ j # n + 1
      BY <2>5, <2>6, <3>1
    <3>2. CASE i = n + 1
      <4>1. j \in 1..n /\ s[j] \in W /\ r[j] = s[j] /\ r[i] = x
        BY <2>5, <2>6, <3>2
      <4> QED
        BY <4>1
    <3>3. CASE j = n + 1
      <4>1. i \in 1..n /\ s[i] \in W /\ r[i] = s[i] /\ r[j] = x
        BY <2>5, <2>6, <3>3
      <4> QED
        BY <4>1
    <3> QED
      BY <3>1, <3>2, <3>3
  <2>9. \A i, j \in 1..(n + 1) : i < j => <<r[i], r[j]>> \in R
    <3> SUFFICES ASSUME NEW i \in 1..(n + 1), NEW j \in 1..(n + 1), i < j
                 PROVE  <<r[i], r[j]>> \in R
      OBVIOUS
    <3>1. i \in 1..n /\ r[i] = s[i] /\ s[i] \in W
      BY <2>5
    <3>2. CASE j = n + 1
      BY <2>2, <3>1, <3>2
    <3>3. CASE j # n + 1
      BY <2>3, <2>4, <2>6, <3>1, <3>3
    <3> QED
      BY <3>2, <3>3
  <2> HIDE DEF r
  <2>10. Enumerates(r, U)
    BY <2>7, <2>8 DEF Enumerates
  <2> QED
    BY <2>9, <2>10
<1>3. Good(S)
  <2>1. Nat \subseteq T
    <3> HIDE DEF T
    <3> QED
      BY <1>1, <1>2, Induct
  <2>2. Cardinality(S) \in Nat
    BY FS_CardinalityType
  <2> HIDE DEF Good
  <2> QED
    BY <2>1, <2>2
<1>4. PICK s : Enumerates(s, S) /\ \A i, j \in 1..Cardinality(S) : i < j => <<s[i], s[j]>> \in R
  BY <1>3
<1>5. s \in SetToSeqs(S) /\ DOMAIN s = 1..Cardinality(S)
  BY <1>4 DEF Enumerates, SetToSeqs
<1> QED
  BY <1>4, <1>5

\* A set of names in order; the order of the titles of the sections.
LEMMA NamesInOrder ==
    ASSUME NEW S \in SUBSET Nat, IsFiniteSet(S)
    PROVE  OrderedNames(S) \in SetToSeqs(S)
<1> DEFINE R == {p \in S \X S : p[1] < p[2]}
<1>1. \A x, y \in S : <<x, y>> \in R <=> x < y
  OBVIOUS
<1>2. Orders(R, S)
  BY <1>1 DEF Orders
<1> HIDE DEF R
<1>3. PICK s \in SetToSeqs(S) : \A i, j \in DOMAIN s : i < j => <<s[i], s[j]>> \in R
  BY <1>2, OrderedExists
<1>4. \A i, j \in DOMAIN s : i < j => s[i] < s[j]
  <2>1. \A i \in DOMAIN s : s[i] \in S
    BY DEF SetToSeqs
  <2> QED
    BY <1>1, <1>3, <2>1
<1> QED
  BY <1>4 DEF OrderedNames, InOrder

LEMMA KeysInOrder ==
    ASSUME NEW dic, DOMAIN dic \in SUBSET Nat, IsFiniteSet(DOMAIN dic)
    PROVE  SortKeys(dic) \in SetToSeqs(DOMAIN dic)
<1> DEFINE S == DOMAIN dic
<1> DEFINE R == {p \in S \X S : KeyBefore(p[1], p[2])}
<1>1. \A x, y \in S : <<x, y>> \in R <=> KeyBefore(x, y)
  OBVIOUS
<1>2. Orders(R, S)
  <2>1. \A x \in Nat : x % 5 \in Nat
    OBVIOUS
  <2>2. S \subseteq Nat
    OBVIOUS
  <2> HIDE DEF S, R
  <2>3. \A x, y, z \in S : <<x, y>> \in R /\ <<y, z>> \in R => <<x, z>> \in R
    BY <1>1, <2>1, <2>2 DEF KeyBefore
  <2>4. \A x, y \in S : x # y => <<x, y>> \in R \/ <<y, x>> \in R
    BY <1>1, <2>1, <2>2 DEF KeyBefore
  <2> QED
    BY <2>3, <2>4 DEF Orders
<1> HIDE DEF R
<1>3. PICK s \in SetToSeqs(S) : \A i, j \in DOMAIN s : i < j => <<s[i], s[j]>> \in R
  BY <1>2, OrderedExists
<1>4. \A i, j \in DOMAIN s : i < j => KeyBefore(s[i], s[j])
  <2>1. \A i \in DOMAIN s : s[i] \in S
    BY DEF SetToSeqs
  <2> QED
    BY <1>1, <1>3, <2>1
<1> QED
  BY <1>4 DEF SortKeys, InOrder

-----------------------------------------------------------------------------
(* The rows on screen.                                                     *)

LEMMA FlattenSteps ==
    ASSUME NEW m \in Nat \ {0}, NEW X, NEW seqs \in [1..m -> Seq(X)]
    PROVE  \E f : /\ f[0] = <<>>
                  /\ \A i \in 1..m : f[i] = f[i - 1] \o seqs[i]
                  /\ FlattenSeq(seqs) = f[m]
<1> DEFINE Body(g) == [i \in 1..m |-> IF i = 1 THEN seqs[i] ELSE g[i - 1] \o seqs[i]]
<1> DEFINE flatten == CHOOSE g : g = Body(g)
<1>1. Len(seqs) = m
  BY SeqOfLen
<1>2. \E g : g = Body(g)
  <2> DEFINE V == Seq(X)
  <2> DEFINE step == [i \in 1..m |-> [v \in V |-> IF i = 1 THEN seqs[i] ELSE v \o seqs[i]]]
  <2>1. step \in [1..m -> [V -> V]]
    OBVIOUS
  <2>2. PICK g \in [SUBSET (1..m) -> V] : FoldSolution(g, m, <<>>, step)
    <3>1. <<>> \in V
      OBVIOUS
    <3> HIDE DEF V, step
    <3> QED
      BY <2>1, <3>1, FoldRecursion
  <2> DEFINE h == [i \in 1..m |-> g[1..i]]
  <2>3. ASSUME NEW i \in 1..m
        PROVE  h[i] = IF i = 1 THEN seqs[i] ELSE h[i - 1] \o seqs[i]
    <3> DEFINE t == 1..i
    <3>1. t \in SUBSET (1..m) /\ t # {} /\ Max(t) = i /\ t \ {i} = 1..(i - 1)
      BY IntervalPrefix
    <3>2. h[i] = g[t] /\ (i # 1 => h[i - 1] = g[1..(i - 1)])
      OBVIOUS
    <3>3. t \ {i} \in SUBSET (1..m)
      BY <3>1
    <3> HIDE DEF t, h
    <3>4. g[t] = step[i][g[t \ {i}]]
      BY <2>2, <3>1 DEF FoldSolution
    <3>5. g[t \ {i}] \in V
      BY <3>3
    <3>6. g[t] = IF i = 1 THEN seqs[i] ELSE g[t \ {i}] \o seqs[i]
      BY <3>4, <3>5
    <3> QED
      BY <3>1, <3>2, <3>6
  <2>4. h = Body(h)
    BY <2>3
  <2> QED
    BY <2>4
<1>3. flatten = Body(flatten)
  BY <1>2
<1>4. FlattenSeq(seqs) = flatten[m]
  BY <1>1 DEF FlattenSeq
<1> HIDE DEF flatten
<1> DEFINE f == [i \in 0..m |-> IF i = 0 THEN <<>> ELSE flatten[i]]
<1>5. f[0] = <<>> /\ f[m] = flatten[m]
  OBVIOUS
<1>6. ASSUME NEW i \in 1..m PROVE f[i] = f[i - 1] \o seqs[i]
  <2>1. flatten[i] = IF i = 1 THEN seqs[i] ELSE flatten[i - 1] \o seqs[i]
    BY <1>3
  <2>2. f[i] = flatten[i] /\ f[i - 1] = IF i = 1 THEN <<>> ELSE flatten[i - 1]
    OBVIOUS
  <2>3. <<>> \o seqs[i] = seqs[i]
    OBVIOUS
  <2> HIDE DEF f
  <2> QED
    BY <2>1, <2>2, <2>3
<1> HIDE DEF f
<1> QED
  BY <1>4, <1>5, <1>6

\* r has the names of s with a letter in K, each once; p says which.
PickedBy(p, r, s, n, K) ==
    /\ r \in Seq(Nat)
    /\ p \in [1..Len(r) -> 1..n]
    /\ \A a, b \in 1..Len(r) : a # b => p[a] # p[b]
    /\ \A a \in 1..Len(r) : r[a] = s[p[a]] /\ Initial(s[p[a]]) \in K
    /\ \A j \in 1..n : Initial(s[j]) \in K => \E a \in 1..Len(r) : p[a] = j

LEMMA PickSection ==
    ASSUME NEW n \in Nat, NEW s \in [1..n -> Nat], NEW K, NEW p, NEW r, PickedBy(p, r, s, n, K),
           NEW k, k \notin K, NEW v, IsSection(v, k, s, n)
    PROVE  \E q : PickedBy(q, r \o v, s, n, K \cup {k})
<1>1. PICK lo \in 1..n, hi \in 1..n :
          /\ lo <= hi
          /\ v = [x \in 1..(hi - lo + 1) |-> s[lo + x - 1]]
          /\ \A j \in 1..n : Initial(s[j]) = k <=> lo <= j /\ j <= hi
  BY DEF IsSection
<1> DEFINE m == Len(r)
<1> DEFINE w == hi - lo + 1
<1> DEFINE q == [a \in 1..(m + w) |-> IF a <= m THEN p[a] ELSE lo + (a - m) - 1]
<1>2. /\ r \in Seq(Nat) /\ m \in Nat
      /\ p \in [1..m -> 1..n]
      /\ \A a, b \in 1..m : a # b => p[a] # p[b]
      /\ \A a \in 1..m : r[a] = s[p[a]] /\ Initial(s[p[a]]) \in K
      /\ \A j \in 1..n : Initial(s[j]) \in K => \E a \in 1..m : p[a] = j
  BY DEF PickedBy
<1>3. w \in Nat \ {0}
  BY <1>1
<1>4. \A x \in 1..w : lo + x - 1 \in 1..n /\ lo <= lo + x - 1 /\ lo + x - 1 <= hi
  BY <1>1
<1>5. v \in Seq(Nat) /\ Len(v) = w /\ \A x \in 1..w : v[x] = s[lo + x - 1]
  <2>1. v \in [1..w -> Nat] /\ \A x \in 1..w : v[x] = s[lo + x - 1]
    BY <1>1, <1>4
  <2> HIDE DEF w
  <2> QED
    BY <1>3, <2>1, SeqOfLen
<1> HIDE DEF w, m
<1>6. /\ r \o v \in Seq(Nat) /\ Len(r \o v) = m + w
      /\ \A a \in 1..(m + w) : (r \o v)[a] = IF a <= m THEN r[a] ELSE v[a - m]
  <2>1. r \o v \in Seq(Nat) /\ Len(r \o v) = m + w
    <3>1. r \in Seq(Nat) /\ v \in Seq(Nat)
      BY <1>2, <1>5
    <3>2. r \o v \in Seq(Nat) /\ Len(r \o v) = Len(r) + Len(v)
      BY ONLY <3>1
    <3> QED
      BY <1>5, <3>2 DEF m
  <2>2. ASSUME NEW a \in 1..(m + w) PROVE (r \o v)[a] = IF a <= m THEN r[a] ELSE v[a - m]
    <3>1. a \in 1..(Len(r) + Len(v))
      BY <1>5 DEF m
    <3>2. (r \o v)[a] = IF a <= Len(r) THEN r[a] ELSE v[a - Len(r)]
      BY <1>2, <1>5, <3>1
    <3> QED
      BY <3>2 DEF m
  <2> QED
    BY <2>1, <2>2
<1>7. ASSUME NEW a \in 1..(m + w)
      PROVE  /\ q[a] \in 1..n
             /\ (r \o v)[a] = s[q[a]]
             /\ a <= m => Initial(s[q[a]]) \in K
             /\ a > m => Initial(s[q[a]]) = k
  <2>1. CASE a <= m
    <3>1. a \in 1..m /\ q[a] = p[a]
      BY <1>2, <1>3, <2>1
    <3> QED
      BY <1>2, <1>6, <2>1, <3>1
  <2>2. CASE a > m
    <3>1. a - m \in 1..w /\ q[a] = lo + (a - m) - 1
      BY <1>2, <1>3, <2>2
    <3> DEFINE x == a - m
    <3>2. x \in 1..w /\ q[a] = lo + x - 1 /\ (r \o v)[a] = v[x]
      BY <1>2, <1>6, <2>2, <3>1
    <3> HIDE DEF x, q
    <3>3. q[a] \in 1..n /\ lo <= q[a] /\ q[a] <= hi /\ (r \o v)[a] = s[q[a]]
      BY <1>4, <1>5, <3>2
    <3>4. Initial(s[q[a]]) = k
      BY <1>1, <3>3
    <3>5. ~(a <= m)
      BY <1>2, <1>3, <2>2
    <3> QED
      BY <3>3, <3>4, <3>5
  <2>3. a <= m \/ a > m
    BY <1>2, <1>3
  <2> HIDE DEF q
  <2> QED
    BY <2>1, <2>2, <2>3
<1>8. q \in [1..(m + w) -> 1..n]
  BY <1>7
<1>9. ASSUME NEW a \in 1..(m + w), NEW b \in 1..(m + w), a # b PROVE q[a] # q[b]
  <2>1. CASE a <= m /\ b <= m
    <3>1. a \in 1..m /\ b \in 1..m /\ q[a] = p[a] /\ q[b] = p[b]
      BY <1>2, <1>3, <2>1
    <3> QED
      BY <1>2, <1>9, <3>1
  <2>2. CASE a > m /\ b > m
    BY <1>1, <1>2, <1>3, <1>9, <2>2
  <2>3. CASE a <= m /\ b > m
    <3> HIDE DEF q
    <3> QED
      BY <1>7, <2>3
  <2>4. CASE a > m /\ b <= m
    <3> HIDE DEF q
    <3> QED
      BY <1>7, <2>4
  <2> QED
    BY <1>2, <1>3, <2>1, <2>2, <2>3, <2>4
<1>10. ASSUME NEW j \in 1..n, Initial(s[j]) \in K \cup {k}
       PROVE  \E a \in 1..(m + w) : q[a] = j
  <2>1. CASE Initial(s[j]) \in K
    <3>1. PICK a \in 1..m : p[a] = j
      BY <1>2, <2>1
    <3>2. a \in 1..(m + w) /\ q[a] = j
      BY <1>2, <1>3, <3>1
    <3> QED
      BY <3>2
  <2>2. CASE Initial(s[j]) = k
    <3>1. lo <= j /\ j <= hi
      BY <1>1, <2>2
    <3> DEFINE a == m + (j - lo + 1)
    <3>2. a \in 1..(m + w) /\ a > m /\ lo + (a - m) - 1 = j
      BY <1>1, <1>2, <3>1 DEF w
    <3>3. q[a] = j
      <4> HIDE DEF a
      <4> QED
        BY <1>2, <1>3, <3>2
    <3> QED
      BY <3>2, <3>3
  <2> QED
    BY <1>10, <2>1, <2>2
<1> HIDE DEF q
<1>11. ASSUME NEW a \in 1..(m + w)
       PROVE  (r \o v)[a] = s[q[a]] /\ Initial(s[q[a]]) \in K \cup {k}
  <2>1. a <= m \/ a > m
    BY <1>2, <1>3
  <2> QED
    BY <1>7, <2>1
<1>12. PickedBy(q, r \o v, s, n, K \cup {k})
  BY <1>6, <1>8, <1>9, <1>10, <1>11 DEF PickedBy
<1> QED
  BY <1>12

LEMMA SectionType ==
    ASSUME NEW n \in Nat, NEW s \in [1..n -> Nat], NEW k, NEW v, IsSection(v, k, s, n)
    PROVE  /\ v \in Seq(Nat) /\ v # <<>>
           /\ \A x \in DOMAIN v : \E j \in 1..n : v[x] = s[j] /\ Initial(v[x]) = k
           /\ Sorted(s, n) => \A x, y \in DOMAIN v : x < y => v[x] <= v[y]
<1>1. PICK lo \in 1..n, hi \in 1..n :
          /\ lo <= hi
          /\ v = [x \in 1..(hi - lo + 1) |-> s[lo + x - 1]]
          /\ \A j \in 1..n : Initial(s[j]) = k <=> lo <= j /\ j <= hi
  BY DEF IsSection
<1> DEFINE w == hi - lo + 1
<1>2. w \in Nat \ {0} /\ DOMAIN v = 1..w /\ 1 \in 1..w
  BY <1>1
<1>3. ASSUME NEW x \in 1..w
      PROVE  lo + x - 1 \in 1..n /\ v[x] = s[lo + x - 1] /\ Initial(v[x]) = k
  <2>1. lo + x - 1 \in 1..n /\ lo <= lo + x - 1 /\ lo + x - 1 <= hi
    BY <1>1
  <2>2. v[x] = s[lo + x - 1]
    BY <1>1
  <2> QED
    BY <1>1, <2>1, <2>2
<1>4. v \in [1..w -> Nat]
  BY <1>1, <1>3
<1>5. v \in Seq(Nat)
  <2> HIDE DEF w
  <2> QED
    BY <1>2, <1>4, SeqOfLen
<1>6. v # <<>>
  BY <1>2
<1>7. ASSUME Sorted(s, n), NEW x \in 1..w, NEW y \in 1..w, x < y PROVE v[x] <= v[y]
  <2>1. lo + x - 1 < lo + y - 1
    BY <1>7
  <2> QED
    BY <1>3, <1>7, <2>1 DEF Sorted
<1> HIDE DEF w
<1> QED
  BY <1>2, <1>3, <1>5, <1>6, <1>7

\* The letters of a list that is not empty are finitely many.
LEMMA LettersFinite ==
    ASSUME NEW n \in Nat \ {0}, NEW s \in [1..n -> Nat], NEW dic, Sections(dic, s, n)
    PROVE  /\ DOMAIN dic \in SUBSET Nat
           /\ IsFiniteSet(DOMAIN dic)
           /\ DOMAIN dic # {}
<1> DEFINE K == DOMAIN dic
<1> DEFINE f == [j \in 1..n |-> Initial(s[j])]
<1>1. K = {Initial(s[j]) : j \in 1..n}
  BY DEF Sections
<1>2. f \in Surjection(1..n, K)
  BY <1>1 DEF Surjection
<1>3. IsFiniteSet(1..n)
  BY FS_Interval
<1>4. IsFiniteSet(K)
  <2> HIDE DEF f, K
  <2> QED
    BY <1>2, <1>3, FS_Surjection
<1>5. \A j \in 1..n : Initial(s[j]) \in Nat
  BY InitialType
<1>6. 1 \in 1..n
  OBVIOUS
<1> QED
  BY <1>1, <1>4, <1>5, <1>6

\* What picks every name picks each once.
LEMMA PickedAll ==
    ASSUME NEW n \in Nat, NEW s \in [1..n -> Nat], NEW p, NEW r, NEW K, PickedBy(p, r, s, n, K),
           \A j \in 1..n : Initial(s[j]) \in K
    PROVE  r \in [1..n -> Nat] /\ Rearranged(r, s, n)
<1> DEFINE m == Len(r)
<1>1. /\ r \in Seq(Nat) /\ m \in Nat
      /\ p \in [1..m -> 1..n]
      /\ \A a, b \in 1..m : a # b => p[a] # p[b]
      /\ \A a \in 1..m : r[a] = s[p[a]]
      /\ \A j \in 1..n : \E a \in 1..m : p[a] = j
  BY DEF PickedBy
<1>2. r \in [1..m -> Nat]
  BY <1>1
<1> HIDE DEF m
<1>3. p \in Injection(1..m, 1..n) /\ p \in Surjection(1..m, 1..n)
  BY <1>1 DEF Injection, IsInjective, Surjection
<1>4. IsFiniteSet(1..n) /\ Cardinality(1..n) = n /\ Cardinality(1..m) = m
  BY <1>1, FS_Interval
<1>5. m = n
  BY <1>3, <1>4, FS_Injection
<1> DEFINE q == [j \in 1..n |-> CHOOSE a \in 1..n : p[a] = j]
<1>6. \A j \in 1..n : q[j] \in 1..n /\ p[q[j]] = j
  BY <1>1, <1>5
<1>7. q \in [1..n -> 1..n]
  BY <1>6
<1> HIDE DEF q
<1>8. \A a \in 1..n : p[a] \in 1..n /\ q[p[a]] = a
  BY <1>1, <1>5, <1>6
<1> QED
  <2>1. p \in [1..n -> 1..n] /\ r \in [1..n -> Nat]
    BY <1>1, <1>2, <1>5
  <2>2. \A i \in 1..n : q[p[i]] = i /\ p[q[i]] = i /\ r[i] = s[p[i]]
    BY <1>1, <1>5, <1>6, <1>8
  <2> QED
    BY <1>7, <2>1, <2>2 DEF Rearranged

\* The sections from top to bottom have each name of the list once.
LEMMA SectionRows ==
    ASSUME NEW n \in Nat \ {0}, NEW s, Sorted(s, n), NEW dic, Sections(dic, s, n)
    PROVE  DisplayedRows(dic) \in [1..n -> Nat] /\ Rearranged(DisplayedRows(dic), s, n)
<1> DEFINE K == DOMAIN dic
<1> DEFINE keys == SortKeys(dic)
<1> DEFINE m == Cardinality(K)
<1>1. s \in [1..n -> Nat]
  BY DEF Sorted
<1>2. K \in SUBSET Nat /\ IsFiniteSet(K) /\ K # {}
  BY <1>1, LettersFinite
<1>3. keys \in SetToSeqs(K)
  BY <1>2, KeysInOrder
<1> HIDE DEF K, keys
<1>4. /\ m \in Nat
      /\ keys \in [1..m -> K]
      /\ \A i, j \in 1..m : i # j => keys[i] # keys[j]
      /\ \A k \in K : \E i \in 1..m : keys[i] = k
  BY <1>2, <1>3, EnumeratesAll DEF Enumerates
<1>5. m # 0
  BY <1>2, FS_EmptySet
<1> HIDE DEF m
<1>6. \A k \in K : IsSection(dic[k], k, s, n)
  BY DEF Sections, K
<1> DEFINE seqs == [i \in 1..m |-> dic[keys[i]]]
<1>7. DisplayedRows(dic) = FlattenSeq(seqs)
  <2>1. DOMAIN keys = 1..m
    BY <1>4
  <2> QED
    BY <2>1 DEF DisplayedRows, keys
<1>8. \A i \in 1..m : seqs[i] \in Seq(Nat)
  BY <1>1, <1>4, <1>6, SectionType
<1>9. seqs \in [1..m -> Seq(Nat)]
  BY <1>8
<1> DEFINE Shown(i) == {keys[x] : x \in 1..i}
<1>10. \A i \in 1..m : seqs[i] = dic[keys[i]]
  OBVIOUS
<1> HIDE DEF seqs
<1>11. PICK f : /\ f[0] = <<>>
                /\ \A i \in 1..m : f[i] = f[i - 1] \o seqs[i]
                /\ FlattenSeq(seqs) = f[m]
  BY <1>4, <1>5, <1>9, FlattenSteps
<1> DEFINE Good(i) == \E p : PickedBy(p, f[i], s, n, Shown(i))
<1> DEFINE T == {i \in Nat : i <= m => Good(i)}
<1>12. 0 \in T
  <2>1. Shown(0) = {}
    BY ONLY NoneBefore
  <2>2. PickedBy(<<>>, <<>>, s, n, {})
    BY DEF PickedBy
  <2> QED
    BY <1>11, <2>1, <2>2
<1>13. ASSUME NEW i \in Nat, i \in T PROVE i + 1 \in T
  <2> HIDE DEF Good
  <2> SUFFICES ASSUME i + 1 <= m PROVE Good(i + 1)
    OBVIOUS
  <2> USE DEF Good
  <2>1. i + 1 \in 1..m /\ (i + 1) - 1 = i /\ i <= m
    BY <1>4
  <2>2. PICK p : PickedBy(p, f[i], s, n, Shown(i))
    BY <1>13, <2>1
  <2> DEFINE k == keys[i + 1]
  <2>3. k \notin Shown(i)
    <3>1. \A x \in 1..i : x \in 1..m /\ x # i + 1
      BY <1>4, <2>1
    <3> QED
      BY <1>4, <2>1, <3>1
  <2>4. Shown(i + 1) = Shown(i) \cup {k}
    <3>1. \A x \in 1..(i + 1) : x \in 1..i \/ x = i + 1
      OBVIOUS
    <3>2. i + 1 \in 1..(i + 1) /\ 1..i \subseteq 1..(i + 1)
      OBVIOUS
    <3> QED
      BY <3>1, <3>2
  <2>5. f[i + 1] = f[i] \o dic[k]
    BY <1>10, <1>11, <2>1
  <2>6. IsSection(dic[k], k, s, n)
    BY <1>4, <1>6, <2>1
  <2> HIDE DEF k, Shown
  <2>7. \E q : PickedBy(q, f[i] \o dic[k], s, n, Shown(i) \cup {k})
    BY <1>1, <2>2, <2>3, <2>6, PickSection
  <2> QED
    BY <2>4, <2>5, <2>7
<1>14. Good(m)
  <2> HIDE DEF Good
  <2>1. m \in T
    <3> HIDE DEF T
    <3> QED
      BY <1>4, <1>12, <1>13, Induct
  <2> QED
    BY <2>1
<1>15. \A j \in 1..n : Initial(s[j]) \in Shown(m)
  <2>1. \A j \in 1..n : Initial(s[j]) \in K
    BY DEF Sections, K
  <2> QED
    BY <1>4, <2>1
<1> HIDE DEF Shown
<1> QED
  <2>1. PICK p : PickedBy(p, f[m], s, n, Shown(m))
    BY <1>14
  <2> DEFINE S == Shown(m)
  <2>2. PickedBy(p, f[m], s, n, S) /\ \A j \in 1..n : Initial(s[j]) \in S
    BY <1>15, <2>1
  <2> HIDE DEF S
  <2>3. f[m] \in [1..n -> Nat] /\ Rearranged(f[m], s, n)
    BY <1>1, <2>2, PickedAll
  <2> QED
    BY <1>7, <1>11, <2>3

-----------------------------------------------------------------------------
(* The invariant of MCSectionIndex, for lists of any length of any names.  *)

\* Rearranging a list does not change how often it has a name.
LEMMA CountRearranged ==
    ASSUME NEW n \in Nat, NEW k \in [1..n -> Nat], NEW l \in [1..n -> Nat],
           Rearranged(k, l, n), NEW name
    PROVE  Count(name, k) = Count(name, l)
<1> DEFINE A == {i \in 1..n : k[i] = name}
<1> DEFINE B == {i \in 1..n : l[i] = name}
<1>1. PICK p \in [1..n -> 1..n], q \in [1..n -> 1..n] :
          \A i \in 1..n : q[p[i]] = i /\ p[q[i]] = i /\ k[i] = l[p[i]]
  BY DEF Rearranged
<1> DEFINE f == [i \in A |-> p[i]]
<1>2. \A i \in A : f[i] \in B
  BY <1>1
<1>3. \A i, j \in A : i # j => f[i] # f[j]
  BY <1>1
<1>4. \A j \in B : q[j] \in A /\ f[q[j]] = j
  BY <1>1
<1>5. f \in Bijection(A, B)
  <2>1. f \in [A -> B]
    BY <1>2
  <2> HIDE DEF f, A, B
  <2>2. f \in Injection(A, B)
    BY <1>3, <2>1 DEF Injection, IsInjective
  <2>3. f \in Surjection(A, B)
    BY <1>4, <2>1 DEF Surjection
  <2> QED
    BY <2>2, <2>3 DEF Bijection
<1>6. IsFiniteSet(A)
  BY FS_Interval, FS_Subset
<1> HIDE DEF f, A, B
<1>7. Cardinality(A) = Cardinality(B)
  BY <1>5, <1>6, FS_Bijection DEF ExistsBijection
<1>8. DOMAIN k = 1..n /\ DOMAIN l = 1..n
  OBVIOUS
<1>9. Count(name, k) = Cardinality(A) /\ Count(name, l) = Cardinality(B)
  BY <1>8 DEF Count, A, B
<1> QED
  BY <1>7, <1>9

\* The dictionary of a list that is not empty.
LEMMA ListInSections ==
    ASSUME NEW n \in Nat \ {0}, NEW l \in [1..n -> Nat],
           NEW dic, dic = ConvertArraytoDictionary(l)
    PROVE  /\ \A name : Count(name, DisplayedRows(dic)) = Count(name, l)
           /\ \A k \in DOMAIN dic :
                 /\ dic[k] # <<>>
                 /\ \A i \in DOMAIN dic[k] : Initial(dic[k][i]) = k
                 /\ \A i \in DOMAIN dic[k] : i > 1 => dic[k][i - 1] <= dic[k][i]
<1>1. PICK s : Sorted(s, n) /\ Rearranged(s, l, n) /\ Sections(dic, s, n)
  BY ConvertCuts
<1>2. s \in [1..n -> Nat]
  BY <1>1 DEF Sorted
<1> DEFINE rows == DisplayedRows(dic)
<1>3. rows \in [1..n -> Nat] /\ Rearranged(rows, s, n)
  BY <1>1, SectionRows
<1> HIDE DEF rows
<1>4. Rearranged(rows, l, n)
  BY <1>1, <1>3, RearrangedTwice
<1>5. \A name : Count(name, rows) = Count(name, l)
  BY <1>3, <1>4, CountRearranged
<1>6. ASSUME NEW k \in DOMAIN dic
      PROVE  /\ dic[k] # <<>>
             /\ \A i \in DOMAIN dic[k] : Initial(dic[k][i]) = k
             /\ \A i \in DOMAIN dic[k] : i > 1 => dic[k][i - 1] <= dic[k][i]
  <2> DEFINE v == dic[k]
  <2>1. IsSection(v, k, s, n)
    BY <1>1 DEF Sections
  <2> HIDE DEF v
  <2>2. /\ v \in Seq(Nat) /\ v # <<>>
        /\ \A x \in DOMAIN v : Initial(v[x]) = k
        /\ \A x, y \in DOMAIN v : x < y => v[x] <= v[y]
    BY <1>1, <1>2, <2>1, SectionType
  <2>3. \A i \in DOMAIN v : i > 1 => i - 1 \in DOMAIN v /\ i - 1 < i
    BY <2>2
  <2> QED
    BY <2>2, <2>3 DEF v
<1> QED
  BY <1>5, <1>6 DEF rows

ListOK ==
    \/ origList = <<>> /\ placesDic = [k \in {} |-> <<>>]
    \/ /\ origList \in Seq(Nat) /\ origList # <<>>
       /\ placesDic = ConvertArraytoDictionary(origList)

LEMMA ListOKRows == ListOK => RowsAreTheNames
<1>1. CASE origList = <<>> /\ placesDic = [k \in {} |-> <<>>]
  <2>1. DOMAIN placesDic = {}
    BY <1>1
  <2>2. SortKeys(placesDic) \in SetToSeqs({})
    BY <2>1, KeysInOrder, FS_EmptySet
  <2>3. DOMAIN SortKeys(placesDic) = {}
    BY <2>2, FS_EmptySet DEF SetToSeqs
  <2>4. DisplayedRows(placesDic) = <<>>
    <3> DEFINE seqs == [i \in DOMAIN SortKeys(placesDic) |-> placesDic[SortKeys(placesDic)[i]]]
    <3>1. seqs = <<>>
      BY <2>3
    <3>2. DisplayedRows(placesDic) = FlattenSeq(seqs)
      BY DEF DisplayedRows
    <3> HIDE DEF seqs
    <3> QED
      BY <3>1, <3>2 DEF FlattenSeq
  <2> QED
    BY <1>1, <2>1, <2>4 DEF RowsAreTheNames
<1>2. CASE /\ origList \in Seq(Nat) /\ origList # <<>>
           /\ placesDic = ConvertArraytoDictionary(origList)
  <2> DEFINE n == Len(origList)
  <2>1. n \in Nat \ {0} /\ origList \in [1..n -> Nat]
    BY <1>2
  <2> HIDE DEF n
  <2>2. /\ \A name : Count(name, DisplayedRows(placesDic)) = Count(name, origList)
        /\ \A k \in DOMAIN placesDic :
              /\ placesDic[k] # <<>>
              /\ \A i \in DOMAIN placesDic[k] : Initial(placesDic[k][i]) = k
              /\ \A i \in DOMAIN placesDic[k] : i > 1 => placesDic[k][i - 1] <= placesDic[k][i]
    BY <1>2, <2>1, ListInSections
  <2> QED
    BY <2>2 DEF RowsAreTheNames
<1> QED
  BY <1>1, <1>2 DEF ListOK

\* The rows of a screen of places are its names, each as often as the list has
\* it, in sections that are not empty and in order: for lists of any length of
\* any names.
THEOREM RowsAreTheNamesAlways == ListsSpec => []RowsAreTheNames
<1>1. ListsInit => ListOK
  BY DEF ListsInit, ListOK
<1>2. ListOK /\ [Appear \/ MenuShown]_listsVars => ListOK'
  <2> SUFFICES ASSUME ListOK, [Appear \/ MenuShown]_listsVars PROVE ListOK'
    OBVIOUS
  <2>1. CASE Appear
    <3>1. PICK x \in Names : origList' = Append(origList, x)
      BY <2>1 DEF Appear
    <3>2. x \in Nat /\ origList \in Seq(Nat)
      <4>1. x \in Nat
        BY NamesAssumption
      <4>2. <<>> \in Seq(Nat)
        OBVIOUS
      <4> QED
        BY <4>1, <4>2 DEF ListOK
    <3>3. origList' \in Seq(Nat) /\ origList' # <<>>
      BY <3>1, <3>2
    <3>4. placesDic' = ConvertArraytoDictionary(origList')
      BY <2>1 DEF Appear
    <3> QED
      BY <3>3, <3>4 DEF ListOK
  <2>2. CASE MenuShown
    BY <2>2 DEF MenuShown, ListOK
  <2>3. CASE UNCHANGED listsVars
    BY <2>3 DEF listsVars, ListOK
  <2> QED
    BY <2>1, <2>2, <2>3
<1> QED
  BY <1>1, <1>2, ListOKRows, PTL DEF ListsSpec

-----------------------------------------------------------------------------
(* The table of dishes, for menus of any length with any types.            *)

Dishes == [dishID : Nat, dishType : DishTypes]

DishDictionaries == UNION {[K -> Seq(Dishes)] : K \in SUBSET DishTypes}

\* A dish comes to those of its type, and the other types stay as they are.
LEMMA AddDishAdds ==
    ASSUME NEW dic \in DishDictionaries, NEW dish \in Dishes
    PROVE  LET t == dish.dishType
               next == AddDish(dic, dish)
           IN  /\ DOMAIN next = DOMAIN dic \cup {t}
               /\ next[t] = IF t \in DOMAIN dic THEN Append(dic[t], dish) ELSE <<dish>>
               /\ \A k \in DOMAIN dic : k # t => next[k] = dic[k]
<1> DEFINE t == dish.dishType
<1>1. PICK K \in SUBSET DishTypes : dic \in [K -> Seq(Dishes)]
  BY DEF DishDictionaries
<1>2. CASE t \in DOMAIN dic
  BY <1>1, <1>2 DEF AddDish
<1>3. CASE t \notin DOMAIN dic
  BY <1>1, <1>3 DEF AddDish, SetObject
<1> QED
  BY <1>2, <1>3

LEMMA AddDishType ==
    ASSUME NEW dic \in DishDictionaries, NEW dish \in Dishes
    PROVE  AddDish(dic, dish) \in DishDictionaries
<1> DEFINE t == dish.dishType
<1>1. PICK K \in SUBSET DishTypes : dic \in [K -> Seq(Dishes)]
  BY DEF DishDictionaries
<1>2. t \in DishTypes
  BY DEF Dishes
<1>3. CASE t \in DOMAIN dic
  <2>1. Append(dic[t], dish) \in Seq(Dishes)
    BY <1>1, <1>3
  <2>2. [dic EXCEPT ![t] = Append(dic[t], dish)] \in [K -> Seq(Dishes)]
    BY <1>1, <2>1
  <2> QED
    BY <1>3, <2>2 DEF AddDish, DishDictionaries
<1>4. CASE t \notin DOMAIN dic
  <2>1. <<dish>> \in Seq(Dishes)
    OBVIOUS
  <2>2. SetObject(dic, t, <<dish>>) \in [K \cup {t} -> Seq(Dishes)]
    BY <1>1, <2>1 DEF SetObject
  <2>3. K \cup {t} \in SUBSET DishTypes
    BY <1>2
  <2> QED
    BY <1>4, <2>2, <2>3 DEF AddDish, DishDictionaries
<1> QED
  BY <1>3, <1>4

\* The dishes, one after the other.
LEMMA DishSteps ==
    ASSUME NEW n \in Nat, NEW s \in [1..n -> Dishes], NEW base \in DishDictionaries
    PROVE  \E f : /\ f[0] = base
                  /\ \A j \in 1..n : f[j] = AddDish(f[j - 1], s[j])
                  /\ FoldLeft(AddDish, base, s) = f[n]
<1> DEFINE Body(g) == [t \in SUBSET (1..n) |-> IF t = {} THEN base
                                               ELSE AddDish(g[t \ {Max(t)}], s[Max(t)])]
<1> DEFINE iter == CHOOSE g : g = Body(g)
<1>1. \E g : g = Body(g)
  <2> DEFINE V == DishDictionaries
  <2> DEFINE step == [j \in 1..n |-> [k \in V |-> AddDish(k, s[j])]]
  <2>1. step \in [1..n -> [V -> V]]
    BY AddDishType
  <2>2. PICK g \in [SUBSET (1..n) -> V] : FoldSolution(g, n, base, step)
    <3> HIDE DEF step
    <3> QED
      BY <2>1, FoldRecursion
  <2>3. ASSUME NEW t \in SUBSET (1..n), t # {}
        PROVE  g[t] = AddDish(g[t \ {Max(t)}], s[Max(t)])
    <3>1. Max(t) \in 1..n /\ t \ {Max(t)} \in SUBSET (1..n)
      BY <2>3, MaxIn
    <3>3. g[t] = step[Max(t)][g[t \ {Max(t)}]]
      BY <2>2, <2>3 DEF FoldSolution
    <3>4. g[t \ {Max(t)}] \in V
      BY <3>1
    <3> QED
      BY <3>1, <3>3, <3>4
  <2>4. g = Body(g)
    BY <2>2, <2>3 DEF FoldSolution
  <2> QED
    BY <2>4
<1>2. iter = Body(iter)
  BY <1>1
<1>3. FoldLeft(AddDish, base, s) = iter[1..n]
  <2>1. DOMAIN s = 1..n
    OBVIOUS
  <2> QED
    BY <2>1 DEF FoldLeft, MapThenFoldSet
<1> HIDE DEF iter
<1>4. \A t \in SUBSET (1..n) : iter[t] = IF t = {} THEN base
                                         ELSE AddDish(iter[t \ {Max(t)}], s[Max(t)])
  BY <1>2
<1> DEFINE f == [j \in 0..n |-> iter[1..j]]
<1>5. f[0] = base
  <2>1. f[0] = iter[1..0] /\ 1..0 = {}
    OBVIOUS
  <2> HIDE DEF f
  <2> QED
    BY <1>4, <2>1
<1>6. ASSUME NEW j \in 1..n PROVE f[j] = AddDish(f[j - 1], s[j])
  <2>1. f[j] = iter[1..j] /\ f[j - 1] = iter[1..(j - 1)]
    OBVIOUS
  <2> DEFINE t == 1..j
  <2>3. t \in SUBSET (1..n) /\ t # {} /\ Max(t) = j /\ t \ {j} = 1..(j - 1)
    BY IntervalPrefix
  <2> HIDE DEF f, t
  <2>4. iter[t] = AddDish(iter[t \ {j}], s[j])
    BY <1>4, <2>3
  <2> QED
    BY <2>1, <2>3, <2>4 DEF t
<1>7. f[n] = iter[1..n]
  OBVIOUS
<1> HIDE DEF f
<1> QED
  BY <1>3, <1>5, <1>6, <1>7

\* What the loop of Only does with an element.
Keep(kept, x, S) == IF x \in S THEN Append(kept, x) ELSE kept

LEMMA KeepType ==
    ASSUME NEW X, NEW kept \in Seq(X), NEW x \in X, NEW S
    PROVE  Keep(kept, x, S) \in Seq(X)
BY DEF Keep

\* The elements, one after the other.
KeepSolution(f, s, n, S) ==
    /\ f[0] = <<>>
    /\ \A j \in 1..n : f[j] = Keep(f[j - 1], s[j], S)
    /\ Only(s, S) = f[n]

LEMMA KeepSteps ==
    ASSUME NEW n \in Nat, NEW X, NEW s \in [1..n -> X], NEW S
    PROVE  \E f : KeepSolution(f, s, n, S)
<1> DEFINE base == <<>>
<1> DEFINE Body(g) == [t \in SUBSET (1..n) |-> IF t = {} THEN base
                                               ELSE Keep(g[t \ {Max(t)}], s[Max(t)], S)]
<1> DEFINE iter == CHOOSE g : g = Body(g)
<1>1. \E g : g = Body(g)
  <2> DEFINE V == Seq(X)
  <2> DEFINE step == [j \in 1..n |-> [k \in V |-> Keep(k, s[j], S)]]
  <2>1. step \in [1..n -> [V -> V]]
    BY KeepType
  <2>2. PICK g \in [SUBSET (1..n) -> V] : FoldSolution(g, n, base, step)
    <3>1. base \in V
      OBVIOUS
    <3> HIDE DEF base, V, step
    <3> QED
      BY <2>1, <3>1, FoldRecursion
  <2>3. ASSUME NEW t \in SUBSET (1..n), t # {}
        PROVE  g[t] = Keep(g[t \ {Max(t)}], s[Max(t)], S)
    <3>1. Max(t) \in 1..n /\ t \ {Max(t)} \in SUBSET (1..n)
      BY <2>3, MaxIn
    <3>3. g[t] = step[Max(t)][g[t \ {Max(t)}]]
      BY <2>2, <2>3 DEF FoldSolution
    <3>4. g[t \ {Max(t)}] \in V
      BY <3>1
    <3> QED
      BY <3>1, <3>3, <3>4
  <2>4. g = Body(g)
    BY <2>2, <2>3 DEF FoldSolution
  <2> QED
    BY <2>4
<1>2. iter = Body(iter)
  BY <1>1
<1>3. Only(s, S) = iter[1..n]
  <2>1. DOMAIN s = 1..n
    OBVIOUS
  <2> QED
    BY <2>1 DEF Only, Keep, FoldLeft, MapThenFoldSet
<1> HIDE DEF iter
<1>4. \A t \in SUBSET (1..n) : iter[t] = IF t = {} THEN base
                                         ELSE Keep(iter[t \ {Max(t)}], s[Max(t)], S)
  BY <1>2
<1> DEFINE f == [j \in 0..n |-> iter[1..j]]
<1>5. f[0] = base
  <2>1. f[0] = iter[1..0] /\ 1..0 = {}
    OBVIOUS
  <2> HIDE DEF f
  <2> QED
    BY <1>4, <2>1
<1>6. ASSUME NEW j \in 1..n PROVE f[j] = Keep(f[j - 1], s[j], S)
  <2>1. f[j] = iter[1..j] /\ f[j - 1] = iter[1..(j - 1)]
    OBVIOUS
  <2> DEFINE t == 1..j
  <2>3. t \in SUBSET (1..n) /\ t # {} /\ Max(t) = j /\ t \ {j} = 1..(j - 1)
    BY IntervalPrefix
  <2> HIDE DEF f, t
  <2>4. iter[t] = Keep(iter[t \ {j}], s[j], S)
    BY <1>4, <2>3
  <2> QED
    BY <2>1, <2>3, <2>4 DEF t
<1>7. f[n] = iter[1..n]
  OBVIOUS
<1> HIDE DEF f
<1> QED
  BY <1>3, <1>5, <1>6, <1>7 DEF KeepSolution

\* c[j] of the first j elements of s are kept; they are the beginning of kept.
Picks(kept, c, s, n, S) ==
    /\ c \in [0..n -> Nat] /\ c[0] = 0 /\ c[n] = Len(kept)
    /\ \A j \in 0..n : c[j] <= Len(kept)
    /\ \A j \in 1..n : IF s[j] \in S THEN c[j] = c[j - 1] + 1 /\ kept[c[j]] = s[j]
                                     ELSE c[j] = c[j - 1]

\* The first j elements are dealt with: what is kept of fewer comes first, and
\* nothing is kept twice.
KeptAt(f, s, j, S, X) ==
    /\ f[j] \in Seq(X)
    /\ \A i \in 0..j : /\ f[i] \in Seq(X) /\ Len(f[i]) <= Len(f[j])
                       /\ \A x \in 1..Len(f[i]) : f[i][x] = f[j][x]
    /\ \A x \in 1..Len(f[j]) : \E i \in 1..j : f[j][x] = s[i] /\ s[i] \in S
    /\ \A x, y \in 1..Len(f[j]) : x # y => f[j][x] # f[j][y]

LEMMA KeptNext ==
    ASSUME NEW X, NEW S, NEW s, NEW j \in Nat, NEW f, KeptAt(f, s, j, S, X), s[j + 1] \in X,
           \A i \in 1..j : s[i] # s[j + 1], f[j + 1] = Keep(f[j], s[j + 1], S)
    PROVE  KeptAt(f, s, j + 1, S, X)
<1> DEFINE e == s[j + 1]
<1> DEFINE u == f[j]
<1> DEFINE v == f[j + 1]
<1>1. /\ u \in Seq(X)
      /\ \A i \in 0..j : /\ f[i] \in Seq(X) /\ Len(f[i]) <= Len(u)
                         /\ \A x \in 1..Len(f[i]) : f[i][x] = u[x]
      /\ \A x \in 1..Len(u) : \E i \in 1..j : u[x] = s[i] /\ s[i] \in S
      /\ \A x, y \in 1..Len(u) : x # y => u[x] # u[y]
  BY DEF KeptAt
<1>2. \A i \in 0..(j + 1) : i \in 0..j \/ i = j + 1
  OBVIOUS
<1>3. \A i \in 1..j : i \in 1..(j + 1)
  OBVIOUS
<1>4. j + 1 \in 1..(j + 1)
  OBVIOUS
<1>5. KeptAt(f, s, j + 1, S, X) <=>
        /\ v \in Seq(X)
        /\ \A i \in 0..(j + 1) : /\ f[i] \in Seq(X) /\ Len(f[i]) <= Len(v)
                                 /\ \A x \in 1..Len(f[i]) : f[i][x] = v[x]
        /\ \A x \in 1..Len(v) : \E i \in 1..(j + 1) : v[x] = s[i] /\ s[i] \in S
        /\ \A x, y \in 1..Len(v) : x # y => v[x] # v[y]
  BY DEF KeptAt
<1>6. CASE e \notin S
  <2>1. v = u
    BY <1>6 DEF Keep
  <2>2. \A i \in 0..(j + 1) : f[i] = v \/ i \in 0..j
    BY <1>2
  <2>3. \A x \in 1..Len(v) : \E i \in 1..(j + 1) : v[x] = s[i] /\ s[i] \in S
    BY <1>1, <1>3, <2>1
  <2>4. \A i \in 0..(j + 1) : /\ f[i] \in Seq(X) /\ Len(f[i]) <= Len(v)
                              /\ \A x \in 1..Len(f[i]) : f[i][x] = v[x]
    <3> HIDE DEF u, v
    <3>1. Len(v) \in Nat
      BY <1>1, <2>1
    <3> QED
      BY <1>1, <2>1, <2>2, <3>1
  <2> HIDE DEF u, v
  <2> QED
    BY <1>1, <1>5, <2>1, <2>3, <2>4
<1>7. CASE e \in S
  <2> DEFINE n == Len(u)
  <2>1. v = Append(u, e) /\ e \in X /\ n \in Nat
    BY <1>1, <1>7 DEF Keep
  <2>2. v \in Seq(X) /\ Len(v) = n + 1 /\ v[n + 1] = e /\ \A x \in 1..n : v[x] = u[x]
    <3> HIDE DEF u, v, e
    <3> QED
      BY <1>1, <2>1
  <2>3. \A x \in 1..n : \E i \in 1..j : u[x] = s[i] /\ s[i] \in S
    BY <1>1
  <2>4. \A x \in 1..n : u[x] # e
    BY <2>3
  <2>5. \A i \in 0..j : /\ f[i] \in Seq(X) /\ Len(f[i]) \in Nat /\ Len(f[i]) <= n
                        /\ \A x \in 1..Len(f[i]) : f[i][x] = u[x]
    BY <1>1
  <2>6. f[j + 1] = v
    OBVIOUS
  <2> HIDE DEF n, u, v, e
  <2>7. \A x \in 1..(n + 1) : x \in 1..n \/ x = n + 1
    BY <2>1
  <2>8. ASSUME NEW i \in 0..(j + 1)
        PROVE  /\ f[i] \in Seq(X) /\ Len(f[i]) <= Len(v)
               /\ \A x \in 1..Len(f[i]) : f[i][x] = v[x]
    <3>1. CASE i = j + 1
      <4>1. f[i] = v
        BY <2>6, <3>1
      <4>2. Len(v) <= Len(v)
        BY <2>1, <2>2
      <4> QED
        BY <2>2, <4>1, <4>2
    <3>2. CASE i \in 0..j
      <4> DEFINE w == f[i]
      <4>1. /\ w \in Seq(X) /\ Len(w) \in Nat /\ Len(w) <= n
            /\ \A x \in 1..Len(w) : w[x] = u[x]
        BY <2>5, <3>2
      <4> HIDE DEF w
      <4>2. \A x \in 1..Len(w) : x \in 1..n
        BY <2>1, <4>1
      <4>3. w \in Seq(X) /\ Len(w) <= Len(v) /\ \A x \in 1..Len(w) : w[x] = v[x]
        BY <2>1, <2>2, <4>1, <4>2
      <4> QED
        BY <4>3 DEF w
    <3> QED
      BY <1>2, <3>1, <3>2
  <2>9. \A x \in 1..Len(v) : \E i \in 1..(j + 1) : v[x] = s[i] /\ s[i] \in S
    BY <1>3, <1>4, <1>7, <2>2, <2>3, <2>7 DEF e
  <2>10. \A x, y \in 1..Len(v) : x # y => v[x] # v[y]
    BY <1>1, <2>2, <2>4, <2>7 DEF n
  <2> QED
    BY <1>5, <2>2, <2>8, <2>9, <2>10
<1> QED
  BY <1>6, <1>7

\* Only keeps the elements of s that are in S, in their order.
LEMMA OnlyPicks ==
    ASSUME NEW n \in Nat, NEW X, NEW s \in [1..n -> X], NEW S,
           \A i, j \in 1..n : i # j => s[i] # s[j]
    PROVE  /\ Only(s, S) \in Seq(X \cap S)
           /\ \A x, y \in 1..Len(Only(s, S)) : x # y => Only(s, S)[x] # Only(s, S)[y]
           /\ \E c : Picks(Only(s, S), c, s, n, S)
<1>0. PICK f : KeepSolution(f, s, n, S)
  BY KeepSteps
<1>1. /\ f[0] = <<>>
      /\ \A j \in 1..n : f[j] = Keep(f[j - 1], s[j], S)
      /\ Only(s, S) = f[n]
  BY <1>0 DEF KeepSolution
<1> DEFINE T == {j \in Nat : j <= n => KeptAt(f, s, j, S, X)}
<1>2. 0 \in T
  <2>1. f[0] \in Seq(X) /\ Len(f[0]) = 0 /\ 0..0 = {0}
    BY <1>1
  <2> QED
    BY <2>1 DEF KeptAt
<1>3. ASSUME NEW j \in Nat, j \in T PROVE j + 1 \in T
  <2> SUFFICES ASSUME j + 1 <= n PROVE KeptAt(f, s, j + 1, S, X)
    OBVIOUS
  <2>1. /\ j + 1 \in 1..n /\ (j + 1) - 1 = j /\ j <= n
        /\ \A i \in 1..j : i \in 1..n /\ i # j + 1
    OBVIOUS
  <2>2. KeptAt(f, s, j, S, X)
    BY <1>3, <2>1
  <2>3. f[j + 1] = Keep(f[j], s[j + 1], S)
    BY <1>1, <2>1
  <2>4. s[j + 1] \in X /\ \A i \in 1..j : s[i] # s[j + 1]
    BY <2>1
  <2> QED
    BY <2>2, <2>3, <2>4, KeptNext
<1>4. \A j \in 0..n : KeptAt(f, s, j, S, X)
  <2>1. Nat \subseteq T
    <3> HIDE DEF T
    <3> QED
      BY <1>2, <1>3, Induct
  <2> QED
    BY <2>1
<1> DEFINE kept == f[n]
<1>5. KeptAt(f, s, n, S, X)
  BY <1>4
<1>6. /\ kept \in Seq(X)
      /\ \A i \in 0..n : /\ f[i] \in Seq(X) /\ Len(f[i]) <= Len(kept)
                         /\ \A x \in 1..Len(f[i]) : f[i][x] = kept[x]
      /\ \A x \in 1..Len(kept) : \E i \in 1..n : kept[x] = s[i] /\ s[i] \in S
      /\ \A x, y \in 1..Len(kept) : x # y => kept[x] # kept[y]
  BY <1>5 DEF KeptAt
<1>7. kept \in Seq(X \cap S)
  <2> HIDE DEF kept
  <2>1. Len(kept) \in Nat /\ kept \in [1..Len(kept) -> X]
    BY <1>6
  <2>2. \A x \in 1..Len(kept) : kept[x] \in X \cap S
    BY <1>6
  <2>3. kept \in [1..Len(kept) -> X \cap S]
    BY <2>1, <2>2
  <2> QED
    BY <2>1, <2>3
<1> DEFINE c == [j \in 0..n |-> Len(f[j])]
<1>8. c \in [0..n -> Nat] /\ \A j \in 0..n : c[j] = Len(f[j]) /\ c[j] <= Len(kept)
  BY <1>6
<1>9. c[0] = 0 /\ c[n] = Len(kept)
  BY <1>1
<1>10. ASSUME NEW j \in 1..n
       PROVE  IF s[j] \in S THEN c[j] = c[j - 1] + 1 /\ kept[c[j]] = s[j]
                            ELSE c[j] = c[j - 1]
  <2> DEFINE u == f[j - 1]
  <2> DEFINE v == f[j]
  <2>1. j - 1 \in 0..n /\ j \in 0..n
    OBVIOUS
  <2>2. c[j - 1] = Len(u) /\ c[j] = Len(v) /\ u \in Seq(X)
    BY <1>6, <1>8, <2>1
  <2>3. v = Keep(u, s[j], S) /\ s[j] \in X
    BY <1>1
  <2>4. \A x \in 1..Len(v) : v[x] = kept[x]
    BY <1>6, <2>1
  <2> HIDE DEF u, v, c, kept
  <2>5. CASE s[j] \in S
    <3>1. v = Append(u, s[j])
      BY <2>3, <2>5 DEF Keep
    <3>2. Len(v) = Len(u) + 1 /\ v[Len(v)] = s[j] /\ Len(v) \in 1..Len(v)
      BY <2>2, <2>3, <3>1
    <3> QED
      BY <2>2, <2>4, <2>5, <3>2
  <2>6. CASE s[j] \notin S
    BY <2>2, <2>3, <2>6 DEF Keep
  <2> QED
    BY <2>5, <2>6
<1> HIDE DEF c, kept
<1>11. Picks(kept, c, s, n, S)
  BY <1>8, <1>9, <1>10 DEF Picks
<1>12. Only(s, S) = kept
  BY <1>1 DEF kept
<1> QED
  BY <1>6, <1>7, <1>11, <1>12

OfType(src, t) == {dish \in ToSet(src) : dish.dishType = t}

\* What the dictionary has for a type after some dishes is what is kept of them.
SameDishes(dic, kept, t) == IF t \in DOMAIN dic THEN dic[t] = kept ELSE kept = <<>>

\* The dictionary has the dishes of each type of the menu, in its order.
LEMMA SortedByType ==
    ASSUME NEW n \in Nat, NEW src \in [1..n -> Dishes]
    PROVE  /\ SortedDictionary(src) \in DishDictionaries
           /\ IsFiniteSet(DOMAIN SortedDictionary(src))
           /\ \A t : SameDishes(SortedDictionary(src), Only(src, OfType(src, t)), t)
<1> DEFINE base == [k \in {} |-> <<>>]
<1>1. base \in DishDictionaries /\ DOMAIN base = {}
  <2>1. base \in [{} -> Seq(Dishes)] /\ {} \in SUBSET DishTypes
    OBVIOUS
  <2> HIDE DEF base
  <2> QED
    BY <2>1 DEF DishDictionaries
<1>2. SortedDictionary(src) = FoldLeft(AddDish, base, src)
  BY DEF SortedDictionary
<1> HIDE DEF base
<1>3. PICK f : /\ f[0] = base
               /\ \A j \in 1..n : f[j] = AddDish(f[j - 1], src[j])
               /\ FoldLeft(AddDish, base, src) = f[n]
  BY <1>1, DishSteps
<1> DEFINE Good(j) == f[j] \in DishDictionaries /\ IsFiniteSet(DOMAIN f[j])
<1> DEFINE T == {j \in Nat : j <= n => Good(j)}
<1>4. 0 \in T
  BY <1>1, <1>3, FS_EmptySet
<1>5. ASSUME NEW j \in Nat, j \in T PROVE j + 1 \in T
  <2> SUFFICES ASSUME j + 1 <= n PROVE Good(j + 1)
    OBVIOUS
  <2>1. j + 1 \in 1..n /\ (j + 1) - 1 = j /\ j <= n
    OBVIOUS
  <2> DEFINE dic == f[j]
  <2> DEFINE dish == src[j + 1]
  <2> DEFINE next == f[j + 1]
  <2>2. dic \in DishDictionaries /\ IsFiniteSet(DOMAIN dic) /\ dish \in Dishes
    BY <1>5, <2>1
  <2>3. next = AddDish(dic, dish)
    BY <1>3, <2>1
  <2> HIDE DEF dic, dish, next
  <2>4. next \in DishDictionaries /\ DOMAIN next = DOMAIN dic \cup {dish.dishType}
    BY <2>2, <2>3, AddDishType, AddDishAdds
  <2>5. IsFiniteSet(DOMAIN next)
    BY <2>2, <2>4, FS_AddElement
  <2> QED
    BY <2>4, <2>5 DEF next
<1>6. \A j \in 0..n : Good(j)
  <2> HIDE DEF Good
  <2>1. Nat \subseteq T
    <3> HIDE DEF T
    <3> QED
      BY <1>4, <1>5, Induct
  <2> QED
    BY <2>1
<1>7. ASSUME NEW t PROVE SameDishes(f[n], Only(src, OfType(src, t)), t)
  <2> DEFINE S == OfType(src, t)
  <2>1. PICK h : KeepSolution(h, src, n, S)
    <3> HIDE DEF S
    <3> QED
      BY KeepSteps
  <2>2. /\ h[0] = <<>>
        /\ \A j \in 1..n : h[j] = Keep(h[j - 1], src[j], S)
        /\ Only(src, S) = h[n]
    BY <2>1 DEF KeepSolution
  <2>3. \A j \in 1..n : src[j] \in S <=> src[j].dishType = t
    BY DEF OfType, ToSet
  <2> HIDE DEF S
  <2> DEFINE U == {j \in Nat : j <= n => SameDishes(f[j], h[j], t)}
  <2>4. 0 \in U
    BY <1>1, <1>3, <2>2 DEF SameDishes
  <2>5. ASSUME NEW j \in Nat, j \in U PROVE j + 1 \in U
    <3> SUFFICES ASSUME j + 1 <= n PROVE SameDishes(f[j + 1], h[j + 1], t)
      OBVIOUS
    <3>1. j + 1 \in 1..n /\ (j + 1) - 1 = j /\ j <= n /\ j \in 0..n
      OBVIOUS
    <3> DEFINE dic == f[j]
    <3> DEFINE dish == src[j + 1]
    <3> DEFINE next == f[j + 1]
    <3>2. dic \in DishDictionaries /\ dish \in Dishes
      BY <1>6, <3>1
    <3>3. next = AddDish(dic, dish) /\ h[j + 1] = Keep(h[j], dish, S)
      BY <1>3, <2>2, <3>1
    <3>4. SameDishes(dic, h[j], t)
      BY <2>5, <3>1
    <3>5. dish \in S <=> dish.dishType = t
      BY <2>3, <3>1
    <3> HIDE DEF dic, dish, next
    <3>6. /\ DOMAIN next = DOMAIN dic \cup {dish.dishType}
          /\ next[dish.dishType] = IF dish.dishType \in DOMAIN dic
                                   THEN Append(dic[dish.dishType], dish) ELSE <<dish>>
          /\ \A k \in DOMAIN dic : k # dish.dishType => next[k] = dic[k]
      BY <3>2, <3>3, AddDishAdds
    <3>7. CASE dish.dishType = t
      <4>1. h[j + 1] = Append(h[j], dish)
        BY <3>3, <3>5, <3>7 DEF Keep
      <4>2. Append(<<>>, dish) = <<dish>>
        OBVIOUS
      <4>3. SameDishes(next, h[j + 1], t)
        BY <3>4, <3>6, <3>7, <4>1, <4>2 DEF SameDishes
      <4> QED
        BY <4>3 DEF next
    <3>8. CASE dish.dishType # t
      <4>1. h[j + 1] = h[j]
        BY <3>3, <3>5, <3>8 DEF Keep
      <4>2. SameDishes(next, h[j + 1], t)
        BY <3>4, <3>6, <3>8, <4>1 DEF SameDishes
      <4> QED
        BY <4>2 DEF next
    <3> QED
      BY <3>7, <3>8
  <2>6. SameDishes(f[n], h[n], t)
    <3>1. n \in U
      <4> HIDE DEF U
      <4> QED
        BY <2>4, <2>5, Induct
    <3> QED
      BY <3>1
  <2> QED
    BY <2>2, <2>6 DEF S
<1>8. SortedDictionary(src) = f[n] /\ Good(n)
  BY <1>2, <1>3, <1>6
<1> QED
  BY <1>7, <1>8

\* The types that the app knows.
KnownTypes == {"description", "breakfast", "lunch", "dinner"}

LEMMA SortedArrIs ==
    /\ SortedArr \in [1..4 -> KnownTypes]
    /\ \A i, j \in 1..4 : i # j => SortedArr[i] # SortedArr[j]
<1>1. \A i \in 1..4 : i = 1 \/ i = 2 \/ i = 3 \/ i = 4
  OBVIOUS
<1>2. /\ SortedArr[1] = "description" /\ SortedArr[2] = "breakfast"
      /\ SortedArr[3] = "lunch" /\ SortedArr[4] = "dinner"
  BY DEF SortedArr
<1>3. SortedArr \in Seq(KnownTypes) /\ Len(SortedArr) = 4
  BY DEF SortedArr, KnownTypes
<1>4. SortedArr \in [1..4 -> KnownTypes]
  <2>1. \A i \in 1..4 : SortedArr[i] \in KnownTypes
    BY <1>1, <1>2 DEF KnownTypes
  <2>2. SortedArr \in [1..4 -> {SortedArr[i] : i \in 1..4}]
    BY <1>3
  <2> QED
    BY <2>1, <2>2
<1> QED
  BY <1>1, <1>2, <1>4

LEMMA NilUnknown == "nil" \notin KnownTypes
BY DEF KnownTypes

\* A section shows the dishes of its type; one without a name shows none.
LEMMA RowsOfSections ==
    ASSUME NEW dic \in DishDictionaries, NEW known, known = Only(SortedArr, DOMAIN dic),
           known \in Seq(KnownTypes \cap DOMAIN dic), Cardinality(DOMAIN dic) \in Nat
    PROVE  DishRows(dic) = FlattenSeq([section \in 1..Cardinality(DOMAIN dic) |->
                             IF section \in DOMAIN known THEN dic[known[section]] ELSE <<>>])
<1> DEFINE m == Cardinality(DOMAIN dic)
<1> DEFINE visible == [section \in 1..m |->
                       IF section \in DOMAIN known THEN dic[known[section]] ELSE <<>>]
<1> DEFINE Rows(section) == [row \in 1..NumberOfRowsInSection(dic, section) |->
                               InfoOfIndexPath(dic, section, row)]
<1>1. PICK K \in SUBSET DishTypes : dic \in [K -> Seq(Dishes)]
  BY DEF DishDictionaries
<1>2. (1 + m) - 1 = m
  OBVIOUS
<1>3. DishRows(dic) = FlattenSeq([section \in 1..m |-> Rows(section)])
  BY <1>2 DEF DishRows, NumberOfSections
<1>4. ASSUME NEW section \in 1..m PROVE Rows(section) = visible[section]
  <2>1. NameOfSection(dic, section) = IF section \in DOMAIN known THEN known[section] ELSE "nil"
    BY DEF NameOfSection
  <2>2. section # 0
    OBVIOUS
  <2>3. CASE section \in DOMAIN known
    <3> DEFINE key == known[section]
    <3>1. key \in KnownTypes /\ key \in DOMAIN dic
      BY <2>3
    <3>2. key # "nil" /\ dic[key] \in Seq(Dishes)
      BY <1>1, <3>1, NilUnknown
    <3>3. NameOfSection(dic, section) = key
      BY <2>1, <2>3
    <3> DEFINE v == dic[key]
    <3>4. NumberOfRowsInSection(dic, section) = Len(v)
      BY <2>2, <3>2, <3>3 DEF NumberOfRowsInSection
    <3>5. \A row : InfoOfIndexPath(dic, section, row) = v[row]
      BY <3>3 DEF InfoOfIndexPath
    <3>6. Rows(section) = [row \in 1..Len(v) |-> v[row]]
      BY <3>4, <3>5
    <3>7. v = [row \in 1..Len(v) |-> v[row]]
      <4>1. v \in Seq(Dishes)
        BY <3>2
      <4> HIDE DEF v
      <4> QED
        BY <4>1
    <3>8. visible[section] = v
      BY <2>3
    <3> QED
      BY <3>6, <3>7, <3>8
  <2>4. CASE section \notin DOMAIN known
    <3>1. NumberOfRowsInSection(dic, section) = 0
      BY <2>1, <2>2, <2>4 DEF NumberOfRowsInSection
    <3>2. Rows(section) = <<>>
      BY <3>1
    <3> QED
      BY <2>4, <3>2
  <2> QED
    BY <2>3, <2>4
<1>5. [section \in 1..m |-> Rows(section)] = visible
  <2>1. visible = [section \in 1..m |-> visible[section]]
    OBVIOUS
  <2> HIDE DEF Rows, visible
  <2> QED
    BY <1>4, <2>1
<1> QED
  BY <1>3, <1>5

\* What is on screen after i sections.
Flattened(f, seqs, m) ==
    /\ f[0] = <<>>
    /\ \A i \in 1..m : f[i] = f[i - 1] \o seqs[i]
    /\ FlattenSeq(seqs) = f[m]

LEMMA FlattenAny ==
    ASSUME NEW m \in Nat, NEW X, NEW seqs \in [1..m -> Seq(X)]
    PROVE  \E f : Flattened(f, seqs, m)
<1>1. CASE m = 0
  <2>1. seqs = <<>> /\ Len(seqs) = 0
    BY <1>1
  <2>2. FlattenSeq(seqs) = <<>>
    BY <2>1 DEF FlattenSeq
  <2> DEFINE f == [i \in {0} |-> <<>>]
  <2>3. f[0] = <<>> /\ 1..0 = {}
    OBVIOUS
  <2> HIDE DEF f
  <2>4. Flattened(f, seqs, m)
    BY <1>1, <2>2, <2>3 DEF Flattened
  <2> QED
    BY <2>4
<1>2. CASE m # 0
  <2>1. m \in Nat \ {0}
    BY <1>2
  <2>2. \E f : /\ f[0] = <<>>
               /\ \A i \in 1..m : f[i] = f[i - 1] \o seqs[i]
               /\ FlattenSeq(seqs) = f[m]
    BY <2>1, FlattenSteps
  <2> QED
    BY <2>2 DEF Flattened
<1> QED
  BY <1>1, <1>2

\* The known types of the menu, each once: there are sections for all of them.
LEMMA EnoughSections ==
    ASSUME NEW X, NEW D, IsFiniteSet(D), NEW known \in Seq(X \cap D),
           \A x, y \in 1..Len(known) : x # y => known[x] # known[y]
    PROVE  Len(known) <= Cardinality(D)
<1> DEFINE n == Len(known)
<1>1. n \in Nat /\ known \in [1..n -> D]
  OBVIOUS
<1> HIDE DEF n
<1>2. known \in Injection(1..n, D)
  BY <1>1 DEF Injection, IsInjective, n
<1>3. Cardinality(1..n) <= Cardinality(D)
  BY <1>2, FS_Injection
<1>4. Cardinality(1..n) = n
  <2>1. 1 \in Int /\ n \in Int
    BY <1>1
  <2> QED
    BY <1>1, <2>1, FS_Interval
<1> QED
  BY <1>3, <1>4 DEF n

\* The sections, from top to bottom, are the known types in their order; a
\* type without dishes adds nothing.
LEMMA MenuRows ==
    ASSUME NEW src \in Seq(Dishes), NEW dic, dic = SortedDictionary(src)
    PROVE  DishRows(dic) =
               FlattenSeq([i \in DOMAIN SortedArr |-> Only(src, OfType(src, SortedArr[i]))])
<1> DEFINE known == Only(SortedArr, DOMAIN dic)
<1> DEFINE m == Cardinality(DOMAIN dic)
<1> DEFINE visible == [section \in 1..m |->
                       IF section \in DOMAIN known THEN dic[known[section]] ELSE <<>>]
<1> DEFINE meant == [i \in 1..4 |-> Only(src, OfType(src, SortedArr[i]))]
<1>1. Len(src) \in Nat /\ src \in [1..Len(src) -> Dishes]
  OBVIOUS
<1>2. /\ dic \in DishDictionaries /\ IsFiniteSet(DOMAIN dic)
      /\ \A t : SameDishes(dic, Only(src, OfType(src, t)), t)
  BY <1>1, SortedByType
<1>3. PICK K \in SUBSET DishTypes : dic \in [K -> Seq(Dishes)]
  BY <1>2 DEF DishDictionaries
<1>4. /\ known \in Seq(KnownTypes \cap DOMAIN dic)
      /\ \A x, y \in 1..Len(known) : x # y => known[x] # known[y]
      /\ \E c : Picks(known, c, SortedArr, 4, DOMAIN dic)
  <2>1. 4 \in Nat
    OBVIOUS
  <2> QED
    BY <2>1, SortedArrIs, OnlyPicks
<1>5. m \in Nat
  BY <1>2, FS_CardinalityType
<1> HIDE DEF known
<1>6. Len(known) <= m /\ Len(known) \in Nat
  <2> DEFINE D == DOMAIN dic
  <2>1. /\ IsFiniteSet(D) /\ known \in Seq(KnownTypes \cap D)
        /\ \A x, y \in 1..Len(known) : x # y => known[x] # known[y]
    BY <1>2, <1>4
  <2> HIDE DEF D
  <2>2. Len(known) <= Cardinality(D)
    BY ONLY <2>1, EnoughSections
  <2>3. Len(known) \in Nat
    BY <2>1
  <2> QED
    BY <2>2, <2>3 DEF D
<1>7. DishRows(dic) = FlattenSeq(visible)
  BY <1>2, <1>4, <1>5, RowsOfSections DEF known
<1> HIDE DEF m
<1>8. PICK c : Picks(known, c, SortedArr, 4, DOMAIN dic)
  BY <1>4
<1>9. \A x \in 1..m : visible[x] = IF x \in 1..Len(known) THEN dic[known[x]] ELSE <<>>
  BY <1>4
<1>10. visible \in [1..m -> Seq(Dishes)]
  <2>1. \A x \in 1..Len(known) : known[x] \in DOMAIN dic /\ dic[known[x]] \in Seq(Dishes)
    BY <1>3, <1>4
  <2>2. \A x \in 1..m : visible[x] \in Seq(Dishes)
    BY <1>9, <2>1
  <2> QED
    BY <2>2
<1>11. ASSUME NEW i \in 1..4
       PROVE  /\ meant[i] = IF SortedArr[i] \in DOMAIN dic THEN dic[SortedArr[i]] ELSE <<>>
              /\ meant[i] \in Seq(Dishes)
  <2> DEFINE t == SortedArr[i]
  <2>1. meant[i] = Only(src, OfType(src, t))
    OBVIOUS
  <2>2. SameDishes(dic, meant[i], t)
    BY <1>2, <2>1
  <2>3. <<>> \in Seq(Dishes)
    OBVIOUS
  <2> HIDE DEF meant, t
  <2>4. meant[i] = IF t \in DOMAIN dic THEN dic[t] ELSE <<>>
    BY <2>2 DEF SameDishes
  <2>5. t \in DOMAIN dic => dic[t] \in Seq(Dishes)
    BY <1>3
  <2> QED
    BY <2>3, <2>4, <2>5 DEF t
<1>12. meant \in [1..4 -> Seq(Dishes)]
  BY <1>11
<1> HIDE DEF visible
<1>13. PICK f : Flattened(f, visible, m)
  BY <1>5, <1>10, FlattenAny
<1>14. f[0] = <<>> /\ (\A x \in 1..m : f[x] = f[x - 1] \o visible[x]) /\ FlattenSeq(visible) = f[m]
  BY <1>13 DEF Flattened
<1> HIDE DEF meant
<1>15. PICK g : Flattened(g, meant, 4)
  <2>1. 4 \in Nat
    OBVIOUS
  <2> QED
    BY <1>12, <2>1, FlattenAny
<1>16. g[0] = <<>> /\ (\A i \in 1..4 : g[i] = g[i - 1] \o meant[i]) /\ FlattenSeq(meant) = g[4]
  BY <1>15 DEF Flattened
\* f is a sequence of dishes, and the sections without a name leave it alone.
<1> DEFINE T == {x \in Nat : x <= m => f[x] \in Seq(Dishes)
                                       /\ (x >= Len(known) => f[x] = f[Len(known)])}
<1>17. \A x \in 0..m : f[x] \in Seq(Dishes) /\ (x >= Len(known) => f[x] = f[Len(known)])
  <2>1. 0 \in T
    <3>1. f[0] \in Seq(Dishes)
      BY <1>14
    <3>2. 0 >= Len(known) => Len(known) = 0
      BY <1>6
    <3> QED
      BY <3>1, <3>2
  <2>2. ASSUME NEW x \in Nat, x \in T PROVE x + 1 \in T
    <3> SUFFICES ASSUME x + 1 <= m
                 PROVE  f[x + 1] \in Seq(Dishes)
                        /\ (x + 1 >= Len(known) => f[x + 1] = f[Len(known)])
      OBVIOUS
    <3>1. x + 1 \in 1..m /\ (x + 1) - 1 = x /\ x <= m
      BY <1>5
    <3>2. f[x] \in Seq(Dishes) /\ (x >= Len(known) => f[x] = f[Len(known)])
      BY <2>2, <3>1
    <3>3. f[x + 1] = f[x] \o visible[x + 1] /\ visible[x + 1] \in Seq(Dishes)
      BY <1>10, <1>14, <3>1
    <3>4. f[x + 1] \in Seq(Dishes)
      BY <3>2, <3>3
    <3>5. ASSUME x + 1 >= Len(known) PROVE f[x + 1] = f[Len(known)]
      <4>1. CASE x + 1 = Len(known)
        BY <4>1
      <4>2. CASE x + 1 # Len(known)
        <5>1. x >= Len(known) /\ x + 1 \notin 1..Len(known)
          BY <1>6, <3>5, <4>2
        <5>2. visible[x + 1] = <<>>
          BY <1>9, <3>1, <5>1
        <5> QED
          BY <3>2, <3>3, <5>1, <5>2
      <4> QED
        BY <4>1, <4>2
    <3> QED
      BY <3>4, <3>5
  <2>3. Nat \subseteq T
    <3> HIDE DEF T
    <3> QED
      BY <2>1, <2>2, Induct
  <2> QED
    BY <1>5, <2>3
<1>18. /\ c \in [0..4 -> Nat] /\ c[0] = 0 /\ c[4] = Len(known)
       /\ \A j \in 0..4 : c[j] <= Len(known)
       /\ \A j \in 1..4 : IF SortedArr[j] \in DOMAIN dic
                          THEN c[j] = c[j - 1] + 1 /\ known[c[j]] = SortedArr[j]
                          ELSE c[j] = c[j - 1]
  BY <1>8 DEF Picks
<1>19. ASSUME NEW i \in 1..4, g[i - 1] = f[c[i - 1]] PROVE g[i] = f[c[i]]
  <2> DEFINE k == c[i - 1]
  <2>1. i - 1 \in 0..4 /\ i \in 0..4
    OBVIOUS
  <2>2. k \in 0..m /\ c[i] \in Nat /\ c[i] <= Len(known)
    BY <1>5, <1>6, <1>18, <2>1
  <2>3. f[k] \in Seq(Dishes)
    BY <1>17, <2>2
  <2>4. g[i] = f[k] \o meant[i]
    BY <1>16, <1>19
  <2>5. CASE SortedArr[i] \in DOMAIN dic
    <3>1. c[i] = k + 1 /\ known[c[i]] = SortedArr[i]
      BY <1>18, <2>5
    <3> HIDE DEF k
    <3>2. c[i] \in 1..Len(known) /\ c[i] \in 1..m /\ c[i] - 1 = k
      BY <1>5, <1>6, <2>2, <3>1
    <3>3. visible[c[i]] = dic[SortedArr[i]]
      BY <1>9, <3>1, <3>2
    <3>4. f[c[i]] = f[k] \o visible[c[i]]
      BY <1>14, <3>2
    <3> QED
      BY <1>11, <2>4, <2>5, <3>3, <3>4
  <2>6. CASE SortedArr[i] \notin DOMAIN dic
    <3>1. c[i] = k /\ meant[i] = <<>>
      BY <1>11, <1>18, <2>6
    <3>2. f[k] \o <<>> = f[k]
      BY <2>3
    <3> HIDE DEF k
    <3> QED
      BY <2>4, <3>1, <3>2
  <2> QED
    BY <2>5, <2>6
<1>20. g[4] = f[Len(known)]
  <2>1. g[0] = f[c[0]]
    BY <1>14, <1>16, <1>18
  <2>2. g[1] = f[c[1]]
    BY <1>19, <2>1
  <2>3. g[2] = f[c[2]]
    BY <1>19, <2>2
  <2>4. g[3] = f[c[3]]
    BY <1>19, <2>3
  <2>5. g[4] = f[c[4]]
    BY <1>19, <2>4
  <2> QED
    BY <1>18, <2>5
<1>21. f[m] = f[Len(known)]
  BY <1>5, <1>6, <1>17
<1>22. FlattenSeq(visible) = FlattenSeq(meant)
  BY <1>14, <1>16, <1>20, <1>21
<1>23. DOMAIN SortedArr = 1..4
  BY SortedArrIs
<1> QED
  BY <1>7, <1>22, <1>23 DEF meant

MenuOK == srcList \in Seq(Dishes) /\ dishDic = SortedDictionary(srcList)

LEMMA MenuOKRows == MenuOK => RowsAreDishes
<1> SUFFICES ASSUME MenuOK PROVE RowsAreDishes
  OBVIOUS
<1>1. DishRows(dishDic) =
          FlattenSeq([i \in DOMAIN SortedArr |-> Only(srcList, OfType(srcList, SortedArr[i]))])
  BY MenuRows DEF MenuOK
<1> QED
  BY <1>1 DEF RowsAreDishes, OfType

\* From top to bottom the table shows the dishes of each type that the app
\* knows, once and in the order of the menu (OrderDishesTVC.m, getNameofSection
\* and getNumberofSection), for menus of any length with any types.
THEOREM RowsAreDishesAlways == ListsSpec => []RowsAreDishes
<1>1. ListsInit => MenuOK
  <2> SUFFICES ASSUME ListsInit PROVE MenuOK
    OBVIOUS
  <2>1. srcList = <<>> /\ dishDic = SortedDictionary(<<>>)
    BY DEF ListsInit
  <2>2. <<>> \in Seq(Dishes)
    OBVIOUS
  <2> QED
    BY <2>1, <2>2 DEF MenuOK
<1>2. MenuOK /\ [Appear \/ MenuShown]_listsVars => MenuOK'
  <2> SUFFICES ASSUME MenuOK, [Appear \/ MenuShown]_listsVars PROVE MenuOK'
    OBVIOUS
  <2>1. CASE Appear
    BY <2>1 DEF Appear, MenuOK
  <2>2. CASE MenuShown
    <3>1. PICK t \in DishTypes :
              srcList' = Append(srcList, [dishID |-> Len(srcList) + 1, dishType |-> t])
      BY <2>2 DEF MenuShown
    <3>2. srcList \in Seq(Dishes) /\ Len(srcList) + 1 \in Nat
      BY DEF MenuOK
    <3>3. [dishID |-> Len(srcList) + 1, dishType |-> t] \in Dishes
      BY <3>2 DEF Dishes
    <3>4. srcList' \in Seq(Dishes)
      BY <3>1, <3>2, <3>3
    <3>5. dishDic' = SortedDictionary(srcList')
      BY <2>2 DEF MenuShown
    <3> QED
      BY <3>4, <3>5 DEF MenuOK
  <2>3. CASE UNCHANGED listsVars
    BY <2>3 DEF listsVars, MenuOK
  <2> QED
    BY <2>1, <2>2, <2>3
<1> QED
  BY <1>1, <1>2, MenuOKRows, PTL DEF ListsSpec

-----------------------------------------------------------------------------
(* The screens of LocationChoice.                                          *)

LEMMA FieldIs == Field(0) = "nation" /\ Field(1) = "state" /\ Field(2) = "city"
BY DEF Field

LEMMA RearrangedElements ==
    ASSUME NEW n \in Nat, NEW k, NEW l, Rearranged(k, l, n)
    PROVE  \A i \in 1..n : \E j \in 1..n : k[i] = l[j]
BY DEF Rearranged

\* What a dictionary of names has: sections of them, and rows that are them.
LEMMA DictionaryOf ==
    ASSUME NEW names \in SUBSET Nat, IsFiniteSet(names), names # {},
           NEW dic, dic = ConvertArraytoDictionary(OrderedNames(names))
    PROVE  /\ DOMAIN dic \in SUBSET Nat /\ IsFiniteSet(DOMAIN dic) /\ DOMAIN dic # {}
           /\ \A k \in DOMAIN dic : \A i \in DOMAIN dic[k] : dic[k][i] \in names
           /\ ToSet(DisplayedRows(dic)) \subseteq names
<1> DEFINE n == Cardinality(names)
<1> DEFINE l == OrderedNames(names)
<1>1. l \in SetToSeqs(names)
  BY NamesInOrder
<1> HIDE DEF l
<1>2. n \in Nat /\ l \in [1..n -> names]
  BY <1>1, EnumeratesAll DEF Enumerates
<1>3. n # 0
  BY FS_EmptySet
<1>4. l \in [1..n -> Nat] /\ n \in Nat \ {0}
  BY <1>2, <1>3
<1> HIDE DEF n
<1>5. PICK s : Sorted(s, n) /\ Rearranged(s, l, n) /\ Sections(dic, s, n)
  BY <1>4, ConvertCuts DEF l
<1>6. s \in [1..n -> Nat]
  BY <1>5 DEF Sorted
<1>7. \A j \in 1..n : s[j] \in names
  <2>1. \A j \in 1..n : \E i \in 1..n : s[j] = l[i]
    BY <1>2, <1>5, RearrangedElements
  <2> QED
    BY <1>2, <2>1
<1>8. DOMAIN dic \in SUBSET Nat /\ IsFiniteSet(DOMAIN dic) /\ DOMAIN dic # {}
  BY <1>4, <1>5, <1>6, LettersFinite
<1>9. ASSUME NEW k \in DOMAIN dic, NEW i \in DOMAIN dic[k] PROVE dic[k][i] \in names
  <2>1. IsSection(dic[k], k, s, n)
    BY <1>5 DEF Sections
  <2>2. \E j \in 1..n : dic[k][i] = s[j]
    BY <1>2, <1>6, <2>1, SectionType
  <2> QED
    BY <1>7, <2>2
<1>10. ToSet(DisplayedRows(dic)) \subseteq names
  <2> DEFINE rows == DisplayedRows(dic)
  <2>1. rows \in [1..n -> Nat] /\ Rearranged(rows, s, n)
    BY <1>4, <1>5, SectionRows
  <2> HIDE DEF rows
  <2>2. \A i \in 1..n : \E j \in 1..n : rows[i] = s[j]
    <3>1. n \in Nat /\ Rearranged(rows, s, n)
      BY <1>2, <2>1
    <3> QED
      BY ONLY <3>1, RearrangedElements
  <2>3. ToSet(rows) \subseteq names
    BY <1>7, <2>1, <2>2 DEF ToSet
  <2> QED
    BY <2>3 DEF rows
<1> QED
  BY <1>8, <1>9, <1>10

\* The names for a finite table.
LEMMA SearchType ==
    ASSUME restaurantTable \subseteq Places, IsFiniteSet(restaurantTable),
           NEW t \in 0..2, NEW data
    PROVE  /\ SearchDataBase(t, data) \in SUBSET Nat
           /\ IsFiniteSet(SearchDataBase(t, data))
           /\ SearchDataBase(t, data) \subseteq AllNames
<1> DEFINE rows == {p \in restaurantTable : /\ t >= 1 => p.nation = data.nation
                                            /\ t = 2 => p.state = data.state}
<1> DEFINE f == [p \in rows |-> p[Field(t)]]
<1>1. SearchDataBase(t, data) = {p[Field(t)] : p \in rows}
  BY DEF SearchDataBase
<1>2. ASSUME NEW p \in rows PROVE p[Field(t)] \in Nat /\ p[Field(t)] \in AllNames
  <2>1. p \in Places /\ p \in [nation : Nat, state : Nat, city : Nat]
    BY LocationChoiceAssumption
  <2>2. p[Field(t)] = p.nation \/ p[Field(t)] = p.state \/ p[Field(t)] = p.city
    BY FieldIs
  <2> QED
    BY <2>1, <2>2 DEF AllNames
<1>3. IsFiniteSet(rows)
  BY FS_Subset
<1>4. f \in Surjection(rows, SearchDataBase(t, data))
  <2> HIDE DEF rows
  <2> QED
    BY <1>1 DEF Surjection
<1>5. IsFiniteSet(SearchDataBase(t, data))
  <2> HIDE DEF rows, f
  <2> QED
    BY <1>3, <1>4, FS_Surjection
<1> HIDE DEF rows
<1> QED
  BY <1>1, <1>2, <1>5

\* The inductive invariant.  On top of the invariants of the runs: the table
\* is finite; the dictionary that rows are looked up in was made of names that
\* the table has for the nation and the state of the singleton.
Configurations ==
    [userName : {None}, eMail : {None}, arrTags : {<<>>},
     nation : AllNames \cup {None}, state : AllNames \cup {None}, city : AllNames \cup {None}]

ConfigurationsOK ==
    /\ userData \in Configurations
    /\ localFile = None \/ localFile \in Configurations

ScreenOK ==
    /\ top \in {"list", "target", "choose"} /\ nType \in 0..2
    /\ IsInjective(allKeys) /\ ToSet(allKeys) = DOMAIN sortedDic
    /\ top = "choose" => sortedDic # << >> /\ shown # << >>

TableOK ==
    /\ restaurantTable \subseteq Places /\ IsFiniteSet(restaurantTable)
    /\ launches \in 1..MaxLaunches

DictionaryOffers ==
    top = "choose" =>
        \E names \in SUBSET SearchDataBase(nType, userData) :
            names # {} /\ sortedDic = ConvertArraytoDictionary(OrderedNames(names))

IInv == ConfigurationsOK /\ ScreenOK /\ TableOK /\ DictionaryOffers /\ ChosenCityExists

LEMMA FieldsOK ==
    ASSUME NEW data \in Configurations, NEW t \in 0..2
    PROVE  data[Field(t)] \in AllNames \cup {None}
<1>1. Field(t) = "nation" \/ Field(t) = "state" \/ Field(t) = "city"
  BY FieldIs
<1> QED
  BY <1>1 DEF Configurations

\* data after its field t was set to v.
Changed(data, t, v) == [data EXCEPT ![Field(t)] = v]

LEMMA SetFieldOK ==
    ASSUME NEW data \in Configurations, NEW t \in 0..2, NEW v \in AllNames
    PROVE  /\ Changed(data, t, v) \in Configurations
           /\ Changed(data, t, v)[Field(t)] = v
           /\ t >= 1 => Changed(data, t, v).nation = data.nation
           /\ t = 2 => Changed(data, t, v).state = data.state
<1>1. t = 0 \/ t = 1 \/ t = 2
  OBVIOUS
<1>2. CASE t = 0
  BY <1>2, FieldIs DEF Changed, Configurations
<1>3. CASE t = 1
  BY <1>3, FieldIs DEF Changed, Configurations
<1>4. CASE t = 2
  BY <1>4, FieldIs DEF Changed, Configurations
<1> QED
  BY <1>1, <1>2, <1>3, <1>4

LEMMA TypeFromIInv == IInv => TypeOK
BY FieldsOK DEF IInv, ConfigurationsOK, ScreenOK, TableOK, TypeOK

LEMMA InitInv == Init => IInv
<1> SUFFICES ASSUME Init PROVE IInv
  OBVIOUS
<1>1. ConfigurationsOK
  <2>1. NoConfiguration \in Configurations
    BY DEF NoConfiguration, Configurations
  <2>2. ASSUME NEW p \in SavedPlaces PROVE Configuration(p) \in Configurations
    <3>1. {p.nation, p.state, p.city} \in {{r.nation, r.state, r.city} : r \in Places \cup SavedPlaces}
      OBVIOUS
    <3>2. p.nation \in AllNames /\ p.state \in AllNames /\ p.city \in AllNames
      BY <3>1 DEF AllNames
    <3> QED
      BY <3>2 DEF Configuration, NoConfiguration, Configurations
  <2> QED
    BY <2>1, <2>2 DEF Init, ConfigurationsOK
<1>2. ScreenOK
  BY DEF Init, ScreenOK, IsInjective, ToSet
<1>3. TableOK
  BY FS_EmptySet, LocationChoiceAssumption DEF Init, TableOK
<1>4. DictionaryOffers /\ ChosenCityExists
  BY DEF Init, DictionaryOffers, ChosenCityExists
<1> QED
  BY <1>1, <1>2, <1>3, <1>4 DEF IInv

\* What Display makes of names the table has.
LEMMA DisplayOK ==
    ASSUME TableOK, NEW t \in 0..2, NEW data, Display(SearchDataBase(t, data))
    PROVE  /\ sortedDic' = ConvertArraytoDictionary(OrderedNames(SearchDataBase(t, data)))
           /\ SearchDataBase(t, data) # {}
           /\ DOMAIN sortedDic' \in SUBSET Nat
           /\ IsFiniteSet(DOMAIN sortedDic') /\ DOMAIN sortedDic' # {}
           /\ IsInjective(allKeys') /\ ToSet(allKeys') = DOMAIN sortedDic'
<1> DEFINE names == SearchDataBase(t, data)
<1>1. names \in SUBSET Nat /\ IsFiniteSet(names)
  BY SearchType DEF TableOK
<1>2. /\ names # {}
      /\ sortedDic' = ConvertArraytoDictionary(OrderedNames(names))
      /\ allKeys' \in SetToSeqs(DOMAIN sortedDic')
  BY DEF Display
<1> HIDE DEF names
<1>3. DOMAIN sortedDic' \in SUBSET Nat /\ IsFiniteSet(DOMAIN sortedDic') /\ DOMAIN sortedDic' # {}
  BY <1>1, <1>2, DictionaryOf
<1> DEFINE K == DOMAIN sortedDic'
<1> DEFINE n == Cardinality(K)
<1>4. /\ n \in Nat
      /\ allKeys' \in [1..n -> K]
      /\ \A i, j \in 1..n : i # j => allKeys'[i] # allKeys'[j]
      /\ \A x \in K : \E i \in 1..n : allKeys'[i] = x
  BY <1>2, <1>3, EnumeratesAll DEF Enumerates
<1> HIDE DEF n
<1>5. IsInjective(allKeys') /\ ToSet(allKeys') = K
  BY <1>4 DEF IsInjective, ToSet
<1> QED
  BY <1>2, <1>3, <1>5 DEF names

LEMMA ReloadNotEmpty ==
    ASSUME NEW dic, DOMAIN dic \in SUBSET Nat, IsFiniteSet(DOMAIN dic), DOMAIN dic # {},
           ReloadData(dic)
    PROVE  shown' # << >>
<1> DEFINE keys == SortKeys(dic)
<1> DEFINE n == Cardinality(DOMAIN dic)
<1>1. keys \in SetToSeqs(DOMAIN dic)
  BY KeysInOrder
<1> HIDE DEF keys
<1>2. n \in Nat /\ DOMAIN keys = 1..n
  BY <1>1, EnumeratesAll DEF Enumerates
<1>3. n # 0
  BY FS_EmptySet
<1>4. 1 \in DOMAIN keys
  BY <1>2, <1>3
<1>5. shown' = [x \in DOMAIN keys |-> dic[keys[x]]]
  BY DEF ReloadData, keys
<1>6. 1 \in DOMAIN shown'
  BY <1>4, <1>5
<1> QED
  BY <1>6

LEMMA NewProcessInv == IInv /\ NewProcess => IInv'
<1> SUFFICES ASSUME IInv, NewProcess PROVE IInv'
  OBVIOUS
<1> USE DEF IInv
<1>1. ConfigurationsOK'
  <2>1. NoConfiguration \in Configurations
    BY DEF NoConfiguration, Configurations
  <2> QED
    BY <2>1 DEF NewProcess, GetInfofromLocalFile, ConfigurationsOK
<1>2. ScreenOK'
  BY DEF NewProcess, ScreenOK, IsInjective, ToSet
<1>3. TableOK'
  BY LocationChoiceAssumption DEF NewProcess, TableOK
<1>4. DictionaryOffers' /\ ChosenCityExists'
  BY DEF NewProcess, DictionaryOffers, ChosenCityExists
<1> QED
  BY <1>1, <1>2, <1>3, <1>4

LEMMA OpenChoiceInv == IInv /\ OpenChoice => IInv'
<1> SUFFICES ASSUME IInv, OpenChoice PROVE IInv'
  OBVIOUS
<1>1. PICK t \in 0..2 : nType' = t /\ Display(SearchDataBase(t, userData))
  BY DEF OpenChoice
<1>2. /\ UNCHANGED <<userData, localFile, restaurantTable, launches, chosen>>
      /\ top' = "choose" /\ ReloadData(sortedDic')
  BY DEF OpenChoice, configVars
<1>3. TableOK /\ ConfigurationsOK /\ ChosenCityExists
  BY DEF IInv
<1>4. /\ sortedDic' = ConvertArraytoDictionary(OrderedNames(SearchDataBase(t, userData)))
      /\ SearchDataBase(t, userData) # {}
      /\ DOMAIN sortedDic' \in SUBSET Nat
      /\ IsFiniteSet(DOMAIN sortedDic') /\ DOMAIN sortedDic' # {}
      /\ IsInjective(allKeys') /\ ToSet(allKeys') = DOMAIN sortedDic'
  BY <1>1, <1>3, DisplayOK
<1>5. sortedDic' # << >> /\ shown' # << >>
  BY <1>2, <1>4, ReloadNotEmpty
<1>6. ScreenOK'
  BY <1>1, <1>2, <1>4, <1>5 DEF ScreenOK
<1>7. DictionaryOffers'
  <2>1. SearchDataBase(nType, userData)' = SearchDataBase(t, userData)
    BY <1>1, <1>2 DEF SearchDataBase
  <2> QED
    BY <1>4, <2>1 DEF DictionaryOffers
<1>8. TableOK' /\ ConfigurationsOK' /\ ChosenCityExists'
  BY <1>2, <1>3 DEF TableOK, ConfigurationsOK, ChosenCityExists
<1> QED
  BY <1>6, <1>7, <1>8 DEF IInv

\* The value a touched row selects is a name the table has.
LEMMA RowValueOffered ==
    ASSUME IInv, top = "choose", NEW sr \in RowsWithValue
    PROVE  RowValue(sr[1], sr[2]) \in SearchDataBase(nType, userData)
<1>1. PICK names \in SUBSET SearchDataBase(nType, userData) :
          names # {} /\ sortedDic = ConvertArraytoDictionary(OrderedNames(names))
  BY DEF IInv, DictionaryOffers
<1>2. names \in SUBSET Nat /\ IsFiniteSet(names)
  <2>1. /\ SearchDataBase(nType, userData) \in SUBSET Nat
        /\ IsFiniteSet(SearchDataBase(nType, userData))
    BY SearchType DEF IInv, TableOK, ScreenOK
  <2> QED
    BY <2>1, FS_Subset
<1>3. \A k \in DOMAIN sortedDic : \A i \in DOMAIN sortedDic[k] : sortedDic[k][i] \in names
  BY <1>1, <1>2, DictionaryOf
<1>4. sr[1] \in DOMAIN allKeys /\ sr[2] \in DOMAIN sortedDic[allKeys[sr[1]]]
  BY DEF RowsWithValue
<1>5. allKeys[sr[1]] \in DOMAIN sortedDic
  BY <1>4 DEF IInv, ScreenOK, ToSet
<1> QED
  BY <1>3, <1>4, <1>5 DEF RowValue

LEMMA SelectRowInv == IInv /\ SelectRow => IInv'
<1> SUFFICES ASSUME IInv, SelectRow PROVE IInv'
  OBVIOUS
<1>1. PICK sr \in RowsWithValue :
          /\ SetField(Field(nType), RowValue(sr[1], sr[2]))
          /\ chosen' = [nType |-> nType, row |-> shown[sr[1]][sr[2]]]
  BY DEF SelectRow
<1>2. /\ UNCHANGED <<localFile, top, nType, sortedDic, allKeys, restaurantTable, launches>>
      /\ top = "choose" /\ ReloadData(sortedDic)
  BY DEF SelectRow, dataVars
<1>3. ConfigurationsOK /\ ScreenOK /\ TableOK
  BY DEF IInv
<1> DEFINE v == RowValue(sr[1], sr[2])
<1>4. v \in SearchDataBase(nType, userData)
  BY <1>2, RowValueOffered
<1>5. userData' = Changed(userData, nType, v)
  BY <1>1 DEF SetField, Changed
<1> HIDE DEF v
<1>6. v \in AllNames /\ nType \in 0..2 /\ userData \in Configurations
  BY <1>3, <1>4, SearchType DEF TableOK, ScreenOK, ConfigurationsOK
<1>7. /\ userData' \in Configurations
      /\ userData'[Field(nType)] = v
      /\ nType >= 1 => userData'.nation = userData.nation
      /\ nType = 2 => userData'.state = userData.state
  BY <1>5, <1>6, SetFieldOK
<1>8. SearchDataBase(nType, userData)' = SearchDataBase(nType, userData)
  BY <1>2, <1>7 DEF SearchDataBase
<1>9. PICK names \in SUBSET SearchDataBase(nType, userData) :
          names # {} /\ sortedDic = ConvertArraytoDictionary(OrderedNames(names))
  BY <1>2 DEF IInv, DictionaryOffers
<1>10. DictionaryOffers'
  BY <1>2, <1>8, <1>9 DEF DictionaryOffers
<1>11. shown' # << >>
  <2>1. /\ SearchDataBase(nType, userData) \in SUBSET Nat
        /\ IsFiniteSet(SearchDataBase(nType, userData))
    BY <1>3, <1>6, SearchType DEF TableOK
  <2>2. names \in SUBSET Nat /\ IsFiniteSet(names)
    BY <2>1, FS_Subset
  <2>3. DOMAIN sortedDic \in SUBSET Nat /\ IsFiniteSet(DOMAIN sortedDic) /\ DOMAIN sortedDic # {}
    BY <1>9, <2>2, DictionaryOf
  <2> QED
    BY <1>2, <2>3, ReloadNotEmpty
<1>12. ScreenOK' /\ TableOK' /\ ConfigurationsOK'
  BY <1>2, <1>3, <1>7, <1>11 DEF ScreenOK, TableOK, ConfigurationsOK
<1>13. ChosenCityExists'
  <2> SUFFICES ASSUME chosen'.nType = 2
               PROVE  [nation |-> userData'.nation, state |-> userData'.state,
                       city |-> userData'.city] \in restaurantTable'
    BY DEF ChosenCityExists
  <2>1. nType = 2
    BY <1>1
  <2>2. PICK p \in restaurantTable :
            p[Field(2)] = v /\ p.nation = userData.nation /\ p.state = userData.state
    BY <1>4, <2>1 DEF SearchDataBase
  <2>3. p \in [nation : Nat, state : Nat, city : Nat]
    BY <1>3, LocationChoiceAssumption DEF TableOK
  <2>4. userData'.city = v /\ p.city = v
    BY <1>7, <2>1, <2>2, FieldIs
  <2>5. p = [nation |-> userData'.nation, state |-> userData'.state, city |-> userData'.city]
    BY <1>7, <2>1, <2>2, <2>3, <2>4
  <2> QED
    BY <1>2, <2>5
<1> QED
  BY <1>10, <1>12, <1>13 DEF IInv

\* The tab is shown again, with the data it had or with those of the file.
LEMMA ReappearInv ==
    ASSUME IInv, Reappear(userData'), ConfigurationsOK', ChosenCityExists',
           UNCHANGED <<top, nType, shown, restaurantTable, launches>>
    PROVE  IInv'
<1>1. ScreenOK /\ TableOK
  BY DEF IInv
<1>2. TableOK'
  BY <1>1 DEF TableOK
<1>3. CASE top = "choose"
  <2>1. Display(SearchDataBase(nType, userData')) /\ nType \in 0..2
    BY <1>1, <1>3 DEF Reappear, ScreenOK
  <2>2. /\ sortedDic' = ConvertArraytoDictionary(OrderedNames(SearchDataBase(nType, userData')))
        /\ SearchDataBase(nType, userData') # {}
        /\ DOMAIN sortedDic' # {}
        /\ IsInjective(allKeys') /\ ToSet(allKeys') = DOMAIN sortedDic'
    BY <1>1, <2>1, DisplayOK
  <2>3. sortedDic' # << >>
    BY <2>2
  <2>4. ScreenOK'
    BY <1>1, <1>3, <2>2, <2>3 DEF ScreenOK
  <2>5. SearchDataBase(nType, userData)' = SearchDataBase(nType, userData')
    BY DEF SearchDataBase
  <2>6. DictionaryOffers'
    BY <2>2, <2>5 DEF DictionaryOffers
  <2> QED
    BY <1>2, <2>4, <2>6 DEF IInv
<1>4. CASE top # "choose"
  <2>1. UNCHANGED <<sortedDic, allKeys>>
    BY <1>4 DEF Reappear, dataVars
  <2>2. ScreenOK'
    BY <1>1, <1>4, <2>1 DEF ScreenOK
  <2>3. DictionaryOffers'
    BY <1>4 DEF DictionaryOffers
  <2> QED
    BY <1>2, <2>2, <2>3 DEF IInv
<1> QED
  BY <1>3, <1>4

LEMMA ReturnFromTabInv == IInv /\ ReturnFromTab => IInv'
<1> SUFFICES ASSUME IInv, ReturnFromTab PROVE IInv'
  OBVIOUS
<1>1. /\ Reappear(userData) /\ userData' = userData
      /\ UNCHANGED <<localFile, top, nType, shown, restaurantTable, launches, chosen>>
  BY DEF ReturnFromTab, configVars
<1>2. ConfigurationsOK' /\ ChosenCityExists'
  BY <1>1 DEF IInv, ConfigurationsOK, ChosenCityExists
<1> QED
  BY <1>1, <1>2, ReappearInv

LEMMA ShowConfigurationInv == IInv /\ ShowConfiguration => IInv'
<1> SUFFICES ASSUME IInv, ShowConfiguration PROVE IInv'
  OBVIOUS
<1>1. /\ localFile # None /\ userData' = localFile /\ chosen' = None
      /\ Reappear(localFile)
      /\ UNCHANGED <<localFile, top, nType, shown, restaurantTable, launches>>
  BY DEF ShowConfiguration, GetInfofromLocalFile
<1>2. ConfigurationsOK' /\ ChosenCityExists'
  BY <1>1 DEF IInv, ConfigurationsOK, ChosenCityExists
<1> QED
  BY <1>1, <1>2, ReappearInv

LEMMA StoreRestaurantInv == IInv /\ StoreRestaurant => IInv'
<1> SUFFICES ASSUME IInv, StoreRestaurant PROVE IInv'
  OBVIOUS
<1>1. PICK p \in Places \ restaurantTable : restaurantTable' = restaurantTable \cup {p}
  BY DEF StoreRestaurant
<1>2. UNCHANGED <<userData, localFile, top, nType, sortedDic, allKeys, shown, launches, chosen>>
  BY DEF StoreRestaurant, configVars, screenVars, dataVars
<1>3. ConfigurationsOK' /\ ScreenOK'
  BY <1>2 DEF IInv, ConfigurationsOK, ScreenOK
<1>4. TableOK'
  BY <1>1, <1>2, FS_AddElement DEF IInv, TableOK
<1>5. SearchDataBase(nType, userData) \subseteq SearchDataBase(nType, userData)'
  BY <1>1, <1>2 DEF SearchDataBase
<1>6. DictionaryOffers'
  <2>1. CASE top = "choose"
    <3>1. PICK names \in SUBSET SearchDataBase(nType, userData) :
              names # {} /\ sortedDic = ConvertArraytoDictionary(OrderedNames(names))
      BY <2>1 DEF IInv, DictionaryOffers
    <3> QED
      BY <1>2, <1>5, <3>1 DEF DictionaryOffers
  <2>2. CASE top # "choose"
    BY <1>2, <2>2 DEF DictionaryOffers
  <2> QED
    BY <2>1, <2>2
<1>7. ChosenCityExists'
  BY <1>1, <1>2 DEF IInv, ChosenCityExists
<1> QED
  BY <1>3, <1>4, <1>6, <1>7 DEF IInv

\* Every action keeps the invariant.
LEMMA StepInv == IInv /\ [Next]_vars => IInv'
<1> SUFFICES ASSUME IInv, [Next]_vars PROVE IInv'
  OBVIOUS
<1>1. CASE OpenTarget
  BY <1>1 DEF OpenTarget, IInv, configVars, dataVars, ConfigurationsOK, ScreenOK, TableOK,
              DictionaryOffers, ChosenCityExists
<1>2. CASE OpenChoice
  BY <1>2, OpenChoiceInv
<1>3. CASE OpenEmptyChoice
  BY <1>3, NewProcessInv DEF OpenEmptyChoice
<1>4. CASE SelectRow
  BY <1>4, SelectRowInv
<1>5. CASE RowRaises
  BY <1>5, NewProcessInv DEF RowRaises
<1>6. CASE NavigateBack \/ PopToRoot
  BY <1>6 DEF NavigateBack, PopToRoot, IInv, configVars, dataVars, ConfigurationsOK, ScreenOK, TableOK,
              DictionaryOffers, ChosenCityExists
<1>7. CASE ShowConfiguration
  BY <1>7, ShowConfigurationInv
<1>8. CASE ShowConfigurationRaises
  BY <1>8, NewProcessInv DEF ShowConfigurationRaises
<1>9. CASE StoreRestaurant
  BY <1>9, StoreRestaurantInv
<1>10. CASE Relaunch
  BY <1>10, NewProcessInv DEF Relaunch
<1>11. CASE ReturnFromTab
  BY <1>11, ReturnFromTabInv
<1>12. CASE UNCHANGED vars
  BY <1>12 DEF vars, configVars, screenVars, dataVars, IInv, ConfigurationsOK, ScreenOK, TableOK,
               DictionaryOffers, SearchDataBase, ChosenCityExists
<1> QED
  BY <1>1, <1>2, <1>3, <1>4, <1>5, <1>6, <1>7, <1>8, <1>9, <1>10, <1>11, <1>12
  DEF Next

LEMMA OfferedFromIInv == IInv => OfferedExist
<1> SUFFICES ASSUME IInv, top = "choose", NEW x \in ToSet(DisplayedRows(sortedDic))
             PROVE  \E p \in restaurantTable : /\ p[Field(nType)] = x
                                               /\ nType >= 1 => p.nation = userData.nation
                                               /\ nType = 2 => p.state = userData.state
  BY DEF OfferedExist
<1>1. PICK names \in SUBSET SearchDataBase(nType, userData) :
          names # {} /\ sortedDic = ConvertArraytoDictionary(OrderedNames(names))
  BY DEF IInv, DictionaryOffers
<1>2. names \in SUBSET Nat /\ IsFiniteSet(names)
  <2>1. /\ SearchDataBase(nType, userData) \in SUBSET Nat
        /\ IsFiniteSet(SearchDataBase(nType, userData))
    BY SearchType DEF IInv, TableOK, ScreenOK
  <2> QED
    BY <2>1, FS_Subset
<1>3. x \in names
  BY <1>1, <1>2, DictionaryOf
<1> QED
  BY <1>3 DEF SearchDataBase

\* The inductive invariant: types, a dictionary of names that the table has
\* for the fields chosen, and a city that exists.
THEOREM Invariance == Spec => []IInv
BY InitInv, StepInv, PTL DEF Spec

\* The types of all variables in every reachable state, for every table, every
\* saved place and any number of launches.
THEOREM TypeCorrect == Spec => []TypeOK
BY Invariance, TypeFromIInv, PTL

\* Whoever has chosen a city last has chosen a place with restaurants.
THEOREM ChosenCityExistsAlways == Spec => []ChosenCityExists
<1>1. IInv => ChosenCityExists
  BY DEF IInv
<1> QED
  BY <1>1, Invariance, PTL

\* A touched row selects a name the table has for the nation and the state of
\* the singleton; its proof rests on what bubbleSort and
\* convertArraytoDictionary do to every list.
THEOREM OfferedExistAlways == Spec => []OfferedExist
BY Invariance, OfferedFromIInv, PTL
=============================================================================
