--------------------------- MODULE DishMenuProofs ---------------------------
(***************************************************************************)
(* What holds of the menus of the dishes screens, for all restaurants and  *)
(* menus and any number of screens, downloads and launches, checked by     *)
(* TLAPS.                                                                  *)
(***************************************************************************)
EXTENDS DishMenu, Integers, FiniteSetTheorems, WellFoundedInduction, TLAPS

-----------------------------------------------------------------------------
(* Sums.  MapThenSumSet and FoldSeq are functions that take one element    *)
(* after the other from a finite set; what they sum up to is proved by     *)
(* induction, from the fact that the natural numbers are well ordered.     *)

LEMMA Induct ==
    ASSUME NEW T, 0 \in T, \A n \in Nat : n \in T => n + 1 \in T
    PROVE  Nat \subseteq T
<1> DEFINE R == OpToRel(<, Nat)
<1> DEFINE C == Nat \ T
<1>1. IsWellFoundedOn(R, Nat)
  BY NatLessThanWellFounded
<1>2. \A x, y \in Nat : y < x => <<y, x>> \in R
  BY DEF OpToRel
<1>3. SUFFICES ASSUME C # {} PROVE FALSE
  OBVIOUS
<1> HIDE DEF R
<1>4. PICK x \in C : \A y \in C : <<y, x>> \notin R
  <2> HIDE DEF C
  <2>1. C \subseteq Nat
    BY DEF C
  <2> QED
    BY <1>1, <1>3, <2>1, WFMin
<1>5. x \in Nat /\ x # 0
  BY <1>4
<1>6. x - 1 \in Nat /\ x - 1 < x /\ (x - 1) + 1 = x
  BY <1>5
<1>7. x - 1 \notin C
  BY <1>2, <1>4, <1>5, <1>6
<1> QED
  BY <1>4, <1>5, <1>6, <1>7

\* ch chooses an element of each subset of D that is not empty.
Chooses(ch, D) == \A t \in SUBSET D : t # {} => ch[t] \in t

\* A recursion that takes one element after the other from a finite set, in
\* the order in which ch chooses them.
Solution(g, D, base, step, ch) ==
    \A t \in SUBSET D : g[t] = IF t = {} THEN base ELSE step[ch[t]][g[t \ {ch[t]}]]

LEMMA Recursion ==
    ASSUME NEW D, IsFiniteSet(D), NEW V, NEW base \in V, NEW step \in [D -> [V -> V]],
           NEW ch, Chooses(ch, D)
    PROVE  \E g \in [SUBSET D -> V] : Solution(g, D, base, step, ch)
<1> DEFINE Sub(n) == {t \in SUBSET D : Cardinality(t) <= n}
<1> DEFINE Solves(g, n) ==
               \A t \in Sub(n) : g[t] = IF t = {} THEN base ELSE step[ch[t]][g[t \ {ch[t]}]]
<1> DEFINE T == {n \in Nat : \E g \in [Sub(n) -> V] : Solves(g, n)}
<1>0. \A t \in SUBSET D : IsFiniteSet(t) /\ Cardinality(t) \in Nat
  BY FS_Subset, FS_CardinalityType
<1>1. 0 \in T
  <2> DEFINE g == [t \in Sub(0) |-> base]
  <2>1. \A t \in Sub(0) : t = {}
    BY <1>0, FS_EmptySet
  <2>2. g \in [Sub(0) -> V] /\ Solves(g, 0)
    BY <2>1
  <2> QED
    BY <2>2
<1>2. ASSUME NEW n \in Nat, n \in T PROVE n + 1 \in T
  <2>1. PICK g \in [Sub(n) -> V] : Solves(g, n)
    BY <1>2
  <2> DEFINE h == [t \in Sub(n + 1) |-> IF t = {} THEN base ELSE step[ch[t]][g[t \ {ch[t]}]]]
  <2>2. ASSUME NEW t \in Sub(n + 1), t # {}
        PROVE  ch[t] \in D /\ t \ {ch[t]} \in Sub(n) /\ t \ {ch[t]} \in Sub(n + 1)
    <3>1. ch[t] \in t
      BY <2>2 DEF Chooses
    <3>2. Cardinality(t \ {ch[t]}) = Cardinality(t) - 1
      BY <1>0, <3>1, FS_RemoveElement
    <3> QED
      BY <1>0, <3>1, <3>2
  <2>3. h \in [Sub(n + 1) -> V]
    BY <2>2
  <2>4. ASSUME NEW t \in Sub(n) PROVE t \in Sub(n + 1) /\ h[t] = g[t]
    <3>1. t \in Sub(n + 1)
      BY <1>0
    <3>2. g[t] = IF t = {} THEN base ELSE step[ch[t]][g[t \ {ch[t]}]]
      BY <2>1
    <3> QED
      BY <3>1, <3>2
  <2>5. Solves(h, n + 1)
    BY <2>2, <2>4
  <2> HIDE DEF h, Sub, Solves
  <2> QED
    BY <2>3, <2>5
<1>3. Cardinality(D) \in T
  <2>1. Cardinality(D) \in Nat
    BY FS_CardinalityType
  <2> HIDE DEF T
  <2> QED
    BY <1>1, <1>2, <2>1, Induct
<1>4. Sub(Cardinality(D)) = SUBSET D
  BY FS_Subset, FS_CardinalityType
<1> QED
  BY <1>3, <1>4 DEF Solution

\* g is the sum of w over each subset of D, in whatever order it is taken.
AddsUp(g, D, w) ==
    /\ g[{}] = 0
    /\ \A t \in SUBSET D : g[t] \in Nat /\ \A x \in t : g[t] = w[x] + g[t \ {x}]

\* A sum that is taken in one order is the sum in every order.
LEMMA AnyOrder ==
    ASSUME NEW D, IsFiniteSet(D), NEW w \in [D -> Nat], NEW ch, Chooses(ch, D), NEW g,
           \A t \in SUBSET D : g[t] = IF t = {} THEN 0 ELSE w[ch[t]] + g[t \ {ch[t]}]
    PROVE  AddsUp(g, D, w)
<1> DEFINE Sums(t) == g[t] \in Nat /\ \A x \in t : g[t] = w[x] + g[t \ {x}]
<1> DEFINE T == {n \in Nat : \A t \in SUBSET D : Cardinality(t) <= n => Sums(t)}
<1>1. \A t \in SUBSET D : IsFiniteSet(t) /\ Cardinality(t) \in Nat
  BY FS_Subset, FS_CardinalityType
<1>2. ASSUME NEW t \in SUBSET D, NEW x \in t
      PROVE  t \ {x} \in SUBSET D /\ Cardinality(t \ {x}) = Cardinality(t) - 1
  BY <1>1, FS_RemoveElement
<1>3. 0 \in T
  <2>1. \A t \in SUBSET D : Cardinality(t) <= 0 => t = {}
    BY <1>1, FS_EmptySet
  <2> QED
    BY <2>1
<1>4. ASSUME NEW n \in Nat, n \in T PROVE n + 1 \in T
  <2> SUFFICES ASSUME NEW t \in SUBSET D, Cardinality(t) <= n + 1 PROVE Sums(t)
    OBVIOUS
  <2>0. Sums({})
    <3>1. g[{}] = 0
      OBVIOUS
    <3> QED
      BY ONLY <3>1
  <2> SUFFICES ASSUME t # {} PROVE Sums(t)
    BY <2>0
  <2>1. t # {}
    OBVIOUS
  <2> DEFINE c == ch[t]
  <2>2. c \in t /\ w[c] \in Nat
    BY <2>1 DEF Chooses
  <2>3. g[t] = w[c] + g[t \ {c}]
    BY <2>1
  <2> HIDE DEF c
  <2>4. \A x \in t : t \ {x} \in SUBSET D /\ Cardinality(t \ {x}) <= n
    BY <1>1, <1>2
  <2>5. \A x \in t : Sums(t \ {x})
    <3> HIDE DEF Sums
    <3> QED
      BY <1>4, <2>4
  <2>6. ASSUME NEW x \in t, x # c PROVE g[t] = w[x] + g[t \ {x}]
    <3>1. w[x] \in Nat
      OBVIOUS
    <3>2. x \in t \ {c} /\ c \in t \ {x} /\ (t \ {c}) \ {x} = (t \ {x}) \ {c}
      BY <2>2, <2>6
    <3> DEFINE rest == (t \ {c}) \ {x}
    <3>3. g[t \ {c}] = w[x] + g[rest] /\ g[t \ {x}] = w[c] + g[rest]
      BY <2>2, <2>5, <3>2
    <3>4. g[rest] \in Nat
      <4> DEFINE u == t \ {c}
      <4>1. u \in SUBSET D /\ Cardinality(u) <= n /\ x \in u
        BY <2>2, <2>4, <3>2
      <4>2. u \ {x} \in SUBSET D /\ Cardinality(u \ {x}) = Cardinality(u) - 1 /\ Cardinality(u) \in Nat
        <5> HIDE DEF u
        <5> QED
          BY <1>1, <1>2, <4>1
      <4>3. Cardinality(u \ {x}) <= n
        BY <4>1, <4>2
      <4> HIDE DEF Sums
      <4>4. Sums(u \ {x})
        BY <1>4, <4>2, <4>3
      <4> QED
        BY <4>4 DEF Sums
    <3> HIDE DEF rest
    <3> QED
      BY <2>2, <2>3, <3>1, <3>3, <3>4
  <2>7. g[t \ {c}] \in Nat
    BY <2>2, <2>5
  <2>8. g[t] \in Nat
    BY <2>2, <2>3, <2>7
  <2>9. \A x \in t : g[t] = w[x] + g[t \ {x}]
    BY <2>3, <2>6
  <2> QED
    BY <2>8, <2>9
<1>5. \A t \in SUBSET D : Sums(t)
  <2> HIDE DEF Sums
  <2>1. Nat \subseteq T
    <3> HIDE DEF T
    <3> QED
      BY <1>3, <1>4, Induct
  <2> QED
    BY <1>1, <2>1
<1>6. g[{}] = 0
  OBVIOUS
<1> QED
  BY <1>5, <1>6 DEF AddsUp

\* The elements of A that f reaches from t.
Reached(f, t, A) == {f[a] : a \in t} \cap A

\* f is one to one, u says of a what w says of f(a), if that is in A, and h
\* and g add them up.
Mirrors(E, A, D, f, w, g, u, h) ==
    /\ IsFiniteSet(E) /\ A \subseteq D
    /\ f \in [E -> D] /\ w \in [A -> Nat]
    /\ AddsUp(g, A, w) /\ AddsUp(h, E, u)
    /\ \A a, b \in E : f[a] = f[b] => a = b
    /\ \A a \in E : u[a] = IF f[a] \in A THEN w[f[a]] ELSE 0

\* The sum, over the elements a of t, of what f(a) is worth in A, is the sum
\* over the elements of A that f reaches from t.
LEMMA SameSum ==
    ASSUME NEW E, NEW A, NEW D, NEW f, NEW w, NEW g, NEW u, NEW h,
           Mirrors(E, A, D, f, w, g, u, h)
    PROVE  h[E] = g[Reached(f, E, A)]
<1>0. /\ IsFiniteSet(E) /\ f \in [E -> D] /\ w \in [A -> Nat]
      /\ AddsUp(g, A, w) /\ AddsUp(h, E, u)
  BY DEF Mirrors
<1> DEFINE R(t) == Reached(f, t, A)
<1> DEFINE Same(t) == h[t] = g[R(t)]
<1> DEFINE T == {n \in Nat : \A t \in SUBSET E : Cardinality(t) = n => Same(t)}
<1>1. \A t \in SUBSET E : IsFiniteSet(t) /\ Cardinality(t) \in Nat
  BY <1>0, FS_Subset, FS_CardinalityType
<1>2. 0 \in T
  <2>1. \A t \in SUBSET E : Cardinality(t) = 0 => t = {}
    BY <1>1, FS_EmptySet
  <2>2. R({}) = {}
    BY DEF Reached
  <2>3. Same({})
    BY <1>0, <2>2 DEF AddsUp
  <2> QED
    BY <2>1, <2>3
<1>3. ASSUME NEW n \in Nat, n \in T PROVE n + 1 \in T
  <2> SUFFICES ASSUME NEW t \in SUBSET E, Cardinality(t) = n + 1 PROVE Same(t)
    OBVIOUS
  <2>0. t # {}
    BY ONLY n \in Nat, Cardinality(t) = n + 1, FS_EmptySet
  <2>1. PICK a \in t : TRUE
    BY <2>0
  <2> DEFINE s == t \ {a}
  <2>2. s \in SUBSET E /\ Cardinality(s) = n
    <3>1. IsFiniteSet(t) /\ Cardinality(t) \in Nat
      BY <1>1
    <3>2. Cardinality(s) = Cardinality(t) - 1
      BY <3>1, FS_RemoveElement
    <3> QED
      BY <3>1, <3>2
  <2>3. Same(s)
    <3> HIDE DEF s, Same
    <3> QED
      BY <1>3, <2>2
  <2>4. h[t] = u[a] + h[s] /\ h[s] \in Nat
    BY <1>0, <2>2 DEF AddsUp
  <2>5. CASE f[a] \in A
    <3>1. f[a] \in R(t)
      BY <2>5 DEF Reached
    <3>2. R(t) \ {f[a]} = R(s)
      <4>1. \A b \in t : b # a => f[b] # f[a]
        BY DEF Mirrors
      <4> QED
        BY <4>1 DEF Reached
    <3>3. R(t) \in SUBSET A
      BY DEF Reached
    <3> DEFINE rt == R(t)
    <3>4. g[rt] = w[f[a]] + g[rt \ {f[a]}]
      <4> HIDE DEF rt
      <4> QED
        BY <1>0, <3>1, <3>3 DEF AddsUp, rt
    <3>5. g[rt] = w[f[a]] + g[R(s)]
      BY <3>2, <3>4
    <3>6. u[a] = w[f[a]]
      BY <2>5 DEF Mirrors
    <3> HIDE DEF R, s
    <3> QED
      BY <2>3, <2>4, <3>5, <3>6
  <2>6. CASE f[a] \notin A
    <3>1. R(t) = R(s)
      BY <2>6 DEF Reached
    <3>2. u[a] = 0
      BY <2>6 DEF Mirrors
    <3> HIDE DEF R, s
    <3> QED
      BY <2>3, <2>4, <3>1, <3>2
  <2> QED
    BY <2>5, <2>6
<1>4. Same(E)
  <2> HIDE DEF Same
  <2>1. Nat \subseteq T
    <3> HIDE DEF T
    <3> QED
      BY <1>2, <1>3, Induct
  <2>2. Cardinality(E) \in Nat
    BY <1>1
  <2> QED
    BY <2>1, <2>2
<1> QED
  BY <1>4

\* Fewer elements do not sum up to more.
LEMMA SmallerSum ==
    ASSUME NEW A, IsFiniteSet(A), NEW w \in [A -> Nat], NEW g, AddsUp(g, A, w),
           NEW B \in SUBSET A
    PROVE  g[B] <= g[A]
<1> DEFINE Less(t) == g[B] <= g[B \cup t]
<1> DEFINE T == {n \in Nat : \A t \in SUBSET (A \ B) : Cardinality(t) = n => Less(t)}
<1>1. \A t \in SUBSET A : IsFiniteSet(t) /\ Cardinality(t) \in Nat /\ g[t] \in Nat
  BY FS_Subset, FS_CardinalityType DEF AddsUp
<1>2. 0 \in T
  <2>1. \A t \in SUBSET (A \ B) : Cardinality(t) = 0 => t = {}
    BY <1>1, FS_EmptySet
  <2>2. B \cup {} = B
    OBVIOUS
  <2>3. Less({})
    BY <1>1, <2>2
  <2> HIDE DEF Less
  <2> QED
    BY <2>1, <2>3
<1>3. ASSUME NEW n \in Nat, n \in T PROVE n + 1 \in T
  <2> SUFFICES ASSUME NEW t \in SUBSET (A \ B), Cardinality(t) = n + 1 PROVE Less(t)
    OBVIOUS
  <2>0. t # {}
    BY FS_EmptySet
  <2>1. PICK a \in t : TRUE
    BY <2>0
  <2> DEFINE s == t \ {a}
  <2>2. s \in SUBSET (A \ B) /\ Cardinality(s) = n
    <3>1. IsFiniteSet(t) /\ Cardinality(t) \in Nat
      BY <1>1
    <3>2. Cardinality(s) = Cardinality(t) - 1
      BY <3>1, FS_RemoveElement
    <3> QED
      BY <3>1, <3>2
  <2>3. Less(s)
    <3> HIDE DEF s, Less
    <3> QED
      BY <1>3, <2>2
  <2>4. a \in B \cup t /\ (B \cup t) \ {a} = B \cup s
    OBVIOUS
  <2>5. B \cup t \in SUBSET A /\ B \cup s \in SUBSET A /\ a \in A
    OBVIOUS
  <2>6. g[B \cup t] = w[a] + g[B \cup s]
    <3> DEFINE bt == B \cup t
    <3>1. g[bt] = w[a] + g[bt \ {a}]
      <4> HIDE DEF bt
      <4> QED
        BY <2>4, <2>5 DEF AddsUp, bt
    <3> QED
      BY <2>4, <3>1
  <2>7. w[a] \in Nat /\ g[B \cup s] \in Nat /\ g[B] \in Nat
    BY <1>1, <2>5
  <2> HIDE DEF s
  <2> QED
    BY <2>3, <2>6, <2>7
<1>4. Less(A \ B)
  <2> HIDE DEF Less
  <2>1. Nat \subseteq T
    <3> HIDE DEF T
    <3> QED
      BY <1>2, <1>3, Induct
  <2>2. Cardinality(A \ B) \in Nat
    BY <1>1
  <2> QED
    BY <2>1, <2>2
<1>5. B \cup (A \ B) = A
  OBVIOUS
<1> QED
  BY <1>4, <1>5

-----------------------------------------------------------------------------
USE DishMenuAssumption

\* Downloads and blocks are of screens that were pushed, for a restaurant.
VisitInv ==
    /\ \A v \in 1..visit : restID[v] \in Restaurants
    /\ \A v \in Visits : requests[v] > 0 => v <= visit
    /\ \A i \in DOMAIN mainQueue : mainQueue[i].visit <= visit
    /\ block # None => block.visit <= visit
    /\ onScreen => visit \in Visits

TypeInv ==
    /\ TypeOK
    /\ DOMAIN serverMenu = Restaurants
    /\ IsFiniteSet(dishtable)
    /\ VisitInv

-----------------------------------------------------------------------------
LEMMA MenuRows ==
    ASSUME NEW r \in Restaurants, NEW m \in Menus[r]
    PROVE  /\ m \in Seq(Rows)
           /\ \A i \in DOMAIN m : m[i] \in Rows /\ m[i].rest = r
           /\ \A i, j \in DOMAIN m : m[i].id = m[j].id => i = j
<1>1. m \in Seq(Rows)
  OBVIOUS
<1>2. IsMenu(m, r)
  OBVIOUS
<1> QED BY <1>1, <1>2 DEF IsMenu

\* The answer of the database is a list of its rows for the restaurant.
LEMMA QueryRows ==
    ASSUME NEW r, dishtable \subseteq Rows, IsFiniteSet(dishtable)
    PROVE  /\ Query(r) \in Seq(Rows)
           /\ \A row \in ToSet(Query(r)) : row \in dishtable /\ row.rest = r
<1>1. IsFiniteSet(Stored(r)) /\ Cardinality(Stored(r)) \in Nat
  <2>1. Stored(r) \in SUBSET dishtable
    BY DEF Stored
  <2> QED BY <2>1, FS_Subset, FS_CardinalityType
<1>2. \E f \in [1..Cardinality(Stored(r)) -> Stored(r)] : IsInjective(f)
  BY <1>1, FS_CardinalityType DEF ExistsBijection, Bijection, Injection
<1>3. Query(r) \in [1..Cardinality(Stored(r)) -> Stored(r)]
  BY <1>2 DEF Query, SetToSeq
<1>4. Query(r) \in Seq(Stored(r))
  BY <1>1, <1>3
<1>5. \A row \in Stored(r) : row \in dishtable /\ row.rest = r /\ row \in Rows
  BY DEF Stored
<1>6. \A row \in ToSet(Query(r)) : row \in Stored(r)
  BY <1>3 DEF ToSet
<1>7. Query(r) \in Seq(Rows)
  BY <1>4, <1>5
<1> QED BY <1>5, <1>6, <1>7

\* Rows that are displayed are rows, and the list holds no others.
LEMMA DisplayType ==
    ASSUME TypeOK, NEW list, NEW src \in Seq(Rows), list = None \/ list \in Seq(Rows),
           list = None \/ list = dishList, Display(list, src)
    PROVE  /\ dishList' \in Seq(Rows)
           /\ sortedDic' \subseteq Rows
           /\ offered' \subseteq Rows
           /\ \A row \in ToSet(dishList') : row \in sortedDic'
           /\ sortedDic' = ToSet(src)
<1>1. ToSet(src) \subseteq Rows
  BY DEF ToSet
<1>2. dishList' = <<>> \/ dishList' = src
  BY DEF Display, Convert
<1>3. ToSet(<<>>) = {}
  BY DEF ToSet
<1>4. sortedDic' = ToSet(src)
  BY DEF Display
<1>5. <<>> \in Seq(Rows)
  OBVIOUS
<1>6. dishList' \in Seq(Rows)
  BY <1>2, <1>5
<1>7. \A row \in ToSet(dishList') : row \in ToSet(src)
  BY <1>2, <1>3
<1>8. offered' \subseteq Rows
  BY <1>1 DEF Display, TypeOK
<1> QED BY <1>1, <1>4, <1>6, <1>7, <1>8

\* What a screen that appears shows, whether it is stored or not.
LEMMA AppearType ==
    ASSUME TypeInv, NEW v \in Visits, NEW r \in Restaurants, NEW list,
           list = None \/ list = dishList, Appear(v, r, list)
    PROVE  /\ dishList' = None \/ dishList' \in Seq(Rows)
           /\ sortedDic' \subseteq Rows /\ offered' \subseteq Rows
           /\ requests' \in [Visits -> Nat]
           /\ \A w \in Visits : w # v => requests'[w] = requests[w]
           /\ disturbed' \subseteq Restaurants
<1> USE DEF TypeInv
<1>1. CASE ShowStored(r, list)
  <2>1. Query(r) \in Seq(Rows)
    BY QueryRows DEF TypeOK
  <2>2. Display(list, Query(r)) /\ UNCHANGED <<requests, disturbed>>
    BY <1>1 DEF ShowStored
  <2> QED BY <2>1, <2>2, DisplayType DEF TypeOK
<1>2. CASE QueryRefused(r, list)
  <2>1. <<>> \in Seq(Rows)
    OBVIOUS
  <2>2. /\ Display(list, <<>>) /\ UNCHANGED requests
        /\ disturbed' = disturbed \cup {r}
    BY <1>2 DEF QueryRefused
  <2> QED BY <2>1, <2>2, DisplayType DEF TypeOK
<1>3. CASE Download(v, r, list)
  <2>1. /\ requests' = [requests EXCEPT ![v] = @ + 1]
        /\ dishList' = list /\ disturbed' = disturbed
        /\ IF list = None THEN sortedDic' = {} /\ offered' = {}
                          ELSE UNCHANGED <<sortedDic, offered>>
    BY <1>3 DEF Download
  <2>2. requests[v] \in Nat
    BY DEF TypeOK
  <2> QED BY <2>1, <2>2 DEF TypeOK
<1> QED BY <1>1, <1>2, <1>3 DEF Appear

\* A block is of a screen, with rows.
LEMMA BlockType ==
    ASSUME TypeOK, block # None
    PROVE  block.visit \in Visits /\ block.rows \in Seq(Rows)
BY DEF TypeOK, Blocks

LEMMA Fresh ==
    /\ FreshMemory.cached = {}
    /\ FreshMemory.rest \in [Visits -> Restaurants \cup {None}]
    /\ FreshMemory.flights \in [Visits -> Nat]
    /\ \A v \in Visits : FreshMemory.flights[v] = 0
BY DEF FreshMemory

LEMMA RelaunchType == TypeInv /\ Relaunch => TypeInv'
<1> SUFFICES ASSUME TypeInv, Relaunch PROVE TypeInv'
  OBVIOUS
<1>1. <<>> \in Seq(Blocks)
  OBVIOUS
<1>2. TypeOK'
  <2>1. visit' \in 0..MaxVisits /\ launches' \in 1..MaxLaunches
    BY DEF TypeInv, TypeOK, Relaunch
  <2>2. /\ restID' \in [Visits -> Restaurants \cup {None}]
        /\ requests' \in [Visits -> Nat]
        /\ arrDishListByRestID' \in SUBSET Restaurants
    BY Fresh DEF Relaunch
  <2>3. /\ \A r \in Restaurants : serverMenu'[r] \in Menus[r]
        /\ dishtable' \in SUBSET Rows
        /\ sortedDic' \in SUBSET Rows /\ offered' \in SUBSET Rows
    BY DEF TypeInv, TypeOK, Relaunch
  <2>4. /\ onScreen' \in BOOLEAN
        /\ dishList' = None /\ block' = None
        /\ mainQueue' \in Seq(Blocks)
    BY <1>1 DEF Relaunch
  <2>5. CutShort \subseteq Restaurants
    <3> SUFFICES ASSUME block # None PROVE restID[block.visit] \in Restaurants
      BY DEF CutShort
    <3>1. block.visit \in 1..visit
      BY BlockType DEF TypeInv, VisitInv, Visits, TypeOK
    <3> QED BY <3>1 DEF TypeInv, VisitInv
  <2>6. disturbed' \in SUBSET Restaurants
    BY <2>5 DEF TypeInv, TypeOK, Relaunch
  <2> QED BY <2>1, <2>2, <2>3, <2>4, <2>6 DEF TypeOK
<1>3. VisitInv'
  BY Fresh DEF Relaunch, VisitInv
<1> QED BY <1>2, <1>3 DEF TypeInv, Relaunch

\* A step that leaves the table, the restaurants of the screens and the menus.
LEMMA TypeStep == TypeInv /\ [Next]_vars => TypeInv'
<1> SUFFICES ASSUME TypeInv, [Next]_vars PROVE TypeInv'
  OBVIOUS
<1> USE DEF TypeInv
<1>1. ASSUME NEW r \in Restaurants, OpenDishes(r) PROVE TypeInv'
  <2>1. visit' = visit + 1 /\ visit' \in Visits /\ visit \in Nat
    BY <1>1 DEF OpenDishes, TypeOK, Visits
  <2>2. restID' = [restID EXCEPT ![visit'] = r] /\ Appear(visit', r, None)
    BY <1>1 DEF OpenDishes
  <2>3. /\ dishList' = None \/ dishList' \in Seq(Rows)
        /\ sortedDic' \subseteq Rows /\ offered' \subseteq Rows
        /\ requests' \in [Visits -> Nat]
        /\ \A w \in Visits : w # visit' => requests'[w] = requests[w]
        /\ disturbed' \subseteq Restaurants
    BY <2>1, <2>2, AppearType
  <2>4. restID' \in [Visits -> Restaurants \cup {None}]
    BY <2>1, <2>2 DEF TypeOK
  <2>5. TypeOK'
    BY <1>1, <2>1, <2>3, <2>4 DEF OpenDishes, TypeOK, Visits
  <2>6. \A v \in 1..visit' : restID'[v] \in Restaurants
    BY <2>1, <2>2 DEF TypeOK, VisitInv, Visits
  <2>7. \A v \in Visits : requests'[v] > 0 => v <= visit'
    BY <2>1, <2>3 DEF VisitInv, Visits
  <2>8. /\ \A i \in DOMAIN mainQueue : mainQueue[i].visit <= visit'
        /\ block = None
    <3>1. ASSUME NEW i \in DOMAIN mainQueue PROVE mainQueue[i].visit <= visit'
      <4>1. mainQueue[i] \in Blocks
        BY DEF TypeOK
      <4>2. mainQueue[i].visit \in Nat /\ mainQueue[i].visit <= visit
        BY <4>1 DEF Blocks, Visits, VisitInv
      <4> QED BY <2>1, <4>2
    <3> QED BY <1>1, <3>1 DEF OpenDishes, Idle
  <2>9. VisitInv'
    BY <1>1, <2>1, <2>6, <2>7, <2>8 DEF OpenDishes, VisitInv
  <2> QED BY <1>1, <2>5, <2>9 DEF OpenDishes
<1>2. CASE Reappear
  <2>1. visit \in Visits /\ restID[visit] \in Restaurants
    BY <1>2 DEF Reappear, VisitInv, Visits, TypeOK
  <2>2. Appear(visit, restID[visit], dishList)
    BY <1>2 DEF Reappear
  <2>3. /\ dishList' = None \/ dishList' \in Seq(Rows)
        /\ sortedDic' \subseteq Rows /\ offered' \subseteq Rows
        /\ requests' \in [Visits -> Nat]
        /\ \A w \in Visits : w # visit => requests'[w] = requests[w]
        /\ disturbed' \subseteq Restaurants
    BY <2>1, <2>2, AppearType
  <2>4. TypeOK'
    BY <1>2, <2>3 DEF Reappear, TypeOK
  <2>5. VisitInv'
    BY <1>2, <2>1, <2>3 DEF Reappear, VisitInv, Visits
  <2> QED BY <1>2, <2>4, <2>5 DEF Reappear
<1>3. CASE LeaveDishes
  BY <1>3 DEF LeaveDishes, TypeOK, VisitInv
<1>4. ASSUME NEW v \in Visits, RequestFails(v) PROVE TypeInv'
  BY <1>4 DEF RequestFails, TypeOK, VisitInv
<1>5. ASSUME NEW v \in Visits, MenuArrives(v) PROVE TypeInv'
  <2>1. v <= visit /\ v \in 1..visit /\ restID[v] \in Restaurants
    BY <1>5 DEF MenuArrives, VisitInv, Visits, TypeOK
  <2>2. serverMenu[restID[v]] \in Seq(Rows)
    BY <2>1, MenuRows DEF TypeOK
  <2> DEFINE arrived == [visit |-> v, rows |-> serverMenu[restID[v]]]
  <2>3. arrived \in Blocks
    BY <2>2 DEF Blocks
  <2>4. mainQueue' = Append(mainQueue, arrived) /\ mainQueue \in Seq(Blocks)
    BY <1>5 DEF MenuArrives, TypeOK
  <2>5. mainQueue' \in Seq(Blocks)
    BY <2>3, <2>4
  <2>6. requests' \in [Visits -> Nat] /\ \A w \in Visits : requests'[w] > 0 => requests[w] > 0
    BY <1>5 DEF MenuArrives, TypeOK
  <2>7. TypeOK'
    BY <1>5, <2>5, <2>6 DEF MenuArrives, TypeOK
  <2>8. \A i \in DOMAIN mainQueue' : mainQueue'[i] = arrived \/ \E j \in DOMAIN mainQueue : mainQueue'[i] = mainQueue[j]
    BY <2>4
  <2>9. \A i \in DOMAIN mainQueue' : mainQueue'[i].visit <= visit
    BY <2>1, <2>8 DEF VisitInv
  <2>10. VisitInv'
    BY <1>5, <2>6, <2>9 DEF MenuArrives, VisitInv
  <2> QED BY <1>5, <2>7, <2>10 DEF MenuArrives
<1>6. ASSUME NEW v \in Visits, NoMenuArrives(v) PROVE TypeInv'
  BY <1>6, RelaunchType DEF NoMenuArrives
<1>7. CASE StartBlock
  <2>1. /\ mainQueue \in Seq(Blocks) /\ mainQueue # <<>>
        /\ mainQueue' = Tail(mainQueue) /\ block' = Head(mainQueue)
    BY <1>7 DEF StartBlock, TypeOK
  <2>2. /\ block' \in Blocks /\ mainQueue' \in Seq(Blocks)
        /\ block' = mainQueue[1] /\ 1 \in DOMAIN mainQueue
        /\ \A i \in DOMAIN mainQueue' : i + 1 \in DOMAIN mainQueue /\ mainQueue'[i] = mainQueue[i + 1]
    BY <2>1
  <2>3. /\ dishList' = None \/ dishList' \in Seq(Rows)
        /\ sortedDic' \subseteq Rows /\ offered' \subseteq Rows
    <3>1. Head(mainQueue).rows \in Seq(Rows)
      BY <2>1, <2>2 DEF Blocks
    <3>2. CASE onScreen /\ Head(mainQueue).visit = visit
      <4>1. Display(dishList, Head(mainQueue).rows)
        BY <1>7, <3>2 DEF StartBlock
      <4> QED BY <3>1, <4>1, DisplayType DEF TypeOK
    <3>3. CASE ~(onScreen /\ Head(mainQueue).visit = visit)
      BY <1>7, <3>3 DEF StartBlock, TypeOK
    <3> QED BY <3>2, <3>3
  <2>4. TypeOK'
    BY <1>7, <2>2, <2>3 DEF StartBlock, TypeOK
  <2>5. VisitInv'
    BY <1>7, <2>2 DEF StartBlock, VisitInv
  <2> QED BY <1>7, <2>4, <2>5 DEF StartBlock
<1>8. CASE InsertRow
  <2>1. block.rows \in Seq(Rows) /\ block.rows # <<>> /\ block.visit \in Visits /\ block \in Blocks
    BY <1>8, BlockType DEF InsertRow, TypeOK
  <2>2. Head(block.rows) \in Rows /\ Tail(block.rows) \in Seq(Rows)
    BY <2>1
  <2>3. block' = [block EXCEPT !.rows = Tail(block.rows)]
    BY <1>8 DEF InsertRow
  <2>4. block' \in Blocks /\ block'.visit = block.visit
    BY <2>1, <2>2, <2>3 DEF Blocks
  <2>5. dishtable' \in SUBSET Rows /\ IsFiniteSet(dishtable')
    BY <1>8, <2>2, FS_AddElement DEF InsertRow, TypeOK
  <2>6. TypeOK'
    BY <1>8, <2>4, <2>5 DEF InsertRow, TypeOK
  <2>7. VisitInv'
    BY <1>8, <2>4 DEF InsertRow, VisitInv
  <2> QED BY <1>8, <2>5, <2>6, <2>7 DEF InsertRow
<1>9. CASE InsertFails
  <2>1. block \in Blocks /\ <<>> \in Seq(Rows)
    BY <1>9 DEF InsertFails, TypeOK
  <2>2. block' = [block EXCEPT !.rows = <<>>]
    BY <1>9 DEF InsertFails
  <2>3. block' \in Blocks /\ block'.visit = block.visit
    BY <2>1, <2>2 DEF Blocks
  <2>4. TypeOK'
    BY <1>9, <2>3 DEF InsertFails, TypeOK
  <2>5. VisitInv'
    BY <1>9, <2>3 DEF InsertFails, VisitInv
  <2> QED BY <1>9, <2>4, <2>5 DEF InsertFails
<1>10. CASE FinishBlock
  <2>1. block.visit \in 1..visit
    BY <1>10, BlockType DEF FinishBlock, VisitInv, Visits, TypeOK
  <2>2. restID[block.visit] \in Restaurants
    BY <2>1 DEF VisitInv
  <2>3. TypeOK'
    BY <1>10, <2>2 DEF FinishBlock, TypeOK
  <2>4. VisitInv'
    BY <1>10 DEF FinishBlock, VisitInv
  <2> QED BY <1>10, <2>3, <2>4 DEF FinishBlock
<1>11. CASE Relaunch
  BY <1>11, RelaunchType
<1>12. ASSUME NEW r \in Restaurants, ServiceUpdates(r) PROVE TypeInv'
  BY <1>12 DEF ServiceUpdates, memoryVars, TypeOK, VisitInv
<1>13. CASE InsertRefused
  <2>1. block \in Blocks /\ <<>> \in Seq(Rows)
    BY <1>13 DEF InsertRefused, TypeOK
  <2>2. /\ block' = [block EXCEPT !.rows = <<>>]
        /\ disturbed' = disturbed \cup {restID[block.visit]}
    BY <1>13 DEF InsertRefused
  <2>3. block' \in Blocks /\ block'.visit = block.visit
    BY <2>1, <2>2 DEF Blocks
  <2>4. block.visit \in 1..visit
    BY <1>13, BlockType DEF InsertRefused, VisitInv, Visits, TypeOK
  <2>5. restID[block.visit] \in Restaurants
    BY <2>4 DEF VisitInv
  <2>6. TypeOK'
    BY <1>13, <2>2, <2>3, <2>5 DEF InsertRefused, TypeOK
  <2>7. VisitInv'
    BY <1>13, <2>3 DEF InsertRefused, VisitInv
  <2> QED BY <1>13, <2>6, <2>7 DEF InsertRefused
<1>14. CASE UNCHANGED vars
  BY <1>14 DEF vars, memoryVars, TypeOK, VisitInv
<1> QED BY <1>1, <1>2, <1>3, <1>4, <1>5, <1>6, <1>7, <1>8, <1>9, <1>10, <1>11,
           <1>12, <1>13, <1>14 DEF Next

LEMMA InitType == Init => TypeInv
<1> SUFFICES ASSUME Init PROVE TypeInv
  OBVIOUS
<1>1. <<>> \in Seq(Blocks)
  OBVIOUS
<1>2. TypeOK
  <2>1. visit \in 0..MaxVisits /\ launches \in 1..MaxLaunches
    BY DEF Init
  <2>2. /\ restID \in [Visits -> Restaurants \cup {None}]
        /\ requests \in [Visits -> Nat]
        /\ arrDishListByRestID \in SUBSET Restaurants
    BY Fresh DEF Init
  <2>3. /\ \A r \in Restaurants : serverMenu[r] \in Menus[r]
        /\ dishtable \in SUBSET Rows
        /\ sortedDic \in SUBSET Rows /\ offered \in SUBSET Rows
        /\ disturbed \in SUBSET Restaurants
    BY DEF Init
  <2>4. /\ onScreen \in BOOLEAN
        /\ dishList = None /\ block = None
        /\ mainQueue \in Seq(Blocks)
    BY <1>1 DEF Init
  <2> QED BY <2>1, <2>2, <2>3, <2>4 DEF TypeOK
<1>3. VisitInv
  BY Fresh DEF Init, VisitInv
<1>4. IsFiniteSet(dishtable)
  BY FS_EmptySet DEF Init
<1> QED BY <1>2, <1>3, <1>4 DEF TypeInv, Init

\* In every state the variables have their types; a restaurant without a name
\* is never remembered.
THEOREM TypeCorrect == Spec => []TypeOK
<1>1. TypeInv => TypeOK
  BY DEF TypeInv
<1> QED BY InitType, TypeStep, <1>1, PTL DEF Spec

-----------------------------------------------------------------------------
\* Menus that wait for the main queue are of the restaurant of their screen.
QueueOwn ==
    \A i \in DOMAIN mainQueue :
        \A row \in ToSet(mainQueue[i].rows) : row.rest = restID[mainQueue[i].visit]

\* The rows of a screen are of restaurant r.
OwnRows(list, rows, r) ==
    /\ \A row \in rows : row.rest = r
    /\ list # None => \A row \in ToSet(list) : row.rest = r

LEMMA AppearOwn ==
    ASSUME TypeInv, NEW v \in Visits, NEW r \in Restaurants, NEW list,
           list = None \/ (list = dishList /\ OwnRows(dishList, sortedDic, r)),
           Appear(v, r, list)
    PROVE  OwnRows(dishList', sortedDic', r)
<1> USE DEF TypeInv, OwnRows
<1>1. list = None \/ list \in Seq(Rows)
  BY DEF TypeOK
<1>2. CASE ShowStored(r, list)
  <2>1. Query(r) \in Seq(Rows) /\ \A row \in ToSet(Query(r)) : row.rest = r
    BY QueryRows DEF TypeOK
  <2>2. Display(list, Query(r))
    BY <1>2 DEF ShowStored
  <2> QED BY <1>1, <2>1, <2>2, DisplayType
<1>3. CASE QueryRefused(r, list)
  <2>1. <<>> \in Seq(Rows) /\ ToSet(<<>>) = {}
    BY DEF ToSet
  <2>2. Display(list, <<>>)
    BY <1>3 DEF QueryRefused
  <2> QED BY <1>1, <2>1, <2>2, DisplayType
<1>4. CASE Download(v, r, list)
  BY <1>4 DEF Download
<1> QED BY <1>2, <1>3, <1>4 DEF Appear

\* A step that leaves the restaurants of the screens keeps the queue's menus,
\* if the queue gets no new one.
LEMMA QueueKept ==
    ASSUME TypeInv, QueueOwn, NEW ids,
           \A v \in 1..visit : ids[v] = restID[v]
    PROVE  \A i \in DOMAIN mainQueue :
               \A row \in ToSet(mainQueue[i].rows) : row.rest = ids[mainQueue[i].visit]
<1> SUFFICES ASSUME NEW i \in DOMAIN mainQueue PROVE mainQueue[i].visit \in 1..visit
  BY DEF QueueOwn
<1>1. mainQueue[i] \in Blocks
  BY DEF TypeInv, TypeOK
<1>2. mainQueue[i].visit \in Visits
  BY <1>1 DEF Blocks
<1> QED BY <1>2 DEF TypeInv, VisitInv, Visits, TypeOK

LEMMA RestStep ==
    TypeInv /\ TypeInv' /\ QueueOwn /\ MenuOfRestaurant /\ [Next]_vars
        => QueueOwn' /\ MenuOfRestaurant'
<1> SUFFICES ASSUME TypeInv, TypeInv', QueueOwn, MenuOfRestaurant, [Next]_vars
             PROVE  QueueOwn' /\ MenuOfRestaurant'
  OBVIOUS
<1>1. ASSUME NEW r \in Restaurants, OpenDishes(r) PROVE QueueOwn' /\ MenuOfRestaurant'
  <2>1. /\ visit' = visit + 1 /\ visit' \in Visits /\ visit \in Nat
        /\ restID' = [restID EXCEPT ![visit'] = r]
        /\ restID \in [Visits -> Restaurants \cup {None}]
        /\ Appear(visit', r, None) /\ mainQueue' = mainQueue
    BY <1>1 DEF OpenDishes, TypeInv, TypeOK, Visits
  <2>2. restID'[visit'] = r
    BY <2>1
  <2>3. OwnRows(dishList', sortedDic', r)
    BY <2>1, AppearOwn
  <2>4. \A v \in 1..visit : restID'[v] = restID[v]
    BY <2>1 DEF Visits
  <2>5. QueueOwn'
    <3>1. \A i \in DOMAIN mainQueue :
              \A row \in ToSet(mainQueue[i].rows) : row.rest = restID'[mainQueue[i].visit]
      BY <2>4, QueueKept
    <3> QED BY <2>1, <3>1 DEF QueueOwn
  <2> QED BY <2>2, <2>3, <2>5 DEF MenuOfRestaurant, OwnRows
<1>2. CASE Reappear
  <2>1. visit \in Visits /\ restID[visit] \in Restaurants
    BY <1>2 DEF Reappear, TypeInv, VisitInv, Visits, TypeOK
  <2>2. Appear(visit, restID[visit], dishList) /\ onScreen
    BY <1>2 DEF Reappear
  <2>3. OwnRows(dishList', sortedDic', restID[visit])
    BY <2>1, <2>2, AppearOwn DEF MenuOfRestaurant, OwnRows
  <2> QED BY <1>2, <2>3 DEF Reappear, QueueOwn, MenuOfRestaurant, OwnRows
<1>3. CASE LeaveDishes
  BY <1>3 DEF LeaveDishes, QueueOwn, MenuOfRestaurant
<1>4. ASSUME NEW v \in Visits, RequestFails(v) PROVE QueueOwn' /\ MenuOfRestaurant'
  BY <1>4 DEF RequestFails, QueueOwn, MenuOfRestaurant
<1>5. ASSUME NEW v \in Visits, MenuArrives(v) PROVE QueueOwn' /\ MenuOfRestaurant'
  <2>1. restID[v] \in Restaurants /\ serverMenu[restID[v]] \in Menus[restID[v]]
    BY <1>5 DEF MenuArrives, TypeInv, VisitInv, Visits, TypeOK
  <2> DEFINE arrived == [visit |-> v, rows |-> serverMenu[restID[v]]]
  <2>2. \A row \in ToSet(arrived.rows) : row.rest = restID[arrived.visit]
    BY <2>1, MenuRows DEF ToSet
  <2>3. mainQueue' = Append(mainQueue, arrived) /\ mainQueue \in Seq(Blocks)
    BY <1>5 DEF MenuArrives, TypeInv, TypeOK
  <2>4. \A i \in DOMAIN mainQueue' : mainQueue'[i] = arrived \/ \E j \in DOMAIN mainQueue : mainQueue'[i] = mainQueue[j]
    BY <2>3
  <2>5. QueueOwn'
    BY <1>5, <2>2, <2>4 DEF MenuArrives, QueueOwn
  <2> QED BY <1>5, <2>5 DEF MenuArrives, MenuOfRestaurant
<1>6. CASE Relaunch
  BY <1>6 DEF Relaunch, QueueOwn, MenuOfRestaurant
<1>7. CASE StartBlock
  <2>1. /\ mainQueue \in Seq(Blocks) /\ mainQueue # <<>>
        /\ mainQueue' = Tail(mainQueue) /\ restID' = restID
        /\ visit' = visit /\ onScreen' = onScreen
    BY <1>7 DEF StartBlock, TypeInv, TypeOK
  <2>2. /\ Head(mainQueue) = mainQueue[1] /\ 1 \in DOMAIN mainQueue
        /\ mainQueue[1] \in Blocks
        /\ \A i \in DOMAIN mainQueue' : i + 1 \in DOMAIN mainQueue /\ mainQueue'[i] = mainQueue[i + 1]
    BY <2>1
  <2>3. QueueOwn'
    BY <2>1, <2>2 DEF QueueOwn
  <2>4. CASE onScreen /\ Head(mainQueue).visit = visit
    <3>1. Display(dishList, Head(mainQueue).rows)
      BY <1>7, <2>4 DEF StartBlock
    <3>2. Head(mainQueue).rows \in Seq(Rows)
      BY <2>2 DEF Blocks
    <3>3. \A row \in ToSet(Head(mainQueue).rows) : row.rest = restID[visit]
      BY <2>2, <2>4 DEF QueueOwn
    <3>4. /\ \A row \in ToSet(dishList') : row \in sortedDic'
          /\ sortedDic' = ToSet(Head(mainQueue).rows)
      BY <3>1, <3>2, DisplayType DEF TypeInv, TypeOK
    <3> QED BY <2>1, <2>3, <3>3, <3>4 DEF MenuOfRestaurant
  <2>5. CASE ~(onScreen /\ Head(mainQueue).visit = visit)
    BY <1>7, <2>3, <2>5 DEF StartBlock, MenuOfRestaurant
  <2> QED BY <2>4, <2>5
<1>8. CASE InsertRow \/ InsertFails \/ InsertRefused \/ FinishBlock
  BY <1>8 DEF InsertRow, InsertFails, InsertRefused, FinishBlock, QueueOwn,
              MenuOfRestaurant
<1>9. ASSUME NEW r \in Restaurants, ServiceUpdates(r) PROVE QueueOwn' /\ MenuOfRestaurant'
  BY <1>9 DEF ServiceUpdates, memoryVars, QueueOwn, MenuOfRestaurant
<1>10. CASE UNCHANGED vars
  BY <1>10 DEF vars, memoryVars, QueueOwn, MenuOfRestaurant
<1> QED BY <1>1, <1>2, <1>3, <1>4, <1>5, <1>6, <1>7, <1>8, <1>9, <1>10
        DEF Next, NoMenuArrives

\* Whatever arrives late, a screen shows and prices rows of its own restaurant.
THEOREM MenuOfRestaurantAlways == Spec => []MenuOfRestaurant
<1> DEFINE RestInv == TypeInv /\ QueueOwn /\ MenuOfRestaurant
<1>1. Init => RestInv
  BY InitType DEF Init, QueueOwn, MenuOfRestaurant
<1>2. RestInv /\ [Next]_vars => RestInv'
  BY TypeStep, RestStep
<1>3. RestInv => MenuOfRestaurant
  OBVIOUS
<1> HIDE DEF RestInv
<1> QED BY <1>1, <1>2, <1>3, PTL DEF Spec

-----------------------------------------------------------------------------
\* The restaurant whose menu the running block stores.
Owner == restID[block.visit]

\* The block has come past the first k rows of the menu of r.
Past(k, r) ==
    /\ k \in 0..Len(serverMenu[r])
    /\ Len(block.rows) = Len(serverMenu[r]) - k
    /\ \A j \in 1..Len(block.rows) : block.rows[j] = serverMenu[r][k + j]

FirstRows(r, k) == {serverMenu[r][i] : i \in 1..k}

\* Every row up to the first that cannot be inserted is stored.
Full(r) ==
    \A i \in DOMAIN serverMenu[r] :
        (\A j \in 1..i : serverMenu[r][j].id \in Insertable) => serverMenu[r][i] \in dishtable

QueueWhole ==
    \A i \in DOMAIN mainQueue :
        restID[mainQueue[i].visit] \in Steady =>
            mainQueue[i].rows = serverMenu[restID[mainQueue[i].visit]]

BlockOwn == block # None => \A row \in ToSet(block.rows) : row.rest = Owner

\* What the block has passed is stored, unless it has given up.
BlockSuffix ==
    block # None /\ Owner \in Steady /\ block.rows # <<>> =>
        \E k \in Nat : Past(k, Owner) /\ FirstRows(Owner, k) \subseteq dishtable

\* The rows of r, as long as nothing cut them short: all there, or none, or as
\* many as the running block has passed.
Storing(r) ==
    \/ Full(r)
    \/ Stored(r) = {} /\ (block # None => Owner # r)
    \/ /\ block # None /\ Owner = r /\ block.rows # <<>>
       /\ \E k \in Nat : Past(k, r) /\ Stored(r) = FirstRows(r, k)

NeverCut ==
    \A r \in Steady \ disturbed :
        Storing(r) /\ (r \in arrDishListByRestID => Full(r))

StoreInv ==
    /\ QueueWhole
    /\ BlockOwn
    /\ BlockSuffix
    /\ StoredIsPrefix
    /\ NeverCut

LEMMA SteadyMenu ==
    ASSUME TypeInv, NEW r \in Steady
    PROVE  /\ r \in Restaurants
           /\ serverMenu[r] \in Menus[r]
           /\ serverMenu[r] \in Seq(Rows)
           /\ \A i \in DOMAIN serverMenu[r] : serverMenu[r][i] \in Rows /\ serverMenu[r][i].rest = r
           /\ \A i, j \in DOMAIN serverMenu[r] : serverMenu[r][i].id = serverMenu[r][j].id => i = j
           /\ DOMAIN serverMenu[r] = 1..Len(serverMenu[r]) /\ Len(serverMenu[r]) \in Nat
<1>1. r \in Restaurants /\ serverMenu[r] \in Menus[r]
  BY DEF Steady, TypeInv, TypeOK
<1> QED BY <1>1, MenuRows

\* A step that changes neither the table nor the running block.
LEMMA QuietStep ==
    ASSUME TypeInv, StoreInv,
           UNCHANGED <<dishtable, block, arrDishListByRestID>>,
           disturbed \subseteq disturbed',
           \A r \in Steady : serverMenu'[r] = serverMenu[r],
           block # None => restID'[block.visit] = restID[block.visit],
           QueueWhole'
    PROVE  StoreInv'
<1>1. block # None => Owner' = Owner
  BY DEF Owner
<1>2. \A r \in Steady : /\ Full(r)' = Full(r) /\ Stored(r)' = Stored(r)
                         /\ \A k \in Nat : Past(k, r)' = Past(k, r) /\ FirstRows(r, k)' = FirstRows(r, k)
  BY DEF Full, Stored, Past, FirstRows
<1>3. BlockOwn'
  BY <1>1 DEF StoreInv, BlockOwn
<1>4. BlockSuffix'
  BY <1>1, <1>2 DEF StoreInv, BlockSuffix
<1>5. StoredIsPrefix'
  BY <1>2 DEF StoreInv, StoredIsPrefix
<1>6. NeverCut'
  BY <1>1, <1>2 DEF StoreInv, NeverCut, Storing
<1> QED BY <1>3, <1>4, <1>5, <1>6 DEF StoreInv

\* The block that starts has the whole menu before it.
LEMMA StartStep ==
    ASSUME TypeInv, StoreInv, QueueOwn, StartBlock
    PROVE  StoreInv'
<1>1. /\ mainQueue \in Seq(Blocks) /\ mainQueue # <<>>
      /\ mainQueue' = Tail(mainQueue) /\ block' = Head(mainQueue)
      /\ UNCHANGED <<restID, serverMenu, dishtable, disturbed, arrDishListByRestID>>
      /\ block = None
  BY DEF StartBlock, Idle, TypeInv, TypeOK
<1>2. /\ block' = mainQueue[1] /\ 1 \in DOMAIN mainQueue /\ block' \in Blocks
      /\ \A i \in DOMAIN mainQueue' : i + 1 \in DOMAIN mainQueue /\ mainQueue'[i] = mainQueue[i + 1]
  BY <1>1
<1>3. QueueWhole'
  BY <1>1, <1>2 DEF StoreInv, QueueWhole
<1>4. BlockOwn'
  BY <1>1, <1>2 DEF QueueOwn, BlockOwn, Owner
<1>5. Owner' \in Steady => block'.rows = serverMenu[Owner']
  BY <1>1, <1>2 DEF StoreInv, QueueWhole, Owner
<1>6. Owner' \in Steady => Past(0, Owner)' /\ FirstRows(Owner, 0)' = {}
  <2> SUFFICES ASSUME Owner' \in Steady PROVE Past(0, Owner)' /\ FirstRows(Owner, 0)' = {}
    OBVIOUS
  <2>1. serverMenu[Owner'] \in Seq(Rows) /\ Len(serverMenu[Owner']) \in Nat
    BY SteadyMenu
  <2> QED BY <1>1, <1>5, <2>1 DEF Past, FirstRows
<1>7. BlockSuffix'
  BY <1>6 DEF BlockSuffix
<1>8. StoredIsPrefix'
  <2>1. \A r : Stored(r)' = Stored(r) /\ serverMenu'[r] = serverMenu[r]
    BY <1>1 DEF Stored
  <2> QED BY <1>1, <2>1 DEF StoreInv, StoredIsPrefix
<1>9. ASSUME NEW r \in Steady \ disturbed PROVE Storing(r)'
  <2>1. Full(r) \/ Stored(r) = {}
    BY <1>1, <1>9 DEF StoreInv, NeverCut, Storing
  <2>2. Full(r)' = Full(r) /\ Stored(r)' = Stored(r)
    BY <1>1 DEF Full, Stored
  <2>3. CASE Full(r)
    BY <2>2, <2>3 DEF Storing
  <2>4. CASE Stored(r) = {} /\ Owner' # r
    BY <2>2, <2>4 DEF Storing
  <2>5. CASE Stored(r) = {} /\ Owner' = r /\ block'.rows # <<>> /\ block' # None
    BY <1>6, <2>2, <2>5 DEF Storing
  <2>6. CASE block'.rows = <<>> /\ Owner' = r
    BY <1>1, <1>5, <2>6 DEF Storing, Full
  <2>7. CASE Stored(r) = {} /\ block' = None
    BY <2>2, <2>7 DEF Storing
  <2> QED BY <2>1, <2>3, <2>4, <2>5, <2>6, <2>7
<1>10. NeverCut'
  BY <1>1, <1>9 DEF StoreInv, NeverCut, Full
<1> QED BY <1>3, <1>4, <1>7, <1>8, <1>10 DEF StoreInv

\* Where a row of a steady menu gets in, exactly the rows before it are there.
LEMMA NextRow ==
    ASSUME TypeInv, StoreInv, InsertRow, Owner \in Steady
    PROVE  \E k \in Nat :
               /\ Past(k, Owner) /\ k + 1 \in 1..Len(serverMenu[Owner])
               /\ Head(block.rows) = serverMenu[Owner][k + 1]
               /\ Stored(Owner) = FirstRows(Owner, k)
<1> DEFINE menu == serverMenu[Owner]
<1>1. block # None /\ block.rows # <<>> /\ CanInsert(Head(block.rows)) /\ block.rows \in Seq(Rows)
  BY BlockType DEF InsertRow, TypeInv
<1>2. PICK k \in Nat : Past(k, Owner) /\ FirstRows(Owner, k) \subseteq dishtable
  BY <1>1 DEF StoreInv, BlockSuffix
<1>3. /\ menu \in Seq(Rows) /\ Len(menu) \in Nat /\ DOMAIN menu = 1..Len(menu)
      /\ \A i \in DOMAIN menu : menu[i].rest = Owner
      /\ \A i, j \in DOMAIN menu : menu[i].id = menu[j].id => i = j
  BY SteadyMenu
<1>4. k + 1 \in 1..Len(menu) /\ Head(block.rows) = menu[k + 1]
  <2>1. Len(block.rows) \in Nat /\ Len(block.rows) > 0
    BY <1>1
  <2>2. Len(block.rows) = Len(menu) - k /\ block.rows[1] = menu[k + 1]
    BY <1>2, <2>1 DEF Past
  <2> QED BY <1>1, <1>3, <2>1, <2>2
<1>5. PICK n \in 0..Len(menu) : Stored(Owner) = {menu[i] : i \in 1..n}
  BY DEF StoreInv, StoredIsPrefix
<1>6. \A old \in dishtable : old.id # menu[k + 1].id
  BY <1>1, <1>4 DEF CanInsert
<1>7. n <= k
  <2>1. n >= k + 1 => menu[k + 1] \in Stored(Owner)
    BY <1>5
  <2>2. menu[k + 1] \notin dishtable
    BY <1>6
  <2> QED BY <1>3, <2>1, <2>2 DEF Stored
<1>8. n >= k
  <2> SUFFICES ASSUME n < k PROVE FALSE
    BY <1>3
  <2>1. n + 1 \in 1..k /\ n + 1 \in DOMAIN menu
    BY <1>3, <1>4
  <2>2. menu[n + 1] \in dishtable /\ menu[n + 1].rest = Owner
    BY <1>2, <1>3, <2>1 DEF FirstRows
  <2>3. menu[n + 1] \in {menu[i] : i \in 1..n}
    BY <1>5, <2>2 DEF Stored
  <2>4. PICK i \in 1..n : menu[n + 1] = menu[i]
    BY <2>3
  <2>5. i \in DOMAIN menu /\ i # n + 1
    BY <1>3, <2>1
  <2> QED BY <1>3, <2>1, <2>4, <2>5
<1>9. n = k
  BY <1>3, <1>7, <1>8
<1> QED BY <1>2, <1>4, <1>5, <1>9 DEF FirstRows

LEMMA InsertStep ==
    ASSUME TypeInv, StoreInv, InsertRow
    PROVE  StoreInv'
<1> DEFINE row == Head(block.rows)
<1>1. /\ block # None /\ block.rows # <<>> /\ block \in Blocks /\ block.rows \in Seq(Rows)
      /\ block' = [block EXCEPT !.rows = Tail(block.rows)]
      /\ dishtable' = dishtable \cup {row}
      /\ UNCHANGED <<serverMenu, restID, mainQueue, disturbed, arrDishListByRestID>>
  BY BlockType DEF InsertRow, TypeInv, TypeOK
<1>2. block'.rows = Tail(block.rows) /\ block'.visit = block.visit /\ Owner' = Owner
  BY <1>1 DEF Blocks, Owner
<1>3. /\ Len(Tail(block.rows)) = Len(block.rows) - 1 /\ Len(block.rows) \in Nat
      /\ \A j \in 1..Len(Tail(block.rows)) : Tail(block.rows)[j] = block.rows[j + 1]
      /\ row \in ToSet(block.rows)
      /\ \A x \in ToSet(Tail(block.rows)) : x \in ToSet(block.rows)
  BY <1>1 DEF ToSet
<1>4. row.rest = Owner
  BY <1>1, <1>3 DEF StoreInv, BlockOwn
<1>5. QueueWhole'
  BY <1>1 DEF StoreInv, QueueWhole
<1>6. BlockOwn'
  BY <1>1, <1>2, <1>3 DEF StoreInv, BlockOwn
<1>7. \A r : r # Owner => Stored(r)' = Stored(r)
  BY <1>1, <1>4 DEF Stored
<1>8. \A r : Full(r) => Full(r)'
  BY <1>1 DEF Full
<1>9. ASSUME Owner \in Steady
      PROVE  \E k \in Nat : /\ k \in 1..Len(serverMenu[Owner])
                             /\ Past(k, Owner)'
                             /\ Stored(Owner)' = FirstRows(Owner, k)
  <2>1. PICK k \in Nat : /\ Past(k, Owner) /\ k + 1 \in 1..Len(serverMenu[Owner])
                         /\ row = serverMenu[Owner][k + 1]
                         /\ Stored(Owner) = FirstRows(Owner, k)
    BY <1>9, NextRow
  <2>2. Len(serverMenu[Owner]) \in Nat
    BY <1>9, SteadyMenu
  <2>3. Past(k + 1, Owner)'
    <3>1. Len(block'.rows) = Len(serverMenu[Owner]) - (k + 1)
      BY <1>2, <1>3, <2>1, <2>2 DEF Past
    <3>2. \A j \in 1..Len(block'.rows) : block'.rows[j] = serverMenu[Owner][(k + 1) + j]
      <4> SUFFICES ASSUME NEW j \in 1..Len(block'.rows)
                   PROVE  block'.rows[j] = serverMenu[Owner][(k + 1) + j]
        OBVIOUS
      <4>1. j + 1 \in 1..Len(block.rows) /\ block'.rows[j] = block.rows[j + 1]
        BY <1>2, <1>3
      <4>2. block.rows[j + 1] = serverMenu[Owner][k + (j + 1)]
        BY <2>1, <4>1 DEF Past
      <4>3. k + (j + 1) = (k + 1) + j
        BY <1>2, <1>3
      <4> QED BY <4>1, <4>2, <4>3
    <3> QED BY <1>1, <1>2, <2>1, <2>2, <3>1, <3>2 DEF Past
  <2>4. Stored(Owner)' = Stored(Owner) \cup {row}
    BY <1>1, <1>2, <1>4 DEF Stored
  <2>5. FirstRows(Owner, k + 1) = FirstRows(Owner, k) \cup {serverMenu[Owner][k + 1]}
    <3>1. 1..(k + 1) = (1..k) \cup {k + 1}
      OBVIOUS
    <3> QED BY <3>1 DEF FirstRows
  <2> QED BY <2>1, <2>3, <2>4, <2>5
<1>10. \A k : FirstRows(Owner, k)' = FirstRows(Owner, k)
  BY <1>1, <1>2 DEF FirstRows
<1>11. BlockSuffix'
  <2> SUFFICES ASSUME Owner \in Steady
               PROVE  \E k \in Nat : Past(k, Owner)' /\ FirstRows(Owner, k)' \subseteq dishtable'
    BY <1>2 DEF BlockSuffix
  <2>1. Stored(Owner)' \subseteq dishtable'
    BY DEF Stored
  <2> QED BY <1>9, <1>10, <2>1
<1>12. StoredIsPrefix'
  <2> SUFFICES ASSUME NEW r \in Steady
               PROVE  \E n \in 0..Len(serverMenu[r]) :
                          Stored(r)' = {serverMenu[r][i] : i \in 1..n}
    BY <1>1 DEF StoredIsPrefix
  <2>1. CASE r = Owner
    <3>1. PICK k \in Nat : k \in 1..Len(serverMenu[Owner]) /\ Stored(Owner)' = FirstRows(Owner, k)
      BY <1>9, <2>1
    <3>2. k \in 0..Len(serverMenu[Owner])
      BY <3>1
    <3> QED BY <1>2, <2>1, <3>1, <3>2 DEF FirstRows
  <2>2. CASE r # Owner
    BY <1>7, <2>2 DEF StoreInv, StoredIsPrefix
  <2> QED BY <2>1, <2>2
<1>13. ASSUME NEW r \in Steady \ disturbed PROVE Storing(r)'
  <2>1. Storing(r)
    BY <1>13 DEF StoreInv, NeverCut
  <2>2. CASE r # Owner
    BY <1>1, <1>2, <1>7, <1>8, <2>1, <2>2 DEF Storing
  <2>3. CASE r = Owner
    <3>1. PICK k \in Nat : /\ k \in 1..Len(serverMenu[Owner])
                           /\ Past(k, Owner)'
                           /\ Stored(Owner)' = FirstRows(Owner, k)
      BY <1>9, <2>3
    <3>2. CASE block'.rows # <<>>
      <4>1. block' # None
        <5>1. Tail(block.rows) \in Seq(Rows)
          BY <1>1
        <5>2. block' \in Blocks
          BY <1>1, <5>1 DEF Blocks
        <5> QED BY <5>2, NoneAssumption
      <4> QED BY <1>2, <1>10, <2>3, <3>1, <3>2, <4>1 DEF Storing
    <3>3. CASE block'.rows = <<>>
      <4>1. Len(serverMenu[r]) = k /\ DOMAIN serverMenu[r] = 1..k
        <5>1. DOMAIN serverMenu[r] = 1..Len(serverMenu[r]) /\ Len(serverMenu[r]) \in Nat
          BY SteadyMenu
        <5>2. 0 = Len(serverMenu[r]) - k
          BY <1>1, <1>2, <2>3, <3>1, <3>3 DEF Past
        <5> QED BY <5>1, <5>2
      <4>2. \A i \in 1..k : serverMenu[r][i] \in dishtable'
        <5>1. FirstRows(r, k) \subseteq dishtable'
          BY <2>3, <3>1 DEF Stored
        <5> QED BY <5>1 DEF FirstRows
      <4> QED BY <1>1, <4>1, <4>2 DEF Storing, Full
    <3> QED BY <3>2, <3>3
  <2> QED BY <2>2, <2>3
<1>14. NeverCut'
  BY <1>1, <1>8, <1>13 DEF StoreInv, NeverCut
<1> QED BY <1>5, <1>6, <1>11, <1>12, <1>14 DEF StoreInv

\* The row that fails is one that cannot be inserted, or one that is there.
LEMMA FailStep ==
    ASSUME TypeInv, StoreInv, InsertFails
    PROVE  StoreInv'
<1>1. /\ block # None /\ block.rows # <<>> /\ block \in Blocks /\ block.rows \in Seq(Rows)
      /\ ~CanInsert(Head(block.rows))
      /\ block' = [block EXCEPT !.rows = <<>>]
      /\ UNCHANGED <<serverMenu, restID, dishtable, mainQueue, disturbed,
                     arrDishListByRestID>>
  BY BlockType DEF InsertFails, TypeInv, TypeOK
<1>2. block'.rows = <<>> /\ block'.visit = block.visit /\ Owner' = Owner
  BY <1>1 DEF Blocks, Owner
<1>3. QueueWhole'
  BY <1>1 DEF StoreInv, QueueWhole
<1>4. BlockOwn' /\ BlockSuffix'
  BY <1>2 DEF BlockOwn, BlockSuffix, ToSet
<1>5. StoredIsPrefix'
  BY <1>1 DEF StoreInv, StoredIsPrefix, Stored
<1>6. ASSUME NEW r \in Steady \ disturbed PROVE Storing(r)'
  <2>1. Full(r)' = Full(r) /\ Stored(r)' = Stored(r)
    BY <1>1 DEF Full, Stored
  <2>2. CASE Full(r)
    BY <2>1, <2>2 DEF Storing
  <2>3. CASE Stored(r) = {} /\ Owner # r
    BY <1>2, <2>1, <2>3 DEF Storing
  <2>4. ASSUME Owner = r, NEW k \in Nat, Past(k, r), Stored(r) = FirstRows(r, k)
        PROVE  Full(r)
    <3> DEFINE menu == serverMenu[r]
    <3>1. /\ menu \in Seq(Rows) /\ Len(menu) \in Nat /\ DOMAIN menu = 1..Len(menu)
          /\ \A i \in DOMAIN menu : menu[i] \in Rows /\ menu[i].rest = r
          /\ \A i, j \in DOMAIN menu : menu[i].id = menu[j].id => i = j
      BY SteadyMenu
    <3>2. Len(block.rows) \in Nat /\ Len(block.rows) > 0
      BY <1>1
    <3>3. k + 1 \in 1..Len(menu) /\ Head(block.rows) = menu[k + 1]
      <4>1. Len(block.rows) = Len(menu) - k /\ block.rows[1] = menu[k + 1]
        BY <2>4, <3>2 DEF Past
      <4>2. k + 1 \in 1..Len(menu)
        BY <3>1, <3>2, <4>1
      <4> QED BY <1>1, <3>2, <4>1, <4>2
    <3>4. \A i \in 1..k : menu[i] \in dishtable
      BY <2>4 DEF FirstRows, Stored
    <3>5. CASE menu[k + 1].id \notin Insertable
      <4>1. \A i \in DOMAIN menu : i \in 1..k \/ k + 1 \in 1..i
        BY <3>1, <3>3
      <4> QED BY <3>4, <3>5, <4>1 DEF Full
    <3>6. ASSUME NEW old \in dishtable, old.id = menu[k + 1].id PROVE FALSE
      <4>1. old \in Rows /\ old.rest = r
        BY <3>1, <3>3, <3>6 DEF TypeInv, TypeOK
      <4>2. old \in FirstRows(r, k)
        BY <2>4, <4>1 DEF Stored
      <4>3. PICK i \in 1..k : old = menu[i]
        BY <4>2 DEF FirstRows
      <4>4. i \in DOMAIN menu /\ k + 1 \in DOMAIN menu /\ i # k + 1
        BY <3>1, <3>3
      <4> QED BY <3>1, <3>6, <4>3, <4>4
    <3> QED BY <1>1, <3>3, <3>5, <3>6 DEF CanInsert
  <2> QED BY <1>1, <1>6, <2>1, <2>2, <2>3, <2>4 DEF StoreInv, NeverCut, Storing
<1>7. NeverCut'
  BY <1>1, <1>6 DEF StoreInv, NeverCut, Full
<1> QED BY <1>3, <1>4, <1>5, <1>7 DEF StoreInv

\* A refusal by the connection is noted, and nothing is claimed any more of
\* the restaurant it hit.
LEMMA RefuseStep ==
    ASSUME TypeInv, StoreInv, InsertRefused
    PROVE  StoreInv'
<1>1. /\ block # None /\ block \in Blocks
      /\ block' = [block EXCEPT !.rows = <<>>]
      /\ disturbed' = disturbed \cup {Owner}
      /\ UNCHANGED <<serverMenu, restID, dishtable, mainQueue, arrDishListByRestID>>
  BY DEF InsertRefused, TypeInv, TypeOK, Owner
<1>2. block'.rows = <<>> /\ block'.visit = block.visit /\ Owner' = Owner
  BY <1>1 DEF Blocks, Owner
<1>3. QueueWhole'
  BY <1>1 DEF StoreInv, QueueWhole
<1>4. BlockOwn' /\ BlockSuffix'
  BY <1>2 DEF BlockOwn, BlockSuffix, ToSet
<1>5. StoredIsPrefix'
  BY <1>1 DEF StoreInv, StoredIsPrefix, Stored
<1>6. \A r : Full(r)' = Full(r) /\ Stored(r)' = Stored(r)
  BY <1>1 DEF Full, Stored
<1>7. NeverCut'
  BY <1>1, <1>2, <1>6 DEF StoreInv, NeverCut, Storing
<1> QED BY <1>3, <1>4, <1>5, <1>7 DEF StoreInv

\* The restaurant that is remembered now has its rows.
LEMMA FinishStep ==
    ASSUME TypeInv, StoreInv, FinishBlock
    PROVE  StoreInv'
<1>1. /\ block # None /\ block.rows = <<>> /\ block' = None
      /\ arrDishListByRestID' = arrDishListByRestID \cup {Owner}
      /\ UNCHANGED <<serverMenu, restID, dishtable, mainQueue, disturbed>>
  BY DEF FinishBlock, Owner
<1>2. QueueWhole' /\ BlockOwn' /\ BlockSuffix'
  BY <1>1 DEF StoreInv, QueueWhole, BlockOwn, BlockSuffix
<1>3. StoredIsPrefix'
  BY <1>1 DEF StoreInv, StoredIsPrefix, Stored
<1>4. \A r : Full(r)' = Full(r) /\ Stored(r)' = Stored(r)
  BY <1>1 DEF Full, Stored
<1>5. \A r \in Steady \ disturbed : Full(r) \/ (Stored(r) = {} /\ Owner # r)
  BY <1>1 DEF StoreInv, NeverCut, Storing
<1>6. NeverCut'
  BY <1>1, <1>4, <1>5 DEF StoreInv, NeverCut, Storing
<1> QED BY <1>2, <1>3, <1>6 DEF StoreInv

\* A restart leaves the table; the restaurant whose insertion it cut is noted.
LEMMA RestartStep ==
    ASSUME TypeInv, StoreInv, Relaunch
    PROVE  StoreInv'
<1>1. /\ mainQueue' = <<>> /\ block' = None /\ arrDishListByRestID' = {}
      /\ disturbed' = disturbed \cup CutShort
      /\ UNCHANGED <<serverMenu, dishtable>>
  BY Fresh DEF Relaunch
<1>2. QueueWhole' /\ BlockOwn' /\ BlockSuffix'
  BY <1>1 DEF QueueWhole, BlockOwn, BlockSuffix
<1>3. StoredIsPrefix'
  BY <1>1 DEF StoreInv, StoredIsPrefix, Stored
<1>4. \A r : Full(r)' = Full(r) /\ Stored(r)' = Stored(r)
  BY <1>1 DEF Full, Stored
<1>5. ASSUME NEW r \in Steady \ disturbed' PROVE Full(r) \/ Stored(r) = {}
  <2>1. Storing(r)
    BY <1>1, <1>5 DEF StoreInv, NeverCut
  <2>2. ~(block # None /\ Owner = r /\ block.rows # <<>>)
    BY <1>1, <1>5 DEF CutShort, Owner
  <2> QED BY <2>1, <2>2 DEF Storing
<1>6. NeverCut'
  BY <1>1, <1>4, <1>5 DEF NeverCut, Storing
<1> QED BY <1>2, <1>3, <1>6 DEF StoreInv

LEMMA AppearNotes ==
    ASSUME NEW v, NEW r, NEW list, Appear(v, r, list)
    PROVE  disturbed \subseteq disturbed'
BY DEF Appear, ShowStored, QueryRefused, Download

\* A step of another queue or of the user; a menu that arrives arrives whole.
LEMMA QuietSteps ==
    ASSUME TypeInv, StoreInv,
           \/ \E r \in Restaurants : OpenDishes(r) \/ ServiceUpdates(r)
           \/ Reappear \/ LeaveDishes
           \/ \E v \in Visits : RequestFails(v) \/ MenuArrives(v)
           \/ UNCHANGED vars
    PROVE  StoreInv'
<1>1. ASSUME NEW r \in Restaurants, OpenDishes(r) PROVE StoreInv'
  <2>1. /\ visit' = visit + 1 /\ visit \in Nat
        /\ restID' = [restID EXCEPT ![visit'] = r]
        /\ restID \in [Visits -> Restaurants \cup {None}]
        /\ block = None
        /\ UNCHANGED <<serverMenu, dishtable, block, arrDishListByRestID, mainQueue>>
        /\ disturbed \subseteq disturbed'
    BY <1>1, AppearNotes DEF OpenDishes, Idle, TypeInv, TypeOK
  <2>2. \A i \in DOMAIN mainQueue : restID'[mainQueue[i].visit] = restID[mainQueue[i].visit]
    <3> SUFFICES ASSUME NEW i \in DOMAIN mainQueue
                 PROVE  restID'[mainQueue[i].visit] = restID[mainQueue[i].visit]
      OBVIOUS
    <3>1. mainQueue[i] \in Blocks
      BY DEF TypeInv, TypeOK
    <3>2. mainQueue[i].visit \in Nat /\ mainQueue[i].visit <= visit
      BY <3>1 DEF Blocks, Visits, TypeInv, VisitInv
    <3>3. mainQueue[i].visit # visit'
      BY <2>1, <3>2
    <3> QED BY <2>1, <3>3, <3>1 DEF Blocks
  <2>3. QueueWhole'
    BY <2>1, <2>2 DEF StoreInv, QueueWhole
  <2> QED BY <2>1, <2>3, QuietStep
<1>2. ASSUME NEW r \in Restaurants, ServiceUpdates(r) PROVE StoreInv'
  <2>1. UNCHANGED <<dishtable, block, disturbed, arrDishListByRestID, restID, mainQueue>>
    BY <1>2 DEF ServiceUpdates, memoryVars
  <2>2. \A s \in Steady : serverMenu'[s] = serverMenu[s]
    <3> SUFFICES ASSUME NEW s \in Steady PROVE serverMenu'[s] = serverMenu[s]
      OBVIOUS
    <3>1. PICK m \in Menus[r] \ {serverMenu[r]} : serverMenu' = [serverMenu EXCEPT ![r] = m]
      BY <1>2 DEF ServiceUpdates
    <3>2. r \notin Steady
      BY <3>1 DEF Steady, TypeInv, TypeOK
    <3> QED BY <3>1, <3>2 DEF TypeInv
  <2>3. QueueWhole'
    BY <2>1, <2>2 DEF StoreInv, QueueWhole
  <2> QED BY <2>1, <2>2, <2>3, QuietStep
<1>3. CASE Reappear \/ LeaveDishes
  <2>1. /\ UNCHANGED <<serverMenu, dishtable, block, arrDishListByRestID, restID, mainQueue>>
        /\ disturbed \subseteq disturbed'
    BY <1>3, AppearNotes DEF Reappear, LeaveDishes
  <2>2. QueueWhole'
    BY <2>1 DEF StoreInv, QueueWhole
  <2> QED BY <2>1, <2>2, QuietStep
<1>4. ASSUME NEW v \in Visits, RequestFails(v) PROVE StoreInv'
  <2>1. UNCHANGED <<serverMenu, dishtable, block, disturbed, arrDishListByRestID, restID, mainQueue>>
    BY <1>4 DEF RequestFails
  <2>2. QueueWhole'
    BY <2>1 DEF StoreInv, QueueWhole
  <2> QED BY <2>1, <2>2, QuietStep
<1>5. ASSUME NEW v \in Visits, MenuArrives(v) PROVE StoreInv'
  <2> DEFINE arrived == [visit |-> v, rows |-> serverMenu[restID[v]]]
  <2>1. /\ UNCHANGED <<serverMenu, dishtable, block, disturbed, arrDishListByRestID, restID>>
        /\ mainQueue' = Append(mainQueue, arrived) /\ mainQueue \in Seq(Blocks)
    BY <1>5 DEF MenuArrives, TypeInv, TypeOK
  <2>2. \A i \in DOMAIN mainQueue' : mainQueue'[i] = arrived \/ \E j \in DOMAIN mainQueue : mainQueue'[i] = mainQueue[j]
    BY <2>1
  <2>3. arrived.visit = v /\ arrived.rows = serverMenu[restID[arrived.visit]]
    OBVIOUS
  <2> HIDE DEF arrived
  <2>4. QueueWhole'
    BY <2>1, <2>2, <2>3 DEF StoreInv, QueueWhole
  <2> QED BY <2>1, <2>4, QuietStep
<1>6. CASE UNCHANGED vars
  <2>1. UNCHANGED <<serverMenu, dishtable, block, disturbed, arrDishListByRestID, restID, mainQueue>>
    BY <1>6 DEF vars, memoryVars
  <2>2. QueueWhole'
    BY <2>1 DEF StoreInv, QueueWhole
  <2> QED BY <2>1, <2>2, QuietStep
<1> QED BY <1>1, <1>2, <1>3, <1>4, <1>5, <1>6

LEMMA StoreStep == TypeInv /\ QueueOwn /\ StoreInv /\ [Next]_vars => StoreInv'
BY QuietSteps, StartStep, InsertStep, FailStep, RefuseStep, FinishStep, RestartStep
   DEF Next, NoMenuArrives

LEMMA InitStore == Init => StoreInv
<1> SUFFICES ASSUME Init PROVE StoreInv
  OBVIOUS
<1>1. mainQueue = <<>> /\ block = None /\ dishtable = {} /\ arrDishListByRestID = {}
  BY Fresh DEF Init
<1>2. \A r : Stored(r) = {}
  BY <1>1 DEF Stored
<1>3. StoredIsPrefix
  <2> SUFFICES ASSUME NEW r \in Steady
               PROVE  \E n \in 0..Len(serverMenu[r]) : Stored(r) = {serverMenu[r][i] : i \in 1..n}
    BY DEF StoredIsPrefix
  <2>1. 0 \in 0..Len(serverMenu[r])
    BY InitType, SteadyMenu
  <2>2. {serverMenu[r][i] : i \in 1..0} = {}
    OBVIOUS
  <2> QED BY <1>2, <2>1, <2>2
<1>4. QueueWhole /\ BlockOwn /\ BlockSuffix /\ NeverCut
  BY <1>1, <1>2 DEF QueueWhole, BlockOwn, BlockSuffix, NeverCut, Storing
<1> QED BY <1>3, <1>4 DEF StoreInv

\* The invariant of the table beside those of the types and of the queue.
TableInv == TypeInv /\ QueueOwn /\ MenuOfRestaurant /\ StoreInv

LEMMA TableAlways == Spec => []TableInv
<1>1. Init => TableInv
  BY InitType, InitStore DEF TableInv, Init, QueueOwn, MenuOfRestaurant
<1>2. TableInv /\ [Next]_vars => TableInv'
  BY TypeStep, RestStep, StoreStep DEF TableInv
<1> QED BY <1>1, <1>2, PTL DEF Spec

\* Of a menu that stays the same the database holds a beginning, whatever was
\* killed, refused or repeated on the way.
THEOREM StoredIsPrefixAlways == Spec => []StoredIsPrefix
<1>1. TableInv => StoredIsPrefix
  BY DEF TableInv, StoreInv
<1> QED BY TableAlways, <1>1, PTL

\* Only a refusal by the connection or a kill lets the flag of a restaurant get
\* ahead of its rows.
THEOREM CachedMeansStoredAlways == Spec => []CachedMeansStored
<1>1. TableInv => CachedMeansStored
  BY DEF TableInv, StoreInv, NeverCut, Full, CachedMeansStored
<1> QED BY TableAlways, <1>1, PTL
-----------------------------------------------------------------------------
\* Some element of a set that has one: the fold's choice.
Some(t) == CHOOSE x \in t : TRUE

LEMMA SomeIn ==
    ASSUME NEW t, t # {}
    PROVE  Some(t) \in t
BY DEF Some

Choice(D) == [t \in SUBSET D |-> Some(t)]

LEMMA ChoiceChooses ==
    ASSUME NEW D
    PROVE  /\ Chooses(Choice(D), D)
           /\ \A t \in SUBSET D : Choice(D)[t] = Some(t)
BY SomeIn DEF Choice, Chooses

\* g sums w up, element by element, in the order of the fold.
Summed(g, D, w) ==
    \A t \in SUBSET D : g[t] = IF t = {} THEN 0 ELSE w[Some(t)] + g[t \ {Some(t)}]

\* w[i] more for the element i.
Adding(D, w) == [i \in D |-> [k \in Nat |-> w[i] + k]]

\* A sum over each subset of D exists.
LEMMA SumExists ==
    ASSUME NEW D, IsFiniteSet(D), NEW w \in [D -> Nat]
    PROVE  \E g \in [SUBSET D -> Nat] : Summed(g, D, w)
<1> DEFINE ch == Choice(D)
<1> DEFINE step == Adding(D, w)
<1>1. step \in [D -> [Nat -> Nat]]
  BY DEF Adding
<1>2. Chooses(ch, D)
  BY ChoiceChooses
<1>3. PICK g \in [SUBSET D -> Nat] : Solution(g, D, 0, step, ch)
  <2> HIDE DEF ch, step
  <2> QED
    BY <1>1, <1>2, Recursion
<1>4. ASSUME NEW t \in SUBSET D, t # {}
      PROVE  g[t] = w[Some(t)] + g[t \ {Some(t)}]
  <2>1. g[t] = step[ch[t]][g[t \ {ch[t]}]]
    <3> HIDE DEF ch, step
    <3> QED
      BY <1>3, <1>4 DEF Solution
  <2>2. ch[t] \in D /\ g[t \ {ch[t]}] \in Nat
    BY <1>2, <1>4 DEF Chooses
  <2>3. ch[t] = Some(t)
    BY ChoiceChooses
  <2>4. step[ch[t]][g[t \ {ch[t]}]] = w[ch[t]] + g[t \ {ch[t]}]
    <3> HIDE DEF ch
    <3> QED
      BY <2>2 DEF Adding
  <2> QED
    BY <2>1, <2>3, <2>4
<1>5. g[{}] = 0
  <2> HIDE DEF ch, step
  <2> QED
    BY <1>3 DEF Solution
<1> QED
  BY <1>4, <1>5 DEF Summed

\* The order in which the sum is taken does not matter.
LEMMA SumAddsUp ==
    ASSUME NEW D, IsFiniteSet(D), NEW w \in [D -> Nat], NEW g, Summed(g, D, w)
    PROVE  AddsUp(g, D, w)
<1> DEFINE ch == Choice(D)
<1>1. Chooses(ch, D) /\ \A t \in SUBSET D : ch[t] = Some(t)
  BY ChoiceChooses
<1> HIDE DEF ch
<1>2. \A t \in SUBSET D : g[t] = IF t = {} THEN 0 ELSE w[ch[t]] + g[t \ {ch[t]}]
  BY <1>1 DEF Summed
<1> QED
  BY <1>1, <1>2, AnyOrder

\* What holds of the empty set, and of a set if it holds without one of its
\* elements, holds of every finite set: here, to have a number.
LEMMA StaysNat ==
    ASSUME NEW D, IsFiniteSet(D), NEW g, g[{}] \in Nat,
           \A t \in SUBSET D : t # {} => \E c \in t : g[t \ {c}] \in Nat => g[t] \in Nat
    PROVE  \A t \in SUBSET D : g[t] \in Nat
<1> DEFINE T == {n \in Nat : \A t \in SUBSET D : Cardinality(t) = n => g[t] \in Nat}
<1>1. \A t \in SUBSET D : IsFiniteSet(t) /\ Cardinality(t) \in Nat
  BY FS_Subset, FS_CardinalityType
<1>2. 0 \in T
  <2>1. \A t \in SUBSET D : Cardinality(t) = 0 => t = {}
    BY <1>1, FS_EmptySet
  <2> QED
    BY <2>1
<1>3. ASSUME NEW n \in Nat, n \in T PROVE n + 1 \in T
  <2> SUFFICES ASSUME NEW t \in SUBSET D, Cardinality(t) = n + 1 PROVE g[t] \in Nat
    OBVIOUS
  <2>1. t # {}
    BY ONLY n \in Nat, Cardinality(t) = n + 1, FS_EmptySet
  <2>2. PICK c \in t : g[t \ {c}] \in Nat => g[t] \in Nat
    BY <2>1
  <2>3. t \ {c} \in SUBSET D /\ Cardinality(t \ {c}) = n
    BY <1>1, FS_RemoveElement
  <2> QED
    BY <1>3, <2>2, <2>3
<1>4. Nat \subseteq T
  <2> HIDE DEF T
  <2> QED
    BY <1>2, <1>3, Induct
<1> QED
  BY <1>1, <1>4

\* What row i of a list adds to the price of an order.
Worth(list, selected) ==
    [i \in DOMAIN list |-> IF list[i].dish \in selected THEN list[i].price ELSE 0]

LEMMA ListFinite ==
    ASSUME NEW list \in Seq(Rows)
    PROVE  IsFiniteSet(DOMAIN list) /\ \A i \in DOMAIN list : list[i] \in Rows /\ list[i].price \in Nat
<1>1. DOMAIN list = 1..Len(list) /\ Len(list) \in Nat /\ \A i \in DOMAIN list : list[i] \in Rows
  OBVIOUS
<1>2. \A row \in Rows : row.price \in Nat
  BY DishMenuAssumption
<1>3. IsFiniteSet(1..Len(list))
  BY <1>1, FS_Interval
<1> QED
  BY <1>1, <1>2, <1>3

\* The price so far, and row i.
Counted(list, selected, i, k) ==
    IF list[i].dish \in selected THEN k + list[i].price ELSE k

LEMMA CountedIs ==
    ASSUME NEW list \in Seq(Rows), NEW selected, NEW i \in DOMAIN list, NEW k \in Nat
    PROVE  /\ Worth(list, selected)[i] \in Nat
           /\ Counted(list, selected, i, k) = Worth(list, selected)[i] + k
           /\ Counted(list, selected, i, k) \in Nat
<1>1. list[i].price \in Nat
  BY ListFinite
<1>2. Worth(list, selected)[i] = IF list[i].dish \in selected THEN list[i].price ELSE 0
  BY DEF Worth
<1> QED
  BY <1>1, <1>2 DEF Counted

\* The price of an order is a sum over the rows of the list.
LEMMA OrderPriceAdds ==
    ASSUME NEW list \in Seq(Rows), list # None, NEW selected
    PROVE  \E h : /\ AddsUp(h, DOMAIN list, Worth(list, selected))
                  /\ OrderPrice(list, selected) = h[DOMAIN list]
<1> DEFINE D == DOMAIN list
<1> DEFINE w == Worth(list, selected)
<1> DEFINE Body(g) == [t \in SUBSET D |->
                           IF t = {} THEN 0 ELSE Counted(list, selected, Some(t), g[t \ {Some(t)}])]
<1> DEFINE iter == CHOOSE g : g = Body(g)
<1>1. IsFiniteSet(D)
  BY ListFinite
<1>2. \A i \in D : w[i] \in Nat
  <2>1. 0 \in Nat
    OBVIOUS
  <2> QED
    BY <2>1, CountedIs
<1>3. \A i \in D, k \in Nat : Counted(list, selected, i, k) = w[i] + k /\ Counted(list, selected, i, k) \in Nat
  <2> SUFFICES ASSUME NEW i \in D, NEW k \in Nat
               PROVE  Counted(list, selected, i, k) = w[i] + k /\ Counted(list, selected, i, k) \in Nat
    OBVIOUS
  <2> QED
    BY ONLY list \in Seq(Rows), i \in DOMAIN list, k \in Nat, CountedIs
<1>4. w \in [D -> Nat]
  <2>1. w = [i \in D |-> w[i]]
    BY DEF Worth
  <2> HIDE DEF w, D
  <2> QED
    BY <1>2, <2>1
<1>5. \A t \in SUBSET D : t # {} => Some(t) \in t
  BY SomeIn
<1>6. OrderPrice(list, selected) = iter[D]
  BY DEF OrderPrice, FoldSeq, FoldFunction, FoldFunctionOnSet, MapThenFoldSet, Some, Counted
<1> HIDE DEF w, D
<1>7. \E g : g = Body(g)
  <2>1. PICK g \in [SUBSET D -> Nat] : Summed(g, D, w)
    BY <1>1, <1>4, SumExists
  <2>2. ASSUME NEW t \in SUBSET D
        PROVE  g[t] = IF t = {} THEN 0 ELSE Counted(list, selected, Some(t), g[t \ {Some(t)}])
    <3>1. g[t] = IF t = {} THEN 0 ELSE w[Some(t)] + g[t \ {Some(t)}]
      BY <2>1 DEF Summed
    <3>2. t \ {Some(t)} \in SUBSET D /\ g[t \ {Some(t)}] \in Nat
      OBVIOUS
    <3>3. t # {} => Counted(list, selected, Some(t), g[t \ {Some(t)}]) = w[Some(t)] + g[t \ {Some(t)}]
      BY <1>3, <1>5, <3>2
    <3> QED
      BY <3>1, <3>3
  <2>3. g = Body(g)
    BY <2>2
  <2> QED
    BY <2>3
<1>8. iter = Body(iter)
  <2> HIDE DEF Body
  <2> QED
    BY <1>7
<1> HIDE DEF iter
<1>9. ASSUME NEW t \in SUBSET D
      PROVE  iter[t] = IF t = {} THEN 0 ELSE Counted(list, selected, Some(t), iter[t \ {Some(t)}])
  <2>1. iter[t] = Body(iter)[t]
    BY <1>8
  <2> QED
    BY <2>1
<1>10. \A t \in SUBSET D : iter[t] \in Nat
  <2>1. iter[{}] \in Nat
    <3>1. iter[{}] = IF {} = {} THEN 0 ELSE Counted(list, selected, Some({}), iter[{} \ {Some({})}])
      BY <1>9
    <3> QED
      BY <3>1
  <2>2. ASSUME NEW t \in SUBSET D, t # {}
        PROVE  \E c \in t : iter[t \ {c}] \in Nat => iter[t] \in Nat
    <3>1. Some(t) \in t /\ Some(t) \in D
      BY <1>5, <2>2
    <3>2. iter[t \ {Some(t)}] \in Nat => iter[t] \in Nat
      BY <1>3, <1>9, <2>2, <3>1
    <3> QED
      BY <3>1, <3>2
  <2> QED
    BY <1>1, <2>1, <2>2, StaysNat
<1>11. Summed(iter, D, w)
  <2> SUFFICES ASSUME NEW t \in SUBSET D
               PROVE  iter[t] = IF t = {} THEN 0 ELSE w[Some(t)] + iter[t \ {Some(t)}]
    BY DEF Summed
  <2>1. t \ {Some(t)} \in SUBSET D /\ iter[t \ {Some(t)}] \in Nat
    BY <1>10
  <2>2. t # {} => Counted(list, selected, Some(t), iter[t \ {Some(t)}]) = w[Some(t)] + iter[t \ {Some(t)}]
    BY <1>3, <1>5, <2>1
  <2> QED
    BY <1>9, <2>2
<1>12. AddsUp(iter, D, w)
  BY <1>1, <1>4, <1>11, SumAddsUp
<1> QED
  BY <1>6, <1>12 DEF w, D

\* The rows of a menu whose dish is selected, and what they cost.
Wanted(menu, selected) == {i \in DOMAIN menu : menu[i].dish \in selected}

Prices(menu, selected) == [i \in Wanted(menu, selected) |-> menu[i].price]

LEMMA WantedFinite ==
    ASSUME NEW menu \in Seq(Rows), NEW selected
    PROVE  /\ IsFiniteSet(Wanted(menu, selected))
           /\ Prices(menu, selected) \in [Wanted(menu, selected) -> Nat]
<1>1. IsFiniteSet(DOMAIN menu) /\ \A i \in DOMAIN menu : menu[i].price \in Nat
  BY ListFinite
<1>2. Wanted(menu, selected) \subseteq DOMAIN menu
  BY DEF Wanted
<1>3. IsFiniteSet(Wanted(menu, selected))
  BY <1>1, <1>2, FS_Subset
<1> QED
  BY <1>1, <1>2, <1>3 DEF Prices

\* What an order costs by the menu is a sum over the rows that are wanted.
LEMMA TruePriceAdds ==
    ASSUME serverMenu[restID[visit]] \in Seq(Rows), NEW selected
    PROVE  LET menu == serverMenu[restID[visit]]
           IN \E g : /\ AddsUp(g, Wanted(menu, selected), Prices(menu, selected))
                     /\ TruePrice(selected) = g[Wanted(menu, selected)]
<1> DEFINE menu == serverMenu[restID[visit]]
<1> DEFINE D == Wanted(menu, selected)
<1> DEFINE w == Prices(menu, selected)
<1> DEFINE Body(g) == [t \in SUBSET D |->
                           IF t = {} THEN 0
                           ELSE menu[Some(t)].price + g[t \ {Some(t)}]]
<1> DEFINE iter == CHOOSE g : g = Body(g)
<1>1. IsFiniteSet(D) /\ w \in [D -> Nat]
  BY WantedFinite
<1>2. \A i \in D : w[i] = menu[i].price
  BY DEF Prices
<1>3. \A t \in SUBSET D : t # {} => Some(t) \in t
  BY SomeIn
<1>4. TruePrice(selected) = iter[D]
  BY DEF TruePrice, MapThenSumSet, MapThenFoldSet, Wanted, Some
<1> HIDE DEF w, D
<1>5. ASSUME NEW g, NEW t \in SUBSET D
      PROVE  Body(g)[t] = IF t = {} THEN 0 ELSE w[Some(t)] + g[t \ {Some(t)}]
  <2>1. Body(g)[t] = IF t = {} THEN 0 ELSE menu[Some(t)].price + g[t \ {Some(t)}]
    OBVIOUS
  <2>2. t # {} => w[Some(t)] = menu[Some(t)].price
    BY <1>2, <1>3
  <2> QED
    BY <2>1, <2>2
<1>6. \E g : g = Body(g)
  <2>1. PICK g \in [SUBSET D -> Nat] : Summed(g, D, w)
    BY <1>1, SumExists
  <2>2. \A t \in SUBSET D : g[t] = Body(g)[t]
    <3> HIDE DEF Body
    <3> QED
      BY <1>5, <2>1 DEF Summed
  <2>3. g = Body(g)
    BY <2>2
  <2> QED
    BY <2>3
<1> HIDE DEF Body
<1>7. iter = Body(iter)
  BY <1>6
<1> HIDE DEF iter
<1>8. Summed(iter, D, w)
  BY <1>5, <1>7 DEF Summed
<1>9. AddsUp(iter, D, w)
  BY <1>1, <1>8, SumAddsUp
<1> QED
  BY <1>4, <1>9 DEF w, D

-----------------------------------------------------------------------------
\* A list has no row twice, and no row that the menu has not; all of them, if
\* it is whole.
SameRows(list, menu, whole) ==
    /\ \A i, j \in DOMAIN list : list[i] = list[j] => i = j
    /\ ToSet(list) \subseteq ToSet(menu)
    /\ whole => ToSet(menu) \subseteq ToSet(list)

\* What such a list makes of an order, beside what the menu says.
LEMMA PriceOfList ==
    ASSUME NEW list \in Seq(Rows), list # None, NEW selected, NEW whole,
           serverMenu[restID[visit]] \in Seq(Rows),
           \A i, j \in DOMAIN serverMenu[restID[visit]] :
               serverMenu[restID[visit]][i] = serverMenu[restID[visit]][j] => i = j,
           SameRows(list, serverMenu[restID[visit]], whole)
    PROVE  /\ OrderPrice(list, selected) \in Nat /\ TruePrice(selected) \in Nat
           /\ OrderPrice(list, selected) <= TruePrice(selected)
           /\ whole => OrderPrice(list, selected) = TruePrice(selected)
<1> DEFINE menu == serverMenu[restID[visit]]
<1> DEFINE E == DOMAIN list
<1> DEFINE A == Wanted(menu, selected)
<1> DEFINE w == Prices(menu, selected)
<1> DEFINE u == Worth(list, selected)
<1> DEFINE f == [a \in E |-> CHOOSE i \in DOMAIN menu : menu[i] = list[a]]
<1>1. PICK h : AddsUp(h, E, u) /\ OrderPrice(list, selected) = h[E]
  BY OrderPriceAdds
<1>2. PICK g : AddsUp(g, A, w) /\ TruePrice(selected) = g[A]
  BY TruePriceAdds
<1>3. IsFiniteSet(E) /\ IsFiniteSet(A) /\ w \in [A -> Nat]
  BY ListFinite, WantedFinite
<1>4. A \subseteq DOMAIN menu
  BY DEF Wanted
<1>5. \A a \in E : f[a] \in DOMAIN menu /\ menu[f[a]] = list[a]
  <2> SUFFICES ASSUME NEW a \in E PROVE f[a] \in DOMAIN menu /\ menu[f[a]] = list[a]
    OBVIOUS
  <2>1. list[a] \in ToSet(list)
    BY DEF ToSet
  <2>2. list[a] \in ToSet(menu)
    BY <2>1 DEF SameRows
  <2>3. \E i \in DOMAIN menu : menu[i] = list[a]
    BY <2>2 DEF ToSet
  <2> QED
    BY <2>3
<1>6. f \in [E -> DOMAIN menu]
  BY <1>5
<1> HIDE DEF f
<1>7. \A a, b \in E : f[a] = f[b] => a = b
  BY <1>5 DEF SameRows
<1>8. \A a \in E : u[a] = IF f[a] \in A THEN w[f[a]] ELSE 0
  BY <1>5 DEF Worth, Prices, Wanted
<1> DEFINE B == Reached(f, E, A)
<1>9. h[E] = g[B]
  <2> DEFINE D == DOMAIN menu
  <2>1. A \subseteq D /\ f \in [E -> D]
    BY <1>4, <1>6
  <2> HIDE DEF D, E, A, w, u
  <2>2. AddsUp(g, A, w) /\ AddsUp(h, E, u)
    BY <1>1, <1>2
  <2>3. Mirrors(E, A, D, f, w, g, u, h)
    BY <1>3, <1>7, <1>8, <2>1, <2>2 DEF Mirrors
  <2> QED
    BY <2>3, SameSum
<1>10. B \in SUBSET A
  BY DEF Reached
<1>11. g[B] <= g[A] /\ g[B] \in Nat /\ g[A] \in Nat
  <2> HIDE DEF A, w, B
  <2> QED
    BY <1>2, <1>3, <1>10, SmallerSum DEF AddsUp
<1>12. ASSUME whole PROVE B = A
  <2> SUFFICES ASSUME NEW i \in A PROVE \E a \in E : f[a] = i
    BY DEF Reached
  <2>1. i \in DOMAIN menu
    BY <1>4
  <2>2. PICK a \in E : list[a] = menu[i]
    <3>1. menu[i] \in ToSet(menu)
      BY <2>1 DEF ToSet
    <3>2. menu[i] \in ToSet(list)
      BY <1>12, <3>1 DEF SameRows
    <3> QED
      BY <3>2 DEF ToSet
  <2>3. f[a] \in DOMAIN menu /\ menu[f[a]] = menu[i]
    BY <1>5, <2>2
  <2>4. f[a] = i
    BY <2>1, <2>3
  <2> QED
    BY <2>4
<1> QED
  BY <1>1, <1>2, <1>9, <1>11, <1>12

\* The content of a screen whose menu stays the same is that of the menu, as
\* far as it could be stored; nothing has been offered before it has a list.
ShownInv ==
    onScreen /\ restID[visit] \in Steady =>
        IF dishList = None THEN offered = {}
        ELSE SameRows(dishList, serverMenu[restID[visit]], Intact(restID[visit]))

\* The database answers with each row once: with a beginning of the menu, and
\* with all of it if every row could be stored.
LEMMA QuerySame ==
    ASSUME TypeInv, StoreInv, NEW r \in Steady, r \in arrDishListByRestID
    PROVE  SameRows(Query(r), serverMenu[r], Intact(r))
<1> DEFINE menu == serverMenu[r]
<1>1. IsFiniteSet(Stored(r)) /\ Cardinality(Stored(r)) \in Nat
  <2>1. Stored(r) \in SUBSET dishtable
    BY DEF Stored
  <2> QED
    BY <2>1, FS_Subset, FS_CardinalityType DEF TypeInv
<1>2. \E f : f \in Bijection(1..Cardinality(Stored(r)), Stored(r))
  BY <1>1, FS_CardinalityType DEF ExistsBijection
<1>3. PICK f \in [1..Cardinality(Stored(r)) -> Stored(r)] :
          IsInjective(f) /\ \A row \in Stored(r) : \E i \in 1..Cardinality(Stored(r)) : f[i] = row
  BY <1>2 DEF Bijection, Injection, Surjection
<1>4. Query(r) \in [1..Cardinality(Stored(r)) -> Stored(r)] /\ IsInjective(Query(r))
  BY <1>3 DEF Query, SetToSeq
<1>5. \A i, j \in DOMAIN Query(r) : Query(r)[i] = Query(r)[j] => i = j
  BY <1>4 DEF IsInjective
<1>6. Stored(r) \subseteq ToSet(menu)
  <2>1. PICK n \in 0..Len(menu) : Stored(r) = {menu[i] : i \in 1..n}
    BY DEF StoreInv, StoredIsPrefix
  <2>2. DOMAIN menu = 1..Len(menu) /\ Len(menu) \in Nat
    BY SteadyMenu
  <2> QED
    BY <2>1, <2>2 DEF ToSet
<1>7. ToSet(Query(r)) \subseteq Stored(r)
  BY <1>4 DEF ToSet
<1>8. Stored(r) \subseteq ToSet(Query(r))
  <2> DEFINE D == 1..Cardinality(Stored(r))
  <2>1. Cardinality(D) = Cardinality(Stored(r)) /\ IsFiniteSet(D)
    BY <1>1, FS_Interval
  <2>2. Query(r) \in Injection(D, Stored(r))
    BY <1>4 DEF Injection
  <2>3. Query(r) \in Surjection(D, Stored(r))
    <3> HIDE DEF D
    <3> QED
      BY <1>1, <2>1, <2>2, FS_Injection
  <2> QED
    BY <2>3 DEF Surjection, ToSet
<1>9. ASSUME Intact(r) PROVE ToSet(menu) \subseteq Stored(r)
  <2> SUFFICES ASSUME NEW i \in DOMAIN menu PROVE menu[i] \in Stored(r)
    BY DEF ToSet
  <2>1. DOMAIN menu = 1..Len(menu) /\ Len(menu) \in Nat /\ menu[i].rest = r
    BY SteadyMenu
  <2>2. \A j \in 1..i : menu[j].id \in Insertable
    BY <1>9, <2>1 DEF Intact
  <2>3. Full(r)
    BY <1>9 DEF Intact, StoreInv, NeverCut
  <2> QED
    BY <2>1, <2>2, <2>3 DEF Full, Stored
<1> QED
  BY <1>5, <1>6, <1>7, <1>8, <1>9 DEF SameRows

\* Rows that are displayed are the list, unless the list was empty before, and
\* so, if it is whole, the menu.
LEMMA DisplaySame ==
    ASSUME NEW list, NEW src \in Seq(Rows), NEW menu, NEW whole, Display(list, src),
           SameRows(src, menu, whole), list = None \/ SameRows(list, menu, whole)
    PROVE  dishList' # None /\ SameRows(dishList', menu, whole)
<1>1. <<>> \in Seq(Rows)
  OBVIOUS
<1>2. dishList' = src \/ (list = <<>> /\ dishList' = <<>>)
  BY DEF Display, Convert
<1> QED
  BY <1>1, <1>2, NoneAssumption

\* A screen that appears shows its menu, from the database or as before.
LEMMA AppearSame ==
    ASSUME TypeInv, StoreInv, NEW v \in Visits, NEW r \in Steady, NEW list,
           list = None \/ (list = dishList /\ SameRows(list, serverMenu[r], Intact(r))),
           Appear(v, r, list)
    PROVE  IF dishList' = None THEN offered' = {}
           ELSE SameRows(dishList', serverMenu[r], r \notin disturbed' /\ Intact(r))
<1>1. CASE ShowStored(r, list)
  <2>1. Display(list, Query(r)) /\ r \in arrDishListByRestID
    BY <1>1 DEF ShowStored
  <2>2. SameRows(Query(r), serverMenu[r], Intact(r))
    BY <2>1, QuerySame
  <2>3. Query(r) \in Seq(Rows)
    BY QueryRows DEF TypeInv, TypeOK
  <2>4. dishList' # None /\ SameRows(dishList', serverMenu[r], Intact(r))
    BY <2>1, <2>2, <2>3, DisplaySame
  <2> QED
    BY <2>4 DEF SameRows
<1>2. CASE QueryRefused(r, list)
  <2>1. Display(list, <<>>) /\ r \in disturbed'
    BY <1>2 DEF QueryRefused
  <2>2. <<>> \in Seq(Rows) /\ SameRows(<<>>, serverMenu[r], FALSE)
    BY DEF SameRows, ToSet
  <2>3. list = None \/ SameRows(list, serverMenu[r], FALSE)
    BY DEF SameRows
  <2>4. dishList' # None /\ SameRows(dishList', serverMenu[r], FALSE)
    BY <2>1, <2>2, <2>3, DisplaySame
  <2> QED
    BY <2>1, <2>4 DEF SameRows
<1>3. CASE Download(v, r, list)
  BY <1>3 DEF Download, SameRows
<1> QED
  BY <1>1, <1>2, <1>3 DEF Appear

\* The claim about a screen's list stays, or becomes that of an incomplete one.
LEMMA ShownKept ==
    ASSUME TypeInv, ShownInv,
           UNCHANGED <<visit, onScreen, restID, dishList, offered>>,
           disturbed \subseteq disturbed',
           \A r \in Steady : serverMenu'[r] = serverMenu[r]
    PROVE  ShownInv'
<1>1. \A r \in Steady : Intact(r)' => Intact(r)
  BY DEF Intact
<1> QED
  BY <1>1 DEF ShownInv, SameRows

LEMMA ShownStep ==
    ASSUME TypeInv, TypeInv', StoreInv, ShownInv, [Next]_vars
    PROVE  ShownInv'
<1>1. ASSUME NEW r \in Restaurants, OpenDishes(r) PROVE ShownInv'
  <2>1. /\ visit' \in Visits /\ restID' = [restID EXCEPT ![visit'] = r]
        /\ Appear(visit', r, None) /\ UNCHANGED serverMenu
        /\ restID \in [Visits -> Restaurants \cup {None}]
    BY <1>1 DEF OpenDishes, TypeInv, TypeOK, VisitInv
  <2>2. restID'[visit'] = r
    BY <2>1
  <2>3. r \in Steady => IF dishList' = None THEN offered' = {}
                        ELSE SameRows(dishList', serverMenu[r],
                                      r \notin disturbed' /\ Intact(r))
    BY <2>1, AppearSame
  <2>4. Intact(r)' => r \notin disturbed' /\ Intact(r)
    BY <2>1, AppearNotes DEF Intact
  <2> QED
    BY <2>1, <2>2, <2>3, <2>4 DEF ShownInv, SameRows
<1>2. CASE Reappear
  <2>1. /\ onScreen /\ visit \in Visits /\ Appear(visit, restID[visit], dishList)
        /\ UNCHANGED <<serverMenu, visit, restID, onScreen>>
    BY <1>2 DEF Reappear, TypeInv, VisitInv
  <2>2. restID[visit] \in Steady => IF dishList' = None THEN offered' = {}
                        ELSE SameRows(dishList', serverMenu[restID[visit]],
                                      /\ restID[visit] \notin disturbed'
                                      /\ Intact(restID[visit]))
    BY <2>1, AppearSame DEF ShownInv
  <2>3. Intact(restID[visit])' => /\ restID[visit] \notin disturbed'
                                  /\ Intact(restID[visit])
    BY <2>1, AppearNotes DEF Intact
  <2> QED
    BY <2>1, <2>2, <2>3 DEF ShownInv, SameRows
<1>3. CASE LeaveDishes \/ Relaunch
  BY <1>3 DEF LeaveDishes, Relaunch, ShownInv
<1>4. ASSUME NEW v \in Visits, RequestFails(v) \/ MenuArrives(v) PROVE ShownInv'
  BY <1>4, ShownKept DEF RequestFails, MenuArrives
<1>5. CASE StartBlock
  <2>1. UNCHANGED <<serverMenu, disturbed, visit, restID, onScreen>>
    BY <1>5 DEF StartBlock
  <2>2. CASE onScreen /\ Head(mainQueue).visit = visit
    <3> DEFINE r == restID[visit]
    <3> SUFFICES ASSUME r \in Steady PROVE ShownInv'
      BY <2>1 DEF ShownInv
    <3>1. Display(dishList, Head(mainQueue).rows)
      BY <1>5, <2>2 DEF StartBlock
    <3>2. 1 \in DOMAIN mainQueue /\ Head(mainQueue) = mainQueue[1]
      BY <1>5 DEF StartBlock, TypeInv, TypeOK
    <3>3. Head(mainQueue).rows = serverMenu[r]
      BY <2>2, <3>2 DEF StoreInv, QueueWhole
    <3>4. serverMenu[r] \in Seq(Rows) /\ SameRows(serverMenu[r], serverMenu[r], Intact(r))
      BY SteadyMenu DEF SameRows
    <3>5. dishList = None \/ SameRows(dishList, serverMenu[r], Intact(r))
      BY <2>2 DEF ShownInv
    <3>6. dishList' # None /\ SameRows(dishList', serverMenu[r], Intact(r))
      BY <3>1, <3>3, <3>4, <3>5, DisplaySame
    <3>7. Intact(r)' = Intact(r)
      BY <2>1 DEF Intact
    <3> QED
      BY <2>1, <3>6, <3>7 DEF ShownInv
  <2>3. CASE ~(onScreen /\ Head(mainQueue).visit = visit)
    BY <1>5, <2>3, ShownKept DEF StartBlock
  <2> QED
    BY <2>2, <2>3
<1>6. CASE InsertRow \/ InsertFails \/ InsertRefused \/ FinishBlock
  BY <1>6, ShownKept DEF InsertRow, InsertFails, InsertRefused, FinishBlock
<1>7. ASSUME NEW r \in Restaurants, ServiceUpdates(r) PROVE ShownInv'
  <2>1. \A s \in Steady : serverMenu'[s] = serverMenu[s]
    <3> SUFFICES ASSUME NEW s \in Steady PROVE serverMenu'[s] = serverMenu[s]
      OBVIOUS
    <3>1. PICK m \in Menus[r] \ {serverMenu[r]} : serverMenu' = [serverMenu EXCEPT ![r] = m]
      BY <1>7 DEF ServiceUpdates
    <3>2. r \notin Steady
      BY <3>1 DEF Steady, TypeInv, TypeOK
    <3> QED
      BY <3>1, <3>2 DEF TypeInv
  <2> QED
    BY <1>7, <2>1, ShownKept DEF ServiceUpdates, memoryVars
<1>8. CASE UNCHANGED vars
  BY <1>8, ShownKept DEF vars, memoryVars
<1> QED
  BY <1>1, <1>2, <1>3, <1>4, <1>5, <1>6, <1>7, <1>8 DEF Next, NoMenuArrives

\* What the screen charges, in a state of the invariant.
LEMMA ShownPrice ==
    ASSUME TypeInv, ShownInv, onScreen, restID[visit] \in Steady,
           NEW selected \in SUBSET OfferedDishes
    PROVE  /\ OrderPrice(dishList, selected) <= TruePrice(selected)
           /\ Intact(restID[visit]) => OrderPrice(dishList, selected) = TruePrice(selected)
<1> DEFINE menu == serverMenu[restID[visit]]
<1>1. /\ menu \in Seq(Rows)
      /\ \A i, j \in DOMAIN menu : menu[i] = menu[j] => i = j
  BY SteadyMenu
<1>2. CASE dishList = None
  <2>1. selected = {}
    BY <1>2 DEF ShownInv, OfferedDishes
  <2>2. OrderPrice(dishList, selected) = 0
    BY <1>2 DEF OrderPrice
  <2>3. PICK g : AddsUp(g, Wanted(menu, selected), Prices(menu, selected))
                 /\ TruePrice(selected) = g[Wanted(menu, selected)]
    BY <1>1, TruePriceAdds
  <2>4. Wanted(menu, selected) = {}
    BY <2>1 DEF Wanted
  <2>5. TruePrice(selected) = 0
    BY <2>3, <2>4 DEF AddsUp
  <2> QED
    BY <2>2, <2>5
<1>3. CASE dishList # None
  <2>1. SameRows(dishList, menu, Intact(restID[visit])) /\ dishList \in Seq(Rows)
    BY <1>3 DEF ShownInv, TypeInv, TypeOK
  <2> QED
    BY <1>1, <1>3, <2>1, PriceOfList
<1> QED
  BY <1>2, <1>3

\* The invariant of the table, with that of the screen.
LEMMA ShownAlways == Spec => [](TypeInv /\ ShownInv)
<1> DEFINE I == TableInv /\ ShownInv
<1>1. Init => I
  <2>1. Init => ShownInv
    BY DEF Init, ShownInv
  <2>2. Init => TableInv
    BY InitType, InitStore DEF TableInv, Init, QueueOwn, MenuOfRestaurant
  <2> QED
    BY <2>1, <2>2
<1>2. I /\ [Next]_vars => I'
  <2> SUFFICES ASSUME TableInv, ShownInv, [Next]_vars PROVE TableInv' /\ ShownInv'
    OBVIOUS
  <2>1. TableInv'
    BY TypeStep, RestStep, StoreStep DEF TableInv
  <2>2. ShownInv'
    BY <2>1, ShownStep DEF TableInv
  <2> QED
    BY <2>1, <2>2
<1>3. I => TypeInv /\ ShownInv
  BY DEF TableInv
<1> HIDE DEF I
<1> QED
  BY <1>1, <1>2, <1>3, PTL DEF Spec

\* An order from a menu that stays the same costs what the menu says, after any
\* number of restarts, if all its rows can be stored and no insertion or query
\* for them was cut short.
THEOREM PriceExactAlways == Spec => []PriceExact
<1>1. TypeInv /\ ShownInv => PriceExact
  BY ShownPrice DEF PriceExact
<1> QED
  BY ShownAlways, <1>1, PTL

\* It is never too dear, whatever rows were lost.
THEOREM NeverOverchargedAlways == Spec => []NeverOvercharged
<1>1. TypeInv /\ ShownInv => NeverOvercharged
  BY ShownPrice DEF NeverOvercharged
<1> QED
  BY ShownAlways, <1>1, PTL
=============================================================================
