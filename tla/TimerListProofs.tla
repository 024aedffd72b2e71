--------------------------- MODULE TimerListProofs ---------------------------
(* The theorems of TimerList: the list is what its reads show it to be, it     *)
(* stays in order, what is written down stays within its bounds, and together  *)
(* its differences do what a deadline for each timer would.                    *)
EXTENDS TimerList, SequenceTheorems, FiniteSetTheorems, WellFoundedInduction, TLAPS

Entry == [timer : Timers, d : Int]

----------------------------------------------------------------------------
(* Numbers have a least one, those up to a bound a greatest, and so have those *)
(* of a finite set.                                                            *)
LEMMA LeastExists ==
    ASSUME NEW S \in SUBSET Nat, S # {}
    PROVE  \E x \in S : \A y \in S : x <= y
<1> DEFINE R == OpToRel(<, Nat)
<1>1. IsWellFoundedOn(R, Nat)
  BY NatLessThanWellFounded
<1>2. \A x, y \in Nat : ~(<<y, x>> \in R) => x <= y
  BY DEF OpToRel
<1> HIDE DEF R
<1>3. PICK x \in S : \A y \in S : ~(<<y, x>> \in R)
  BY <1>1, WFMin
<1> QED BY <1>2, <1>3

LEMMA GreatestExists ==
    ASSUME NEW n \in Nat, NEW S \in SUBSET (0 .. n), S # {}
    PROVE  \E x \in S : \A y \in S : y <= x
<1> DEFINE D == {n - x : x \in S}
<1>1. D \in SUBSET Nat /\ D # {}
  <2>1. \A x \in S : x \in 0 .. n
    OBVIOUS
  <2>2. \A x \in S : n - x \in Nat
    BY <2>1
  <2> QED BY <2>2
<1>2. PICK d \in D : \A e \in D : d <= e
  BY <1>1, LeastExists
<1>3. PICK x \in S : d = n - x
  BY <1>2
<1>4. \A y \in S : n - y \in D
  OBVIOUS
<1>5. \A y \in S : n - x <= n - y
  BY <1>2, <1>3, <1>4
<1> QED BY <1>5

LEMMA MaxOfFinite ==
    ASSUME NEW S \in SUBSET Nat, S # {}, IsFiniteSet(S)
    PROVE  Max(S) \in S /\ \A y \in S : y <= Max(S)
<1> DEFINE c(k) == Cardinality(S \cap (0 .. k))
           C == {c(k) : k \in Nat}
<1>1. Cardinality(S) \in Nat
  BY FS_CardinalityType
<1>2. \A k \in Nat : IsFiniteSet(S \cap (0 .. k)) /\ c(k) \in 0 .. Cardinality(S)
  <2> TAKE k \in Nat
  <2>1. S \cap (0 .. k) \subseteq S
    OBVIOUS
  <2>2. IsFiniteSet(S \cap (0 .. k)) /\ c(k) <= Cardinality(S)
    BY <2>1, FS_Subset
  <2> QED BY <2>2, <1>1, FS_CardinalityType
<1>3. PICK k \in Nat : \A j \in Nat : c(j) <= c(k)
  <2>1. C \in SUBSET (0 .. Cardinality(S)) /\ C # {}
    BY <1>2
  <2>2. PICK m \in C : \A y \in C : y <= m
    BY <1>1, <2>1, GreatestExists
  <2> QED BY <2>2
<1>4. S \subseteq 0 .. k
  <2> SUFFICES ASSUME NEW x \in S, ~(x <= k) PROVE FALSE
    OBVIOUS
  <2>1. S \cap (0 .. k) \subseteq S \cap (0 .. x) /\ x \in S \cap (0 .. x)
        /\ ~(x \in S \cap (0 .. k))
    OBVIOUS
  <2>2. S \cap (0 .. k) # S \cap (0 .. x)
    BY <2>1
  <2>3. IsFiniteSet(S \cap (0 .. x)) /\ c(x) \in Nat /\ c(k) \in Nat
    BY <1>2, <1>1
  <2>4. c(k) < c(x)
    BY <2>1, <2>2, <2>3, FS_Subset
  <2> QED BY <1>3, <2>3, <2>4
<1>5. \E x \in S : \A y \in S : y <= x
  BY <1>4, GreatestExists
<1>6. \E x \in S : \A y \in S : x >= y
  BY <1>5
<1>7. Max(S) \in S /\ \A y \in S : Max(S) >= y
  BY <1>6 DEF Max
<1> QED BY <1>7

----------------------------------------------------------------------------
(* A sequence without one of its entries, and with one more.                   *)
LEMMA RemoveAtIs ==
    ASSUME NEW S, NEW s \in Seq(S), NEW i \in 1 .. Len(s)
    PROVE  /\ RemoveAt(s, i) \in Seq(S) /\ Len(RemoveAt(s, i)) = Len(s) - 1
           /\ \A j \in 1 .. Len(s) - 1 : RemoveAt(s, i)[j] = IF j < i THEN s[j] ELSE s[j + 1]
<1> DEFINE a == SubSeq(s, 1, i - 1)
           b == SubSeq(s, i + 1, Len(s))
<1>1. Len(s) \in Nat
  BY LenProperties
<1>2. a \in Seq(S) /\ Len(a) = i - 1 /\ \A j \in 1 .. i - 1 : a[j] = s[j]
  BY <1>1, SubSeqProperties
<1>3. b \in Seq(S) /\ Len(b) = Len(s) - i /\ \A j \in 1 .. Len(s) - i : b[j] = s[i + j]
  BY <1>1, SubSeqProperties
<1> HIDE DEF a, b
<1>4. /\ a \o b \in Seq(S) /\ Len(a \o b) = Len(s) - 1
      /\ \A j \in 1 .. Len(s) - 1 : (a \o b)[j] = IF j <= i - 1 THEN a[j] ELSE b[j - (i - 1)]
  <2>1. /\ a \o b \in Seq(S) /\ Len(a \o b) = Len(a) + Len(b)
        /\ \A j \in 1 .. Len(a) + Len(b) : (a \o b)[j] = IF j <= Len(a) THEN a[j] ELSE b[j - Len(a)]
    BY <1>2, <1>3, ConcatProperties
  <2>2. Len(a) = i - 1 /\ Len(a) + Len(b) = Len(s) - 1
    BY <1>1, <1>2, <1>3
  <2> QED BY <2>1, <2>2
<1>5. \A j \in 1 .. Len(s) - 1 : (a \o b)[j] = IF j < i THEN s[j] ELSE s[j + 1]
  <2> TAKE j \in 1 .. Len(s) - 1
  <2>1. CASE j < i
    BY <1>1, <1>2, <1>4, <2>1
  <2>2. CASE ~(j < i)
    <3>1. j - (i - 1) \in 1 .. Len(s) - i /\ i + (j - (i - 1)) = j + 1
      BY <1>1, <2>2
    <3> QED BY <1>1, <1>3, <1>4, <2>2, <3>1
  <2> QED BY <2>1, <2>2
<1> QED BY <1>4, <1>5 DEF RemoveAt, a, b

Inserted(g, s, i, e) ==
    /\ Len(g) = Len(s) + 1
    /\ \A j \in 1 .. Len(s) + 1 : g[j] = IF j < i THEN s[j] ELSE IF j = i THEN e ELSE s[j - 1]

LEMMA InsertAtIs ==
    ASSUME NEW S, NEW s \in Seq(S), NEW i \in 1 .. Len(s), NEW e \in S
    PROVE  InsertAt(s, i, e) \in Seq(S) /\ Inserted(InsertAt(s, i, e), s, i, e)
<1> DEFINE a == SubSeq(s, 1, i - 1)
           b == SubSeq(s, i, Len(s))
           c == a \o <<e>>
<1>1. Len(s) \in Nat
  BY LenProperties
<1>2. a \in Seq(S) /\ Len(a) = i - 1 /\ \A j \in 1 .. i - 1 : a[j] = s[j]
  BY <1>1, SubSeqProperties
<1>3. b \in Seq(S) /\ Len(b) = Len(s) - i + 1 /\ \A j \in 1 .. Len(s) - i + 1 : b[j] = s[i + j - 1]
  BY <1>1, SubSeqProperties
<1>4. <<e>> \in Seq(S) /\ Len(<<e>>) = 1 /\ <<e>>[1] = e
  OBVIOUS
<1> HIDE DEF a, b
<1>5. /\ c \in Seq(S) /\ Len(c) = i
      /\ \A j \in 1 .. i : c[j] = IF j <= i - 1 THEN a[j] ELSE <<e>>[j - (i - 1)]
  BY <1>1, <1>2, <1>4, ConcatProperties
<1>6. \A j \in 1 .. i : c[j] = IF j < i THEN s[j] ELSE e
  BY <1>1, <1>2, <1>4, <1>5
<1> HIDE DEF c
<1>7. /\ c \o b \in Seq(S) /\ Len(c \o b) = Len(s) + 1
      /\ \A j \in 1 .. Len(s) + 1 : (c \o b)[j] = IF j <= i THEN c[j] ELSE b[j - i]
  <2>1. /\ c \o b \in Seq(S) /\ Len(c \o b) = Len(c) + Len(b)
        /\ \A j \in 1 .. Len(c) + Len(b) : (c \o b)[j] = IF j <= Len(c) THEN c[j] ELSE b[j - Len(c)]
    BY <1>3, <1>5, ConcatProperties
  <2>2. Len(c) = i /\ Len(c) + Len(b) = Len(s) + 1
    BY <1>1, <1>3, <1>5
  <2> QED BY <2>1, <2>2
<1>8. \A j \in 1 .. Len(s) + 1 :
         (c \o b)[j] = IF j < i THEN s[j] ELSE IF j = i THEN e ELSE s[j - 1]
  <2> TAKE j \in 1 .. Len(s) + 1
  <2>1. CASE j <= i
    BY <1>1, <1>6, <1>7, <2>1
  <2>2. CASE ~(j <= i)
    <3>1. j - i \in 1 .. Len(s) - i + 1 /\ i + (j - i) - 1 = j - 1
      BY <1>1, <2>2
    <3> QED BY <1>1, <1>3, <1>7, <2>2, <3>1
  <2> QED BY <2>1, <2>2
<1> QED BY <1>7, <1>8 DEF InsertAt, Inserted, a, b, c

----------------------------------------------------------------------------
(* Until is the one sequence of sums.                                          *)
AddsUp(f, l, n) == f[0] = 0 /\ \A i \in 1 .. n : f[i] = f[i - 1] + l[i].d
Sums(f, l, n) == f \in [0 .. n -> Int] /\ AddsUp(f, l, n)

LEMMA SumsExist ==
    ASSUME NEW l \in Seq(Entry)
    PROVE  \E f : Sums(f, l, Len(l))
<1> DEFINE Bad == {n \in 0 .. Len(l) : ~ \E f : Sums(f, l, n)}
<1>1. Len(l) \in Nat /\ \A i \in 1 .. Len(l) : l[i] \in Entry
  BY LenProperties, ElementOfSeq
<1>2. \A i \in 1 .. Len(l) : l[i].d \in Int
  BY <1>1 DEF Entry
<1> SUFFICES ASSUME Bad # {} PROVE FALSE
  BY <1>1
<1>3. PICK n \in Bad : \A m \in Bad : n <= m
  <2>1. Bad \in SUBSET Nat
    BY <1>1
  <2> QED BY <2>1, LeastExists
<1>4. CASE n = 0
  <2>1. Sums([i \in 0 .. 0 |-> 0], l, 0)
    BY DEF Sums, AddsUp
  <2> QED BY <1>3, <1>4, <2>1
<1>5. CASE n # 0
  <2>1. n - 1 \in 0 .. Len(l) /\ ~(n - 1 \in Bad) /\ n \in 1 .. Len(l)
    BY <1>1, <1>3, <1>5
  <2>2. PICK f : Sums(f, l, n - 1)
    BY <2>1
  <2> DEFINE g == [i \in 0 .. n |-> IF i = n THEN f[n - 1] + l[n].d ELSE f[i]]
  <2>3. \A i \in 0 .. n - 1 : f[i] \in Int
    BY <2>2 DEF Sums, AddsUp
  <2>4. g \in [0 .. n -> Int]
    BY <1>2, <2>1, <2>3
  <2>5. g[0] = 0
    BY <2>1, <2>2 DEF Sums, AddsUp
  <2>6. \A i \in 1 .. n : g[i] = g[i - 1] + l[i].d
    <3> TAKE i \in 1 .. n
    <3>1. CASE i = n
      BY <2>1, <3>1
    <3>2. CASE i # n
      <4>1. i \in 1 .. n - 1 /\ i - 1 \in 0 .. n - 1
        BY <2>1, <3>2
      <4>2. g[i] = f[i] /\ g[i - 1] = f[i - 1]
        BY <2>1, <4>1
      <4> QED BY <2>2, <4>1, <4>2 DEF Sums, AddsUp
    <3> QED BY <3>1, <3>2
  <2> HIDE DEF g
  <2>7. Sums(g, l, n)
    BY <2>4, <2>5, <2>6 DEF Sums, AddsUp
  <2> QED BY <1>3, <2>7
<1> QED BY <1>4, <1>5

(* Two sequences that add up alike are one.                                    *)
LEMMA SumsAreOne ==
    ASSUME NEW n \in Nat, NEW l, NEW f, NEW g, AddsUp(f, l, n), AddsUp(g, l, n)
    PROVE  \A i \in 0 .. n : f[i] = g[i]
<1> DEFINE Bad == {i \in 0 .. n : f[i] # g[i]}
<1> SUFFICES ASSUME Bad # {} PROVE FALSE
  OBVIOUS
<1>1. PICK i \in Bad : \A j \in Bad : i <= j
  <2>1. Bad \in SUBSET Nat
    OBVIOUS
  <2> QED BY <2>1, LeastExists
<1>0. ~(0 \in Bad)
  BY DEF AddsUp
<1>2. i \in 1 .. n /\ i - 1 \in 0 .. n /\ ~(i - 1 \in Bad)
  BY <1>0, <1>1
<1>3. f[i - 1] = g[i - 1]
  BY <1>2
<1>4. f[i] = f[i - 1] + l[i].d /\ g[i] = g[i - 1] + l[i].d
  BY <1>2 DEF AddsUp
<1> QED BY <1>1, <1>3, <1>4

LEMMA UntilSums ==
    ASSUME NEW l \in Seq(Entry)
    PROVE  Sums(Until(l), l, Len(l))
<1> DEFINE F(f) == [i \in 0 .. Len(l) |-> IF i = 0 THEN 0 ELSE f[i - 1] + l[i].d]
<1>1. Len(l) \in Nat
  BY LenProperties
<1>2. PICK f : Sums(f, l, Len(l))
  BY SumsExist
<1>3. f = F(f)
  <2>1. f = [i \in 0 .. Len(l) |-> f[i]]
    BY <1>2 DEF Sums, AddsUp
  <2>2. \A i \in 0 .. Len(l) : f[i] = IF i = 0 THEN 0 ELSE f[i - 1] + l[i].d
    BY <1>1, <1>2 DEF Sums, AddsUp
  <2> QED BY <2>1, <2>2
<1> DEFINE u == CHOOSE g : g = F(g)
<1>4. u = F(u)
  BY <1>3
<1>5. Until(l) = u
  BY DEF Until
<1> HIDE DEF u
<1>6. u[0] = 0 /\ \A i \in 1 .. Len(l) : u[i] = u[i - 1] + l[i].d
  <2>1. \A i \in 0 .. Len(l) : u[i] = IF i = 0 THEN 0 ELSE u[i - 1] + l[i].d
    BY <1>4
  <2> QED BY <1>1, <2>1
<1>7. \A i \in 0 .. Len(l) : u[i] = f[i]
  <2>1. AddsUp(u, l, Len(l)) /\ AddsUp(f, l, Len(l))
    BY <1>2, <1>6 DEF Sums, AddsUp
  <2> QED BY <1>1, <2>1, SumsAreOne
<1>8. \A i \in 0 .. Len(l) : u[i] \in Int
  BY <1>2, <1>7 DEF Sums, AddsUp
<1>9. u \in [0 .. Len(l) -> Int]
  BY <1>4, <1>8
<1> QED BY <1>5, <1>6, <1>9 DEF Sums, AddsUp

(* What adds up like the list is its Until.                                    *)
LEMMA UntilIs ==
    ASSUME NEW l \in Seq(Entry), NEW f, Sums(f, l, Len(l))
    PROVE  \A i \in 0 .. Len(l) : Until(l)[i] = f[i]
<1>1. Len(l) \in Nat
  BY LenProperties
<1>2. Sums(Until(l), l, Len(l))
  BY UntilSums
<1>3. AddsUp(Until(l), l, Len(l)) /\ AddsUp(f, l, Len(l))
  BY <1>2 DEF Sums
<1> QED BY <1>1, <1>3, SumsAreOne

(* With no difference below 0, the times are in the order of the list.         *)
LEMMA UntilRises ==
    ASSUME NEW l \in Seq(Entry), \A i \in 2 .. Len(l) : l[i].d >= 0
    PROVE  \A i, j \in 1 .. Len(l) : i <= j => Until(l)[i] <= Until(l)[j]
<1> DEFINE u == Until(l)
<1>1. Len(l) \in Nat
  BY LenProperties
<1>2. (\A i \in 0 .. Len(l) : u[i] \in Int) /\ \A i \in 1 .. Len(l) : u[i] = u[i - 1] + l[i].d
  BY UntilSums DEF Sums, AddsUp
<1>d. \A i \in 1 .. Len(l) : l[i].d \in Int
  <2>1. \A i \in 1 .. Len(l) : l[i] \in Entry
    BY ElementOfSeq
  <2> QED BY <2>1 DEF Entry
<1> HIDE DEF u
<1>3. SUFFICES ASSUME NEW i \in 1 .. Len(l)
               PROVE  \A j \in 1 .. Len(l) : i <= j => u[i] <= u[j]
  BY DEF u
<1> DEFINE Bad == {j \in i .. Len(l) : ~(u[i] <= u[j])}
<1> SUFFICES ASSUME Bad # {} PROVE FALSE
  BY <1>1
<1>4. PICK j \in Bad : \A k \in Bad : j <= k
  <2>1. Bad \in SUBSET Nat
    BY <1>1
  <2> QED BY <2>1, LeastExists
<1>5. j \in 2 .. Len(l) /\ j - 1 \in i .. Len(l) /\ ~(j - 1 \in Bad)
  BY <1>1, <1>2, <1>4
<1>6. u[i] <= u[j - 1] /\ u[j] = u[j - 1] + l[j].d /\ l[j].d >= 0 /\ l[j].d \in Int
      /\ u[i] \in Int /\ u[j - 1] \in Int
  BY <1>1, <1>2, <1>5, <1>d
<1> QED BY <1>4, <1>6

----------------------------------------------------------------------------
(* refresh, add and del: the entries they leave, and when those are due.       *)
LEMMA EntriesOf ==
    ASSUME NEW l \in Seq(Entry)
    PROVE  /\ Len(l) \in Nat /\ DOMAIN l = 1 .. Len(l)
           /\ \A i \in 1 .. Len(l) : /\ l[i] \in Entry /\ l[i].timer \in Timers /\ l[i].d \in Int
                                     /\ Until(l)[i] = Until(l)[i - 1] + l[i].d
           /\ Until(l)[0] = 0 /\ \A i \in 0 .. Len(l) : Until(l)[i] \in Int
<1>1. Len(l) \in Nat /\ DOMAIN l = 1 .. Len(l)
  BY LenProperties
<1>2. \A i \in 1 .. Len(l) : l[i] \in Entry
  BY ElementOfSeq
<1>3. \A i \in 1 .. Len(l) : l[i].timer \in Timers /\ l[i].d \in Int
  BY <1>2 DEF Entry
<1>4. Until(l)[0] = 0 /\ \A i \in 1 .. Len(l) : Until(l)[i] = Until(l)[i - 1] + l[i].d
  BY UntilSums DEF Sums, AddsUp
<1>5. \A i \in 0 .. Len(l) : Until(l)[i] \in Int
  BY UntilSums DEF Sums
<1> QED BY <1>1, <1>2, <1>3, <1>4, <1>5

LEMMA ShiftedIs ==
    ASSUME NEW l \in Seq(Entry), NEW k \in 1 .. Len(l), NEW x \in Int,
           NEW m, m = [l EXCEPT ![k].d = x]
    PROVE  /\ m \in Seq(Entry) /\ Len(m) = Len(l)
           /\ \A i \in 1 .. Len(l) : /\ m[i].timer = l[i].timer
                                     /\ m[i].d = IF i = k THEN x ELSE l[i].d
<1> DEFINE e == [l[k] EXCEPT !.d = x]
<1>1. DOMAIN l = 1 .. Len(l) /\ Len(l) \in Nat /\ l[k] \in Entry
  BY EntriesOf
<1>2. e \in Entry /\ e.timer = l[k].timer /\ e.d = x
  BY <1>1 DEF Entry
<1>3. m = [l EXCEPT ![k] = e]
  OBVIOUS
<1> HIDE DEF e
<1>4. m \in Seq(Entry) /\ Len(m) = Len(l) /\ \A i \in 1 .. Len(l) : m[i] = IF i = k THEN e ELSE l[i]
  BY <1>1, <1>2, <1>3, ExceptSeq
<1> QED BY <1>2, <1>4

LEMMA RefreshedIs ==
    ASSUME list \in Seq(Entry), elapsed \in Int
    PROVE  /\ Refreshed \in Seq(Entry) /\ Len(Refreshed) = Len(list)
           /\ \A i \in 1 .. Len(list) :
                 /\ Refreshed[i].timer = list[i].timer
                 /\ Refreshed[i].d = IF i = 1 THEN list[1].d - elapsed ELSE list[i].d
                 /\ Until(Refreshed)[i] = Until(list)[i] - elapsed
<1> DEFINE r == Refreshed
           u == Until(list)
           f == [i \in 0 .. Len(list) |-> IF i = 0 THEN 0 ELSE u[i] - elapsed]
<1>1. /\ Len(list) \in Nat
      /\ \A i \in 1 .. Len(list) : list[i].d \in Int /\ u[i] = u[i - 1] + list[i].d
      /\ u[0] = 0 /\ \A i \in 0 .. Len(list) : u[i] \in Int
  BY EntriesOf
<1>2. /\ r \in Seq(Entry) /\ Len(r) = Len(list)
      /\ \A i \in 1 .. Len(list) : /\ r[i].timer = list[i].timer
                                   /\ r[i].d = IF i = 1 THEN list[1].d - elapsed ELSE list[i].d
  <2>1. CASE list = <<>>
    BY <2>1 DEF Refreshed
  <2>2. CASE list # <<>>
    <3> DEFINE x == list[1].d - elapsed
    <3>1. 1 \in 1 .. Len(list) /\ x \in Int
      BY <1>1, <2>2, EmptySeq
    <3>2. r = [list EXCEPT ![1].d = x]
      BY <2>2 DEF Refreshed
    <3> HIDE DEF r, x
    <3>3. /\ r \in Seq(Entry) /\ Len(r) = Len(list)
          /\ \A i \in 1 .. Len(list) : /\ r[i].timer = list[i].timer
                                       /\ r[i].d = IF i = 1 THEN x ELSE list[i].d
      BY <3>1, <3>2, ShiftedIs
    <3> QED BY <3>3 DEF x
  <2> QED BY <2>1, <2>2
<1> HIDE DEF r, u
<1>3. Sums(f, r, Len(r))
  <2>1. f \in [0 .. Len(list) -> Int] /\ f[0] = 0
    BY <1>1
  <2>2. ASSUME NEW i \in 1 .. Len(list)
        PROVE  f[i] = f[i - 1] + r[i].d
    <3>1. CASE i = 1
      BY <1>1, <1>2, <3>1
    <3>2. CASE i # 1
      <4>1. i - 1 \in 1 .. Len(list)
        BY <1>1, <3>2
      <4>2. f[i] = u[i] - elapsed /\ f[i - 1] = u[i - 1] - elapsed
        BY <4>1
      <4>3. r[i].d = list[i].d
        BY <1>2, <3>2
      <4>4. u[i] = u[i - 1] + list[i].d /\ u[i] \in Int /\ u[i - 1] \in Int /\ list[i].d \in Int
        BY <1>1, <4>1
      <4> QED BY <4>2, <4>3, <4>4
    <3> QED BY <3>1, <3>2
  <2> QED BY <1>2, <2>1, <2>2 DEF Sums, AddsUp
<1>4. \A i \in 0 .. Len(r) : Until(r)[i] = f[i]
  BY <1>2, <1>3, UntilIs
<1>5. \A i \in 1 .. Len(list) : Until(r)[i] = u[i] - elapsed
  BY <1>1, <1>2, <1>4
<1> QED BY <1>2, <1>5 DEF r, u

(* What leaves: those behind it stay due when they were.                       *)
LEMMA DelIs ==
    ASSUME NEW l \in Seq(Entry), NEW k \in 1 .. Len(l)
    PROVE  /\ Del(l, k) \in Seq(Entry) /\ Len(Del(l, k)) = Len(l) - 1
           /\ \A i \in 1 .. Len(l) - 1 :
                 /\ Del(l, k)[i].timer = IF i < k THEN l[i].timer ELSE l[i + 1].timer
                 /\ Del(l, k)[i].d = IF i < k THEN l[i].d
                                     ELSE IF i = k THEN l[k + 1].d + l[k].d ELSE l[i + 1].d
                 /\ Until(Del(l, k))[i] = IF i < k THEN Until(l)[i] ELSE Until(l)[i + 1]
<1> DEFINE n == Len(l)
           u == Until(l)
           m == IF k < n THEN [l EXCEPT ![k + 1].d = @ + l[k].d] ELSE l
           c == Del(l, k)
           f == [i \in 0 .. n - 1 |-> IF i < k THEN u[i] ELSE u[i + 1]]
<1>1. /\ n \in Nat /\ n - 1 \in Nat
      /\ \A i \in 1 .. n : l[i].d \in Int /\ u[i] = u[i - 1] + l[i].d
      /\ u[0] = 0 /\ \A i \in 0 .. n : u[i] \in Int
  BY EntriesOf
<1>2. /\ m \in Seq(Entry) /\ Len(m) = n
      /\ \A i \in 1 .. n : /\ m[i].timer = l[i].timer
                           /\ m[i].d = IF i = k + 1 THEN l[k + 1].d + l[k].d ELSE l[i].d
  <2>1. CASE k < n
    <3>1. k + 1 \in 1 .. n /\ l[k + 1].d + l[k].d \in Int
      BY <1>1, <2>1
    <3>2. m = [l EXCEPT ![k + 1].d = l[k + 1].d + l[k].d]
      BY <2>1
    <3> HIDE DEF m
    <3> QED BY <3>1, <3>2, ShiftedIs
  <2>2. CASE ~(k < n)
    BY <1>1, <2>2
  <2> QED BY <2>1, <2>2
<1> HIDE DEF m
<1>3. /\ c \in Seq(Entry) /\ Len(c) = n - 1
      /\ \A i \in 1 .. n - 1 : c[i] = IF i < k THEN m[i] ELSE m[i + 1]
  <2>1. c = RemoveAt(m, k)
    BY DEF Del, m
  <2>2. k \in 1 .. Len(m)
    BY <1>2
  <2>3. /\ RemoveAt(m, k) \in Seq(Entry) /\ Len(RemoveAt(m, k)) = Len(m) - 1
        /\ \A i \in 1 .. Len(m) - 1 : RemoveAt(m, k)[i] = IF i < k THEN m[i] ELSE m[i + 1]
    BY <1>2, <2>2, RemoveAtIs
  <2> QED BY <1>2, <2>1, <2>3
<1> HIDE DEF c, u, n
<1>4. \A i \in 1 .. n - 1 :
         /\ c[i].timer = IF i < k THEN l[i].timer ELSE l[i + 1].timer
         /\ c[i].d = IF i < k THEN l[i].d
                     ELSE IF i = k THEN l[k + 1].d + l[k].d ELSE l[i + 1].d
  <2> TAKE i \in 1 .. n - 1
  <2>1. i \in 1 .. n /\ i + 1 \in 1 .. n
    BY <1>1
  <2>2. k \in Int
    BY DEF n
  <2>3. CASE i < k
    BY <1>2, <1>3, <2>1, <2>2, <2>3
  <2>4. CASE ~(i < k)
    BY <1>2, <1>3, <2>1, <2>2, <2>4
  <2> QED BY <2>3, <2>4
<1>5. Sums(f, c, n - 1)
  <2>0. k \in 1 .. n
    BY DEF n
  <2>1. f \in [0 .. n - 1 -> Int]
    <3>1. \A i \in 0 .. n - 1 : i \in 0 .. n /\ i + 1 \in 0 .. n
      BY <1>1
    <3> QED BY <1>1, <3>1
  <2>2. f[0] = 0
    BY <1>1, <2>0
  <2>3. ASSUME NEW i \in 1 .. n - 1
        PROVE  f[i] = f[i - 1] + c[i].d
    <3>1. i \in 1 .. n /\ i + 1 \in 1 .. n /\ i - 1 \in 0 .. n - 1 /\ i \in 0 .. n - 1
          /\ i - 1 + 1 = i /\ i + 1 - 1 = i
      BY <1>1
    <3>2. u[i] = u[i - 1] + l[i].d /\ u[i + 1] = u[i] + l[i + 1].d
      <4>1. \A j \in 1 .. n : u[j] = u[j - 1] + l[j].d
        BY <1>1
      <4> HIDE DEF u
      <4>2. u[i] = u[i - 1] + l[i].d /\ u[i + 1] = u[(i + 1) - 1] + l[i + 1].d
        BY <3>1, <4>1
      <4> QED BY <3>1, <4>2
    <3>3. u[i - 1] \in Int /\ u[i] \in Int /\ u[i + 1] \in Int
          /\ l[i].d \in Int /\ l[i + 1].d \in Int
      BY <1>1, <3>1
    <3>4. f[i] = (IF i < k THEN u[i] ELSE u[i + 1])
          /\ f[i - 1] = IF i - 1 < k THEN u[i - 1] ELSE u[i]
      BY <3>1
    <3>5. CASE i < k
      BY <1>4, <2>0, <3>2, <3>4, <3>5
    <3>6. CASE i = k
      BY <1>4, <2>0, <3>2, <3>3, <3>4, <3>6
    <3>7. CASE i > k
      <4>1. ~(i < k) /\ i # k /\ ~(i - 1 < k)
        BY <2>0, <3>7
      <4> QED BY <1>4, <3>2, <3>4, <4>1
    <3> QED BY <2>0, <3>5, <3>6, <3>7
  <2> QED BY <2>1, <2>2, <2>3 DEF Sums, AddsUp
<1>6. \A i \in 0 .. n - 1 : Until(c)[i] = f[i]
  BY <1>3, <1>5, UntilIs
<1>7. \A i \in 1 .. n - 1 : Until(c)[i] = IF i < k THEN u[i] ELSE u[i + 1]
  BY <1>1, <1>6
<1> QED BY <1>3, <1>4, <1>7 DEF c, u, n

(* Where add puts a timer: behind those that are not due later than it.        *)
Before(l, n, at) ==
    /\ at \in 1 .. Len(l) + 1
    /\ \A i \in 1 .. at - 1 : Until(l)[i] <= n
    /\ at <= Len(l) => n < Until(l)[at]

LEMMA AddsAt ==
    ASSUME NEW l \in Seq(Entry), NEW t \in Timers, NEW n \in Int
    PROVE  \E at \in 1 .. Len(l) + 1 :
              /\ Before(l, n, at)
              /\ Add(l, t, n) =
                    LET new == [timer |-> t, d |-> n - Until(l)[at - 1]]
                    IN  IF at = Len(l) + 1 THEN Append(l, new)
                        ELSE InsertAt([l EXCEPT ![at].d = @ - new.d], at, new)
<1> DEFINE u == Until(l)
           s == [i \in DOMAIN l |-> u[i]]
           I == {i \in 1 .. Len(s) : n < s[i]}
           a == IF I # {} THEN Min(I) ELSE 0
           at == IF a = 0 THEN Len(l) + 1 ELSE a
<1>1. Len(l) \in Nat /\ DOMAIN l = 1 .. Len(l) /\ \A i \in 1 .. Len(l) : u[i] \in Int
  BY EntriesOf
<1>2. Len(s) = Len(l)
  BY <1>1
<1>3. I = {i \in 1 .. Len(l) : n < u[i]}
  BY <1>1, <1>2
<1>4. SelectInSeq(s, LAMBDA due : n < due) = a
  BY DEF SelectInSeq
<1>5. Add(l, t, n) =
         LET before == u[IF a = 0 THEN Len(l) ELSE a - 1]
             new == [timer |-> t, d |-> n - before]
         IN  IF a = 0 THEN Append(l, new)
             ELSE InsertAt([l EXCEPT ![a].d = @ - new.d], a, new)
  BY <1>4 DEF Add
<1> HIDE DEF s, I, u
<1>6. CASE I = {}
  <2>1. a = 0 /\ at = Len(l) + 1 /\ at - 1 = Len(l)
    BY <1>1, <1>6
  <2>2. \A i \in 1 .. Len(l) : u[i] <= n
    BY <1>1, <1>3, <1>6
  <2>3. Before(l, n, at)
    BY <1>1, <2>1, <2>2 DEF Before, u
  <2>4. at \in 1 .. Len(l) + 1
    BY <1>1, <2>1
  <2>5. Add(l, t, n) = Append(l, [timer |-> t, d |-> n - u[at - 1]])
    BY <1>5, <2>1
  <2> QED BY <2>1, <2>3, <2>4, <2>5 DEF u
<1>7. CASE I # {}
  <2>1. a \in I /\ \A i \in I : a <= i
    <3>1. I \in SUBSET Nat
      BY <1>1, <1>3
    <3>2. \E x \in I : \A y \in I : x <= y
      BY <1>7, <3>1, LeastExists
    <3>3. Min(I) \in I /\ \A i \in I : Min(I) <= i
      BY <3>2 DEF Min
    <3> QED BY <1>7, <3>3
  <2>2. a \in 1 .. Len(l) /\ n < u[a] /\ a # 0 /\ at = a
    <3> HIDE DEF a
    <3>1. a \in 1 .. Len(l) /\ n < u[a]
      BY <1>3, <2>1
    <3>2. a # 0
      BY <1>1, <3>1
    <3> QED BY <3>1, <3>2
  <2> HIDE DEF a
  <2>3. \A i \in 1 .. a - 1 : u[i] <= n
    <3> TAKE i \in 1 .. a - 1
    <3>1. i \in 1 .. Len(l) /\ ~(i \in I)
      BY <1>1, <2>1, <2>2
    <3> QED BY <1>1, <1>3, <3>1
  <2>4. Before(l, n, a)
    BY <1>1, <2>2, <2>3 DEF Before, u
  <2>5. a \in 1 .. Len(l) + 1 /\ a # Len(l) + 1
    BY <1>1, <2>2
  <2>6. Add(l, t, n) = LET new == [timer |-> t, d |-> n - u[a - 1]]
                       IN  InsertAt([l EXCEPT ![a].d = @ - new.d], a, new)
    BY <1>5, <2>2
  <2> QED BY <2>4, <2>5, <2>6 DEF u
<1> QED BY <1>6, <1>7

AddedAt(l, t, n, at) ==
    /\ Before(l, n, at)
    /\ Add(l, t, n) \in Seq(Entry) /\ Len(Add(l, t, n)) = Len(l) + 1
    /\ \A i \in 1 .. Len(l) + 1 :
          /\ Add(l, t, n)[i].timer =
                IF i < at THEN l[i].timer ELSE IF i = at THEN t ELSE l[i - 1].timer
          /\ Add(l, t, n)[i].d =
                IF i < at THEN l[i].d ELSE IF i = at THEN n - Until(l)[at - 1]
                ELSE IF i = at + 1 THEN Until(l)[at] - n ELSE l[i - 1].d
          /\ Until(Add(l, t, n))[i] =
                IF i < at THEN Until(l)[i] ELSE IF i = at THEN n ELSE Until(l)[i - 1]

LEMMA AddIs ==
    ASSUME NEW l \in Seq(Entry), NEW t \in Timers, NEW n \in Int
    PROVE  \E at \in 1 .. Len(l) + 1 : AddedAt(l, t, n, at)
<1>1. PICK at \in 1 .. Len(l) + 1 :
         /\ Before(l, n, at)
         /\ Add(l, t, n) =
               LET new == [timer |-> t, d |-> n - Until(l)[at - 1]]
               IN  IF at = Len(l) + 1 THEN Append(l, new)
                   ELSE InsertAt([l EXCEPT ![at].d = @ - new.d], at, new)
  BY AddsAt
<1> DEFINE k == Len(l)
           u == Until(l)
           c == Add(l, t, n)
           x == n - u[at - 1]
           new == [timer |-> t, d |-> x]
           f == [i \in 0 .. k + 1 |-> IF i < at THEN u[i] ELSE IF i = at THEN n ELSE u[i - 1]]
<1>2. /\ k \in Nat
      /\ \A i \in 1 .. k : l[i].d \in Int /\ u[i] = u[i - 1] + l[i].d
      /\ u[0] = 0 /\ \A i \in 0 .. k : u[i] \in Int
  BY EntriesOf
<1>3. at - 1 \in 0 .. k /\ x \in Int /\ new \in Entry
  <2>1. at - 1 \in 0 .. k
    BY <1>2
  <2>2. u[at - 1] \in Int
    BY <1>2, <2>1
  <2> QED BY <2>1, <2>2 DEF Entry
<1>u. at <= k => at \in 1 .. k /\ u[at] = u[at - 1] + l[at].d
  BY <1>2
<1>4. /\ c \in Seq(Entry) /\ Len(c) = k + 1
      /\ \A i \in 1 .. k + 1 :
            /\ c[i].timer = IF i < at THEN l[i].timer ELSE IF i = at THEN t ELSE l[i - 1].timer
            /\ c[i].d = IF i < at THEN l[i].d ELSE IF i = at THEN x
                        ELSE IF i = at + 1 THEN u[at] - n ELSE l[i - 1].d
  <2>1. CASE at = k + 1
    <3>1. c = Append(l, new)
      BY <1>1, <2>1
    <3> HIDE DEF c
    <3>2. new.timer = t /\ new.d = x
      OBVIOUS
    <3> HIDE DEF new
    <3>3. /\ c \in Seq(Entry) /\ Len(c) = k + 1
          /\ (\A i \in 1 .. k : c[i] = l[i]) /\ c[k + 1] = new
      BY <1>3, <3>1, AppendProperties
    <3> HIDE DEF x, k, u
    <3>4. ASSUME NEW i \in 1 .. k + 1
          PROVE  /\ c[i].timer = IF i < at THEN l[i].timer ELSE IF i = at THEN t ELSE l[i - 1].timer
                 /\ c[i].d = IF i < at THEN l[i].d ELSE IF i = at THEN x
                             ELSE IF i = at + 1 THEN u[at] - n ELSE l[i - 1].d
      <4>1. CASE i = at
        <5>1. ~(i < at) /\ c[i] = new
          BY <1>2, <2>1, <3>3, <4>1
        <5> QED BY <3>2, <4>1, <5>1
      <4>2. CASE i # at
        <5>1. i < at /\ i \in 1 .. k
          BY <1>2, <2>1, <4>2
        <5> QED BY <3>3, <5>1
      <4> QED BY <4>1, <4>2
    <3> QED BY <3>3, <3>4
  <2>2. CASE at # k + 1
    <3> DEFINE y == l[at].d - x
               m == [l EXCEPT ![at].d = y]
    <3>1. at \in 1 .. k /\ y \in Int
      BY <1>2, <1>3, <2>2
    <3>y. y = u[at] - n
      <4>1. u[at] = u[at - 1] + l[at].d /\ u[at] \in Int /\ u[at - 1] \in Int /\ l[at].d \in Int
        BY <1>2, <1>3, <3>1
      <4> QED BY <4>1
    <3>2. c = InsertAt(m, at, new)
      BY <1>1, <2>2
    <3>3. new.timer = t /\ new.d = x
      OBVIOUS
    <3>m. m = [l EXCEPT ![at].d = y] /\ at \in 1 .. Len(l) /\ new \in Entry
      BY <1>3, <3>1
    <3> HIDE DEF y, c, new, x, m, f, u
    <3>4. /\ m \in Seq(Entry) /\ Len(m) = k
          /\ \A i \in 1 .. k : /\ m[i].timer = l[i].timer
                               /\ m[i].d = IF i = at THEN y ELSE l[i].d
      BY <3>1, <3>m, ShiftedIs
    <3>5. at \in 1 .. Len(m)
      BY <3>1, <3>4
    <3>6. InsertAt(m, at, new) \in Seq(Entry) /\ Inserted(InsertAt(m, at, new), m, at, new)
      BY <3>4, <3>5, <3>m, InsertAtIs
    <3>7. c \in Seq(Entry) /\ Len(c) = k + 1
      BY <3>2, <3>4, <3>6 DEF Inserted
    <3>8. \A j \in 1 .. k + 1 : c[j] = IF j < at THEN m[j] ELSE IF j = at THEN new ELSE m[j - 1]
      BY <3>2, <3>4, <3>6 DEF Inserted
    <3> HIDE DEF k
    <3>9. ASSUME NEW i \in 1 .. k + 1
          PROVE  /\ c[i].timer = IF i < at THEN l[i].timer ELSE IF i = at THEN t ELSE l[i - 1].timer
                 /\ c[i].d = IF i < at THEN l[i].d ELSE IF i = at THEN x
                             ELSE IF i = at + 1 THEN u[at] - n ELSE l[i - 1].d
      <4>1. CASE i < at
        BY <1>2, <3>1, <3>4, <3>8, <4>1
      <4>2. CASE i = at
        BY <1>2, <3>1, <3>3, <3>8, <4>2
      <4>3. CASE i > at
        <5>1. i - 1 \in 1 .. k /\ ~(i < at) /\ i # at
          BY <1>2, <3>1, <4>3
        <5>2. c[i] = m[i - 1]
          BY <3>8, <5>1
        <5>3. m[i - 1].timer = l[i - 1].timer /\ m[i - 1].d = IF i - 1 = at THEN y ELSE l[i - 1].d
          BY <3>4, <5>1
        <5>4. i - 1 = at <=> i = at + 1
          BY <1>2, <3>1
        <5> QED BY <3>y, <5>1, <5>2, <5>3, <5>4
      <4> QED BY <1>2, <3>1, <4>1, <4>2, <4>3
    <3> QED BY <3>7, <3>9
  <2> QED BY <2>1, <2>2
<1>k. at \in 1 .. k + 1
  OBVIOUS
<1> HIDE DEF c, u, k
<1>5. Sums(f, c, k + 1)
  <2>1. f \in [0 .. k + 1 -> Int]
    <3>1. \A i \in 0 .. k + 1 : (i < at => i \in 0 .. k) /\ (i > at => i - 1 \in 0 .. k)
      BY <1>2, <1>k
    <3>2. \A i \in 0 .. k + 1 : f[i] \in Int
      BY <1>2, <1>k, <3>1
    <3> QED BY <3>2
  <2>2. f[0] = 0
    BY <1>2, <1>k
  <2>3. ASSUME NEW i \in 1 .. k + 1
        PROVE  f[i] = f[i - 1] + c[i].d
    <3>1. i - 1 \in 0 .. k + 1 /\ i \in 0 .. k + 1 /\ i - 1 - 1 = i - 2
      BY <1>2
    <3>2. /\ f[i] = IF i < at THEN u[i] ELSE IF i = at THEN n ELSE u[i - 1]
          /\ f[i - 1] = IF i - 1 < at THEN u[i - 1] ELSE IF i - 1 = at THEN n ELSE u[i - 2]
      BY <3>1
    <3>3. c[i].d = IF i < at THEN l[i].d ELSE IF i = at THEN n - u[at - 1]
                   ELSE IF i = at + 1 THEN u[at] - n ELSE l[i - 1].d
      BY <1>4
    <3> HIDE DEF f
    <3>4. CASE i < at
      <4>1. i \in 1 .. k
        BY <1>2, <1>k, <3>4
      <4> QED BY <1>2, <1>k, <3>2, <3>3, <3>4, <4>1
    <3>5. CASE i = at
      <4>1. f[i] = n /\ f[i - 1] = u[i - 1] /\ c[i].d = n - u[i - 1]
        BY <1>2, <1>k, <3>2, <3>3, <3>5
      <4>2. u[i - 1] \in Int
        BY <1>2, <1>3, <3>5 DEF k
      <4> QED BY <4>1, <4>2
    <3>6. CASE i = at + 1
      <4>1. f[i] = u[i - 1] /\ f[i - 1] = n /\ c[i].d = u[at] - n /\ i - 1 = at
        BY <1>2, <1>k, <3>2, <3>3, <3>6
      <4>2. at \in 0 .. k
        BY <1>2, <1>k, <3>6
      <4>3. u[at] \in Int
        BY <1>2, <4>2
      <4> QED BY <4>1, <4>3
    <3>7. CASE i > at + 1
      <4>1. i - 1 \in 1 .. k /\ i - 2 \in 0 .. k
        BY <1>2, <1>k, <3>7
      <4>2. f[i] = u[i - 1] /\ f[i - 1] = u[i - 2] /\ c[i].d = l[i - 1].d
        BY <1>2, <1>k, <3>2, <3>3, <3>7
      <4>3. u[i - 1] = u[i - 1 - 1] + l[i - 1].d
        BY <1>2, <4>1
      <4> QED BY <3>1, <4>2, <4>3
    <3> QED BY <1>2, <1>k, <3>4, <3>5, <3>6, <3>7
  <2> QED BY <2>1, <2>2, <2>3 DEF Sums, AddsUp
<1>6. \A i \in 0 .. k + 1 : Until(c)[i] = f[i]
  BY <1>4, <1>5, UntilIs
<1>7. \A i \in 1 .. k + 1 : Until(c)[i] = IF i < at THEN u[i] ELSE IF i = at THEN n ELSE u[i - 1]
  BY <1>2, <1>6
<1>8. AddedAt(l, t, n, at)
  BY <1>1, <1>4, <1>7 DEF AddedAt, c, u, k
<1> QED BY <1>8

----------------------------------------------------------------------------
(* The same seen from the timers: which ones a list holds, and when each is    *)
(* due.                                                                        *)
Ordered(l) ==
    /\ l \in Seq(Entry)
    /\ \A i, j \in 1 .. Len(l) : l[i].timer = l[j].timer => i = j
    /\ \A i \in 2 .. Len(l) : l[i].d >= 0

TimersOf(l) == {l[i].timer : i \in 1 .. Len(l)}
TimeOf(l, t) == Until(l)[PlaceOf(l, t)]

LEMMA PlaceIs ==
    ASSUME NEW l, Ordered(l), NEW i \in 1 .. Len(l)
    PROVE  PlaceOf(l, l[i].timer) = i /\ TimeOf(l, l[i].timer) = Until(l)[i]
           /\ TimeOf(l, l[i].timer) \in Int /\ l[i].timer \in Timers
<1>1. l \in Seq(Entry) /\ \A j \in 1 .. Len(l) : l[j].timer = l[i].timer => j = i
  BY DEF Ordered
<1>2. /\ Len(l) \in Nat /\ DOMAIN l = 1 .. Len(l)
      /\ l[i].timer \in Timers /\ \A j \in 0 .. Len(l) : Until(l)[j] \in Int
  BY <1>1, EntriesOf
<1>3. PlaceOf(l, l[i].timer) = i
  BY <1>1, <1>2 DEF PlaceOf
<1>4. i \in 0 .. Len(l)
  BY <1>2
<1> QED BY <1>2, <1>3, <1>4 DEF TimeOf

LEMMA RefreshedTimes ==
    ASSUME Ordered(list), elapsed \in Int
    PROVE  /\ Ordered(Refreshed) /\ Len(Refreshed) = Len(list) /\ TimersOf(Refreshed) = TimersOf(list)
           /\ \A i \in 1 .. Len(list) : Refreshed[i].timer = list[i].timer
           /\ \A t \in TimersOf(list) : TimeOf(Refreshed, t) = TimeOf(list, t) - elapsed
<1> DEFINE r == Refreshed
<1>1. list \in Seq(Entry)
  BY DEF Ordered
<1>2. /\ r \in Seq(Entry) /\ Len(r) = Len(list)
      /\ \A i \in 1 .. Len(list) :
            /\ r[i].timer = list[i].timer
            /\ r[i].d = IF i = 1 THEN list[1].d - elapsed ELSE list[i].d
            /\ Until(r)[i] = Until(list)[i] - elapsed
  BY <1>1, RefreshedIs
<1> HIDE DEF r
<1>3. Len(list) \in Nat
  BY <1>1, EntriesOf
<1>4. Ordered(r)
  <2>1. \A i, j \in 1 .. Len(r) : r[i].timer = r[j].timer => i = j
    BY <1>2 DEF Ordered
  <2>2. \A i \in 2 .. Len(r) : r[i].d >= 0
    BY <1>2, <1>3 DEF Ordered
  <2> QED BY <1>2, <2>1, <2>2 DEF Ordered
<1>5. TimersOf(r) = TimersOf(list)
  BY <1>2 DEF TimersOf
<1>6. ASSUME NEW t \in TimersOf(list)
      PROVE  TimeOf(r, t) = TimeOf(list, t) - elapsed
  <2>1. PICK i \in 1 .. Len(list) : t = list[i].timer
    BY DEF TimersOf
  <2>2. TimeOf(list, t) = Until(list)[i]
    BY <2>1, PlaceIs
  <2>3. i \in 1 .. Len(r) /\ t = r[i].timer
    BY <1>2, <2>1
  <2>4. TimeOf(r, t) = Until(r)[i]
    BY <1>4, <2>3, PlaceIs
  <2> QED BY <1>2, <2>2, <2>4
<1> QED BY <1>2, <1>4, <1>5, <1>6 DEF r

(* add puts a timer in and moves no other.                                     *)
LEMMA AddTimes ==
    ASSUME NEW l, Ordered(l), NEW t \in Timers \ TimersOf(l), NEW n \in Int
    PROVE  /\ Ordered(Add(l, t, n)) /\ TimersOf(Add(l, t, n)) = TimersOf(l) \cup {t}
           /\ TimeOf(Add(l, t, n), t) = n
           /\ \A s \in TimersOf(l) : TimeOf(Add(l, t, n), s) = TimeOf(l, s)
<1> DEFINE c == Add(l, t, n)
           k == Len(l)
           u == Until(l)
<1>1. l \in Seq(Entry) /\ (\A i, j \in 1 .. k : l[i].timer = l[j].timer => i = j)
      /\ \A i \in 2 .. k : l[i].d >= 0
  BY DEF Ordered
<1>2. PICK at \in 1 .. k + 1 : AddedAt(l, t, n, at)
  BY <1>1, AddIs
<1>3. k \in Nat /\ \A i \in 0 .. k : u[i] \in Int
  BY <1>1, EntriesOf
<1>4. /\ \A i \in 1 .. at - 1 : u[i] <= n
      /\ at <= k => n < u[at]
  BY <1>2 DEF AddedAt, Before
<1>5. /\ c \in Seq(Entry) /\ Len(c) = k + 1
      /\ \A i \in 1 .. k + 1 :
            /\ c[i].timer = IF i < at THEN l[i].timer ELSE IF i = at THEN t ELSE l[i - 1].timer
            /\ c[i].d = IF i < at THEN l[i].d ELSE IF i = at THEN n - u[at - 1]
                        ELSE IF i = at + 1 THEN u[at] - n ELSE l[i - 1].d
            /\ Until(c)[i] = IF i < at THEN u[i] ELSE IF i = at THEN n ELSE u[i - 1]
  BY <1>2 DEF AddedAt
<1>6. \A i \in 1 .. k : l[i].timer # t
  BY DEF TimersOf
<1>k. k \in Nat /\ at \in 1 .. k + 1
  BY <1>3
<1> HIDE DEF c, k, u
<1>7. Ordered(c)
  <2>1. ASSUME NEW i \in 1 .. k + 1, NEW j \in 1 .. k + 1, c[i].timer = c[j].timer
        PROVE  i = j
    <3>1. \A m \in 1 .. k + 1 : /\ m < at => m \in 1 .. k /\ c[m].timer = l[m].timer
                                /\ m = at => c[m].timer = t
                                /\ m > at => m - 1 \in 1 .. k /\ c[m].timer = l[m - 1].timer
      BY <1>5, <1>k
    <3>2. CASE i = at
      BY <1>6, <1>k, <2>1, <3>1, <3>2
    <3>3. CASE j = at
      BY <1>6, <1>k, <2>1, <3>1, <3>3
    <3>4. CASE i < at /\ j < at
      BY <1>1, <2>1, <3>1, <3>4
    <3>5. CASE i < at /\ j > at
      BY <1>1, <1>k, <2>1, <3>1, <3>5
    <3>6. CASE i > at /\ j < at
      BY <1>1, <1>k, <2>1, <3>1, <3>6
    <3>7. CASE i > at /\ j > at
      <4>1. i - 1 = j - 1
        BY <1>1, <2>1, <3>1, <3>7
      <4> QED BY <4>1
    <3> QED BY <1>k, <3>2, <3>3, <3>4, <3>5, <3>6, <3>7
  <2>2. ASSUME NEW i \in 2 .. k + 1
        PROVE  c[i].d >= 0
    <3>0. i \in 1 .. k + 1
      BY <1>k
    <3>1. CASE i < at
      BY <1>1, <1>5, <1>k, <3>0, <3>1
    <3>2. CASE i = at
      <4>1. at - 1 \in 1 .. at - 1 /\ at - 1 \in 0 .. k
        BY <1>k, <3>2
      <4>2. u[at - 1] <= n /\ u[at - 1] \in Int
        BY <1>3, <1>4, <4>1
      <4>3. c[i].d = n - u[at - 1]
        BY <1>5, <1>k, <3>0, <3>2
      <4> QED BY <4>2, <4>3
    <3>3. CASE i = at + 1
      <4>1. at <= k /\ at \in 0 .. k
        BY <1>k, <3>3
      <4>2. n < u[at] /\ u[at] \in Int
        BY <1>3, <1>4, <4>1
      <4>3. c[i].d = u[at] - n
        BY <1>5, <1>k, <3>0, <3>3
      <4> QED BY <4>2, <4>3
    <3>4. CASE i > at + 1
      <4>1. i - 1 \in 2 .. k /\ ~(i < at) /\ i # at /\ i # at + 1
        BY <1>k, <3>4
      <4>2. c[i].d = l[i - 1].d
        BY <1>5, <3>0, <4>1
      <4> QED BY <1>1, <4>1, <4>2
    <3> QED BY <1>k, <3>1, <3>2, <3>3, <3>4
  <2> QED BY <1>5, <2>1, <2>2 DEF Ordered
<1>8. /\ at \in 1 .. Len(c) /\ c[at].timer = t /\ Until(c)[at] = n
      /\ \A i \in 1 .. k : \E j \in 1 .. Len(c) : c[j].timer = l[i].timer /\ Until(c)[j] = u[i]
  <2>1. at \in 1 .. Len(c) /\ c[at].timer = t /\ Until(c)[at] = n
    BY <1>5, <1>k
  <2>2. ASSUME NEW i \in 1 .. k
        PROVE  \E j \in 1 .. Len(c) : c[j].timer = l[i].timer /\ Until(c)[j] = u[i]
    <3>1. CASE i < at
      <4>1. i \in 1 .. k + 1
        BY <1>k
      <4> QED BY <1>5, <3>1, <4>1
    <3>2. CASE ~(i < at)
      <4>1. i + 1 \in 1 .. k + 1 /\ ~(i + 1 < at) /\ i + 1 # at /\ i + 1 - 1 = i
        BY <1>k, <3>2
      <4>2. c[i + 1].timer = l[i + 1 - 1].timer /\ Until(c)[i + 1] = u[i + 1 - 1]
        BY <1>5, <4>1
      <4> QED BY <1>5, <4>1, <4>2
    <3> QED BY <3>1, <3>2
  <2> QED BY <2>1, <2>2
<1>9. TimersOf(c) = TimersOf(l) \cup {t}
  <2>1. TimersOf(c) \subseteq TimersOf(l) \cup {t}
    <3>1. ASSUME NEW j \in 1 .. k + 1
          PROVE  c[j].timer \in TimersOf(l) \cup {t}
      <4>1. CASE j < at
        <5>1. j \in 1 .. k /\ c[j].timer = l[j].timer
          BY <1>5, <1>k, <4>1
        <5> QED BY <5>1 DEF TimersOf, k
      <4>2. CASE j = at
        BY <1>8, <4>2
      <4>3. CASE j > at
        <5>1. j - 1 \in 1 .. k /\ c[j].timer = l[j - 1].timer
          BY <1>5, <1>k, <4>3
        <5> QED BY <5>1 DEF TimersOf, k
      <4> QED BY <1>k, <4>1, <4>2, <4>3
    <3>2. Len(c) = k + 1
      BY <1>5
    <3> HIDE DEF c, k
    <3> QED BY <3>1, <3>2 DEF TimersOf
  <2>2. TimersOf(l) \cup {t} \subseteq TimersOf(c)
    <3> HIDE DEF c
    <3>1. t \in TimersOf(c)
      BY <1>8 DEF TimersOf
    <3>2. ASSUME NEW i \in 1 .. Len(l)
          PROVE  l[i].timer \in TimersOf(c)
      <4>1. PICK j \in 1 .. Len(c) : c[j].timer = l[i].timer
        BY <1>8 DEF k
      <4> QED BY <4>1 DEF TimersOf
    <3> QED BY <3>1, <3>2 DEF TimersOf
  <2> QED BY <2>1, <2>2
<1>10. TimeOf(c, t) = n
  BY <1>7, <1>8, PlaceIs
<1>11. ASSUME NEW s \in TimersOf(l)
       PROVE  TimeOf(c, s) = TimeOf(l, s)
  <2>1. PICK i \in 1 .. k : s = l[i].timer
    BY DEF TimersOf, k
  <2>2. TimeOf(l, s) = u[i]
    BY <2>1, PlaceIs DEF k, u
  <2>3. PICK j \in 1 .. Len(c) : c[j].timer = s /\ Until(c)[j] = u[i]
    BY <1>8, <2>1
  <2>4. TimeOf(c, s) = Until(c)[j]
    BY <1>7, <2>3, PlaceIs
  <2> QED BY <2>2, <2>3, <2>4
<1> QED BY <1>7, <1>9, <1>10, <1>11 DEF c

(* del takes a timer out and moves no other.                                   *)
LEMMA DelTimes ==
    ASSUME NEW l, Ordered(l), NEW k \in 1 .. Len(l)
    PROVE  /\ Ordered(Del(l, k)) /\ TimersOf(Del(l, k)) = TimersOf(l) \ {l[k].timer}
           /\ \A s \in TimersOf(l) \ {l[k].timer} : TimeOf(Del(l, k), s) = TimeOf(l, s)
<1> DEFINE c == Del(l, k)
           n == Len(l)
           u == Until(l)
<1>1. l \in Seq(Entry) /\ (\A i, j \in 1 .. n : l[i].timer = l[j].timer => i = j)
      /\ \A i \in 2 .. n : l[i].d >= 0
  BY DEF Ordered
<1>2. /\ c \in Seq(Entry) /\ Len(c) = n - 1
      /\ \A i \in 1 .. n - 1 :
            /\ c[i].timer = IF i < k THEN l[i].timer ELSE l[i + 1].timer
            /\ c[i].d = IF i < k THEN l[i].d
                        ELSE IF i = k THEN l[k + 1].d + l[k].d ELSE l[i + 1].d
            /\ Until(c)[i] = IF i < k THEN u[i] ELSE u[i + 1]
  BY <1>1, DelIs
<1>3. n \in Nat /\ k \in 1 .. n /\ \A i \in 1 .. n : l[i].d \in Int
  BY <1>1, EntriesOf
<1> HIDE DEF c, n, u
<1>4. \A i \in 1 .. n - 1 : /\ i < k => i \in 1 .. n /\ c[i].timer = l[i].timer /\ Until(c)[i] = u[i]
                            /\ ~(i < k) => /\ i + 1 \in 1 .. n /\ i + 1 # k
                                           /\ c[i].timer = l[i + 1].timer /\ Until(c)[i] = u[i + 1]
  BY <1>2, <1>3
<1>5. Ordered(c)
  <2>1. ASSUME NEW i \in 1 .. n - 1, NEW j \in 1 .. n - 1, c[i].timer = c[j].timer
        PROVE  i = j
    <3>1. CASE i < k /\ j < k
      BY <1>1, <1>4, <2>1, <3>1
    <3>2. CASE i < k /\ ~(j < k)
      <4>1. i = j + 1
        BY <1>1, <1>4, <2>1, <3>2
      <4> QED BY <1>3, <3>2, <4>1
    <3>3. CASE ~(i < k) /\ j < k
      <4>1. i + 1 = j
        BY <1>1, <1>4, <2>1, <3>3
      <4> QED BY <1>3, <3>3, <4>1
    <3>4. CASE ~(i < k) /\ ~(j < k)
      <4>1. i + 1 = j + 1
        BY <1>1, <1>4, <2>1, <3>4
      <4> QED BY <4>1
    <3> QED BY <3>1, <3>2, <3>3, <3>4
  <2>2. ASSUME NEW i \in 2 .. n - 1
        PROVE  c[i].d >= 0
    <3>1. i \in 1 .. n - 1 /\ i \in 2 .. n /\ i + 1 \in 2 .. n
      BY <1>3
    <3>2. CASE i = k
      <4>1. k \in 2 .. n /\ k + 1 \in 2 .. n /\ k \in 1 .. n /\ k + 1 \in 1 .. n
        BY <1>3, <3>1, <3>2
      <4>2. l[k].d >= 0 /\ l[k + 1].d >= 0 /\ l[k].d \in Int /\ l[k + 1].d \in Int
        BY <1>1, <1>3, <4>1
      <4>3. c[i].d = l[k + 1].d + l[k].d
        BY <1>2, <1>3, <3>1, <3>2
      <4> QED BY <4>2, <4>3
    <3>3. CASE i # k
      BY <1>1, <1>2, <3>1, <3>3
    <3> QED BY <3>2, <3>3
  <2> QED BY <1>2, <2>1, <2>2 DEF Ordered
<1>6. ASSUME NEW i \in 1 .. n, i # k
      PROVE  \E j \in 1 .. Len(c) : c[j].timer = l[i].timer /\ Until(c)[j] = u[i]
  <2>1. CASE i < k
    <3>1. i \in 1 .. n - 1
      BY <1>3, <2>1
    <3> QED BY <1>2, <1>4, <2>1, <3>1
  <2>2. CASE ~(i < k)
    <3>1. i - 1 \in 1 .. n - 1 /\ ~(i - 1 < k) /\ i - 1 + 1 = i
      BY <1>3, <1>6, <2>2
    <3>2. c[i - 1].timer = l[i - 1 + 1].timer /\ Until(c)[i - 1] = u[i - 1 + 1]
      BY <1>4, <3>1
    <3> QED BY <1>2, <3>1, <3>2
  <2> QED BY <2>1, <2>2
<1>7. TimersOf(c) = TimersOf(l) \ {l[k].timer}
  <2>1. ASSUME NEW t \in TimersOf(c)
        PROVE  t \in TimersOf(l) \ {l[k].timer}
    <3>1. PICK j \in 1 .. n - 1 : t = c[j].timer
      BY <1>2 DEF TimersOf
    <3>2. PICK i \in 1 .. n : i # k /\ t = l[i].timer
      BY <1>3, <1>4, <3>1
    <3> QED BY <1>1, <1>3, <3>2 DEF TimersOf, n
  <2>2. ASSUME NEW t \in TimersOf(l) \ {l[k].timer}
        PROVE  t \in TimersOf(c)
    <3>1. PICK i \in 1 .. n : t = l[i].timer /\ i # k
      BY DEF TimersOf, n
    <3> QED BY <1>6, <3>1 DEF TimersOf
  <2> QED BY <2>1, <2>2
<1>8. ASSUME NEW s \in TimersOf(l) \ {l[k].timer}
      PROVE  TimeOf(c, s) = TimeOf(l, s)
  <2>1. PICK i \in 1 .. n : s = l[i].timer /\ i # k
    BY DEF TimersOf, n
  <2>2. TimeOf(l, s) = u[i]
    BY <2>1, PlaceIs DEF n, u
  <2>3. PICK j \in 1 .. Len(c) : c[j].timer = s /\ Until(c)[j] = u[i]
    BY <1>6, <2>1
  <2>4. TimeOf(c, s) = Until(c)[j]
    BY <1>5, <2>3, PlaceIs
  <2> QED BY <2>2, <2>3, <2>4
<1> QED BY <1>5, <1>7, <1>8 DEF c

----------------------------------------------------------------------------
(* The inductive invariant.  Lists says that the list is in order, Spans that  *)
(* no timer of it was started for longer than the longest duration, or is due  *)
(* for longer than the first timer may be late.                                *)
Longest == Max(Durations)

Lists == Ordered(list) /\ duration \in [Timers -> Int] /\ elapsed \in Nat

Spans ==
    /\ list = <<>> => elapsed = 0
    /\ duration \in [Timers -> -MaxOverdue .. Longest]
    /\ \A t \in TimersOf(list) : TimeOf(list, t) <= Longest /\ -MaxOverdue <= TimeOf(list, t) - elapsed

LEMMA LongestIs == Longest \in Nat /\ \A n \in Durations : n <= Longest
<1>1. Durations \in SUBSET Nat /\ Durations # {} /\ IsFiniteSet(Durations)
  BY TimersAssumption
<1> QED BY <1>1, MaxOfFinite DEF Longest

LEMMA ActiveIs ==
    ASSUME Lists
    PROVE  /\ Active = TimersOf(list) /\ TimersOf(list) \subseteq Timers
           /\ \A t \in TimersOf(list) : TimeOf(list, t) \in Int
           /\ list = <<>> <=> TimersOf(list) = {}
<1>1. Ordered(list) /\ list \in Seq(Entry)
  BY DEF Lists, Ordered
<1>2. DOMAIN list = 1 .. Len(list) /\ Len(list) \in Nat
  BY <1>1, EntriesOf
<1>3. Active = TimersOf(list)
  BY <1>2 DEF Active, TimersOf
<1>4. ASSUME NEW t \in TimersOf(list)
      PROVE  t \in Timers /\ TimeOf(list, t) \in Int
  <2>1. PICK i \in 1 .. Len(list) : t = list[i].timer
    BY DEF TimersOf
  <2> QED BY <1>1, <2>1, PlaceIs
<1>5. CASE list = <<>>
  BY <1>3, <1>4, <1>5 DEF TimersOf
<1>6. CASE list # <<>>
  <2>1. 1 \in 1 .. Len(list)
    BY <1>1, <1>2, <1>6, EmptySeq
  <2>2. list[1].timer \in TimersOf(list)
    BY <2>1 DEF TimersOf
  <2> QED BY <1>3, <1>4, <1>6, <2>2
<1> QED BY <1>5, <1>6

(* What each action does to the times.                                         *)
Leaves(t) ==
    /\ t \in TimersOf(list) /\ Ordered(list)' /\ TimersOf(list)' = TimersOf(list) \ {t}
    /\ \A s \in TimersOf(list) \ {t} : TimeOf(list, s)' = TimeOf(list, s) - elapsed
    /\ duration' = [duration EXCEPT ![t] = TimeOf(list, t) - elapsed]
    /\ elapsed' = 0

LEMMA StartEffect ==
    ASSUME Lists, NEW t \in Timers, NEW n \in Durations, StartTimer(t, n)
    PROVE  /\ t \notin TimersOf(list)
           /\ Ordered(list)' /\ TimersOf(list)' = TimersOf(list) \cup {t}
           /\ TimeOf(list, t)' = IF n # 0 THEN n ELSE duration[t]
           /\ \A s \in TimersOf(list) : TimeOf(list, s)' = TimeOf(list, s) - elapsed
           /\ elapsed' = 0 /\ duration' = duration
<1> DEFINE m == IF n # 0 THEN n ELSE duration[t]
           r == Refreshed
<1>1. m \in Int
  BY TimersAssumption DEF Lists
<1>2. t \notin TimersOf(list) /\ list' = Add(r, t, m) /\ elapsed' = 0 /\ duration' = duration
  BY ActiveIs DEF StartTimer
<1>3. /\ Ordered(r) /\ TimersOf(r) = TimersOf(list)
      /\ \A s \in TimersOf(list) : TimeOf(r, s) = TimeOf(list, s) - elapsed
  BY RefreshedTimes DEF Lists
<1> HIDE DEF m, r
<1>4. t \in Timers \ TimersOf(r)
  BY <1>2, <1>3
<1>5. /\ Ordered(Add(r, t, m)) /\ TimersOf(Add(r, t, m)) = TimersOf(r) \cup {t}
      /\ TimeOf(Add(r, t, m), t) = m
      /\ \A s \in TimersOf(r) : TimeOf(Add(r, t, m), s) = TimeOf(r, s)
  BY <1>1, <1>3, <1>4, AddTimes
<1>6. Ordered(list') /\ TimersOf(list') = TimersOf(list) \cup {t} /\ TimeOf(list', t) = m
      /\ \A s \in TimersOf(list) : TimeOf(list', s) = TimeOf(list, s) - elapsed
  BY <1>2, <1>3, <1>5
<1> QED BY <1>2, <1>6 DEF m

(* What stopTimer and check share: entry k leaves after a refresh.             *)
LEMMA LeaveEffect ==
    ASSUME Lists, NEW k \in 1 .. Len(list),
           list' = Del(Refreshed, k), elapsed' = 0,
           duration' = [duration EXCEPT ![list[k].timer] = Until(Refreshed)[k]]
    PROVE  Leaves(list[k].timer)
<1> DEFINE r == Refreshed
           t == list[k].timer
<1>0. Ordered(list) /\ elapsed \in Int
  BY DEF Lists
<1>1. /\ Ordered(r) /\ Len(r) = Len(list) /\ TimersOf(r) = TimersOf(list) /\ r[k].timer = t
      /\ \A s \in TimersOf(list) : TimeOf(r, s) = TimeOf(list, s) - elapsed
  BY <1>0, RefreshedTimes
<1>2. t \in TimersOf(list)
  BY DEF TimersOf
<1> HIDE DEF r, t
<1>3. k \in 1 .. Len(r)
  BY <1>1
<1>4. /\ Ordered(Del(r, k)) /\ TimersOf(Del(r, k)) = TimersOf(r) \ {t}
      /\ \A s \in TimersOf(r) \ {t} : TimeOf(Del(r, k), s) = TimeOf(r, s)
  BY <1>1, <1>3, DelTimes
<1>5. TimeOf(r, t) = Until(r)[k]
  BY <1>1, <1>3, PlaceIs
<1>6. duration' = [duration EXCEPT ![t] = TimeOf(list, t) - elapsed]
  BY <1>1, <1>2, <1>5 DEF r, t
<1>7. list' = Del(r, k)
  BY DEF r
<1>8. Ordered(list') /\ TimersOf(list') = TimersOf(list) \ {t}
      /\ \A s \in TimersOf(list) \ {t} : TimeOf(list', s) = TimeOf(list, s) - elapsed
  BY <1>1, <1>4, <1>7
<1>9. Leaves(t)
  BY <1>2, <1>6, <1>8 DEF Leaves
<1> QED BY <1>9 DEF t

LEMMA StopEffect ==
    ASSUME Lists, NEW t \in Timers, StopTimer(t)
    PROVE  Leaves(t)
<1>1. PICK k \in 1 .. Len(list) : t = list[k].timer
  BY ActiveIs DEF StopTimer, TimersOf
<1>2. PlaceOf(list, t) = k
  BY <1>1, PlaceIs DEF Lists
<1>3. list' = Del(Refreshed, k) /\ duration' = [duration EXCEPT ![list[k].timer] = Until(Refreshed)[k]]
      /\ elapsed' = 0
  BY <1>1, <1>2 DEF StopTimer
<1> QED BY <1>1, <1>3, LeaveEffect

LEMMA CheckEffect ==
    ASSUME Lists, Check
    PROVE  /\ Leaves(list[1].timer) /\ TimeOf(list, list[1].timer) - elapsed <= 0
           /\ \A s \in TimersOf(list) : TimeOf(list, list[1].timer) <= TimeOf(list, s)
<1>0. Ordered(list) /\ list \in Seq(Entry) /\ elapsed \in Int
  BY DEF Lists, Ordered
<1>1. Len(list) \in Nat /\ 1 \in 1 .. Len(list)
  BY <1>0, EntriesOf, EmptySeq DEF Check
<1>2. /\ Refreshed \in Seq(Entry) /\ Len(Refreshed) = Len(list)
      /\ Until(Refreshed)[1] = Until(list)[1] - elapsed
  BY <1>0, <1>1, RefreshedIs
<1>3. Until(Refreshed)[1] = Refreshed[1].d
  <2>1. /\ Until(Refreshed)[1] = Until(Refreshed)[1 - 1] + Refreshed[1].d
        /\ Until(Refreshed)[0] = 0 /\ Refreshed[1].d \in Int
    BY <1>1, <1>2, EntriesOf
  <2> QED BY <2>1
<1>4. TimeOf(list, list[1].timer) = Until(list)[1]
  BY <1>0, <1>1, PlaceIs
<1>5. TimeOf(list, list[1].timer) - elapsed <= 0
  BY <1>2, <1>3, <1>4 DEF Check
<1>6. Leaves(list[1].timer)
  BY <1>1, <1>3, LeaveEffect DEF Check
<1>7. ASSUME NEW s \in TimersOf(list)
      PROVE  TimeOf(list, list[1].timer) <= TimeOf(list, s)
  <2>1. PICK i \in 1 .. Len(list) : s = list[i].timer
    BY DEF TimersOf
  <2>2. TimeOf(list, s) = Until(list)[i]
    BY <1>0, <2>1, PlaceIs
  <2>3. \A j \in 2 .. Len(list) : list[j].d >= 0
    BY <1>0 DEF Ordered
  <2>4. Until(list)[1] <= Until(list)[i]
    <3>1. 1 <= i
      OBVIOUS
    <3> QED BY <1>0, <1>1, <2>3, <3>1, UntilRises
  <2> QED BY <1>4, <2>2, <2>4
<1> QED BY <1>5, <1>6, <1>7

LEMMA RefreshEffect ==
    ASSUME Lists, Refresh
    PROVE  /\ Ordered(list)' /\ TimersOf(list)' = TimersOf(list)
           /\ \A s \in TimersOf(list) : TimeOf(list, s)' = TimeOf(list, s) - elapsed
           /\ elapsed' = 0 /\ duration' = duration
<1>1. Ordered(list) /\ elapsed \in Int
  BY DEF Lists
<1>2. list' = Refreshed /\ elapsed' = 0 /\ duration' = duration
  BY DEF Refresh
<1>3. /\ Ordered(Refreshed) /\ TimersOf(Refreshed) = TimersOf(list)
      /\ \A t \in TimersOf(list) : TimeOf(Refreshed, t) = TimeOf(list, t) - elapsed
  BY <1>1, RefreshedTimes
<1>4. Ordered(list') /\ TimersOf(list') = TimersOf(list)
      /\ \A s \in TimersOf(list) : TimeOf(list', s) = TimeOf(list, s) - elapsed
  BY <1>2, <1>3
<1> QED BY <1>2, <1>4

----------------------------------------------------------------------------
LEMMA ListsStep ==
    ASSUME Lists, [Next]_vars
    PROVE  Lists'
<1>1. ASSUME NEW t, Leaves(t)
      PROVE  Lists'
  <2>1. t \in TimersOf(list) /\ TimeOf(list, t) - elapsed \in Int
    BY <1>1, ActiveIs DEF Leaves, Lists
  <2> QED BY <1>1, <2>1 DEF Leaves, Lists
<1>2. ASSUME NEW t \in Timers, NEW n \in Durations, StartTimer(t, n)
      PROVE  Lists'
  BY <1>2, StartEffect DEF Lists
<1>3. ASSUME NEW t \in Timers, StopTimer(t)
      PROVE  Lists'
  BY <1>1, <1>3, StopEffect
<1>4. CASE Check
  BY <1>1, <1>4, CheckEffect
<1>5. CASE Refresh
  BY <1>5, RefreshEffect DEF Lists
<1>6. CASE Pass
  <2>1. list' = list /\ duration' = duration /\ elapsed' \in Nat
    BY <1>6 DEF Pass, Lists
  <2> QED BY <2>1 DEF Lists
<1>7. CASE UNCHANGED vars
  BY <1>7 DEF vars, Lists
<1> QED BY <1>2, <1>3, <1>4, <1>5, <1>6, <1>7 DEF Next

LEMMA ListsInit == Init => Lists
<1> SUFFICES ASSUME Init PROVE Lists
  OBVIOUS
<1>1. list \in Seq(Entry) /\ Len(list) = 0
  BY DEF Init
<1>2. Ordered(list)
  BY <1>1 DEF Ordered
<1> QED BY <1>2 DEF Init, Lists

LEMMA ListsHolds == Spec => []Lists
<1> QED BY ListsInit, ListsStep, PTL DEF Spec

(* No timer is in the list twice, and behind the first none is due before the  *)
(* one before it: TimerList::check may stop at the first that is not due       *)
(* (ListInOrder), however many timers there are and whatever they are started  *)
(* for.                                                                        *)
THEOREM ListStaysInOrder == Spec => []ListInOrder
<1>1. Lists => ListInOrder
  <2> SUFFICES ASSUME Lists PROVE ListInOrder
    OBVIOUS
  <2>1. Ordered(list) /\ list \in Seq(Entry)
    BY DEF Lists, Ordered
  <2>2. DOMAIN list = 1 .. Len(list)
    BY <2>1, EntriesOf
  <2> QED BY <2>1, <2>2 DEF ListInOrder, Ordered
<1> QED BY <1>1, ListsHolds, PTL

----------------------------------------------------------------------------
LEMMA FirstIs ==
    ASSUME Lists, list # <<>>
    PROVE  /\ list[1].timer \in TimersOf(list) /\ TimeOf(list, list[1].timer) = list[1].d
           /\ \A s \in TimersOf(list) : list[1].d <= TimeOf(list, s)
<1>0. Ordered(list) /\ list \in Seq(Entry)
  BY DEF Lists, Ordered
<1>1. Len(list) \in Nat /\ 1 \in 1 .. Len(list)
  BY <1>0, EntriesOf, EmptySeq
<1>2. Until(list)[1] = list[1].d
  <2>1. Until(list)[1] = Until(list)[1 - 1] + list[1].d /\ Until(list)[0] = 0 /\ list[1].d \in Int
    BY <1>0, <1>1, EntriesOf
  <2> QED BY <2>1
<1>3. list[1].timer \in TimersOf(list) /\ TimeOf(list, list[1].timer) = Until(list)[1]
  BY <1>0, <1>1, PlaceIs DEF TimersOf
<1>4. ASSUME NEW s \in TimersOf(list)
      PROVE  list[1].d <= TimeOf(list, s)
  <2>1. PICK i \in 1 .. Len(list) : s = list[i].timer
    BY DEF TimersOf
  <2>2. TimeOf(list, s) = Until(list)[i]
    BY <1>0, <2>1, PlaceIs
  <2>3. \A j \in 2 .. Len(list) : list[j].d >= 0
    BY <1>0 DEF Ordered
  <2>4. 1 <= i
    OBVIOUS
  <2> QED BY <1>0, <1>1, <1>2, <2>2, <2>3, <2>4, UntilRises
<1> QED BY <1>2, <1>3, <1>4

LEMMA SpansStep ==
    ASSUME Lists, Spans, [Next]_vars
    PROVE  Spans'
<1>0. /\ Longest \in Nat /\ MaxOverdue \in Nat /\ elapsed \in Nat
      /\ \A n \in Durations : n \in Nat /\ n <= Longest
      /\ \A s \in TimersOf(list) : s \in Timers /\ TimeOf(list, s) \in Int
  BY LongestIs, ActiveIs, TimersAssumption DEF Lists
<1>s. \A t \in TimersOf(list) : TimeOf(list, t) <= Longest /\ -MaxOverdue <= TimeOf(list, t) - elapsed
  BY DEF Spans
<1>t. \A t \in TimersOf(list) : /\ TimeOf(list, t) - elapsed \in -MaxOverdue .. Longest
                                /\ TimeOf(list, t) - elapsed <= Longest
                                /\ -MaxOverdue <= TimeOf(list, t) - elapsed - 0
  BY <1>0, <1>s
<1>d. Longest' = Longest
  BY DEF Longest
<1>1. ASSUME NEW t, Leaves(t)
      PROVE  Spans'
  <2>1. duration' \in [Timers -> -MaxOverdue .. Longest]
    BY <1>1, <1>t DEF Leaves, Spans
  <2>2. ASSUME NEW s \in TimersOf(list)'
        PROVE  TimeOf(list, s)' <= Longest /\ -MaxOverdue <= TimeOf(list, s)' - elapsed'
    <3>1. s \in TimersOf(list) /\ TimeOf(list, s)' = TimeOf(list, s) - elapsed /\ elapsed' = 0
      BY <1>1, <2>2 DEF Leaves
    <3> QED BY <1>t, <3>1
  <2>3. elapsed' = 0
    BY <1>1 DEF Leaves
  <2> QED BY <1>d, <2>1, <2>2, <2>3 DEF Spans
<1>2. ASSUME NEW t \in Timers, NEW n \in Durations, StartTimer(t, n)
      PROVE  Spans'
  <2>1. /\ TimersOf(list)' = TimersOf(list) \cup {t} /\ elapsed' = 0 /\ duration' = duration
        /\ TimeOf(list, t)' = IF n # 0 THEN n ELSE duration[t]
        /\ t \notin TimersOf(list)
        /\ \A s \in TimersOf(list) : TimeOf(list, s)' = TimeOf(list, s) - elapsed
    BY <1>2, StartEffect
  <2>2. duration[t] \in -MaxOverdue .. Longest
    BY DEF Spans
  <2>3. (IF n # 0 THEN n ELSE duration[t]) \in -MaxOverdue .. Longest
    BY <1>0, <2>2
  <2>4. ASSUME NEW s \in TimersOf(list)'
        PROVE  TimeOf(list, s)' <= Longest /\ -MaxOverdue <= TimeOf(list, s)' - elapsed'
    <3>1. CASE s = t
      BY <1>0, <2>1, <2>3, <3>1
    <3>2. CASE s # t
      <4>1. s \in TimersOf(list)
        BY <2>1, <2>4, <3>2
      <4> QED BY <1>t, <2>1, <4>1
    <3> QED BY <3>1, <3>2
  <2> QED BY <1>d, <2>1, <2>4 DEF Spans
<1>3. ASSUME NEW t \in Timers, StopTimer(t)
      PROVE  Spans'
  BY <1>1, <1>3, StopEffect
<1>4. CASE Check
  BY <1>1, <1>4, CheckEffect
<1>5. CASE Refresh
  <2>1. /\ TimersOf(list)' = TimersOf(list) /\ elapsed' = 0 /\ duration' = duration
        /\ \A s \in TimersOf(list) : TimeOf(list, s)' = TimeOf(list, s) - elapsed
    BY <1>5, RefreshEffect
  <2>2. ASSUME NEW s \in TimersOf(list)'
        PROVE  TimeOf(list, s)' <= Longest /\ -MaxOverdue <= TimeOf(list, s)' - elapsed'
    <3>1. s \in TimersOf(list)
      BY <2>1, <2>2
    <3> QED BY <1>t, <2>1, <3>1
  <2> QED BY <1>d, <2>1, <2>2 DEF Spans
<1>6. CASE Pass
  <2>1. list' = list /\ duration' = duration /\ elapsed' = IF list = <<>> THEN 0 ELSE elapsed + 1
    BY <1>6 DEF Pass
  <2>2. ASSUME NEW s \in TimersOf(list)
        PROVE  TimeOf(list, s) <= Longest /\ -MaxOverdue <= TimeOf(list, s) - elapsed'
    <3>1. list # <<>>
      BY <2>2, ActiveIs
    <3>2. elapsed' = elapsed + 1 /\ list[1].d - elapsed > -MaxOverdue
      BY <1>6, <2>1, <3>1 DEF Pass
    <3>3. list[1].d \in Int /\ list[1].d <= TimeOf(list, s) /\ TimeOf(list, s) \in Int
      BY <1>0, <2>2, <3>1, FirstIs
    <3> QED BY <1>0, <1>s, <3>2, <3>3
  <2>3. list' = <<>> => elapsed' = 0
    BY <2>1
  <2> QED BY <1>d, <2>1, <2>2, <2>3 DEF Spans
<1>7. CASE UNCHANGED vars
  BY <1>7, <1>d DEF vars, Spans
<1> QED BY <1>2, <1>3, <1>4, <1>5, <1>6, <1>7 DEF Next

LEMMA SpansHolds == Spec => [](Lists /\ Spans)
<1>1. Init => Spans
  <2> SUFFICES ASSUME Init PROVE Spans
    OBVIOUS
  <2>1. Lists /\ TimersOf(list) = {}
    <3>1. Lists
      BY ListsInit
    <3> QED BY <3>1, ActiveIs DEF Init
  <2>2. 0 \in -MaxOverdue .. Longest
    BY LongestIs, TimersAssumption
  <2> QED BY <2>1, <2>2 DEF Init, Spans
<1>2. Lists /\ Spans /\ [Next]_vars => (Lists /\ Spans)'
  BY ListsStep, SpansStep
<1> QED BY <1>1, <1>2, ListsInit, PTL DEF Spec

(* What is written down for a timer stays within the longest duration and the  *)
(* lateness, through any number of stops and starts: refresh takes no time off *)
(* twice, and del and add give back what they take (TypeInvariant).            *)
THEOREM TimesStayBounded == Spec => []TypeInvariant
<1>1. Lists /\ Spans => TypeInvariant
  <2> SUFFICES ASSUME Lists, Spans PROVE TypeInvariant
    OBVIOUS
  <2> DEFINE span == Longest + MaxOverdue
  <2>0. Longest \in Nat /\ MaxOverdue \in Nat /\ elapsed \in Nat /\ Ordered(list) /\ list \in Seq(Entry)
    BY LongestIs, TimersAssumption DEF Lists, Ordered
  <2>1. ASSUME NEW i \in 1 .. Len(list)
        PROVE  Until(list)[i] \in Int /\ Until(list)[i] <= Longest /\ -MaxOverdue <= Until(list)[i]
               /\ Until(list)[i] - elapsed >= -MaxOverdue
    <3>1. list[i].timer \in TimersOf(list)
      BY DEF TimersOf
    <3>2. TimeOf(list, list[i].timer) = Until(list)[i] /\ Until(list)[i] \in Int
      BY <2>0, PlaceIs
    <3>3. Until(list)[i] <= Longest /\ -MaxOverdue <= Until(list)[i] - elapsed
      BY <3>1, <3>2 DEF Spans
    <3> QED BY <2>0, <3>2, <3>3
  <2>2. /\ Len(list) \in Nat /\ Until(list)[0] = 0
        /\ \A i \in 1 .. Len(list) : /\ list[i] \in Entry /\ list[i].d \in Int
                                     /\ Until(list)[i] = Until(list)[i - 1] + list[i].d
    BY <2>0, EntriesOf
  <2>3. ASSUME NEW i \in 1 .. Len(list)
        PROVE  list[i].d \in -MaxOverdue .. span
    <3>1. CASE i = 1
      BY <2>0, <2>1, <2>2, <3>1
    <3>2. CASE i # 1
      <4>1. i - 1 \in 1 .. Len(list) /\ i \in 2 .. Len(list)
        BY <2>2, <3>2
      <4>2. list[i].d >= 0
        BY <2>0, <4>1 DEF Ordered
      <4>3. Until(list)[i - 1] \in Int /\ -MaxOverdue <= Until(list)[i - 1]
        BY <2>1, <4>1
      <4>4. Until(list)[i] = Until(list)[i - 1] + list[i].d /\ Until(list)[i] <= Longest
            /\ list[i].d \in Int
        BY <2>1, <2>2
      <4> QED BY <2>0, <4>2, <4>3, <4>4
    <3> QED BY <3>1, <3>2
  <2>4. list \in Seq([timer : Timers, d : -MaxOverdue .. span])
    <3>1. \A i \in 1 .. Len(list) : list[i] \in [timer : Timers, d : -MaxOverdue .. span]
      BY <2>2, <2>3 DEF Entry
    <3> DEFINE T == [timer : Timers, d : -MaxOverdue .. span]
    <3> HIDE DEF T
    <3>2. list \in [1 .. Len(list) -> T]
      <4>1. list \in [1 .. Len(list) -> Entry]
        BY <2>0, LenProperties
      <4> QED BY <3>1, <4>1 DEF T
    <3>3. list \in Seq(T)
      BY <2>2, <3>2, SeqDef
    <3> QED BY <3>3 DEF T
  <2>5. duration \in [Timers -> -MaxOverdue .. span]
    <3>1. -MaxOverdue .. Longest \subseteq -MaxOverdue .. span
      BY <2>0
    <3> QED BY <3>1 DEF Spans
  <2>6. elapsed \in 0 .. span
    <3>1. CASE list = <<>>
      BY <2>0, <3>1 DEF Spans
    <3>2. CASE list # <<>>
      <4>1. 1 \in 1 .. Len(list)
        BY <2>0, <2>2, <3>2, EmptySeq
      <4> QED BY <2>0, <2>1, <4>1
    <3> QED BY <3>1, <3>2
  <2> QED BY <2>4, <2>5, <2>6 DEF TypeInvariant, Longest
<1> QED BY <1>1, SpansHolds, PTL

----------------------------------------------------------------------------
(* The refinement: the times of the list are the deadlines of Deadlines.       *)
Left == [t \in Timers |-> IF t \in Active THEN Read(t) ELSE duration[t]]

Reads ==
    /\ Active = TimersOf(list) /\ TimersOf(list) \subseteq Timers
    /\ Left = [t \in Timers |-> IF t \in TimersOf(list) THEN TimeOf(list, t) - elapsed ELSE duration[t]]
    /\ duration \in [Timers -> Int]

LEMMA ReadsIs == Lists => Reads
<1> SUFFICES ASSUME Lists PROVE Reads
  OBVIOUS
<1>0. Ordered(list) /\ elapsed \in Int
  BY DEF Lists
<1>1. ASSUME NEW t \in TimersOf(list)
      PROVE  Read(t) = TimeOf(list, t) - elapsed
  <2>1. PICK i \in 1 .. Len(list) : t = list[i].timer
    BY DEF TimersOf
  <2>2. /\ Ordered(Refreshed) /\ i \in 1 .. Len(Refreshed) /\ t = Refreshed[i].timer
        /\ TimeOf(Refreshed, t) = TimeOf(list, t) - elapsed
    BY <1>0, <2>1, RefreshedTimes
  <2>3. TimeOf(Refreshed, t) = Until(Refreshed)[i] /\ PlaceOf(list, t) = i
    BY <1>0, <2>1, <2>2, PlaceIs
  <2>4. t \in Active
    BY ActiveIs
  <2> QED BY <2>2, <2>3, <2>4 DEF Read
<1>2. Active = TimersOf(list) /\ TimersOf(list) \subseteq Timers
  BY ActiveIs
<1> QED BY <1>1, <1>2 DEF Left, Reads, Lists

LEMMA DeadlinesStep ==
    ASSUME Lists, Reads', [Next]_vars
    PROVE  [Single!Next]_(Single!vars)
<1> DEFINE left == Left
           running == TimersOf(list)
<1>1. /\ Active = running /\ running \subseteq Timers /\ \A t \in running : TimeOf(list, t) \in Int
      /\ left = [t \in Timers |-> IF t \in running THEN TimeOf(list, t) - elapsed ELSE duration[t]]
      /\ duration \in [Timers -> Int] /\ elapsed \in Nat
  BY ActiveIs, ReadsIs DEF Lists, Reads
<1>2. /\ Active' = running' /\ running' \subseteq Timers
      /\ left' = [t \in Timers |-> IF t \in running' THEN TimeOf(list, t)' - elapsed' ELSE duration'[t]]
      /\ duration' \in [Timers -> Int]
  BY DEF Reads
<1>3. ASSUME NEW t, Leaves(t)
      PROVE  t \in running /\ Active' = Active \ {t} /\ left' = left
  <2>1. /\ t \in running /\ running' = running \ {t} /\ elapsed' = 0
        /\ duration' = [duration EXCEPT ![t] = TimeOf(list, t) - elapsed]
        /\ \A s \in running \ {t} : TimeOf(list, s)' = TimeOf(list, s) - elapsed
    BY <1>3 DEF Leaves
  <2> HIDE DEF left, running
  <2>2. ASSUME NEW s \in Timers
        PROVE  left'[s] = left[s]
    <3>1. CASE s = t
      BY <1>1, <1>2, <2>1, <3>1
    <3>2. CASE s \in running \ {t}
      <4>1. s \in running' /\ TimeOf(list, s)' = TimeOf(list, s) - elapsed /\ TimeOf(list, s) \in Int
        BY <1>1, <2>1, <3>2
      <4>2. left'[s] = TimeOf(list, s)' - elapsed' /\ left[s] = TimeOf(list, s) - elapsed
        BY <1>1, <1>2, <3>2, <4>1
      <4> QED BY <1>1, <2>1, <4>1, <4>2
    <3>3. CASE s \notin running
      BY <1>1, <1>2, <2>1, <3>3
    <3> QED BY <3>1, <3>2, <3>3
  <2> QED BY <1>1, <1>2, <2>1, <2>2
<1>4. ASSUME NEW t \in Timers, NEW n \in Durations, StartTimer(t, n)
      PROVE  Single!Start(t, n)
  <2>1. /\ t \notin running /\ running' = running \cup {t} /\ elapsed' = 0 /\ duration' = duration
        /\ TimeOf(list, t)' = IF n # 0 THEN n ELSE duration[t]
        /\ \A s \in running : TimeOf(list, s)' = TimeOf(list, s) - elapsed
    BY <1>4, StartEffect
  <2>2. n \in Nat
    BY TimersAssumption
  <2> HIDE DEF left, running
  <2>3. left'[t] = IF n # 0 THEN n ELSE left[t]
    BY <1>1, <1>2, <2>1, <2>2
  <2>4. ASSUME NEW s \in Timers, s # t
        PROVE  left'[s] = left[s]
    <3>1. CASE s \in running
      BY <1>1, <1>2, <2>1, <3>1
    <3>2. CASE s \notin running
      BY <1>1, <1>2, <2>1, <2>4, <3>2
    <3> QED BY <3>1, <3>2
  <2>5. left' = IF n = 0 THEN left ELSE [left EXCEPT ![t] = n]
    BY <1>1, <1>2, <2>3, <2>4
  <2> QED BY <1>1, <1>2, <2>1, <2>5 DEF Single!Start, left, Left
<1>5. ASSUME NEW t \in Timers, StopTimer(t)
      PROVE  Single!Stop(t)
  <2>1. t \in running /\ Active' = Active \ {t} /\ left' = left
    BY <1>3, <1>5, StopEffect
  <2> QED BY <1>1, <2>1 DEF Single!Stop, Left
<1>6. CASE Check
  <2> DEFINE t == list[1].timer
  <2>1. Leaves(t) /\ TimeOf(list, t) - elapsed <= 0
        /\ \A s \in running : TimeOf(list, t) <= TimeOf(list, s)
    BY <1>6, CheckEffect
  <2> HIDE DEF t
  <2>2. t \in running /\ Active' = Active \ {t} /\ left' = left
    BY <1>3, <2>1
  <2>3. left[t] <= 0 /\ \A s \in Active : left[t] <= left[s]
    <3> HIDE DEF left, running
    <3>1. t \in Timers /\ left[t] = TimeOf(list, t) - elapsed
      BY <1>1, <2>2
    <3>2. \A s \in Active : s \in running /\ left[s] = TimeOf(list, s) - elapsed
      BY <1>1
    <3> QED BY <1>1, <2>1, <2>2, <3>1, <3>2
  <2>4. Single!Fire(t) /\ t \in Timers
    BY <1>1, <2>2, <2>3 DEF Single!Fire, Left
  <2> QED BY <2>4 DEF Single!Next
<1>7. CASE Refresh
  <2>1. /\ running' = running /\ elapsed' = 0 /\ duration' = duration
        /\ \A s \in running : TimeOf(list, s)' = TimeOf(list, s) - elapsed
    BY <1>7, RefreshEffect
  <2>2. left' = left
    <3> HIDE DEF left, running
    <3>1. \A s \in running : TimeOf(list, s)' - elapsed' = TimeOf(list, s) - elapsed
      BY <1>1, <2>1
    <3> QED BY <1>1, <1>2, <2>1, <3>1
  <2> QED BY <1>1, <1>2, <2>1, <2>2 DEF Single!vars, Left
<1>8. CASE Pass
  <2>1. list' = list /\ duration' = duration /\ elapsed' = IF list = <<>> THEN 0 ELSE elapsed + 1
    BY <1>8 DEF Pass
  <2>2. running' = running /\ \A s \in running : TimeOf(list, s)' = TimeOf(list, s)
    BY <2>1
  <2>3. \A s \in running : elapsed' = elapsed + 1
    BY <2>1, ActiveIs
  <2>4. left' = [s \in Timers |-> IF s \in Active THEN left[s] - 1 ELSE left[s]]
    <3> HIDE DEF left, running
    <3>1. \A s \in running : TimeOf(list, s)' - elapsed' = (TimeOf(list, s) - elapsed) - 1
      BY <1>1, <2>2, <2>3
    <3> QED BY <1>1, <1>2, <2>1, <2>2, <3>1
  <2>5. Single!Pass
    BY <1>1, <1>2, <2>2, <2>4 DEF Single!Pass, Left
  <2> QED BY <2>5 DEF Single!Next
<1>9. CASE UNCHANGED vars
  <2>1. list' = list /\ duration' = duration /\ elapsed' = elapsed
    BY <1>9 DEF vars
  <2>2. Active' = Active /\ left' = left
    <3> HIDE DEF left
    <3>1. running' = running /\ \A s \in running : TimeOf(list, s)' = TimeOf(list, s)
      BY <2>1
    <3> HIDE DEF running
    <3> QED BY <1>1, <1>2, <2>1, <3>1
  <2> QED BY <2>2 DEF Single!vars, Left
<1> QED BY <1>4, <1>5, <1>6, <1>7, <1>8, <1>9 DEF Next, Single!Next

(* The list of differences does for each timer what a deadline of its own      *)
(* would: TimerList implements Deadlines, in which no start, stop or timeout   *)
(* of a timer touches another, none fires early and none out of turn           *)
(* (KeepsDeadlines).                                                           *)
THEOREM ListKeepsDeadlines == Spec => KeepsDeadlines
<1>1. Init => Single!Init
  <2> SUFFICES ASSUME Init PROVE Single!Init
    OBVIOUS
  <2>1. Lists
    BY ListsInit
  <2>2. TimersOf(list) = {} /\ Active = {}
    BY <2>1, ActiveIs DEF Init
  <2>3. Left = [t \in Timers |-> 0]
    BY <2>2 DEF Left, Init
  <2> QED BY <2>2, <2>3 DEF Single!Init, Left
<1>2. Lists /\ Reads' /\ [Next]_vars => [Single!Next]_(Single!vars)
  BY DeadlinesStep
<1> QED BY <1>1, <1>2, ListsHolds, ReadsIs, PTL DEF Spec, KeepsDeadlines, Single!Spec
=============================================================================
