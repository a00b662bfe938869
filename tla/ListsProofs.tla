----------------------------- MODULE ListsProofs -----------------------------
(* Proofs about Lists, for every set of variables and atoms and every size:  *)
(* a list has as many references as the variables, the stack and the other   *)
(* lists hold of it. First what a list and its window are, and counting the  *)
(* elements that are a given list; then the counts of a heap whose elements  *)
(* count too, as lists are dup'ed and discarded; then the array functions of *)
(* list.c on the one list that only the operator holds; then the variables   *)
(* and each operator.                                                        *)
EXTENDS Lists, FiniteSetTheorems, SequenceTheorems, WellFoundedInduction, TLAPS

-----------------------------------------------------------------------------
(* The places of b that hold r, as many as there are, and one place changed; *)
(* the record of a value with another count; the least of a set of numbers.  *)
Holding(b, r) == {s \in DOMAIN b : b[s] = r}
Count(b, r) == Cardinality(Holding(b, r))
Recount(d, k) == [d EXCEPT !.refs = k]
PutIn(f, d, x) == [f EXCEPT ![d] = x]

Counts(b, c, s, x) ==
    /\ \A r : Count(b, r) \in Nat /\ (Count(b, r) = 0 <=> \A t \in DOMAIN b : b[t] # r)
    /\ \A r : r # x /\ r # b[s] => Count(c, r) = Count(b, r)
    /\ x # b[s] => Count(c, x) = Count(b, x) + 1 /\ Count(c, b[s]) = Count(b, b[s]) - 1

LEMMA CountIs ==
    ASSUME NEW S, IsFiniteSet(S), NEW b, DOMAIN b = S, NEW r
    PROVE  /\ IsFiniteSet(Holding(b, r)) /\ Count(b, r) \in Nat
           /\ Count(b, r) = 0 <=> \A t \in DOMAIN b : b[t] # r
<1>1. Holding(b, r) \subseteq S
  BY DEF Holding
<1>2. IsFiniteSet(Holding(b, r))
  BY <1>1, FS_Subset
<1>3. Count(b, r) \in Nat
  BY <1>2, FS_CardinalityType DEF Count
<1>4. Count(b, r) = 0 <=> Holding(b, r) = {}
  BY <1>2, FS_EmptySet DEF Count
<1>5. Holding(b, r) = {} <=> \A t \in DOMAIN b : b[t] # r
  BY DEF Holding
<1> QED BY <1>2, <1>3, <1>4, <1>5

LEMMA CountPut ==
    ASSUME NEW S, IsFiniteSet(S), NEW b, DOMAIN b = S, NEW s \in S, NEW x
    PROVE  Counts(b, PutIn(b, s, x), s, x)
<1> PICK c : c = PutIn(b, s, x)
  OBVIOUS
<1>1. DOMAIN c = S /\ c[s] = x /\ \A t \in S : t # s => c[t] = b[t]
  BY DEF PutIn
<1>2. \A r : /\ IsFiniteSet(Holding(b, r)) /\ Count(b, r) \in Nat
             /\ Count(b, r) = 0 <=> \A t \in DOMAIN b : b[t] # r
  BY CountIs
<1>3. \A r : IsFiniteSet(Holding(c, r))
  BY <1>1, CountIs
<1>4. ASSUME NEW r, r # x, r # b[s] PROVE Count(c, r) = Count(b, r)
  <2>1. Holding(c, r) = Holding(b, r)
    BY <1>1, <1>4 DEF Holding
  <2> QED BY <2>1 DEF Count
<1>5. ASSUME x # b[s] PROVE Count(c, x) = Count(b, x) + 1
  <2>1. Holding(c, x) = Holding(b, x) \cup {s} /\ s \notin Holding(b, x)
    BY <1>1, <1>5 DEF Holding
  <2>2. Cardinality(Holding(b, x) \cup {s}) = Cardinality(Holding(b, x)) + 1
    BY <1>2, <2>1, FS_AddElement
  <2> QED BY <2>1, <2>2 DEF Count
<1>6. ASSUME x # b[s] PROVE Count(c, b[s]) = Count(b, b[s]) - 1
  <2> PICK r : r = b[s]
    OBVIOUS
  <2>1. Holding(b, r) = Holding(c, r) \cup {s} /\ s \notin Holding(c, r)
    BY <1>1, <1>6 DEF Holding
  <2>2. Cardinality(Holding(c, r) \cup {s}) = Cardinality(Holding(c, r)) + 1
    BY <1>3, <2>1, FS_AddElement
  <2>3. Cardinality(Holding(c, r)) \in Nat
    BY <1>3, FS_CardinalityType
  <2> QED BY <2>1, <2>2, <2>3 DEF Count
<1> QED BY <1>2, <1>4, <1>5, <1>6, Zenon DEF Counts

LEMMA MinOfNaturals ==
    ASSUME NEW S \in SUBSET Nat, S # {}
    PROVE  \E x \in S : \A y \in S : x <= y
<1> DEFINE R == {ss \in Nat \X Nat : ss[1] < ss[2]}
<1>1. IsWellFoundedOn(R, Nat)
  BY NatLessThanWellFounded, Zenon DEF OpToRel
<1>2. PICK x \in S : \A y \in S : ~(<<y, x>> \in R)
  BY <1>1, WFMin, Zenon
<1>3. ASSUME NEW y \in S PROVE x <= y
  <2>1. x \in Nat /\ y \in Nat
    OBVIOUS
  <2>2. ~(<<y, x>> \in R)
    BY <1>2
  <2> QED BY <2>1, <2>2
<1> QED BY <1>3, Zenon

-----------------------------------------------------------------------------
(* list.c: lists are counted values that may be elements of lists. First     *)
(* what a list is, on its own.                                               *)

Growing(a, b, f) == [k \in 0 .. 3 |-> IF k = 0 THEN a ELSE 2 * f[k - 1] + b]

LEMMA GrowingIs ==
    ASSUME NEW a \in Nat, NEW b \in Nat, NEW u, u = CHOOSE f : f = Growing(a, b, f)
    PROVE  {u[k] : k \in 0 .. 3} \in SUBSET Nat
<1>3. \E f : f = Growing(a, b, f)
  <2> PICK c : c = 2 * a + b
    OBVIOUS
  <2> PICK d : d = 2 * c + b
    OBVIOUS
  <2> PICK e : e = 2 * d + b
    OBVIOUS
  <2> PICK f : f = [k \in 0 .. 3 |-> IF k = 0 THEN a ELSE IF k = 1 THEN c ELSE IF k = 2 THEN d ELSE e]
    OBVIOUS
  <2>1. f[0] = a /\ f[1] = c /\ f[2] = d
    OBVIOUS
  <2>2. ASSUME NEW k \in 0 .. 3 PROVE f[k] = Growing(a, b, f)[k]
    <3>1. k = 0 \/ k = 1 \/ k = 2 \/ k = 3
      OBVIOUS
    <3>2. Growing(a, b, f)[k] = IF k = 0 THEN a ELSE 2 * f[k - 1] + b
      BY DEF Growing
    <3>3. CASE k = 0
      BY <3>2, <3>3
    <3>4. CASE k # 0
      <4>1. 2 * f[k - 1] + b = IF k = 1 THEN c ELSE IF k = 2 THEN d ELSE e
        BY <2>1, <3>1, <3>4
      <4> QED BY <3>2, <3>4, <4>1
    <3> QED BY <3>3, <3>4
  <2>3. f = Growing(a, b, f)
    BY <2>2, Zenon DEF Growing
  <2> QED BY <2>3
<1>4. u = Growing(a, b, u)
  BY <1>3, Zenon
<1>6. /\ Growing(a, b, u)[0] = a /\ Growing(a, b, u)[1] = 2 * u[0] + b
      /\ Growing(a, b, u)[2] = 2 * u[1] + b /\ Growing(a, b, u)[3] = 2 * u[2] + b
  BY DEF Growing
<1>7. u[0] = a /\ u[1] = 2 * u[0] + b /\ u[2] = 2 * u[1] + b /\ u[3] = 2 * u[2] + b
  BY <1>4, <1>6, Zenon
<1>8. u[0] \in Nat /\ u[1] \in Nat /\ u[2] \in Nat /\ u[3] \in Nat
  BY <1>7
<1>9. \A k \in 0 .. 3 : u[k] \in Nat
  BY <1>8
<1> QED BY <1>9

LEMMA SizesAre == Sizes \in SUBSET Nat
<1> DEFINE u == CHOOSE f : f = Growing(ListStart, ListDelta, f)
<1>1. ListStart \in Nat /\ ListDelta \in Nat
  BY ListsAssumption
<1>2. Sizes = {u[k] : k \in 0 .. 3}
  BY Zenon DEF Sizes, Growing
<1> QED BY <1>1, <1>2, GrowingIs

LEMMA SizeForIs ==
    ASSUME NEW n \in 0 .. MaxLen
    PROVE  SizeFor(n) \in Nat /\ n <= SizeFor(n)
<1> PICK T : T = {t \in Sizes : t >= n}
  OBVIOUS
<1>1. Sizes \in SUBSET Nat
  BY SizesAre
<1>2. MaxLen \in Nat /\ \E t \in Sizes : MaxLen <= t
  BY ListsAssumption
<1>3. T \in SUBSET Nat /\ T # {}
  <2>1. PICK t \in Sizes : MaxLen <= t
    BY <1>2
  <2>2. t \in Nat /\ n <= MaxLen /\ n \in Nat
    BY <1>1, <1>2
  <2>3. t \in T
    BY <2>1, <2>2, <1>2
  <2> QED BY <1>1, <2>3
<1>4. \E x \in T : \A y \in T : x <= y
  BY <1>3, MinOfNaturals
<1>5. \E s \in Sizes : s >= n /\ \A t \in Sizes : t >= n => s <= t
  BY <1>4
<1>6. SizeFor(n) \in Sizes /\ SizeFor(n) >= n
  BY <1>5 DEF SizeFor
<1> QED BY <1>1, <1>6

(* A list as it may be in the heap, with what is in its window.              *)
ListFields == {"start", "len", "size", "refs", "el"}
Lasts(c) ==
    /\ c = [start |-> c.start, len |-> c.len, size |-> c.size, refs |-> c.refs, el |-> c.el]
    /\ c.start \in Nat /\ c.len \in 0 .. MaxLen /\ c.size \in Nat /\ c.refs \in Nat
    /\ c.start + c.len <= c.size
    /\ c.el \in [0 .. c.size - 1 -> Int]

LEMMA WindowIs ==
    ASSUME NEW c, Lasts(c)
    PROVE  /\ Window(c) \in Seq(Int) /\ Len(Window(c)) = c.len
           /\ \A i \in 1 .. c.len : Window(c)[i] = c.el[c.start + i - 1]
<1>1. c.start \in Nat /\ c.len \in Nat /\ c.size \in Nat /\ c.start + c.len <= c.size
      /\ c.el \in [0 .. c.size - 1 -> Int]
  BY ListsAssumption DEF Lasts
<1>2. \A i \in 1 .. c.len : c.start + i - 1 \in 0 .. c.size - 1
  BY <1>1
<1>3. \A i \in 1 .. c.len : El(c, c.start + i - 1) = c.el[c.start + i - 1]
  BY <1>1, <1>2 DEF El
<1>4. \A i \in 1 .. c.len : c.el[c.start + i - 1] \in Int
  BY <1>1, <1>2
<1> PICK w, n : n = c.len /\ w = Window(c)
  OBVIOUS
<1>5. w = [i \in 1 .. n |-> El(c, c.start + i - 1)]
  BY DEF Window
<1>6. w \in [1 .. n -> Int] /\ \A i \in 1 .. n : w[i] = c.el[c.start + i - 1]
  BY <1>3, <1>4, <1>5
<1>7. w \in Seq(Int) /\ Len(w) = n
  <2>1. n \in Nat /\ w \in [1 .. n -> Int]
    BY <1>1, <1>6
  <2> QED BY <2>1
<1> QED BY <1>6, <1>7

LEMMA FreeLasts == Lasts(Free) /\ Free.refs = 0 /\ Window(Free) = <<>> /\ Free.len = 0
<1>1. Free = [start |-> 0, len |-> 0, size |-> 0, refs |-> 0, el |-> <<>>]
  BY DEF Free
<1>2. <<>> \in [0 .. 0 - 1 -> Int]
  OBVIOUS
<1>3. MaxLen \in Nat
  BY ListsAssumption
<1>4. Lasts(Free)
  BY <1>1, <1>2, <1>3 DEF Lasts
<1>5. Window(Free) \in Seq(Int) /\ Len(Window(Free)) = 0
  BY <1>1, <1>4, WindowIs
<1>6. Window(Free) = <<>>
  BY <1>5
<1> QED BY <1>1, <1>4, <1>6

(* As many of these as of those.                                             *)
Matching(f, S, T) ==
    /\ \A x \in S : f[x] \in T
    /\ \A x, y \in S : f[x] = f[y] => x = y
    /\ \A y \in T : \E x \in S : f[x] = y

LEMMA MatchingCounts ==
    ASSUME NEW S, NEW T, NEW f, IsFiniteSet(S), Matching(f, S, T)
    PROVE  IsFiniteSet(T) /\ Cardinality(T) = Cardinality(S)
<1> PICK g : g = [x \in S |-> f[x]]
  OBVIOUS
<1>1. g \in [S -> T] /\ (\A x, y \in S : g[x] = g[y] => x = y) /\ \A y \in T : \E x \in S : g[x] = y
  BY DEF Matching
<1>2. g \in Bijection(S, T)
  BY <1>1, Zenon DEF Bijection, Injection, Surjection, IsInjective
<1> QED BY <1>2, FS_Bijection, Zenon DEF ExistsBijection

LEMMA TwoParts ==
    ASSUME NEW S, NEW T, IsFiniteSet(S), IsFiniteSet(T), S \cap T = {}
    PROVE  IsFiniteSet(S \cup T) /\ Cardinality(S \cup T) = Cardinality(S) + Cardinality(T)
           /\ Cardinality(S) \in Nat /\ Cardinality(T) \in Nat
<1>1. Cardinality({}) = 0
  BY FS_EmptySet
<1>2. Cardinality(S) \in Nat /\ Cardinality(T) \in Nat
  BY FS_CardinalityType
<1>3. IsFiniteSet(S \cup T)
      /\ Cardinality(S \cup T) = Cardinality(S) + Cardinality(T) - Cardinality(S \cap T)
  BY FS_Union, Zenon
<1>4. Cardinality(S \cap T) = 0
  BY <1>1, Zenon
<1> QED BY <1>2, <1>3, <1>4

(* How often a data is in a sequence of them.                                *)
Finds(d, s) == {i \in DOMAIN s : s[i] = d}

LEMMA OccIs ==
    ASSUME NEW n \in Nat, NEW s, DOMAIN s = 1 .. n, NEW d
    PROVE  /\ IsFiniteSet(Finds(d, s)) /\ Occurrences(d, s) = Cardinality(Finds(d, s))
           /\ Occurrences(d, s) \in Nat
           /\ Occurrences(d, s) = 0 <=> \A i \in 1 .. n : s[i] # d
<1>1. IsFiniteSet(1 .. n)
  BY FS_Interval
<1>2. Finds(d, s) \in SUBSET (1 .. n)
  BY DEF Finds
<1>3. IsFiniteSet(Finds(d, s))
  BY <1>1, <1>2, FS_Subset
<1>4. Occurrences(d, s) = Cardinality(Finds(d, s))
  BY DEF Occurrences, Finds
<1>5. Cardinality(Finds(d, s)) \in Nat /\ (Cardinality(Finds(d, s)) = 0 <=> Finds(d, s) = {})
  BY <1>3, FS_CardinalityType, FS_EmptySet
<1>6. Finds(d, s) = {} <=> \A i \in 1 .. n : s[i] # d
  BY DEF Finds
<1> QED BY <1>3, <1>4, <1>5, <1>6

LEMMA OccNone == \A d : Occurrences(d, <<>>) = 0
<1>1. DOMAIN <<>> = 1 .. 0
  OBVIOUS
<1> QED BY <1>1, OccIs

LEMMA OccOne ==
    ASSUME NEW d, NEW x
    PROVE  Occurrences(d, <<x>>) = IF x = d THEN 1 ELSE 0
<1> PICK s : s = <<x>>
  OBVIOUS
<1>1. DOMAIN s = 1 .. 1 /\ s[1] = x
  OBVIOUS
<1>a. 1 \in Nat /\ Occurrences(d, s) = Cardinality(Finds(d, s))
      /\ (Occurrences(d, s) = 0 <=> \A i \in 1 .. 1 : s[i] # d)
  <2> PICK n \in Nat : n = 1
    OBVIOUS
  <2>1. DOMAIN s = 1 .. n
    BY <1>1
  <2>2. /\ Occurrences(d, s) = Cardinality(Finds(d, s))
        /\ Occurrences(d, s) = 0 <=> \A i \in 1 .. n : s[i] # d
    BY <2>1, OccIs, ZenonT(40)
  <2> QED BY <2>2
<1>b. Occurrences(d, <<x>>) = Occurrences(d, s)
  BY Zenon
<1>2. CASE x = d
  <2>1. Finds(d, s) = {1}
    BY <1>1, <1>2 DEF Finds
  <2>2. Cardinality({1}) = 1
    BY FS_Singleton
  <2>3. Occurrences(d, s) = 1
    BY <1>a, <2>1, <2>2, Zenon
  <2> QED BY <1>2, <1>b, <2>3, Zenon
<1>3. CASE x # d
  <2>1. Occurrences(d, s) = 0
    BY <1>1, <1>a, <1>3
  <2> QED BY <1>3, <1>b, <2>1, Zenon
<1> QED BY <1>2, <1>3

(* u is what is left of w when t is taken out of its middle: g before it.    *)
TakenOut(w, u, t, g) ==
    /\ DOMAIN w = 1 .. Len(u) + Len(t) /\ DOMAIN u = 1 .. Len(u) /\ DOMAIN t = 1 .. Len(t)
    /\ Len(u) \in Nat /\ Len(t) \in Nat /\ g \in 0 .. Len(u)
    /\ \A i \in 1 .. Len(t) : t[i] = w[g + i]
    /\ \A i \in 1 .. Len(u) : u[i] = w[IF i <= g THEN i ELSE i + Len(t)]

LEMMA OccTakenOut ==
    ASSUME NEW w, NEW u, NEW t, NEW g, TakenOut(w, u, t, g), NEW d
    PROVE  /\ Occurrences(d, w) = Occurrences(d, u) + Occurrences(d, t)
           /\ Occurrences(d, u) \in Nat /\ Occurrences(d, t) \in Nat
<1> PICK n, k : n = Len(u) /\ k = Len(t)
  OBVIOUS
<1>1. /\ DOMAIN w = 1 .. n + k /\ DOMAIN u = 1 .. n /\ DOMAIN t = 1 .. k
      /\ n \in Nat /\ k \in Nat /\ g \in 0 .. n
  BY Zenon DEF TakenOut
<1>2. /\ \A i \in 1 .. k : t[i] = w[g + i]
      /\ \A i \in 1 .. n : u[i] = w[IF i <= g THEN i ELSE i + k]
  BY Zenon DEF TakenOut
<1> PICK S, T : /\ S = {i \in 1 .. n + k : w[i] = d /\ (i <= g \/ i > g + k)}
                /\ T = {i \in 1 .. n + k : w[i] = d /\ i > g /\ i <= g + k}
  OBVIOUS
<1>3. Finds(d, w) = S \cup T /\ S \cap T = {}
  BY <1>1 DEF Finds
<1>4. IsFiniteSet(Finds(d, u)) /\ Cardinality(Finds(d, u)) = Occurrences(d, u)
      /\ IsFiniteSet(Finds(d, t)) /\ Cardinality(Finds(d, t)) = Occurrences(d, t)
  BY <1>1, OccIs
<1>5. IsFiniteSet(S) /\ Cardinality(S) = Occurrences(d, u)
  <2> PICK f : f = [i \in 1 .. n |-> IF i <= g THEN i ELSE i + k]
    OBVIOUS
  <2>1. \A i \in 1 .. n : f[i] \in 1 .. n + k /\ (f[i] <= g \/ f[i] > g + k) /\ u[i] = w[f[i]]
    BY <1>1, <1>2
  <2>2. \A i \in Finds(d, u) : f[i] \in S
    BY <1>1, <2>1 DEF Finds
  <2>3. \A i, j \in Finds(d, u) : f[i] = f[j] => i = j
    <3>1. \A i, j \in 1 .. n : f[i] = f[j] => i = j
      BY <1>1
    <3> QED BY <1>1, <3>1 DEF Finds
  <2>4. ASSUME NEW y \in S PROVE \E x \in Finds(d, u) : f[x] = y
    <3> PICK x : x = IF y <= g THEN y ELSE y - k
      OBVIOUS
    <3>1. x \in 1 .. n /\ f[x] = y
      BY <1>1
    <3>2. u[x] = w[y] /\ w[y] = d
      BY <2>1, <3>1
    <3> QED BY <1>1, <3>1, <3>2 DEF Finds
  <2>5. Matching(f, Finds(d, u), S)
    BY <2>2, <2>3, <2>4, Zenon DEF Matching
  <2> QED BY <1>4, <2>5, MatchingCounts
<1>6. IsFiniteSet(T) /\ Cardinality(T) = Occurrences(d, t)
  <2> PICK f : f = [i \in 1 .. k |-> g + i]
    OBVIOUS
  <2>1. \A i \in 1 .. k : f[i] \in 1 .. n + k /\ f[i] > g /\ f[i] <= g + k /\ t[i] = w[f[i]]
    BY <1>1, <1>2
  <2>2. \A i \in Finds(d, t) : f[i] \in T
    BY <1>1, <2>1 DEF Finds
  <2>3. \A i, j \in Finds(d, t) : f[i] = f[j] => i = j
    <3>1. \A i, j \in 1 .. k : f[i] = f[j] => i = j
      BY <1>1
    <3> QED BY <1>1, <3>1 DEF Finds
  <2>4. ASSUME NEW y \in T PROVE \E x \in Finds(d, t) : f[x] = y
    <3> PICK x : x = y - g
      OBVIOUS
    <3>1. x \in 1 .. k /\ f[x] = y
      BY <1>1
    <3>2. t[x] = w[y] /\ w[y] = d
      BY <2>1, <3>1
    <3> QED BY <1>1, <3>1, <3>2 DEF Finds
  <2>5. Matching(f, Finds(d, t), T)
    BY <2>2, <2>3, <2>4, Zenon DEF Matching
  <2> QED BY <1>4, <2>5, MatchingCounts
<1>7. Cardinality(S \cup T) = Cardinality(S) + Cardinality(T)
  <2>1. IsFiniteSet(S) /\ IsFiniteSet(T) /\ S \cap T = {}
    BY <1>3, <1>5, <1>6, Zenon
  <2> QED BY <2>1, TwoParts, Zenon
<1>8. n + k \in Nat /\ Occurrences(d, w) = Cardinality(Finds(d, w))
  BY <1>1, OccIs
<1>9. Occurrences(d, u) \in Nat /\ Occurrences(d, t) \in Nat
  BY <1>1, OccIs
<1>10. Occurrences(d, w) = Cardinality(S) + Cardinality(T)
  BY <1>3, <1>7, <1>8, Zenon
<1>11. Occurrences(d, w) = Occurrences(d, u) + Occurrences(d, t)
  BY <1>5, <1>6, <1>10, Zenon
<1> QED BY <1>9, <1>11, Zenon

(* One is replaced by another.                                               *)
LEMMA OccReplaced ==
    ASSUME NEW n \in Nat, NEW s, NEW t, DOMAIN s = 1 .. n, DOMAIN t = 1 .. n, NEW k \in 1 .. n,
           \A i \in 1 .. n : i # k => t[i] = s[i], NEW d
    PROVE  Occurrences(d, t) + (IF s[k] = d THEN 1 ELSE 0)
           = Occurrences(d, s) + (IF t[k] = d THEN 1 ELSE 0)
<1> PICK R : R = Finds(d, s) \ {k}
  OBVIOUS
<1>1. R = Finds(d, t) \ {k}
  BY DEF Finds
<1>2. IsFiniteSet(Finds(d, s)) /\ IsFiniteSet(Finds(d, t))
      /\ Occurrences(d, s) = Cardinality(Finds(d, s)) /\ Occurrences(d, t) = Cardinality(Finds(d, t))
      /\ Occurrences(d, s) \in Nat /\ Occurrences(d, t) \in Nat
  BY OccIs
<1>3. /\ k \in Finds(d, s) <=> s[k] = d
      /\ k \in Finds(d, t) <=> t[k] = d
  BY DEF Finds
<1>4. Cardinality(R) = Occurrences(d, s) - (IF s[k] = d THEN 1 ELSE 0)
  <2>1. Cardinality(Finds(d, s) \ {k}) = IF k \in Finds(d, s) THEN Cardinality(Finds(d, s)) - 1
                                         ELSE Cardinality(Finds(d, s))
    BY <1>2, FS_RemoveElement, Zenon
  <2> QED BY <1>2, <1>3, <2>1
<1>5. Cardinality(R) = Occurrences(d, t) - (IF t[k] = d THEN 1 ELSE 0)
  <2>1. Cardinality(Finds(d, t) \ {k}) = IF k \in Finds(d, t) THEN Cardinality(Finds(d, t)) - 1
                                         ELSE Cardinality(Finds(d, t))
    BY <1>2, FS_RemoveElement, Zenon
  <2>2. Cardinality(R) = Cardinality(Finds(d, t) \ {k})
    BY <1>1, Zenon
  <2> QED BY <1>2, <1>3, <2>1, <2>2
<1> QED BY <1>2, <1>4, <1>5

LEMMA OccReversed ==
    ASSUME NEW n \in Nat, NEW s, NEW t, DOMAIN s = 1 .. n, DOMAIN t = 1 .. n,
           \A i \in 1 .. n : t[i] = s[n - i + 1], NEW d
    PROVE  Occurrences(d, t) = Occurrences(d, s)
<1> PICK f : f = [i \in 1 .. n |-> n - i + 1]
  OBVIOUS
<1>1. \A i \in 1 .. n : f[i] \in 1 .. n /\ f[f[i]] = i /\ t[i] = s[f[i]] /\ s[i] = t[f[i]]
  OBVIOUS
<1>2. \A x \in Finds(d, s) : f[x] \in Finds(d, t)
  BY <1>1 DEF Finds
<1>3. \A x, y \in Finds(d, s) : f[x] = f[y] => x = y
  <2>1. \A x, y \in 1 .. n : f[x] = f[y] => x = y
    BY <1>1
  <2> QED BY <2>1 DEF Finds
<1>4. \A y \in Finds(d, t) : \E x \in Finds(d, s) : f[x] = y
  BY <1>1 DEF Finds
<1>5. Matching(f, Finds(d, s), Finds(d, t))
  BY <1>2, <1>3, <1>4, Zenon DEF Matching
<1> QED BY <1>5, MatchingCounts, OccIs

-----------------------------------------------------------------------------
(* Lists in lists: w the elements of each list, n how many refer to it, and  *)
(* e how many of those are not elements of lists. No element of an element   *)
(* is a list.                                                                *)
Even(w, q) == \A i \in 1 .. Len(w[q]) : w[q][i] >= 0
Datum(w, d) == d \in Int /\ (d < 0 => -d \in Refs /\ Even(w, -d))
Windows(w) == w \in [Refs -> Seq(Int)] /\ \A o \in Refs : Len(w[o]) <= MaxLen
Holes(w, those, r) ==
    {at \in those \X (1 .. MaxLen) : at[2] <= Len(w[at[1]]) /\ w[at[1]][at[2]] = -r}
Inner(w, r) == Cardinality(Holes(w, Refs, r))
Booked(n, w, e) == /\ n \in [Refs -> Nat] /\ e \in [Refs -> Nat]
                   /\ \A r \in Refs : n[r] = e[r] + Inner(w, r)
Sound(n, w, e) ==
    /\ Windows(w) /\ Booked(n, w, e)
    /\ \A o \in Refs : \A i \in 1 .. Len(w[o]) : Datum(w, w[o][i])
    /\ \A r \in Refs : n[r] = 0 => w[r] = <<>>

LEMMA RefsAre == IsFiniteSet(Refs) /\ Refs \subseteq Nat \ {0} /\ MaxLen \in Nat
<1>1. MaxCells \in Nat /\ MaxLen \in Nat
  BY ListsAssumption
<1>2. IsFiniteSet(1 .. MaxCells)
  BY <1>1, FS_Interval
<1> QED BY <1>1, <1>2 DEF Refs

LEMMA HolesSplit ==
    ASSUME NEW w, Windows(w), NEW those \in SUBSET Refs, NEW o \in those, NEW r
    PROVE  /\ IsFiniteSet(Holes(w, those, r))
           /\ Cardinality(Holes(w, those, r))
              = Cardinality(Holes(w, those \ {o}, r)) + Occurrences(-r, w[o])
           /\ Cardinality(Holes(w, those \ {o}, r)) \in Nat /\ Occurrences(-r, w[o]) \in Nat
<1> PICK s, k : s = w[o] /\ k = Len(s)
  OBVIOUS
<1>1. s \in Seq(Int) /\ k <= MaxLen /\ k \in Nat /\ DOMAIN s = 1 .. k /\ MaxLen \in Nat
  <2>1. s \in Seq(Int) /\ k <= MaxLen
    BY DEF Windows
  <2> QED BY <2>1, RefsAre
<1> PICK S, T : S = Holes(w, those \ {o}, r) /\ T = Holes(w, {o}, r)
  OBVIOUS
<1>2. Holes(w, those, r) = S \cup T /\ S \cap T = {}
  BY DEF Holes
<1>3. IsFiniteSet(Holes(w, those, r))
  <2>1. IsFiniteSet(those) /\ IsFiniteSet(1 .. MaxLen)
    <3>1. IsFiniteSet(1 .. MaxLen)
      BY RefsAre, FS_Interval
    <3>2. IsFiniteSet(those)
      BY RefsAre, FS_Subset
    <3> QED BY <3>1, <3>2
  <2>2. IsFiniteSet(those \X (1 .. MaxLen))
    BY <2>1, FS_Product
  <2>3. Holes(w, those, r) \in SUBSET (those \X (1 .. MaxLen))
    BY DEF Holes
  <2> QED BY <2>2, <2>3, FS_Subset
<1>4. IsFiniteSet(S) /\ IsFiniteSet(T)
  <2>1. S \in SUBSET Holes(w, those, r) /\ T \in SUBSET Holes(w, those, r)
    BY <1>2
  <2> QED BY <1>3, <2>1, FS_Subset
<1>5. /\ Cardinality(Holes(w, those, r)) = Cardinality(S) + Cardinality(T)
      /\ Cardinality(S) \in Nat
  <2>1. Cardinality(S \cup T) = Cardinality(S) + Cardinality(T) /\ Cardinality(S) \in Nat
    <3> HIDE DEF Holes
    <3> QED BY <1>2, <1>4, TwoParts
  <2> QED BY <1>2, <2>1, Zenon
<1>6. IsFiniteSet(Finds(-r, s)) /\ Occurrences(-r, s) = Cardinality(Finds(-r, s))
      /\ Occurrences(-r, s) \in Nat
  BY <1>1, OccIs
<1>7. Cardinality(T) = Cardinality(Finds(-r, s))
  <2> PICK f : f = [i \in 1 .. k |-> <<o, i>>]
    OBVIOUS
  <2>0. \A i \in 1 .. k : i \in 1 .. MaxLen /\ f[i] = <<o, i>>
    BY <1>1
  <2>1. \A i \in Finds(-r, s) : f[i] \in T
    BY <1>1, <2>0 DEF Finds, Holes
  <2>2. \A i, j \in Finds(-r, s) : f[i] = f[j] => i = j
    BY <1>1, <2>0 DEF Finds
  <2>3. \A y \in T : \E i \in Finds(-r, s) : f[i] = y
    <3> SUFFICES ASSUME NEW y \in T PROVE \E i \in Finds(-r, s) : f[i] = y
      OBVIOUS
    <3> PICK i : i = y[2]
      OBVIOUS
    <3>1. y = <<o, i>> /\ i \in 1 .. MaxLen /\ i <= k /\ s[i] = -r
      BY DEF Holes
    <3>2. i \in 1 .. k
      BY <1>1, <3>1
    <3> QED BY <1>1, <2>0, <3>1, <3>2 DEF Finds
  <2>4. Matching(f, Finds(-r, s), T)
    BY <2>1, <2>2, <2>3, Zenon DEF Matching
  <2> QED BY <1>6, <2>4, MatchingCounts
<1> QED BY <1>3, <1>5, <1>6, <1>7

LEMMA InnerIs ==
    ASSUME NEW w, Windows(w), NEW r
    PROVE  /\ IsFiniteSet(Holes(w, Refs, r)) /\ Inner(w, r) \in Nat
           /\ Inner(w, r) = 0 <=> \A o \in Refs : \A i \in 1 .. Len(w[o]) : w[o][i] # -r
<1>1. IsFiniteSet(Holes(w, Refs, r))
  <2>1. IsFiniteSet(1 .. MaxLen)
    BY RefsAre, FS_Interval
  <2>2. IsFiniteSet(Refs \X (1 .. MaxLen))
    BY <2>1, RefsAre, FS_Product
  <2>3. Holes(w, Refs, r) \in SUBSET (Refs \X (1 .. MaxLen))
    BY DEF Holes
  <2> QED BY <2>2, <2>3, FS_Subset
<1>2. Inner(w, r) \in Nat /\ (Inner(w, r) = 0 <=> Holes(w, Refs, r) = {})
  BY <1>1, FS_CardinalityType, FS_EmptySet DEF Inner
<1>3. ASSUME NEW o \in Refs, NEW i \in 1 .. Len(w[o]), w[o][i] = -r
      PROVE  Holes(w, Refs, r) # {}
  <2>1. Len(w[o]) \in Nat /\ Len(w[o]) <= MaxLen /\ MaxLen \in Nat
    BY RefsAre DEF Windows
  <2>2. <<o, i>> \in Holes(w, Refs, r)
    BY <1>3, <2>1 DEF Holes
  <2> QED BY <2>2
<1>4. ASSUME NEW at \in Holes(w, Refs, r)
      PROVE  \E o \in Refs : \E i \in 1 .. Len(w[o]) : w[o][i] = -r
  <2> PICK o, i : o = at[1] /\ i = at[2]
    OBVIOUS
  <2>1. o \in Refs /\ i \in 1 .. MaxLen /\ i <= Len(w[o]) /\ w[o][i] = -r
    BY DEF Holes
  <2>2. Len(w[o]) \in Nat /\ MaxLen \in Nat
    BY <2>1, RefsAre DEF Windows
  <2> QED BY <2>1, <2>2
<1> QED BY <1>1, <1>2, <1>3, <1>4

LEMMA InnerPut ==
    ASSUME NEW w, Windows(w), NEW o \in Refs, NEW s \in Seq(Int), Len(s) <= MaxLen, NEW r
    PROVE  /\ Windows(PutIn(w, o, s))
           /\ Inner(PutIn(w, o, s), r) + Occurrences(-r, w[o]) = Inner(w, r) + Occurrences(-r, s)
<1> PICK v : v = PutIn(w, o, s)
  OBVIOUS
<1>1. v \in [Refs -> Seq(Int)] /\ v[o] = s /\ \A q \in Refs : q # o => v[q] = w[q]
  BY DEF Windows, PutIn
<1>2. Windows(v)
  BY <1>1 DEF Windows
<1> PICK those : those = Refs \ {o}
  OBVIOUS
<1>3. Holes(v, those, r) = Holes(w, those, r)
  BY <1>1 DEF Holes
<1>4. Refs \in SUBSET Refs
  OBVIOUS
<1>5. Inner(v, r) = Cardinality(Holes(v, those, r)) + Occurrences(-r, v[o])
      /\ Cardinality(Holes(v, those, r)) \in Nat /\ Occurrences(-r, v[o]) \in Nat
  BY <1>2, <1>4, HolesSplit, Zenon DEF Inner
<1>6. Inner(w, r) = Cardinality(Holes(w, those, r)) + Occurrences(-r, w[o])
      /\ Cardinality(Holes(w, those, r)) \in Nat /\ Occurrences(-r, w[o]) \in Nat
  BY <1>4, HolesSplit, Zenon DEF Inner
<1>7. Inner(v, r) = Cardinality(Holes(w, those, r)) + Occurrences(-r, s)
  BY <1>1, <1>3, <1>5, Zenon
<1>8. Occurrences(-r, s) \in Nat
  BY <1>1, <1>5, Zenon
<1> QED BY <1>2, <1>6, <1>7, <1>8

(* A list that nothing but one place outside of lists refers to is in none.  *)
Nowhere(w, r) == \A o \in Refs : \A i \in 1 .. Len(w[o]) : w[o][i] # -r

LEMMA InNone ==
    ASSUME NEW n, NEW w, NEW e, Sound(n, w, e), NEW r \in Refs, n[r] = e[r]
    PROVE  Nowhere(w, r) /\ Inner(w, r) = 0
<1>1. Windows(w) /\ n[r] = e[r] + Inner(w, r) /\ n[r] \in Nat /\ e[r] \in Nat
  BY DEF Sound, Booked
<1>2. Inner(w, r) \in Nat /\ (Inner(w, r) = 0 <=> \A o \in Refs : \A i \in 1 .. Len(w[o]) : w[o][i] # -r)
  BY <1>1, InnerIs
<1> QED BY <1>1, <1>2 DEF Nowhere

LEMMA SoundFacts ==
    ASSUME NEW n, NEW w, NEW e, Sound(n, w, e)
    PROVE  /\ Windows(w) /\ DOMAIN w = Refs /\ n \in [Refs -> Nat] /\ e \in [Refs -> Nat]
           /\ \A r \in Refs : /\ w[r] \in Seq(Int) /\ Len(w[r]) \in 0 .. MaxLen
                              /\ n[r] \in Nat /\ e[r] \in Nat /\ e[r] <= n[r]
                              /\ n[r] = e[r] + Inner(w, r) /\ Inner(w, r) \in Nat
                              /\ n[r] = 0 => w[r] = <<>>
<1>1. Windows(w) /\ n \in [Refs -> Nat] /\ e \in [Refs -> Nat]
      /\ \A r \in Refs : n[r] = e[r] + Inner(w, r) /\ (n[r] = 0 => w[r] = <<>>)
  BY DEF Sound, Booked
<1>2. \A r \in Refs : Inner(w, r) \in Nat
  BY <1>1, InnerIs
<1>3. \A r \in Refs : w[r] \in Seq(Int) /\ Len(w[r]) \in 0 .. MaxLen
  BY <1>1, RefsAre DEF Windows
<1>4. DOMAIN w = Refs
  BY <1>1 DEF Windows
<1>5. \A r \in Refs : n[r] \in Nat /\ e[r] \in Nat /\ e[r] <= n[r]
  BY <1>1, <1>2
<1> QED BY <1>1, <1>2, <1>3, <1>4, <1>5

(* The elements of one list are exchanged for others.                        *)
Balanced(n, w, e, o, s, m, f) ==
    /\ m \in [Refs -> Nat] /\ f \in [Refs -> Nat]
    /\ \A q \in Refs : m[q] + Occurrences(-q, w[o]) + e[q] = n[q] + Occurrences(-q, s) + f[q]
    /\ \A q \in Refs : m[q] = 0 => IF q = o THEN s = <<>> ELSE w[q] = <<>>
Fills(w, o, s) ==
    /\ s \in Seq(Int) /\ Len(s) <= MaxLen
    /\ \A i \in 1 .. Len(s) : Datum(w, s[i]) /\ s[i] # -o

LEMMA PutSound ==
    ASSUME NEW n, NEW w, NEW e, Sound(n, w, e), NEW o \in Refs, Nowhere(w, o),
           NEW s, Fills(w, o, s), NEW m, NEW f, Balanced(n, w, e, o, s, m, f)
    PROVE  Sound(m, PutIn(w, o, s), f)
<1> PICK v : v = PutIn(w, o, s)
  OBVIOUS
<1>1. s \in Seq(Int) /\ Len(s) <= MaxLen /\ Windows(w)
  BY DEF Fills, Sound
<1>2. v \in [Refs -> Seq(Int)] /\ v[o] = s /\ \A q \in Refs : q # o => v[q] = w[q]
  BY <1>1 DEF Windows, PutIn
<1>3. Windows(v) /\ \A q \in Refs : Inner(v, q) + Occurrences(-q, w[o]) = Inner(w, q) + Occurrences(-q, s)
  BY <1>1, InnerPut
<1>4. \A q \in Refs : /\ Inner(v, q) \in Nat /\ Inner(w, q) \in Nat
  BY <1>1, <1>3, InnerIs
<1>5. \A q \in Refs : Occurrences(-q, w[o]) \in Nat /\ Occurrences(-q, s) \in Nat
  <2>1. w[o] \in Seq(Int) /\ v[o] \in Seq(Int)
    BY <1>1, <1>2 DEF Windows
  <2>2. ASSUME NEW t \in Seq(Int), NEW d PROVE Occurrences(d, t) \in Nat
    <3>1. Len(t) \in Nat /\ DOMAIN t = 1 .. Len(t)
      OBVIOUS
    <3> QED BY <3>1, OccIs
  <2> QED BY <1>1, <2>1, <2>2
<1>6. ASSUME NEW q \in Refs PROVE m[q] = f[q] + Inner(v, q)
  <2>1. n[q] = e[q] + Inner(w, q) /\ n[q] \in Nat /\ e[q] \in Nat
    BY DEF Sound, Booked
  <2>2. m[q] \in Nat /\ f[q] \in Nat
        /\ m[q] + Occurrences(-q, w[o]) + e[q] = n[q] + Occurrences(-q, s) + f[q]
    BY DEF Balanced
  <2>3. Inner(v, q) + Occurrences(-q, w[o]) = Inner(w, q) + Occurrences(-q, s)
    BY <1>3
  <2>4. /\ Inner(v, q) \in Nat /\ Inner(w, q) \in Nat
        /\ Occurrences(-q, w[o]) \in Nat /\ Occurrences(-q, s) \in Nat
    BY <1>4, <1>5
  <2> QED BY <2>1, <2>2, <2>3, <2>4
<1>7. Booked(m, v, f)
  BY <1>6, Zenon DEF Booked, Balanced
<1>8. ASSUME NEW d, Datum(w, d), d # -o PROVE Datum(v, d)
  <2>1. CASE d < 0
    <3>1. -d \in Refs /\ -d # o
      BY <1>8, <2>1, RefsAre DEF Datum
    <3> QED BY <1>2, <1>8, <2>1, <3>1 DEF Datum, Even
  <2>2. CASE ~(d < 0)
    BY <1>8, <2>2 DEF Datum
  <2> QED BY <2>1, <2>2
<1>9. ASSUME NEW q \in Refs, NEW i \in 1 .. Len(v[q]) PROVE Datum(v, v[q][i])
  <2>1. CASE q = o
    <3>1. Datum(w, s[i]) /\ s[i] # -o /\ v[q] = s
      BY <1>2, <1>9, <2>1 DEF Fills
    <3> QED BY <1>8, <3>1
  <2>2. CASE q # o
    <3>1. v[q] = w[q]
      BY <1>2, <2>2
    <3>2. Datum(w, w[q][i]) /\ w[q][i] # -o
      BY <1>9, <3>1 DEF Sound, Nowhere
    <3> QED BY <1>8, <3>1, <3>2
  <2> QED BY <2>1, <2>2
<1>10. ASSUME NEW q \in Refs, m[q] = 0 PROVE v[q] = <<>>
  BY <1>2, <1>10 DEF Balanced
<1> QED BY <1>3, <1>7, <1>9, <1>10, Zenon DEF Sound

(* Places outside of lists are added and given up.                           *)
LEMMA MoreSound ==
    ASSUME NEW n, NEW w, NEW e, Sound(n, w, e), NEW m, NEW f,
           m \in [Refs -> Nat], f \in [Refs -> Nat],
           \A q \in Refs : m[q] + e[q] = n[q] + f[q] /\ (m[q] = 0 => n[q] = 0)
    PROVE  Sound(m, w, f)
<1>1. ASSUME NEW q \in Refs PROVE m[q] = f[q] + Inner(w, q) /\ (m[q] = 0 => w[q] = <<>>)
  <2>1. n[q] = e[q] + Inner(w, q) /\ n[q] \in Nat /\ e[q] \in Nat /\ Inner(w, q) \in Nat
        /\ (n[q] = 0 => w[q] = <<>>)
    BY SoundFacts
  <2>2. m[q] \in Nat /\ f[q] \in Nat /\ m[q] + e[q] = n[q] + f[q] /\ (m[q] = 0 => n[q] = 0)
    OBVIOUS
  <2>3. m[q] = f[q] + Inner(w, q)
    <3> PICK a, b, c, d, i : a = m[q] /\ b = e[q] /\ c = n[q] /\ d = f[q] /\ i = Inner(w, q)
      OBVIOUS
    <3>1. a \in Nat /\ b \in Nat /\ c \in Nat /\ d \in Nat /\ i \in Nat /\ a + b = c + d /\ c = b + i
      BY <2>1, <2>2, Zenon
    <3>2. a = d + i
      BY <3>1
    <3> QED BY <3>2
  <2> QED BY <2>1, <2>2, <2>3, Zenon
<1> QED BY <1>1, Zenon DEF Sound, Booked

LEMMA HolesParts ==
    ASSUME NEW w, Windows(w), NEW T \in SUBSET Refs, NEW r
    PROVE  /\ Inner(w, r) = Cardinality(Holes(w, T, r)) + Cardinality(Holes(w, Refs \ T, r))
           /\ Cardinality(Holes(w, T, r)) \in Nat /\ Cardinality(Holes(w, Refs \ T, r)) \in Nat
           /\ IsFiniteSet(Holes(w, T, r)) /\ IsFiniteSet(Holes(w, Refs \ T, r))
<1> PICK A, B : A = Holes(w, T, r) /\ B = Holes(w, Refs \ T, r)
  OBVIOUS
<1>1. Holes(w, Refs, r) = A \cup B /\ A \cap B = {}
  BY DEF Holes
<1>2. IsFiniteSet(Holes(w, Refs, r))
  BY InnerIs
<1>3. A \in SUBSET Holes(w, Refs, r) /\ B \in SUBSET Holes(w, Refs, r)
  BY <1>1
<1>4. IsFiniteSet(A) /\ IsFiniteSet(B)
  BY <1>2, <1>3, FS_Subset
<1>5. Cardinality(A \cup B) = Cardinality(A) + Cardinality(B)
      /\ Cardinality(A) \in Nat /\ Cardinality(B) \in Nat
  BY <1>1, <1>4, TwoParts, Zenon
<1> QED BY <1>1, <1>4, <1>5, Zenon DEF Inner

RemainsAre(n, e, p, i, j) ==
    e - p \in Nat /\ n - p - i = e - p + j /\ e - p + j \in Nat /\ i \in Nat /\ j \in Nat

LEMMA RemainderIs ==
    ASSUME NEW n, NEW w, NEW e, Sound(n, w, e), NEW r \in Refs, NEW p \in Nat, p <= e[r],
           NEW dead \in SUBSET Refs
    PROVE  RemainsAre(n[r], e[r], p, Cardinality(Holes(w, dead, r)), Cardinality(Holes(w, Refs \ dead, r)))
<1>1. /\ Inner(w, r) = Cardinality(Holes(w, dead, r)) + Cardinality(Holes(w, Refs \ dead, r))
      /\ Cardinality(Holes(w, dead, r)) \in Nat /\ Cardinality(Holes(w, Refs \ dead, r)) \in Nat
  BY HolesParts DEF Sound
<1>2. n[r] = e[r] + Inner(w, r) /\ e[r] \in Nat
  BY SoundFacts
<1> QED BY <1>1, <1>2 DEF RemainsAre

(* data_discard: a list that loses its last reference loses its elements.    *)
Lessened(n, D) == [r \in Refs |-> n[r] - Occurrences(-r, D)]
Dying(n, D) == {r \in Refs : n[r] # 0 /\ n[r] - Occurrences(-r, D) = 0}
Remains(n, w, D) ==
    [r \in Refs |-> n[r] - Occurrences(-r, D) - Cardinality(Holes(w, Dying(n, D), r))]
Emptied(w, n) == [r \in Refs |-> IF n[r] = 0 THEN <<>> ELSE w[r]]

LEMMA DiscardSound ==
    ASSUME NEW n, NEW w, NEW e, Sound(n, w, e), NEW k \in Nat, NEW D, DOMAIN D = 1 .. k,
           \A r \in Refs : Occurrences(-r, D) <= e[r],
           NEW m, m = Remains(n, w, D), NEW f, f = Lessened(e, D)
    PROVE  /\ Sound(m, Emptied(w, m), f)
           /\ \A r \in Refs : m[r] # 0 => n[r] # 0
           /\ \A r \in Dying(n, D) : m[r] = 0
<1> PICK dead : dead = Dying(n, D)
  OBVIOUS
<1> PICK v : v = Emptied(w, m)
  OBVIOUS
<1>0. dead \in SUBSET Refs /\ Windows(w)
  BY DEF Dying, Sound
<1>o. \A r \in Refs : Occurrences(-r, D) \in Nat
  BY OccIs
<1>1. \A r \in Refs : n[r] = e[r] + Inner(w, r) /\ n[r] \in Nat /\ e[r] \in Nat /\ Inner(w, r) \in Nat
                      /\ w[r] \in Seq(Int) /\ Len(w[r]) \in 0 .. MaxLen /\ (n[r] = 0 => w[r] = <<>>)
  BY SoundFacts
<1>2. ASSUME NEW r \in Refs
      PROVE  /\ m[r] = f[r] + Cardinality(Holes(w, Refs \ dead, r))
             /\ Cardinality(Holes(w, Refs \ dead, r)) \in Nat
             /\ f[r] = e[r] - Occurrences(-r, D) /\ f[r] \in Nat /\ m[r] \in Nat
             /\ m[r] = n[r] - Occurrences(-r, D) - Cardinality(Holes(w, dead, r))
             /\ Cardinality(Holes(w, dead, r)) \in Nat
  <2>1. m[r] = n[r] - Occurrences(-r, D) - Cardinality(Holes(w, dead, r))
    BY DEF Remains
  <2>2. f[r] = e[r] - Occurrences(-r, D)
    BY DEF Lessened
  <2>3. Occurrences(-r, D) \in Nat
    BY <1>o
  <2>4. RemainsAre(n[r], e[r], Occurrences(-r, D), Cardinality(Holes(w, dead, r)),
                   Cardinality(Holes(w, Refs \ dead, r)))
    BY <1>0, <2>3, RemainderIs
  <2> QED BY <2>1, <2>2, <2>4 DEF RemainsAre
<1>3. v \in [Refs -> Seq(Int)] /\ \A r \in Refs : v[r] = IF m[r] = 0 THEN <<>> ELSE w[r]
  <2>1. \A r \in Refs : (IF m[r] = 0 THEN <<>> ELSE w[r]) \in Seq(Int)
    BY <1>1
  <2> QED BY <2>1 DEF Emptied
<1>4. Windows(v)
  <2>1. \A r \in Refs : Len(v[r]) <= MaxLen
    BY <1>1, <1>3, RefsAre
  <2> QED BY <1>3, <2>1 DEF Windows
<1>5. ASSUME NEW r \in dead PROVE m[r] = 0 /\ r \in Refs
  <2>1. r \in Refs /\ n[r] - Occurrences(-r, D) = 0
    BY DEF Dying
  <2> QED BY <1>1, <1>2, <2>1, <1>o
(* One that dies with another has no lists among its elements.               *)
<1>6. ASSUME NEW o \in Refs \ dead, m[o] = 0, NEW i \in 1 .. Len(w[o]) PROVE w[o][i] >= 0
  <2>1. n[o] - Occurrences(-o, D) # 0 \/ n[o] = 0
    BY DEF Dying
  <2>2. CASE n[o] = 0
    <3>1. w[o] = <<>>
      BY <1>1, <2>2
    <3> QED BY <1>6, <3>1
  <2>3. CASE n[o] # 0
    <3>1. Cardinality(Holes(w, dead, o)) # 0
      <4>1. m[o] = n[o] - Occurrences(-o, D) - Cardinality(Holes(w, dead, o))
            /\ n[o] \in Nat /\ Occurrences(-o, D) \in Nat
        BY <1>1, <1>2, <1>o
      <4> QED BY <1>6, <2>1, <2>3, <4>1
    <3>2. Holes(w, dead, o) # {}
      BY <3>1, FS_EmptySet
    <3>3. PICK at \in dead \X (1 .. MaxLen) : at[2] <= Len(w[at[1]]) /\ w[at[1]][at[2]] = -o
      BY <3>2 DEF Holes
    <3> PICK p, j : p = at[1] /\ j = at[2]
      OBVIOUS
    <3>4. p \in Refs /\ j \in 1 .. Len(w[p]) /\ w[p][j] = -o
      <4>1. p \in Refs /\ j \in 1 .. MaxLen /\ j <= Len(w[p]) /\ w[p][j] = -o
        BY <3>3, <1>5
      <4>2. Len(w[p]) \in Nat /\ MaxLen \in Nat
        BY <1>1, <4>1, RefsAre
      <4> QED BY <4>1, <4>2
    <3>5. Datum(w, -o)
      BY <3>4 DEF Sound
    <3>6. -o < 0 /\ -(-o) = o
      BY RefsAre
    <3>7. Even(w, o)
      BY <3>5, <3>6 DEF Datum
    <3> QED BY <1>6, <3>7 DEF Even
  <2> QED BY <2>2, <2>3
<1>7. ASSUME NEW r \in Refs PROVE Holes(v, Refs, r) = Holes(w, Refs \ dead, r)
  <2>1. ASSUME NEW o \in Refs, NEW i \in 1 .. MaxLen
        PROVE  (i <= Len(v[o]) /\ v[o][i] = -r) <=> (o \notin dead /\ i <= Len(w[o]) /\ w[o][i] = -r)
    <3>1. CASE m[o] # 0
      <4>1. v[o] = w[o] /\ o \notin dead
        BY <1>3, <1>5, <3>1
      <4> QED BY <4>1, Zenon
    <3>2. CASE m[o] = 0
      <4>1. v[o] = <<>> /\ ~(i <= Len(v[o]))
        <5>1. v[o] = <<>>
          BY <1>3, <3>2
        <5> QED BY <5>1
      <4>2. ~(o \notin dead /\ i <= Len(w[o]) /\ w[o][i] = -r)
        <5> SUFFICES ASSUME o \notin dead, i <= Len(w[o]), w[o][i] = -r PROVE FALSE
          OBVIOUS
        <5>1. i \in 1 .. Len(w[o])
          <6>1. Len(w[o]) \in Nat /\ MaxLen \in Nat
            BY <1>1, RefsAre
          <6> QED BY <6>1
        <5>2. w[o][i] >= 0
          BY <1>6, <3>2, <5>1
        <5>3. -r < 0 /\ -r \in Int
          BY RefsAre
        <5> QED BY <5>2, <5>3
      <4> QED BY <4>1, <4>2
    <3> QED BY <3>1, <3>2
  <2>2. Holes(v, Refs, r) \subseteq Holes(w, Refs \ dead, r)
    BY <2>1 DEF Holes
  <2>3. Holes(w, Refs \ dead, r) \subseteq Holes(v, Refs, r)
    BY <2>1 DEF Holes
  <2> QED BY <2>2, <2>3
<1>8. Booked(m, v, f)
  <2>1. m \in [Refs -> Nat] /\ f \in [Refs -> Nat]
    BY <1>2 DEF Remains, Lessened
  <2>2. \A r \in Refs : m[r] = f[r] + Inner(v, r)
    BY <1>2, <1>7, Zenon DEF Inner
  <2> QED BY <2>1, <2>2, Zenon DEF Booked
<1>9. ASSUME NEW d, Datum(w, d) PROVE Datum(v, d)
  <2>1. CASE d < 0
    <3>1. -d \in Refs /\ Even(w, -d)
      BY <1>9, <2>1 DEF Datum
    <3>2. Even(v, -d)
      <4>1. CASE m[-d] = 0
        BY <1>3, <3>1, <4>1 DEF Even
      <4>2. CASE m[-d] # 0
        BY <1>3, <3>1, <4>2 DEF Even
      <4> QED BY <4>1, <4>2
    <3> QED BY <1>9, <3>1, <3>2 DEF Datum
  <2>2. CASE ~(d < 0)
    BY <1>9, <2>2 DEF Datum
  <2> QED BY <2>1, <2>2
<1>10. ASSUME NEW o \in Refs, NEW i \in 1 .. Len(v[o]) PROVE Datum(v, v[o][i])
  <2>1. CASE m[o] = 0
    <3>1. v[o] = <<>>
      BY <1>3, <2>1
    <3> QED BY <1>10, <3>1
  <2>2. CASE m[o] # 0
    <3>1. v[o] = w[o]
      BY <1>3, <2>2
    <3>2. Datum(w, w[o][i])
      BY <1>10, <3>1 DEF Sound
    <3> QED BY <1>9, <3>1, <3>2
  <2> QED BY <2>1, <2>2
<1>11. \A r \in Refs : m[r] = 0 => v[r] = <<>>
  BY <1>3
<1>12. Sound(m, v, f)
  BY <1>4, <1>8, <1>10, <1>11, Zenon DEF Sound
<1>13. ASSUME NEW r \in Refs, m[r] # 0 PROVE n[r] # 0
  <2>1. m[r] \in Nat /\ n[r] \in Nat /\ Occurrences(-r, D) \in Nat /\ Cardinality(Holes(w, dead, r)) \in Nat
        /\ m[r] = n[r] - Occurrences(-r, D) - Cardinality(Holes(w, dead, r))
    BY <1>1, <1>2, <1>o
  <2> QED BY <1>13, <2>1
<1> QED BY <1>5, <1>12, <1>13

-----------------------------------------------------------------------------
(* The heap: the lists at all addresses, e of whose references are not       *)
(* elements of lists.                                                        *)
View(h) == [r \in Refs |-> Window(h[r])]
Tally(h) == [r \in Refs |-> h[r].refs]
LaidOut(h) == DOMAIN h = Refs /\ \A r \in Refs : Lasts(h[r]) /\ (h[r].refs = 0 => h[r] = Free)
Heaped(h, e) == LaidOut(h) /\ Sound(Tally(h), View(h), e)

LEMMA RecountLasts ==
    ASSUME NEW c, Lasts(c), NEW k \in Nat
    PROVE  /\ Lasts(Recount(c, k)) /\ Window(Recount(c, k)) = Window(c)
           /\ Recount(c, k).refs = k /\ Recount(c, k).start = c.start /\ Recount(c, k).len = c.len
           /\ Recount(c, k).size = c.size /\ Recount(c, k).el = c.el
<1> PICK a, l, z, el : a = c.start /\ l = c.len /\ z = c.size /\ el = c.el
  OBVIOUS
<1> PICK d : d = Recount(c, k)
  OBVIOUS
<1>1. c = [start |-> a, len |-> l, size |-> z, refs |-> c.refs, el |-> el]
  BY Zenon DEF Lasts
<1>2. d = [start |-> a, len |-> l, size |-> z, refs |-> k, el |-> el]
  BY <1>1 DEF Recount
<1>3. d.start = a /\ d.len = l /\ d.size = z /\ d.refs = k /\ d.el = el
  BY <1>2
<1>4. Lasts(d)
  BY <1>2, <1>3 DEF Lasts
<1>5. Window(d) = Window(c)
  BY <1>3, Zenon DEF Window, El
<1> QED BY <1>3, <1>4, <1>5

LEMMA LaidIs ==
    ASSUME NEW h, LaidOut(h), NEW r \in Refs
    PROVE  /\ View(h)[r] = Window(h[r]) /\ Tally(h)[r] = h[r].refs /\ h[r].refs \in Nat
           /\ Len(View(h)[r]) = h[r].len /\ View(h)[r] \in Seq(Int)
<1>1. Lasts(h[r])
  BY DEF LaidOut
<1>2. Len(Window(h[r])) = h[r].len /\ Window(h[r]) \in Seq(Int)
  BY <1>1, WindowIs
<1>3. h[r].refs \in Nat
  BY <1>1 DEF Lasts
<1> QED BY <1>2, <1>3 DEF View, Tally

(* The same records, some with other counts.                                 *)
Recounts(h, g, n) ==
    /\ DOMAIN g = Refs
    /\ \A r \in Refs : n[r] \in Nat /\ (g[r] = Recount(h[r], n[r]) \/ (g[r] = Free /\ n[r] = 0))
    /\ \A r \in Refs : n[r] = 0 => g[r] = Free

LEMMA RecountedHeap ==
    ASSUME NEW h, LaidOut(h), NEW n, NEW g, Recounts(h, g, n)
    PROVE  /\ LaidOut(g) /\ \A r \in Refs : Tally(g)[r] = n[r]
           /\ \A r \in Refs : View(g)[r] = IF n[r] = 0 THEN <<>> ELSE View(h)[r]
           /\ \A r \in Refs : n[r] # 0 => g[r] = Recount(h[r], n[r])
<1>1. ASSUME NEW r \in Refs
      PROVE  /\ Lasts(g[r]) /\ g[r].refs = n[r] /\ (n[r] = 0 => g[r] = Free)
             /\ Window(g[r]) = IF n[r] = 0 THEN <<>> ELSE Window(h[r])
             /\ n[r] # 0 => g[r] = Recount(h[r], n[r])
  <2>1. Lasts(h[r]) /\ n[r] \in Nat
    BY DEF LaidOut, Recounts
  <2>2. CASE n[r] = 0
    <3>1. g[r] = Free
      BY <2>2 DEF Recounts
    <3> QED BY <2>2, <3>1, FreeLasts
  <2>3. CASE n[r] # 0
    <3>1. g[r] = Recount(h[r], n[r])
      BY <2>3 DEF Recounts
    <3> QED BY <2>1, <2>3, <3>1, RecountLasts
  <2> QED BY <2>2, <2>3
<1>2. LaidOut(g)
  BY <1>1 DEF LaidOut, Recounts
<1> QED BY <1>1, <1>2 DEF View, Tally

LEMMA SameFunction ==
    ASSUME NEW f, NEW g, NEW S, f = [r \in S |-> f[r]], g = [r \in S |-> g[r]], \A r \in S : f[r] = g[r]
    PROVE  f = g
OBVIOUS

LEMMA DupHeap ==
    ASSUME NEW h, NEW e, Heaped(h, e), NEW k \in Nat, NEW D, DOMAIN D = 1 .. k,
           NEW f, f = [r \in Refs |-> e[r] + Occurrences(-r, D)]
    PROVE  /\ Heaped(data_dup(h, D), f)
           /\ \A r \in Refs : /\ data_dup(h, D)[r] = Recount(h[r], h[r].refs + Occurrences(-r, D))
                              /\ Occurrences(-r, D) \in Nat
           /\ View(data_dup(h, D)) = View(h)
<1>g. PICK g : g = data_dup(h, D)
  OBVIOUS
<1>1. LaidOut(h) /\ Sound(Tally(h), View(h), e)
  BY DEF Heaped
<1>2. \A r \in Refs : Occurrences(-r, D) \in Nat
  BY OccIs
<1>n. PICK n : n = [r \in Refs |-> h[r].refs + Occurrences(-r, D)]
  OBVIOUS
<1>3. \A r \in Refs : n[r] \in Nat /\ h[r].refs \in Nat /\ Tally(h)[r] = h[r].refs
  BY <1>1, <1>2, <1>n, LaidIs
<1>4. DOMAIN g = Refs /\ \A r \in Refs : g[r] = Recount(h[r], n[r])
  <2>1. g = [r \in Refs |-> Recount(h[r], h[r].refs + Occurrences(-r, D))]
    BY <1>g, Zenon DEF data_dup, Recount
  <2>2. \A r \in Refs : n[r] = h[r].refs + Occurrences(-r, D)
    BY <1>n
  <2>3. DOMAIN g = Refs /\ \A r \in Refs : g[r] = Recount(h[r], h[r].refs + Occurrences(-r, D))
    BY <2>1
  <2> QED BY <2>2, <2>3
<1>5. ASSUME NEW r \in Refs, n[r] = 0 PROVE g[r] = Free /\ h[r].refs = 0 /\ View(h)[r] = <<>>
  <2>1. h[r].refs = 0
    BY <1>2, <1>3, <1>5, <1>n
  <2>2. h[r] = Free
    BY <1>1, <2>1 DEF LaidOut
  <2>3. Recount(Free, 0) = Free
    BY DEF Free, Recount
  <2>4. Window(Free) = <<>>
    BY FreeLasts
  <2>5. View(h)[r] = <<>>
    BY <2>2, <2>4 DEF View
  <2>6. g[r] = Free
    BY <1>4, <1>5, <2>2, <2>3
  <2> QED BY <2>1, <2>5, <2>6
<1>6. Recounts(h, g, n)
  <2>1. \A r \in Refs : n[r] \in Nat /\ g[r] = Recount(h[r], n[r])
    BY <1>3, <1>4
  <2>2. \A r \in Refs : n[r] = 0 => g[r] = Free
    BY <1>5
  <2>3. DOMAIN g = Refs
    BY <1>4
  <2> QED BY <2>1, <2>2, <2>3, Zenon DEF Recounts
<1>7. /\ LaidOut(g) /\ \A r \in Refs : Tally(g)[r] = n[r]
      /\ \A r \in Refs : View(g)[r] = IF n[r] = 0 THEN <<>> ELSE View(h)[r]
  BY <1>1, <1>6, RecountedHeap
<1>8. View(g) = View(h)
  <2>1. \A r \in Refs : View(g)[r] = View(h)[r]
    BY <1>5, <1>7
  <2> QED BY <2>1 DEF View
<1>9. Tally(g) = n
  BY <1>7, <1>n DEF Tally
<1>10. Sound(n, View(h), f)
  <2>1. n \in [Refs -> Nat]
    BY <1>3, <1>n
  <2>2. \A r \in Refs : e[r] \in Nat
    BY <1>1, SoundFacts
  <2>3. f \in [Refs -> Nat]
    BY <1>2, <2>2
  <2>4. \A q \in Refs : n[q] + e[q] = Tally(h)[q] + f[q] /\ (n[q] = 0 => Tally(h)[q] = 0)
    BY <1>2, <1>3, <1>5, <1>n, <2>2
  <2> QED BY <1>1, <2>1, <2>3, <2>4, MoreSound
<1>11. Heaped(g, f)
  BY <1>7, <1>8, <1>9, <1>10 DEF Heaped
<1>12. \A r \in Refs : g[r] = Recount(h[r], h[r].refs + Occurrences(-r, D))
  BY <1>4, <1>n, Zenon
<1> QED BY <1>2, <1>8, <1>11, <1>12, <1>g, Zenon

LessThose(e, D) == [r \in Refs |-> e[r] - Occurrences(-r, D)]
PlusThose(e, D) == [r \in Refs |-> e[r] + Occurrences(-r, D)]

(* data_discard, seen from the lists that are left.                          *)
LEMMA DiscardIsRecount ==
    ASSUME NEW h, LaidOut(h), NEW k \in Nat, NEW D, DOMAIN D = 1 .. k,
           NEW m, m = Remains(Tally(h), View(h), D), m \in [Refs -> Nat]
    PROVE  Recounts(h, data_discard(h, D), m)
<1>less. PICK less : less = [r \in Refs |-> Recount(h[r], h[r].refs - Occurrences(-r, D))]
  OBVIOUS
<1>dead. PICK dead : dead = {r \in Refs : h[r] # Free /\ less[r].refs = 0}
  OBVIOUS
<1>left. PICK left : left = [r \in Refs |-> Recount(less[r], less[r].refs - Cardinality(Within(less, dead, r)))]
  OBVIOUS
<1>1. data_discard(h, D) = [r \in Refs |-> IF left[r].refs = 0 THEN Free ELSE left[r]]
  BY <1>less, <1>dead, <1>left, Zenon DEF data_discard, Recount
<1>2. ASSUME NEW r \in Refs
      PROVE  /\ less[r].refs = h[r].refs - Occurrences(-r, D) /\ less[r].len = h[r].len
             /\ Window(less[r]) = Window(h[r]) /\ \A j : Recount(less[r], j) = Recount(h[r], j)
             /\ \A j : Recount(h[r], j).refs = j
  <2>c. PICK c, j0 : c = h[r] /\ j0 = h[r].refs - Occurrences(-r, D)
    OBVIOUS
  <2>1. less[r] = Recount(c, j0)
    BY <1>less, <2>c, Zenon
  <2>l. Lasts(c)
    BY <2>c DEF LaidOut
  <2>a. PICK a, l, z, el, k0 : c = [start |-> a, len |-> l, size |-> z, refs |-> k0, el |-> el]
    BY <2>l, Zenon DEF Lasts
  <2>2. c = [start |-> a, len |-> l, size |-> z, refs |-> k0, el |-> el]
        /\ c.start = a /\ c.len = l /\ c.el = el
    BY <2>a
  <2>3. less[r] = [start |-> a, len |-> l, size |-> z, refs |-> j0, el |-> el]
    BY <2>1, <2>2 DEF Recount
  <2>4. \A j : Recount(c, j) = [start |-> a, len |-> l, size |-> z, refs |-> j, el |-> el]
    BY <2>2 DEF Recount
  <2>5. \A j : Recount(less[r], j) = [start |-> a, len |-> l, size |-> z, refs |-> j, el |-> el]
    BY <2>3 DEF Recount
  <2>6. less[r].refs = j0 /\ less[r].len = l /\ less[r].start = a /\ less[r].el = el
    BY <2>3
  <2>7. Window(less[r]) = Window(c)
    BY <2>2, <2>6, Zenon DEF Window, El
  <2>8. \A j : Recount(c, j).refs = j
    BY <2>4
  <2>9. \A j : Recount(less[r], j) = Recount(c, j)
    BY <2>4, <2>5, Zenon
  <2> QED BY <2>c, <2>2, <2>6, <2>7, <2>8, <2>9, Zenon
<1>3. \A r \in Refs : /\ View(h)[r] = Window(h[r]) /\ Tally(h)[r] = h[r].refs /\ h[r].refs \in Nat
                      /\ Len(View(h)[r]) = h[r].len
  BY LaidIs
<1>5. dead = Dying(Tally(h), D)
  <2>1. \A r \in Refs : h[r] # Free <=> h[r].refs # 0
    BY FreeLasts DEF LaidOut
  <2>2. \A r \in Refs : (h[r] # Free /\ less[r].refs = 0)
                        <=> (Tally(h)[r] # 0 /\ Tally(h)[r] - Occurrences(-r, D) = 0)
    BY <1>2, <1>3, <2>1
  <2> QED BY <1>dead, <2>2 DEF Dying
<1>6. ASSUME NEW r \in Refs PROVE Within(less, dead, r) = Holes(View(h), dead, r)
  <2>1. dead \in SUBSET Refs
    BY <1>5 DEF Dying
  <2>2. \A o \in dead : less[o].len = Len(View(h)[o]) /\ Window(less[o]) = View(h)[o]
    BY <1>2, <1>3, <2>1
  <2> HIDE DEF View, Window
  <2> QED BY <2>2 DEF Within, Holes
<1>7. ASSUME NEW r \in Refs PROVE left[r] = Recount(h[r], m[r]) /\ left[r].refs = m[r]
  <2>1. m[r] = h[r].refs - Occurrences(-r, D) - Cardinality(Holes(View(h), dead, r))
    BY <1>3, <1>5 DEF Remains
  <2>y. PICK y : y = less[r].refs - Cardinality(Within(less, dead, r))
    OBVIOUS
  <2>a. left[r] = Recount(less[r], y)
    BY <1>left, <2>y, Zenon
  <2>b. Recount(less[r], y) = Recount(h[r], y)
    BY <1>2, Zenon
  <2>c. y = h[r].refs - Occurrences(-r, D) - Cardinality(Within(less, dead, r))
    BY <1>2, <2>y, Zenon
  <2>2. left[r] = Recount(h[r], h[r].refs - Occurrences(-r, D) - Cardinality(Within(less, dead, r)))
    BY <2>a, <2>b, <2>c, Zenon
  <2>3. left[r] = Recount(h[r], m[r])
    BY <1>6, <2>1, <2>2, Zenon
  <2> QED BY <1>2, <2>3, Zenon
<1>g. PICK g : g = data_discard(h, D)
  OBVIOUS
<1>8. DOMAIN g = Refs /\ \A r \in Refs : g[r] = IF left[r].refs = 0 THEN Free ELSE left[r]
  BY <1>1, <1>g
<1>9. \A r \in Refs : g[r] = IF m[r] = 0 THEN Free ELSE Recount(h[r], m[r])
  BY <1>7, <1>8
<1>10. \A r \in Refs : m[r] \in Nat
  OBVIOUS
<1>11. Recounts(h, g, m)
  <2>1. \A r \in Refs : m[r] \in Nat /\ (g[r] = Recount(h[r], m[r]) \/ (g[r] = Free /\ m[r] = 0))
    BY <1>9, <1>10, Zenon
  <2>2. \A r \in Refs : m[r] = 0 => g[r] = Free
    BY <1>9, Zenon
  <2> QED BY <1>8, <2>1, <2>2, Zenon DEF Recounts
<1> QED BY <1>11, <1>g, Zenon

(* What is left of the heap g after something was given up.                  *)
Left(h, g) ==
    \A r \in Refs : g[r].refs # 0 => /\ h[r].refs # 0 /\ View(g)[r] = View(h)[r]
                                     /\ g[r] = Recount(h[r], g[r].refs)

LEMMA HeapFacts ==
    ASSUME NEW h, NEW e, Heaped(h, e), NEW r \in Refs
    PROVE  /\ DOMAIN h = Refs /\ Lasts(h[r]) /\ h[r].refs \in Nat /\ e[r] \in Nat /\ e[r] <= h[r].refs
           /\ h[r].refs = 0 => h[r] = Free /\ View(h)[r] = <<>>
           /\ View(h)[r] = Window(h[r]) /\ View(h)[r] \in Seq(Int) /\ Len(View(h)[r]) = h[r].len
           /\ h[r].len \in 0 .. MaxLen /\ Tally(h)[r] = h[r].refs
           /\ h[r].refs = e[r] + Inner(View(h), r) /\ Inner(View(h), r) \in Nat
<1>1. LaidOut(h) /\ Sound(Tally(h), View(h), e)
  BY DEF Heaped
<1>2. Lasts(h[r]) /\ DOMAIN h = Refs /\ (h[r].refs = 0 => h[r] = Free)
  BY <1>1 DEF LaidOut
<1>3. /\ View(h)[r] = Window(h[r]) /\ Tally(h)[r] = h[r].refs /\ h[r].refs \in Nat
      /\ Len(View(h)[r]) = h[r].len /\ View(h)[r] \in Seq(Int)
  BY <1>1, LaidIs
<1>4. /\ e[r] \in Nat /\ e[r] <= Tally(h)[r] /\ Len(View(h)[r]) \in 0 .. MaxLen
      /\ Tally(h)[r] = e[r] + Inner(View(h), r) /\ Inner(View(h), r) \in Nat
      /\ (Tally(h)[r] = 0 => View(h)[r] = <<>>)
  BY <1>1, SoundFacts
<1> QED BY <1>2, <1>3, <1>4

LEMMA DiscardHeap ==
    ASSUME NEW h, NEW e, Heaped(h, e), NEW k \in Nat, NEW D, DOMAIN D = 1 .. k,
           \A r \in Refs : Occurrences(-r, D) <= e[r]
    PROVE  Heaped(data_discard(h, D), LessThose(e, D)) /\ Left(h, data_discard(h, D))
<1>g. PICK g : g = data_discard(h, D)
  OBVIOUS
<1>m. PICK m : m = Remains(Tally(h), View(h), D)
  OBVIOUS
<1>1. LaidOut(h) /\ Sound(Tally(h), View(h), e)
  BY DEF Heaped
<1>2. /\ Sound(m, Emptied(View(h), m), LessThose(e, D))
      /\ \A r \in Refs : m[r] # 0 => Tally(h)[r] # 0
  <2>1. LessThose(e, D) = Lessened(e, D)
    BY DEF LessThose, Lessened
  <2>f. PICK f : f = Lessened(e, D)
    OBVIOUS
  <2>2. Sound(m, Emptied(View(h), m), f) /\ \A r \in Refs : m[r] # 0 => Tally(h)[r] # 0
    BY <1>1, <1>m, <2>f, DiscardSound
  <2> QED BY <2>1, <2>2, <2>f, Zenon
<1>3. m \in [Refs -> Nat]
  BY <1>2, SoundFacts
<1>4. Recounts(h, g, m)
  BY <1>1, <1>3, <1>m, <1>g, DiscardIsRecount, Zenon
<1>5. /\ LaidOut(g) /\ \A r \in Refs : Tally(g)[r] = m[r]
      /\ \A r \in Refs : View(g)[r] = IF m[r] = 0 THEN <<>> ELSE View(h)[r]
      /\ \A r \in Refs : m[r] # 0 => g[r] = Recount(h[r], m[r])
  BY <1>1, <1>4, RecountedHeap
<1>6. Tally(g) = m
  <2>1. m = [r \in Refs |-> m[r]] /\ Tally(g) = [r \in Refs |-> Tally(g)[r]]
    BY <1>3 DEF Tally
  <2> QED BY <1>5, <2>1, SameFunction, Zenon
<1>7. View(g) = Emptied(View(h), m)
  <2>1. \A r \in Refs : View(g)[r] = Emptied(View(h), m)[r]
    BY <1>5 DEF Emptied
  <2>2. Emptied(View(h), m) = [r \in Refs |-> Emptied(View(h), m)[r]] /\ View(g) = [r \in Refs |-> View(g)[r]]
    BY DEF Emptied, View
  <2> QED BY <2>1, <2>2, SameFunction, Zenon
<1>8. Heaped(g, LessThose(e, D))
  BY <1>2, <1>5, <1>6, <1>7, Zenon DEF Heaped
<1>9. ASSUME NEW r \in Refs, g[r].refs # 0
      PROVE  h[r].refs # 0 /\ View(g)[r] = View(h)[r] /\ g[r] = Recount(h[r], g[r].refs)
  <2>1. Tally(g)[r] = g[r].refs /\ Tally(h)[r] = h[r].refs
    BY DEF Tally
  <2>2. m[r] = g[r].refs /\ m[r] # 0
    BY <1>5, <1>9, <2>1
  <2> QED BY <1>2, <1>5, <2>1, <2>2
<1>10. Left(h, g)
  BY <1>9, Zenon DEF Left
<1> QED BY <1>8, <1>10, <1>g, Zenon

(* One list is given other contents, whose elements come from or go to       *)
(* outside of lists.                                                         *)
LEMMA PutHeap ==
    ASSUME NEW h, NEW e, Heaped(h, e), NEW o \in Refs, Nowhere(View(h), o),
           NEW c, Lasts(c), c.refs # 0, Fills(View(h), o, Window(c)),
           NEW f \in [Refs -> Nat],
           f[o] + h[o].refs + Occurrences(-o, Window(c)) = c.refs + Occurrences(-o, View(h)[o]) + e[o],
           \A q \in Refs : q # o => Occurrences(-q, View(h)[o]) + e[q] = Occurrences(-q, Window(c)) + f[q]
    PROVE  Heaped(PutIn(h, o, c), f) /\ View(PutIn(h, o, c)) = PutIn(View(h), o, Window(c))
<1>g. PICK g : g = PutIn(h, o, c)
  OBVIOUS
<1>1. LaidOut(h) /\ Sound(Tally(h), View(h), e)
  BY DEF Heaped
<1>2. DOMAIN g = Refs /\ g[o] = c /\ \A q \in Refs : q # o => g[q] = h[q]
  BY <1>1, <1>g DEF LaidOut, PutIn
<1>3. LaidOut(g)
  BY <1>1, <1>2 DEF LaidOut
<1>4. View(g) = PutIn(View(h), o, Window(c))
  BY <1>2 DEF View, PutIn
<1>5. Tally(g) = PutIn(Tally(h), o, c.refs)
  BY <1>2 DEF Tally, PutIn
<1>6. Balanced(Tally(h), View(h), e, o, Window(c), Tally(g), f)
  <2>1. \A q \in Refs : g[q].refs \in Nat /\ Tally(g)[q] = g[q].refs
    BY <1>3, LaidIs
  <2>2. Tally(g) \in [Refs -> Nat]
    BY <2>1 DEF Tally
  <2>3. ASSUME NEW q \in Refs
        PROVE  Tally(g)[q] + Occurrences(-q, View(h)[o]) + e[q]
               = Tally(h)[q] + Occurrences(-q, Window(c)) + f[q]
    <3>0. /\ Occurrences(-q, View(h)[o]) \in Nat /\ Occurrences(-q, Window(c)) \in Nat
      <4>1. View(h)[o] \in Seq(Int) /\ Window(c) \in Seq(Int)
        BY HeapFacts, WindowIs
      <4>2. ASSUME NEW t \in Seq(Int), NEW d PROVE Occurrences(d, t) \in Nat
        <5>1. Len(t) \in Nat /\ DOMAIN t = 1 .. Len(t)
          OBVIOUS
        <5> QED BY <5>1, OccIs
      <4> QED BY <4>1, <4>2
    <3>1. Tally(g)[q] = g[q].refs /\ Tally(h)[q] = h[q].refs /\ g[q].refs \in Nat
          /\ h[q].refs \in Nat /\ e[q] \in Nat /\ f[q] \in Nat
      BY <2>1, HeapFacts
    <3>2. CASE q = o
      <4>1. g[q].refs = c.refs
        BY <1>2, <3>2
      <4>2. f[q] + h[q].refs + Occurrences(-q, Window(c)) = c.refs + Occurrences(-q, View(h)[o]) + e[q]
        BY <3>2
      <4> QED BY <3>0, <3>1, <4>1, <4>2
    <3>3. CASE q # o
      <4>1. g[q].refs = h[q].refs
        BY <1>2, <3>3
      <4>2. Occurrences(-q, View(h)[o]) + e[q] = Occurrences(-q, Window(c)) + f[q]
        BY <3>3
      <4> QED BY <3>0, <3>1, <4>1, <4>2
    <3> QED BY <3>2, <3>3
  <2>4. ASSUME NEW q \in Refs, Tally(g)[q] = 0
        PROVE  IF q = o THEN Window(c) = <<>> ELSE View(h)[q] = <<>>
    <3>1. q # o
      BY <1>2, <2>1, <2>4
    <3>2. h[q].refs = 0
      BY <1>2, <2>1, <2>4, <3>1
    <3> QED BY <3>1, <3>2, HeapFacts
  <2> QED BY <2>2, <2>3, <2>4, Zenon DEF Balanced
<1>7. Sound(Tally(g), PutIn(View(h), o, Window(c)), f)
  BY <1>1, <1>6, PutSound, Zenon
<1>8. Heaped(g, f)
  BY <1>3, <1>4, <1>7, Zenon DEF Heaped
<1> QED BY <1>4, <1>8, <1>g, Zenon

(* What a step that is about the list at o leaves of the others.             *)
Kept(h, g, o) ==
    \A q \in Refs : q # o /\ g[q].refs # 0 => h[q].refs # 0 /\ View(g)[q] = View(h)[q]
Live(h, d) == Datum(View(h), d) /\ (d < 0 => h[-d].refs # 0)
Sole(h, e, o) == o \in Refs /\ h[o].refs = 1 /\ e[o] = 1
WholeList(c, s) == Lasts(c) /\ c.refs = 1 /\ Window(c) = s

LEMMA SoleNowhere ==
    ASSUME NEW h, NEW e, Heaped(h, e), NEW o, Sole(h, e, o)
    PROVE  Nowhere(View(h), o) /\ Inner(View(h), o) = 0
<1>1. Sound(Tally(h), View(h), e) /\ o \in Refs
  BY DEF Heaped, Sole
<1>2. Tally(h)[o] = e[o]
  BY <1>1 DEF Tally, Sole
<1> QED BY <1>1, <1>2, InNone

LEMMA OccNat ==
    ASSUME NEW t \in Seq(Int), NEW d
    PROVE  Occurrences(d, t) \in Nat /\ (Occurrences(d, t) = 0 <=> \A i \in 1 .. Len(t) : t[i] # d)
<1>1. Len(t) \in Nat /\ DOMAIN t = 1 .. Len(t)
  OBVIOUS
<1> QED BY <1>1, OccIs

(* Data are put into a list that one place outside refers to.                *)
LEMMA EnrichHeap ==
    ASSUME NEW h, NEW e, Heaped(h, e), NEW o, Sole(h, e, o),
           NEW D \in Seq(Int), \A i \in 1 .. Len(D) : Live(h, D[i]) /\ D[i] # -o,
           NEW c, NEW s, WholeList(c, s), Fills(View(h), o, s),
           \A q \in Refs : Occurrences(-q, s) = Occurrences(-q, View(h)[o]) + Occurrences(-q, D),
           NEW k, k = PutIn(data_dup(h, D), o, c)
    PROVE  Heaped(k, e) /\ Sole(k, e, o) /\ View(k)[o] = s /\ Kept(h, k, o) /\ k[o] = c
<1>g. PICK g : g = data_dup(h, D)
  OBVIOUS
<1>f. PICK f : f = [r \in Refs |-> e[r] + Occurrences(-r, D)]
  OBVIOUS
<1>0. Len(D) \in Nat /\ DOMAIN D = 1 .. Len(D) /\ o \in Refs /\ h[o].refs = 1 /\ e[o] = 1
  BY DEF Sole
<1>1. /\ Heaped(g, f) /\ View(g) = View(h)
      /\ \A r \in Refs : g[r] = Recount(h[r], h[r].refs + Occurrences(-r, D)) /\ Occurrences(-r, D) \in Nat
  BY <1>0, <1>f, <1>g, DupHeap
<1>2. Occurrences(-o, D) = 0
  BY <1>0, OccNat
<1>3. \A r \in Refs : g[r].refs = h[r].refs + Occurrences(-r, D)
  <2>1. \A r \in Refs : Lasts(h[r]) /\ h[r].refs + Occurrences(-r, D) \in Nat
    BY <1>1, HeapFacts
  <2> TAKE r \in Refs
  <2> PICK b, k1 : b = h[r] /\ k1 = h[r].refs + Occurrences(-r, D)
    OBVIOUS
  <2>2. Lasts(b) /\ k1 \in Nat /\ g[r] = Recount(b, k1)
    BY <1>1, <2>1
  <2>3. Recount(b, k1).refs = k1
    BY <2>2, RecountLasts, Zenon
  <2> QED BY <2>2, <2>3, Zenon
<1>4. Lasts(c) /\ c.refs = 1 /\ Window(c) = s
  BY DEF WholeList
<1>5. Nowhere(View(g), o)
  BY <1>1, SoleNowhere
<1>6. e \in [Refs -> Nat]
  BY SoundFacts DEF Heaped
<1>7. \A q \in Refs : Occurrences(-q, View(h)[o]) \in Nat /\ e[q] \in Nat
  BY <1>0, <1>6, HeapFacts, OccNat
<1>8. e[o] + g[o].refs + Occurrences(-o, s) = c.refs + Occurrences(-o, View(g)[o]) + f[o]
  <2>1. f[o] = 1 /\ g[o].refs = 1 /\ Occurrences(-o, s) = Occurrences(-o, View(h)[o])
    BY <1>0, <1>2, <1>3, <1>7, <1>f
  <2>2. Occurrences(-o, View(h)[o]) \in Nat
    BY <1>0, <1>7
  <2> QED BY <1>0, <1>1, <1>4, <2>1, <2>2
<1>9. \A q \in Refs : q # o => Occurrences(-q, View(g)[o]) + f[q] = Occurrences(-q, s) + e[q]
  <2>1. ASSUME NEW q \in Refs
        PROVE  Occurrences(-q, View(g)[o]) + f[q] = Occurrences(-q, s) + e[q]
    <3> PICK n1, n2, n3 : n1 = Occurrences(-q, View(h)[o]) /\ n2 = Occurrences(-q, D) /\ n3 = e[q]
      OBVIOUS
    <3>1. n1 \in Nat /\ n2 \in Nat /\ n3 \in Nat
      BY <1>1, <1>7
    <3>2. f[q] = n3 + n2
      BY <1>f
    <3>3. Occurrences(-q, s) = n1 + n2 /\ Occurrences(-q, View(g)[o]) = n1
      BY <1>1
    <3> QED BY <3>1, <3>2, <3>3
  <2> QED BY <2>1, Zenon
<1>10. Fills(View(g), o, Window(c))
  BY <1>1, <1>4, Zenon
<1>11. Heaped(k, e) /\ View(k) = PutIn(View(g), o, s)
  <2>1. c.refs # 0
    BY <1>4
  <2> QED BY <1>0, <1>1, <1>4, <1>5, <1>6, <1>8, <1>9, <1>10, <2>1, <1>g, PutHeap, SMTT(30)
<1>12. DOMAIN g = Refs /\ DOMAIN View(h) = Refs
  BY <1>0, <1>1, HeapFacts DEF View
<1>13. k[o] = c /\ View(k)[o] = s /\ \A q \in Refs : q # o => k[q] = g[q] /\ View(k)[q] = View(h)[q]
  BY <1>0, <1>1, <1>11, <1>12, <1>g DEF PutIn
<1>14. Sole(k, e, o)
  BY <1>0, <1>4, <1>13 DEF Sole
<1>15. ASSUME NEW q \in Refs, q # o, k[q].refs # 0 PROVE h[q].refs # 0
  <2>1. k[q].refs = h[q].refs + Occurrences(-q, D)
    BY <1>3, <1>13, <1>15
  <2>2. CASE Occurrences(-q, D) = 0
    <3>1. h[q].refs \in Nat
      BY HeapFacts
    <3> QED BY <1>15, <2>1, <2>2, <3>1
  <2>3. CASE Occurrences(-q, D) # 0
    <3>1. PICK i \in 1 .. Len(D) : D[i] = -q
      BY <2>3, OccNat
    <3>2. -q < 0 /\ -(-q) = q
      BY RefsAre
    <3>3. Live(h, -q)
      BY <3>1
    <3> QED BY <3>2, <3>3 DEF Live
  <2> QED BY <2>2, <2>3
<1>16. Kept(h, k, o)
  BY <1>13, <1>15 DEF Kept
<1> QED BY <1>11, <1>13, <1>14, <1>16

(* An operator works on the list at r, to which the top of the stack refers; *)
(* f counts the other places outside of lists.                               *)
Plus(f, r) == [x \in Refs |-> f[x] + (IF x = r THEN 1 ELSE 0)]
On(h, f, r) == f \in [Refs -> Nat] /\ r \in Refs /\ Heaped(h, Plus(f, r))
Alone(h, f, r) == On(h, f, r) /\ h[r].refs = 1

LEMMA AloneFacts ==
    ASSUME NEW h, NEW f, NEW o, Alone(h, f, o)
    PROVE  /\ Heaped(h, Plus(f, o)) /\ Sole(h, Plus(f, o), o) /\ f \in [Refs -> Nat] /\ f[o] = 0
           /\ o \in Refs /\ Nowhere(View(h), o) /\ Inner(View(h), o) = 0 /\ h[o].refs = 1
<1>e. PICK e : e = Plus(f, o)
  OBVIOUS
<1>1. Heaped(h, e) /\ o \in Refs /\ h[o].refs = 1 /\ f \in [Refs -> Nat]
  BY <1>e DEF Alone, On
<1>2. e[o] = f[o] + 1 /\ f[o] \in Nat
  BY <1>1, <1>e DEF Plus
<1>3. e[o] <= 1
  BY <1>1, HeapFacts
<1>4. f[o] = 0 /\ e[o] = 1
  BY <1>2, <1>3
<1>5. Sole(h, e, o)
  BY <1>1, <1>4 DEF Sole
<1>6. Nowhere(View(h), o) /\ Inner(View(h), o) = 0
  BY <1>1, <1>5, SoleNowhere
<1> QED BY <1>1, <1>4, <1>5, <1>6, <1>e, Zenon

(* Whom the new contents of o refer to, others no longer do.                 *)
Settles(h, e, o, c, s, f) ==
    /\ f \in [Refs -> Nat]
    /\ f[o] + h[o].refs + Occurrences(-o, s) = c.refs + Occurrences(-o, View(h)[o]) + e[o]
    /\ \A q \in Refs : q # o => Occurrences(-q, View(h)[o]) + e[q] = Occurrences(-q, s) + f[q]

LEMMA PutHeapTo ==
    ASSUME NEW h, NEW e, Heaped(h, e), NEW o \in Refs, Nowhere(View(h), o),
           NEW c, NEW s, WholeList(c, s), Fills(View(h), o, s), NEW f, Settles(h, e, o, c, s, f)
    PROVE  Heaped(PutIn(h, o, c), f) /\ View(PutIn(h, o, c)) = PutIn(View(h), o, s)
<1>0. Lasts(c) /\ c.refs # 0 /\ Window(c) = s
  BY DEF WholeList
<1>1. Fills(View(h), o, Window(c))
  BY <1>0, Zenon
<1>2. f[o] + h[o].refs + Occurrences(-o, Window(c)) = c.refs + Occurrences(-o, View(h)[o]) + e[o]
  BY <1>0, Zenon DEF Settles
<1>3. \A q \in Refs : q # o => Occurrences(-q, View(h)[o]) + e[q] = Occurrences(-q, Window(c)) + f[q]
  BY <1>0, Zenon DEF Settles
<1>4. f \in [Refs -> Nat]
  BY Zenon DEF Settles
<1>5. Heaped(PutIn(h, o, c), f) /\ View(PutIn(h, o, c)) = PutIn(View(h), o, Window(c))
  BY <1>0, <1>1, <1>2, <1>3, <1>4, PutHeap
<1> QED BY <1>0, <1>5, Zenon

Changed(h, f, o, c, s, k) == Alone(k, f, o) /\ View(k)[o] = s /\ Kept(h, k, o) /\ k[o] = c

LEMMA Enriched ==
    ASSUME NEW h, NEW f, NEW o, Alone(h, f, o),
           NEW D \in Seq(Int), \A i \in 1 .. Len(D) : Live(h, D[i]) /\ D[i] # -o,
           NEW c, NEW s, WholeList(c, s), Fills(View(h), o, s),
           \A q \in Refs : Occurrences(-q, s) = Occurrences(-q, View(h)[o]) + Occurrences(-q, D),
           NEW k, k = PutIn(data_dup(h, D), o, c)
    PROVE  Changed(h, f, o, c, s, k)
<1>e. PICK e : e = Plus(f, o)
  OBVIOUS
<1>1. Heaped(h, e) /\ Sole(h, e, o) /\ f \in [Refs -> Nat]
  BY <1>e, AloneFacts
<1>2. Heaped(k, e) /\ Sole(k, e, o) /\ View(k)[o] = s /\ Kept(h, k, o) /\ k[o] = c
  BY <1>1, EnrichHeap
<1> QED BY <1>1, <1>2, <1>e, Zenon DEF Changed, Alone, On, Sole

(* The same data in another order or at another place of the array.          *)
LEMMA Rewritten ==
    ASSUME NEW h, NEW f, NEW o, Alone(h, f, o),
           NEW c, NEW s, WholeList(c, s), Fills(View(h), o, s),
           \A q \in Refs : Occurrences(-q, s) = Occurrences(-q, View(h)[o]),
           NEW k, k = PutIn(h, o, c)
    PROVE  Changed(h, f, o, c, s, k)
<1>e. PICK e : e = Plus(f, o)
  OBVIOUS
<1>1. /\ Heaped(h, e) /\ Sole(h, e, o) /\ f \in [Refs -> Nat] /\ o \in Refs
      /\ Nowhere(View(h), o) /\ h[o].refs = 1
  BY <1>e, AloneFacts
<1>2. Lasts(c) /\ c.refs = 1 /\ Window(c) = s /\ c.refs # 0
  BY DEF WholeList
<1>3. e \in [Refs -> Nat]
  BY <1>1, SoundFacts DEF Heaped
<1>4. \A q \in Refs : Occurrences(-q, View(h)[o]) \in Nat /\ e[q] \in Nat
  BY <1>1, <1>3, HeapFacts, OccNat
<1>5. e[o] + h[o].refs + Occurrences(-o, s) = c.refs + Occurrences(-o, View(h)[o]) + e[o]
  BY <1>1, <1>2, <1>4
<1>6. \A q \in Refs : q # o => Occurrences(-q, View(h)[o]) + e[q] = Occurrences(-q, s) + e[q]
  BY <1>4
<1>7. Heaped(k, e) /\ View(k) = PutIn(View(h), o, s)
  <2>1. Settles(h, e, o, c, s, e)
    BY <1>3, <1>5, <1>6, Zenon DEF Settles
  <2>2. Heaped(PutIn(h, o, c), e) /\ View(PutIn(h, o, c)) = PutIn(View(h), o, s)
    BY <1>1, <2>1, PutHeapTo
  <2> QED BY <2>2, Zenon
<1>8. DOMAIN h = Refs /\ DOMAIN View(h) = Refs
  BY <1>1, HeapFacts DEF View
<1>9. k[o] = c /\ View(k)[o] = s /\ \A q \in Refs : q # o => k[q] = h[q] /\ View(k)[q] = View(h)[q]
  BY <1>1, <1>7, <1>8 DEF PutIn
<1>10. Kept(h, k, o)
  BY <1>9 DEF Kept
<1> QED BY <1>1, <1>2, <1>7, <1>9, <1>10, <1>e, Zenon DEF Changed, Alone, On

LEMMA SameRecount ==
    ASSUME NEW c, Lasts(c)
    PROVE  Recount(c, c.refs) = c
<1>1. PICK a, n, z, b, k : c = [start |-> a, len |-> n, size |-> z, refs |-> k, el |-> b]
  BY Zenon DEF Lasts
<1> QED BY <1>1 DEF Recount

(* Data are taken out of a list that nothing else refers to.                 *)
LEMMA Impoverished ==
    ASSUME NEW h, NEW f, NEW o, Alone(h, f, o), NEW D \in Seq(Int),
           NEW c, NEW s, WholeList(c, s), Fills(View(h), o, s),
           \A q \in Refs : Occurrences(-q, View(h)[o]) = Occurrences(-q, s) + Occurrences(-q, D),
           NEW k, k = PutIn(data_discard(h, D), o, c)
    PROVE  Changed(h, f, o, c, s, k) /\ data_discard(h, D)[o] = h[o]
<1>e. PICK e : e = Plus(f, o)
  OBVIOUS
<1>1. /\ Heaped(h, e) /\ Sole(h, e, o) /\ f \in [Refs -> Nat] /\ o \in Refs
      /\ Nowhere(View(h), o) /\ h[o].refs = 1
  BY <1>e, AloneFacts
<1>2. Lasts(c) /\ c.refs = 1 /\ Window(c) = s /\ c.refs # 0 /\ s \in Seq(Int)
  BY DEF WholeList, Fills
<1>3. e \in [Refs -> Nat]
  BY <1>1, SoundFacts DEF Heaped
<1>n. Len(D) \in Nat /\ DOMAIN D = 1 .. Len(D)
  OBVIOUS
<1>4. \A q \in Refs : /\ Occurrences(-q, View(h)[o]) \in Nat /\ e[q] \in Nat
                      /\ Occurrences(-q, s) \in Nat /\ Occurrences(-q, D) \in Nat
  BY <1>1, <1>2, <1>3, HeapFacts, OccNat
<1>5. Occurrences(-o, View(h)[o]) = 0 /\ Occurrences(-o, s) = 0 /\ Occurrences(-o, D) = 0
  <2>1. Occurrences(-o, View(h)[o]) = 0
    <3>1. \A i \in 1 .. Len(View(h)[o]) : View(h)[o][i] # -o
      BY <1>1 DEF Nowhere
    <3>2. View(h)[o] \in Seq(Int)
      BY <1>1, HeapFacts
    <3> QED BY <3>1, <3>2, OccNat
  <2>2. Occurrences(-o, View(h)[o]) = Occurrences(-o, s) + Occurrences(-o, D)
    BY <1>1
  <2> QED BY <1>1, <1>4, <2>1, <2>2
<1>d. PICK d : d = PlusThose(e, D)
  OBVIOUS
<1>g. PICK g : g = PutIn(h, o, c)
  OBVIOUS
<1>6. d \in [Refs -> Nat] /\ \A q \in Refs : d[q] = e[q] + Occurrences(-q, D)
  BY <1>4, <1>d DEF PlusThose
<1>7. Heaped(g, d) /\ View(g) = PutIn(View(h), o, s)
  <2>1. d[o] + h[o].refs + Occurrences(-o, s) = c.refs + Occurrences(-o, View(h)[o]) + e[o]
    <3>1. e[o] \in Nat /\ d[o] = e[o] + Occurrences(-o, D)
      BY <1>1, <1>4, <1>6
    <3>2. d[o] = e[o]
      BY <1>5, <3>1
    <3> QED BY <1>1, <1>2, <1>5, <3>1, <3>2
  <2>2. \A q \in Refs : q # o => Occurrences(-q, View(h)[o]) + e[q] = Occurrences(-q, s) + d[q]
    BY <1>4, <1>6
  <2>3. d \in [Refs -> Nat]
    BY <1>6
  <2>4. Heaped(PutIn(h, o, c), d) /\ View(PutIn(h, o, c)) = PutIn(View(h), o, s)
    <3>1. Settles(h, e, o, c, s, d)
      BY <2>1, <2>2, <2>3, Zenon DEF Settles
    <3> QED BY <1>1, <3>1, PutHeapTo
  <2> QED BY <1>g, <2>4, Zenon
<1>8. DOMAIN h = Refs /\ DOMAIN View(h) = Refs
  BY <1>1, HeapFacts DEF View
<1>9. g[o] = c /\ View(g)[o] = s /\ \A q \in Refs : q # o => g[q] = h[q] /\ View(g)[q] = View(h)[q]
  BY <1>1, <1>7, <1>8, <1>g DEF PutIn
<1>10. Tally(g) = Tally(h)
  <2>1. \A q \in Refs : g[q].refs = h[q].refs
    BY <1>1, <1>2, <1>9
  <2> QED BY <2>1 DEF Tally
<1>11. \A q \in Refs : Occurrences(-q, D) <= d[q]
  BY <1>4, <1>6
<1>l. PICK l : l = data_discard(g, D)
  OBVIOUS
<1>12. Heaped(l, LessThose(d, D)) /\ Left(g, l)
  BY <1>7, <1>11, <1>l, <1>n, DiscardHeap, Zenon
<1>13. LessThose(d, D) = e
  <2>1. \A q \in Refs : d[q] - Occurrences(-q, D) = e[q]
    BY <1>4, <1>6
  <2> QED BY <1>3, <2>1 DEF LessThose
<1>m. PICK m : m = Remains(Tally(g), View(g), D)
  OBVIOUS
<1>14. m \in [Refs -> Nat]
  <2>1. PICK z : z = Lessened(d, D)
    OBVIOUS
  <2>2. Sound(m, Emptied(View(g), m), z)
    BY <1>7, <1>11, <1>m, <1>n, <2>1, DiscardSound, Zenon DEF Heaped
  <2> QED BY <2>2, SoundFacts
<1>15. m = Remains(Tally(h), View(h), D) /\ m[o] = 1
  <2>1. PICK T : T = Dying(Tally(h), D)
    OBVIOUS
  <2>2. T \in SUBSET Refs /\ o \notin T
    <3>1. Tally(h)[o] = 1
      BY <1>1 DEF Tally
    <3> QED BY <1>5, <2>1, <3>1 DEF Dying
  <2>3. \A r \in Refs : Holes(View(g), T, r) = Holes(View(h), T, r)
    <3>1. \A q \in T : View(g)[q] = View(h)[q]
      BY <1>9, <2>2
    <3> HIDE DEF View
    <3> QED BY <3>1 DEF Holes
  <2>4. m = [r \in Refs |-> Tally(h)[r] - Occurrences(-r, D) - Cardinality(Holes(View(g), T, r))]
    BY <1>10, <1>m, <2>1, Zenon DEF Remains
  <2>5. m = [r \in Refs |-> Tally(h)[r] - Occurrences(-r, D) - Cardinality(Holes(View(h), T, r))]
    BY <2>3, <2>4
  <2>6. Holes(View(h), T, o) = {}
    BY <1>1, <2>2, RefsAre DEF Holes, Nowhere
  <2>7. m[o] = 1
    <3>1. m[o] = Tally(h)[o] - Occurrences(-o, D) - Cardinality(Holes(View(h), T, o))
      BY <1>1, <2>5
    <3>2. Tally(h)[o] = 1
      BY <1>1 DEF Tally
    <3>3. Cardinality(Holes(View(h), T, o)) = 0
      BY <2>6, FS_EmptySet, Zenon
    <3> QED BY <1>5, <3>1, <3>2, <3>3
  <2> QED BY <2>1, <2>5, <2>7, Zenon DEF Remains
<1>j. PICK j : j = data_discard(h, D)
  OBVIOUS
<1>16. Recounts(g, l, m) /\ Recounts(h, j, m)
  BY <1>1, <1>7, <1>14, <1>15, <1>m, <1>n, <1>l, <1>j, DiscardIsRecount, Zenon DEF Heaped
<1>17. Recount(c, 1) = c
  <2>1. PICK a, n, z, b : c = [start |-> a, len |-> n, size |-> z, refs |-> 1, el |-> b]
    BY <1>2, Zenon DEF Lasts
  <2> QED BY <2>1 DEF Recount
<1>18. DOMAIN j = Refs /\ k = PutIn(j, o, c)
  BY <1>16, <1>j DEF Recounts
<1>19. l = k
  <2>1. DOMAIN l = Refs /\ DOMAIN k = Refs
    BY <1>16, <1>18 DEF Recounts, PutIn
  <2>2. l[o] = c
    <3>1. l[o] = Recount(g[o], m[o]) \/ (l[o] = Free /\ m[o] = 0)
      BY <1>1, <1>16, Zenon DEF Recounts
    <3>2. m[o] # 0
      BY <1>15
    <3>3. l[o] = Recount(g[o], m[o])
      BY <3>1, <3>2, Zenon
    <3>4. Recount(g[o], m[o]) = Recount(c, 1)
      BY <1>9, <1>15, Zenon
    <3> QED BY <1>17, <3>3, <3>4, Zenon
  <2>3. k[o] = c /\ \A q \in Refs : q # o => k[q] = j[q]
    BY <1>1, <1>18 DEF PutIn
  <2>4. ASSUME NEW q \in Refs, q # o PROVE l[q] = j[q]
    <3>1. CASE m[q] = 0
      <4>1. l[q] = Free /\ j[q] = Free
        BY <1>16, <3>1, Zenon DEF Recounts
      <4> QED BY <4>1
    <3>2. CASE m[q] # 0
      <4>1. l[q] = Recount(g[q], m[q]) /\ j[q] = Recount(h[q], m[q])
        BY <1>16, <3>2, Zenon DEF Recounts
      <4>2. g[q] = h[q]
        BY <1>9, <2>4
      <4> QED BY <4>1, <4>2, Zenon
    <3> QED BY <3>1, <3>2
  <2>5. \A q \in Refs : l[q] = k[q]
    BY <2>2, <2>3, <2>4
  <2>6. l = [q \in Refs |-> l[q]] /\ k = [q \in Refs |-> k[q]]
    <3>1. l = [q \in Refs |-> l[q]]
      <4>1. l = [r \in Refs |-> l[r]]
        BY <1>l DEF data_discard
      <4> QED BY <4>1
    <3>2. k = [q \in Refs |-> k[q]]
      BY <1>18 DEF PutIn
    <3> QED BY <3>1, <3>2
  <2> QED BY <2>5, <2>6, SameFunction, Zenon
<1>20. Heaped(k, e) /\ Left(g, k)
  BY <1>12, <1>13, <1>19, Zenon
<1>21. k[o] = c /\ View(k)[o] = s
  <2>1. k[o] = c
    BY <1>1, <1>18 DEF PutIn
  <2>2. View(k)[o] = Window(k[o])
    BY <1>1 DEF View
  <2> QED BY <1>2, <2>1, <2>2, Zenon
<1>22. Kept(h, k, o)
  <2> SUFFICES ASSUME NEW q \in Refs, q # o, k[q].refs # 0
               PROVE  h[q].refs # 0 /\ View(k)[q] = View(h)[q]
    BY Zenon DEF Kept
  <2>1. g[q].refs # 0 /\ View(k)[q] = View(g)[q]
    BY <1>20, Zenon DEF Left
  <2>2. g[q] = h[q] /\ View(g)[q] = View(h)[q]
    BY <1>9
  <2> QED BY <2>1, <2>2, Zenon
<1>23. j[o] = h[o]
  <2>1. Lasts(h[o]) /\ h[o].refs = m[o]
    BY <1>1, <1>15, HeapFacts
  <2>2. j[o] = Recount(h[o], m[o]) \/ (j[o] = Free /\ m[o] = 0)
    BY <1>1, <1>16, Zenon DEF Recounts
  <2>3. m[o] # 0
    BY <1>15
  <2>4. j[o] = Recount(h[o], h[o].refs)
    BY <2>1, <2>2, <2>3, Zenon
  <2> QED BY <2>1, <2>4, SameRecount, Zenon
<1> QED BY <1>1, <1>2, <1>20, <1>21, <1>22, <1>23, <1>e, <1>j, Zenon DEF Changed, Alone, On

(* s is t with zeros after it.                                               *)
Padded(s, t) ==
    /\ s \in Seq(Int) /\ t \in Seq(Int) /\ Len(t) <= Len(s) /\ Len(s) <= MaxLen
    /\ \A i \in 1 .. Len(s) : s[i] = IF i <= Len(t) THEN t[i] ELSE 0

LEMMA OccPadded ==
    ASSUME NEW s, NEW t, Padded(s, t), NEW d, d # 0
    PROVE  Occurrences(d, s) = Occurrences(d, t) /\ Occurrences(d, s) \in Nat
<1>1. /\ Len(s) \in Nat /\ Len(t) \in Nat /\ DOMAIN s = 1 .. Len(s) /\ DOMAIN t = 1 .. Len(t)
      /\ Len(t) <= Len(s) /\ \A i \in 1 .. Len(s) : s[i] = IF i <= Len(t) THEN t[i] ELSE 0
  BY DEF Padded
<1>2. Finds(d, s) = Finds(d, t)
  <2>1. ASSUME NEW i \in Finds(d, s) PROVE i \in Finds(d, t)
    BY <1>1 DEF Finds
  <2>2. ASSUME NEW i \in Finds(d, t) PROVE i \in Finds(d, s)
    BY <1>1 DEF Finds
  <2> QED BY <2>1, <2>2
<1>3. Occurrences(d, s) = Cardinality(Finds(d, s)) /\ Occurrences(d, s) \in Nat
  BY <1>1, OccIs
<1>4. Occurrences(d, t) = Cardinality(Finds(d, t))
  BY <1>1, OccIs
<1> QED BY <1>2, <1>3, <1>4

(* A list whose array was filled from its start on.                          *)
LEMMA ArrayIs ==
    ASSUME NEW t \in Seq(Int), NEW size \in Nat, NEW a \in Nat, NEW l \in 0 .. MaxLen, a + l <= size,
           Len(t) <= l, NEW k \in Nat,
           NEW c, c = [start |-> a, len |-> l, size |-> size, refs |-> k, el |-> Array(size, a, t)]
    PROVE  Lasts(c) /\ Padded(Window(c), t) /\ Len(Window(c)) = l
<1>1. l \in Nat /\ l <= MaxLen /\ MaxLen \in Nat /\ DOMAIN t = 1 .. Len(t) /\ Len(t) \in Nat
  BY RefsAre
<1>e. PICK b : b = Array(size, a, t)
  OBVIOUS
<1>2. b = [i \in 0 .. size - 1 |-> IF i - a + 1 \in 1 .. Len(t) THEN t[i - a + 1] ELSE 0]
  BY <1>1, <1>e DEF Array, Zero
<1>3. b \in [0 .. size - 1 -> Int]
  BY <1>1, <1>2
<1>4. Lasts(c)
  BY <1>1, <1>3, <1>e DEF Lasts
<1>w. PICK w : w = Window(c)
  OBVIOUS
<1>5. w \in Seq(Int) /\ Len(w) = l /\ \A i \in 1 .. l : w[i] = b[a + i - 1]
  <2>1. c.start = a /\ c.len = l /\ c.el = b
    BY <1>e
  <2> QED BY <1>4, <1>w, <2>1, WindowIs
<1>6. ASSUME NEW i \in 1 .. l PROVE w[i] = IF i <= Len(t) THEN t[i] ELSE 0
  <2>1. PICK j : j = a + i - 1
    OBVIOUS
  <2>2. j \in 0 .. size - 1 /\ j - a + 1 = i
    BY <1>1, <2>1
  <2>3. b[j] = IF i \in 1 .. Len(t) THEN t[i] ELSE 0
    BY <1>2, <2>2
  <2> QED BY <1>1, <1>5, <2>1, <2>3
<1>7. Padded(w, t)
  BY <1>1, <1>5, <1>6 DEF Padded
<1> QED BY <1>4, <1>5, <1>7, <1>w

LEMMA MinusIs ==
    ASSUME NEW a \in Refs, NEW b \in Refs
    PROVE  /\ -a = -b <=> a = b
           /\ -a < 0 /\ -(-a) = a /\ -a # 0 /\ -a \in Int /\ a \in Nat /\ a # 0
BY RefsAre

LEMMA FreeNowhere ==
    ASSUME NEW h, NEW e, Heaped(h, e), NEW n \in Refs, h[n] = Free
    PROVE  h[n].refs = 0 /\ e[n] = 0 /\ Nowhere(View(h), n) /\ View(h)[n] = <<>>
<1>1. h[n].refs = 0
  BY FreeLasts
<1>2. e[n] \in Nat /\ e[n] <= h[n].refs /\ Tally(h)[n] = h[n].refs /\ View(h)[n] = <<>>
  BY <1>1, HeapFacts
<1>3. e[n] = 0 /\ Tally(h)[n] = e[n]
  BY <1>1, <1>2
<1>4. Sound(Tally(h), View(h), e)
  BY DEF Heaped
<1>5. Nowhere(View(h), n)
  BY <1>3, <1>4, InNone
<1> QED BY <1>1, <1>2, <1>3, <1>5

(* What an element of a list refers to is alive.                             *)
LEMMA ElementLives ==
    ASSUME NEW h, NEW e, Heaped(h, e), NEW o \in Refs, NEW i \in 1 .. Len(View(h)[o])
    PROVE  Live(h, View(h)[o][i])
<1>1. Sound(Tally(h), View(h), e) /\ Windows(View(h))
  BY DEF Heaped, Sound
<1>d. PICK d : d = View(h)[o][i]
  OBVIOUS
<1>2. Datum(View(h), d)
  BY <1>1, <1>d DEF Sound
<1>3. CASE d < 0
  <2>q. PICK q : q = -d
    OBVIOUS
  <2>1. q \in Refs /\ d = -q
    BY <1>2, <1>3, <2>q, RefsAre DEF Datum
  <2>2. View(h)[o][i] = -q
    BY <1>d, <2>1
  <2>3. Inner(View(h), q) # 0 /\ Inner(View(h), q) \in Nat
    BY <1>1, <2>2, InnerIs
  <2>4. h[q].refs = e[q] + Inner(View(h), q) /\ e[q] \in Nat
    BY <2>1, HeapFacts
  <2>5. h[q].refs # 0
    BY <2>3, <2>4
  <2> QED BY <1>2, <1>d, <2>q, <2>5 DEF Live
<1>4. CASE ~(d < 0)
  BY <1>2, <1>4, <1>d DEF Live
<1> QED BY <1>3, <1>4

(* A list, or a part of it, is copied to an unused address.                  *)
LEMMA Copied ==
    ASSUME NEW h, NEW f, NEW r, On(h, f, r), NEW n \in Refs, h[n] = Free,
           NEW t \in Seq(Int), \A i \in 1 .. Len(t) : \E j \in 1 .. Len(View(h)[r]) : t[i] = View(h)[r][j],
           NEW c, NEW s, WholeList(c, s), Padded(s, t),
           NEW k, k = data_discard(PutIn(data_dup(h, t), n, c), <<-r>>)
    PROVE  Changed(h, f, n, c, s, k)
<1>e. PICK e : e = Plus(f, r)
  OBVIOUS
<1>1. Heaped(h, e) /\ f \in [Refs -> Nat] /\ r \in Refs
  BY <1>e DEF On
<1>2. h[n].refs = 0 /\ e[n] = 0 /\ Nowhere(View(h), n) /\ View(h)[n] = <<>>
  BY <1>1, FreeNowhere
<1>3. e \in [Refs -> Nat] /\ \A q \in Refs : e[q] = f[q] + (IF q = r THEN 1 ELSE 0)
  BY <1>1, <1>e DEF Plus
<1>4. n # r /\ f[n] = 0
  BY <1>1, <1>2, <1>3
<1>5. \A i \in 1 .. Len(t) : Live(h, t[i]) /\ t[i] # -n
  <2> TAKE i \in 1 .. Len(t)
  <2>1. PICK j \in 1 .. Len(View(h)[r]) : t[i] = View(h)[r][j]
    OBVIOUS
  <2>2. Live(h, View(h)[r][j])
    BY <1>1, ElementLives
  <2>3. View(h)[r][j] # -n
    BY <1>1, <1>2 DEF Nowhere
  <2> QED BY <2>1, <2>2, <2>3
<1>t. Len(t) \in Nat /\ DOMAIN t = 1 .. Len(t)
  OBVIOUS
<1>g. PICK g : g = data_dup(h, t)
  OBVIOUS
<1>d. PICK d : d = [q \in Refs |-> e[q] + Occurrences(-q, t)]
  OBVIOUS
<1>6. /\ Heaped(g, d) /\ View(g) = View(h)
      /\ \A q \in Refs : g[q] = Recount(h[q], h[q].refs + Occurrences(-q, t)) /\ Occurrences(-q, t) \in Nat
  BY <1>1, <1>d, <1>g, <1>t, DupHeap
<1>7. \A q \in Refs : g[q].refs = h[q].refs + Occurrences(-q, t)
  <2> TAKE q \in Refs
  <2> PICK b, k1 : b = h[q] /\ k1 = h[q].refs + Occurrences(-q, t)
    OBVIOUS
  <2>1. Lasts(b) /\ k1 \in Nat /\ g[q] = Recount(b, k1)
    BY <1>1, <1>6, HeapFacts
  <2>2. Recount(b, k1).refs = k1
    BY <2>1, RecountLasts, Zenon
  <2> QED BY <2>1, <2>2, Zenon
<1>8. Occurrences(-n, t) = 0
  BY <1>5, OccNat
<1>9. \A q \in Refs : Occurrences(-q, s) = Occurrences(-q, t) /\ Occurrences(-q, s) \in Nat
  <2>1. \A q \in Refs : -q # 0
    BY RefsAre
  <2> QED BY <2>1, OccPadded
<1>10. Fills(View(g), n, s)
  <2>1. s \in Seq(Int) /\ Len(s) <= MaxLen /\ Len(s) \in Nat /\ Len(t) \in Nat
        /\ \A i \in 1 .. Len(s) : s[i] = IF i <= Len(t) THEN t[i] ELSE 0
    BY DEF Padded
  <2>2. ASSUME NEW i \in 1 .. Len(s) PROVE Datum(View(h), s[i]) /\ s[i] # -n
    <3>1. CASE i <= Len(t)
      BY <1>5, <2>1, <3>1 DEF Live
    <3>2. CASE ~(i <= Len(t))
      <4>1. s[i] = 0 /\ 0 # -n
        BY <2>1, <3>2, RefsAre
      <4> QED BY <4>1 DEF Datum
    <3> QED BY <3>1, <3>2
  <2> QED BY <1>6, <2>1, <2>2 DEF Fills
<1>a. PICK a : a = Plus(e, n)
  OBVIOUS
<1>11. a \in [Refs -> Nat] /\ \A q \in Refs : a[q] = e[q] + (IF q = n THEN 1 ELSE 0)
  BY <1>3, <1>a DEF Plus
<1>m. PICK m : m = PutIn(g, n, c)
  OBVIOUS
<1>12. Heaped(m, a) /\ View(m) = PutIn(View(h), n, s)
  <2>1. Nowhere(View(g), n) /\ View(g)[n] = <<>>
    BY <1>2, <1>6
  <2>2. c.refs = 1
    BY DEF WholeList
  <2>3. \A q \in Refs : Occurrences(-q, View(g)[n]) = 0
    BY <2>1, OccNone, Zenon
  <2>4. \A q \in Refs : d[q] = e[q] + Occurrences(-q, t) /\ e[q] \in Nat
    BY <1>3, <1>d
  <2>5. a[n] + g[n].refs + Occurrences(-n, s) = c.refs + Occurrences(-n, View(g)[n]) + d[n]
    <3>1. a[n] = 1 /\ g[n].refs = 0 /\ Occurrences(-n, s) = 0 /\ Occurrences(-n, View(g)[n]) = 0 /\ d[n] = 0
      BY <1>2, <1>7, <1>8, <1>9, <1>11, <2>3, <2>4
    <3> QED BY <2>2, <3>1
  <2>6. \A q \in Refs : q # n => Occurrences(-q, View(g)[n]) + d[q] = Occurrences(-q, s) + a[q]
    <3> TAKE q \in Refs
    <3> HAVE q # n
    <3>1. a[q] = e[q] /\ d[q] = e[q] + Occurrences(-q, t) /\ e[q] \in Nat
      BY <1>11, <2>4
    <3>2. Occurrences(-q, s) = Occurrences(-q, t) /\ Occurrences(-q, s) \in Nat
          /\ Occurrences(-q, View(g)[n]) = 0
      BY <1>9, <2>3
    <3> QED BY <3>1, <3>2
  <2>7. Heaped(PutIn(g, n, c), a) /\ View(PutIn(g, n, c)) = PutIn(View(g), n, s)
    <3>1. Settles(g, d, n, c, s, a)
      BY <1>11, <2>5, <2>6, Zenon DEF Settles
    <3> QED BY <1>6, <1>10, <2>1, <3>1, PutHeapTo
  <2> QED BY <1>6, <1>m, <2>7, Zenon
<1>13. DOMAIN g = Refs /\ DOMAIN View(h) = Refs
  BY <1>1, <1>6, HeapFacts DEF View
<1>14. m[n] = c /\ View(m)[n] = s /\ \A q \in Refs : q # n => m[q] = g[q] /\ View(m)[q] = View(h)[q]
  BY <1>12, <1>13, <1>m DEF PutIn
<1>o. PICK o : o = <<-r>>
  OBVIOUS
<1>15. /\ DOMAIN o = 1 .. 1 /\ 1 \in Nat
       /\ \A q \in Refs : Occurrences(-q, o) = IF q = r THEN 1 ELSE 0
  <2>1. \A q \in Refs : -r = -q <=> q = r
    BY <1>1, MinusIs, Zenon
  <2>2. \A q \in Refs : Occurrences(-q, o) = IF -r = -q THEN 1 ELSE 0
    BY <1>o, OccOne, Zenon
  <2> QED BY <1>o, <2>1, <2>2
<1>16. Heaped(k, LessThose(a, o)) /\ Left(m, k)
  <2>1. \A q \in Refs : Occurrences(-q, o) <= a[q]
    <3> TAKE q \in Refs
    <3>1. a[q] \in Nat /\ e[q] \in Nat /\ a[q] = e[q] + (IF q = n THEN 1 ELSE 0)
      BY <1>3, <1>11
    <3>2. f[q] \in Nat /\ e[q] = f[q] + (IF q = r THEN 1 ELSE 0)
      BY <1>1, <1>3
    <3>3. Occurrences(-q, o) = IF q = r THEN 1 ELSE 0
      BY <1>15
    <3> QED BY <3>1, <3>2, <3>3
  <2>2. k = data_discard(m, o)
    BY <1>g, <1>m, <1>o
  <2> QED BY <1>12, <1>15, <2>1, <2>2, DiscardHeap
<1>17. LessThose(a, o) = Plus(f, n)
  <2>1. \A q \in Refs : a[q] - Occurrences(-q, o) = f[q] + (IF q = n THEN 1 ELSE 0)
    <3> TAKE q \in Refs
    <3>1. a[q] \in Nat /\ e[q] \in Nat /\ a[q] = e[q] + (IF q = n THEN 1 ELSE 0)
      BY <1>3, <1>11
    <3>2. f[q] \in Nat /\ e[q] = f[q] + (IF q = r THEN 1 ELSE 0)
      BY <1>1, <1>3
    <3>3. Occurrences(-q, o) = IF q = r THEN 1 ELSE 0
      BY <1>15
    <3> QED BY <3>1, <3>2, <3>3
  <2> QED BY <2>1 DEF LessThose, Plus
<1>18. Heaped(k, Plus(f, n))
  BY <1>16, <1>17, Zenon
<1>19. ASSUME NEW q \in Refs PROVE View(k)[q] = <<>> \/ View(k)[q] = View(m)[q]
  <2>1. k[q].refs = 0 => View(k)[q] = <<>>
    BY <1>18, HeapFacts
  <2>2. k[q].refs # 0 => View(k)[q] = View(m)[q]
    BY <1>16, Zenon DEF Left
  <2> QED BY <2>1, <2>2
<1>20. \A q \in Refs : \A i \in 1 .. Len(View(k)[q]) : View(k)[q][i] # -n
  <2> TAKE q \in Refs
  <2> TAKE i \in 1 .. Len(View(k)[q])
  <2>w. PICK w : w = View(k)[q]
    OBVIOUS
  <2>1. w # <<>>
    BY <2>w
  <2>2. w = View(m)[q]
    BY <1>19, <2>1, <2>w, Zenon
  <2>3. CASE q = n
    <3>1. w = s
      BY <1>14, <2>2, <2>3
    <3> QED BY <1>10, <2>w, <3>1 DEF Fills
  <2>4. CASE q # n
    <3>1. w = View(h)[q]
      BY <1>14, <2>2, <2>4
    <3> QED BY <1>2, <2>w, <3>1 DEF Nowhere
  <2> QED BY <2>3, <2>4
<1>21. k[n].refs = 1
  <2>1. Windows(View(k))
    BY <1>18, SoundFacts DEF Heaped
  <2>2. Inner(View(k), n) = 0
    BY <1>20, <2>1, InnerIs
  <2>3. k[n].refs = Plus(f, n)[n] + Inner(View(k), n)
    BY <1>18, HeapFacts
  <2>4. Plus(f, n)[n] = 1
    BY <1>4 DEF Plus
  <2> QED BY <2>2, <2>3, <2>4
<1>22. k[n] = c /\ View(k)[n] = s
  <2>1. k[n].refs # 0
    BY <1>21
  <2>2. k[n] = Recount(m[n], k[n].refs) /\ View(k)[n] = View(m)[n]
    BY <1>16, <2>1, Zenon DEF Left
  <2>3. Lasts(c) /\ c.refs = k[n].refs
    BY <1>21 DEF WholeList
  <2>4. k[n] = Recount(c, c.refs)
    BY <1>14, <2>2, <2>3, Zenon
  <2> QED BY <1>14, <2>2, <2>3, <2>4, SameRecount, Zenon
<1>23. Kept(h, k, n)
  <2> SUFFICES ASSUME NEW q \in Refs, q # n, k[q].refs # 0
               PROVE  h[q].refs # 0 /\ View(k)[q] = View(h)[q]
    BY Zenon DEF Kept
  <2>1. m[q].refs # 0 /\ View(k)[q] = View(m)[q]
    BY <1>16, Zenon DEF Left
  <2>2. m[q] = g[q] /\ View(m)[q] = View(h)[q]
    BY <1>14
  <2>3. h[q].refs # 0
    <3>1. CASE Occurrences(-q, t) = 0
      <4>1. h[q].refs \in Nat
        BY <1>1, HeapFacts
      <4>2. g[q].refs # 0 /\ g[q].refs = h[q].refs + Occurrences(-q, t)
        BY <1>7, <2>1, <2>2
      <4> QED BY <3>1, <4>1, <4>2
    <3>2. CASE Occurrences(-q, t) # 0
      <4>1. PICK i \in 1 .. Len(t) : t[i] = -q
        BY <3>2, OccNat
      <4>2. -q < 0 /\ -(-q) = q
        BY RefsAre
      <4>3. Live(h, -q)
        BY <1>5, <4>1
      <4> QED BY <4>2, <4>3 DEF Live
    <3> QED BY <3>1, <3>2
  <2> QED BY <2>1, <2>2, <2>3, Zenon
<1> QED BY <1>1, <1>18, <1>21, <1>22, <1>23, Zenon DEF Changed, Alone, On

(* prepare_to_modify: a piece of a list, with zeros if there is not enough.  *)
Stretch(w, gone, len) == [i \in 1 .. len |-> IF gone + i <= Len(w) THEN w[gone + i] ELSE 0]
Stay(c, start, len) ==
    [i \in 1 .. (IF c.len < len THEN c.len ELSE len) |-> El(c, start + i - 1)]
PartOf(t, w, gone, len) ==
    /\ t \in Seq(Int) /\ Len(t) <= len /\ gone + Len(t) <= Len(w)
    /\ \A i \in 1 .. Len(t) : t[i] = w[gone + i]
    /\ Len(t) = len \/ (gone = 0 /\ Len(t) = Len(w))

LEMMA StayIs ==
    ASSUME NEW c, Lasts(c), NEW gone \in Nat, NEW len \in Nat, gone = 0 \/ gone + len <= c.len,
           NEW start, start = c.start + gone
    PROVE  PartOf(Stay(c, start, len), Window(c), gone, len)
<1>1. c.len \in Nat /\ c.start \in Nat
  BY RefsAre DEF Lasts
<1>2. /\ Window(c) \in Seq(Int) /\ Len(Window(c)) = c.len
  BY WindowIs
<1>w. PICK w : w = Window(c)
  OBVIOUS
<1>3. w = [i \in 1 .. c.len |-> El(c, c.start + i - 1)]
  BY <1>w DEF Window
<1>n. PICK n : n = IF c.len < len THEN c.len ELSE len
  OBVIOUS
<1>t. PICK t : t = [i \in 1 .. n |-> El(c, start + i - 1)]
  OBVIOUS
<1>4. n \in Nat /\ n <= len /\ gone + n <= c.len /\ (n = len \/ (gone = 0 /\ n = c.len))
  BY <1>1, <1>n
<1>5. ASSUME NEW i \in 1 .. n PROVE t[i] = w[gone + i] /\ t[i] \in Int
  <2>j. PICK j : j = gone + i
    OBVIOUS
  <2>1. j \in 1 .. c.len /\ start + i - 1 = c.start + j - 1
    BY <1>1, <1>4, <2>j
  <2>2. t[i] = El(c, start + i - 1)
    BY <1>t
  <2>3. w[j] = El(c, c.start + j - 1)
    BY <1>3, <2>1
  <2>4. t[i] = w[j]
    BY <2>1, <2>2, <2>3
  <2>5. w[j] \in Int
    BY <1>2, <1>w, <2>1
  <2> QED BY <2>4, <2>5, <2>j
<1>6. t \in Seq(Int) /\ Len(t) = n
  <2>1. t \in [1 .. n -> Int]
    BY <1>5, <1>t
  <2> QED BY <1>4, <2>1
<1>7. PartOf(t, w, gone, len)
  BY <1>2, <1>4, <1>5, <1>6, <1>w DEF PartOf
<1> QED BY <1>n, <1>t, <1>w, <1>7, Zenon DEF Stay

LEMMA PieceIs ==
    ASSUME NEW w \in Seq(Int), NEW gone \in Nat, NEW len \in Nat, NEW t, PartOf(t, w, gone, len),
           NEW s, Padded(s, t), Len(s) = len
    PROVE  s = Stretch(w, gone, len)
<1>1. /\ s \in Seq(Int) /\ DOMAIN s = 1 .. len /\ Len(t) \in Nat /\ Len(w) \in Nat
      /\ \A i \in 1 .. len : s[i] = IF i <= Len(t) THEN t[i] ELSE 0
  BY DEF Padded, PartOf
<1>2. /\ Len(t) <= len /\ gone + Len(t) <= Len(w) /\ \A i \in 1 .. Len(t) : t[i] = w[gone + i]
      /\ Len(t) = len \/ (gone = 0 /\ Len(t) = Len(w))
  BY DEF PartOf
<1>3. \A i \in 1 .. len : s[i] = IF gone + i <= Len(w) THEN w[gone + i] ELSE 0
  <2> TAKE i \in 1 .. len
  <2>1. CASE i <= Len(t)
    <3>1. i \in 1 .. Len(t) /\ gone + i <= Len(w)
      BY <1>1, <1>2, <2>1
    <3> QED BY <1>1, <1>2, <2>1, <3>1
  <2>2. CASE ~(i <= Len(t))
    <3>1. ~(gone + i <= Len(w))
      BY <1>1, <1>2, <2>2
    <3> QED BY <1>1, <2>2, <3>1
  <2> QED BY <2>1, <2>2
<1>4. s = [i \in 1 .. len |-> s[i]]
  BY <1>1
<1>5. s = [i \in 1 .. len |-> IF gone + i <= Len(w) THEN w[gone + i] ELSE 0]
  BY <1>3, <1>4
<1> QED BY <1>5 DEF Stretch

LEMMA SubShape ==
    ASSUME NEW u, NEW w, NEW a \in Nat, NEW n \in Nat, NEW b, b = a + 1,
           NEW m, m = IF a <= n THEN n - a ELSE 0,
           \A i \in 1 .. n - b + 1 : u[i] = w[b + i - 1]
    PROVE  m \in Nat /\ (IF b <= n THEN n - b + 1 ELSE 0) = m /\ \A i \in 1 .. m : u[i] = w[a + i]
<1>1. m \in Nat /\ (IF b <= n THEN n - b + 1 ELSE 0) = m
  OBVIOUS
<1>2. ASSUME NEW i \in 1 .. m PROVE u[i] = w[a + i]
  <2>1. i \in 1 .. n - b + 1 /\ b + i - 1 = a + i
    OBVIOUS
  <2> QED BY <2>1
<1> QED BY <1>1, <1>2

SubOf(u, w, a, m) == u \in Seq(Int) /\ Len(u) = m /\ m \in Nat /\ \A i \in 1 .. m : u[i] = w[a + i]

LEMMA SubIs ==
    ASSUME NEW w \in Seq(Int), NEW a \in Nat, NEW n \in Nat, n <= Len(w)
    PROVE  SubOf(SubSeq(w, a + 1, n), w, a, IF a <= n THEN n - a ELSE 0)
<1>b. PICK b : b = a + 1
  OBVIOUS
<1>1. b \in Int /\ n \in Int /\ \A i \in b .. n : w[i] \in Int
  <2>1. Len(w) \in Nat /\ \A i \in 1 .. Len(w) : w[i] \in Int
    OBVIOUS
  <2> QED BY <1>b, <2>1
<1>u. PICK u : u = SubSeq(w, b, n)
  OBVIOUS
<1>2. /\ u \in Seq(Int) /\ Len(u) = IF b <= n THEN n - b + 1 ELSE 0
      /\ \A i \in 1 .. n - b + 1 : u[i] = w[b + i - 1]
  <2>1. /\ SubSeq(w, b, n) \in Seq(Int) /\ Len(SubSeq(w, b, n)) = IF b <= n THEN n - b + 1 ELSE 0
        /\ \A i \in 1 .. n - b + 1 : SubSeq(w, b, n)[i] = w[b + i - 1]
    BY <1>1, SubSeqProperties
  <2> QED BY <1>u, <2>1, Zenon
<1>m. PICK m : m = IF a <= n THEN n - a ELSE 0
  OBVIOUS
<1>3. m \in Nat /\ (IF b <= n THEN n - b + 1 ELSE 0) = m /\ \A i \in 1 .. m : u[i] = w[a + i]
  <2>1. \A i \in 1 .. n - b + 1 : u[i] = w[b + i - 1]
    BY <1>2, Zenon
  <2> QED BY <1>b, <1>m, <2>1, SubShape
<1>4. Len(u) = m
  BY <1>2, <1>3, Zenon
<1>5. SubOf(u, w, a, m)
  BY <1>2, <1>3, <1>4, Zenon DEF SubOf
<1>6. u = SubSeq(w, a + 1, n)
  BY <1>b, <1>u, Zenon
<1> QED BY <1>5, <1>6, <1>m, Zenon

LEMMA JoinIs ==
    ASSUME NEW a \in Seq(Int), NEW b \in Seq(Int), NEW u, u = a \o b
    PROVE  /\ u \in Seq(Int) /\ Len(u) = Len(a) + Len(b)
           /\ \A i \in 1 .. Len(a) + Len(b) : u[i] = IF i <= Len(a) THEN a[i] ELSE b[i - Len(a)]
BY ConcatProperties

Joins(w, gone, k, n, a, b, u) ==
    /\ gone \in Nat /\ k \in Nat /\ n \in Nat /\ gone + k <= n
    /\ \A i \in 1 .. gone : a[i] = w[i]
    /\ \A i \in 1 .. n - gone - k : b[i] = w[gone + k + i]
    /\ \A i \in 1 .. n - k : u[i] = IF i <= gone THEN a[i] ELSE b[i - gone]

LEMMA DroppedShape ==
    ASSUME NEW w, NEW gone, NEW k, NEW n, NEW a, NEW b, NEW u, Joins(w, gone, k, n, a, b, u)
    PROVE  \A i \in 1 .. n - k : u[i] = w[IF i <= gone THEN i ELSE i + k]
<1> USE DEF Joins
<1> TAKE i \in 1 .. n - k
<1>1. CASE i <= gone
  <2>1. i \in 1 .. gone
    BY <1>1
  <2> QED BY <1>1, <2>1
<1>2. CASE ~(i <= gone)
  <2>j. PICK j : j = i - gone
    OBVIOUS
  <2>1. j \in 1 .. n - gone - k /\ gone + k + j = i + k
    BY <1>2, <2>j
  <2>2. b[j] = w[i + k]
    BY <2>1
  <2>3. u[i] = b[j]
    BY <1>2, <2>j
  <2> QED BY <1>2, <2>2, <2>3
<1> QED BY <1>1, <1>2

Rest(w, gone, len) == SubSeq(w, 1, gone) \o SubSeq(w, gone + len + 1, Len(w))

LEMMA DroppedIs ==
    ASSUME NEW w \in Seq(Int), NEW gone \in Nat, NEW len \in Nat, NEW t, PartOf(t, w, gone, len)
    PROVE  Rest(w, gone, len) \in Seq(Int) /\ TakenOut(w, Rest(w, gone, len), t, gone)
<1>u. PICK u : u = Rest(w, gone, len)
  OBVIOUS
<1>1. /\ t \in Seq(Int) /\ Len(t) \in Nat /\ Len(w) \in Nat /\ DOMAIN t = 1 .. Len(t) /\ DOMAIN w = 1 .. Len(w)
      /\ Len(t) <= len /\ gone + Len(t) <= Len(w) /\ \A i \in 1 .. Len(t) : t[i] = w[gone + i]
      /\ Len(t) = len \/ (gone = 0 /\ Len(t) = Len(w))
  <2>1. /\ t \in Seq(Int) /\ Len(t) <= len /\ gone + Len(t) <= Len(w)
        /\ \A i \in 1 .. Len(t) : t[i] = w[gone + i]
        /\ Len(t) = len \/ (gone = 0 /\ Len(t) = Len(w))
    BY Zenon DEF PartOf
  <2>2. Len(t) \in Nat /\ DOMAIN t = 1 .. Len(t)
    BY <2>1
  <2>3. Len(w) \in Nat /\ DOMAIN w = 1 .. Len(w)
    OBVIOUS
  <2> QED BY <2>1, <2>2, <2>3, Zenon
<1>n. PICK n : n = Len(w)
  OBVIOUS
<1>k. PICK k : k = Len(t)
  OBVIOUS
<1>2. n \in Nat /\ k \in Nat /\ gone + k <= n /\ k <= len /\ (k = len \/ (gone = 0 /\ k = n))
  BY <1>1, <1>n, <1>k
<1>a. PICK a : a = SubSeq(w, 1, gone)
  OBVIOUS
<1>b. PICK b : b = SubSeq(w, gone + len + 1, n)
  OBVIOUS
<1>3. a \in Seq(Int) /\ Len(a) = gone /\ \A i \in 1 .. gone : a[i] = w[i]
  <2>1. 0 \in Nat /\ gone <= Len(w) /\ 0 + 1 = 1 /\ gone = IF 0 <= gone THEN gone - 0 ELSE 0
    BY <1>2, <1>n
  <2>2. SubOf(SubSeq(w, 0 + 1, gone), w, 0, IF 0 <= gone THEN gone - 0 ELSE 0)
    BY <2>1, SubIs
  <2>3. SubOf(a, w, 0, gone)
    BY <1>a, <2>1, <2>2, Zenon
  <2>4. \A i \in 1 .. gone : 0 + i = i
    OBVIOUS
  <2> QED BY <2>3, <2>4, Zenon DEF SubOf
<1>4. b \in Seq(Int) /\ Len(b) = n - gone - k /\ \A i \in 1 .. n - gone - k : b[i] = w[gone + k + i]
  <2>x. PICK x : x = gone + len
    OBVIOUS
  <2>m. PICK m : m = n - gone - k
    OBVIOUS
  <2>1. x \in Nat /\ m \in Nat /\ m = (IF x <= n THEN n - x ELSE 0) /\ (m # 0 => x = gone + k) /\ n <= Len(w)
    BY <1>2, <1>n, <2>x, <2>m, SMTT(30)
  <2>2. SubOf(SubSeq(w, x + 1, n), w, x, IF x <= n THEN n - x ELSE 0)
    BY <1>2, <2>1, SubIs
  <2>3. SubOf(b, w, x, m)
    BY <1>b, <2>x, <2>1, <2>2, Zenon
  <2>4. b \in Seq(Int) /\ Len(b) = m /\ \A i \in 1 .. m : b[i] = w[x + i]
    BY <2>3, Zenon DEF SubOf
  <2>5. \A i \in 1 .. m : w[x + i] = w[gone + k + i]
    BY <2>1
  <2> QED BY <2>4, <2>5, <2>m, Zenon
<1>5. u = a \o b
  BY <1>a, <1>b, <1>n, <1>u DEF Rest
<1>6. u \in Seq(Int) /\ Len(u) = n - k
      /\ \A i \in 1 .. n - k : u[i] = IF i <= gone THEN a[i] ELSE b[i - gone]
  <2>1. /\ u \in Seq(Int) /\ Len(u) = Len(a) + Len(b)
        /\ \A i \in 1 .. Len(a) + Len(b) : u[i] = IF i <= Len(a) THEN a[i] ELSE b[i - Len(a)]
    BY <1>3, <1>4, <1>5, JoinIs, ZenonT(40)
  <2>2. Len(a) + Len(b) = n - k
    BY <1>2, <1>3, <1>4
  <2> QED BY <1>3, <2>1, <2>2, Zenon
<1>7. \A i \in 1 .. n - k : u[i] = w[IF i <= gone THEN i ELSE i + k]
  <2>1. Joins(w, gone, k, n, a, b, u)
    BY <1>2, <1>3, <1>4, <1>6, Zenon DEF Joins
  <2> QED BY <2>1, DroppedShape
<1>8. /\ Len(u) \in Nat /\ Len(u) = n - k /\ 1 .. n - k = 1 .. Len(u) /\ DOMAIN u = 1 .. Len(u)
      /\ gone \in 0 .. Len(u) /\ 1 .. n = 1 .. Len(u) + k
  <2>x. PICK x : x = Len(u)
    OBVIOUS
  <2>1. x = n - k /\ DOMAIN u = 1 .. x
    BY <1>6, <2>x
  <2>2. x \in Nat /\ gone \in 0 .. x /\ x + k = n
    BY <1>2, <2>1
  <2> QED BY <2>x, <2>1, <2>2
<1>9. TakenOut(w, u, t, gone)
  <2>1. DOMAIN w = 1 .. Len(u) + Len(t)
    BY <1>1, <1>8, <1>n, <1>k, Zenon
  <2>2. \A i \in 1 .. Len(u) : u[i] = w[IF i <= gone THEN i ELSE i + Len(t)]
    BY <1>7, <1>8, <1>k, Zenon
  <2> QED BY <1>1, <1>8, <2>1, <2>2, Zenon DEF TakenOut
<1> QED BY <1>6, <1>9, <1>u, Zenon

PreparedAs(h, f, r, gone, len, p) ==
    \E o, k, c : /\ p = [ref |-> o, heap |-> k]
                 /\ Changed(h, f, o, c, Stretch(View(h)[r], gone, len), k) /\ c.len = len
                 /\ c.start = 0 \/ (o = r /\ h[r].refs = 1 /\ c.start = h[r].start + gone)
Fitting(h, r, gone, len) ==
    /\ gone \in Nat /\ len \in 0 .. MaxLen /\ (gone = 0 \/ gone + len <= h[r].len)
    /\ h[r].refs > 1 \/ h[r].start + gone = 0 \/ h[r].start + gone + len <= h[r].size
    /\ Moves(h[r], h[r].start + gone, len) => \E n \in Refs : h[n] = Free

Fresh(size, begin, len, refs, t) ==
    [start |-> begin, len |-> len, size |-> size, refs |-> refs, el |-> Array(size, begin, t)]

LEMMA OnFacts ==
    ASSUME NEW h, NEW f, NEW r, On(h, f, r)
    PROVE  /\ Heaped(h, Plus(f, r)) /\ r \in Refs /\ f \in [Refs -> Nat] /\ Lasts(h[r])
           /\ h[r].refs \in Nat \ {0} /\ h[r].len \in 0 .. MaxLen /\ h[r].start \in Nat /\ h[r].size \in Nat
           /\ h[r].start + h[r].len <= h[r].size
           /\ View(h)[r] = Window(h[r]) /\ View(h)[r] \in Seq(Int) /\ Len(View(h)[r]) = h[r].len
           /\ DOMAIN h = Refs
<1>e. PICK e : e = Plus(f, r)
  OBVIOUS
<1>1. Heaped(h, e) /\ r \in Refs /\ f \in [Refs -> Nat]
  BY <1>e DEF On
<1>2. e[r] = f[r] + 1 /\ f[r] \in Nat
  BY <1>1, <1>e DEF Plus
<1>3. /\ Lasts(h[r]) /\ h[r].refs \in Nat /\ e[r] <= h[r].refs
      /\ h[r].len \in 0 .. MaxLen /\ DOMAIN h = Refs
      /\ View(h)[r] = Window(h[r]) /\ View(h)[r] \in Seq(Int) /\ Len(View(h)[r]) = h[r].len
  BY <1>1, HeapFacts
<1>4. h[r].refs # 0
  BY <1>2, <1>3
<1>5. h[r].start \in Nat /\ h[r].size \in Nat /\ h[r].start + h[r].len <= h[r].size
  BY <1>3 DEF Lasts
<1> QED BY <1>1, <1>3, <1>4, <1>5, <1>e, Zenon

NewSize(c, start, len) == IF NeedsResize(c, start, len) THEN SizeFor(len) ELSE c.size

LEMMA PrepareIs ==
    ASSUME NEW h, NEW r, NEW start, NEW len
    PROVE  /\ Moves(h[r], start, len) =>
              \E n : /\ n = CHOOSE q \in Refs : h[q] = Free
                     /\ prepare_to_modify(h, r, start, len)
                        = [ref |-> n,
                           heap |-> data_discard(PutIn(data_dup(h, Stay(h[r], start, len)), n,
                                        Fresh(SizeFor(len), 0, len, 1, Stay(h[r], start, len))), <<-r>>)]
           /\ ~Moves(h[r], start, len) =>
              prepare_to_modify(h, r, start, len)
                 = [ref |-> r,
                    heap |-> PutIn(data_discard(h, Dropped(h[r], start, len)), r,
                                Fresh(NewSize(h[r], start, len), start, len, h[r].refs,
                                      Stay(h[r], start, len)))]
<1>1. CASE Moves(h[r], start, len)
  BY <1>1, Zenon DEF prepare_to_modify, PutIn, Fresh, Stay
<1>2. CASE ~Moves(h[r], start, len)
  BY <1>2, Zenon DEF prepare_to_modify, PutIn, Fresh, Stay, NewSize
<1> QED BY <1>1, <1>2

LEMMA FreshIs ==
    ASSUME NEW t \in Seq(Int), NEW size \in Nat, NEW a \in Nat, NEW l \in 0 .. MaxLen, a + l <= size,
           Len(t) <= l
    PROVE  /\ WholeList(Fresh(size, a, l, 1, t), Window(Fresh(size, a, l, 1, t)))
           /\ Padded(Window(Fresh(size, a, l, 1, t)), t) /\ Len(Window(Fresh(size, a, l, 1, t))) = l
           /\ Fresh(size, a, l, 1, t).len = l /\ Fresh(size, a, l, 1, t).start = a
<1>c. PICK c : c = Fresh(size, a, l, 1, t)
  OBVIOUS
<1>1. c = [start |-> a, len |-> l, size |-> size, refs |-> 1, el |-> Array(size, a, t)]
  BY <1>c DEF Fresh
<1>2. c.len = l /\ c.start = a /\ c.refs = 1
  BY <1>1
<1>3. Lasts(c) /\ Padded(Window(c), t) /\ Len(Window(c)) = l
  BY <1>1, ArrayIs
<1> QED BY <1>2, <1>3, <1>c, Zenon DEF WholeList

LEMMA Prepared ==
    ASSUME NEW h, NEW f, NEW r, On(h, f, r), NEW gone, NEW len, Fitting(h, r, gone, len)
    PROVE  PreparedAs(h, f, r, gone, len, prepare_to_modify(h, r, h[r].start + gone, len))
<1>b. PICK b : b = h[r]
  OBVIOUS
<1>w. PICK w : w = View(h)[r]
  OBVIOUS
<1>a. PICK a : a = h[r].start + gone
  OBVIOUS
<1>t. PICK t : t = Stay(b, a, len)
  OBVIOUS
<1>p. PICK p : p = prepare_to_modify(h, r, a, len)
  OBVIOUS
<1>1. /\ Heaped(h, Plus(f, r)) /\ r \in Refs /\ f \in [Refs -> Nat] /\ Lasts(b)
      /\ b.refs \in Nat \ {0} /\ b.len \in 0 .. MaxLen /\ b.start \in Nat /\ b.size \in Nat
      /\ b.start + b.len <= b.size /\ w = Window(b) /\ w \in Seq(Int) /\ Len(w) = b.len /\ DOMAIN h = Refs
  BY <1>b, <1>w, OnFacts, Zenon
<1>2. /\ gone \in Nat /\ len \in 0 .. MaxLen /\ (gone = 0 \/ gone + len <= b.len)
      /\ b.refs > 1 \/ a = 0 \/ a + len <= b.size
      /\ Moves(b, a, len) => \E n \in Refs : h[n] = Free
  BY <1>a, <1>b, Zenon DEF Fitting
<1>3. len \in Nat /\ len <= MaxLen /\ MaxLen \in Nat /\ a \in Nat /\ a = b.start + gone
  BY <1>1, <1>2, <1>a, <1>b, RefsAre, SMTT(30)
<1>4. PartOf(t, w, gone, len)
  <2>1. PartOf(Stay(b, a, len), Window(b), gone, len)
    BY <1>1, <1>2, <1>3, StayIs
  <2> QED BY <1>1, <1>t, <2>1, Zenon
<1>5. t \in Seq(Int) /\ Len(t) <= len /\ gone + Len(t) <= Len(w) /\ \A i \in 1 .. Len(t) : t[i] = w[gone + i]
  BY <1>4, Zenon DEF PartOf
<1>6. SizeFor(len) \in Nat /\ len <= SizeFor(len)
  BY <1>2, SizeForIs
<1>s. PICK s : s = Stretch(w, gone, len)
  OBVIOUS
<1>7. ASSUME NEW size \in Nat, NEW x \in Nat, x + len <= size
      PROVE  /\ WholeList(Fresh(size, x, len, 1, t), s) /\ Padded(s, t) /\ Len(s) = len
             /\ Fresh(size, x, len, 1, t).len = len /\ Fresh(size, x, len, 1, t).start = x
  <2>c. PICK c : c = Fresh(size, x, len, 1, t)
    OBVIOUS
  <2>1. WholeList(c, Window(c)) /\ Padded(Window(c), t) /\ Len(Window(c)) = len /\ c.len = len /\ c.start = x
    BY <1>2, <1>5, <1>7, <2>c, FreshIs
  <2>2. Window(c) = s
    BY <1>1, <1>2, <1>3, <1>4, <1>s, <2>1, PieceIs
  <2> QED BY <2>1, <2>2, <2>c, Zenon
<1>8. CASE Moves(b, a, len)
  <2>c. PICK c : c = Fresh(SizeFor(len), 0, len, 1, t)
    OBVIOUS
  <2>n. PICK n : n = CHOOSE q \in Refs : h[q] = Free
    OBVIOUS
  <2>k. PICK k : k = data_discard(PutIn(data_dup(h, t), n, c), <<-r>>)
    OBVIOUS
  <2>1. p = [ref |-> n, heap |-> k]
    BY <1>8, <1>b, <1>t, <1>p, <2>c, <2>n, <2>k, PrepareIs, ZenonT(40)
  <2>2. n \in Refs /\ h[n] = Free
    BY <1>2, <1>8, <2>n
  <2>3. WholeList(c, s) /\ Padded(s, t) /\ c.len = len /\ c.start = 0
    <3>1. 0 \in Nat /\ 0 + len <= SizeFor(len)
      BY <1>3, <1>6
    <3> QED BY <1>6, <1>7, <2>c, <3>1, Zenon
  <2>4. \A i \in 1 .. Len(t) : \E j \in 1 .. Len(View(h)[r]) : t[i] = View(h)[r][j]
    <3> TAKE i \in 1 .. Len(t)
    <3>j. PICK j : j = gone + i
      OBVIOUS
    <3>1. Len(t) \in Nat /\ Len(w) \in Nat /\ j \in Nat /\ 1 <= j /\ j <= Len(w)
      <4>k. PICK k1, l1 : k1 = Len(t) /\ l1 = Len(w)
        OBVIOUS
      <4>1. k1 \in Nat /\ l1 \in Nat
        BY <1>1, <1>5, <4>k
      <4>2. gone + k1 <= l1 /\ i \in 1 .. k1 /\ gone \in Nat
        BY <1>2, <1>5, <4>k
      <4>3. j \in Nat /\ 1 <= j /\ j <= l1
        BY <3>j, <4>1, <4>2
      <4> QED BY <4>1, <4>3, <4>k
    <3>2. j \in 1 .. Len(w) /\ t[i] = w[j]
      BY <1>5, <3>1, <3>j
    <3> QED BY <1>w, <3>2
  <2>5. Changed(h, f, n, c, s, k)
    BY <1>5, <2>2, <2>3, <2>4, <2>k, Copied
  <2> QED BY <1>a, <1>p, <1>s, <1>w, <2>1, <2>3, <2>5, Zenon DEF PreparedAs
<1>9. CASE ~Moves(b, a, len)
  <2>z. PICK z : z = NewSize(b, a, len)
    OBVIOUS
  <2>c. PICK c : c = Fresh(z, a, len, 1, t)
    OBVIOUS
  <2>u. PICK u : u = Rest(w, gone, len)
    OBVIOUS
  <2>k. PICK k : k = PutIn(data_discard(h, u), r, c)
    OBVIOUS
  <2>0. ~(b.refs > 1) /\ (~NeedsResize(b, a, len) \/ ~(a > 0))
    BY <1>9 DEF Moves
  <2>1. b.refs = 1
    BY <1>1, <2>0
  <2>2. u = Dropped(b, a, len)
    <3>1. a - b.start = gone
      BY <1>1, <1>2, <1>3
    <3>2. Dropped(b, a, len) = SubSeq(w, 1, gone) \o SubSeq(w, gone + len + 1, b.len)
      BY <1>1, <3>1, Zenon DEF Dropped
    <3> QED BY <1>1, <2>u, <3>2, Zenon DEF Rest
  <2>3. p = [ref |-> r, heap |-> k]
    <3>1. p = [ref |-> r,
               heap |-> PutIn(data_discard(h, Dropped(b, a, len)), r,
                              Fresh(NewSize(b, a, len), a, len, b.refs, Stay(b, a, len)))]
      BY <1>9, <1>b, <1>p, PrepareIs, Zenon
    <3>2. c = Fresh(NewSize(b, a, len), a, len, b.refs, Stay(b, a, len))
      BY <1>t, <2>z, <2>c, <2>1, Zenon
    <3> QED BY <2>2, <2>k, <3>1, <3>2, Zenon
  <2>4. z \in Nat /\ a + len <= z
    <3>1. CASE NeedsResize(b, a, len)
      <4>1. a = 0 /\ z = SizeFor(len)
        BY <1>3, <2>0, <2>z, <3>1 DEF NewSize
      <4> QED BY <1>3, <1>6, <4>1
    <3>2. CASE ~NeedsResize(b, a, len)
      <4>1. z = b.size /\ ~(b.size < len)
        BY <2>z, <3>2 DEF NeedsResize, NewSize
      <4> QED BY <1>1, <1>2, <1>3, <2>1, <4>1
    <3> QED BY <3>1, <3>2
  <2>5. WholeList(c, s) /\ Padded(s, t) /\ Len(s) = len /\ c.len = len /\ c.start = a
    BY <1>3, <1>7, <2>4, <2>c, Zenon
  <2>6. Alone(h, f, r)
    BY <1>b, <2>1 DEF Alone
  <2>7. u \in Seq(Int) /\ TakenOut(w, u, t, gone)
    BY <1>1, <1>2, <1>3, <1>4, <2>u, DroppedIs
  <2>8. \A q \in Refs : Occurrences(-q, View(h)[r]) = Occurrences(-q, s) + Occurrences(-q, u)
    <3> TAKE q \in Refs
    <3>1. Occurrences(-q, w) = Occurrences(-q, u) + Occurrences(-q, t)
          /\ Occurrences(-q, u) \in Nat /\ Occurrences(-q, t) \in Nat
      BY <2>7, OccTakenOut
    <3>2. Occurrences(-q, s) = Occurrences(-q, t)
      BY <2>5, OccPadded, MinusIs
    <3> QED BY <1>w, <3>1, <3>2
  <2>9. Fills(View(h), r, s)
    <3>1. Nowhere(View(h), r)
      BY <2>6, AloneFacts
    <3>2. \A i \in 1 .. Len(w) : Datum(View(h), w[i]) /\ w[i] # -r
      BY <1>1, <1>w, <3>1 DEF Heaped, Sound, Nowhere
    <3>3. s = [i \in 1 .. len |-> IF gone + i <= Len(w) THEN w[gone + i] ELSE 0]
      BY <1>s DEF Stretch
    <3>4. ASSUME NEW i \in 1 .. len PROVE Datum(View(h), s[i]) /\ s[i] # -r
      <4>1. CASE gone + i <= Len(w)
        <5>1. gone + i \in 1 .. Len(w) /\ s[i] = w[gone + i]
          BY <1>1, <1>2, <3>3, <4>1
        <5> QED BY <3>2, <5>1
      <4>2. CASE ~(gone + i <= Len(w))
        <5>1. s[i] = 0
          BY <3>3, <4>2
        <5>2. -r # 0
          BY <1>1, MinusIs
        <5> QED BY <5>1, <5>2 DEF Datum
      <4> QED BY <4>1, <4>2
    <3>5. s \in Seq(Int) /\ Len(s) <= MaxLen
      BY <1>3, <2>5 DEF Padded
    <3> QED BY <2>5, <3>4, <3>5 DEF Fills
  <2>10. Changed(h, f, r, c, s, k)
    BY <2>5, <2>6, <2>7, <2>8, <2>9, <2>k, Impoverished
  <2> QED BY <1>a, <1>b, <1>p, <1>s, <1>w, <2>1, <2>3, <2>5, <2>10, Zenon DEF PreparedAs
<1> QED BY <1>8, <1>9

WithEl(c, m) == [c EXCEPT !.el = m]
Written(m, at, d) == [j \in DOMAIN m |-> IF j = at THEN d ELSE m[j]]

LEMMA WithElIs ==
    ASSUME NEW c, Lasts(c), NEW m, m \in [0 .. c.size - 1 -> Int]
    PROVE  /\ Lasts(WithEl(c, m)) /\ WithEl(c, m).start = c.start /\ WithEl(c, m).len = c.len
           /\ WithEl(c, m).size = c.size /\ WithEl(c, m).refs = c.refs /\ WithEl(c, m).el = m
           /\ \A n : WithEl(WithEl(c, m), n) = WithEl(c, n)
           /\ WithEl(c, c.el) = c
<1>1. PICK a, l, z, k, b : c = [start |-> a, len |-> l, size |-> z, refs |-> k, el |-> b]
  BY Zenon DEF Lasts
<1>2. \A n : WithEl(c, n) = [start |-> a, len |-> l, size |-> z, refs |-> k, el |-> n]
  BY <1>1 DEF WithEl
<1>3. WithEl(c, m) = [start |-> a, len |-> l, size |-> z, refs |-> k, el |-> m]
  BY <1>2, Zenon
<1>4. \A n : WithEl(WithEl(c, m), n) = [start |-> a, len |-> l, size |-> z, refs |-> k, el |-> n]
  <2>x. PICK x : x = [start |-> a, len |-> l, size |-> z, refs |-> k, el |-> m]
    OBVIOUS
  <2>1. \A n : [x EXCEPT !.el = n] = [start |-> a, len |-> l, size |-> z, refs |-> k, el |-> n]
    BY <2>x
  <2> QED BY <1>3, <2>x, <2>1, Zenon DEF WithEl
<1>5. \A n : WithEl(WithEl(c, m), n) = WithEl(c, n)
  BY <1>2, <1>4, Zenon
<1>6. WithEl(c, c.el) = c
  <2>1. c.el = b
    BY <1>1
  <2>2. WithEl(c, b) = [start |-> a, len |-> l, size |-> z, refs |-> k, el |-> b]
    BY <1>2, Zenon
  <2>3. WithEl(c, b) = c
    BY <1>1, <2>2
  <2> QED BY <2>1, <2>3
<1>7. c.start = a /\ c.len = l /\ c.size = z /\ c.refs = k
  BY <1>1
<1>x. PICK x : x = WithEl(c, m)
  OBVIOUS
<1>8. x = [start |-> a, len |-> l, size |-> z, refs |-> k, el |-> m]
  BY <1>3, <1>x, Zenon
<1>9. x.start = a /\ x.len = l /\ x.size = z /\ x.refs = k /\ x.el = m
      /\ x = [start |-> x.start, len |-> x.len, size |-> x.size, refs |-> x.refs, el |-> x.el]
  BY <1>8
<1>10. Lasts(x)
  <2>1. /\ c.start \in Nat /\ c.len \in 0 .. MaxLen /\ c.size \in Nat /\ c.refs \in Nat
        /\ c.start + c.len <= c.size
    BY Zenon DEF Lasts
  <2>2. x.start = c.start /\ x.len = c.len /\ x.size = c.size /\ x.refs = c.refs /\ x.el = m
    BY <1>7, <1>9, Zenon
  <2> QED BY <1>9, <2>1, <2>2, Zenon DEF Lasts
<1> QED BY <1>5, <1>6, <1>7, <1>9, <1>10, <1>x, Zenon

(* Write: a counted copy of d is stored in the array of the list at o.       *)
LEMMA WriteIs ==
    ASSUME NEW j, DOMAIN j = Refs, NEW o \in Refs, NEW d, d # -o, NEW g, DOMAIN g = Refs,
           \A q \in Refs : q # o => g[q] = j[q],
           Lasts(j[o]), NEW at, NEW p, p = [ref |-> o, heap |-> j]
    PROVE  Write(p, at, d)
           = [ref |-> o, heap |-> PutIn(data_dup(g, <<d>>), o, WithEl(j[o], Written(j[o].el, at, d)))]
<1>c. PICK c : c = j[o]
  OBVIOUS
<1>u. PICK u : u = data_dup(j, <<d>>)
  OBVIOUS
<1>v. PICK v : v = data_dup(g, <<d>>)
  OBVIOUS
<1>1. DOMAIN u = Refs /\ DOMAIN v = Refs
      /\ \A q \in Refs : u[q] = Recount(j[q], j[q].refs + Occurrences(-q, <<d>>))
      /\ \A x \in Refs : v[x] = Recount(g[x], g[x].refs + Occurrences(-x, <<d>>))
  BY <1>u, <1>v DEF data_dup, Recount
<1>2. u[o] = c
  <2>1. Occurrences(-o, <<d>>) = 0
    BY OccOne
  <2>2. Lasts(c) /\ c.refs \in Nat
    BY <1>c DEF Lasts
  <2>3. c.refs + Occurrences(-o, <<d>>) = c.refs
    BY <2>1, <2>2
  <2>4. u[o] = Recount(c, c.refs)
    BY <1>1, <1>c, <2>3, Zenon
  <2> QED BY <2>2, <2>4, SameRecount, Zenon
<1>3. ASSUME NEW q \in Refs, q # o PROVE u[q] = v[q]
  <2>1. g[q] = j[q]
    BY <1>3
  <2> QED BY <1>1, <2>1, Zenon
<1>n. PICK n : n = WithEl(c, Written(c.el, at, d))
  OBVIOUS
<1>4. [u EXCEPT ![o].el = [i \in DOMAIN @ |-> IF i = at THEN d ELSE @[i]]] = PutIn(u, o, n)
  <2>1. [u EXCEPT ![o].el = [i \in DOMAIN @ |-> IF i = at THEN d ELSE @[i]]]
        = [u EXCEPT ![o] = [u[o] EXCEPT !.el = Written(u[o].el, at, d)]]
    BY Zenon DEF Written
  <2> QED BY <1>2, <1>n, <2>1, Zenon DEF PutIn, WithEl
<1>5. PutIn(u, o, n) = PutIn(v, o, n)
  <2>x. PICK x, y : x = PutIn(u, o, n) /\ y = PutIn(v, o, n)
    OBVIOUS
  <2>1. x = [q \in Refs |-> IF q = o THEN n ELSE u[q]] /\ y = [q \in Refs |-> IF q = o THEN n ELSE v[q]]
    BY <1>1, <2>x DEF PutIn
  <2>2. \A q \in Refs : (IF q = o THEN n ELSE u[q]) = (IF q = o THEN n ELSE v[q])
    BY <1>3
  <2>3. x = y
    BY <2>1, <2>2
  <2> QED BY <2>3, <2>x, Zenon
<1>6. \A z : [p EXCEPT !.heap = z] = [ref |-> o, heap |-> z]
  OBVIOUS
<1>7. p.ref = o /\ p.heap = j
  OBVIOUS
<1>8. Write(p, at, d) = [p EXCEPT !.heap = [u EXCEPT ![o].el = [i \in DOMAIN @ |-> IF i = at THEN d ELSE @[i]]]]
  BY <1>7, <1>u, Zenon DEF Write
<1> QED BY <1>4, <1>5, <1>6, <1>8, <1>c, <1>n, <1>v, Zenon

(* What another place outside of lists holds stays, and its elements.        *)
Kind(h, f, d) == \E y \in Refs : f[y] > 0 /\ \E i \in 1 .. Len(View(h)[y]) : View(h)[y][i] = d
Held(h, f, d) == Datum(View(h), d) /\ (d < 0 => f[-d] > 0 \/ Kind(h, f, d))

LEMMA HeldStays ==
    ASSUME NEW h, NEW f, NEW o, NEW c, NEW s, NEW k, Changed(h, f, o, c, s, k), NEW x \in Refs, f[x] > 0
    PROVE  /\ x # o /\ k[x].refs # 0 /\ h[x].refs # 0 /\ View(k)[x] = View(h)[x]
           /\ \A i \in 1 .. Len(View(h)[x]) : Live(k, View(h)[x][i]) /\ View(h)[x][i] # -o
<1>1. Alone(k, f, o) /\ Kept(h, k, o)
  BY Zenon DEF Changed
<1>e. PICK e : e = Plus(f, o)
  OBVIOUS
<1>2. Heaped(k, e) /\ f \in [Refs -> Nat] /\ f[o] = 0 /\ o \in Refs /\ Nowhere(View(k), o)
  BY <1>1, <1>e, AloneFacts
<1>3. x # o
  BY <1>2
<1>4. e[x] = f[x] /\ f[x] \in Nat
  BY <1>2, <1>3, <1>e DEF Plus
<1>5. k[x].refs \in Nat /\ e[x] <= k[x].refs
  BY <1>2, HeapFacts
<1>6. k[x].refs # 0
  BY <1>4, <1>5
<1>7. h[x].refs # 0 /\ View(k)[x] = View(h)[x]
  BY <1>1, <1>3, <1>6, Zenon DEF Kept
<1>8. \A i \in 1 .. Len(View(k)[x]) : Live(k, View(k)[x][i]) /\ View(k)[x][i] # -o
  <2>1. \A i \in 1 .. Len(View(k)[x]) : Live(k, View(k)[x][i])
    BY <1>2, ElementLives
  <2> QED BY <1>2, <2>1, Zenon DEF Nowhere
<1> QED BY <1>3, <1>6, <1>7, <1>8, Zenon

LEMMA HeldDatum ==
    ASSUME NEW h, NEW f, NEW o, NEW c, NEW s, NEW k, Changed(h, f, o, c, s, k), NEW d, Held(h, f, d)
    PROVE  Live(k, d) /\ d # -o
<1>0. d \in Int
  BY DEF Held, Datum
<1>1. CASE d < 0 /\ f[-d] > 0
  <2>x. PICK x : x = -d
    OBVIOUS
  <2>a. -d \in Refs /\ Even(View(h), -d) /\ f[-d] > 0
    BY <1>1, Zenon DEF Held, Datum
  <2>1. x \in Refs /\ Even(View(h), x) /\ f[x] > 0
    BY <2>a, <2>x, Zenon
  <2>2. x # o /\ k[x].refs # 0 /\ View(k)[x] = View(h)[x]
    BY <2>1, HeldStays
  <2>3. Even(View(k), x)
    BY <2>1, <2>2, Zenon DEF Even
  <2>4. d # -o
    <3>1. o \in Refs
      BY AloneFacts, Zenon DEF Changed
    <3> QED BY <1>0, <2>1, <2>2, <2>x, <3>1, MinusIs
  <2> QED BY <1>0, <2>1, <2>2, <2>3, <2>4, <2>x DEF Live, Datum
<1>2. CASE Kind(h, f, d)
  <2>1. PICK y \in Refs : f[y] > 0 /\ \E i \in 1 .. Len(View(h)[y]) : View(h)[y][i] = d
    BY <1>2, Zenon DEF Kind
  <2>2. PICK i \in 1 .. Len(View(h)[y]) : View(h)[y][i] = d
    BY <2>1
  <2>3. \A n \in 1 .. Len(View(h)[y]) : Live(k, View(h)[y][n]) /\ View(h)[y][n] # -o
    BY <2>1, HeldStays
  <2> QED BY <2>2, <2>3, Zenon
<1>3. CASE ~(d < 0)
  <2>1. Datum(View(k), d)
    BY <1>0, <1>3 DEF Datum
  <2>2. d # -o
    <3>1. o \in Refs
      BY AloneFacts, Zenon DEF Changed
    <3> QED BY <1>3, <3>1, MinusIs
  <2> QED BY <1>3, <2>1, <2>2 DEF Live
<1> QED BY <1>1, <1>2, <1>3 DEF Held

LEMMA ChangedTwice ==
    ASSUME NEW h, NEW f, NEW o, NEW c, NEW s, NEW k, Changed(h, f, o, c, s, k),
           NEW b, NEW t, NEW l, Changed(k, f, o, b, t, l)
    PROVE  Changed(h, f, o, b, t, l)
<1>1. Kept(h, k, o) /\ Kept(k, l, o)
  BY Zenon DEF Changed
<1>2. Kept(h, l, o)
  <2> SUFFICES ASSUME NEW q \in Refs, q # o, l[q].refs # 0
               PROVE  h[q].refs # 0 /\ View(l)[q] = View(h)[q]
    BY Zenon DEF Kept
  <2>1. k[q].refs # 0 /\ View(l)[q] = View(k)[q]
    BY <1>1, Zenon DEF Kept
  <2>2. h[q].refs # 0 /\ View(k)[q] = View(h)[q]
    BY <1>1, <2>1, Zenon DEF Kept
  <2> QED BY <2>1, <2>2, Zenon
<1> QED BY <1>2, Zenon DEF Changed

LEMMA Unchanged ==
    ASSUME NEW h, NEW f, NEW o, Alone(h, f, o)
    PROVE  Changed(h, f, o, h[o], View(h)[o], h)
BY Zenon DEF Changed, Kept

LEMMA ChangedFacts ==
    ASSUME NEW h, NEW f, NEW o, NEW c, NEW s, NEW k, Changed(h, f, o, c, s, k)
    PROVE  /\ Alone(k, f, o) /\ On(k, f, o) /\ View(k)[o] = s /\ k[o] = c /\ o \in Refs /\ Lasts(c)
           /\ c.refs = 1 /\ c.len = Len(s) /\ s \in Seq(Int) /\ Len(s) <= MaxLen /\ Window(c) = s
           /\ c.start \in Nat /\ c.size \in Nat /\ c.start + c.len <= c.size /\ f \in [Refs -> Nat]
           /\ c.el \in [0 .. c.size - 1 -> Int] /\ \A i \in 1 .. Len(s) : s[i] = c.el[c.start + i - 1]
           /\ DOMAIN k = Refs /\ Fills(View(k), o, s)
<1>1. Alone(k, f, o) /\ View(k)[o] = s /\ k[o] = c
  BY Zenon DEF Changed
<1>2. On(k, f, o) /\ c.refs = 1
  BY <1>1 DEF Alone
<1>3. /\ o \in Refs /\ f \in [Refs -> Nat] /\ Lasts(c) /\ c.start \in Nat /\ c.size \in Nat
      /\ c.start + c.len <= c.size /\ s = Window(c) /\ s \in Seq(Int) /\ Len(s) = c.len /\ DOMAIN k = Refs
      /\ c.len \in 0 .. MaxLen /\ Heaped(k, Plus(f, o))
  BY <1>1, <1>2, OnFacts
<1>4. c.el \in [0 .. c.size - 1 -> Int]
  BY <1>3, Zenon DEF Lasts
<1>5. \A i \in 1 .. c.len : Window(c)[i] = c.el[c.start + i - 1]
  BY <1>3, WindowIs
<1>6. Len(s) <= MaxLen
  BY <1>3, RefsAre
<1>7. Nowhere(View(k), o)
  BY <1>1, AloneFacts
<1>8. \A i \in 1 .. Len(s) : Datum(View(k), s[i]) /\ s[i] # -o
  BY <1>1, <1>3, <1>7, Zenon DEF Heaped, Sound, Nowhere
<1>9. Fills(View(k), o, s)
  BY <1>3, <1>6, <1>8, Zenon DEF Fills
<1> QED BY <1>1, <1>2, <1>3, <1>4, <1>5, <1>6, <1>9, Zenon

(* One element of the array is written after the others were moved.          *)
Editable(k, f, o, m, at, d, s) ==
    /\ Alone(k, f, o) /\ Live(k, d) /\ d # -o /\ m \in [0 .. k[o].size - 1 -> Int]
    /\ Fills(View(k), o, s) /\ Len(s) = k[o].len
    /\ \A i \in 1 .. Len(s) : s[i] = IF k[o].start + i - 1 = at THEN d ELSE m[k[o].start + i - 1]
    /\ \A q \in Refs : Occurrences(-q, s) = Occurrences(-q, View(k)[o]) + Occurrences(-q, <<d>>)

LEMMA SameWindow ==
    ASSUME NEW c, Lasts(c), NEW s \in Seq(Int), Len(s) = c.len,
           \A i \in 1 .. Len(s) : s[i] = c.el[c.start + i - 1]
    PROVE  Window(c) = s
<1>w. PICK w : w = Window(c)
  OBVIOUS
<1>1. w \in Seq(Int) /\ Len(w) = c.len /\ \A i \in 1 .. c.len : w[i] = c.el[c.start + i - 1]
  BY <1>w, WindowIs
<1>2. \A i \in 1 .. Len(s) : w[i] = s[i]
  BY <1>1
<1>3. w = s
  BY <1>1, <1>2, SMTT(30)
<1> QED BY <1>3, <1>w

LEMMA Edited ==
    ASSUME NEW k, NEW f, NEW o, NEW m, NEW at, NEW d, NEW s, Editable(k, f, o, m, at, d, s), NEW p,
           p = [ref |-> o, heap |-> PutIn(k, o, WithEl(k[o], m))]
    PROVE  \E l, c : /\ Write(p, at, d) = [ref |-> o, heap |-> l]
                     /\ Changed(k, f, o, c, s, l) /\ c.start = k[o].start
<1>b. PICK b : b = k[o]
  OBVIOUS
<1>1. /\ Alone(k, f, o) /\ Live(k, d) /\ d # -o /\ m \in [0 .. b.size - 1 -> Int]
      /\ Fills(View(k), o, s) /\ Len(s) = b.len
      /\ \A i \in 1 .. Len(s) : s[i] = IF b.start + i - 1 = at THEN d ELSE m[b.start + i - 1]
      /\ \A q \in Refs : Occurrences(-q, s) = Occurrences(-q, View(k)[o]) + Occurrences(-q, <<d>>)
  BY <1>b, Zenon DEF Editable
<1>2. /\ o \in Refs /\ Lasts(b) /\ b.refs = 1 /\ DOMAIN k = Refs
      /\ b.start \in Nat /\ b.size \in Nat /\ b.start + b.len <= b.size
  <2>1. Changed(k, f, o, k[o], View(k)[o], k)
    BY <1>1, Unchanged
  <2> QED BY <1>b, <2>1, ChangedFacts
<1>3. d \in Int
  BY <1>1 DEF Live, Datum
<1>j. PICK j : j = PutIn(k, o, WithEl(b, m))
  OBVIOUS
<1>4. /\ Lasts(WithEl(b, m)) /\ WithEl(b, m).el = m
      /\ \A n : WithEl(WithEl(b, m), n) = WithEl(b, n)
  BY <1>1, <1>2, WithElIs
<1>5. DOMAIN j = Refs /\ j[o] = WithEl(b, m) /\ \A q \in Refs : q # o => k[q] = j[q]
  BY <1>2, <1>j DEF PutIn
<1>n. PICK n : n = Written(m, at, d)
  OBVIOUS
<1>c. PICK c : c = WithEl(b, n)
  OBVIOUS
<1>l. PICK l : l = PutIn(data_dup(k, <<d>>), o, c)
  OBVIOUS
<1>6. Write(p, at, d) = [ref |-> o, heap |-> l]
  <2>1. p = [ref |-> o, heap |-> j]
    BY <1>b, <1>j
  <2>2. Lasts(j[o])
    BY <1>4, <1>5, Zenon
  <2>3. Write(p, at, d)
        = [ref |-> o, heap |-> PutIn(data_dup(k, <<d>>), o, WithEl(j[o], Written(j[o].el, at, d)))]
    BY <1>1, <1>2, <1>5, <2>1, <2>2, WriteIs
  <2>4. j[o].el = m
    BY <1>4, <1>5, Zenon
  <2>5. WithEl(j[o], n) = c
    BY <1>4, <1>5, <1>c, Zenon
  <2> QED BY <1>l, <1>n, <2>3, <2>4, <2>5, Zenon
<1>7. n \in [0 .. b.size - 1 -> Int] /\ \A i \in 0 .. b.size - 1 : n[i] = IF i = at THEN d ELSE m[i]
  BY <1>1, <1>3, <1>n DEF Written
<1>8. Lasts(c) /\ c.start = b.start /\ c.len = b.len /\ c.refs = 1 /\ c.el = n
  BY <1>2, <1>7, <1>c, WithElIs
<1>9. Window(c) = s
  <2>1. s \in Seq(Int)
    BY <1>1 DEF Fills
  <2>2. \A i \in 1 .. Len(s) : s[i] = n[b.start + i - 1]
    <3> TAKE i \in 1 .. Len(s)
    <3>x. PICK x : x = b.start + i - 1
      OBVIOUS
    <3>1. x \in 0 .. b.size - 1
      <4>1. i \in Nat /\ 1 <= i /\ i <= b.len /\ b.len \in Nat
        BY <1>1, <2>1
      <4> QED BY <1>2, <3>x, <4>1
    <3>2. n[x] = IF x = at THEN d ELSE m[x]
      BY <1>7, <3>1
    <3>3. s[i] = IF x = at THEN d ELSE m[x]
      BY <1>1, <3>x, Zenon
    <3> QED BY <3>2, <3>3, <3>x, Zenon
  <2>3. \A i \in 1 .. Len(s) : s[i] = c.el[c.start + i - 1]
    BY <1>8, <2>2, Zenon
  <2>4. Len(s) = c.len
    BY <1>1, <1>8, Zenon
  <2> QED BY <1>8, <2>1, <2>3, <2>4, SameWindow
<1>10. WholeList(c, s)
  BY <1>8, <1>9, Zenon DEF WholeList
<1>D. PICK D : D = <<d>>
  OBVIOUS
<1>11. D \in Seq(Int) /\ \A i \in 1 .. Len(D) : Live(k, D[i]) /\ D[i] # -o
  <2>1. D \in Seq(Int) /\ Len(D) = 1 /\ D[1] = d
    BY <1>3, <1>D
  <2>2. \A i \in 1 .. 1 : i = 1
    OBVIOUS
  <2> QED BY <1>1, <2>1, <2>2, Zenon
<1>12. Changed(k, f, o, c, s, l)
  <2>1. \A q \in Refs : Occurrences(-q, s) = Occurrences(-q, View(k)[o]) + Occurrences(-q, D)
    BY <1>1, <1>D, Zenon
  <2>2. Alone(k, f, o) /\ Fills(View(k), o, s) /\ l = PutIn(data_dup(k, D), o, c)
    BY <1>1, <1>D, <1>l, Zenon
  <2> QED BY <1>10, <1>11, <2>1, <2>2, Enriched
<1> QED BY <1>6, <1>8, <1>12, <1>b, Zenon

LEMMA PieceFacts ==
    ASSUME NEW w \in Seq(Int), NEW n \in 0 .. MaxLen, NEW s, s = Stretch(w, 0, n)
    PROVE  /\ s \in Seq(Int) /\ Len(s) = n
           /\ \A i \in 1 .. n : s[i] = IF i <= Len(w) THEN w[i] ELSE 0
           /\ Len(w) <= n => Padded(s, w)
           /\ Len(w) = n => s = w
<1>0. n \in Nat /\ MaxLen \in Nat /\ n <= MaxLen /\ Len(w) \in Nat /\ \A i \in 1 .. Len(w) : w[i] \in Int
  BY RefsAre
<1>1. s = [i \in 1 .. n |-> IF i <= Len(w) THEN w[i] ELSE 0]
  <2>1. \A i \in 1 .. n : 0 + i = i
    OBVIOUS
  <2>2. s = [i \in 1 .. n |-> IF 0 + i <= Len(w) THEN w[0 + i] ELSE 0]
    BY Zenon DEF Stretch
  <2> QED BY <2>1, <2>2
<1>2. \A i \in 1 .. n : (IF i <= Len(w) THEN w[i] ELSE 0) \in Int
  BY <1>0
<1>3. s \in Seq(Int) /\ Len(s) = n
  BY <1>0, <1>1, <1>2
<1>4. \A i \in 1 .. n : s[i] = IF i <= Len(w) THEN w[i] ELSE 0
  BY <1>1
<1>5. Len(w) <= n => Padded(s, w)
  BY <1>0, <1>3, <1>4 DEF Padded
<1>6. ASSUME Len(w) = n PROVE s = w
  <2>1. \A i \in 1 .. n : s[i] = w[i]
    BY <1>0, <1>4, <1>6
  <2> QED BY <1>3, <1>6, <2>1
<1> QED BY <1>3, <1>4, <1>5, <1>6

(* What has to be free, and how the window lies, for an operator.            *)
Enough(h, r) == (h[r].refs = 1 /\ h[r].start = 0) \/ \E n \in Refs : h[n] = Free
Ready(h, r) == (h[r].refs = 1 /\ h[r].start = 0) \/ (h[r].refs > 1 /\ \E n \in Refs : h[n] = Free)

LEMMA ModifiedIs ==
    ASSUME NEW h, NEW f, NEW r, On(h, f, r), NEW n \in 0 .. MaxLen, NEW more, h[r].len + more = n,
           Ready(h, r) \/ (Enough(h, r) /\ n <= h[r].len)
    PROVE  PreparedAs(h, f, r, 0, n, ModifyAll(h, r, more))
<1>b. PICK b : b = h[r]
  OBVIOUS
<1>1. /\ b.start \in Nat /\ b.start + 0 = b.start /\ b.refs \in Nat \ {0} /\ b.len \in Nat /\ n \in Nat
      /\ b.size \in Nat /\ b.start + b.len <= b.size
  BY <1>b, OnFacts
<1>2. b.refs > 1 \/ b.start = 0 \/ b.start + n <= b.size
  BY <1>1, <1>b DEF Ready
<1>3. ASSUME Moves(b, b.start, n) PROVE \E m \in Refs : h[m] = Free
  <2>1. ~(b.refs = 1 /\ b.start = 0)
    <3>1. b.refs > 1 \/ b.start > 0
      BY <1>3, Zenon DEF Moves
    <3> QED BY <3>1
  <2> QED BY <1>b, <2>1, Zenon DEF Ready, Enough
<1>4. Fitting(h, r, 0, n)
  BY <1>1, <1>2, <1>3, <1>b, Zenon DEF Fitting
<1>5. PreparedAs(h, f, r, 0, n, prepare_to_modify(h, r, b.start + 0, n))
  BY <1>4, <1>b, Prepared, Zenon
<1>6. ModifyAll(h, r, more) = prepare_to_modify(h, r, b.start, n)
  BY <1>b, Zenon DEF ModifyAll
<1> QED BY <1>1, <1>5, <1>6, Zenon

(* The list o that the operator may change, as s.                            *)
Ours(h, f, r, s, p) ==
    \E o, k, c : /\ p = [ref |-> o, heap |-> k] /\ Changed(h, f, o, c, s, k)
                 /\ c.start = 0 \/ (h[r].refs = 1 /\ c.start = h[r].start)

LEMMA OursIs ==
    ASSUME NEW h, NEW f, NEW r, On(h, f, r), NEW n \in 0 .. MaxLen, NEW more, h[r].len + more = n,
           Ready(h, r) \/ (Enough(h, r) /\ n <= h[r].len)
    PROVE  Ours(h, f, r, Stretch(View(h)[r], 0, n), ModifyAll(h, r, more))
<1>1. PreparedAs(h, f, r, 0, n, ModifyAll(h, r, more))
  BY ModifiedIs
<1>2. h[r].start \in Nat
  BY OnFacts
<1>3. h[r].start + 0 = h[r].start
  BY <1>2
<1> QED BY <1>1, <1>3, Zenon DEF PreparedAs, Ours

LEMMA ExclusiveIs ==
    ASSUME NEW h, NEW f, NEW r, On(h, f, r), Enough(h, r)
    PROVE  Ours(h, f, r, View(h)[r], Exclusive(h, r))
<1>0. /\ h[r].refs \in Nat \ {0} /\ h[r].len \in 0 .. MaxLen /\ View(h)[r] \in Seq(Int)
      /\ Len(View(h)[r]) = h[r].len
  BY OnFacts
<1>1. CASE h[r].refs > 1
  <2>1. Exclusive(h, r) = ModifyAll(h, r, 0)
    BY <1>1, Zenon DEF Exclusive
  <2>2. h[r].len + 0 = h[r].len /\ h[r].len <= h[r].len
    BY <1>0
  <2>3. Ours(h, f, r, Stretch(View(h)[r], 0, h[r].len), ModifyAll(h, r, 0))
    BY <1>0, <2>2, OursIs, Zenon
  <2>4. Stretch(View(h)[r], 0, h[r].len) = View(h)[r]
    BY <1>0, PieceFacts
  <2> QED BY <2>1, <2>3, <2>4, Zenon
<1>2. CASE ~(h[r].refs > 1)
  <2>1. Exclusive(h, r) = [ref |-> r, heap |-> h]
    <3>1. [heap |-> h, ref |-> r] = [ref |-> r, heap |-> h]
      OBVIOUS
    <3> QED BY <1>2, <3>1, Zenon DEF Exclusive
  <2>2. h[r].refs = 1
    BY <1>0, <1>2
  <2>3. Changed(h, f, r, h[r], View(h)[r], h)
    BY <2>2, Unchanged, Zenon DEF Alone
  <2> QED BY <2>1, <2>2, <2>3, Zenon DEF Ours
<1> QED BY <1>1, <1>2

-----------------------------------------------------------------------------
(* list_insert and list_add: w, one longer, has a gap after its first pos.   *)
Opened(w, d, pos) ==
    [i \in 1 .. Len(w) + 1 |-> IF i <= pos THEN w[i] ELSE IF i = pos + 1 THEN d ELSE w[i - 1]]
Shifted(m, a, w, pos) ==
    /\ \A i \in 1 .. pos : m[a + i - 1] = w[i]
    /\ \A i \in pos + 1 .. Len(w) : m[a + i] = w[i]
Gap(h, f, o, c, w, k, m, pos, d) ==
    /\ w \in Seq(Int) /\ Len(w) + 1 <= MaxLen /\ pos \in 0 .. Len(w)
    /\ Changed(h, f, o, c, Stretch(w, 0, Len(w) + 1), k)
    /\ m \in [0 .. c.size - 1 -> Int] /\ Shifted(m, c.start, w, pos) /\ Held(h, f, d)
Opens(w, d, pos, s) == w \in Seq(Int) /\ d \in Int /\ pos \in 0 .. Len(w) /\ s = Opened(w, d, pos)
Open(w, d, pos, n, s) ==
    /\ s \in Seq(Int) /\ Len(s) = n + 1
    /\ \A i \in 1 .. pos : s[i] = w[i]
    /\ s[pos + 1] = d
    /\ \A i \in pos + 2 .. n + 1 : s[i] = w[i - 1]
    /\ \A x : Occurrences(x, s) = Occurrences(x, w) + Occurrences(x, <<d>>)

LEMMA OpenedIs ==
    ASSUME NEW w, NEW d, NEW pos, NEW s, Opens(w, d, pos, s)
    PROVE  Open(w, d, pos, Len(w), s)
<1>n. PICK n : n = Len(w)
  OBVIOUS
<1>o. w \in Seq(Int) /\ d \in Int /\ pos \in 0 .. n /\ s = Opened(w, d, pos)
  BY <1>n, Zenon DEF Opens
<1>0. n \in Nat /\ pos \in Nat /\ pos <= n /\ DOMAIN w = 1 .. n /\ \A i \in 1 .. n : w[i] \in Int
  BY <1>n, <1>o
<1>1. s = [i \in 1 .. n + 1 |-> IF i <= pos THEN w[i] ELSE IF i = pos + 1 THEN d ELSE w[i - 1]]
  BY <1>n, <1>o, Zenon DEF Opened
<1>2. \A i \in 1 .. n + 1 : (IF i <= pos THEN w[i] ELSE IF i = pos + 1 THEN d ELSE w[i - 1]) \in Int
  BY <1>0, <1>o
<1>3. s \in Seq(Int) /\ Len(s) = n + 1 /\ DOMAIN s = 1 .. n + 1
  BY <1>0, <1>1, <1>2
<1>4. \A i \in 1 .. pos : s[i] = w[i]
  BY <1>0, <1>1
<1>5. s[pos + 1] = d
  BY <1>0, <1>1
<1>6. \A i \in pos + 2 .. n + 1 : s[i] = w[i - 1]
  BY <1>0, <1>1
<1>t. PICK t : t = <<d>>
  OBVIOUS
<1>7. TakenOut(s, w, t, pos)
  <2>1. Len(t) = 1 /\ DOMAIN t = 1 .. 1 /\ t[1] = d
    BY <1>t
  <2>2. \A i \in 1 .. Len(t) : t[i] = s[pos + i]
    BY <1>0, <1>5, <2>1
  <2>3. \A i \in 1 .. n : w[i] = s[IF i <= pos THEN i ELSE i + 1]
    BY <1>0, <1>1
  <2>4. DOMAIN s = 1 .. Len(w) + Len(t) /\ DOMAIN w = 1 .. Len(w) /\ DOMAIN t = 1 .. Len(t)
        /\ Len(w) \in Nat /\ Len(t) \in Nat /\ pos \in 0 .. Len(w)
    BY <1>0, <1>3, <1>n, <2>1
  <2> QED BY <1>n, <2>1, <2>2, <2>3, <2>4, Zenon DEF TakenOut
<1>8. \A x : Occurrences(x, s) = Occurrences(x, w) + Occurrences(x, t)
  BY <1>7, OccTakenOut
<1>9. Open(w, d, pos, n, s)
  BY <1>3, <1>4, <1>5, <1>6, <1>8, <1>t, Zenon DEF Open
<1> QED BY <1>9, <1>n

LEMMA GapFilled ==
    ASSUME NEW h, NEW f, NEW o, NEW c, NEW w, NEW k, NEW m, NEW pos, NEW d, Gap(h, f, o, c, w, k, m, pos, d),
           NEW p, p = [ref |-> o, heap |-> PutIn(k, o, WithEl(c, m))], NEW at, at = c.start + pos
    PROVE  \E l, b, s : /\ Write(p, at, d) = [ref |-> o, heap |-> l] /\ Changed(h, f, o, b, s, l)
                        /\ b.start = c.start /\ Len(s) = Len(w) + 1
<1>n. PICK n : n = Len(w)
  OBVIOUS
<1>z. PICK z : z = Stretch(w, 0, n + 1)
  OBVIOUS
<1>1. /\ w \in Seq(Int) /\ n + 1 <= MaxLen /\ pos \in 0 .. n /\ Changed(h, f, o, c, z, k) /\ n \in Nat
      /\ m \in [0 .. c.size - 1 -> Int] /\ Shifted(m, c.start, w, pos) /\ Held(h, f, d) /\ pos \in Nat
  <2>1. /\ w \in Seq(Int) /\ n + 1 <= MaxLen /\ pos \in 0 .. n /\ Changed(h, f, o, c, z, k)
        /\ m \in [0 .. c.size - 1 -> Int] /\ Shifted(m, c.start, w, pos) /\ Held(h, f, d)
    BY <1>n, <1>z, Zenon DEF Gap
  <2> QED BY <1>n, <2>1
<1>2. /\ Alone(k, f, o) /\ View(k)[o] = z /\ k[o] = c /\ o \in Refs /\ Lasts(c) /\ c.len = Len(z)
      /\ c.start \in Nat /\ c.size \in Nat /\ Fills(View(k), o, z)
  BY <1>1, ChangedFacts
<1>3. Live(k, d) /\ d # -o /\ d \in Int /\ Datum(View(k), d)
  <2>1. Live(k, d) /\ d # -o
    BY <1>1, HeldDatum
  <2> QED BY <2>1 DEF Live, Datum
<1>4. z \in Seq(Int) /\ Len(z) = n + 1 /\ Padded(z, w) /\ \A i \in 1 .. n : z[i] = w[i]
  <2>1. n + 1 \in 0 .. MaxLen /\ n <= n + 1
    BY <1>1, RefsAre
  <2>2. /\ z \in Seq(Int) /\ Len(z) = n + 1 /\ Padded(z, w)
        /\ \A i \in 1 .. n + 1 : z[i] = IF i <= n THEN w[i] ELSE 0
    BY <1>1, <1>n, <1>z, <2>1, PieceFacts
  <2>3. \A i \in 1 .. n : z[i] = w[i]
    BY <1>1, <2>2
  <2> QED BY <2>2, <2>3, Zenon
<1>s. PICK s : s = Opened(w, d, pos)
  OBVIOUS
<1>5. /\ s \in Seq(Int) /\ Len(s) = n + 1
      /\ \A i \in 1 .. pos : s[i] = w[i]
      /\ s[pos + 1] = d
      /\ \A i \in pos + 2 .. n + 1 : s[i] = w[i - 1]
      /\ \A x : Occurrences(x, s) = Occurrences(x, w) + Occurrences(x, <<d>>)
  <2>1. Opens(w, d, pos, s)
    BY <1>1, <1>3, <1>n, <1>s, Zenon DEF Opens
  <2>2. Open(w, d, pos, n, s)
    BY <1>n, <2>1, OpenedIs
  <2> QED BY <2>2, Zenon DEF Open
<1>6. Fills(View(k), o, s)
  <2>1. \A i \in 1 .. n : Datum(View(k), w[i]) /\ w[i] # -o
    <3>1. \A i \in 1 .. Len(z) : Datum(View(k), z[i]) /\ z[i] # -o
      BY <1>2, Zenon DEF Fills
    <3>2. \A i \in 1 .. n : i \in 1 .. Len(z)
      BY <1>1, <1>4
    <3> QED BY <1>4, <3>1, <3>2, Zenon
  <2>2. ASSUME NEW i \in 1 .. Len(s) PROVE Datum(View(k), s[i]) /\ s[i] # -o
    <3>1. i \in 1 .. pos \/ i = pos + 1 \/ i \in pos + 2 .. n + 1
      BY <1>1, <1>5
    <3>2. CASE i \in 1 .. pos
      <4>1. i \in 1 .. n
        BY <1>1, <3>2
      <4> QED BY <1>5, <2>1, <3>2, <4>1, Zenon
    <3>3. CASE i = pos + 1
      BY <1>3, <1>5, <3>3, Zenon
    <3>4. CASE i \in pos + 2 .. n + 1
      <4>1. i - 1 \in 1 .. n
        BY <1>1, <3>4
      <4> QED BY <1>5, <2>1, <3>4, <4>1, Zenon
    <3> QED BY <3>1, <3>2, <3>3, <3>4
  <2>3. Len(s) <= MaxLen
    BY <1>1, <1>5
  <2> QED BY <1>5, <2>2, <2>3, Zenon DEF Fills
<1>7. \A i \in 1 .. Len(s) : s[i] = IF c.start + i - 1 = at THEN d ELSE m[c.start + i - 1]
  <2> TAKE i \in 1 .. Len(s)
  <2>a. PICK a : a = c.start
    OBVIOUS
  <2>0. a \in Nat /\ at = a + pos /\ i \in Nat /\ 1 <= i /\ i <= n + 1
    BY <1>1, <1>2, <1>5, <2>a
  <2>s. (\A j \in 1 .. pos : m[a + j - 1] = w[j]) /\ \A j \in pos + 1 .. n : m[a + j] = w[j]
    BY <1>1, <1>n, <2>a, Zenon DEF Shifted
  <2>1. CASE i <= pos
    <3>1. i \in 1 .. pos /\ a + i - 1 # at
      BY <1>1, <2>0, <2>1
    <3> QED BY <1>5, <2>a, <2>s, <3>1, Zenon
  <2>2. CASE i = pos + 1
    <3>1. a + i - 1 = at
      BY <1>1, <2>0, <2>2
    <3> QED BY <1>5, <2>2, <2>a, <3>1, Zenon
  <2>3. CASE i > pos + 1
    <3>1. i \in pos + 2 .. n + 1 /\ i - 1 \in pos + 1 .. n /\ a + i - 1 # at /\ a + (i - 1) = a + i - 1
      BY <1>1, <2>0, <2>3
    <3>2. m[a + (i - 1)] = w[i - 1]
      BY <2>s, <3>1, Zenon
    <3> QED BY <1>5, <2>a, <3>1, <3>2, Zenon
  <2> QED BY <1>1, <2>0, <2>1, <2>2, <2>3
<1>8. \A q \in Refs : Occurrences(-q, s) = Occurrences(-q, View(k)[o]) + Occurrences(-q, <<d>>)
  <2> TAKE q \in Refs
  <2>1. -q # 0
    BY MinusIs
  <2>2. Occurrences(-q, z) = Occurrences(-q, w)
    BY <1>4, <2>1, OccPadded
  <2> QED BY <1>2, <1>5, <2>2, Zenon
<1>9. Editable(k, f, o, m, at, d, s)
  <2>1. m \in [0 .. k[o].size - 1 -> Int] /\ Len(s) = k[o].len
    BY <1>1, <1>2, <1>4, <1>5, Zenon
  <2>2. \A i \in 1 .. Len(s) : s[i] = IF k[o].start + i - 1 = at THEN d ELSE m[k[o].start + i - 1]
    BY <1>2, <1>7, Zenon
  <2> QED BY <1>2, <1>3, <1>6, <1>8, <2>1, <2>2, Zenon DEF Editable
<1>10. p = [ref |-> o, heap |-> PutIn(k, o, WithEl(k[o], m))]
  BY <1>2
<1>11. PICK l, b : /\ Write(p, at, d) = [ref |-> o, heap |-> l]
                   /\ Changed(k, f, o, b, s, l) /\ b.start = k[o].start
  BY <1>9, <1>10, Edited
<1>12. Changed(h, f, o, b, s, l)
  BY <1>1, <1>11, ChangedTwice
<1> QED BY <1>2, <1>5, <1>11, <1>12, <1>n, Zenon

(* The result of an operator, with its window at the start of its array.     *)
Stays(h, k, f) == \A x \in Refs : f[x] > 0 => View(k)[x] = View(h)[x]
Ended(h, f, n, p) ==
    \E o, k : /\ p = [ref |-> o, heap |-> k] /\ Alone(k, f, o) /\ k[o].start = 0 /\ k[o].len = n
              /\ Stays(h, k, f)

LEMMA EndedIs ==
    ASSUME NEW h, NEW f, NEW o, NEW c, NEW s, NEW k, Changed(h, f, o, c, s, k), c.start = 0,
           NEW p, p = [ref |-> o, heap |-> k]
    PROVE  Ended(h, f, Len(s), p)
<1>1. Alone(k, f, o) /\ k[o] = c /\ c.len = Len(s)
  BY ChangedFacts
<1>2. \A x \in Refs : f[x] > 0 => View(k)[x] = View(h)[x]
  BY HeldStays
<1> QED BY <1>1, <1>2, Zenon DEF Ended, Stays

At(p, o, k) == p = [ref |-> o, heap |-> k]
Given(h, f, r, d, pos) ==
    On(h, f, r) /\ Ready(h, r) /\ h[r].len + 1 <= MaxLen /\ Held(h, f, d) /\ pos \in 0 .. h[r].len

Writable(k, o, d) == DOMAIN k = Refs /\ o \in Refs /\ d # -o /\ Lasts(k[o])
LEMMA WriteSame ==
    ASSUME NEW k, NEW o, NEW d, Writable(k, o, d), NEW p, NEW q, At(p, o, k), At(q, o, PutIn(k, o, k[o])),
           NEW at
    PROVE  Write(p, at, d) = Write(q, at, d)
<1>0. DOMAIN k = Refs /\ o \in Refs /\ d # -o /\ Lasts(k[o])
  BY Zenon DEF Writable
<1>j. PICK j : j = PutIn(k, o, k[o])
  OBVIOUS
<1>1. DOMAIN j = Refs /\ j[o] = k[o] /\ \A x \in Refs : x # o => k[x] = j[x]
  BY <1>0, <1>j DEF PutIn
<1>2. p = [ref |-> o, heap |-> k] /\ q = [ref |-> o, heap |-> j]
  BY <1>j, Zenon DEF At
<1>3. Write(p, at, d)
      = [ref |-> o, heap |-> PutIn(data_dup(k, <<d>>), o, WithEl(k[o], Written(k[o].el, at, d)))]
  BY <1>0, <1>2, WriteIs
<1>4. Write(q, at, d)
      = [ref |-> o, heap |-> PutIn(data_dup(k, <<d>>), o, WithEl(j[o], Written(j[o].el, at, d)))]
  <2>1. Lasts(j[o])
    BY <1>0, <1>1
  <2> QED BY <1>0, <1>1, <1>2, <2>1, WriteIs
<1> QED BY <1>1, <1>3, <1>4, Zenon

LEMMA DeepAt ==
    ASSUME NEW p, NEW n, NEW f, At(p, n, f), NEW y
    PROVE  At([p EXCEPT !.heap[p.ref].el = y], n, PutIn(f, n, WithEl(f[n], y)))
<1>1. p = [ref |-> n, heap |-> f]
  BY Zenon DEF At
<1>2. p.ref = n /\ p.heap = f
  BY <1>1
<1>3. [p EXCEPT !.heap[n].el = y] = [p EXCEPT !.heap = [f EXCEPT ![n] = [f[n] EXCEPT !.el = y]]]
  BY <1>2
<1>4. \A z : [p EXCEPT !.heap = z] = [ref |-> n, heap |-> z]
  BY <1>1
<1> QED BY <1>2, <1>3, <1>4, Zenon DEF At, PutIn, WithEl

Longer(w, n, z) ==
    w \in Seq(Int) /\ Len(w) = n /\ n \in Nat /\ n + 1 <= MaxLen /\ z = Stretch(w, 0, n + 1)
LEMMA LongerIs ==
    ASSUME NEW w, NEW n, NEW z, Longer(w, n, z)
    PROVE  Len(z) = n + 1 /\ \A i \in 1 .. n : z[i] = w[i]
<1>1. w \in Seq(Int) /\ Len(w) = n /\ n \in Nat /\ n + 1 <= MaxLen /\ z = Stretch(w, 0, n + 1)
  BY Zenon DEF Longer
<1>2. n + 1 \in 0 .. MaxLen
  BY <1>1, RefsAre
<1>3. Len(z) = n + 1 /\ \A i \in 1 .. n + 1 : z[i] = IF i <= Len(w) THEN w[i] ELSE 0
  BY <1>1, <1>2, PieceFacts
<1> QED BY <1>1, <1>3

Moved(h, f, r, d, pos, m, o, k, c) ==
    /\ Given(h, f, r, d, pos) /\ Changed(h, f, o, c, Stretch(View(h)[r], 0, h[r].len + 1), k)
    /\ c.start = 0 \/ (h[r].refs = 1 /\ c.start = h[r].start)
    /\ m \in [0 .. c.size - 1 -> Int] /\ Shifted(m, 0, View(h)[r], pos)

LEMMA GapMade ==
    ASSUME NEW h, NEW f, NEW r, NEW d, NEW pos, NEW m, NEW o, NEW k, NEW c,
           Moved(h, f, r, d, pos, m, o, k, c), NEW p, At(p, o, PutIn(k, o, WithEl(c, m)))
    PROVE  Ended(h, f, h[r].len + 1, Write(p, pos, d))
<1>0. /\ Given(h, f, r, d, pos) /\ Changed(h, f, o, c, Stretch(View(h)[r], 0, h[r].len + 1), k)
      /\ c.start = 0 \/ (h[r].refs = 1 /\ c.start = h[r].start)
      /\ m \in [0 .. c.size - 1 -> Int] /\ Shifted(m, 0, View(h)[r], pos)
      /\ p = [ref |-> o, heap |-> PutIn(k, o, WithEl(c, m))]
  BY Zenon DEF Moved, At
<1>w. PICK w : w = View(h)[r]
  OBVIOUS
<1>1. /\ w \in Seq(Int) /\ Len(w) = h[r].len /\ h[r].refs \in Nat /\ h[r].start \in Nat
      /\ pos \in 0 .. h[r].len /\ h[r].len + 1 <= MaxLen /\ Held(h, f, d) /\ Ready(h, r)
  BY <1>0, <1>w, OnFacts DEF Given
<1>2. c.start = 0
  BY <1>0, <1>1 DEF Ready
<1>3. Gap(h, f, o, c, w, k, m, pos, d)
  <2>1. Changed(h, f, o, c, Stretch(w, 0, Len(w) + 1), k) /\ Shifted(m, c.start, w, pos)
    BY <1>0, <1>1, <1>2, <1>w, Zenon
  <2> QED BY <1>0, <1>1, <2>1, Zenon DEF Gap
<1>4. pos = c.start + pos
  BY <1>1, <1>2
<1>5. PICK l, b, s : /\ Write(p, pos, d) = [ref |-> o, heap |-> l] /\ Changed(h, f, o, b, s, l)
                     /\ b.start = c.start /\ Len(s) = Len(w) + 1
  BY <1>0, <1>3, <1>4, GapFilled
<1>6. b.start = 0 /\ Len(s) = h[r].len + 1
  BY <1>1, <1>2, <1>5
<1>7. Ended(h, f, Len(s), Write(p, pos, d))
  BY <1>5, <1>6, EndedIs
<1> QED BY <1>6, <1>7, Zenon

LEMMA AddIs ==
    ASSUME NEW h, NEW f, NEW r, NEW d, Given(h, f, r, d, h[r].len)
    PROVE  Ended(h, f, h[r].len + 1, list_add(h, r, d))
<1>w. PICK w : w = View(h)[r]
  OBVIOUS
<1>n. PICK n : n = h[r].len
  OBVIOUS
<1>z. PICK z : z = Stretch(w, 0, n + 1)
  OBVIOUS
<1>1. /\ On(h, f, r) /\ Ready(h, r) /\ w \in Seq(Int) /\ Len(w) = n /\ n \in Nat /\ h[r].refs \in Nat
      /\ n + 1 \in 0 .. MaxLen /\ MaxLen \in Nat
  <2>1. On(h, f, r) /\ Ready(h, r) /\ n + 1 <= MaxLen
    BY <1>n, Zenon DEF Given
  <2>2. w \in Seq(Int) /\ Len(w) = n /\ n \in Nat /\ h[r].refs \in Nat
    BY <1>n, <1>w, <2>1, OnFacts
  <2> QED BY <2>1, <2>2, RefsAre
<1>2. Ours(h, f, r, z, ModifyAll(h, r, 1))
  BY <1>1, <1>n, <1>w, <1>z, OursIs, Zenon
<1>3. PICK o, k, c : /\ ModifyAll(h, r, 1) = [ref |-> o, heap |-> k] /\ Changed(h, f, o, c, z, k)
                     /\ c.start = 0 \/ (h[r].refs = 1 /\ c.start = h[r].start)
  BY <1>2, Zenon DEF Ours
<1>4. /\ Alone(k, f, o) /\ View(k)[o] = z /\ k[o] = c /\ o \in Refs /\ Lasts(c) /\ c.len = Len(z)
      /\ c.start \in Nat /\ c.size \in Nat /\ c.start + c.len <= c.size
      /\ c.el \in [0 .. c.size - 1 -> Int] /\ \A i \in 1 .. Len(z) : z[i] = c.el[c.start + i - 1]
  BY <1>3, ChangedFacts
<1>5. Len(z) = n + 1 /\ \A i \in 1 .. n : z[i] = w[i]
  <2>1. n + 1 <= MaxLen
    BY <1>1
  <2>2. Longer(w, n, z)
    BY <1>1, <1>z, <2>1, Zenon DEF Longer
  <2> QED BY <2>2, LongerIs
<1>6. c.start = 0
  BY <1>1, <1>3 DEF Ready
<1>7. list_add(h, r, d) = Write([ref |-> o, heap |-> k], n, d)
  <2>p. PICK p : p = [ref |-> o, heap |-> k]
    OBVIOUS
  <2>1. p.heap[p.ref] = c
    BY <1>4, <2>p
  <2>2. list_add(h, r, d) = Write(p, c.start + c.len - 1, d)
    BY <1>3, <2>1, <2>p, Zenon DEF list_add
  <2>3. c.start + c.len - 1 = n
    BY <1>1, <1>4, <1>5, <1>6
  <2> QED BY <2>2, <2>3, <2>p, Zenon
<1>q. PICK q : q = [ref |-> o, heap |-> PutIn(k, o, WithEl(c, c.el))]
  OBVIOUS
<1>8. Write([ref |-> o, heap |-> k], n, d) = Write(q, n, d)
  <2>p. PICK p : p = [ref |-> o, heap |-> k]
    OBVIOUS
  <2>1. WithEl(c, c.el) = c
    BY <1>4, WithElIs
  <2>2. d # -o
    <3>1. Held(h, f, d)
      BY Zenon DEF Given
    <3> QED BY <1>3, <3>1, HeldDatum
  <2>3. DOMAIN k = Refs
    BY <1>3, ChangedFacts
  <2>4. At(p, o, k) /\ At(q, o, PutIn(k, o, k[o])) /\ Lasts(k[o])
    BY <1>4, <1>q, <2>1, <2>p, Zenon DEF At
  <2>5. Write(p, n, d) = Write(q, n, d)
    <3>1. Writable(k, o, d)
      BY <1>4, <2>2, <2>3, <2>4, Zenon DEF Writable
    <3> QED BY <2>4, <3>1, WriteSame
  <2> QED BY <2>5, <2>p, Zenon
<1>9. Shifted(c.el, 0, w, n)
  <2>1. \A i \in 1 .. n : c.el[0 + i - 1] = w[i]
    <3> TAKE i \in 1 .. n
    <3>1. i \in 1 .. Len(z) /\ 0 + i - 1 = c.start + i - 1
      BY <1>1, <1>5, <1>6
    <3> QED BY <1>4, <1>5, <3>1, Zenon
  <2>2. \A i \in n + 1 .. n : c.el[0 + i] = w[i]
    BY <1>1
  <2> QED BY <1>1, <2>1, <2>2, Zenon DEF Shifted
<1>10. Moved(h, f, r, d, n, c.el, o, k, c)
  BY <1>3, <1>4, <1>9, <1>n, <1>w, <1>z, Zenon DEF Moved
<1>11. At(q, o, PutIn(k, o, WithEl(c, c.el)))
  BY <1>q, Zenon DEF At
<1>12. Ended(h, f, h[r].len + 1, Write(q, n, d))
  BY <1>10, <1>11, GapMade, Zenon
<1> QED BY <1>7, <1>8, <1>12, Zenon

LEMMA InsertIs ==
    ASSUME NEW h, NEW f, NEW r, NEW d, NEW pos, Given(h, f, r, d, pos)
    PROVE  Ended(h, f, h[r].len + 1, list_insert(h, r, pos, d))
<1>w. PICK w : w = View(h)[r]
  OBVIOUS
<1>n. PICK n : n = h[r].len
  OBVIOUS
<1>z. PICK z : z = Stretch(w, 0, n + 1)
  OBVIOUS
<1>1. /\ On(h, f, r) /\ Ready(h, r) /\ w \in Seq(Int) /\ Len(w) = n /\ n \in Nat /\ h[r].refs \in Nat
      /\ n + 1 \in 0 .. MaxLen /\ MaxLen \in Nat /\ pos \in 0 .. n /\ pos \in Nat
  <2>1. On(h, f, r) /\ Ready(h, r) /\ n + 1 <= MaxLen /\ pos \in 0 .. n
    BY <1>n, Zenon DEF Given
  <2>2. w \in Seq(Int) /\ Len(w) = n /\ n \in Nat /\ h[r].refs \in Nat
    BY <1>n, <1>w, <2>1, OnFacts
  <2> QED BY <2>1, <2>2, RefsAre
<1>2. Ours(h, f, r, z, ModifyAll(h, r, 1))
  BY <1>1, <1>n, <1>w, <1>z, OursIs, Zenon
<1>3. PICK o, k, c : /\ ModifyAll(h, r, 1) = [ref |-> o, heap |-> k] /\ Changed(h, f, o, c, z, k)
                     /\ c.start = 0 \/ (h[r].refs = 1 /\ c.start = h[r].start)
  BY <1>2, Zenon DEF Ours
<1>4. /\ Alone(k, f, o) /\ View(k)[o] = z /\ k[o] = c /\ o \in Refs /\ Lasts(c) /\ c.len = Len(z)
      /\ c.start \in Nat /\ c.size \in Nat /\ c.start + c.len <= c.size
      /\ c.el \in [0 .. c.size - 1 -> Int] /\ \A i \in 1 .. Len(z) : z[i] = c.el[c.start + i - 1]
  BY <1>3, ChangedFacts
<1>5. Len(z) = n + 1 /\ \A i \in 1 .. n : z[i] = w[i]
  <2>1. n + 1 <= MaxLen
    BY <1>1
  <2>2. Longer(w, n, z)
    BY <1>1, <1>z, <2>1, Zenon DEF Longer
  <2> QED BY <2>2, LongerIs
<1>6. c.start = 0
  BY <1>1, <1>3 DEF Ready
<1>m. PICK m : m = MEMMOVE(c.el, pos + 1, pos, n - pos)
  OBVIOUS
<1>q. PICK q : q = [ref |-> o, heap |-> PutIn(k, o, WithEl(c, m))]
  OBVIOUS
<1>7. list_insert(h, r, pos, d) = Write(q, pos, d)
  <2>p. PICK p : p = [ref |-> o, heap |-> k]
    OBVIOUS
  <2>1. p.heap[p.ref] = c
    BY <1>4, <2>p
  <2>2. pos + c.start = pos /\ c.len - 1 - pos = n - pos
    BY <1>1, <1>4, <1>5, <1>6
  <2>3. list_insert(h, r, pos, d)
        = Write([p EXCEPT !.heap[p.ref].el = MEMMOVE(@, pos + 1, pos, n - pos)], pos, d)
    <3>1. list_insert(h, r, pos, d)
          = Write([p EXCEPT !.heap[p.ref].el = MEMMOVE(@, pos + c.start + 1, pos + c.start, c.len - 1 - (pos + c.start))],
                  pos + c.start, d)
      BY <1>3, <2>1, <2>p, Zenon DEF list_insert
    <3> QED BY <2>2, <3>1, Zenon
  <2>4. [p EXCEPT !.heap[p.ref].el = MEMMOVE(@, pos + 1, pos, n - pos)] = [p EXCEPT !.heap[p.ref].el = m]
    BY <1>m, <2>1, Zenon
  <2>5. [p EXCEPT !.heap[p.ref].el = m] = [ref |-> o, heap |-> PutIn(k, o, WithEl(k[o], m))]
    <3>1. At(p, o, k)
      BY <2>p, Zenon DEF At
    <3>2. At([p EXCEPT !.heap[p.ref].el = m], o, PutIn(k, o, WithEl(k[o], m)))
      BY <3>1, DeepAt
    <3> QED BY <3>2, Zenon DEF At
  <2> QED BY <1>4, <1>q, <2>3, <2>4, <2>5, Zenon
<1>8. /\ DOMAIN m = 0 .. c.size - 1 /\ m = [i \in 0 .. c.size - 1 |-> m[i]]
      /\ \A i \in 0 .. c.size - 1 :
            m[i] = IF i \in pos + 1 .. n /\ i - 1 \in 0 .. c.size - 1 THEN c.el[i - 1] ELSE c.el[i]
  <2>1. m = [i \in DOMAIN c.el |-> IF i \in pos + 1 .. pos + 1 + (n - pos) - 1 /\ i - (pos + 1) + pos \in DOMAIN c.el
                                   THEN c.el[i - (pos + 1) + pos] ELSE c.el[i]]
    BY <1>m, Zenon DEF MEMMOVE
  <2>2. DOMAIN c.el = 0 .. c.size - 1
    BY <1>4
  <2>3. pos + 1 + (n - pos) - 1 = n /\ \A i \in Int : i - (pos + 1) + pos = i - 1
    BY <1>1
  <2>4. m = [i \in 0 .. c.size - 1 |-> IF i \in pos + 1 .. n /\ i - (pos + 1) + pos \in 0 .. c.size - 1
                                   THEN c.el[i - (pos + 1) + pos] ELSE c.el[i]]
    <3>x. PICK x : x = c.el
      OBVIOUS
    <3>1. m = [i \in DOMAIN x |-> IF i \in pos + 1 .. n /\ i - (pos + 1) + pos \in DOMAIN x
                                   THEN x[i - (pos + 1) + pos] ELSE x[i]]
      BY <2>1, <2>3, <3>x, Zenon
    <3>2. DOMAIN x = 0 .. c.size - 1
      BY <2>2, <3>x
    <3> QED BY <3>1, <3>2, <3>x, Zenon
  <2>5. \A i \in 0 .. c.size - 1 : i \in Int
    BY <1>4
  <2> QED BY <2>3, <2>4, <2>5
<1>9. m \in [0 .. c.size - 1 -> Int]
  <2>1. \A i \in 0 .. c.size - 1 : m[i] \in Int
    BY <1>4, <1>8
  <2> QED BY <1>8, <2>1
<1>10. Shifted(m, 0, w, pos)
  <2>1. \A i \in 1 .. pos : m[0 + i - 1] = w[i]
    <3> TAKE i \in 1 .. pos
    <3>1. i - 1 \in 0 .. c.size - 1 /\ ~(i - 1 \in pos + 1 .. n) /\ 0 + i - 1 = i - 1
          /\ i \in 1 .. Len(z) /\ c.start + i - 1 = i - 1 /\ i \in 1 .. n
      BY <1>1, <1>4, <1>5, <1>6
    <3>2. m[i - 1] = c.el[i - 1]
      BY <1>8, <3>1
    <3> QED BY <1>4, <1>5, <3>1, <3>2, Zenon
  <2>2. \A i \in pos + 1 .. n : m[0 + i] = w[i]
    <3> TAKE i \in pos + 1 .. n
    <3>1. i \in 0 .. c.size - 1 /\ i - 1 \in 0 .. c.size - 1 /\ 0 + i = i
          /\ i \in 1 .. Len(z) /\ c.start + i - 1 = i - 1 /\ i \in 1 .. n
      BY <1>1, <1>4, <1>5, <1>6
    <3>2. m[i] = c.el[i - 1]
      BY <1>8, <3>1
    <3> QED BY <1>4, <1>5, <3>1, <3>2, Zenon
  <2> QED BY <1>1, <2>1, <2>2, Zenon DEF Shifted
<1>11. Moved(h, f, r, d, pos, m, o, k, c) /\ At(q, o, PutIn(k, o, WithEl(c, m)))
  BY <1>3, <1>9, <1>10, <1>n, <1>q, <1>w, <1>z, Zenon DEF Moved, At
<1>12. Ended(h, f, h[r].len + 1, Write(q, pos, d))
  BY <1>11, GapMade, Zenon
<1> QED BY <1>7, <1>12, Zenon

-----------------------------------------------------------------------------
(* list_replace: one element is given up, another written in its place.      *)
Instead(w, k, d) == [i \in DOMAIN w |-> IF i = k THEN d ELSE w[i]]
Exchanged(w, n, k, d, s) ==
    /\ s \in Seq(Int) /\ Len(s) = n /\ s[k] = d
    /\ \A i \in 1 .. n : i # k => s[i] = w[i]
    /\ \A q : Occurrences(q, s) + Occurrences(q, <<w[k]>>) = Occurrences(q, w) + Occurrences(q, <<d>>)

LEMMA InsteadIs ==
    ASSUME NEW w \in Seq(Int), NEW k \in 1 .. Len(w), NEW d \in Int
    PROVE  Exchanged(w, Len(w), k, d, Instead(w, k, d))
<1>s. PICK s : s = Instead(w, k, d)
  OBVIOUS
<1>n. PICK n : n = Len(w)
  OBVIOUS
<1>0. n \in Nat /\ DOMAIN w = 1 .. n /\ k \in 1 .. n /\ \A i \in 1 .. n : w[i] \in Int
  BY <1>n
<1>1. s = [i \in 1 .. n |-> IF i = k THEN d ELSE w[i]]
  BY <1>0, <1>s DEF Instead
<1>2. s \in Seq(Int) /\ Len(s) = n /\ DOMAIN s = 1 .. n
  BY <1>0, <1>1
<1>3. s[k] = d /\ \A i \in 1 .. n : i # k => s[i] = w[i]
  BY <1>0, <1>1
<1>4. ASSUME NEW q PROVE Occurrences(q, s) + Occurrences(q, <<w[k]>>) = Occurrences(q, w) + Occurrences(q, <<d>>)
  <2>1. Occurrences(q, <<w[k]>>) = (IF w[k] = q THEN 1 ELSE 0) /\ Occurrences(q, <<d>>) = (IF d = q THEN 1 ELSE 0)
    BY OccOne
  <2>2. \A i \in 1 .. n : i # k => s[i] = w[i]
    BY <1>3
  <2>3. Occurrences(q, s) + (IF w[k] = q THEN 1 ELSE 0) = Occurrences(q, w) + (IF s[k] = q THEN 1 ELSE 0)
    BY <1>0, <1>2, <2>2, OccReplaced
  <2> QED BY <1>3, <2>1, <2>3, Zenon
<1>5. Exchanged(w, n, k, d, s)
  BY <1>2, <1>3, <1>4, Zenon DEF Exchanged
<1> QED BY <1>5, <1>n, <1>s, Zenon

Replaces(h, f, r, d, pos) ==
    On(h, f, r) /\ Enough(h, r) /\ Held(h, f, d) /\ pos \in 0 .. h[r].len - 1
Ends(f, p) == \E o, k : p = [ref |-> o, heap |-> k] /\ On(k, f, o)

(* The element at pos of the list at o is given up for 0.                    *)
Erasing(k, f, o, c, w, pos) ==
    Alone(k, f, o) /\ View(k)[o] = w /\ k[o] = c /\ pos \in 0 .. Len(w) - 1
Erased(c, pos) == WithEl(c, Written(c.el, c.start + pos, 0))

LEMMA ErasedIs ==
    ASSUME NEW k, NEW f, NEW o, NEW c, NEW w, NEW pos, Erasing(k, f, o, c, w, pos), NEW j, NEW x,
           x = El(c, c.start + pos), j = data_discard(k, <<x>>)
    PROVE  /\ Changed(k, f, o, Erased(c, pos), Instead(w, pos + 1, 0), PutIn(j, o, Erased(c, pos)))
           /\ j[o] = c
<1>a. PICK a : a = c.start + pos
  OBVIOUS
<1>e. PICK e : e = Written(c.el, a, 0)
  OBVIOUS
<1>b. PICK b : b = WithEl(c, e)
  OBVIOUS
<1>s. PICK s : s = Instead(w, pos + 1, 0)
  OBVIOUS
<1>0. Alone(k, f, o) /\ View(k)[o] = w /\ k[o] = c /\ pos \in 0 .. Len(w) - 1
  BY Zenon DEF Erasing
<1>1. /\ o \in Refs /\ Lasts(c) /\ c.refs = 1 /\ c.len = Len(w) /\ w \in Seq(Int)
      /\ c.start \in Nat /\ c.size \in Nat /\ c.start + c.len <= c.size /\ Len(w) \in Nat /\ Len(w) <= MaxLen
      /\ c.el \in [0 .. c.size - 1 -> Int] /\ \A i \in 1 .. Len(w) : w[i] = c.el[c.start + i - 1]
      /\ Fills(View(k), o, w)
  <2>1. Changed(k, f, o, c, w, k)
    BY <1>0, Unchanged
  <2> QED BY <2>1, ChangedFacts
<1>2. a \in 0 .. c.size - 1 /\ a = c.start + pos /\ pos \in Nat /\ pos + 1 \in 1 .. Len(w)
  <2> PICK n, z, y : n = Len(w) /\ z = c.start /\ y = c.size
    OBVIOUS
  <2>1. n \in Nat /\ z \in Nat /\ y \in Nat /\ z + n <= y /\ pos \in 0 .. n - 1 /\ a = z + pos
    BY <1>0, <1>1, <1>a
  <2>2. a \in 0 .. y - 1 /\ pos \in Nat /\ pos + 1 \in 1 .. n
    BY <2>1
  <2> QED BY <1>a, <2>2, Zenon
<1>3. x = w[pos + 1] /\ x \in Int
  <2>1. x = c.el[a]
    BY <1>1, <1>2 DEF El
  <2>2. w[pos + 1] = c.el[c.start + (pos + 1) - 1] /\ c.start + (pos + 1) - 1 = a
    BY <1>1, <1>2, SMTT(30)
  <2>3. w[pos + 1] = c.el[a]
    BY <2>2, Zenon
  <2> QED BY <1>1, <1>2, <2>1, <2>3
<1>4. e \in [0 .. c.size - 1 -> Int] /\ \A i \in 0 .. c.size - 1 : e[i] = IF i = a THEN 0 ELSE c.el[i]
  BY <1>1, <1>e DEF Written
<1>5. Lasts(b) /\ b.start = c.start /\ b.len = c.len /\ b.refs = 1 /\ b.el = e
  BY <1>1, <1>4, <1>b, WithElIs
<1>6. Exchanged(w, Len(w), pos + 1, 0, s)
  <2>1. 0 \in Int
    OBVIOUS
  <2> QED BY <1>1, <1>2, <1>s, <2>1, InsteadIs, Zenon
<1>7. /\ s \in Seq(Int) /\ Len(s) = Len(w) /\ s[pos + 1] = 0
      /\ \A i \in 1 .. Len(w) : i # pos + 1 => s[i] = w[i]
      /\ \A q : Occurrences(q, s) + Occurrences(q, <<w[pos + 1]>>) = Occurrences(q, w) + Occurrences(q, <<0>>)
  BY <1>6, Zenon DEF Exchanged
<1>8. Window(b) = s
  <2>1. \A i \in 1 .. Len(s) : s[i] = b.el[b.start + i - 1]
    <3> TAKE i \in 1 .. Len(s)
    <3>0. /\ i \in 1 .. Len(w) /\ Len(w) \in Nat /\ c.start \in Nat /\ c.size \in Nat
          /\ c.start + Len(w) <= c.size /\ a = c.start + pos /\ pos \in Nat
      BY <1>1, <1>2, <1>7, Zenon
    <3>1. i \in 1 .. Len(w) /\ c.start + i - 1 \in 0 .. c.size - 1
      BY <3>0, SMTT(30)
    <3>2. c.start + i - 1 = a <=> i = pos + 1
      BY <3>0
    <3>y. PICK y : y = c.start + i - 1
      OBVIOUS
    <3>3. e[y] = IF y = a THEN 0 ELSE c.el[y]
      BY <1>4, <3>1, <3>y
    <3>4. w[i] = c.el[y]
      BY <1>1, <3>1, <3>y, Zenon
    <3>5. s[i] = e[y]
      BY <1>7, <3>1, <3>2, <3>3, <3>4, <3>y, Zenon
    <3> QED BY <1>5, <3>5, <3>y, Zenon
  <2>2. Len(s) = b.len /\ s \in Seq(Int)
    BY <1>1, <1>5, <1>7, Zenon
  <2> QED BY <1>5, <2>1, <2>2, SameWindow
<1>9. WholeList(b, s)
  BY <1>5, <1>8, Zenon DEF WholeList
<1>10. Fills(View(k), o, s)
  <2>1. Datum(View(k), 0) /\ 0 # -o
    <3>1. -o # 0
      BY <1>1, MinusIs
    <3> QED BY <3>1 DEF Datum
  <2>2. \A i \in 1 .. Len(w) : Datum(View(k), w[i]) /\ w[i] # -o
    BY <1>1, Zenon DEF Fills
  <2>3. \A i \in 1 .. Len(w) : Datum(View(k), s[i]) /\ s[i] # -o
    <3> TAKE i \in 1 .. Len(w)
    <3>1. CASE i = pos + 1
      BY <1>7, <2>1, <3>1, Zenon
    <3>2. CASE i # pos + 1
      BY <1>7, <2>2, <3>2, Zenon
    <3> QED BY <3>1, <3>2, Zenon
  <2> QED BY <1>1, <1>7, <2>3, Zenon DEF Fills
<1>D. PICK D : D = <<x>>
  OBVIOUS
<1>11. \A q \in Refs : Occurrences(-q, View(k)[o]) = Occurrences(-q, s) + Occurrences(-q, D)
  <2> TAKE q \in Refs
  <2>1. Occurrences(-q, <<0>>) = 0
    <3>1. -q # 0
      BY MinusIs
    <3> QED BY <3>1, OccOne
  <2>2. Occurrences(-q, w) \in Nat
    BY <1>1, OccNat
  <2>3. Occurrences(-q, s) + Occurrences(-q, D) = Occurrences(-q, w) + Occurrences(-q, <<0>>)
    BY <1>3, <1>7, <1>D, Zenon
  <2>4. Occurrences(-q, s) + Occurrences(-q, D) = Occurrences(-q, w)
    BY <2>1, <2>2, <2>3
  <2> QED BY <1>0, <2>4, Zenon
<1>12. D \in Seq(Int)
  BY <1>3, <1>D
<1>13. j = data_discard(k, D)
  BY <1>D, Zenon
<1>14. Changed(k, f, o, b, s, PutIn(j, o, b)) /\ j[o] = k[o]
  <2>1. PICK l : l = PutIn(data_discard(k, D), o, b)
    OBVIOUS
  <2>2. Changed(k, f, o, b, s, l) /\ data_discard(k, D)[o] = k[o]
    BY <1>0, <1>9, <1>10, <1>11, <1>12, <2>1, Impoverished
  <2> QED BY <1>13, <2>1, <2>2, Zenon
<1>15. Erased(c, pos) = b
  BY <1>a, <1>b, <1>e, Zenon DEF Erased
<1>16. j[o] = c
  BY <1>0, <1>14, Zenon
<1>17. Changed(k, f, o, Erased(c, pos), Instead(w, pos + 1, 0), PutIn(j, o, Erased(c, pos)))
  BY <1>14, <1>15, <1>s, Zenon
<1> QED BY <1>16, <1>17

LEMMA WrittenTwice ==
    ASSUME NEW m, NEW at, NEW x, NEW d
    PROVE  Written(Written(m, at, x), at, d) = Written(m, at, d)
BY DEF Written

LEMMA ReplaceIs ==
    ASSUME NEW h, NEW f, NEW r, NEW d, NEW pos, Replaces(h, f, r, d, pos)
    PROVE  Ends(f, list_replace(h, r, pos, d))
<1>w. PICK w : w = View(h)[r]
  OBVIOUS
<1>1. On(h, f, r) /\ Enough(h, r) /\ Held(h, f, d) /\ pos \in 0 .. h[r].len - 1
  BY Zenon DEF Replaces
<1>2. w \in Seq(Int) /\ Len(w) = h[r].len
  BY <1>1, <1>w, OnFacts
<1>3. Ours(h, f, r, w, Exclusive(h, r))
  BY <1>1, <1>w, ExclusiveIs, Zenon
<1>4. PICK o, k, c : Exclusive(h, r) = [ref |-> o, heap |-> k] /\ Changed(h, f, o, c, w, k)
  BY <1>3, Zenon DEF Ours
<1>5. /\ Alone(k, f, o) /\ View(k)[o] = w /\ k[o] = c /\ o \in Refs /\ Lasts(c) /\ c.len = Len(w)
      /\ c.start \in Nat /\ c.size \in Nat /\ c.start + c.len <= c.size /\ DOMAIN k = Refs
      /\ c.el \in [0 .. c.size - 1 -> Int]
  BY <1>4, ChangedFacts
<1>a. PICK a : a = c.start + pos
  OBVIOUS
<1>x. PICK x : x = El(c, a)
  OBVIOUS
<1>j. PICK j : j = data_discard(k, <<x>>)
  OBVIOUS
<1>b. PICK b : b = Erased(c, pos)
  OBVIOUS
<1>g. PICK g : g = PutIn(j, o, b)
  OBVIOUS
<1>s. PICK s : s = Instead(w, pos + 1, 0)
  OBVIOUS
<1>t. PICK t : t = Instead(w, pos + 1, d)
  OBVIOUS
<1>m. PICK m : m = Written(c.el, a, 0)
  OBVIOUS
<1>6. Changed(k, f, o, b, s, g) /\ j[o] = c
  <2>1. Erasing(k, f, o, c, w, pos)
    BY <1>1, <1>2, <1>5, Zenon DEF Erasing
  <2>2. x = El(c, c.start + pos)
    BY <1>a, <1>x, Zenon
  <2>3. /\ Changed(k, f, o, Erased(c, pos), Instead(w, pos + 1, 0), PutIn(j, o, Erased(c, pos)))
        /\ j[o] = c
    BY <1>j, <2>1, <2>2, ErasedIs
  <2> QED BY <1>b, <1>g, <1>s, <2>3, Zenon
<1>7. Changed(h, f, o, b, s, g)
  BY <1>4, <1>6, ChangedTwice
<1>8. /\ Alone(g, f, o) /\ View(g)[o] = s /\ g[o] = b /\ b.len = Len(s) /\ DOMAIN g = Refs /\ Lasts(b)
      /\ Fills(View(g), o, s)
  BY <1>7, ChangedFacts
<1>9. Live(g, d) /\ d # -o
  BY <1>1, <1>7, HeldDatum
<1>10. d \in Int /\ Datum(View(g), d)
  BY <1>9 DEF Live, Datum
<1>11. m \in [0 .. c.size - 1 -> Int] /\ \A i \in 0 .. c.size - 1 : m[i] = IF i = a THEN 0 ELSE c.el[i]
  BY <1>5, <1>m DEF Written
<1>12. b = WithEl(c, m) /\ b.size = c.size /\ b.start = c.start /\ b.el = m /\ WithEl(b, m) = b
       /\ \A n : WithEl(b, n) = WithEl(c, n)
  <2>1. b = WithEl(c, m)
    BY <1>a, <1>b, <1>m, Zenon DEF Erased
  <2>2. /\ b.size = c.size /\ b.start = c.start /\ b.el = m
        /\ \A n : WithEl(WithEl(c, m), n) = WithEl(c, n)
    BY <1>5, <1>11, <2>1, WithElIs
  <2> QED BY <2>1, <2>2, Zenon
<1>13. pos + 1 \in 1 .. Len(w) /\ Len(w) \in Nat /\ pos \in Nat
  BY <1>1, <1>2
<1>14. Exchanged(w, Len(w), pos + 1, 0, s) /\ Exchanged(w, Len(w), pos + 1, d, t)
  <2>1. 0 \in Int
    OBVIOUS
  <2> QED BY <1>2, <1>10, <1>13, <1>s, <1>t, <2>1, InsteadIs, Zenon
<1>15. /\ s \in Seq(Int) /\ Len(s) = Len(w) /\ s[pos + 1] = 0
       /\ \A i \in 1 .. Len(w) : i # pos + 1 => s[i] = w[i]
       /\ \A q : Occurrences(q, s) + Occurrences(q, <<w[pos + 1]>>) = Occurrences(q, w) + Occurrences(q, <<0>>)
  BY <1>14, Zenon DEF Exchanged
<1>16. /\ t \in Seq(Int) /\ Len(t) = Len(w) /\ t[pos + 1] = d
       /\ \A i \in 1 .. Len(w) : i # pos + 1 => t[i] = w[i]
       /\ \A q : Occurrences(q, t) + Occurrences(q, <<w[pos + 1]>>) = Occurrences(q, w) + Occurrences(q, <<d>>)
  BY <1>14, Zenon DEF Exchanged
<1>17. Fills(View(g), o, t)
  <2>1. \A i \in 1 .. Len(w) : Datum(View(g), s[i]) /\ s[i] # -o
    BY <1>8, <1>15, Zenon DEF Fills
  <2>2. \A i \in 1 .. Len(w) : Datum(View(g), t[i]) /\ t[i] # -o
    <3> TAKE i \in 1 .. Len(w)
    <3>1. CASE i = pos + 1
      BY <1>9, <1>10, <1>16, <3>1, Zenon
    <3>2. CASE i # pos + 1
      BY <1>15, <1>16, <2>1, <3>2, Zenon
    <3> QED BY <3>1, <3>2, Zenon
  <2>3. Len(t) <= MaxLen
    BY <1>8, <1>15, <1>16 DEF Fills
  <2> QED BY <1>16, <2>2, <2>3, Zenon DEF Fills
<1>18. \A i \in 1 .. Len(t) : t[i] = IF c.start + i - 1 = a THEN d ELSE m[c.start + i - 1]
  <2> TAKE i \in 1 .. Len(t)
  <2>0. /\ i \in 1 .. Len(w) /\ Len(w) \in Nat /\ c.start \in Nat /\ c.size \in Nat
        /\ c.start + Len(w) <= c.size /\ a = c.start + pos /\ pos \in Nat
    BY <1>5, <1>13, <1>16, <1>a, Zenon
  <2>y. PICK y : y = c.start + i - 1
    OBVIOUS
  <2>1. y \in 0 .. c.size - 1 /\ (y = a <=> i = pos + 1)
    BY <2>0, <2>y, SMTT(30)
  <2>2. CASE i = pos + 1
    BY <1>16, <2>1, <2>2, <2>y, Zenon
  <2>3. CASE i # pos + 1
    <3>1. t[i] = w[i]
      BY <1>16, <2>0, <2>3, Zenon
    <3>2. m[y] = c.el[y]
      BY <1>11, <2>1, <2>3, Zenon
    <3>3. w[i] = c.el[y]
      <4>1. \A n \in 1 .. Len(w) : w[n] = c.el[c.start + n - 1]
        BY <1>4, ChangedFacts
      <4> QED BY <2>0, <2>y, <4>1, Zenon
    <3> QED BY <2>1, <2>3, <2>y, <3>1, <3>2, <3>3, Zenon
  <2> QED BY <2>2, <2>3, Zenon
<1>19. \A q \in Refs : Occurrences(-q, t) = Occurrences(-q, View(g)[o]) + Occurrences(-q, <<d>>)
  <2> TAKE q \in Refs
  <2>1. Occurrences(-q, <<0>>) = 0
    <3>1. -q # 0
      BY MinusIs
    <3> QED BY <3>1, OccOne
  <2>2. Occurrences(-q, w) \in Nat /\ Occurrences(-q, s) \in Nat /\ Occurrences(-q, t) \in Nat
    BY <1>2, <1>15, <1>16, OccNat
  <2>3. Occurrences(-q, <<d>>) \in Nat /\ Occurrences(-q, <<w[pos + 1]>>) \in Nat
    BY OccOne
  <2>4. Occurrences(-q, s) + Occurrences(-q, <<w[pos + 1]>>) = Occurrences(-q, w) + Occurrences(-q, <<0>>)
    BY <1>15
  <2>5. Occurrences(-q, t) + Occurrences(-q, <<w[pos + 1]>>) = Occurrences(-q, w) + Occurrences(-q, <<d>>)
    BY <1>16
  <2>6. Occurrences(-q, t) = Occurrences(-q, s) + Occurrences(-q, <<d>>)
    BY <2>1, <2>2, <2>3, <2>4, <2>5
  <2> QED BY <1>8, <2>6, Zenon
<1>20. Editable(g, f, o, m, a, d, t)
  <2>1. m \in [0 .. g[o].size - 1 -> Int] /\ Len(t) = g[o].len
    BY <1>8, <1>11, <1>12, <1>15, <1>16, Zenon
  <2>2. \A i \in 1 .. Len(t) : t[i] = IF g[o].start + i - 1 = a THEN d ELSE m[g[o].start + i - 1]
    BY <1>8, <1>12, <1>18, Zenon
  <2> QED BY <1>8, <1>9, <1>17, <1>19, <2>1, <2>2, Zenon DEF Editable
<1>p. PICK p : p = [ref |-> o, heap |-> PutIn(g, o, WithEl(g[o], m))]
  OBVIOUS
<1>21. PICK l, e : Write(p, a, d) = [ref |-> o, heap |-> l] /\ Changed(g, f, o, e, t, l)
  BY <1>20, <1>p, Edited
<1>u. PICK u : u = [ref |-> o, heap |-> j]
  OBVIOUS
<1>z. PICK z : z = [ref |-> o, heap |-> PutIn(data_dup(g, <<d>>), o, WithEl(c, Written(c.el, a, d)))]
  OBVIOUS
<1>22. Write(u, a, d) = z
  <2>1. DOMAIN j = Refs /\ \A q \in Refs : q # o => g[q] = j[q]
    <3>1. DOMAIN j = Refs
      BY <1>j DEF data_discard
    <3> QED BY <1>g, <3>1 DEF PutIn
  <2>2. Lasts(j[o])
    BY <1>5, <1>6, Zenon
  <2>3. Write(u, a, d)
        = [ref |-> o, heap |-> PutIn(data_dup(g, <<d>>), o, WithEl(j[o], Written(j[o].el, a, d)))]
    <3>1. o \in Refs /\ d # -o /\ DOMAIN g = Refs /\ u = [ref |-> o, heap |-> j]
      BY <1>5, <1>8, <1>9, <1>u, Zenon
    <3> QED BY <2>1, <2>2, <3>1, WriteIs
  <2> QED BY <1>6, <1>z, <2>3, Zenon
<1>23. Write(p, a, d) = z
  <2>i. PICK i : i = PutIn(g, o, WithEl(g[o], m))
    OBVIOUS
  <2>1. DOMAIN i = Refs /\ i[o] = b /\ \A q \in Refs : q # o => g[q] = i[q]
    BY <1>5, <1>8, <1>12, <2>i DEF PutIn
  <2>2. Lasts(i[o])
    BY <1>8, <2>1, Zenon
  <2>3. p = [ref |-> o, heap |-> i]
    BY <1>p, <2>i, Zenon
  <2>4. Write(p, a, d)
        = [ref |-> o, heap |-> PutIn(data_dup(g, <<d>>), o, WithEl(i[o], Written(i[o].el, a, d)))]
    BY <1>5, <1>8, <1>9, <2>1, <2>2, <2>3, WriteIs
  <2>5. Written(i[o].el, a, d) = Written(c.el, a, d)
    <3>1. i[o].el = m
      BY <1>12, <2>1, Zenon
    <3>2. Written(m, a, d) = Written(c.el, a, d)
      BY <1>m, WrittenTwice
    <3> QED BY <3>1, <3>2, Zenon
  <2>6. WithEl(i[o], Written(i[o].el, a, d)) = WithEl(c, Written(c.el, a, d))
    BY <1>12, <2>1, <2>5, Zenon
  <2> QED BY <1>z, <2>4, <2>6, Zenon
<1>24. list_replace(h, r, pos, d) = Write(u, a, d)
  <2>v. PICK v : v = [ref |-> o, heap |-> k]
    OBVIOUS
  <2>1. v.heap = k /\ v.ref = o
    BY <2>v
  <2>2. pos + v.heap[v.ref].start = a
    BY <1>5, <1>13, <1>a, <2>1
  <2>3. list_replace(h, r, pos, d) = Write([v EXCEPT !.heap = data_discard(@, <<El(@[v.ref], a)>>)], a, d)
    BY <1>4, <2>2, <2>v, Zenon DEF list_replace
  <2>4. [v EXCEPT !.heap = data_discard(@, <<El(@[v.ref], a)>>)] = [v EXCEPT !.heap = j]
    BY <1>5, <1>j, <1>x, <2>1, Zenon
  <2>5. [v EXCEPT !.heap = j] = u
    BY <1>u, <2>v
  <2> QED BY <2>3, <2>4, <2>5, Zenon
<1>25. On(l, f, o)
  BY <1>21, ChangedFacts
<1> QED BY <1>21, <1>22, <1>23, <1>24, <1>25, Zenon DEF Ends

-----------------------------------------------------------------------------
(* list_delete: one element is given up, those after it are moved.           *)
Deletes(h, f, r, pos) == On(h, f, r) /\ Ready(h, r) /\ pos \in 0 .. h[r].len - 1
Cut(w, pos) == [i \in 1 .. Len(w) - 1 |-> w[IF i <= pos THEN i ELSE i + 1]]

Cuts(w, pos, n, s) == w \in Seq(Int) /\ n = Len(w) - 1 /\ pos \in 0 .. n /\ s = Cut(w, pos)
IsCut(w, pos, n, s) ==
    /\ s \in Seq(Int) /\ Len(s) = n /\ TakenOut(w, s, <<w[pos + 1]>>, pos) /\ w[pos + 1] \in Int
    /\ \A i \in 1 .. n : \E j \in 1 .. Len(w) : s[i] = w[j]

LEMMA CutIs ==
    ASSUME NEW w, NEW pos, NEW n, NEW s, Cuts(w, pos, n, s)
    PROVE  IsCut(w, pos, n, s)
<1>n. w \in Seq(Int) /\ n = Len(w) - 1 /\ pos \in 0 .. n /\ s = Cut(w, pos)
  BY Zenon DEF Cuts
<1>x. PICK x : x = w[pos + 1]
  OBVIOUS
<1>0. n \in Nat /\ Len(w) = n + 1 /\ pos \in 0 .. n /\ pos \in Nat /\ DOMAIN w = 1 .. n + 1
      /\ \A i \in 1 .. n + 1 : w[i] \in Int
  BY <1>n
<1>1. s = [i \in 1 .. n |-> w[IF i <= pos THEN i ELSE i + 1]]
  BY <1>n, Zenon DEF Cut
<1>2. s \in Seq(Int) /\ Len(s) = n /\ DOMAIN s = 1 .. n
  <2>1. \A i \in 1 .. n : w[IF i <= pos THEN i ELSE i + 1] \in Int
    BY <1>0
  <2> QED BY <1>0, <1>1, <2>1
<1>t. PICK t : t = <<x>>
  OBVIOUS
<1>3. TakenOut(w, s, t, pos)
  <2>1. Len(t) = 1 /\ DOMAIN t = 1 .. 1 /\ t[1] = x
    BY <1>t
  <2>2. \A i \in 1 .. Len(t) : t[i] = w[pos + i]
    BY <1>0, <1>x, <2>1
  <2>3. \A i \in 1 .. n : s[i] = w[IF i <= pos THEN i ELSE i + 1]
    BY <1>1
  <2>4. DOMAIN w = 1 .. Len(s) + Len(t) /\ DOMAIN s = 1 .. Len(s) /\ DOMAIN t = 1 .. Len(t)
        /\ Len(s) \in Nat /\ Len(t) \in Nat /\ pos \in 0 .. Len(s)
    BY <1>0, <1>2, <2>1
  <2> QED BY <1>2, <2>1, <2>2, <2>3, <2>4, Zenon DEF TakenOut
<1>4. x \in Int
  BY <1>0, <1>x
<1>5. \A i \in 1 .. n : \E j \in 1 .. Len(w) : s[i] = w[j]
  <2> TAKE i \in 1 .. n
  <2>1. (IF i <= pos THEN i ELSE i + 1) \in 1 .. Len(w)
    BY <1>0
  <2>2. s[i] = w[IF i <= pos THEN i ELSE i + 1]
    BY <1>1
  <2> QED BY <2>1, <2>2, Zenon
<1> QED BY <1>2, <1>3, <1>4, <1>5, <1>t, <1>x, Zenon DEF IsCut

(* The array after MEMMOVE.                                                  *)
Closes(n, size, m, pos, u) ==
    /\ n \in Nat /\ size \in Nat /\ DOMAIN m = 0 .. size - 1 /\ n < size /\ pos \in 0 .. n
    /\ u = MEMMOVE(m, pos, pos + 1, n - pos)
LEMMA ClosedIs ==
    ASSUME NEW n, NEW size, NEW m, NEW pos, NEW u, Closes(n, size, m, pos, u), NEW i \in 1 .. n
    PROVE  u[i - 1] = m[IF i <= pos THEN i - 1 ELSE i] /\ DOMAIN u = 0 .. size - 1
<1>0. n \in Nat /\ size \in Nat /\ DOMAIN m = 0 .. size - 1 /\ n < size /\ pos \in 0 .. n
  BY Zenon DEF Closes
<1>1. u = [y \in 0 .. size - 1 |-> IF y \in pos .. pos + (n - pos) - 1 /\ y - pos + (pos + 1) \in 0 .. size - 1
                                   THEN m[y - pos + (pos + 1)] ELSE m[y]]
  BY Zenon DEF MEMMOVE, Closes
<1>2. i - 1 \in 0 .. size - 1
  BY <1>0
<1>3. CASE i <= pos
  <2>1. ~(i - 1 \in pos .. pos + (n - pos) - 1)
    BY <1>0, <1>3
  <2> QED BY <1>1, <1>2, <1>3, <2>1
<1>4. CASE ~(i <= pos)
  <2>1. i - 1 \in pos .. pos + (n - pos) - 1 /\ i - 1 - pos + (pos + 1) \in 0 .. size - 1
        /\ i - 1 - pos + (pos + 1) = i
    BY <1>0, <1>4
  <2>2. u[i - 1] = m[i - 1 - pos + (pos + 1)]
    BY <1>1, <1>2, <2>1
  <2> QED BY <1>1, <1>4, <2>1, <2>2
<1> QED BY <1>3, <1>4

Closing(c, w, pos, n) ==
    /\ Lasts(c) /\ c.start = 0 /\ Window(c) = w /\ w \in Seq(Int) /\ c.len = Len(w)
    /\ n = Len(w) - 1 /\ pos \in 0 .. n
Closed(c, pos, n) ==
    Trimmed([c EXCEPT !.len = n, !.el = MEMMOVE(@, pos, pos + 1, n - pos)])

LEMMA ClosedFresh ==
    ASSUME NEW c, NEW w, NEW pos, NEW n, Closing(c, w, pos, n)
    PROVE  Closed(c, pos, n) = Fresh(c.size, 0, n, c.refs, Cut(w, pos))
<1>0. /\ Lasts(c) /\ c.start = 0 /\ Window(c) = w /\ w \in Seq(Int) /\ c.len = Len(w)
      /\ n = Len(w) - 1 /\ pos \in 0 .. n
  BY Zenon DEF Closing
<1>1. n \in Nat /\ Len(w) = n + 1 /\ pos \in Nat /\ c.size \in Nat /\ n < c.size /\ c.el \in [0 .. c.size - 1 -> Int]
  <2>1. n \in Nat /\ Len(w) = n + 1 /\ pos \in Nat
    BY <1>0
  <2>2. c.size \in Nat /\ c.start + c.len <= c.size /\ c.el \in [0 .. c.size - 1 -> Int]
    BY <1>0, Zenon DEF Lasts
  <2> QED BY <1>0, <2>1, <2>2
<1>2. \A i \in 1 .. n + 1 : w[i] = c.el[i - 1]
  <2>1. \A i \in 1 .. c.len : w[i] = c.el[c.start + i - 1]
    BY <1>0, WindowIs
  <2> QED BY <1>0, <1>1, <2>1
<1>m. PICK m : m = c.el
  OBVIOUS
<1>u. PICK u : u = MEMMOVE(m, pos, pos + 1, n - pos)
  OBVIOUS
<1>3. \A i \in 1 .. n : u[i - 1] = m[IF i <= pos THEN i - 1 ELSE i] /\ DOMAIN u = 0 .. c.size - 1
  <2>1. DOMAIN m = 0 .. c.size - 1
    BY <1>1, <1>m
  <2>2. Closes(n, c.size, m, pos, u)
    BY <1>0, <1>1, <1>u, <2>1, Zenon DEF Closes
  <2> QED BY <2>2, ClosedIs
<1>d. PICK d : d = [c EXCEPT !.len = n, !.el = MEMMOVE(@, pos, pos + 1, n - pos)]
  OBVIOUS
<1>4. d = [start |-> 0, len |-> n, size |-> c.size, refs |-> c.refs, el |-> u]
  <2>1. PICK b, l, z, k, e : c = [start |-> b, len |-> l, size |-> z, refs |-> k, el |-> e]
    BY <1>0, Zenon DEF Lasts
  <2>2. [c EXCEPT !.len = n, !.el = u] = [start |-> b, len |-> n, size |-> z, refs |-> k, el |-> u]
    <3>1. PICK x : x = [c EXCEPT !.len = n]
      OBVIOUS
    <3>2. x = [start |-> b, len |-> n, size |-> z, refs |-> k, el |-> e]
      BY <2>1, <3>1
    <3>3. [x EXCEPT !.el = u] = [start |-> b, len |-> n, size |-> z, refs |-> k, el |-> u]
      BY <3>2
    <3>4. [c EXCEPT !.len = n, !.el = u] = [x EXCEPT !.el = u]
      BY <3>1
    <3> QED BY <3>3, <3>4
  <2>3. c.start = b /\ c.size = z /\ c.refs = k
    BY <2>1
  <2>4. d = [c EXCEPT !.len = n, !.el = u]
    BY <1>d, <1>m, <1>u, Zenon
  <2> QED BY <1>0, <2>2, <2>3, <2>4, Zenon
<1>5. d.start = 0 /\ d.len = n /\ d.size = c.size /\ d.el = u
  BY <1>4
<1>6. Window(d) = Cut(w, pos)
  <2>1. \A i \in 1 .. n : El(d, 0 + i - 1) = w[IF i <= pos THEN i ELSE i + 1]
    <3> TAKE i \in 1 .. n
    <3>1. i - 1 \in 0 .. c.size - 1 /\ 0 + i - 1 = i - 1
      BY <1>1
    <3>2. El(d, i - 1) = u[i - 1]
      <4>1. DOMAIN u = 0 .. c.size - 1
        BY <1>3
      <4> QED BY <1>5, <3>1, <4>1 DEF El
    <3>3. u[i - 1] = m[IF i <= pos THEN i - 1 ELSE i]
      BY <1>3
    <3>4. CASE i <= pos
      <4>1. i \in 1 .. n + 1
        BY <1>1
      <4>2. w[i] = c.el[i - 1]
        BY <1>2, <4>1
      <4> QED BY <1>m, <3>1, <3>2, <3>3, <3>4, <4>2
    <3>5. CASE ~(i <= pos)
      <4>1. i + 1 \in 1 .. n + 1 /\ i + 1 - 1 = i
        BY <1>1
      <4>2. w[i + 1] = c.el[i]
        BY <1>2, <4>1
      <4> QED BY <1>m, <3>1, <3>2, <3>3, <3>5, <4>2
    <3> QED BY <3>4, <3>5
  <2>2. Window(d) = [i \in 1 .. n |-> El(d, 0 + i - 1)]
    <3>1. Window(d) = [i \in 1 .. d.len |-> El(d, d.start + i - 1)]
      BY Zenon DEF Window
    <3> QED BY <1>5, <3>1, Zenon
  <2>3. Cut(w, pos) = [i \in 1 .. n |-> w[IF i <= pos THEN i ELSE i + 1]]
    BY <1>0, Zenon DEF Cut
  <2> QED BY <2>1, <2>2, <2>3
<1>7. Trimmed(d) = Fresh(c.size, 0, n, c.refs, Cut(w, pos))
  <2>s. PICK s : s = Array(c.size, 0, Cut(w, pos))
    OBVIOUS
  <2>1. Trimmed(d) = [d EXCEPT !.el = s]
    BY <1>5, <1>6, <2>s, Zenon DEF Trimmed
  <2>2. [d EXCEPT !.el = s] = [start |-> 0, len |-> n, size |-> c.size, refs |-> c.refs, el |-> s]
    BY <1>4
  <2> QED BY <2>1, <2>2, <2>s, Zenon DEF Fresh
<1> QED BY <1>7, <1>d, Zenon DEF Closed

(* A list that only the operator holds, as s at the start of its array.      *)
Settled(h, f, o, s, k) ==
    Alone(k, f, o) /\ k[o].start = 0 /\ View(k)[o] = s /\ Stays(h, k, f)

LEMMA SettledEnds ==
    ASSUME NEW h, NEW f, NEW o, NEW s, NEW k, Settled(h, f, o, s, k), NEW p, p = [ref |-> o, heap |-> k]
    PROVE  Ended(h, f, Len(s), p)
<1>1. Alone(k, f, o) /\ k[o].start = 0 /\ View(k)[o] = s /\ Stays(h, k, f)
  BY Zenon DEF Settled
<1>2. On(k, f, o)
  BY <1>1 DEF Alone
<1>3. Len(View(k)[o]) = k[o].len
  BY <1>2, OnFacts
<1> QED BY <1>1, <1>3, Zenon DEF Ended

LEMMA ChangedSettled ==
    ASSUME NEW h, NEW f, NEW o, NEW c, NEW s, NEW k, Changed(h, f, o, c, s, k), c.start = 0
    PROVE  Settled(h, f, o, s, k)
<1>1. Alone(k, f, o) /\ k[o] = c /\ View(k)[o] = s
  BY ChangedFacts
<1>2. \A x \in Refs : f[x] > 0 => View(k)[x] = View(h)[x]
  BY HeldStays
<1> QED BY <1>1, <1>2, Zenon DEF Settled, Stays

(* ModifyAll of a list that is settled may give back a part of its array.    *)
LEMMA SettledAgain ==
    ASSUME NEW h, NEW f, NEW o, NEW s, NEW k, Settled(h, f, o, s, k)
    PROVE  Ended(h, f, Len(s), ModifyAll(k, o, 0))
<1>1. Alone(k, f, o) /\ k[o].start = 0 /\ View(k)[o] = s /\ Stays(h, k, f)
  BY Zenon DEF Settled
<1>2. On(k, f, o) /\ k[o].refs = 1
  BY <1>1 DEF Alone
<1>3. s \in Seq(Int) /\ Len(s) = k[o].len /\ Len(s) \in 0 .. MaxLen /\ Len(s) \in Nat
  BY <1>1, <1>2, OnFacts
<1>4. Ready(k, o)
  BY <1>1, <1>2 DEF Ready
<1>5. Ours(k, f, o, Stretch(s, 0, Len(s)), ModifyAll(k, o, 0))
  <2>1. k[o].len + 0 = Len(s)
    BY <1>3
  <2>2. Ours(k, f, o, Stretch(View(k)[o], 0, Len(s)), ModifyAll(k, o, 0))
    BY <1>2, <1>3, <1>4, <2>1, OursIs
  <2> QED BY <1>1, <2>2, Zenon
<1>6. Stretch(s, 0, Len(s)) = s
  BY <1>3, PieceFacts
<1>7. PICK n, l, c : /\ ModifyAll(k, o, 0) = [ref |-> n, heap |-> l] /\ Changed(k, f, n, c, s, l)
                     /\ c.start = 0 \/ (k[o].refs = 1 /\ c.start = k[o].start)
  BY <1>5, <1>6, Zenon DEF Ours
<1>8. c.start = 0
  BY <1>1, <1>7, Zenon
<1>9. Settled(k, f, n, s, l)
  BY <1>7, <1>8, ChangedSettled
<1>10. Settled(h, f, n, s, l)
  <2>1. Stays(k, l, f)
    BY <1>9, Zenon DEF Settled
  <2>2. Stays(h, l, f)
    BY <1>1, <2>1, Zenon DEF Stays
  <2> QED BY <1>9, <2>2, Zenon DEF Settled
<1> QED BY <1>7, <1>10, SettledEnds

LEMMA DeleteLast ==
    ASSUME NEW h, NEW f, NEW r, NEW pos, Deletes(h, f, r, pos), pos = h[r].len - 1
    PROVE  Ended(h, f, h[r].len - 1, list_delete(h, r, pos))
<1>w. PICK w : w = View(h)[r]
  OBVIOUS
<1>1. On(h, f, r) /\ Ready(h, r) /\ pos \in 0 .. h[r].len - 1
  BY Zenon DEF Deletes
<1>2. w \in Seq(Int) /\ Len(w) = h[r].len /\ h[r].len \in 0 .. MaxLen /\ h[r].refs \in Nat /\ h[r].len \in Nat
  BY <1>1, <1>w, OnFacts
<1>n. PICK n : n = h[r].len - 1
  OBVIOUS
<1>3. n \in 0 .. MaxLen /\ h[r].len + (-1) = n
  BY <1>1, <1>2, <1>n, RefsAre
<1>4. Ours(h, f, r, Stretch(w, 0, n), ModifyAll(h, r, -1))
  BY <1>1, <1>3, <1>w, OursIs
<1>5. PICK o, k, c : /\ ModifyAll(h, r, -1) = [ref |-> o, heap |-> k] /\ Changed(h, f, o, c, Stretch(w, 0, n), k)
                     /\ c.start = 0 \/ (h[r].refs = 1 /\ c.start = h[r].start)
  BY <1>4, Zenon DEF Ours
<1>6. c.start = 0
  BY <1>1, <1>2, <1>5 DEF Ready
<1>7. Len(Stretch(w, 0, n)) = n
  BY <1>2, <1>3, PieceFacts
<1>8. Ended(h, f, n, ModifyAll(h, r, -1))
  <2>1. Settled(h, f, o, Stretch(w, 0, n), k)
    BY <1>5, <1>6, ChangedSettled
  <2>2. Ended(h, f, Len(Stretch(w, 0, n)), ModifyAll(h, r, -1))
    BY <1>5, <2>1, SettledEnds
  <2> QED BY <1>7, <2>2, Zenon
<1>9. list_delete(h, r, pos) = ModifyAll(h, r, -1)
  BY Zenon DEF list_delete
<1> QED BY <1>8, <1>9, <1>n, Zenon

FreshOf(b, size, a, n, s) ==
    /\ s \in Seq(Int) /\ Len(s) = n /\ n \in 0 .. MaxLen /\ size \in Nat /\ a \in Nat /\ a + n <= size
    /\ b = Fresh(size, a, n, 1, s)
LEMMA FreshOfIs ==
    ASSUME NEW b, NEW size, NEW a, NEW n, NEW s, FreshOf(b, size, a, n, s)
    PROVE  WholeList(b, s) /\ b.start = a /\ b.len = n
<1>1. /\ s \in Seq(Int) /\ Len(s) = n /\ n \in 0 .. MaxLen /\ size \in Nat /\ a \in Nat /\ a + n <= size
      /\ b = Fresh(size, a, n, 1, s)
  BY Zenon DEF FreshOf
<1>2. Len(s) <= n
  BY <1>1
<1>3. /\ WholeList(b, Window(b)) /\ Padded(Window(b), s) /\ Len(Window(b)) = n /\ b.len = n /\ b.start = a
  BY <1>1, <1>2, FreshIs
<1>u. PICK u : u = Window(b)
  OBVIOUS
<1>4. u \in Seq(Int) /\ Len(u) = n /\ \A i \in 1 .. Len(u) : u[i] = IF i <= Len(s) THEN s[i] ELSE 0
  BY <1>3, <1>u, Zenon DEF Padded
<1>5. \A i \in 1 .. n : u[i] = s[i]
  BY <1>1, <1>4
<1>6. u = s
  BY <1>1, <1>4, <1>5
<1> QED BY <1>3, <1>6, <1>u, Zenon

LEMMA DeleteInner ==
    ASSUME NEW h, NEW f, NEW r, NEW pos, Deletes(h, f, r, pos), pos # h[r].len - 1
    PROVE  Ended(h, f, h[r].len - 1, list_delete(h, r, pos))
<1>w. PICK w : w = View(h)[r]
  OBVIOUS
<1>1. On(h, f, r) /\ Ready(h, r) /\ pos \in 0 .. h[r].len - 1
  BY Zenon DEF Deletes
<1>2. w \in Seq(Int) /\ Len(w) = h[r].len /\ h[r].len \in 0 .. MaxLen /\ h[r].refs \in Nat /\ h[r].len \in Nat
  BY <1>1, <1>w, OnFacts
<1>n. PICK n : n = h[r].len - 1
  OBVIOUS
<1>3. n \in 0 .. MaxLen /\ n \in Nat /\ n = Len(w) - 1 /\ pos \in 0 .. n /\ pos \in 0 .. Len(w) - 1 /\ pos \in Nat
      /\ Len(w) = n + 1
  BY <1>1, <1>2, <1>n, RefsAre
<1>4. Ours(h, f, r, w, Exclusive(h, r))
  <2>1. Enough(h, r)
    BY <1>1, Zenon DEF Ready, Enough
  <2> QED BY <1>1, <1>w, <2>1, ExclusiveIs, Zenon
<1>5. PICK o, k, c : /\ Exclusive(h, r) = [ref |-> o, heap |-> k] /\ Changed(h, f, o, c, w, k)
                     /\ c.start = 0 \/ (h[r].refs = 1 /\ c.start = h[r].start)
  BY <1>4, Zenon DEF Ours
<1>6. c.start = 0
  BY <1>1, <1>2, <1>5 DEF Ready
<1>7. /\ Alone(k, f, o) /\ View(k)[o] = w /\ k[o] = c /\ o \in Refs /\ Lasts(c) /\ c.len = Len(w) /\ c.refs = 1
      /\ c.start \in Nat /\ c.size \in Nat /\ c.start + c.len <= c.size /\ DOMAIN k = Refs
      /\ Window(c) = w /\ Fills(View(k), o, w) /\ c.el \in [0 .. c.size - 1 -> Int]
      /\ \A i \in 1 .. Len(w) : w[i] = c.el[c.start + i - 1]
  BY <1>5, ChangedFacts
<1>s. PICK s : s = Cut(w, pos)
  OBVIOUS
<1>x. PICK x : x = El(c, pos)
  OBVIOUS
<1>8. x = w[pos + 1]
  <2>1. pos \in 0 .. c.size - 1 /\ pos + 1 \in 1 .. Len(w) /\ c.start + (pos + 1) - 1 = pos
    <3>1. Len(w) <= c.size /\ c.size \in Nat
      BY <1>3, <1>6, <1>7
    <3> QED BY <1>3, <1>6, <3>1
  <2>2. x = c.el[pos]
    BY <1>7, <1>x, <2>1 DEF El
  <2> QED BY <1>7, <2>1, <2>2, Zenon
<1>9. /\ s \in Seq(Int) /\ Len(s) = n /\ TakenOut(w, s, <<x>>, pos) /\ x \in Int
      /\ \A i \in 1 .. Len(s) : \E j \in 1 .. Len(w) : s[i] = w[j]
  <2>1. Cuts(w, pos, n, s)
    BY <1>2, <1>3, <1>s, Zenon DEF Cuts
  <2>2. IsCut(w, pos, n, s)
    BY <2>1, CutIs
  <2> QED BY <1>8, <2>2, Zenon DEF IsCut
<1>b. PICK b : b = Fresh(c.size, 0, n, 1, s)
  OBVIOUS
<1>10. Closed(c, pos, n) = b
  <2>1. Closing(c, w, pos, n)
    BY <1>2, <1>3, <1>6, <1>7, Zenon DEF Closing
  <2>2. Closed(c, pos, n) = Fresh(c.size, 0, n, c.refs, Cut(w, pos))
    BY <2>1, ClosedFresh
  <2> QED BY <1>7, <1>b, <1>s, <2>2, Zenon
<1>11. WholeList(b, s) /\ b.start = 0 /\ b.len = n
  <2>1. 0 + n <= c.size /\ 0 \in Nat
    BY <1>3, <1>6, <1>7
  <2>2. FreshOf(b, c.size, 0, n, s)
    BY <1>3, <1>7, <1>9, <1>b, <2>1, Zenon DEF FreshOf
  <2> QED BY <2>2, FreshOfIs
<1>12. Fills(View(k), o, s)
  <2>1. \A j \in 1 .. Len(w) : Datum(View(k), w[j]) /\ w[j] # -o
    BY <1>7, Zenon DEF Fills
  <2>2. \A i \in 1 .. Len(s) : Datum(View(k), s[i]) /\ s[i] # -o
    BY <1>9, <2>1, Zenon
  <2>3. Len(s) <= MaxLen
    BY <1>3, <1>9, RefsAre
  <2> QED BY <1>9, <2>2, <2>3, Zenon DEF Fills
<1>D. PICK D : D = <<x>>
  OBVIOUS
<1>13. \A q \in Refs : Occurrences(-q, View(k)[o]) = Occurrences(-q, s) + Occurrences(-q, D)
  <2> TAKE q \in Refs
  <2>1. TakenOut(w, s, D, pos)
    BY <1>9, <1>D, Zenon
  <2>2. Occurrences(-q, w) = Occurrences(-q, s) + Occurrences(-q, D)
    BY <2>1, OccTakenOut
  <2> QED BY <1>7, <2>2, Zenon
<1>g. PICK g : g = PutIn(data_discard(k, D), o, b)
  OBVIOUS
<1>14. Changed(k, f, o, b, s, g)
  <2>1. D \in Seq(Int)
    BY <1>9, <1>D
  <2> QED BY <1>7, <1>11, <1>12, <1>13, <1>g, <2>1, Impoverished
<1>15. Settled(h, f, o, s, g)
  <2>1. Changed(h, f, o, b, s, g)
    BY <1>5, <1>14, ChangedTwice
  <2> QED BY <1>11, <2>1, ChangedSettled
<1>q. PICK q : q = [ref |-> o, heap |-> g]
  OBVIOUS
<1>16. list_delete(h, r, pos) = q \/ list_delete(h, r, pos) = ModifyAll(g, o, 0)
  <2>p. PICK p : p = [ref |-> o, heap |-> k]
    OBVIOUS
  <2>1. p.heap = k /\ p.ref = o
    BY <2>p
  <2>2. c.len - 1 = n /\ pos + c.start = pos
    BY <1>3, <1>6, <1>7
  <2>z. PICK z : z = [p EXCEPT !.heap = [data_discard(@, <<El(c, pos)>>) EXCEPT ![p.ref] = Closed(c, pos, n)]]
    OBVIOUS
  <2>3. list_delete(h, r, pos) = z \/ list_delete(h, r, pos) = ModifyAll(z.heap, z.ref, 0)
    <3>1. LET list == p.heap[p.ref]
              at == pos + list.start
              len == list.len - 1
              less == Trimmed([list EXCEPT !.len = len, !.el = MEMMOVE(@, at, at + 1, len - at)])
              y == [p EXCEPT !.heap = [data_discard(@, <<El(list, at)>>) EXCEPT ![p.ref] = less]]
          IN  list_delete(h, r, pos)
              = IF (len - list.start) * 4 < list.size /\ list.size > ListStart
                THEN ModifyAll(y.heap, y.ref, 0) ELSE y
      BY <1>5, <2>p, Zenon DEF list_delete
    <3>2. p.heap[p.ref] = c
      BY <1>7, <2>1, Zenon
    <3>3. LET y == [p EXCEPT !.heap = [data_discard(@, <<El(c, pos)>>) EXCEPT ![p.ref] =
                       Trimmed([c EXCEPT !.len = n, !.el = MEMMOVE(@, pos, pos + 1, n - pos)])]]
          IN  list_delete(h, r, pos) = y \/ list_delete(h, r, pos) = ModifyAll(y.heap, y.ref, 0)
      BY <2>2, <3>1, <3>2, Zenon
    <3> QED BY <2>z, <3>3, Zenon DEF Closed
  <2>4. z = q
    <3>1. z = [p EXCEPT !.heap = PutIn(data_discard(k, D), o, b)]
      BY <1>10, <1>D, <1>x, <2>1, <2>z, Zenon DEF PutIn
    <3> QED BY <1>g, <1>q, <2>p, <3>1
  <2>5. q.heap = g /\ q.ref = o
    BY <1>q
  <2> QED BY <2>3, <2>4, <2>5, Zenon
<1>17. CASE list_delete(h, r, pos) = q
  BY <1>9, <1>15, <1>17, <1>n, <1>q, SettledEnds, Zenon
<1>18. CASE list_delete(h, r, pos) = ModifyAll(g, o, 0)
  BY <1>9, <1>15, <1>18, <1>n, SettledAgain, Zenon
<1> QED BY <1>16, <1>17, <1>18, Zenon

LEMMA DeleteIs ==
    ASSUME NEW h, NEW f, NEW r, NEW pos, Deletes(h, f, r, pos)
    PROVE  Ended(h, f, h[r].len - 1, list_delete(h, r, pos))
BY DeleteLast, DeleteInner, Zenon

-----------------------------------------------------------------------------
(* list_append: the elements of another list are added.                      *)
Appends(h, f, r, other) ==
    /\ On(h, f, r) /\ Ready(h, r) /\ other \in Refs /\ f[other] > 0
    /\ h[r].len + h[other].len <= MaxLen
Joined(w, D, s) ==
    /\ s \in Seq(Int) /\ Len(s) = Len(w) + Len(D)
    /\ \A i \in 1 .. Len(w) : s[i] = w[i]
    /\ \A i \in 1 .. Len(D) : s[Len(w) + i] = D[i]
    /\ \A i \in 1 .. Len(s) : i \in 1 .. Len(w) \/ i - Len(w) \in 1 .. Len(D)
    /\ \A x : Occurrences(x, s) = Occurrences(x, w) + Occurrences(x, D)

LEMMA JoinedIs ==
    ASSUME NEW w \in Seq(Int), NEW D \in Seq(Int)
    PROVE  Joined(w, D, w \o D)
<1>s. PICK s : s = w \o D
  OBVIOUS
<1>n. PICK n : n = Len(w)
  OBVIOUS
<1>m. PICK m : m = Len(D)
  OBVIOUS
<1>0. n \in Nat /\ m \in Nat /\ DOMAIN w = 1 .. n /\ DOMAIN D = 1 .. m
  BY <1>m, <1>n
<1>1. s \in Seq(Int) /\ Len(s) = n + m /\ \A i \in 1 .. n + m : s[i] = IF i <= n THEN w[i] ELSE D[i - n]
  BY <1>m, <1>n, <1>s, JoinIs
<1>2. \A i \in 1 .. n : s[i] = w[i]
  BY <1>0, <1>1
<1>3. ASSUME NEW i \in 1 .. m PROVE s[n + i] = D[i]
  <2>j. PICK j : j = n + i
    OBVIOUS
  <2>1. j \in 1 .. n + m /\ ~(j <= n) /\ j - n = i
    BY <1>0, <2>j
  <2> QED BY <1>1, <2>1, <2>j
<1>4. \A i \in 1 .. n + m : i \in 1 .. n \/ i - n \in 1 .. m
  BY <1>0
<1>5. TakenOut(s, w, D, n)
  <2>1. DOMAIN s = 1 .. n + m /\ n \in 0 .. n
    BY <1>0, <1>1
  <2>2. \A i \in 1 .. n : w[i] = s[IF i <= n THEN i ELSE i + m]
    BY <1>0, <1>2
  <2> QED BY <1>0, <1>3, <1>m, <1>n, <2>1, <2>2, Zenon DEF TakenOut
<1>6. \A x : Occurrences(x, s) = Occurrences(x, w) + Occurrences(x, D)
  BY <1>5, OccTakenOut
<1>7. Joined(w, D, s)
  BY <1>1, <1>2, <1>3, <1>4, <1>6, <1>m, <1>n, Zenon DEF Joined
<1> QED BY <1>7, <1>s, Zenon

(* The array after MEMMOVE and data_dup.                                     *)
Ending(el, first, D) ==
    [i \in DOMAIN el |-> IF i - first + 1 \in DOMAIN D THEN D[i - first + 1] ELSE el[i]]
Tailed(c, w, D) ==
    /\ Lasts(c) /\ w \in Seq(Int) /\ D \in Seq(Int) /\ c.start = 0 /\ c.len = Len(w) + Len(D)
    /\ \A i \in 1 .. Len(w) : w[i] = c.el[i - 1]
TailedAs(c, w, D, b) == WholeList(b, w \o D) /\ b.start = 0

LEMMA TailedIs ==
    ASSUME NEW c, NEW w, NEW D, Tailed(c, w, D), c.refs = 1
    PROVE  TailedAs(c, w, D, WithEl(c, Ending(c.el, Len(w), D)))
<1>n. PICK n : n = Len(w)
  OBVIOUS
<1>k. PICK k : k = Len(D)
  OBVIOUS
<1>s. PICK s : s = w \o D
  OBVIOUS
<1>e. PICK e : e = c.el
  OBVIOUS
<1>m. PICK m : m = Ending(e, n, D)
  OBVIOUS
<1>b. PICK b : b = WithEl(c, m)
  OBVIOUS
<1>0. /\ Lasts(c) /\ w \in Seq(Int) /\ D \in Seq(Int) /\ c.start = 0 /\ c.len = n + k
      /\ \A i \in 1 .. n : w[i] = e[i - 1]
  BY <1>e, <1>k, <1>n, Zenon DEF Tailed
<1>1. /\ n \in Nat /\ k \in Nat /\ DOMAIN D = 1 .. k /\ c.size \in Nat /\ n + k <= c.size
      /\ e \in [0 .. c.size - 1 -> Int] /\ \A i \in 1 .. k : D[i] \in Int
  <2>1. c.size \in Nat /\ c.start + c.len <= c.size /\ e \in [0 .. c.size - 1 -> Int]
    BY <1>0, <1>e, Zenon DEF Lasts
  <2> QED BY <1>0, <1>k, <1>n, <2>1
<1>2. Joined(w, D, s)
  BY <1>0, <1>s, JoinedIs
<1>3. /\ s \in Seq(Int) /\ Len(s) = n + k /\ \A i \in 1 .. n : s[i] = w[i]
      /\ \A i \in 1 .. k : s[n + i] = D[i]
  BY <1>2, <1>k, <1>n, Zenon DEF Joined
<1>4. m = [i \in 0 .. c.size - 1 |-> IF i - n + 1 \in 1 .. k THEN D[i - n + 1] ELSE e[i]]
  <2>1. DOMAIN e = 0 .. c.size - 1
    BY <1>1
  <2> QED BY <1>1, <1>m, <2>1, Zenon DEF Ending
<1>5. m \in [0 .. c.size - 1 -> Int]
  <2>1. \A i \in 0 .. c.size - 1 : (IF i - n + 1 \in 1 .. k THEN D[i - n + 1] ELSE e[i]) \in Int
    BY <1>1
  <2> QED BY <1>4, <2>1
<1>6. Lasts(b) /\ b.start = 0 /\ b.len = n + k /\ b.refs = 1 /\ b.el = m
  <2>1. /\ Lasts(b) /\ b.start = c.start /\ b.len = c.len /\ b.refs = c.refs /\ b.el = m
    BY <1>0, <1>5, <1>b, WithElIs
  <2> QED BY <1>0, <2>1, Zenon
<1>7. ASSUME NEW i \in 1 .. n + k PROVE s[i] = m[0 + i - 1]
  <2>j. PICK j : j = i - 1
    OBVIOUS
  <2>1. j \in 0 .. c.size - 1 /\ 0 + i - 1 = j /\ j - n + 1 = i - n
    BY <1>1, <2>j
  <2>2. m[j] = IF j - n + 1 \in 1 .. k THEN D[j - n + 1] ELSE e[j]
    BY <1>4, <2>1
  <2>3. CASE i <= n
    <3>1. i \in 1 .. n /\ ~(i - n \in 1 .. k)
      BY <1>1, <2>3
    <3> QED BY <1>0, <1>3, <2>1, <2>2, <2>j, <3>1, Zenon
  <2>4. CASE ~(i <= n)
    <3>x. PICK x : x = i - n
      OBVIOUS
    <3>1. x \in 1 .. k /\ n + x = i
      BY <1>1, <2>4, <3>x
    <3>2. s[n + x] = D[x]
      BY <1>3, <3>1
    <3> QED BY <2>1, <2>2, <3>1, <3>2, <3>x, Zenon
  <2> QED BY <2>3, <2>4
<1>8. Window(b) = s
  <2>1. \A i \in 1 .. Len(s) : s[i] = b.el[b.start + i - 1]
    BY <1>3, <1>6, <1>7, Zenon
  <2> QED BY <1>3, <1>6, <2>1, SameWindow
<1>9. TailedAs(c, w, D, b)
  BY <1>6, <1>8, <1>s, Zenon DEF TailedAs, WholeList
<1> QED BY <1>9, <1>b, <1>e, <1>m, <1>n, Zenon

(* Data counted and an array rewritten, in one assignment.                   *)
Tells(k, o, D, c) ==
    /\ DOMAIN k = Refs /\ o \in Refs /\ k[o] = c /\ Lasts(c) /\ D \in Seq(Int)
    /\ \A i \in 1 .. Len(D) : D[i] # -o
LEMMA DupSame ==
    ASSUME NEW k, NEW o, NEW D, NEW c, Tells(k, o, D, c)
    PROVE  data_dup(k, D)[o] = c /\ DOMAIN data_dup(k, D) = Refs
<1>1. /\ DOMAIN k = Refs /\ o \in Refs /\ k[o] = c /\ Lasts(c) /\ D \in Seq(Int)
      /\ \A i \in 1 .. Len(D) : D[i] # -o
  BY Zenon DEF Tells
<1>2. Occurrences(-o, D) = 0
  BY <1>1, OccNat
<1>3. c.refs + 0 = c.refs
  <2>1. c.refs \in Nat
    BY <1>1 DEF Lasts
  <2> QED BY <2>1
<1>4. data_dup(k, D)[o] = [c EXCEPT !.refs = @ + Occurrences(-o, D)]
  BY <1>1 DEF data_dup
<1>5. data_dup(k, D)[o] = [c EXCEPT !.refs = c.refs]
  BY <1>2, <1>3, <1>4, Zenon
<1>6. [c EXCEPT !.refs = c.refs] = c
  BY <1>1, SameRecount, Zenon DEF Recount
<1>7. DOMAIN data_dup(k, D) = Refs
  BY DEF data_dup
<1> QED BY <1>5, <1>6, <1>7, Zenon

Added(p, D, first) ==
    [p EXCEPT !.heap = [data_dup(p.heap, D) EXCEPT ![p.ref].el =
        [i \in DOMAIN @ |-> IF i - first + 1 \in DOMAIN D THEN D[i - first + 1] ELSE @[i]]]]
LEMMA AppendsAs ==
    ASSUME NEW k, NEW o, NEW D, NEW c, Tells(k, o, D, c), NEW p, At(p, o, k), NEW first
    PROVE  Added(p, D, first)
           = [ref |-> o, heap |-> PutIn(data_dup(k, D), o, WithEl(c, Ending(c.el, first, D)))]
<1>1. p = [ref |-> o, heap |-> k]
  BY Zenon DEF At
<1>2. p.ref = o /\ p.heap = k
  BY <1>1
<1>g. PICK g : g = data_dup(k, D)
  OBVIOUS
<1>3. g[o] = c
  BY <1>g, DupSame
<1>4. [g EXCEPT ![o].el = [i \in DOMAIN @ |-> IF i - first + 1 \in DOMAIN D THEN D[i - first + 1] ELSE @[i]]]
      = PutIn(g, o, WithEl(c, Ending(c.el, first, D)))
  <2>m. PICK m : m = [i \in DOMAIN c.el |-> IF i - first + 1 \in DOMAIN D THEN D[i - first + 1] ELSE c.el[i]]
    OBVIOUS
  <2>1. [g EXCEPT ![o].el = [i \in DOMAIN @ |-> IF i - first + 1 \in DOMAIN D THEN D[i - first + 1] ELSE @[i]]]
        = [g EXCEPT ![o].el = m]
    BY <1>3, <2>m, Zenon
  <2>2. [g EXCEPT ![o].el = m] = [g EXCEPT ![o] = [g[o] EXCEPT !.el = m]]
    OBVIOUS
  <2>3. m = Ending(c.el, first, D)
    BY <2>m, Zenon DEF Ending
  <2> QED BY <1>3, <2>1, <2>2, <2>3, Zenon DEF PutIn, WithEl
<1>5. \A z : [p EXCEPT !.heap = z] = [ref |-> o, heap |-> z]
  BY <1>1
<1>6. [p EXCEPT !.heap = [data_dup(p.heap, D) EXCEPT ![p.ref].el =
               [i \in DOMAIN @ |-> IF i - first + 1 \in DOMAIN D THEN D[i - first + 1] ELSE @[i]]]]
      = [p EXCEPT !.heap = [g EXCEPT ![o].el =
               [i \in DOMAIN @ |-> IF i - first + 1 \in DOMAIN D THEN D[i - first + 1] ELSE @[i]]]]
  BY <1>2, <1>g, Zenon
<1> QED BY <1>4, <1>5, <1>6, <1>g, Zenon DEF Added

LEMMA AppendIs ==
    ASSUME NEW h, NEW f, NEW r, NEW other, Appends(h, f, r, other)
    PROVE  Ended(h, f, h[r].len + h[other].len, list_append(h, r, other))
<1>w. PICK w : w = View(h)[r]
  OBVIOUS
<1>D. PICK D : D = View(h)[other]
  OBVIOUS
<1>n. PICK n : n = h[r].len
  OBVIOUS
<1>l. PICK l : l = h[other].len
  OBVIOUS
<1>0. On(h, f, r) /\ Ready(h, r) /\ other \in Refs /\ f[other] > 0 /\ n + l <= MaxLen
  BY <1>l, <1>n, Zenon DEF Appends
<1>1. /\ w \in Seq(Int) /\ Len(w) = n /\ n \in Nat /\ h[r].refs \in Nat /\ Heaped(h, Plus(f, r))
      /\ D \in Seq(Int) /\ Len(D) = l /\ l \in Nat /\ D = Window(h[other])
  <2>1. w \in Seq(Int) /\ Len(w) = n /\ n \in Nat /\ h[r].refs \in Nat /\ Heaped(h, Plus(f, r))
    BY <1>0, <1>n, <1>w, OnFacts
  <2>2. D \in Seq(Int) /\ Len(D) = l /\ D = Window(h[other])
    BY <1>0, <1>D, <1>l, <2>1, HeapFacts
  <2> QED BY <2>1, <2>2
<1>y. PICK y : y = n + l
  OBVIOUS
<1>2. y \in 0 .. MaxLen /\ y \in Nat /\ h[r].len + l = y /\ y <= MaxLen
  BY <1>0, <1>1, <1>n, <1>y, RefsAre
<1>z. PICK z : z = Stretch(w, 0, y)
  OBVIOUS
<1>3. Ours(h, f, r, z, ModifyAll(h, r, l))
  BY <1>0, <1>2, <1>w, <1>z, OursIs
<1>4. PICK o, k, c : /\ ModifyAll(h, r, l) = [ref |-> o, heap |-> k] /\ Changed(h, f, o, c, z, k)
                     /\ c.start = 0 \/ (h[r].refs = 1 /\ c.start = h[r].start)
  BY <1>3, Zenon DEF Ours
<1>5. c.start = 0
  BY <1>0, <1>1, <1>4 DEF Ready
<1>6. /\ Alone(k, f, o) /\ View(k)[o] = z /\ k[o] = c /\ o \in Refs /\ Lasts(c) /\ c.len = Len(z)
      /\ c.refs = 1 /\ DOMAIN k = Refs /\ Fills(View(k), o, z)
      /\ \A i \in 1 .. Len(z) : z[i] = c.el[c.start + i - 1]
  BY <1>4, ChangedFacts
<1>7. z \in Seq(Int) /\ Len(z) = n + l /\ Padded(z, w) /\ \A i \in 1 .. n : z[i] = w[i] /\ i \in 1 .. Len(z)
  <2>1. Len(w) <= y
    BY <1>1, <1>y
  <2>2. /\ z \in Seq(Int) /\ Len(z) = y /\ Padded(z, w)
        /\ \A i \in 1 .. y : z[i] = IF i <= Len(w) THEN w[i] ELSE 0
    BY <1>1, <1>2, <1>z, <2>1, PieceFacts
  <2>3. ASSUME NEW i \in 1 .. n
        PROVE  z[i] = w[i] /\ i \in 1 .. Len(z)
    <3>1. i \in 1 .. y /\ i <= Len(w) /\ Len(z) = y
      BY <1>1, <1>y, <2>2
    <3> QED BY <2>2, <3>1
  <2> QED BY <1>y, <2>2, <2>3, Zenon
<1>8. \A i \in 1 .. Len(D) : Live(k, D[i]) /\ D[i] # -o
  BY <1>0, <1>4, <1>D, HeldStays
<1>s. PICK s : s = w \o D
  OBVIOUS
<1>b. PICK b : b = WithEl(c, Ending(c.el, n, D))
  OBVIOUS
<1>9. WholeList(b, s) /\ b.start = 0
  <2>1. \A i \in 1 .. n : w[i] = c.el[i - 1]
    <3> TAKE i \in 1 .. n
    <3>1. 0 + i - 1 = i - 1
      OBVIOUS
    <3>2. z[i] = c.el[c.start + i - 1]
      BY <1>6, <1>7
    <3> QED BY <1>5, <1>7, <3>1, <3>2, Zenon
  <2>2. Tailed(c, w, D)
    BY <1>1, <1>5, <1>6, <1>7, <2>1, Zenon DEF Tailed
  <2>3. TailedAs(c, w, D, WithEl(c, Ending(c.el, Len(w), D)))
    BY <1>6, <2>2, TailedIs
  <2> QED BY <1>1, <1>b, <1>s, <2>3, Zenon DEF TailedAs
<1>10. /\ s \in Seq(Int) /\ Len(s) = n + l
       /\ \A i \in 1 .. n : s[i] = w[i]
       /\ \A i \in 1 .. l : s[n + i] = D[i]
       /\ \A i \in 1 .. Len(s) : i \in 1 .. n \/ i - n \in 1 .. l
       /\ \A x : Occurrences(x, s) = Occurrences(x, w) + Occurrences(x, D)
  <2>1. Joined(w, D, s)
    BY <1>1, <1>s, JoinedIs
  <2> QED BY <1>1, <2>1, Zenon DEF Joined
<1>11. Fills(View(k), o, s)
  <2>1. \A i \in 1 .. n : Datum(View(k), w[i]) /\ w[i] # -o
    <3>1. \A i \in 1 .. Len(z) : Datum(View(k), z[i]) /\ z[i] # -o
      BY <1>6, Zenon DEF Fills
    <3> QED BY <1>7, <3>1, Zenon
  <2>2. \A i \in 1 .. l : Datum(View(k), D[i]) /\ D[i] # -o
    BY <1>1, <1>8, Zenon DEF Live
  <2>3. ASSUME NEW i \in 1 .. Len(s) PROVE Datum(View(k), s[i]) /\ s[i] # -o
    <3>1. CASE i \in 1 .. n
      BY <1>10, <2>1, <3>1, Zenon
    <3>2. CASE i - n \in 1 .. l
      <4>x. PICK x : x = i - n
        OBVIOUS
      <4>1. x \in 1 .. l /\ n + x = i
        <5>1. i \in Nat
          BY <1>10
        <5> QED BY <1>1, <3>2, <4>x, <5>1
      <4> QED BY <1>10, <2>2, <4>1, Zenon
    <3> QED BY <1>10, <3>1, <3>2
  <2>4. Len(s) <= MaxLen
    BY <1>0, <1>10, Zenon
  <2> QED BY <1>10, <2>3, <2>4, Zenon DEF Fills
<1>12. \A q \in Refs : Occurrences(-q, s) = Occurrences(-q, View(k)[o]) + Occurrences(-q, D)
  <2> TAKE q \in Refs
  <2>1. -q # 0
    BY MinusIs
  <2>2. Occurrences(-q, z) = Occurrences(-q, w)
    BY <1>7, <2>1, OccPadded
  <2> QED BY <1>6, <1>10, <2>2, Zenon
<1>g. PICK g : g = PutIn(data_dup(k, D), o, b)
  OBVIOUS
<1>13. Changed(k, f, o, b, s, g)
  BY <1>1, <1>6, <1>8, <1>9, <1>11, <1>12, <1>g, Enriched
<1>14. Changed(h, f, o, b, s, g)
  BY <1>4, <1>13, ChangedTwice
<1>q. PICK q : q = [ref |-> o, heap |-> g]
  OBVIOUS
<1>15. Ended(h, f, n + l, q)
  <2>1. Ended(h, f, Len(s), q)
    BY <1>9, <1>14, <1>q, EndedIs
  <2> QED BY <1>10, <2>1, Zenon
<1>16. list_append(h, r, other) = q
  <2>p. PICK p : p = [ref |-> o, heap |-> k]
    OBVIOUS
  <2>1. p.heap[p.ref] = c
    BY <1>6, <2>p
  <2>2. c.start + c.len - Len(D) = n
    BY <1>1, <1>5, <1>6, <1>7
  <2>3. list_append(h, r, other) = Added(p, D, n)
    <3>1. LET more == Window(h[other])
              a == ModifyAll(h, r, Len(more))
              list == a.heap[a.ref]
              first == list.start + list.len - Len(more)
          IN  list_append(h, r, other)
              = [a EXCEPT !.heap = [data_dup(a.heap, more) EXCEPT ![a.ref].el =
            [i \in DOMAIN @ |-> IF i - first + 1 \in DOMAIN more
                                THEN more[i - first + 1] ELSE @[i]]]]
      BY Zenon DEF list_append
    <3>2. ModifyAll(h, r, Len(Window(h[other]))) = p /\ Window(h[other]) = D
      BY <1>1, <1>4, <2>p, Zenon
    <3> QED BY <2>1, <2>2, <3>1, <3>2, Zenon DEF Added
  <2>4. Tells(k, o, D, c) /\ At(p, o, k)
    BY <1>1, <1>6, <1>8, <2>p, Zenon DEF Tells, At
  <2>5. list_append(h, r, other)
        = [ref |-> o, heap |-> PutIn(data_dup(k, D), o, WithEl(c, Ending(c.el, n, D)))]
    <3>1. Added(p, D, n) = [ref |-> o, heap |-> PutIn(data_dup(k, D), o, WithEl(c, Ending(c.el, n, D)))]
      BY <2>4, AppendsAs
    <3> QED BY <2>3, <3>1, Zenon
  <2> QED BY <1>b, <1>g, <1>q, <2>5, Zenon
<1> QED BY <1>15, <1>16, <1>l, <1>n, Zenon

-----------------------------------------------------------------------------
(* Operators that are made of those above.                                   *)
LEMMA SearchIs ==
    ASSUME NEW h, NEW r, h[r].len \in Nat, NEW d
    PROVE  list_search(h, r, d) = -1 \/ list_search(h, r, d) \in 0 .. h[r].len - 1
<1>a. PICK at : at = {i \in 1 .. h[r].len : SameData(h, Window(h[r])[i], d)}
  OBVIOUS
<1>1. list_search(h, r, d) = IF at = {} THEN -1 ELSE Min(at) - 1
  BY <1>a, Zenon DEF list_search
<1>2. ASSUME at # {} PROVE Min(at) - 1 \in 0 .. h[r].len - 1
  <2>1. at \in SUBSET Nat
    BY <1>a
  <2>2. \E x \in at : \A y \in at : x <= y
    BY <1>2, <2>1, MinOfNaturals, Zenon
  <2>3. Min(at) \in at
    <3>1. Min(at) = CHOOSE x \in at : \A y \in at : x <= y
      BY Zenon DEF Min
    <3> QED BY <2>2, <3>1, Zenon
  <2>4. Min(at) \in 1 .. h[r].len
    BY <1>a, <2>3
  <2> QED BY <2>4
<1> QED BY <1>1, <1>2

(* What a loop over such operators keeps.                                    *)
Going(h, f, m, o, k) == On(k, f, o) /\ Ready(k, o) /\ k[o].len <= m /\ Stays(h, k, f)
Steady(h, f, m, p) == \E o, k : p = [ref |-> o, heap |-> k] /\ Going(h, f, m, o, k)

LEMMA EndedSteady ==
    ASSUME NEW h, NEW f, NEW n, NEW p, Ended(h, f, n, p), NEW m, n <= m
    PROVE  Steady(h, f, m, p)
<1>1. PICK o, k : /\ p = [ref |-> o, heap |-> k] /\ Alone(k, f, o) /\ k[o].start = 0 /\ k[o].len = n
                  /\ Stays(h, k, f)
  BY Zenon DEF Ended
<1>2. On(k, f, o) /\ Ready(k, o)
  BY <1>1, Zenon DEF Alone, Ready
<1>3. Going(h, f, m, o, k)
  BY <1>1, <1>2, Zenon DEF Going
<1> QED BY <1>1, <1>3, Zenon DEF Steady

LEMMA EndedEnds ==
    ASSUME NEW h, NEW f, NEW n, NEW p, Ended(h, f, n, p)
    PROVE  Ends(f, p)
BY Zenon DEF Ended, Ends, Alone

LEMMA SteadyEnds ==
    ASSUME NEW h, NEW f, NEW m, NEW p, Steady(h, f, m, p)
    PROVE  Ends(f, p)
BY Zenon DEF Steady, Going, Ends

LEMMA SameSteady ==
    ASSUME NEW h, NEW f, NEW r, On(h, f, r), Ready(h, r), NEW m, h[r].len <= m
    PROVE  Steady(h, f, m, [heap |-> h, ref |-> r])
<1>1. [heap |-> h, ref |-> r] = [ref |-> r, heap |-> h]
  OBVIOUS
<1>2. Going(h, f, m, r, h)
  BY Zenon DEF Going, Stays
<1> QED BY <1>1, <1>2, Zenon DEF Steady

SetsIn(h, f, r, d) == On(h, f, r) /\ Ready(h, r) /\ Held(h, f, d) /\ h[r].len + 1 <= MaxLen
LEMMA SetaddIs ==
    ASSUME NEW h, NEW f, NEW r, NEW d, SetsIn(h, f, r, d)
    PROVE  Steady(h, f, h[r].len + 1, list_setadd(h, r, d))
<1>0. On(h, f, r) /\ Ready(h, r) /\ Held(h, f, d) /\ h[r].len + 1 <= MaxLen
  BY Zenon DEF SetsIn
<1>1. h[r].len \in Nat
  BY <1>0, OnFacts
<1>m. PICK m : m = h[r].len + 1
  OBVIOUS
<1>2. h[r].len \in 0 .. h[r].len /\ m <= m /\ h[r].len <= m
  BY <1>1, <1>m
<1>3. CASE list_search(h, r, d) # -1
  <2>1. list_setadd(h, r, d) = [heap |-> h, ref |-> r]
    BY <1>3, Zenon DEF list_setadd
  <2> QED BY <1>0, <1>2, <1>m, <2>1, SameSteady
<1>4. CASE list_search(h, r, d) = -1
  <2>1. list_setadd(h, r, d) = list_add(h, r, d)
    BY <1>4, Zenon DEF list_setadd
  <2>2. Given(h, f, r, d, h[r].len)
    BY <1>0, <1>2, Zenon DEF Given
  <2>3. Ended(h, f, m, list_add(h, r, d))
    BY <1>m, <2>2, AddIs
  <2> QED BY <1>2, <1>m, <2>1, <2>3, EndedSteady
<1> QED BY <1>3, <1>4

LEMMA SetremoveIs ==
    ASSUME NEW h, NEW f, NEW r, On(h, f, r), Ready(h, r), NEW d
    PROVE  Ends(f, list_setremove(h, r, d))
<1>1. h[r].len \in Nat
  BY OnFacts
<1>2. CASE list_search(h, r, d) = -1
  <2>1. list_setremove(h, r, d) = [heap |-> h, ref |-> r]
    BY <1>2, Zenon DEF list_setremove
  <2>2. Steady(h, f, h[r].len, [heap |-> h, ref |-> r])
    <3>1. h[r].len <= h[r].len
      BY <1>1
    <3> QED BY <3>1, SameSteady
  <2> QED BY <2>1, <2>2, SteadyEnds
<1>3. CASE list_search(h, r, d) # -1
  <2>x. PICK x : x = list_search(h, r, d)
    OBVIOUS
  <2>1. list_setremove(h, r, d) = list_delete(h, r, x)
    BY <1>3, <2>x, Zenon DEF list_setremove
  <2>2. Deletes(h, f, r, x)
    BY <1>1, <1>3, <2>x, SearchIs, Zenon DEF Deletes
  <2> QED BY <2>1, <2>2, DeleteIs, EndedEnds
<1> QED BY <1>2, <1>3

Slices(h, f, r, start, span) ==
    /\ On(h, f, r) /\ start \in 0 .. h[r].len - 1 /\ span \in 0 .. h[r].len - start
    /\ \E n \in Refs : h[n] = Free
LEMMA SublistIs ==
    ASSUME NEW h, NEW f, NEW r, NEW start, NEW span, Slices(h, f, r, start, span)
    PROVE  Ends(f, list_sublist(h, r, start, span))
<1>0. /\ On(h, f, r) /\ start \in 0 .. h[r].len - 1 /\ span \in 0 .. h[r].len - start
      /\ \E n \in Refs : h[n] = Free
  BY Zenon DEF Slices
<1>b. PICK b : b = h[r]
  OBVIOUS
<1>1. /\ b.start \in Nat /\ b.refs \in Nat \ {0} /\ b.len \in 0 .. MaxLen /\ MaxLen \in Nat
      /\ b.size \in Nat /\ b.start + b.len <= b.size
  BY <1>0, <1>b, OnFacts, RefsAre
<1>2. start \in Nat /\ span \in 0 .. MaxLen /\ start + span <= b.len /\ b.start + start + span <= b.size
  <2>1. start \in 0 .. b.len - 1 /\ span \in 0 .. b.len - start
    BY <1>0, <1>b
  <2> QED BY <1>1, <2>1
<1>3. Fitting(h, r, start, span)
  BY <1>0, <1>2, <1>b, Zenon DEF Fitting
<1>4. PreparedAs(h, f, r, start, span, prepare_to_modify(h, r, h[r].start + start, span))
  BY <1>0, <1>3, Prepared
<1>5. PreparedAs(h, f, r, start, span, list_sublist(h, r, start, span))
  BY <1>4, Zenon DEF list_sublist
<1> QED BY <1>5, Zenon DEF PreparedAs, Changed, Alone, Ends

-----------------------------------------------------------------------------
(* list_reverse and list_qsort: the elements are put into another order.     *)
Permuted(w, t) == t \in Seq(Int) /\ Len(t) = Len(w) /\ \A x : Occurrences(x, t) = Occurrences(x, w)
Reordering(h, f, o, c, w, k, t) == Changed(h, f, o, c, w, k) /\ Permuted(w, t)
Reordered(c, t) == WithEl(c, Array(c.size, c.start, t))

LEMMA ReorderedIs ==
    ASSUME NEW h, NEW f, NEW o, NEW c, NEW w, NEW k, NEW t, Reordering(h, f, o, c, w, k, t)
    PROVE  Changed(h, f, o, Reordered(c, t), t, PutIn(k, o, Reordered(c, t)))
<1>0. /\ Changed(h, f, o, c, w, k) /\ t \in Seq(Int) /\ Len(t) = Len(w)
      /\ \A x : Occurrences(x, t) = Occurrences(x, w)
  BY Zenon DEF Reordering, Permuted
<1>1. /\ Alone(k, f, o) /\ View(k)[o] = w /\ k[o] = c /\ o \in Refs /\ Lasts(c) /\ c.len = Len(w)
      /\ c.refs = 1 /\ c.start \in Nat /\ c.size \in Nat /\ c.start + c.len <= c.size /\ w \in Seq(Int)
      /\ Len(w) <= MaxLen /\ Fills(View(k), o, w)
  BY <1>0, ChangedFacts
<1>b. PICK b : b = Reordered(c, t)
  OBVIOUS
<1>2. b = [start |-> c.start, len |-> c.len, size |-> c.size, refs |-> 1, el |-> Array(c.size, c.start, t)]
  <2>m. PICK m : m = Array(c.size, c.start, t)
    OBVIOUS
  <2>1. c = [start |-> c.start, len |-> c.len, size |-> c.size, refs |-> c.refs, el |-> c.el]
    BY <1>1 DEF Lasts
  <2>2. [c EXCEPT !.el = m] = [start |-> c.start, len |-> c.len, size |-> c.size, refs |-> c.refs, el |-> m]
    BY <2>1
  <2> QED BY <1>1, <1>b, <2>2, <2>m, Zenon DEF Reordered, WithEl
<1>3. c.len \in 0 .. MaxLen /\ c.start + c.len <= c.size
  <2>1. Len(w) \in Nat
    BY <1>1
  <2>2. Len(w) \in Nat /\ Len(w) <= MaxLen /\ c.len = Len(w) /\ MaxLen \in Nat
    BY <1>1, <2>1, RefsAre, Zenon
  <2> QED BY <1>1, <2>2
<1>4. FreshOf(b, c.size, c.start, c.len, t)
  BY <1>0, <1>1, <1>2, <1>3, Zenon DEF FreshOf, Fresh
<1>5. WholeList(b, t)
  BY <1>4, FreshOfIs
<1>6. Fills(View(k), o, t)
  <2>1. ASSUME NEW i \in 1 .. Len(t) PROVE Datum(View(k), t[i]) /\ t[i] # -o
    <3>1. Occurrences(t[i], t) # 0
      BY <1>0, OccNat
    <3>2. Occurrences(t[i], w) # 0
      BY <1>0, <3>1, Zenon
    <3>3. PICK j \in 1 .. Len(w) : w[j] = t[i]
      BY <1>1, <3>2, OccNat, SMTT(30)
    <3>4. Datum(View(k), w[j]) /\ w[j] # -o
      BY <1>1, Zenon DEF Fills
    <3> QED BY <3>3, <3>4, Zenon
  <2>2. Len(t) <= MaxLen
    BY <1>0, <1>1, Zenon
  <2> QED BY <1>0, <2>1, <2>2, Zenon DEF Fills
<1>7. \A q \in Refs : Occurrences(-q, t) = Occurrences(-q, View(k)[o])
  BY <1>0, <1>1, Zenon
<1>g. PICK g : g = PutIn(k, o, b)
  OBVIOUS
<1>8. Changed(k, f, o, b, t, g)
  BY <1>1, <1>5, <1>6, <1>7, <1>g, Rewritten
<1>9. Changed(h, f, o, b, t, g)
  BY <1>0, <1>8, ChangedTwice
<1> QED BY <1>9, <1>b, <1>g, Zenon

ReverseOf(p) == Rearranged(p, Reverse)
SortedOf(p) == Rearranged(p, Sorted)
Arranges(p, o, k, c, w) == At(p, o, k) /\ k[o] = c /\ Window(c) = w
LEMMA RearrangedAre ==
    ASSUME NEW p, NEW o, NEW k, NEW c, NEW w, Arranges(p, o, k, c, w)
    PROVE  /\ At(ReverseOf(p), o, PutIn(k, o, Reordered(c, Reverse(w))))
           /\ At(SortedOf(p), o, PutIn(k, o, Reordered(c, Sorted(w))))
<1>0. At(p, o, k) /\ k[o] = c /\ Window(c) = w
  BY Zenon DEF Arranges
<1>1. p.ref = o /\ p.heap = k
  BY <1>0 DEF At
<1>2. p.heap[p.ref] = c
  BY <1>0, <1>1
<1>3. \A y : At([p EXCEPT !.heap[p.ref].el = y], o, PutIn(k, o, WithEl(k[o], y)))
  BY <1>0, DeepAt
<1>4. ReverseOf(p) = [p EXCEPT !.heap[p.ref].el = Array(c.size, c.start, Reverse(w))]
  BY <1>0, <1>2, Zenon DEF ReverseOf, Rearranged
<1>5. SortedOf(p) = [p EXCEPT !.heap[p.ref].el = Array(c.size, c.start, Sorted(w))]
  BY <1>0, <1>2, Zenon DEF SortedOf, Rearranged
<1>6. At(ReverseOf(p), o, PutIn(k, o, WithEl(k[o], Array(c.size, c.start, Reverse(w)))))
  BY <1>3, <1>4, Zenon
<1>7. At(SortedOf(p), o, PutIn(k, o, WithEl(k[o], Array(c.size, c.start, Sorted(w)))))
  BY <1>3, <1>5, Zenon
<1> QED BY <1>0, <1>6, <1>7, Zenon DEF Reordered

LEMMA ReversePermutes ==
    ASSUME NEW w \in Seq(Int)
    PROVE  Permuted(w, Reverse(w))
<1>t. PICK t : t = Reverse(w)
  OBVIOUS
<1>n. PICK n : n = Len(w)
  OBVIOUS
<1>0. n \in Nat /\ DOMAIN w = 1 .. n /\ \A i \in 1 .. n : w[i] \in Int
  BY <1>n
<1>1. t = [i \in 1 .. n |-> w[(n - i) + 1]]
  BY <1>n, <1>t, Zenon DEF Reverse
<1>2. \A i \in 1 .. n : (n - i) + 1 \in 1 .. n
  BY <1>0
<1>3. t \in Seq(Int) /\ Len(t) = n /\ DOMAIN t = 1 .. n
  BY <1>0, <1>1, <1>2
<1>4. \A i \in 1 .. n : t[i] = w[n - i + 1]
  BY <1>1
<1>5. \A x : Occurrences(x, t) = Occurrences(x, w)
  BY <1>0, <1>3, <1>4, OccReversed
<1>6. Permuted(w, t)
  BY <1>3, <1>5, <1>n, Zenon DEF Permuted
<1> QED BY <1>6, <1>t, Zenon

(* The place of an element: how many come earlier.                           *)
LEMMA EarlierIs ==
    ASSUME NEW w \in Seq(Int), NEW i \in 1 .. Len(w)
    PROVE  /\ IsFiniteSet(SortedBefore(w, i)) /\ Cardinality(SortedBefore(w, i)) \in 0 .. Len(w) - 1
           /\ \A j \in 1 .. Len(w) : i # j =>
                 \/ (i \in SortedBefore(w, j) /\ Cardinality(SortedBefore(w, i)) < Cardinality(SortedBefore(w, j)))
                 \/ j \in SortedBefore(w, i)
<1>n. PICK n : n = Len(w)
  OBVIOUS
<1>0. n \in Nat /\ DOMAIN w = 1 .. n /\ i \in 1 .. n /\ \A j \in 1 .. n : w[j] \in Int
  BY <1>n
<1>1. \A k : SortedBefore(w, k) = {j \in 1 .. n : w[j] < w[k] \/ (w[j] = w[k] /\ j < k)}
  BY <1>0, Zenon DEF SortedBefore
<1>2. IsFiniteSet(1 .. n) /\ Cardinality(1 .. n) = n
  BY <1>0, FS_Interval
<1>3. \A k : IsFiniteSet(SortedBefore(w, k)) /\ Cardinality(SortedBefore(w, k)) \in Nat
  <2> TAKE k
  <2>1. SortedBefore(w, k) \in SUBSET (1 .. n)
    BY <1>1
  <2>2. IsFiniteSet(SortedBefore(w, k))
    BY <1>2, <2>1, FS_Subset
  <2> QED BY <2>2, FS_CardinalityType
<1>4. Cardinality(SortedBefore(w, i)) <= n - 1
  <2>1. SortedBefore(w, i) \in SUBSET (1 .. n) /\ SortedBefore(w, i) # 1 .. n
    <3>1. i \notin SortedBefore(w, i)
      BY <1>0, <1>1
    <3> QED BY <1>0, <1>1, <3>1
  <2>2. Cardinality(SortedBefore(w, i)) <= n /\ Cardinality(SortedBefore(w, i)) # n
    BY <1>2, <2>1, FS_Subset
  <2> QED BY <1>0, <1>3, <2>2
<1>5. ASSUME NEW j \in 1 .. n, i # j, j \notin SortedBefore(w, i)
      PROVE  i \in SortedBefore(w, j) /\ Cardinality(SortedBefore(w, i)) < Cardinality(SortedBefore(w, j))
  <2>1. w[i] < w[j] \/ (w[i] = w[j] /\ i < j)
    BY <1>0, <1>1, <1>5
  <2>2. i \in SortedBefore(w, j) /\ i \notin SortedBefore(w, i)
    BY <1>0, <1>1, <2>1
  <2>3. SortedBefore(w, i) \subseteq SortedBefore(w, j)
    <3>1. ASSUME NEW x \in 1 .. n, w[x] < w[i] \/ (w[x] = w[i] /\ x < i)
          PROVE  w[x] < w[j] \/ (w[x] = w[j] /\ x < j)
      BY <1>0, <2>1, <3>1
    <3> QED BY <1>1, <3>1
  <2>4. Cardinality(SortedBefore(w, i)) <= Cardinality(SortedBefore(w, j))
        /\ Cardinality(SortedBefore(w, i)) # Cardinality(SortedBefore(w, j))
    BY <1>3, <2>2, <2>3, FS_Subset
  <2> QED BY <1>3, <2>2, <2>4
<1>6. Cardinality(SortedBefore(w, i)) \in 0 .. n - 1
  BY <1>0, <1>3, <1>4
<1> QED BY <1>3, <1>5, <1>6, <1>n

Place(w) == [i \in 1 .. Len(w) |-> Cardinality(SortedBefore(w, i)) + 1]
LEMMA PlaceIs ==
    ASSUME NEW w \in Seq(Int)
    PROVE  Matching(Place(w), 1 .. Len(w), 1 .. Len(w))
<1>n. PICK n : n = Len(w)
  OBVIOUS
<1>f. PICK f : f = Place(w)
  OBVIOUS
<1>0. n \in Nat /\ IsFiniteSet(1 .. n) /\ Cardinality(1 .. n) = n
  <2>1. n \in Nat
    BY <1>n
  <2> QED BY <2>1, FS_Interval
<1>1. \A i \in 1 .. n : f[i] = Cardinality(SortedBefore(w, i)) + 1
  <2>1. f = [i \in 1 .. n |-> Cardinality(SortedBefore(w, i)) + 1]
    BY <1>f, <1>n, Zenon DEF Place
  <2> QED BY <2>1
<1>2. \A i \in 1 .. n : Cardinality(SortedBefore(w, i)) \in 0 .. n - 1
  BY <1>n, EarlierIs, Zenon
<1>3. \A i \in 1 .. n : f[i] \in 1 .. n
  <2> TAKE i \in 1 .. n
  <2>a. PICK a : a = Cardinality(SortedBefore(w, i))
    OBVIOUS
  <2>1. a \in 0 .. n - 1 /\ f[i] = a + 1
    BY <1>1, <1>2, <2>a, Zenon
  <2> QED BY <1>0, <2>1
<1>4. ASSUME NEW i \in 1 .. n, NEW j \in 1 .. n, f[i] = f[j] PROVE i = j
  <2> SUFFICES ASSUME i # j PROVE FALSE
    OBVIOUS
  <2>a. PICK a : a = Cardinality(SortedBefore(w, i))
    OBVIOUS
  <2>b. PICK b : b = Cardinality(SortedBefore(w, j))
    OBVIOUS
  <2>1. (i \in SortedBefore(w, j) /\ a < b) \/ j \in SortedBefore(w, i)
    BY <1>n, <2>a, <2>b, EarlierIs, Zenon
  <2>2. (j \in SortedBefore(w, i) /\ b < a) \/ i \in SortedBefore(w, j)
    BY <1>n, <2>a, <2>b, EarlierIs, Zenon
  <2>3. a \in Nat /\ b \in Nat /\ a = b
    BY <1>0, <1>1, <1>2, <1>4, <2>a, <2>b
  <2>4. i \in SortedBefore(w, j) /\ j \in SortedBefore(w, i)
    BY <2>1, <2>2, <2>3
  <2>5. DOMAIN w = 1 .. n /\ w[i] \in Int /\ w[j] \in Int
    BY <1>n
  <2> QED BY <2>4, <2>5 DEF SortedBefore
<1>R. PICK R : R = {f[i] : i \in 1 .. n}
  OBVIOUS
<1>5. Matching(f, 1 .. n, R)
  <2>1. \A i \in 1 .. n : f[i] \in R
    BY <1>R
  <2>2. \A y \in R : \E i \in 1 .. n : f[i] = y
    BY <1>R
  <2> QED BY <1>4, <2>1, <2>2, Zenon DEF Matching
<1>6. Cardinality(R) = n
  BY <1>0, <1>5, MatchingCounts
<1>7. R = 1 .. n
  <2>1. R \in SUBSET (1 .. n)
    BY <1>3, <1>R
  <2> QED BY <1>0, <1>6, <2>1, FS_Subset
<1> QED BY <1>5, <1>7, <1>f, <1>n, Zenon

LEMMA SortPermutes ==
    ASSUME NEW w \in Seq(Int)
    PROVE  Permuted(w, Sorted(w))
<1>t. PICK t : t = Sorted(w)
  OBVIOUS
<1>n. PICK n : n = Len(w)
  OBVIOUS
<1>f. PICK f : f = Place(w)
  OBVIOUS
<1>0. n \in Nat /\ DOMAIN w = 1 .. n /\ \A i \in 1 .. n : w[i] \in Int
  BY <1>n
<1>1. t = [m \in DOMAIN w |-> w[CHOOSE y \in DOMAIN w : Cardinality(SortedBefore(w, y)) = m - 1]]
  BY <1>t, Zenon DEF Sorted
<1>2. /\ \A i \in 1 .. n : f[i] \in 1 .. n
      /\ \A i, j \in 1 .. n : f[i] = f[j] => i = j
      /\ \A m \in 1 .. n : \E i \in 1 .. n : f[i] = m
  <2>1. Matching(f, 1 .. n, 1 .. n)
    BY <1>f, <1>n, PlaceIs, Zenon
  <2> QED BY <2>1, Zenon DEF Matching
<1>3. \A i \in 1 .. n : Cardinality(SortedBefore(w, i)) \in 0 .. n - 1 /\ f[i] = Cardinality(SortedBefore(w, i)) + 1
  <2>1. \A i \in 1 .. n : Cardinality(SortedBefore(w, i)) \in 0 .. n - 1
    BY <1>n, EarlierIs, Zenon
  <2>2. \A i \in 1 .. n : f[i] = Cardinality(SortedBefore(w, i)) + 1
    <3>1. f = [i \in 1 .. n |-> Cardinality(SortedBefore(w, i)) + 1]
      BY <1>f, <1>n, Zenon DEF Place
    <3> QED BY <3>1
  <2> QED BY <2>1, <2>2
<1>4. ASSUME NEW m \in 1 .. n PROVE \E i \in 1 .. n : f[i] = m /\ t[m] = w[i]
  <2>i. PICK i : i = CHOOSE y \in DOMAIN w : Cardinality(SortedBefore(w, y)) = m - 1
    OBVIOUS
  <2>1. \A x \in 1 .. n : f[x] = m <=> Cardinality(SortedBefore(w, x)) = m - 1
    <3> TAKE x \in 1 .. n
    <3>a. PICK a : a = Cardinality(SortedBefore(w, x))
      OBVIOUS
    <3>1. a \in 0 .. n - 1 /\ f[x] = a + 1
      BY <1>3, <3>a, Zenon
    <3>2. f[x] = m <=> a = m - 1
      BY <1>0, <3>1
    <3> QED BY <3>2, <3>a, Zenon
  <2>2. \E x \in DOMAIN w : Cardinality(SortedBefore(w, x)) = m - 1
    BY <1>0, <1>2, <2>1, Zenon
  <2>3. i \in DOMAIN w /\ Cardinality(SortedBefore(w, i)) = m - 1
    BY <2>2, <2>i, Zenon
  <2>4. i \in 1 .. n /\ f[i] = m
    BY <1>0, <2>1, <2>3, Zenon
  <2>5. t[m] = w[i]
    <3>1. m \in DOMAIN w
      BY <1>0, Zenon
    <3>2. t[m] = w[CHOOSE x \in DOMAIN w : Cardinality(SortedBefore(w, x)) = m - 1]
      BY <1>1, <3>1, Zenon
    <3> QED BY <2>i, <3>2, Zenon
  <2> QED BY <2>4, <2>5, Zenon
<1>5. t \in Seq(Int) /\ Len(t) = n /\ DOMAIN t = 1 .. n
  <2>1. DOMAIN t = 1 .. n /\ t = [m \in DOMAIN t |-> t[m]]
    <3>1. DOMAIN t = DOMAIN w
      BY <1>1, Zenon
    <3>2. t = [m \in DOMAIN t |-> t[m]]
      BY <1>1
    <3> QED BY <1>0, <3>1, <3>2, Zenon
  <2>2. \A m \in 1 .. n : t[m] \in Int
    BY <1>0, <1>4
  <2>3. t \in [1 .. n -> Int]
    BY <2>1, <2>2
  <2> QED BY <1>0, <2>1, <2>3
<1>6. ASSUME NEW x PROVE Occurrences(x, t) = Occurrences(x, w)
  <2>1. Finds(x, w) = {i \in 1 .. n : w[i] = x} /\ Finds(x, t) = {i \in 1 .. n : t[i] = x}
    BY <1>0, <1>5 DEF Finds
  <2>2. ASSUME NEW i \in 1 .. n PROVE t[f[i]] = w[i]
    <3>1. PICK j \in 1 .. n : f[j] = f[i] /\ t[f[i]] = w[j]
      BY <1>2, <1>4
    <3> QED BY <1>2, <3>1
  <2>3. Matching(f, Finds(x, w), Finds(x, t))
    <3>1. \A i \in Finds(x, w) : f[i] \in Finds(x, t)
      BY <1>2, <2>1, <2>2
    <3>2. \A i, j \in Finds(x, w) : f[i] = f[j] => i = j
      BY <1>2, <2>1
    <3>3. \A y \in Finds(x, t) : \E i \in Finds(x, w) : f[i] = y
      BY <1>2, <2>1, <2>2
    <3> QED BY <3>1, <3>2, <3>3, Zenon DEF Matching
  <2>4. IsFiniteSet(Finds(x, w)) /\ Occurrences(x, w) = Cardinality(Finds(x, w))
    BY <1>0, OccIs
  <2>5. Occurrences(x, t) = Cardinality(Finds(x, t))
    BY <1>0, <1>5, OccIs
  <2>6. Cardinality(Finds(x, t)) = Cardinality(Finds(x, w))
    BY <2>3, <2>4, MatchingCounts
  <2> QED BY <2>4, <2>5, <2>6, Zenon
<1>7. Permuted(w, t)
  BY <1>5, <1>6, <1>n, Zenon DEF Permuted
<1> QED BY <1>7, <1>t, Zenon

LEMMA OursReordered ==
    ASSUME NEW h, NEW f, NEW r, NEW w, NEW p, Ours(h, f, r, w, p), w \in Seq(Int)
    PROVE  Ends(f, ReverseOf(p)) /\ Ends(f, SortedOf(p))
<1>1. PICK o, k, c : /\ p = [ref |-> o, heap |-> k] /\ Changed(h, f, o, c, w, k)
                     /\ c.start = 0 \/ (h[r].refs = 1 /\ c.start = h[r].start)
  BY Zenon DEF Ours
<1>2. Arranges(p, o, k, c, w)
  <2>1. k[o] = c /\ Window(c) = w
    BY <1>1, ChangedFacts
  <2> QED BY <1>1, <2>1, Zenon DEF At, Arranges
<1>3. /\ At(ReverseOf(p), o, PutIn(k, o, Reordered(c, Reverse(w))))
      /\ At(SortedOf(p), o, PutIn(k, o, Reordered(c, Sorted(w))))
  BY <1>2, RearrangedAre
<1>4. ASSUME NEW t, Permuted(w, t) PROVE On(PutIn(k, o, Reordered(c, t)), f, o)
  <2>1. Reordering(h, f, o, c, w, k, t)
    BY <1>1, <1>4, Zenon DEF Reordering
  <2>2. Changed(h, f, o, Reordered(c, t), t, PutIn(k, o, Reordered(c, t)))
    BY <2>1, ReorderedIs
  <2> QED BY <2>2, Zenon DEF Changed, Alone
<1>5. On(PutIn(k, o, Reordered(c, Reverse(w))), f, o) /\ On(PutIn(k, o, Reordered(c, Sorted(w))), f, o)
  BY <1>4, ReversePermutes, SortPermutes, Zenon
<1> QED BY <1>3, <1>5, Zenon DEF At, Ends

LEMMA ReverseIs ==
    ASSUME NEW h, NEW f, NEW r, On(h, f, r), Enough(h, r)
    PROVE  Ends(f, list_reverse(h, r))
<1>p. PICK p : p = Exclusive(h, r)
  OBVIOUS
<1>1. Ours(h, f, r, View(h)[r], p) /\ View(h)[r] \in Seq(Int)
  BY <1>p, ExclusiveIs, OnFacts, Zenon
<1>2. Ends(f, ReverseOf(p))
  BY <1>1, OursReordered
<1> QED BY <1>2, <1>p, Zenon DEF ReverseOf, list_reverse

LEMMA QsortIs ==
    ASSUME NEW h, NEW f, NEW r, On(h, f, r), Enough(h, r)
    PROVE  Ends(f, list_qsort(h, r))
<1>p. PICK p : p = ModifyAll(h, r, 0)
  OBVIOUS
<1>n. PICK n : n = h[r].len
  OBVIOUS
<1>w. PICK w : w = View(h)[r]
  OBVIOUS
<1>1. w \in Seq(Int) /\ Len(w) = n /\ n \in 0 .. MaxLen /\ n \in Nat
  BY <1>n, <1>w, OnFacts
<1>2. h[r].len + 0 = n /\ n <= h[r].len
  BY <1>1, <1>n
<1>3. Ours(h, f, r, Stretch(w, 0, n), p)
  BY <1>1, <1>2, <1>p, <1>w, OursIs
<1>4. Stretch(w, 0, n) = w
  BY <1>1, PieceFacts
<1>5. Ours(h, f, r, w, p)
  BY <1>3, <1>4, Zenon
<1>6. Ends(f, SortedOf(p))
  BY <1>1, <1>5, OursReordered
<1> QED BY <1>6, <1>p, Zenon DEF SortedOf, list_qsort

-----------------------------------------------------------------------------
(* list_union: one element after another is added, if it is not there.       *)
LEMMA KindStays ==
    ASSUME NEW h, NEW f, NEW k, NEW o, On(k, f, o), Stays(h, k, f), NEW d, Kind(h, f, d)
    PROVE  Held(k, f, d)
<1>1. PICK y \in Refs : f[y] > 0 /\ \E i \in 1 .. Len(View(h)[y]) : View(h)[y][i] = d
  BY Zenon DEF Kind
<1>2. View(k)[y] = View(h)[y]
  BY <1>1, Zenon DEF Stays
<1>3. PICK i \in 1 .. Len(View(k)[y]) : View(k)[y][i] = d
  BY <1>1, <1>2, Zenon
<1>4. Kind(k, f, d)
  BY <1>1, <1>3, Zenon DEF Kind
<1>5. Live(k, View(k)[y][i])
  <2>1. Heaped(k, Plus(f, o))
    BY OnFacts
  <2> QED BY <2>1, ElementLives
<1>6. Datum(View(k), d)
  BY <1>3, <1>5, Zenon DEF Live
<1> QED BY <1>4, <1>6, Zenon DEF Held

Adding(h, r, more, n, f) ==
    [i \in 0 .. n |-> IF i = 0 THEN [heap |-> h, ref |-> r]
                      ELSE list_setadd(f[i - 1].heap, f[i - 1].ref, more[i])]

LEMMA AddingIsDefined ==
    ASSUME NEW h, NEW r, NEW more, NEW n \in Nat
    PROVE  \E f : f = Adding(h, r, more, n, f)
<1> DEFINE Odd == {k \in Nat : ~\E f : f = Adding(h, r, more, k, f)}
<1> SUFFICES ASSUME Odd # {} PROVE FALSE
  OBVIOUS
<1>1. PICK m \in Odd : \A k \in Odd : m <= k
  <2>1. Odd \in SUBSET Nat
    OBVIOUS
  <2> HIDE DEF Odd
  <2> QED BY <2>1, MinOfNaturals, Zenon
<1>b. PICK b : b = [heap |-> h, ref |-> r]
  OBVIOUS
<1>2. m # 0
  <2> PICK f : f = [i \in 0 .. 0 |-> b]
    OBVIOUS
  <2>1. f = Adding(h, r, more, 0, f)
    BY <1>b DEF Adding
  <2> QED BY <2>1, <1>1
<1>3. m - 1 \in Nat /\ m - 1 \notin Odd /\ m \in Nat
  BY <1>1, <1>2
<1>4. PICK f : f = Adding(h, r, more, m - 1, f)
  BY <1>3
<1>g. PICK g : g = [i \in 0 .. m |-> IF i <= m - 1 THEN f[i] ELSE list_setadd(f[i - 1].heap, f[i - 1].ref, more[i])]
  OBVIOUS
<1>5. ASSUME NEW i \in 0 .. m PROVE g[i] = Adding(h, r, more, m, g)[i]
  <2>0. Adding(h, r, more, m, g)[i] = IF i = 0 THEN b ELSE list_setadd(g[i - 1].heap, g[i - 1].ref, more[i])
    BY <1>b DEF Adding
  <2>f. i \in 0 .. m - 1 => f[i] = IF i = 0 THEN b ELSE list_setadd(f[i - 1].heap, f[i - 1].ref, more[i])
    BY <1>4, <1>b, Zenon DEF Adding
  <2>1. CASE i = 0
    <3>1. i \in 0 .. m - 1 /\ i <= m - 1
      BY <1>3, <2>1
    <3>2. g[i] = f[i]
      BY <1>g, <3>1
    <3> QED BY <2>0, <2>1, <2>f, <3>1, <3>2, Zenon
  <2>2. CASE i # 0
    <3>1. i - 1 \in 0 .. m /\ i - 1 <= m - 1 /\ i \in Nat
      BY <1>3, <2>2
    <3>2. g[i - 1] = f[i - 1]
      BY <1>g, <3>1
    <3>3. Adding(h, r, more, m, g)[i] = list_setadd(f[i - 1].heap, f[i - 1].ref, more[i])
      BY <2>0, <2>2, <3>2, Zenon
    <3>4. CASE i <= m - 1
      <4>1. i \in 0 .. m - 1
        BY <1>3, <3>1, <3>4
      <4>2. g[i] = f[i]
        BY <1>g, <3>4
      <4> QED BY <2>2, <2>f, <3>3, <4>1, <4>2, Zenon
    <3>5. CASE ~(i <= m - 1)
      BY <1>g, <3>3, <3>5
    <3> QED BY <3>4, <3>5
  <2> QED BY <2>1, <2>2
<1>6. g = Adding(h, r, more, m, g)
  <2>1. g = [i \in 0 .. m |-> g[i]]
    BY <1>g
  <2>2. Adding(h, r, more, m, g) = [i \in 0 .. m |-> Adding(h, r, more, m, g)[i]]
    BY DEF Adding
  <2> QED BY <1>5, <2>1, <2>2, SameFunction
<1> QED BY <1>1, <1>6

Unites(h, f, r, other) == Appends(h, f, r, other)
UnitesTo(h, f, r, more, u) ==
    /\ On(h, f, r) /\ Ready(h, r) /\ h[r].len + Len(more) <= MaxLen /\ Len(more) \in Nat
    /\ \A i \in 1 .. Len(more) : Kind(h, f, more[i])
    /\ u = Adding(h, r, more, Len(more), u)

LEMMA UnitingGoes ==
    ASSUME NEW h, NEW f, NEW r, NEW more, NEW u, UnitesTo(h, f, r, more, u)
    PROVE  Steady(h, f, h[r].len + Len(more), u[Len(more)])
<1>n. PICK n : n = Len(more)
  OBVIOUS
<1>l. PICK l : l = h[r].len
  OBVIOUS
<1>0. /\ On(h, f, r) /\ Ready(h, r) /\ l + n <= MaxLen /\ n \in Nat
      /\ \A i \in 1 .. n : Kind(h, f, more[i])
      /\ u = Adding(h, r, more, n, u)
  BY <1>l, <1>n, Zenon DEF UnitesTo
<1>1. l \in Nat /\ MaxLen \in Nat
  BY <1>0, <1>l, OnFacts, RefsAre
<1>2. Steady(h, f, l, u[0])
  <2>1. u[0] = [heap |-> h, ref |-> r]
    <3>1. 0 \in 0 .. n
      BY <1>0
    <3>2. Adding(h, r, more, n, u)[0] = [heap |-> h, ref |-> r]
      BY <3>1, Zenon DEF Adding
    <3> QED BY <1>0, <3>2, Zenon
  <2>2. h[r].len <= l
    BY <1>1, <1>l
  <2> QED BY <1>0, <2>1, <2>2, SameSteady, Zenon
<1>3. ASSUME NEW i \in 1 .. n, Steady(h, f, l + (i - 1), u[i - 1]) PROVE Steady(h, f, l + i, u[i])
  <2>1. u[i] = list_setadd(u[i - 1].heap, u[i - 1].ref, more[i])
    <3>1. i \in 0 .. n /\ i # 0
      BY <1>0
    <3>2. Adding(h, r, more, n, u)[i] = list_setadd(u[i - 1].heap, u[i - 1].ref, more[i])
      BY <3>1, Zenon DEF Adding
    <3> QED BY <1>0, <3>2, Zenon
  <2>2. PICK o, k : u[i - 1] = [ref |-> o, heap |-> k] /\ Going(h, f, l + (i - 1), o, k)
    BY <1>3, Zenon DEF Steady
  <2>3. u[i - 1].ref = o /\ u[i - 1].heap = k
    BY <2>2
  <2>4. On(k, f, o) /\ Ready(k, o) /\ k[o].len <= l + (i - 1) /\ Stays(h, k, f)
    BY <2>2, Zenon DEF Going
  <2>5. k[o].len \in Nat
    BY <2>4, OnFacts
  <2>6. k[o].len + 1 <= l + i /\ k[o].len + 1 <= MaxLen
    BY <1>0, <1>1, <2>4, <2>5
  <2>7. Held(k, f, more[i])
    BY <1>0, <2>4, KindStays
  <2>8. SetsIn(k, f, o, more[i])
    BY <2>4, <2>6, <2>7, Zenon DEF SetsIn
  <2>9. Steady(k, f, k[o].len + 1, list_setadd(k, o, more[i]))
    BY <2>8, SetaddIs
  <2>10. PICK x, j : list_setadd(k, o, more[i]) = [ref |-> x, heap |-> j] /\ Going(k, f, k[o].len + 1, x, j)
    BY <2>9, Zenon DEF Steady
  <2>11. On(j, f, x) /\ Ready(j, x) /\ j[x].len <= k[o].len + 1 /\ Stays(k, j, f)
    BY <2>10, Zenon DEF Going
  <2>12. Stays(h, j, f)
    BY <2>4, <2>11, Zenon DEF Stays
  <2>13. j[x].len <= l + i
    <3>1. j[x].len \in Nat
      BY <2>11, OnFacts
    <3> QED BY <1>1, <2>5, <2>6, <2>11, <3>1
  <2>14. Going(h, f, l + i, x, j)
    BY <2>11, <2>12, <2>13, Zenon DEF Going
  <2> QED BY <2>1, <2>3, <2>10, <2>14, Zenon DEF Steady
<1> DEFINE Odd == {i \in 0 .. n : ~Steady(h, f, l + i, u[i])}
<1>4. Odd = {}
  <2> SUFFICES ASSUME Odd # {} PROVE FALSE
    OBVIOUS
  <2>1. PICK m \in Odd : \A i \in Odd : m <= i
    <3>1. Odd \in SUBSET Nat
      BY <1>0
    <3> HIDE DEF Odd
    <3> QED BY <3>1, MinOfNaturals, Zenon
  <2>2. m \in 0 .. n /\ ~Steady(h, f, l + m, u[m])
    OBVIOUS
  <2>3. m # 0
    <3>1. l + 0 = l
      BY <1>1
    <3> QED BY <1>2, <2>2, <3>1, Zenon
  <2>4. m \in 1 .. n /\ m - 1 \in 0 .. n /\ m - 1 < m
    BY <1>0, <2>2, <2>3
  <2>5. m - 1 \notin Odd
    BY <2>1, <2>2, <2>4
  <2>6. Steady(h, f, l + (m - 1), u[m - 1])
    BY <2>4, <2>5
  <2> QED BY <1>3, <2>2, <2>4, <2>6, Zenon
<1>5. Steady(h, f, l + n, u[n])
  <2>1. n \in 0 .. n
    BY <1>0
  <2> QED BY <1>4, <2>1
<1> QED BY <1>5, <1>l, <1>n, Zenon

LEMMA UnionIs ==
    ASSUME NEW h, NEW f, NEW r, NEW other, Appends(h, f, r, other)
    PROVE  Ends(f, list_union(h, r, other))
<1>D. PICK D : D = View(h)[other]
  OBVIOUS
<1>0. On(h, f, r) /\ Ready(h, r) /\ other \in Refs /\ f[other] > 0 /\ h[r].len + h[other].len <= MaxLen
  BY Zenon DEF Appends
<1>1. D \in Seq(Int) /\ Len(D) = h[other].len /\ D = Window(h[other])
  <2>1. Heaped(h, Plus(f, r))
    BY <1>0, OnFacts
  <2> QED BY <1>0, <1>D, <2>1, HeapFacts
<1>n. PICK n : n = Len(D)
  OBVIOUS
<1>2. n \in Nat
  BY <1>1, <1>n
<1>u. PICK u : u = CHOOSE e : e = Adding(h, r, D, n, e)
  OBVIOUS
<1>3. u = Adding(h, r, D, n, u)
  <2>1. \E e : e = Adding(h, r, D, n, e)
    BY <1>2, AddingIsDefined
  <2> QED BY <1>u, <2>1, Zenon
<1>4. \A i \in 1 .. n : Kind(h, f, D[i])
  BY <1>0, <1>D, <1>n, Zenon DEF Kind
<1>5. UnitesTo(h, f, r, D, u)
  BY <1>0, <1>1, <1>2, <1>3, <1>4, <1>n, Zenon DEF UnitesTo
<1>6. Ends(f, u[Len(D)])
  BY <1>5, UnitingGoes, SteadyEnds
<1>7. list_union(h, r, other)
      = (CHOOSE e : e = Adding(h, r, Window(h[other]), Len(Window(h[other])), e))[Len(Window(h[other]))]
  BY Zenon DEF list_union, Adding
<1> QED BY <1>1, <1>6, <1>7, <1>n, <1>u, Zenon

-----------------------------------------------------------------------------
(* list_toset: one element after another that is there twice is deleted.     *)
Twice(p) ==
    {i \in 1 .. p.heap[p.ref].len : list_search(p.heap, p.ref, Window(p.heap[p.ref])[i]) < i - 1}
Thinned(p) == IF Twice(p) = {} THEN p ELSE list_delete(p.heap, p.ref, Min(Twice(p)) - 1)
Thinning(h, r, n, f) == [i \in 0 .. n |-> IF i = 0 THEN [heap |-> h, ref |-> r] ELSE Thinned(f[i - 1])]

LEMMA ThinningIsDefined ==
    ASSUME NEW h, NEW r, NEW n \in Nat
    PROVE  \E f : f = Thinning(h, r, n, f)
<1> DEFINE Odd == {k \in Nat : ~\E f : f = Thinning(h, r, k, f)}
<1> SUFFICES ASSUME Odd # {} PROVE FALSE
  OBVIOUS
<1>1. PICK m \in Odd : \A k \in Odd : m <= k
  <2>1. Odd \in SUBSET Nat
    OBVIOUS
  <2> HIDE DEF Odd
  <2> QED BY <2>1, MinOfNaturals, Zenon
<1>b. PICK b : b = [heap |-> h, ref |-> r]
  OBVIOUS
<1>2. m # 0
  <2> PICK f : f = [i \in 0 .. 0 |-> b]
    OBVIOUS
  <2>1. f = Thinning(h, r, 0, f)
    BY <1>b DEF Thinning
  <2> QED BY <2>1, <1>1
<1>3. m - 1 \in Nat /\ m - 1 \notin Odd /\ m \in Nat
  BY <1>1, <1>2
<1>4. PICK f : f = Thinning(h, r, m - 1, f)
  BY <1>3
<1>g. PICK g : g = [i \in 0 .. m |-> IF i <= m - 1 THEN f[i] ELSE Thinned(f[i - 1])]
  OBVIOUS
<1>5. ASSUME NEW i \in 0 .. m PROVE g[i] = Thinning(h, r, m, g)[i]
  <2>0. Thinning(h, r, m, g)[i] = IF i = 0 THEN b ELSE Thinned(g[i - 1])
    BY <1>b DEF Thinning
  <2>f. i \in 0 .. m - 1 => f[i] = IF i = 0 THEN b ELSE Thinned(f[i - 1])
    BY <1>4, <1>b, Zenon DEF Thinning
  <2>1. CASE i = 0
    <3>1. i \in 0 .. m - 1 /\ i <= m - 1
      BY <1>3, <2>1
    <3>2. g[i] = f[i]
      BY <1>g, <3>1
    <3> QED BY <2>0, <2>1, <2>f, <3>1, <3>2, Zenon
  <2>2. CASE i # 0
    <3>1. i - 1 \in 0 .. m /\ i - 1 <= m - 1 /\ i \in Nat
      BY <1>3, <2>2
    <3>2. g[i - 1] = f[i - 1]
      BY <1>g, <3>1
    <3>3. Thinning(h, r, m, g)[i] = Thinned(f[i - 1])
      BY <2>0, <2>2, <3>2, Zenon
    <3>4. CASE i <= m - 1
      <4>1. i \in 0 .. m - 1
        BY <1>3, <3>1, <3>4
      <4>2. g[i] = f[i]
        BY <1>g, <3>4
      <4> QED BY <2>2, <2>f, <3>3, <4>1, <4>2, Zenon
    <3>5. CASE ~(i <= m - 1)
      BY <1>g, <3>3, <3>5
    <3> QED BY <3>4, <3>5
  <2> QED BY <2>1, <2>2
<1>6. g = Thinning(h, r, m, g)
  <2>1. g = [i \in 0 .. m |-> g[i]]
    BY <1>g
  <2>2. Thinning(h, r, m, g) = [i \in 0 .. m |-> Thinning(h, r, m, g)[i]]
    BY DEF Thinning
  <2> QED BY <1>5, <2>1, <2>2, SameFunction
<1> QED BY <1>1, <1>6

LEMMA ThinnedGoes ==
    ASSUME NEW h, NEW f, NEW l \in Nat, NEW p, Steady(h, f, l, p)
    PROVE  Steady(h, f, l, Thinned(p))
<1>1. PICK o, k : p = [ref |-> o, heap |-> k] /\ Going(h, f, l, o, k)
  BY Zenon DEF Steady
<1>2. p.ref = o /\ p.heap = k
  BY <1>1
<1>3. On(k, f, o) /\ Ready(k, o) /\ k[o].len <= l /\ Stays(h, k, f)
  BY <1>1, Zenon DEF Going
<1>4. k[o].len \in Nat
  BY <1>3, OnFacts
<1>T. PICK T : T = Twice(p)
  OBVIOUS
<1>5. CASE T = {}
  BY <1>5, <1>T, Zenon DEF Thinned
<1>6. CASE T # {}
  <2>x. PICK x : x = Min(T) - 1
    OBVIOUS
  <2>1. T \in SUBSET (1 .. k[o].len) /\ T \in SUBSET Nat
    <3>1. T \in SUBSET (1 .. p.heap[p.ref].len)
      BY <1>T DEF Twice
    <3> QED BY <1>2, <3>1
  <2>2. \E y \in T : \A z \in T : y <= z
    BY <1>6, <2>1, MinOfNaturals, Zenon
  <2>3. Min(T) \in T
    <3>1. Min(T) = CHOOSE y \in T : \A z \in T : y <= z
      BY Zenon DEF Min
    <3> QED BY <2>2, <3>1, Zenon
  <2>4. x \in 0 .. k[o].len - 1
    <3>1. Min(T) \in 1 .. k[o].len
      BY <2>1, <2>3
    <3> QED BY <1>4, <2>x, <3>1
  <2>5. Thinned(p) = list_delete(k, o, x)
    BY <1>2, <1>6, <1>T, <2>x, Zenon DEF Thinned
  <2>6. Deletes(k, f, o, x)
    BY <1>3, <2>4, Zenon DEF Deletes
  <2>7. Ended(k, f, k[o].len - 1, list_delete(k, o, x))
    BY <2>6, DeleteIs
  <2>8. k[o].len - 1 <= l
    BY <1>3, <1>4
  <2>9. Steady(k, f, l, list_delete(k, o, x))
    BY <2>7, <2>8, EndedSteady
  <2>10. PICK y, j : list_delete(k, o, x) = [ref |-> y, heap |-> j] /\ Going(k, f, l, y, j)
    BY <2>9, Zenon DEF Steady
  <2>11. On(j, f, y) /\ Ready(j, y) /\ j[y].len <= l /\ Stays(k, j, f)
    BY <2>10, Zenon DEF Going
  <2>12. Stays(h, j, f)
    BY <1>3, <2>11, Zenon DEF Stays
  <2>13. Going(h, f, l, y, j)
    BY <2>11, <2>12, Zenon DEF Going
  <2> QED BY <2>5, <2>10, <2>13, Zenon DEF Steady
<1> QED BY <1>5, <1>6

LEMMA TosetIs ==
    ASSUME NEW h, NEW f, NEW r, On(h, f, r), Ready(h, r)
    PROVE  Ends(f, list_toset(h, r))
<1>n. PICK n : n = h[r].len
  OBVIOUS
<1>1. n \in Nat
  BY <1>n, OnFacts
<1>u. PICK u : u = CHOOSE e : e = Thinning(h, r, n, e)
  OBVIOUS
<1>2. u = Thinning(h, r, n, u)
  <2>1. \E e : e = Thinning(h, r, n, e)
    BY <1>1, ThinningIsDefined
  <2> QED BY <1>u, <2>1, Zenon
<1>3. Steady(h, f, n, u[0])
  <2>1. u[0] = [heap |-> h, ref |-> r]
    <3>1. 0 \in 0 .. n
      BY <1>1
    <3>2. Thinning(h, r, n, u)[0] = [heap |-> h, ref |-> r]
      BY <3>1, Zenon DEF Thinning
    <3> QED BY <1>2, <3>2, Zenon
  <2>2. h[r].len <= n
    BY <1>1, <1>n
  <2> QED BY <2>1, <2>2, SameSteady, Zenon
<1>4. ASSUME NEW i \in 1 .. n, Steady(h, f, n, u[i - 1]) PROVE Steady(h, f, n, u[i])
  <2>1. u[i] = Thinned(u[i - 1])
    <3>1. i \in 0 .. n /\ i # 0
      BY <1>1
    <3>2. Thinning(h, r, n, u)[i] = Thinned(u[i - 1])
      BY <3>1, Zenon DEF Thinning
    <3> QED BY <1>2, <3>2, Zenon
  <2> QED BY <1>1, <1>4, <2>1, ThinnedGoes, Zenon
<1> DEFINE Odd == {i \in 0 .. n : ~Steady(h, f, n, u[i])}
<1>5. Odd = {}
  <2> SUFFICES ASSUME Odd # {} PROVE FALSE
    OBVIOUS
  <2>1. PICK m \in Odd : \A i \in Odd : m <= i
    <3>1. Odd \in SUBSET Nat
      BY <1>1
    <3> HIDE DEF Odd
    <3> QED BY <3>1, MinOfNaturals, Zenon
  <2>2. m \in 0 .. n /\ ~Steady(h, f, n, u[m])
    OBVIOUS
  <2>3. m # 0
    BY <1>3, <2>2, Zenon
  <2>4. m \in 1 .. n /\ m - 1 \in 0 .. n /\ m - 1 < m
    BY <1>1, <2>2, <2>3
  <2>5. m - 1 \notin Odd
    BY <2>1, <2>2, <2>4
  <2>6. Steady(h, f, n, u[m - 1])
    BY <2>4, <2>5
  <2> QED BY <1>4, <2>2, <2>4, <2>6, Zenon
<1>6. Steady(h, f, n, u[n])
  <2>1. n \in 0 .. n
    BY <1>1
  <2> QED BY <1>5, <2>1
<1>7. list_toset(h, r) = u[n]
  <2>1. list_toset(h, r) = (CHOOSE e : e = Thinning(h, r, h[r].len, e))[h[r].len]
    BY Zenon DEF list_toset, Thinning, Thinned, Twice
  <2> QED BY <1>n, <1>u, <2>1, Zenon
<1> QED BY <1>6, <1>7, SteadyEnds

-----------------------------------------------------------------------------
(* The variables and the stack. What they hold of a list is counted.         *)
SlotCount(b) == [r \in Refs |-> Cardinality({s \in Slots : b[s] = -r})]
OneIf(b, x) == IF b = x THEN 1 ELSE 0
Recorded(b, s, x, c, r) ==
    /\ SlotCount(c)[r] + OneIf(b[s], -r) = SlotCount(b)[r] + OneIf(x, -r)
    /\ SlotCount(b)[r] \in Nat /\ SlotCount(c)[r] \in Nat /\ OneIf(b[s], -r) <= SlotCount(b)[r]

LEMMA SlotsAre == IsFiniteSet(Slots) /\ "top" \in Slots /\ Locals \subseteq Slots
                  /\ "none" \notin Locals /\ "top" \notin Locals
BY ListsAssumption, FS_AddElement DEF Slots

LEMMA SlotPut ==
    ASSUME NEW b, DOMAIN b = Slots, NEW s \in Slots, NEW x, NEW r \in Refs
    PROVE  Recorded(b, s, x, PutIn(b, s, x), r)
<1>c. PICK c : c = PutIn(b, s, x)
  OBVIOUS
<1>q. PICK q : q = -r
  OBVIOUS
<1>1. Counts(b, c, s, x)
  <2>1. IsFiniteSet(Slots)
    BY SlotsAre
  <2> QED BY <1>c, <2>1, CountPut
<1>2. DOMAIN c = Slots /\ c[s] = x
  BY <1>c DEF PutIn
<1>3. \A a : DOMAIN a = Slots => SlotCount(a)[r] = Count(a, q)
  <2> TAKE a
  <2> HAVE DOMAIN a = Slots
  <2>1. SlotCount(a)[r] = Cardinality({t \in Slots : a[t] = -r})
    BY Zenon DEF SlotCount
  <2> QED BY <1>q, <2>1, Zenon DEF Count, Holding
<1>n. PICK n : n = Count(b, q)
  OBVIOUS
<1>m. PICK m : m = Count(c, q)
  OBVIOUS
<1>4. SlotCount(b)[r] = n /\ SlotCount(c)[r] = m
  BY <1>2, <1>3, <1>m, <1>n, Zenon
<1>5. /\ n \in Nat /\ (n = 0 <=> \A t \in Slots : b[t] # q)
      /\ (q # x /\ q # b[s] => m = n)
      /\ (x # b[s] => (q = x => m = n + 1) /\ (q = b[s] => m = n - 1))
  BY <1>1, <1>m, <1>n, Zenon DEF Counts
<1>6. x = b[s] => m = n
  <2> HAVE x = b[s]
  <2>1. \A t \in Slots : c[t] = b[t]
    BY <1>c DEF PutIn
  <2>2. Holding(c, q) = Holding(b, q)
    BY <1>2, <2>1 DEF Holding
  <2> QED BY <1>m, <1>n, <2>2, Zenon DEF Count
<1>y. PICK y : y = b[s]
  OBVIOUS
<1>7. b[s] = q => n # 0
  BY <1>5
<1>8. n \in Nat /\ m \in Nat /\ m + OneIf(y, q) = n + OneIf(x, q) /\ OneIf(y, q) <= n
  BY <1>5, <1>6, <1>7, <1>y DEF OneIf
<1> QED BY <1>4, <1>8, <1>c, <1>q, <1>y, Zenon DEF Recorded

LEMMA HeldOne ==
    ASSUME NEW x, NEW q
    PROVE  Occurrences(q, <<x>>) = OneIf(x, q) /\ OneIf(x, q) \in {0, 1} /\ (OneIf(x, q) = 1 <=> x = q)
<1>1. OneIf(x, q) \in {0, 1} /\ (OneIf(x, q) = 1 <=> x = q)
  BY DEF OneIf
<1> QED BY <1>1, OccOne DEF OneIf

SlotsLaid(b) == b \in [Slots -> Int] /\ \A s \in Slots : b[s] < 0 => -b[s] \in Refs
ListInv == SlotsLaid(slots) /\ Heaped(lists, SlotCount(slots))

LEMMA PutHolds ==
    ASSUME NEW b, SlotsLaid(b), NEW s, NEW x \in Int, x < 0 => -x \in Refs
    PROVE  SlotsLaid(PutIn(b, s, x)) /\ DOMAIN b = Slots
<1>1. DOMAIN b = Slots
  BY DEF SlotsLaid
<1>2. PutIn(b, s, x) \in [Slots -> Int] /\ \A t \in Slots : PutIn(b, s, x)[t] = b[t] \/ PutIn(b, s, x)[t] = x
  BY DEF SlotsLaid, PutIn
<1>3. \A t \in Slots : PutIn(b, s, x)[t] < 0 => -PutIn(b, s, x)[t] \in Refs
  <2> TAKE t \in Slots
  <2>1. b[t] < 0 => -b[t] \in Refs
    BY DEF SlotsLaid
  <2>2. PutIn(b, s, x)[t] = b[t] \/ PutIn(b, s, x)[t] = x
    BY <1>2
  <2> QED BY <2>1, <2>2
<1> QED BY <1>1, <1>2, <1>3, Zenon DEF SlotsLaid

LEMMA CountTally ==
    ASSUME NEW b, DOMAIN b = Slots, NEW s \in Slots, NEW x, NEW c, c = PutIn(b, s, x),
           NEW e, e = SlotCount(b)
    PROVE  /\ e \in [Refs -> Nat]
           /\ \A r \in Refs : Occurrences(-r, <<b[s]>>) <= e[r]
           /\ SlotCount(c) = [r \in Refs |-> e[r] + Occurrences(-r, <<x>>) - Occurrences(-r, <<b[s]>>)]
<1>1. \A r \in Refs : /\ SlotCount(c)[r] + OneIf(b[s], -r) = e[r] + OneIf(x, -r)
                      /\ e[r] \in Nat /\ SlotCount(c)[r] \in Nat /\ OneIf(b[s], -r) <= e[r]
  BY SlotPut, ZenonT(40) DEF Recorded
<1>2. e = [r \in Refs |-> e[r]] /\ SlotCount(c) = [r \in Refs |-> SlotCount(c)[r]]
  BY DEF SlotCount
<1>3. e \in [Refs -> Nat]
  BY <1>1, <1>2
<1>4. \A r \in Refs : /\ Occurrences(-r, <<b[s]>>) = OneIf(b[s], -r) /\ Occurrences(-r, <<x>>) = OneIf(x, -r)
                      /\ OneIf(b[s], -r) \in {0, 1} /\ OneIf(x, -r) \in {0, 1}
  BY HeldOne, Zenon
<1>5. \A r \in Refs : Occurrences(-r, <<b[s]>>) <= e[r]
  BY <1>1, <1>4, Zenon
<1>6. \A r \in Refs : SlotCount(c)[r] = e[r] + Occurrences(-r, <<x>>) - Occurrences(-r, <<b[s]>>)
  <2> TAKE r \in Refs
  <2>a. PICK a : a = OneIf(b[s], -r)
    OBVIOUS
  <2>d. PICK d : d = OneIf(x, -r)
    OBVIOUS
  <2>n. PICK n : n = e[r]
    OBVIOUS
  <2>m. PICK m : m = SlotCount(c)[r]
    OBVIOUS
  <2>1. m + a = n + d /\ n \in Nat /\ m \in Nat /\ a \in {0, 1} /\ d \in {0, 1}
    BY <1>1, <1>4, <2>a, <2>d, <2>n, <2>m, Zenon
  <2>2. m = n + d - a
    BY <2>1
  <2> QED BY <1>4, <2>2, <2>a, <2>d, <2>n, <2>m, Zenon
<1>7. SlotCount(c) = [r \in Refs |-> e[r] + Occurrences(-r, <<x>>) - Occurrences(-r, <<b[s]>>)]
  <2>g. PICK g : g = [r \in Refs |-> e[r] + Occurrences(-r, <<x>>) - Occurrences(-r, <<b[s]>>)]
    OBVIOUS
  <2>1. g = [r \in Refs |-> g[r]] /\ \A r \in Refs : SlotCount(c)[r] = g[r]
    BY <1>6, <2>g
  <2>2. SlotCount(c) = g
    BY <1>2, <2>1, SameFunction
  <2> QED BY <2>2, <2>g
<1> QED BY <1>3, <1>5, <1>7

-----------------------------------------------------------------------------
(* What is left of the variables and the stack while an operator works: w is *)
(* cleared and the list is off the stack.                                    *)
Popped(w) == PutIn(Cleared(slots, w, Zero), "top", Zero)
Around(w, d) == PlusThose(SlotCount(Popped(w)), <<d>>)

Puts(b, s, x, c) == DOMAIN b = Slots /\ s \in Slots /\ c = PutIn(b, s, x)
RecountedBy(b, s, x, c) ==
    /\ \A r \in Refs : /\ SlotCount(b)[r] \in Nat
                       /\ Occurrences(-r, <<b[s]>>) \in Nat /\ Occurrences(-r, <<x>>) \in Nat
                       /\ Occurrences(-r, <<b[s]>>) <= SlotCount(b)[r]
                       /\ SlotCount(c)[r] = SlotCount(b)[r] + Occurrences(-r, <<x>>)
                                            - Occurrences(-r, <<b[s]>>)
    /\ SlotCount(b) \in [Refs -> Nat]

LEMMA CountsPut ==
    ASSUME NEW b, NEW s, NEW x, NEW c, Puts(b, s, x, c)
    PROVE  RecountedBy(b, s, x, c)
<1>p. DOMAIN b = Slots /\ s \in Slots /\ c = PutIn(b, s, x)
  BY DEF Puts
<1>e. PICK e : e = SlotCount(b)
  OBVIOUS
<1>1. /\ e \in [Refs -> Nat]
      /\ \A r \in Refs : Occurrences(-r, <<b[s]>>) <= e[r]
      /\ SlotCount(c) = [r \in Refs |-> e[r] + Occurrences(-r, <<x>>) - Occurrences(-r, <<b[s]>>)]
  BY <1>e, <1>p, CountTally
<1>2. \A r \in Refs : e[r] \in Nat
                      /\ SlotCount(c)[r] = e[r] + Occurrences(-r, <<x>>) - Occurrences(-r, <<b[s]>>)
  BY <1>1
<1>3. \A r \in Refs : \A y : Occurrences(-r, <<y>>) \in {0, 1}
  BY HeldOne, Zenon
<1>4. \A r \in Refs : Occurrences(-r, <<b[s]>>) \in Nat /\ Occurrences(-r, <<x>>) \in Nat
  BY <1>3
<1> QED BY <1>e, <1>1, <1>2, <1>4, Zenon DEF RecountedBy

LEMMA NoneOfZero == \A r \in Refs : Occurrences(-r, <<Zero>>) = 0
<1> TAKE r \in Refs
<1>1. Zero # -r
  BY MinusIs DEF Zero
<1> QED BY <1>1, OccOne

LEMMA OneOfMinus == \A r, q \in Refs : Occurrences(-q, <<-r>>) = IF q = r THEN 1 ELSE 0
<1> TAKE r, q \in Refs
<1>1. -r = -q <=> r = q
  BY MinusIs
<1>2. Occurrences(-q, <<-r>>) = IF -r = -q THEN 1 ELSE 0
  BY OccOne, Zenon
<1> QED BY <1>1, <1>2

Clearing(w) == IF w \in Locals THEN <<slots[w]>> ELSE <<>>
LEMMA ClearedCounts ==
    ASSUME SlotsLaid(slots), NEW w \in Targets
    PROVE  /\ SlotsLaid(Cleared(slots, w, Zero)) /\ Cleared(slots, w, Zero)["top"] = slots["top"]
           /\ \A r \in Refs : /\ SlotCount(slots)[r] \in Nat /\ Occurrences(-r, Clearing(w)) \in Nat
                              /\ Occurrences(-r, Clearing(w)) <= SlotCount(slots)[r]
                              /\ SlotCount(Cleared(slots, w, Zero))[r]
                                 = SlotCount(slots)[r] - Occurrences(-r, Clearing(w))
           /\ \E k \in Nat : DOMAIN Clearing(w) = 1 .. k
<1>d. DOMAIN slots = Slots /\ slots \in [Slots -> Int]
  BY DEF SlotsLaid
<1>c. PICK c : c = Cleared(slots, w, Zero)
  OBVIOUS
<1>1. CASE w \in Locals
  <2>1. Clearing(w) = <<slots[w]>> /\ w \in Slots /\ w # "top" /\ "top" \in Slots
    BY <1>1, SlotsAre DEF Clearing
  <2>2. c = PutIn(slots, w, Zero)
    BY <1>c, <1>d DEF Cleared, PutIn
  <2>3. SlotsLaid(c)
    BY <2>2, PutHolds DEF Zero
  <2>4. c["top"] = slots["top"]
    BY <2>1, <2>2, <1>d DEF PutIn
  <2>5. \A r \in Refs : /\ SlotCount(slots)[r] \in Nat
                        /\ Occurrences(-r, <<slots[w]>>) \in Nat
                        /\ Occurrences(-r, <<slots[w]>>) <= SlotCount(slots)[r]
                        /\ SlotCount(c)[r] = SlotCount(slots)[r] + Occurrences(-r, <<Zero>>)
                                                   - Occurrences(-r, <<slots[w]>>)
    <3>1. Puts(slots, w, Zero, c)
      BY <1>d, <2>1, <2>2, Zenon DEF Puts
    <3> QED BY <3>1, CountsPut, Zenon DEF RecountedBy
  <2>6. \A r \in Refs : Occurrences(-r, <<Zero>>) = 0
    BY NoneOfZero
  <2>7. \A r \in Refs : SlotCount(c)[r] = SlotCount(slots)[r] - Occurrences(-r, <<slots[w]>>)
    <3> TAKE r \in Refs
    <3>n. PICK n : n = SlotCount(slots)[r]
      OBVIOUS
    <3>m. PICK m : m = Occurrences(-r, <<slots[w]>>)
      OBVIOUS
    <3>1. SlotCount(c)[r] = n + 0 - m /\ n \in Nat /\ m \in Nat
      BY <2>5, <2>6, <3>n, <3>m, Zenon
    <3>2. n + 0 - m = n - m
      BY <3>1
    <3> QED BY <3>1, <3>2, <3>n, <3>m, Zenon
  <2>8. DOMAIN <<slots[w]>> = 1 .. 1
    OBVIOUS
  <2> QED BY <1>c, <2>1, <2>3, <2>4, <2>5, <2>7, <2>8
<1>2. CASE w \notin Locals
  <2>1. Clearing(w) = <<>> /\ w \notin Slots
    BY <1>2, SlotsAre DEF Clearing, Slots, Targets
  <2>2. c = slots
    BY <1>c, <1>d, <2>1 DEF Cleared
  <2>3. \A r \in Refs : SlotCount(slots)[r] \in Nat
    <3>1. Puts(slots, "top", Zero, PutIn(slots, "top", Zero))
      BY <1>d, SlotsAre, Zenon DEF Puts
    <3> QED BY <3>1, CountsPut, Zenon DEF RecountedBy
  <2>4. \A r \in Refs : Occurrences(-r, <<>>) = 0
    BY OccNone
  <2>5. DOMAIN << >> = 1 .. 0
    OBVIOUS
  <2> QED BY <1>c, <2>1, <2>2, <2>3, <2>4, <2>5
<1> QED BY <1>1, <1>2

(* The count of a list is what is left of it, one for the list on the stack  *)
(* and one for the operand.                                                  *)
LEMMA AroundIs ==
    ASSUME SlotsLaid(slots), NEW w \in Targets, NEW d \in Int, Top \in Refs
    PROVE  /\ Around(w, d) \in [Refs -> Nat]
           /\ \A r \in Refs : /\ Around(w, d)[r] = SlotCount(Popped(w))[r] + Occurrences(-r, <<d>>)
                              /\ SlotCount(Popped(w))[r] \in Nat /\ Occurrences(-r, <<d>>) \in Nat
           /\ Plus(Around(w, d), Top) = LessThose(PlusThose(SlotCount(slots), <<d>>), Clearing(w))
           /\ SlotsLaid(Popped(w)) /\ Popped(w)["top"] = Zero
<1>b. PICK b : b = Cleared(slots, w, Zero)
  OBVIOUS
<1>c. PICK c : c = Popped(w)
  OBVIOUS
<1>1. /\ SlotsLaid(b) /\ b["top"] = slots["top"]
      /\ \A r \in Refs : /\ SlotCount(slots)[r] \in Nat /\ Occurrences(-r, Clearing(w)) \in Nat
                              /\ Occurrences(-r, Clearing(w)) <= SlotCount(slots)[r]
                              /\ SlotCount(b)[r] = SlotCount(slots)[r] - Occurrences(-r, Clearing(w))
  BY <1>b, ClearedCounts, Zenon
<1>2. DOMAIN b = Slots /\ "top" \in Slots /\ c = PutIn(b, "top", Zero) /\ slots["top"] \in Int
  BY <1>1, <1>b, <1>c, SlotsAre DEF Popped, SlotsLaid
<1>3. slots["top"] = -Top
  BY <1>2 DEF Top
<1>4. SlotsLaid(c) /\ c["top"] = Zero
  <2>1. SlotsLaid(c)
    BY <1>1, <1>2, PutHolds DEF Zero
  <2>2. c["top"] = Zero
    BY <1>2 DEF PutIn
  <2> QED BY <2>1, <2>2
<1>5. \A r \in Refs : SlotCount(c)[r] \in Nat
  <2>1. DOMAIN c = Slots
    BY <1>4 DEF SlotsLaid
  <2>2. Puts(c, "top", Zero, PutIn(c, "top", Zero))
    BY <2>1, SlotsAre, Zenon DEF Puts
  <2> QED BY <2>2, CountsPut, Zenon DEF RecountedBy
<1>6. \A r \in Refs : SlotCount(c)[r] = SlotCount(b)[r] + Occurrences(-r, <<Zero>>)
                                         - Occurrences(-r, <<-Top>>)
  <2>1. Puts(b, "top", Zero, c) /\ b["top"] = -Top
    BY <1>1, <1>2, <1>3, Zenon DEF Puts
  <2>2. \A r \in Refs : SlotCount(c)[r] = SlotCount(b)[r] + Occurrences(-r, <<Zero>>)
                                         - Occurrences(-r, <<b["top"]>>)
    BY <2>1, CountsPut, ZenonT(40) DEF RecountedBy
  <2> QED BY <2>1, <2>2
<1>7. \A r \in Refs : Occurrences(-r, <<d>>) \in {0, 1}
  BY HeldOne, Zenon
<1>f. PICK f : f = Around(w, d)
  OBVIOUS
<1>8. f = [r \in Refs |-> SlotCount(c)[r] + Occurrences(-r, <<d>>)]
  BY <1>c, <1>f DEF Around, PlusThose
<1>9. f \in [Refs -> Nat]
  BY <1>5, <1>7, <1>8
<1>g. PICK g : g = LessThose(PlusThose(SlotCount(slots), <<d>>), Clearing(w))
  OBVIOUS
<1>10. \A r \in Refs : g[r] = SlotCount(slots)[r] + Occurrences(-r, <<d>>) - Occurrences(-r, Clearing(w))
  <2>1. g = [r \in Refs |-> PlusThose(SlotCount(slots), <<d>>)[r] - Occurrences(-r, Clearing(w))]
    BY <1>g, Zenon DEF LessThose
  <2>2. \A r \in Refs : PlusThose(SlotCount(slots), <<d>>)[r] = SlotCount(slots)[r] + Occurrences(-r, <<d>>)
    BY Zenon DEF PlusThose
  <2>3. \A r \in Refs : g[r] = PlusThose(SlotCount(slots), <<d>>)[r] - Occurrences(-r, Clearing(w))
    BY <2>1, Zenon
  <2> TAKE r \in Refs
  <2>x. PICK x : x = PlusThose(SlotCount(slots), <<d>>)[r]
    OBVIOUS
  <2>4. g[r] = x - Occurrences(-r, Clearing(w))
    BY <2>3, <2>x, Zenon
  <2>5. x = SlotCount(slots)[r] + Occurrences(-r, <<d>>)
    BY <2>2, <2>x, Zenon
  <2>n. PICK n : n = SlotCount(slots)[r]
    OBVIOUS
  <2>m. PICK m : m = Occurrences(-r, Clearing(w))
    OBVIOUS
  <2>k. PICK k : k = Occurrences(-r, <<d>>)
    OBVIOUS
  <2>6. n \in Nat /\ m \in Nat /\ k \in {0, 1} /\ g[r] = x - m /\ x = n + k
    BY <1>1, <1>7, <2>4, <2>5, <2>n, <2>m, <2>k, Zenon
  <2>7. g[r] = n + k - m
    BY <2>6
  <2> QED BY <2>7, <2>n, <2>m, <2>k, Zenon
<1>11. \A r \in Refs : Plus(f, Top)[r] = f[r] + (IF r = Top THEN 1 ELSE 0)
  BY Zenon DEF Plus
<1>12. \A r \in Refs : Plus(f, Top)[r] = g[r]
  <2> TAKE r \in Refs
  <2>1. Occurrences(-r, <<Zero>>) = 0 /\ Occurrences(-r, <<-Top>>) = IF r = Top THEN 1 ELSE 0
    BY NoneOfZero, OneOfMinus, Zenon
  <2>n. PICK n : n = SlotCount(slots)[r]
    OBVIOUS
  <2>m. PICK m : m = Occurrences(-r, Clearing(w))
    OBVIOUS
  <2>k. PICK k : k = Occurrences(-r, <<d>>)
    OBVIOUS
  <2>t. PICK t : t = Occurrences(-r, <<-Top>>)
    OBVIOUS
  <2>a. PICK a : a = SlotCount(c)[r]
    OBVIOUS
  <2>v. PICK v : v = SlotCount(b)[r]
    OBVIOUS
  <2>2. n \in Nat /\ m \in Nat /\ k \in {0, 1} /\ v = n - m /\ a = v + 0 - t /\ t \in {0, 1}
    BY <1>1, <1>6, <1>7, <2>1, <2>n, <2>m, <2>k, <2>t, <2>a, <2>v
  <2>3. f[r] = a + k /\ g[r] = n + k - m /\ Plus(f, Top)[r] = f[r] + t
    BY <1>8, <1>10, <1>11, <2>1, <2>n, <2>m, <2>k, <2>t, <2>a
  <2> QED BY <2>2, <2>3
<1>13. Plus(f, Top) = [r \in Refs |-> Plus(f, Top)[r]] /\ g = [r \in Refs |-> g[r]]
  BY <1>g DEF Plus, LessThose
<1>14. Plus(f, Top) = g
  BY <1>12, <1>13, SameFunction
<1>15. \A r \in Refs : f[r] = SlotCount(c)[r] + Occurrences(-r, <<d>>) /\ Occurrences(-r, <<d>>) \in Nat
  BY <1>7, <1>8
<1> QED BY <1>4, <1>5, <1>9, <1>14, <1>15, <1>c, <1>f, <1>g, Zenon

-----------------------------------------------------------------------------
(* An operand, and the lists once it is pushed and the variable cleared.     *)
Operand(d) == d \in Int /\ (d < 0 => -d \in Refs /\ lists[-d].refs # 0)
Works(w, d) == ListInv /\ w \in Targets /\ Operand(d) /\ Top \in Refs
Taken(w, d, A) ==
    /\ On(A, Around(w, d), Top)
    /\ \A x \in Refs : A[x].refs # 0 => View(A)[x] = View(lists)[x] /\ A[x].len = lists[x].len
    /\ \A n \in Refs : lists[n] = Free => A[n] = Free

LEMMA AnticipatedIs ==
    ASSUME NEW w, NEW d, Works(w, d)
    PROVE  Taken(w, d, Anticipated(w, d))
<1>e. PICK e : e = SlotCount(slots)
  OBVIOUS
<1>1. /\ SlotsLaid(slots) /\ Heaped(lists, e) /\ w \in Targets /\ d \in Int /\ Top \in Refs
      /\ d < 0 => -d \in Refs /\ lists[-d].refs # 0
  BY <1>e, Zenon DEF Works, ListInv, Operand
<1>g. PICK g : g = data_dup(lists, <<d>>)
  OBVIOUS
<1>f. PICK f : f = PlusThose(e, <<d>>)
  OBVIOUS
<1>2. /\ Heaped(g, f) /\ View(g) = View(lists)
      /\ \A r \in Refs : /\ g[r] = Recount(lists[r], lists[r].refs + Occurrences(-r, <<d>>))
                         /\ Occurrences(-r, <<d>>) \in Nat
  <2>1. f = [r \in Refs |-> e[r] + Occurrences(-r, <<d>>)]
    BY <1>f DEF PlusThose
  <2>2. DOMAIN <<d>> = 1 .. 1 /\ 1 \in Nat
    OBVIOUS
  <2> PICK D, n : D = <<d>> /\ n = 1
    OBVIOUS
  <2>3. /\ n \in Nat /\ DOMAIN D = 1 .. n /\ f = [r \in Refs |-> e[r] + Occurrences(-r, D)]
        /\ g = data_dup(lists, D) /\ Heaped(lists, e)
    BY <1>1, <1>g, <2>1, <2>2, Zenon
  <2>4. /\ Heaped(g, f) /\ View(g) = View(lists)
        /\ \A r \in Refs : /\ g[r] = Recount(lists[r], lists[r].refs + Occurrences(-r, D))
                           /\ Occurrences(-r, D) \in Nat
    BY <2>3, DupHeap
  <2> QED BY <2>4, Zenon
<1>D. PICK D : D = Clearing(w)
  OBVIOUS
<1>A. PICK A : A = data_discard(g, D)
  OBVIOUS
<1>3. A = Anticipated(w, d)
  BY <1>A, <1>D, <1>g DEF Anticipated, Clearing
<1>4. PICK k \in Nat : DOMAIN D = 1 .. k
  BY <1>1, <1>D, ClearedCounts, Zenon
<1>5. \A r \in Refs : Occurrences(-r, D) <= f[r]
  <2> TAKE r \in Refs
  <2>n. PICK n : n = e[r]
    OBVIOUS
  <2>m. PICK m : m = Occurrences(-r, D)
    OBVIOUS
  <2>i. PICK i : i = Occurrences(-r, <<d>>)
    OBVIOUS
  <2>1. n \in Nat /\ m \in Nat /\ m <= n
    BY <1>1, <1>e, <1>D, <2>n, <2>m, ClearedCounts, Zenon
  <2>2. i \in Nat
    BY <1>2, <2>i, Zenon
  <2>3. f[r] = n + i
    BY <1>f, <2>n, <2>i, Zenon DEF PlusThose
  <2>4. m <= n + i
    BY <2>1, <2>2
  <2> QED BY <2>3, <2>4, <2>m, Zenon
<1>6. Heaped(A, LessThose(f, D)) /\ Left(g, A)
  BY <1>2, <1>4, <1>5, <1>A, DiscardHeap
<1>7. Around(w, d) \in [Refs -> Nat] /\ Plus(Around(w, d), Top) = LessThose(f, D)
  BY <1>1, <1>e, <1>f, <1>D, AroundIs, Zenon
<1>8. On(A, Around(w, d), Top)
  BY <1>1, <1>6, <1>7, Zenon DEF On
<1>9. ASSUME NEW x \in Refs, A[x].refs # 0
      PROVE  View(A)[x] = View(lists)[x] /\ A[x].len = lists[x].len
  <2>1. View(A)[x] = View(g)[x] /\ A[x] = Recount(g[x], A[x].refs)
    BY <1>6, <1>9, Zenon DEF Left
  <2>2. g[x] = Recount(lists[x], lists[x].refs + Occurrences(-x, <<d>>))
    BY <1>2, Zenon
  <2>3. Lasts(g[x]) /\ Lasts(lists[x])
    BY <1>1, <1>2, HeapFacts, Zenon
  <2>4. A[x].len = g[x].len
    BY <2>1, <2>3 DEF Recount, Lasts
  <2>5. g[x].len = lists[x].len
    BY <2>2, <2>3 DEF Recount, Lasts
  <2> QED BY <1>2, <2>1, <2>4, <2>5, Zenon
<1>10. ASSUME NEW n \in Refs, lists[n] = Free
       PROVE  A[n] = Free
  <2>1. lists[n].refs = 0
    BY <1>1, <1>10, FreeNowhere, Zenon
  <2>2. d # -n
    <3> SUFFICES ASSUME d = -n PROVE FALSE
      OBVIOUS
    <3>1. d < 0 /\ -d = n
      BY MinusIs
    <3> QED BY <1>1, <2>1, <3>1
  <2>3. Occurrences(-n, <<d>>) = 0
    BY <2>2, OccOne
  <2>4. g[n] = Recount(lists[n], 0)
    <3>1. g[n] = Recount(lists[n], lists[n].refs + Occurrences(-n, <<d>>))
      BY <1>2, Zenon
    <3>2. lists[n].refs + Occurrences(-n, <<d>>) = 0
      BY <2>1, <2>3
    <3> QED BY <3>1, <3>2, Zenon
  <2>5. g[n].refs = 0
    <3>1. Lasts(lists[n])
      BY <1>1, HeapFacts, Zenon
    <3> QED BY <2>4, <3>1 DEF Recount, Lasts
  <2>6. A[n].refs = 0
    BY <1>6, <2>5, Zenon DEF Left
  <2> QED BY <1>6, <2>6, HeapFacts, Zenon
<1> QED BY <1>3, <1>8, <1>9, <1>10, Zenon DEF Taken

(* What an operator returns takes the place of its first argument.           *)
Returned(w, d, p, h, b) ==
    h = data_discard(p.heap, <<d>>) /\ b = PutIn(Cleared(slots, w, Zero), "top", -p.ref)

LEMMA ReturnKeeps ==
    ASSUME NEW w, NEW d, Works(w, d), NEW p, Ends(Around(w, d), p), NEW h, NEW b, Returned(w, d, p, h, b)
    PROVE  SlotsLaid(b) /\ Heaped(h, SlotCount(b))
<1>1. /\ SlotsLaid(slots) /\ w \in Targets /\ d \in Int /\ Top \in Refs
  BY Zenon DEF Works, ListInv, Operand
<1>f. PICK f : f = Around(w, d)
  OBVIOUS
<1>c. PICK c : c = Popped(w)
  OBVIOUS
<1>2. /\ f \in [Refs -> Nat]
      /\ \A r \in Refs : /\ f[r] = SlotCount(c)[r] + Occurrences(-r, <<d>>)
                         /\ SlotCount(c)[r] \in Nat /\ Occurrences(-r, <<d>>) \in Nat
      /\ SlotsLaid(c) /\ c["top"] = Zero
  BY <1>1, <1>c, <1>f, AroundIs, Zenon
<1>3. PICK o, k : p = [ref |-> o, heap |-> k] /\ On(k, f, o)
  BY <1>f, Zenon DEF Ends
<1>4. o \in Refs /\ Heaped(k, Plus(f, o))
  BY <1>3, Zenon DEF On
<1>5. h = data_discard(k, <<d>>) /\ b = PutIn(Cleared(slots, w, Zero), "top", -o)
  BY <1>3 DEF Returned
<1>6. b = PutIn(c, "top", -o)
  BY <1>5, <1>c DEF Popped, PutIn
<1>7. DOMAIN c = Slots /\ "top" \in Slots /\ -o \in Int
  BY <1>2, <1>4, SlotsAre, MinusIs DEF SlotsLaid
<1>8. SlotsLaid(b)
  BY <1>2, <1>4, <1>6, <1>7, MinusIs, PutHolds
<1>9. \A r \in Refs : Plus(f, o)[r] = f[r] + (IF r = o THEN 1 ELSE 0)
  BY Zenon DEF Plus
<1>10. \A r \in Refs : Occurrences(-r, <<d>>) <= Plus(f, o)[r]
  BY <1>2, <1>9
<1>11. Heaped(h, LessThose(Plus(f, o), <<d>>))
  <2>1. DOMAIN <<d>> = 1 .. 1 /\ 1 \in Nat
    OBVIOUS
  <2> QED BY <1>4, <1>5, <1>10, <2>1, DiscardHeap
<1>g. PICK g : g = LessThose(Plus(f, o), <<d>>)
  OBVIOUS
<1>12. \A r \in Refs : g[r] = Plus(f, o)[r] - Occurrences(-r, <<d>>)
  BY <1>g, Zenon DEF LessThose
<1>13. \A r \in Refs : SlotCount(b)[r] = SlotCount(c)[r] + Occurrences(-r, <<-o>>)
                                                       - Occurrences(-r, <<Zero>>)
  <2>1. Puts(c, "top", -o, b)
    BY <1>6, <1>7, Zenon DEF Puts
  <2>2. \A r \in Refs : SlotCount(b)[r] = SlotCount(c)[r] + Occurrences(-r, <<-o>>)
                                                       - Occurrences(-r, <<c["top"]>>)
    BY <2>1, CountsPut, ZenonT(40) DEF RecountedBy
  <2> QED BY <1>2, <2>2
<1>14. \A r \in Refs : SlotCount(b)[r] = g[r]
  <2> TAKE r \in Refs
  <2>1. Occurrences(-r, <<Zero>>) = 0 /\ Occurrences(-r, <<-o>>) = IF r = o THEN 1 ELSE 0
    BY <1>4, NoneOfZero, OneOfMinus, Zenon
  <2>n. PICK n : n = SlotCount(c)[r]
    OBVIOUS
  <2>k. PICK m : m = Occurrences(-r, <<d>>)
    OBVIOUS
  <2>t. PICK t : t = Occurrences(-r, <<-o>>)
    OBVIOUS
  <2>2. n \in Nat /\ m \in Nat /\ t \in {0, 1} /\ f[r] = n + m
    BY <1>2, <2>1, <2>n, <2>k, <2>t
  <2>3. SlotCount(b)[r] = n + t - 0
    BY <1>13, <2>1, <2>n, <2>t, Zenon
  <2>4. Plus(f, o)[r] = f[r] + t
    BY <1>9, <2>1, <2>t, Zenon
  <2>5. g[r] = Plus(f, o)[r] - m
    BY <1>12, <2>k, Zenon
  <2> QED BY <2>2, <2>3, <2>4, <2>5
<1>15. SlotCount(b) = [r \in Refs |-> SlotCount(b)[r]] /\ g = [r \in Refs |-> g[r]]
  BY <1>g DEF SlotCount, LessThose
<1>16. SlotCount(b) = g
  BY <1>14, <1>15, SameFunction
<1> QED BY <1>8, <1>11, <1>16, <1>g, Zenon

LEMMA TopIs ==
    ASSUME ListInv, HasList
    PROVE  Top \in Refs
<1>1. slots["top"] < 0 => -slots["top"] \in Refs
  BY SlotsAre DEF ListInv, SlotsLaid
<1> QED BY <1>1 DEF HasList, IsList, Top

LEMMA ZeroWorks ==
    ASSUME ListInv, HasList, NEW w \in Targets
    PROVE  Works(w, Zero)
<1>1. Operand(Zero)
  BY DEF Operand, Zero
<1> QED BY <1>1, TopIs, Zenon DEF Works

LEMMA SlotLives ==
    ASSUME ListInv, NEW v \in Locals, slots[v] < 0
    PROVE  Operand(slots[v])
<1>1. v \in Slots /\ DOMAIN slots = Slots /\ slots[v] \in Int /\ -slots[v] \in Refs
  BY SlotsAre DEF ListInv, SlotsLaid
<1>r. PICK r \in Refs : r = -slots[v]
  BY <1>1
<1>2. slots[v] = -r
  BY <1>1, <1>r
<1>3. Occurrences(-r, <<slots[v]>>) = 1
  BY <1>2, OccOne
<1>4. Occurrences(-r, <<slots[v]>>) <= SlotCount(slots)[r] /\ SlotCount(slots)[r] \in Nat
  <2>1. Puts(slots, v, Zero, PutIn(slots, v, Zero))
    BY <1>1, Zenon DEF Puts
  <2> QED BY <2>1, CountsPut, Zenon DEF RecountedBy
<1>5. SlotCount(slots)[r] <= lists[r].refs /\ lists[r].refs \in Nat
  BY HeapFacts, Zenon DEF ListInv
<1>6. lists[r].refs # 0
  BY <1>3, <1>4, <1>5
<1> QED BY <1>1, <1>6, <1>r, Zenon DEF Operand

Flat(d) == d < 0 => Even(View(lists), -d)
LEMMA OperandIs ==
    ASSUME ListInv, NEW d \in Operands
    PROVE  Operand(d) /\ Flat(d)
<1>1. CASE d \in Atoms
  BY <1>1, ListsAssumption DEF Operand, Flat
<1>2. CASE d \notin Atoms
  <2>1. PICK v \in Locals : d = slots[v]
    BY <1>2 DEF Operands
  <2>2. d < 0 /\ \A i \in 1 .. lists[-d].len : ~(Window(lists[-d])[i] < 0)
    BY <1>2 DEF Operands, IsList
  <2>3. Operand(d)
    BY <2>1, <2>2, SlotLives, Zenon
  <2>4. -d \in Refs
    BY <2>2, <2>3 DEF Operand
  <2>5. View(lists)[-d] = Window(lists[-d]) /\ View(lists)[-d] \in Seq(Int) /\ Len(View(lists)[-d]) = lists[-d].len
    BY <2>4, HeapFacts, Zenon DEF ListInv
  <2>6. Even(View(lists), -d)
    <3> SUFFICES ASSUME NEW i \in 1 .. Len(View(lists)[-d]) PROVE View(lists)[-d][i] >= 0
      BY DEF Even
    <3>1. View(lists)[-d][i] \in Int
      BY <2>5
    <3>2. ~(View(lists)[-d][i] < 0)
      BY <2>2, <2>5, Zenon
    <3> QED BY <3>1, <3>2
  <2> QED BY <2>3, <2>6 DEF Flat
<1> QED BY <1>1, <1>2

LEMMA OtherIs ==
    ASSUME ListInv, NEW d \in Others
    PROVE  Operand(d) /\ d < 0 /\ -d \in Refs
<1>1. PICK v \in Locals, r \in Refs : d = slots[v] /\ d = -r
  BY DEF Others
<1>2. d < 0 /\ -d \in Refs
  BY <1>1, MinusIs
<1> QED BY <1>1, <1>2, SlotLives, Zenon

(* The list on the stack and the operand, once the variable is cleared.      *)
Set(w, d, A, f) == Works(w, d) /\ A = Anticipated(w, d) /\ f = Around(w, d)
LEMMA SetIs ==
    ASSUME NEW w, NEW d, NEW A, NEW f, Set(w, d, A, f)
    PROVE  /\ On(A, f, Top) /\ A[Top].len = lists[Top].len /\ Top \in Refs /\ A[Top].refs \in Nat \ {0}
           /\ \A n \in Refs : lists[n] = Free => A[n] = Free
           /\ d \in Int
           /\ d < 0 => -d \in Refs /\ f[-d] > 0 /\ View(A)[-d] = View(lists)[-d] /\ A[-d].len = lists[-d].len
<1>1. Taken(w, d, A) /\ Top \in Refs /\ Operand(d) /\ ListInv /\ w \in Targets
  BY AnticipatedIs, Zenon DEF Set, Works
<1>2. On(A, f, Top)
  BY <1>1, Zenon DEF Set, Taken
<1>3. A[Top].refs \in Nat \ {0}
  BY <1>2, OnFacts, Zenon
<1>4. A[Top].len = lists[Top].len
  BY <1>1, <1>3 DEF Taken
<1>5. ASSUME d < 0
      PROVE  -d \in Refs /\ f[-d] > 0 /\ View(A)[-d] = View(lists)[-d] /\ A[-d].len = lists[-d].len
  <2>r. PICK r \in Refs : r = -d
    BY <1>1, <1>5 DEF Operand
  <2>1. d = -r
    BY <1>1, <2>r DEF Operand
  <2>2. f[r] = SlotCount(Popped(w))[r] + Occurrences(-r, <<d>>) /\ SlotCount(Popped(w))[r] \in Nat
    BY <1>1, AroundIs, Zenon DEF Set, Operand, ListInv
  <2>3. Occurrences(-r, <<d>>) = 1
    BY <2>1, OccOne
  <2>4. f[r] > 0 /\ f[r] \in Nat
    BY <2>2, <2>3
  <2>5. Plus(f, Top)[r] <= A[r].refs /\ A[r].refs \in Nat
    BY <1>2, HeapFacts, Zenon DEF On
  <2>6. Plus(f, Top)[r] = f[r] + (IF r = Top THEN 1 ELSE 0)
    BY Zenon DEF Plus
  <2>7. A[r].refs # 0
    BY <2>4, <2>5, <2>6
  <2> QED BY <1>1, <2>4, <2>7, <2>r DEF Taken
<1> QED BY <1>1, <1>2, <1>3, <1>4, <1>5 DEF Taken, Operand

LEMMA SetHeld ==
    ASSUME NEW w, NEW d, NEW A, NEW f, Set(w, d, A, f), Flat(d)
    PROVE  Held(A, f, d)
<1>1. d \in Int /\ (d < 0 => -d \in Refs /\ f[-d] > 0 /\ View(A)[-d] = View(lists)[-d])
  BY SetIs
<1>2. d < 0 => Even(View(A), -d)
  BY <1>1 DEF Flat, Even
<1> QED BY <1>1, <1>2, Zenon DEF Held, Datum

LEMMA RoomIs ==
    ASSUME NEW n, Room(n)
    PROVE  lists[Top].len + n <= MaxLen /\ \E q \in Refs : lists[q] = Free
<1>1. {q \in Refs : lists[q] = Free} # {}
  <2> SUFFICES ASSUME {q \in Refs : lists[q] = Free} = {} PROVE FALSE
    OBVIOUS
  <2>1. Cardinality({q \in Refs : lists[q] = Free}) >= 1
    BY DEF Room
  <2>2. Cardinality({}) = 0
    BY FS_EmptySet
  <2>3. Cardinality({q \in Refs : lists[q] = Free}) = 0
    BY <2>2, Zenon
  <2> QED BY <2>1, <2>3
<1> QED BY <1>1 DEF Room

LEMMA SetEnough ==
    ASSUME NEW w, NEW d, NEW A, NEW f, Set(w, d, A, f), NEW n, Room(n)
    PROVE  Enough(A, Top) /\ \E q \in Refs : A[q] = Free
<1>1. \A q \in Refs : lists[q] = Free => A[q] = Free
  BY SetIs
<1>2. \E q \in Refs : lists[q] = Free
  BY RoomIs, Zenon
<1> QED BY <1>1, <1>2, Zenon DEF Enough

LEMMA SetReady ==
    ASSUME ~AllInPlace, NEW w, NEW d, NEW A, NEW f, Set(w, d, A, f), NEW n, Room(n), Whole(A)
    PROVE  Ready(A, Top)
<1>1. \E q \in Refs : A[q] = Free
  BY SetEnough, Zenon
<1>2. A[Top].refs \in Nat \ {0}
  BY SetIs, Zenon
<1>3. A[Top].refs > 1 \/ A[Top].start = 0
  BY DEF Whole
<1>4. A[Top].refs > 1 \/ A[Top].refs = 1
  BY <1>2
<1> QED BY <1>1, <1>3, <1>4, Zenon DEF Ready

LEMMA Keeps ==
    ASSUME NEW w, NEW d, NEW A, NEW f, Set(w, d, A, f), NEW p, Ends(f, p), NEW v, Return(w, d, p, v)
    PROVE  ListInv'
<1>1. Works(w, d) /\ Ends(Around(w, d), p)
  BY DEF Set
<1>h. PICK h : h = lists'
  OBVIOUS
<1>b. PICK b : b = slots'
  OBVIOUS
<1>2. Returned(w, d, p, h, b)
  BY <1>h, <1>b DEF Return, Returned, PutIn
<1>3. SlotsLaid(b) /\ Heaped(h, SlotCount(b))
  BY <1>1, <1>2, ReturnKeeps, Zenon
<1> QED BY <1>3, <1>h, <1>b DEF ListInv

(* One lemma for each operator that works on the list on the stack.          *)
LEMMA InsertKeeps ==
    ASSUME ~AllInPlace, ListInv, NEW w \in Targets, OpInsert(w)
    PROVE  ListInv'
<1>1. /\ HasList /\ Room(1)
      /\ \E d \in Operands, pos \in 0 .. lists[Top].len - 1 : \E A \in {Anticipated(w, d)} :
            /\ Whole(A)
            /\ Return(w, d, list_insert(A, Top, pos, d), InsertAt(Meant, pos + 1, Value(lists, d)))
  BY Zenon DEF OpInsert
<1>2. PICK d \in Operands, pos \in 0 .. lists[Top].len - 1 : \E A \in {Anticipated(w, d)} :
            /\ Whole(A)
            /\ Return(w, d, list_insert(A, Top, pos, d), InsertAt(Meant, pos + 1, Value(lists, d)))
  BY <1>1
<1>A. PICK A \in {Anticipated(w, d)} :
            /\ Whole(A)
            /\ Return(w, d, list_insert(A, Top, pos, d), InsertAt(Meant, pos + 1, Value(lists, d)))
  BY <1>2
<1>v. PICK v : v = InsertAt(Meant, pos + 1, Value(lists, d))
  OBVIOUS
<1>p. PICK p : p = list_insert(A, Top, pos, d)
  OBVIOUS
<1>f. PICK f : f = Around(w, d)
  OBVIOUS
<1>3. Flat(d) /\ Works(w, d)
  BY <1>1, OperandIs, TopIs, Zenon DEF Works
<1>4. Set(w, d, A, f)
  BY <1>3, <1>A, <1>f DEF Set
<1>5. On(A, f, Top) /\ A[Top].len = lists[Top].len
  BY <1>4, SetIs
<1>6. Held(A, f, d) /\ Ready(A, Top) /\ lists[Top].len + 1 <= MaxLen
  <2>1. Held(A, f, d)
    BY <1>3, <1>4, SetHeld
  <2>2. Ready(A, Top)
    BY <1>1, <1>4, <1>A, SetReady
  <2>3. lists[Top].len + 1 <= MaxLen
    BY <1>1, RoomIs
  <2> QED BY <2>1, <2>2, <2>3
<1>7. pos \in 0 .. A[Top].len
  <2>1. A[Top].len \in Nat
    BY <1>5, OnFacts
  <2> QED BY <1>2, <1>5, <2>1
<1>8. Given(A, f, Top, d, pos)
  BY <1>5, <1>6, <1>7 DEF Given
<1>9. Ends(f, p)
  <2>n. PICK n : n = A[Top].len + 1
    OBVIOUS
  <2>1. Ended(A, f, n, p)
    BY <1>8, <1>p, <2>n, InsertIs, Zenon
  <2> QED BY <2>1, EndedEnds
<1>10. Return(w, d, p, v)
  BY <1>A, <1>p, <1>v
<1> QED BY <1>4, <1>9, <1>10, Keeps

LEMMA ReplaceKeeps ==
    ASSUME ListInv, NEW w \in Targets, OpReplace(w)
    PROVE  ListInv'
<1>1. HasList /\ Room(0)
  BY Zenon DEF OpReplace
<1>2. PICK d \in Operands, pos \in 0 .. lists[Top].len - 1 :
            Return(w, d, list_replace(Anticipated(w, d), Top, pos, d),
                   [Meant EXCEPT ![pos + 1] = Value(lists, d)])
  BY Zenon DEF OpReplace
<1>A. PICK A : A = Anticipated(w, d)
  OBVIOUS
<1>v. PICK v : v = [Meant EXCEPT ![pos + 1] = Value(lists, d)]
  OBVIOUS
<1>p. PICK p : p = list_replace(A, Top, pos, d)
  OBVIOUS
<1>f. PICK f : f = Around(w, d)
  OBVIOUS
<1>3. Flat(d) /\ Works(w, d)
  BY <1>1, OperandIs, TopIs, Zenon DEF Works
<1>4. Set(w, d, A, f)
  BY <1>3, <1>A, <1>f DEF Set
<1>5. On(A, f, Top) /\ A[Top].len = lists[Top].len
  BY <1>4, SetIs
<1>6. Held(A, f, d) /\ Enough(A, Top)
  <2>1. Held(A, f, d)
    BY <1>3, <1>4, SetHeld
  <2>2. Enough(A, Top)
    BY <1>1, <1>4, SetEnough
  <2> QED BY <2>1, <2>2
<1>7. Replaces(A, f, Top, d, pos)
  BY <1>2, <1>5, <1>6 DEF Replaces
<1>8. Ends(f, p)
  BY <1>7, <1>p, ReplaceIs, Zenon
<1>9. Return(w, d, p, v)
  BY <1>2, <1>A, <1>p, <1>v
<1> QED BY <1>4, <1>8, <1>9, Keeps

LEMMA DeleteKeeps ==
    ASSUME ~AllInPlace, ListInv, NEW w \in Targets, OpDelete(w)
    PROVE  ListInv'
<1>1. HasList /\ Room(0)
  BY Zenon DEF OpDelete
<1>2. PICK pos \in 0 .. lists[Top].len - 1 : \E A \in {Anticipated(w, Zero)} :
            /\ Whole(A)
            /\ Return(w, Zero, list_delete(A, Top, pos), RemoveAt(Meant, pos + 1))
  BY Zenon DEF OpDelete
<1>A. PICK A \in {Anticipated(w, Zero)} :
            /\ Whole(A)
            /\ Return(w, Zero, list_delete(A, Top, pos), RemoveAt(Meant, pos + 1))
  BY <1>2
<1>v. PICK v : v = RemoveAt(Meant, pos + 1)
  OBVIOUS
<1>p. PICK p : p = list_delete(A, Top, pos)
  OBVIOUS
<1>f. PICK f : f = Around(w, Zero)
  OBVIOUS
<1>3. Works(w, Zero)
  BY <1>1, ZeroWorks, Zenon
<1>4. Set(w, Zero, A, f)
  BY <1>3, <1>A, <1>f DEF Set
<1>5. On(A, f, Top) /\ A[Top].len = lists[Top].len
  BY <1>4, SetIs
<1>6. Ready(A, Top)
  BY <1>1, <1>4, <1>A, SetReady
<1>7. Deletes(A, f, Top, pos)
  BY <1>2, <1>5, <1>6 DEF Deletes
<1>8. Ends(f, p)
  <2>n. PICK n : n = A[Top].len - 1
    OBVIOUS
  <2>1. Ended(A, f, n, p)
    BY <1>7, <1>p, <2>n, DeleteIs, Zenon
  <2> QED BY <2>1, EndedEnds
<1>9. Return(w, Zero, p, v)
  BY <1>A, <1>p, <1>v
<1> QED BY <1>4, <1>8, <1>9, Keeps

LEMMA SublistKeeps ==
    ASSUME ListInv, NEW w \in Targets, OpSublist(w)
    PROVE  ListInv'
<1>1. HasList /\ Room(0)
  BY Zenon DEF OpSublist
<1>2. PICK start \in 0 .. lists[Top].len - 1 : \E span \in 0 .. lists[Top].len - start :
            Return(w, Zero, list_sublist(Anticipated(w, Zero), Top, start, span),
                   SubSeq(Meant, start + 1, start + span))
  BY Zenon DEF OpSublist
<1>s. PICK span \in 0 .. lists[Top].len - start :
            Return(w, Zero, list_sublist(Anticipated(w, Zero), Top, start, span),
                   SubSeq(Meant, start + 1, start + span))
  BY <1>2
<1>A. PICK A : A = Anticipated(w, Zero)
  OBVIOUS
<1>v. PICK v : v = SubSeq(Meant, start + 1, start + span)
  OBVIOUS
<1>p. PICK p : p = list_sublist(A, Top, start, span)
  OBVIOUS
<1>f. PICK f : f = Around(w, Zero)
  OBVIOUS
<1>3. Works(w, Zero)
  BY <1>1, ZeroWorks, Zenon
<1>4. Set(w, Zero, A, f)
  BY <1>3, <1>A, <1>f DEF Set
<1>5. On(A, f, Top) /\ A[Top].len = lists[Top].len
  BY <1>4, SetIs
<1>6. \E q \in Refs : A[q] = Free
  BY <1>1, <1>4, SetEnough
<1>7. Slices(A, f, Top, start, span)
  BY <1>2, <1>s, <1>5, <1>6 DEF Slices
<1>8. Ends(f, p)
  BY <1>7, <1>p, SublistIs, Zenon
<1>9. Return(w, Zero, p, v)
  BY <1>s, <1>A, <1>p, <1>v
<1> QED BY <1>4, <1>8, <1>9, Keeps

LEMMA SetaddKeeps ==
    ASSUME ~AllInPlace, ListInv, NEW w \in Targets, OpSetadd(w)
    PROVE  ListInv'
<1>1. HasList /\ Room(1)
  BY Zenon DEF OpSetadd
<1>2. PICK d \in Operands : \E A \in {Anticipated(w, d)} :
            /\ Whole(A)
            /\ Return(w, d, list_setadd(A, Top, d), SetAdded(Meant, Value(lists, d)))
  BY Zenon DEF OpSetadd
<1>A. PICK A \in {Anticipated(w, d)} :
            /\ Whole(A)
            /\ Return(w, d, list_setadd(A, Top, d), SetAdded(Meant, Value(lists, d)))
  BY <1>2
<1>v. PICK v : v = SetAdded(Meant, Value(lists, d))
  OBVIOUS
<1>p. PICK p : p = list_setadd(A, Top, d)
  OBVIOUS
<1>f. PICK f : f = Around(w, d)
  OBVIOUS
<1>3. Flat(d) /\ Works(w, d)
  BY <1>1, OperandIs, TopIs, Zenon DEF Works
<1>4. Set(w, d, A, f)
  BY <1>3, <1>A, <1>f DEF Set
<1>5. On(A, f, Top) /\ A[Top].len = lists[Top].len
  BY <1>4, SetIs
<1>6. Held(A, f, d) /\ Ready(A, Top) /\ lists[Top].len + 1 <= MaxLen
  <2>1. Held(A, f, d)
    BY <1>3, <1>4, SetHeld
  <2>2. Ready(A, Top)
    BY <1>1, <1>4, <1>A, SetReady
  <2>3. lists[Top].len + 1 <= MaxLen
    BY <1>1, RoomIs
  <2> QED BY <2>1, <2>2, <2>3
<1>7. SetsIn(A, f, Top, d)
  BY <1>5, <1>6 DEF SetsIn
<1>8. Ends(f, p)
  <2>n. PICK n : n = A[Top].len + 1
    OBVIOUS
  <2>1. Steady(A, f, n, p)
    BY <1>7, <1>p, <2>n, SetaddIs, Zenon
  <2> QED BY <2>1, SteadyEnds
<1>9. Return(w, d, p, v)
  BY <1>A, <1>p, <1>v
<1> QED BY <1>4, <1>8, <1>9, Keeps

LEMMA SetremoveKeeps ==
    ASSUME ~AllInPlace, ListInv, NEW w \in Targets, OpSetremove(w)
    PROVE  ListInv'
<1>1. HasList /\ Room(0)
  BY Zenon DEF OpSetremove
<1>2. PICK d \in Operands : \E A \in {Anticipated(w, d)} : Whole(A) /\ \E v :
            Return(w, d, list_setremove(A, Top, d), v)
  BY Zenon DEF OpSetremove
<1>A. PICK A \in {Anticipated(w, d)} : Whole(A) /\ \E v :
            Return(w, d, list_setremove(A, Top, d), v)
  BY <1>2
<1>p. PICK p : p = list_setremove(A, Top, d)
  OBVIOUS
<1>v. PICK v : Return(w, d, p, v)
  BY <1>A, <1>p
<1>f. PICK f : f = Around(w, d)
  OBVIOUS
<1>3. Works(w, d)
  BY <1>1, OperandIs, TopIs, Zenon DEF Works
<1>4. Set(w, d, A, f)
  BY <1>3, <1>A, <1>f DEF Set
<1>5. On(A, f, Top)
  BY <1>4, SetIs
<1>6. Ready(A, Top)
  BY <1>1, <1>4, <1>A, SetReady
<1>7. Ends(f, p)
  BY <1>5, <1>6, <1>p, SetremoveIs, Zenon
<1> QED BY <1>4, <1>7, <1>v, Keeps

LEMMA TosetKeeps ==
    ASSUME ~AllInPlace, ListInv, NEW w \in Targets, OpToset(w)
    PROVE  ListInv'
<1>1. HasList /\ Room(0)
  BY Zenon DEF OpToset
<1>A. PICK A \in {Anticipated(w, Zero)} :
            Whole(A) /\ \E v : Return(w, Zero, list_toset(A, Top), v)
  BY Zenon DEF OpToset
<1>p. PICK p : p = list_toset(A, Top)
  OBVIOUS
<1>v. PICK v : Return(w, Zero, p, v)
  BY <1>A, <1>p
<1>f. PICK f : f = Around(w, Zero)
  OBVIOUS
<1>3. Works(w, Zero)
  BY <1>1, ZeroWorks, Zenon
<1>4. Set(w, Zero, A, f)
  BY <1>3, <1>A, <1>f DEF Set
<1>5. On(A, f, Top)
  BY <1>4, SetIs
<1>6. Ready(A, Top)
  BY <1>1, <1>4, <1>A, SetReady
<1>7. Ends(f, p)
  BY <1>5, <1>6, <1>p, TosetIs, Zenon
<1> QED BY <1>4, <1>7, <1>v, Keeps

(* The second argument is the list of a variable.                            *)
LEMMA OtherReady ==
    ASSUME ~AllInPlace, ListInv, HasList, NEW w \in Targets, NEW d \in Others,
           NEW A, A = Anticipated(w, d), NEW f, f = Around(w, d),
           Whole(A), Room(lists[-d].len)
    PROVE  Set(w, d, A, f) /\ Appends(A, f, Top, -d)
<1>1. Operand(d) /\ d < 0 /\ -d \in Refs
  BY OtherIs
<1>2. Set(w, d, A, f)
  BY <1>1, TopIs, Zenon DEF Set, Works
<1>3. On(A, f, Top) /\ A[Top].len = lists[Top].len /\ f[-d] > 0 /\ A[-d].len = lists[-d].len
  BY <1>1, <1>2, SetIs
<1>n. PICK n : n = lists[-d].len
  OBVIOUS
<1>4. Ready(A, Top) /\ lists[Top].len + n <= MaxLen
  <2>1. Room(n)
    BY <1>n
  <2>2. Ready(A, Top)
    BY <1>2, <2>1, SetReady
  <2>3. lists[Top].len + n <= MaxLen
    BY <2>1, RoomIs
  <2> QED BY <2>2, <2>3
<1> QED BY <1>1, <1>2, <1>3, <1>4, <1>n DEF Appends

LEMMA UnionKeeps ==
    ASSUME ~AllInPlace, ListInv, NEW w \in Targets, OpUnion(w)
    PROVE  ListInv'
<1>1. HasList
  BY Zenon DEF OpUnion
<1>2. PICK d \in Others : \E A \in {Anticipated(w, d)} :
            Whole(A) /\ Room(lists[-d].len) /\ \E v : Return(w, d, list_union(A, Top, -d), v)
  BY Zenon DEF OpUnion
<1>A. PICK A \in {Anticipated(w, d)} :
            Whole(A) /\ Room(lists[-d].len) /\ \E v : Return(w, d, list_union(A, Top, -d), v)
  BY <1>2
<1>p. PICK p : p = list_union(A, Top, -d)
  OBVIOUS
<1>v. PICK v : Return(w, d, p, v)
  BY <1>A, <1>p
<1>f. PICK f : f = Around(w, d)
  OBVIOUS
<1>3. Set(w, d, A, f) /\ Appends(A, f, Top, -d)
  BY <1>1, <1>A, <1>f, OtherReady
<1>4. Ends(f, p)
  BY <1>3, <1>p, UnionIs, Zenon
<1> QED BY <1>3, <1>4, <1>v, Keeps

LEMMA AddKeeps ==
    ASSUME ~AllInPlace, ListInv, NEW w \in Targets, OpAdd(w)
    PROVE  ListInv'
<1>1. HasList
  BY Zenon DEF OpAdd
<1>2. PICK d \in Others : \E A \in {Anticipated(w, d)} :
            Whole(A) /\ Room(lists[-d].len) /\ \E v : Return(w, d, list_append(A, Top, -d), v)
  BY Zenon DEF OpAdd
<1>A. PICK A \in {Anticipated(w, d)} :
            Whole(A) /\ Room(lists[-d].len) /\ \E v : Return(w, d, list_append(A, Top, -d), v)
  BY <1>2
<1>p. PICK p : p = list_append(A, Top, -d)
  OBVIOUS
<1>v. PICK v : Return(w, d, p, v)
  BY <1>A, <1>p
<1>f. PICK f : f = Around(w, d)
  OBVIOUS
<1>3. Set(w, d, A, f) /\ Appends(A, f, Top, -d)
  BY <1>1, <1>A, <1>f, OtherReady
<1>o. PICK o : o = -d
  OBVIOUS
<1>n. PICK n : n = A[Top].len + A[o].len
  OBVIOUS
<1>4. Ends(f, p)
  <2>1. Ended(A, f, n, p)
    BY <1>3, <1>p, <1>o, <1>n, AppendIs, Zenon
  <2> QED BY <2>1, EndedEnds
<1> QED BY <1>3, <1>4, <1>v, Keeps

LEMMA QsortKeeps ==
    ASSUME ListInv, NEW w \in Targets, OpQsort(w)
    PROVE  ListInv'
<1>1. HasList /\ Room(0) /\ \E v : Return(w, Zero, list_qsort(Anticipated(w, Zero), Top), v)
  BY Zenon DEF OpQsort
<1>A. PICK A : A = Anticipated(w, Zero)
  OBVIOUS
<1>p. PICK p : p = list_qsort(A, Top)
  OBVIOUS
<1>v. PICK v : Return(w, Zero, p, v)
  BY <1>1, <1>A, <1>p
<1>f. PICK f : f = Around(w, Zero)
  OBVIOUS
<1>3. Works(w, Zero)
  BY <1>1, ZeroWorks, Zenon
<1>4. Set(w, Zero, A, f)
  BY <1>3, <1>A, <1>f DEF Set
<1>5. On(A, f, Top)
  BY <1>4, SetIs
<1>6. Enough(A, Top)
  BY <1>1, <1>4, SetEnough
<1>7. Ends(f, p)
  BY <1>5, <1>6, <1>p, QsortIs, Zenon
<1> QED BY <1>4, <1>7, <1>v, Keeps

LEMMA ReversedKeeps ==
    ASSUME ListInv, Reversed
    PROVE  ListInv'
<1>1. HasList /\ Room(0) /\ \E v : Return("none", Zero, list_reverse(lists, Top), v)
  BY Zenon DEF Reversed
<1>p. PICK p : p = list_reverse(lists, Top)
  OBVIOUS
<1>v. PICK v : Return("none", Zero, p, v)
  BY <1>1, <1>p
<1>f. PICK f : f = Around("none", Zero)
  OBVIOUS
<1>3. Works("none", Zero)
  BY <1>1, ZeroWorks, Zenon DEF Targets
<1>4. Set("none", Zero, Anticipated("none", Zero), f)
  BY <1>3, <1>f, Zenon DEF Set
<1>5. On(lists, f, Top)
  <2>1. SlotsLaid(slots) /\ Heaped(lists, SlotCount(slots)) /\ Top \in Refs /\ "none" \in Targets /\ Zero \in Int
    BY <1>3 DEF Works, ListInv, Targets, Zero
  <2>2. f \in [Refs -> Nat] /\ Plus(f, Top) = LessThose(PlusThose(SlotCount(slots), <<Zero>>), Clearing("none"))
    BY <1>f, <2>1, AroundIs, Zenon
  <2>3. Clearing("none") = <<>>
    BY SlotsAre DEF Clearing
  <2>e. PICK e : e = SlotCount(slots)
    OBVIOUS
  <2>4. \A r \in Refs : e[r] \in Nat
    BY <2>1, <2>e, HeapFacts, Zenon
  <2>5. e = [r \in Refs |-> e[r]]
    BY <2>e DEF SlotCount
  <2>g. PICK g : g = LessThose(PlusThose(e, <<Zero>>), <<>>)
    OBVIOUS
  <2>6. \A r \in Refs : g[r] = e[r]
    <3> TAKE r \in Refs
    <3>n. PICK n : n = e[r]
      OBVIOUS
    <3>m. PICK m : m = PlusThose(e, <<Zero>>)[r]
      OBVIOUS
    <3>1. g[r] = m - Occurrences(-r, <<>>)
      BY <2>g, <3>m, Zenon DEF LessThose
    <3>2. m = n + Occurrences(-r, <<Zero>>)
      BY <3>n, <3>m, Zenon DEF PlusThose
    <3>3. Occurrences(-r, <<>>) = 0 /\ Occurrences(-r, <<Zero>>) = 0
      BY OccNone, NoneOfZero, Zenon
    <3>4. g[r] = m - 0 /\ m = n + 0
      BY <3>1, <3>2, <3>3
    <3>5. n \in Nat
      BY <2>4, <3>n
    <3> QED BY <3>4, <3>5, <3>n
  <2>7. g = [r \in Refs |-> g[r]]
    BY <2>g DEF LessThose
  <2>8. g = e
    BY <2>5, <2>6, <2>7, SameFunction
  <2>9. Plus(f, Top) = e
    BY <2>2, <2>3, <2>8, <2>g, <2>e
  <2> QED BY <2>1, <2>2, <2>9, <2>e DEF On
<1>6. Enough(lists, Top)
  BY <1>1, RoomIs, Zenon DEF Enough
<1>7. Ends(f, p)
  BY <1>5, <1>6, <1>p, ReverseIs, Zenon
<1> QED BY <1>4, <1>7, <1>v, Keeps

-----------------------------------------------------------------------------
(* The operators that only move lists between the variables and the stack.   *)
LEMMA SingleIs == \A d : DOMAIN <<d>> = 1 .. 1 /\ 1 \in Nat
OBVIOUS

LEMMA SlotsHold ==
    ASSUME ListInv
    PROVE  /\ SlotsLaid(slots) /\ Heaped(lists, SlotCount(slots)) /\ DOMAIN slots = Slots
           /\ \A s \in Slots : slots[s] \in Int /\ (slots[s] < 0 => -slots[s] \in Refs)
BY DEF ListInv, SlotsLaid

Sums(b, s, x, c, g) ==
    /\ Puts(b, s, x, c) /\ g = [r \in Refs |-> g[r]]
    /\ \A r \in Refs : g[r] = SlotCount(b)[r] + Occurrences(-r, <<x>>) - Occurrences(-r, <<b[s]>>)
LEMMA CountsAs ==
    ASSUME NEW b, NEW s, NEW x, NEW c, NEW g, Sums(b, s, x, c, g)
    PROVE  SlotCount(c) = g
<1>p. Puts(b, s, x, c) /\ g = [r \in Refs |-> g[r]]
  BY Zenon DEF Sums
<1>r. RecountedBy(b, s, x, c)
  BY <1>p, CountsPut, Zenon
<1>1. \A r \in Refs : SlotCount(c)[r] = SlotCount(b)[r] + Occurrences(-r, <<x>>)
                                                   - Occurrences(-r, <<b[s]>>)
  BY <1>r, Zenon DEF RecountedBy
<1>2. \A r \in Refs : SlotCount(c)[r] = g[r]
  BY <1>1, Zenon DEF Sums
<1>3. SlotCount(c) = [r \in Refs |-> SlotCount(c)[r]]
  BY DEF SlotCount
<1> QED BY <1>2, <1>3, <1>p, SameFunction

LEMMA GetLocalKeeps ==
    ASSUME ListInv, OpGetLocal
    PROVE  ListInv'
<1>1. PICK v \in Locals : /\ slots["top"] = Zero
                          /\ lists' = data_dup(lists, <<slots[v]>>)
                          /\ slots' = [slots EXCEPT !["top"] = slots[v]]
  BY DEF OpGetLocal
<1>x. PICK x : x = slots[v]
  OBVIOUS
<1>e. PICK e : e = SlotCount(slots)
  OBVIOUS
<1>b. PICK b : b = PutIn(slots, "top", x)
  OBVIOUS
<1>f. PICK f : f = [r \in Refs |-> e[r] + Occurrences(-r, <<x>>)]
  OBVIOUS
<1>2. x \in Int /\ (x < 0 => -x \in Refs) /\ "top" \in Slots /\ DOMAIN slots = Slots
  BY <1>x, SlotsHold, SlotsAre
<1>3. Heaped(data_dup(lists, <<x>>), f)
  BY <1>e, <1>f, SlotsHold, SingleIs, DupHeap
<1>4. SlotsLaid(b)
  BY <1>2, <1>b, SlotsHold, PutHolds
<1>5. Puts(slots, "top", x, b)
  BY <1>2, <1>b DEF Puts
<1>6. \A r \in Refs : f[r] = SlotCount(slots)[r] + Occurrences(-r, <<x>>) - Occurrences(-r, <<slots["top"]>>)
  <2> TAKE r \in Refs
  <2>n. PICK n : n = e[r]
    OBVIOUS
  <2>k. PICK k : k = Occurrences(-r, <<x>>)
    OBVIOUS
  <2>1. n \in Nat /\ k \in Nat
    BY <1>5, <1>e, <2>n, <2>k, CountsPut, Zenon DEF RecountedBy
  <2>2. f[r] = n + k
    BY <1>f, <2>n, <2>k
  <2>3. Occurrences(-r, <<slots["top"]>>) = 0
    BY <1>1, NoneOfZero
  <2>4. n + k - 0 = n + k
    BY <2>1
  <2> QED BY <1>e, <2>2, <2>3, <2>4, <2>n, <2>k
<1>7. f = [r \in Refs |-> f[r]]
  BY <1>f
<1>8. SlotCount(b) = f
  BY <1>5, <1>6, <1>7, CountsAs, ZenonT(40) DEF Sums
<1>9. slots' = b /\ lists' = data_dup(lists, <<x>>)
  BY <1>1, <1>x, <1>b DEF PutIn
<1> QED BY <1>3, <1>4, <1>8, <1>9 DEF ListInv

LEMMA PopKeeps ==
    ASSUME ListInv, OpPop
    PROVE  ListInv'
<1>x. PICK x : x = slots["top"]
  OBVIOUS
<1>e. PICK e : e = SlotCount(slots)
  OBVIOUS
<1>b. PICK b : b = PutIn(slots, "top", Zero)
  OBVIOUS
<1>f. PICK f : f = LessThose(e, <<x>>)
  OBVIOUS
<1>1. slots' = b /\ lists' = data_discard(lists, <<x>>)
  BY <1>x, <1>b DEF OpPop, PutIn
<1>2. "top" \in Slots /\ DOMAIN slots = Slots
  BY SlotsHold, SlotsAre
<1>3. Puts(slots, "top", Zero, b)
  BY <1>2, <1>b DEF Puts
<1>4. \A r \in Refs : e[r] \in Nat /\ Occurrences(-r, <<x>>) \in Nat /\ Occurrences(-r, <<x>>) <= e[r]
  <2>1. \A r \in Refs : e[r] \in Nat /\ Occurrences(-r, <<slots["top"]>>) \in Nat
                        /\ Occurrences(-r, <<slots["top"]>>) <= e[r]
    BY <1>3, <1>e, CountsPut, Zenon DEF RecountedBy
  <2> QED BY <2>1, <1>x
<1>5. Heaped(data_discard(lists, <<x>>), f)
  <2>1. \A r \in Refs : Occurrences(-r, <<x>>) <= e[r]
    BY <1>4, Zenon
  <2> QED BY <1>e, <1>f, <2>1, SlotsHold, SingleIs, DiscardHeap
<1>6. SlotsLaid(b)
  BY <1>b, SlotsHold, PutHolds DEF Zero
<1>7. \A r \in Refs : f[r] = SlotCount(slots)[r] + Occurrences(-r, <<Zero>>) - Occurrences(-r, <<slots["top"]>>)
  <2> TAKE r \in Refs
  <2>n. PICK n : n = e[r]
    OBVIOUS
  <2>k. PICK k : k = Occurrences(-r, <<x>>)
    OBVIOUS
  <2>1. n \in Nat /\ k \in Nat
    BY <1>4, <2>n, <2>k, Zenon
  <2>2. f[r] = n - k
    BY <1>f, <2>n, <2>k, Zenon DEF LessThose
  <2>3. Occurrences(-r, <<Zero>>) = 0
    BY NoneOfZero
  <2>4. n + 0 - k = n - k
    BY <2>1
  <2> QED BY <1>e, <1>x, <2>2, <2>3, <2>4, <2>n, <2>k
<1>8. f = [r \in Refs |-> f[r]]
  BY <1>f DEF LessThose
<1>9. SlotCount(b) = f
  BY <1>3, <1>7, <1>8, CountsAs, ZenonT(40) DEF Sums
<1> QED BY <1>1, <1>5, <1>6, <1>9, <1>f DEF ListInv

LEMMA SetLocalKeeps ==
    ASSUME ListInv, OpSetLocal
    PROVE  ListInv'
<1>1. PICK v \in Locals : /\ lists' = data_dup(data_discard(lists, <<slots[v]>>), <<slots["top"]>>)
                          /\ slots' = [slots EXCEPT ![v] = slots["top"]]
  BY DEF OpSetLocal
<1>x. PICK x : x = slots["top"]
  OBVIOUS
<1>y. PICK y : y = slots[v]
  OBVIOUS
<1>e. PICK e : e = SlotCount(slots)
  OBVIOUS
<1>b. PICK b : b = PutIn(slots, v, x)
  OBVIOUS
<1>g. PICK g : g = LessThose(e, <<y>>)
  OBVIOUS
<1>f. PICK f : f = [r \in Refs |-> g[r] + Occurrences(-r, <<x>>)]
  OBVIOUS
<1>2. v \in Slots /\ "top" \in Slots /\ DOMAIN slots = Slots
  BY SlotsHold, SlotsAre
<1>3. Puts(slots, v, x, b)
  BY <1>2, <1>b DEF Puts
<1>4. \A r \in Refs : e[r] \in Nat /\ Occurrences(-r, <<y>>) \in Nat /\ Occurrences(-r, <<y>>) <= e[r]
                      /\ Occurrences(-r, <<x>>) \in Nat
  <2>1. \A r \in Refs : e[r] \in Nat /\ Occurrences(-r, <<slots[v]>>) \in Nat
                        /\ Occurrences(-r, <<slots[v]>>) <= e[r] /\ Occurrences(-r, <<x>>) \in Nat
    BY <1>3, <1>e, CountsPut, Zenon DEF RecountedBy
  <2> QED BY <2>1, <1>y
<1>h. PICK h : h = data_discard(lists, <<y>>)
  OBVIOUS
<1>5. Heaped(h, g)
  <2>1. \A r \in Refs : Occurrences(-r, <<y>>) <= e[r]
    BY <1>4, Zenon
  <2> QED BY <1>e, <1>g, <1>h, <2>1, SlotsHold, SingleIs, DiscardHeap
<1>6. Heaped(data_dup(h, <<x>>), f)
  BY <1>5, <1>f, SingleIs, DupHeap
<1>7. x \in Int /\ (x < 0 => -x \in Refs)
  BY <1>2, <1>x, SlotsHold
<1>8. SlotsLaid(b)
  BY <1>7, <1>b, SlotsHold, PutHolds
<1>9. \A r \in Refs : f[r] = SlotCount(slots)[r] + Occurrences(-r, <<x>>) - Occurrences(-r, <<slots[v]>>)
  <2> TAKE r \in Refs
  <2>n. PICK n : n = e[r]
    OBVIOUS
  <2>k. PICK k : k = Occurrences(-r, <<x>>)
    OBVIOUS
  <2>m. PICK m : m = Occurrences(-r, <<y>>)
    OBVIOUS
  <2>1. n \in Nat /\ k \in Nat /\ m \in Nat
    BY <1>4, <2>n, <2>k, <2>m, Zenon
  <2>2. f[r] = g[r] + k /\ g[r] = n - m
    BY <1>f, <1>g, <2>n, <2>k, <2>m, Zenon DEF LessThose
  <2>3. n + k - m = f[r]
    BY <2>1, <2>2
  <2> QED BY <1>e, <1>y, <2>3, <2>n, <2>k, <2>m
<1>10. f = [r \in Refs |-> f[r]]
  BY <1>f
<1>11. SlotCount(b) = f
  BY <1>3, <1>9, <1>10, CountsAs, ZenonT(40) DEF Sums
<1>12. slots' = b /\ lists' = data_dup(h, <<x>>)
  BY <1>1, <1>x, <1>y, <1>b, <1>h DEF PutIn
<1> QED BY <1>6, <1>8, <1>11, <1>12 DEF ListInv

LEMMA ListInvInit ==
    ASSUME ListInit
    PROVE  ListInv
<1>1. SlotsLaid(slots)
  BY DEF ListInit, SlotsLaid, Zero
<1>e. PICK e : e = SlotCount(slots)
  OBVIOUS
<1>2. \A r \in Refs : e[r] = 0
  <2> TAKE r \in Refs
  <2>1. \A s \in Slots : slots[s] # -r
    BY MinusIs DEF ListInit, Zero
  <2>2. {s \in Slots : slots[s] = -r} = {}
    BY <2>1
  <2>3. e[r] = Cardinality({s \in Slots : slots[s] = -r})
    BY <1>e, Zenon DEF SlotCount
  <2>4. Cardinality({}) = 0
    BY FS_EmptySet
  <2> QED BY <2>2, <2>3, <2>4
<1>3. \A r \in Refs : lists[r] = Free
  BY DEF ListInit
<1>4. LaidOut(lists)
  <2>1. DOMAIN lists = Refs
    BY DEF ListInit
  <2> QED BY <2>1, <1>3, FreeLasts DEF LaidOut
<1>w. PICK w : w = View(lists)
  OBVIOUS
<1>n. PICK n : n = Tally(lists)
  OBVIOUS
<1>5. \A r \in Refs : w[r] = <<>> /\ n[r] = 0
  BY <1>3, <1>w, <1>n, FreeLasts DEF View, Tally
<1>6. Windows(w)
  <2>1. w = [r \in Refs |-> w[r]]
    BY <1>w DEF View
  <2>2. \A r \in Refs : w[r] \in Seq(Int)
    BY <1>4, <1>w, LaidIs
  <2>3. w \in [Refs -> Seq(Int)]
    BY <2>1, <2>2
  <2>4. \A r \in Refs : Len(w[r]) <= MaxLen
    BY <1>5, RefsAre
  <2> QED BY <2>3, <2>4, Zenon DEF Windows
<1>7. \A r \in Refs : Inner(w, r) = 0
  <2> TAKE r \in Refs
  <2>1. \A o \in Refs : \A i \in 1 .. Len(w[o]) : w[o][i] # -r
    BY <1>5
  <2> QED BY <1>6, <2>1, InnerIs
<1>8. Booked(n, w, e)
  <2>1. n = [r \in Refs |-> n[r]] /\ e = [r \in Refs |-> e[r]]
    BY <1>n, <1>e DEF Tally, SlotCount
  <2>2. n \in [Refs -> Nat] /\ e \in [Refs -> Nat]
    BY <1>2, <1>5, <2>1
  <2> QED BY <1>2, <1>5, <1>7, <2>2 DEF Booked
<1>9. \A o \in Refs : \A i \in 1 .. Len(w[o]) : Datum(w, w[o][i])
  BY <1>5
<1>10. Sound(n, w, e)
  BY <1>5, <1>6, <1>8, <1>9 DEF Sound
<1> QED BY <1>1, <1>4, <1>10, <1>e, <1>n, <1>w DEF ListInv, Heaped

(* A new list of one element.                                                *)
One(d) == [list_new(1) EXCEPT !.len = 1, !.el[0] = d]
LEMMA OneIs ==
    ASSUME NEW d \in Int
    PROVE  WholeList(One(d), <<d>>)
<1>1. 1 \in 0 .. MaxLen
  BY ListsAssumption
<1>z. PICK z : z = SizeFor(1)
  OBVIOUS
<1>2. z \in Nat /\ 1 <= z
  BY <1>1, <1>z, SizeForIs
<1>m. PICK m : m = Array(z, 0, <<>>)
  OBVIOUS
<1>3. m \in [0 .. z - 1 -> Int]
  BY <1>m DEF Array, Zero
<1>u. PICK u : u = [m EXCEPT ![0] = d]
  OBVIOUS
<1>4. u \in [0 .. z - 1 -> Int] /\ u[0] = d
  BY <1>2, <1>3, <1>u
<1>c. PICK c : c = [start |-> 0, len |-> 1, size |-> z, refs |-> 1, el |-> u]
  OBVIOUS
<1>5. One(d) = c
  <2>1. list_new(1) = [start |-> 0, len |-> 0, size |-> z, refs |-> 1, el |-> m]
    BY <1>z, <1>m DEF list_new
  <2>l. PICK l : l = list_new(1)
    OBVIOUS
  <2>a. PICK a : a = [l EXCEPT !.len = 1]
    OBVIOUS
  <2>2. a = [start |-> 0, len |-> 1, size |-> z, refs |-> 1, el |-> m]
    BY <2>1, <2>l, <2>a
  <2>3. One(d) = [a EXCEPT !.el[0] = d]
    BY <2>l, <2>a, Zenon DEF One
  <2>4. [a EXCEPT !.el[0] = d] = [a EXCEPT !.el = [a.el EXCEPT ![0] = d]]
    OBVIOUS
  <2>5. a.el = m
    BY <2>2
  <2>6. [a EXCEPT !.el = u] = c
    BY <2>2, <1>c
  <2> QED BY <1>u, <2>3, <2>4, <2>5, <2>6
<1>6. Lasts(c) /\ c.refs = 1 /\ c.len = 1 /\ c.start = 0 /\ c.el = u
  BY <1>1, <1>2, <1>4, <1>c DEF Lasts
<1>7. Window(c) = <<d>>
  <2>1. <<d>> \in Seq(Int) /\ Len(<<d>>) = 1 /\ \A i \in 1 .. 1 : <<d>>[i] = d
    OBVIOUS
  <2>2. \A i \in 1 .. Len(<<d>>) : <<d>>[i] = c.el[c.start + i - 1]
    BY <1>4, <1>6, <2>1
  <2> QED BY <1>6, <2>1, <2>2, SameWindow
<1> QED BY <1>5, <1>6, <1>7 DEF WholeList

LEMMA ListKeeps ==
    ASSUME ListInv, OpList
    PROVE  ListInv'
<1>1. PICK d \in Operands, n \in {r \in Refs : lists[r] = Free} :
        /\ lists' = [data_dup(lists, <<d>>) EXCEPT ![n] = One(d)]
        /\ slots' = [slots EXCEPT !["top"] = -n]
  BY DEF OpList, One
<1>t. slots["top"] = Zero
  BY DEF OpList
<1>2. Operand(d) /\ Flat(d) /\ n \in Refs /\ lists[n] = Free
  BY OperandIs
<1>e. PICK e : e = SlotCount(slots)
  OBVIOUS
<1>b. PICK b : b = PutIn(slots, "top", -n)
  OBVIOUS
<1>h. PICK h : h = data_dup(lists, <<d>>)
  OBVIOUS
<1>f. PICK f : f = [r \in Refs |-> e[r] + Occurrences(-r, <<d>>)]
  OBVIOUS
<1>c. PICK c : c = One(d)
  OBVIOUS
<1>3. /\ Heaped(h, f) /\ View(h) = View(lists)
      /\ \A r \in Refs : /\ h[r] = Recount(lists[r], lists[r].refs + Occurrences(-r, <<d>>))
                         /\ Occurrences(-r, <<d>>) \in Nat
  BY <1>e, <1>f, <1>h, SlotsHold, SingleIs, DupHeap
<1>4. lists[n].refs = 0 /\ e[n] = 0 /\ View(lists)[n] = <<>> /\ Nowhere(View(lists), n)
  BY <1>2, <1>e, SlotsHold, FreeNowhere, Zenon
<1>5. d # -n
  <2> SUFFICES ASSUME d = -n PROVE FALSE
    OBVIOUS
  <2>1. d < 0 /\ -d = n
    BY <1>2, MinusIs
  <2> QED BY <1>2, <1>4, <2>1 DEF Operand
<1>6. Occurrences(-n, <<d>>) = 0
  BY <1>5, OccOne
<1>7. h[n].refs = 0
  <2>1. h[n] = Recount(lists[n], lists[n].refs + Occurrences(-n, <<d>>))
    BY <1>2, <1>3, Zenon
  <2>2. lists[n].refs + Occurrences(-n, <<d>>) = 0
    BY <1>4, <1>6
  <2>3. Lasts(lists[n])
    BY <1>2, SlotsHold, HeapFacts, Zenon
  <2> QED BY <2>1, <2>2, <2>3 DEF Recount, Lasts
<1>8. Nowhere(View(h), n) /\ View(h)[n] = <<>>
  BY <1>3, <1>4
<1>9. d \in Int /\ WholeList(c, <<d>>)
  BY <1>2, <1>c, OneIs DEF Operand
<1>10. Fills(View(h), n, <<d>>)
  <2>1. Datum(View(h), d)
    BY <1>2, <1>3 DEF Datum, Operand, Flat
  <2>2. <<d>> \in Seq(Int) /\ Len(<<d>>) = 1 /\ \A i \in 1 .. 1 : <<d>>[i] = d
    BY <1>9
  <2>3. 1 <= MaxLen
    BY ListsAssumption
  <2> QED BY <1>5, <2>1, <2>2, <2>3 DEF Fills
<1>g. PICK g : g = [r \in Refs |-> e[r] + (IF r = n THEN 1 ELSE 0)]
  OBVIOUS
<1>11. "top" \in Slots /\ DOMAIN slots = Slots
  BY SlotsHold, SlotsAre
<1>12. Puts(slots, "top", -n, b)
  BY <1>11, <1>b DEF Puts
<1>13. e \in [Refs -> Nat]
  BY <1>12, <1>e, CountsPut, Zenon DEF RecountedBy
<1>14. g \in [Refs -> Nat] /\ g[n] = 1 /\ \A q \in Refs : q # n => g[q] = e[q]
  BY <1>2, <1>4, <1>13, <1>g
<1>15. Settles(h, f, n, c, <<d>>, g)
  <2>1. f[n] = 0
    BY <1>2, <1>4, <1>6, <1>f
  <2>2. c.refs = 1
    BY <1>9 DEF WholeList
  <2>3. \A r : Occurrences(r, View(h)[n]) = 0
    BY <1>8, OccNone
  <2>4. g[n] + h[n].refs + Occurrences(-n, <<d>>) = c.refs + Occurrences(-n, View(h)[n]) + f[n]
    BY <1>6, <1>7, <1>14, <2>1, <2>2, <2>3
  <2>5. \A q \in Refs : q # n => Occurrences(-q, View(h)[n]) + f[q] = Occurrences(-q, <<d>>) + g[q]
    <3> SUFFICES ASSUME NEW q \in Refs, q # n
                 PROVE  Occurrences(-q, View(h)[n]) + f[q] = Occurrences(-q, <<d>>) + g[q]
      OBVIOUS
    <3>i. PICK i : i = e[q]
      OBVIOUS
    <3>k. PICK k : k = Occurrences(-q, <<d>>)
      OBVIOUS
    <3>1. i \in Nat /\ k \in Nat /\ f[q] = i + k /\ g[q] = i
      BY <1>3, <1>13, <1>14, <1>f, <3>i, <3>k
    <3>2. 0 + (i + k) = k + i
      BY <3>1
    <3> QED BY <2>3, <3>1, <3>2, <3>k
  <2> QED BY <1>14, <2>4, <2>5 DEF Settles
<1>16. Heaped(PutIn(h, n, c), g)
  BY <1>2, <1>3, <1>8, <1>9, <1>10, <1>15, PutHeapTo, Zenon
<1>17. SlotsLaid(b)
  <2>1. -n \in Int /\ (-n < 0 => -(-n) \in Refs)
    BY <1>2, MinusIs
  <2> QED BY <1>b, <2>1, SlotsHold, PutHolds
<1>18. \A r \in Refs : g[r] = SlotCount(slots)[r] + Occurrences(-r, <<-n>>) - Occurrences(-r, <<slots["top"]>>)
  <2> TAKE r \in Refs
  <2>i. PICK i : i = e[r]
    OBVIOUS
  <2>1. Occurrences(-r, <<slots["top"]>>) = 0
    BY <1>t, NoneOfZero
  <2>k. PICK k : k = Occurrences(-r, <<-n>>)
    OBVIOUS
  <2>2. k = (IF r = n THEN 1 ELSE 0) /\ i \in Nat
    BY <1>2, <1>13, <2>i, <2>k, OneOfMinus
  <2>3. g[r] = i + k
    BY <1>g, <2>2, <2>i
  <2>4. i + k - 0 = i + k
    BY <2>2
  <2> QED BY <1>e, <2>1, <2>3, <2>4, <2>i, <2>k
<1>19. g = [r \in Refs |-> g[r]]
  BY <1>g
<1>20. SlotCount(b) = g
  BY <1>12, <1>18, <1>19, CountsAs, ZenonT(40) DEF Sums
<1>21. slots' = b /\ lists' = PutIn(h, n, c)
  BY <1>1, <1>b, <1>c, <1>h DEF PutIn
<1> QED BY <1>16, <1>17, <1>20, <1>21 DEF ListInv

LEMMA ListInvStep ==
    ASSUME ~AllInPlace, ListInv, [ListNext]_listVars
    PROVE  ListInv'
<1>1. CASE OpList
  BY <1>1, ListKeeps
<1>2. CASE OpGetLocal
  BY <1>2, GetLocalKeeps
<1>3. CASE OpSetLocal
  BY <1>3, SetLocalKeeps
<1>4. CASE OpPop
  BY <1>4, PopKeeps
<1>5. CASE Reversed
  BY <1>5, ReversedKeeps
<1>6. ASSUME NEW w \in Targets,
             \/ OpInsert(w) \/ OpReplace(w) \/ OpDelete(w) \/ OpSublist(w) \/ OpSetadd(w)
             \/ OpSetremove(w) \/ OpToset(w) \/ OpUnion(w) \/ OpAdd(w) \/ OpQsort(w)
      PROVE  ListInv'
  <2>1. CASE OpInsert(w)
    BY <2>1, InsertKeeps
  <2>2. CASE OpReplace(w)
    BY <2>2, ReplaceKeeps
  <2>3. CASE OpDelete(w)
    BY <2>3, DeleteKeeps
  <2>4. CASE OpSublist(w)
    BY <2>4, SublistKeeps
  <2>5. CASE OpSetadd(w)
    BY <2>5, SetaddKeeps
  <2>6. CASE OpSetremove(w)
    BY <2>6, SetremoveKeeps
  <2>7. CASE OpToset(w)
    BY <2>7, TosetKeeps
  <2>8. CASE OpUnion(w)
    BY <2>8, UnionKeeps
  <2>9. CASE OpAdd(w)
    BY <2>9, AddKeeps
  <2>10. CASE OpQsort(w)
    BY <2>10, QsortKeeps
  <2> QED BY <1>6, <2>1, <2>2, <2>3, <2>4, <2>5, <2>6, <2>7, <2>8, <2>9, <2>10, Zenon
<1>7. CASE UNCHANGED listVars
  BY <1>7 DEF listVars, ListInv
<1> QED BY <1>1, <1>2, <1>3, <1>4, <1>5, <1>6, <1>7, Zenon DEF ListNext

LEMMA CountedThen ==
    ASSUME ListInv
    PROVE  ReferencesCounted
<1>1. \A r \in Refs : Within(lists, Refs, r) = Holes(View(lists), Refs, r)
  <2> TAKE r \in Refs
  <2>1. \A o \in Refs : View(lists)[o] = Window(lists[o]) /\ Len(View(lists)[o]) = lists[o].len
    BY SlotsHold, HeapFacts, Zenon
  <2>2. \A at \in Refs \X (1 .. MaxLen) : at[1] \in Refs
    OBVIOUS
  <2>3. \A at \in Refs \X (1 .. MaxLen) :
            (at[2] <= lists[at[1]].len /\ Window(lists[at[1]])[at[2]] = -r)
            <=> (at[2] <= Len(View(lists)[at[1]]) /\ View(lists)[at[1]][at[2]] = -r)
    BY <2>1, <2>2, Zenon
  <2> QED BY <2>3 DEF Within, Holes
<1> SUFFICES ASSUME NEW r \in Refs
             PROVE  /\ lists[r].refs = Cardinality({s \in Slots : slots[s] = -r})
                                       + Cardinality(Within(lists, Refs, r))
                    /\ lists[r].start + lists[r].len <= lists[r].size
  BY Zenon DEF ReferencesCounted
<1>2. /\ lists[r].refs = SlotCount(slots)[r] + Inner(View(lists), r)
      /\ Lasts(lists[r])
  BY SlotsHold, HeapFacts, Zenon
<1>3. SlotCount(slots)[r] = Cardinality({s \in Slots : slots[s] = -r})
  BY Zenon DEF SlotCount
<1>4. Inner(View(lists), r) = Cardinality(Within(lists, Refs, r))
  BY <1>1, Zenon DEF Inner
<1> QED BY <1>2, <1>3, <1>4 DEF Lasts

(* A list is kept exactly as long as a variable, the stack or another list   *)
(* refers to it, and its window lies within its array, whatever the          *)
(* operators of list.c do in place, as long as a list changed in place has   *)
(* its window at the start of its array.                                     *)
THEOREM ReferencesAreCounted ==
    ASSUME ~AllInPlace
    PROVE  ListSpec => []ReferencesCounted
<1>1. ListInit => ListInv
  BY ListInvInit
<1>2. ListInv /\ [ListNext]_listVars => ListInv'
  BY ListInvStep
<1>3. ListInv => ReferencesCounted
  BY CountedThen
<1> QED BY <1>1, <1>2, <1>3, PTL DEF ListSpec
==============================================================================
