-------------------------- MODULE HierarchyProofs --------------------------
(* Proofs about Hierarchy, for any number of objects and any lists of        *)
(* parents that are asked for.                                               *)
EXTENDS Hierarchy, FiniteSetTheorems, SequenceTheorems, WellFoundedInduction, TLAPS

(* Times and Kept: how often an element is in a list, and what is left of a  *)
(* list of which some elements are taken out.                                *)
Places(x, s) == {i \in DOMAIN s : s[i] = x}

LEMMA PlacesAreFinite ==
    ASSUME NEW S, NEW s \in Seq(S), NEW x
    PROVE  IsFiniteSet(Places(x, s)) /\ IsFiniteSet(DOMAIN s) /\ Cardinality(DOMAIN s) = Len(s)
<1>1. DOMAIN s = 1 .. Len(s) /\ Len(s) \in Nat
  OBVIOUS
<1>2. IsFiniteSet(1 .. Len(s)) /\ Cardinality(1 .. Len(s)) = Len(s)
  BY <1>1, FS_Interval
<1>3. Places(x, s) \in SUBSET DOMAIN s
  BY DEF Places
<1>4. IsFiniteSet(Places(x, s))
  BY <1>1, <1>2, <1>3, FS_Subset
<1> QED BY <1>1, <1>2, <1>4

LEMMA TimesIs ==
    ASSUME NEW S, NEW s \in Seq(S), NEW x
    PROVE  Times(x, s) \in Nat /\ (Times(x, s) = 0 <=> x \notin Range(s))
<1>1. IsFiniteSet(Places(x, s)) /\ Times(x, s) = Cardinality(Places(x, s))
  BY PlacesAreFinite, Zenon DEF Times, Places
<1>2. Times(x, s) \in Nat
  BY <1>1, FS_CardinalityType
<1>3. Times(x, s) = 0 <=> Places(x, s) = {}
  BY <1>1, FS_EmptySet
<1>4. Places(x, s) = {} <=> x \notin Range(s)
  BY DEF Places, Range
<1> QED BY <1>2, <1>3, <1>4

LEMMA AllTheSame ==
    ASSUME NEW S, NEW s \in Seq(S), NEW x
    PROVE  Times(x, s) = Len(s) <=> Range(s) \subseteq {x}
<1>1. /\ IsFiniteSet(DOMAIN s) /\ Cardinality(DOMAIN s) = Len(s)
      /\ Times(x, s) = Cardinality(Places(x, s))
  BY PlacesAreFinite, Zenon DEF Times, Places
<1>2. Places(x, s) \in SUBSET DOMAIN s
  BY DEF Places
<1>3. Cardinality(Places(x, s)) = Cardinality(DOMAIN s) => Places(x, s) = DOMAIN s
  BY <1>1, <1>2, FS_Subset
<1>4. Places(x, s) = DOMAIN s <=> Range(s) \subseteq {x}
  BY DEF Places, Range
<1> QED BY <1>1, <1>3, <1>4

(* The elements before a place that are x.                                   *)
Before(x, s, n) == {i \in 1 .. n : s[i] = x}

Counted(x, s, n) ==
    /\ Cardinality(Before(x, s, 0)) = 0
    /\ Cardinality(Before(x, s, n)) \in Nat
    /\ Cardinality(Before(x, s, n + 1)) =
           IF s[n + 1] = x THEN Cardinality(Before(x, s, n)) + 1
                           ELSE Cardinality(Before(x, s, n))

LEMMA BeforeIs ==
    ASSUME NEW s, NEW x, NEW n \in Nat
    PROVE  Counted(x, s, n)
<1>0. Cardinality({}) = 0
  BY FS_EmptySet
<1>1. Before(x, s, 0) = {}
  BY DEF Before
<1>2. IsFiniteSet(Before(x, s, n))
  <2>1. IsFiniteSet(1 .. n)
    BY FS_Interval
  <2>2. Before(x, s, n) \in SUBSET (1 .. n)
    BY DEF Before
  <2> QED BY <2>1, <2>2, FS_Subset
<1>3. Cardinality(Before(x, s, n)) \in Nat
  BY <1>2, FS_CardinalityType
<1>4. CASE s[n + 1] = x
  <2>1. Before(x, s, n + 1) = Before(x, s, n) \cup {n + 1} /\ n + 1 \notin Before(x, s, n)
    BY <1>4 DEF Before
  <2>2. Cardinality(Before(x, s, n) \cup {n + 1}) = Cardinality(Before(x, s, n)) + 1
    BY <1>2, <2>1, FS_AddElement
  <2> QED BY <1>0, <1>1, <1>3, <1>4, <2>1, <2>2, Zenon DEF Counted
<1>5. CASE s[n + 1] # x
  <2>1. Before(x, s, n + 1) = Before(x, s, n)
    BY <1>5 DEF Before
  <2> QED BY <1>0, <1>1, <1>3, <1>5, <2>1, Zenon DEF Counted
<1> QED BY <1>4, <1>5

Longer(x, s, e) == Times(x, Append(s, e)) = IF e = x THEN Times(x, s) + 1 ELSE Times(x, s)

LEMMA TimesAppended ==
    ASSUME NEW S, NEW s \in Seq(S), NEW e \in S, NEW x
    PROVE  Longer(x, s, e)
<1> PICK t : t = Append(s, e)
  OBVIOUS
<1> PICK n : n = Len(s)
  OBVIOUS
<1>1. /\ n \in Nat /\ DOMAIN s = 1 .. n /\ DOMAIN t = 1 .. n + 1
      /\ t[n + 1] = e /\ \A i \in 1 .. n : t[i] = s[i]
  OBVIOUS
<1>2. Times(x, t) = Cardinality(Before(x, t, n + 1))
  BY <1>1, Zenon DEF Times, Before
<1>3. Times(x, s) = Cardinality(Before(x, s, n))
  BY <1>1, Zenon DEF Times, Before
<1>4. Before(x, t, n) = Before(x, s, n)
  BY <1>1 DEF Before
<1>5. Counted(x, t, n)
  BY <1>1, BeforeIs, Zenon
<1>6. Cardinality(Before(x, t, n + 1)) = IF t[n + 1] = x THEN Cardinality(Before(x, t, n)) + 1
                                                          ELSE Cardinality(Before(x, t, n))
  BY <1>5, Zenon DEF Counted
<1> QED BY <1>1, <1>2, <1>3, <1>4, <1>6, Zenon DEF Longer

LEMMA MinOfNaturals ==
    ASSUME NEW S \in SUBSET Nat, S # {}
    PROVE  \E x \in S : \A y \in S : x <= y
<1> DEFINE R == {ss \in Nat \X Nat : ss[1] < ss[2]}
<1>1. IsWellFoundedOn(R, Nat)
  BY NatLessThanWellFounded, Zenon DEF OpToRel
<1>2. PICK x \in S : \A y \in S : ~(<<y, x>> \in R)
  BY <1>1, WFMin, Zenon
<1>3. ASSUME NEW y \in S PROVE x <= y
  <2>1. x \in Nat /\ y \in Nat
    OBVIOUS
  <2>2. ~(<<y, x>> \in R)
    BY <1>2
  <2> QED BY <2>1, <2>2
<1> QED BY <1>3, Zenon

(* Kept, unrolled once.                                                      *)
Keeping(s, S, n, f) ==
    [i \in 0 .. n |-> IF i = 0 THEN <<>>
                      ELSE IF s[i] \in S THEN Append(f[i - 1], s[i]) ELSE f[i - 1]]

LEMMA KeepingIsDefined ==
    ASSUME NEW s, NEW S, NEW n \in Nat
    PROVE  \E f : f = Keeping(s, S, n, f)
<1> DEFINE Odd == {k \in Nat : ~\E f : f = Keeping(s, S, k, f)}
<1> SUFFICES Odd = {}
  OBVIOUS
<1> SUFFICES ASSUME Odd # {} PROVE FALSE
  OBVIOUS
<1>1. PICK m \in Odd : \A k \in Odd : m <= k
  <2>1. Odd \in SUBSET Nat
    OBVIOUS
  <2> HIDE DEF Odd
  <2> QED BY <2>1, MinOfNaturals, Zenon
<1>2. m # 0
  <2> PICK f : f = [i \in 0 .. 0 |-> <<>>]
    OBVIOUS
  <2>1. f = Keeping(s, S, 0, f)
    BY DEF Keeping
  <2> QED BY <2>1, <1>1
<1>3. m - 1 \in Nat /\ m - 1 \notin Odd /\ m \in Nat
  BY <1>1, <1>2
<1>4. PICK f : f = Keeping(s, S, m - 1, f)
  BY <1>3
<1> PICK g : g = [i \in 0 .. m |-> IF i <= m - 1 THEN f[i]
                                   ELSE IF s[i] \in S THEN Append(f[i - 1], s[i]) ELSE f[i - 1]]
  OBVIOUS
<1>5. ASSUME NEW i \in 0 .. m PROVE g[i] = Keeping(s, S, m, g)[i]
  <2>1. CASE i = 0
    <3>1. g[0] = f[0] /\ Keeping(s, S, m, g)[0] = <<>>
      BY <1>3 DEF Keeping
    <3>2. f[0] = <<>>
      <4>1. 0 \in 0 .. m - 1
        BY <1>3
      <4>2. Keeping(s, S, m - 1, f)[0] = <<>>
        BY <4>1 DEF Keeping
      <4> QED BY <1>4, <4>2, Zenon
    <3> QED BY <2>1, <3>1, <3>2
  <2>2. CASE i # 0
    <3>1. i - 1 \in 0 .. m /\ i - 1 <= m - 1 /\ i \in Nat
      BY <1>3, <2>2
    <3>2. g[i - 1] = f[i - 1]
      BY <3>1
    <3>3. Keeping(s, S, m, g)[i] = IF s[i] \in S THEN Append(f[i - 1], s[i]) ELSE f[i - 1]
      BY <2>2, <3>2 DEF Keeping
    <3>4. CASE i <= m - 1
      <4>1. i \in 0 .. m - 1
        BY <1>3, <3>1, <3>4
      <4>2. Keeping(s, S, m - 1, f)[i] = IF s[i] \in S THEN Append(f[i - 1], s[i]) ELSE f[i - 1]
        BY <2>2, <4>1 DEF Keeping
      <4>3. f[i] = IF s[i] \in S THEN Append(f[i - 1], s[i]) ELSE f[i - 1]
        BY <1>4, <4>2, Zenon
      <4> QED BY <3>3, <3>4, <4>3
    <3>5. CASE ~(i <= m - 1)
      BY <3>3, <3>5
    <3> QED BY <3>4, <3>5
  <2> QED BY <2>1, <2>2
<1>6. g = Keeping(s, S, m, g)
  BY <1>5, Zenon DEF Keeping
<1> QED BY <1>1, <1>6

Half(s, S, u, n) ==
    /\ u[n] \in Seq(Dbrefs)
    /\ \A x \in Dbrefs : Times(x, u[n]) = IF x \in S THEN Cardinality(Before(x, s, n)) ELSE 0

LEMMA HalfKept ==
    ASSUME NEW s, NEW S, NEW u, NEW n \in Nat, Half(s, S, u, n), s[n + 1] \in Dbrefs,
           u[n + 1] = IF s[n + 1] \in S THEN Append(u[n], s[n + 1]) ELSE u[n]
    PROVE  Half(s, S, u, n + 1)
<1> PICK e \in Dbrefs : e = s[n + 1]
  OBVIOUS
<1> PICK t \in Seq(Dbrefs) : t = u[n]
  BY DEF Half
<1>1. ASSUME NEW x \in Dbrefs
      PROVE  /\ Times(x, t) = IF x \in S THEN Cardinality(Before(x, s, n)) ELSE 0
             /\ Cardinality(Before(x, s, n + 1)) =
                  IF e = x THEN Cardinality(Before(x, s, n)) + 1 ELSE Cardinality(Before(x, s, n))
             /\ Times(x, Append(t, e)) = IF e = x THEN Times(x, t) + 1 ELSE Times(x, t)
  <2>1. Counted(x, s, n)
    BY BeforeIs, Zenon
  <2>2. Times(x, Append(t, e)) = IF e = x THEN Times(x, t) + 1 ELSE Times(x, t)
    <3>1. Longer(x, t, e)
      BY TimesAppended, Zenon
    <3> QED BY <3>1, Zenon DEF Longer
  <2> QED BY <2>1, <2>2, Zenon DEF Half, Counted
<1>2. CASE e \in S
  <2>1. u[n + 1] = Append(t, e) /\ Append(t, e) \in Seq(Dbrefs)
    BY <1>2
  <2>2. ASSUME NEW x \in Dbrefs
        PROVE  Times(x, Append(t, e)) = IF x \in S THEN Cardinality(Before(x, s, n + 1)) ELSE 0
    BY <1>1, <1>2, Zenon
  <2> QED BY <2>1, <2>2, Zenon DEF Half
<1>3. CASE e \notin S
  <2>1. u[n + 1] = t
    BY <1>3
  <2>2. ASSUME NEW x \in Dbrefs
        PROVE  Times(x, t) = IF x \in S THEN Cardinality(Before(x, s, n + 1)) ELSE 0
    BY <1>1, <1>3, Zenon
  <2> QED BY <2>1, <2>2, Zenon DEF Half
<1> QED BY <1>2, <1>3

LEMMA KeptIs ==
    ASSUME NEW s \in Seq(Dbrefs), NEW S
    PROVE  /\ Kept(s, S) \in Seq(Dbrefs)
           /\ \A x \in Dbrefs : Times(x, Kept(s, S)) = IF x \in S THEN Times(x, s) ELSE 0
<1> DEFINE u == CHOOSE f : f = Keeping(s, S, Len(s), f)
<1>0. Len(s) \in Nat /\ DOMAIN s = 1 .. Len(s) /\ \A i \in 1 .. Len(s) : s[i] \in Dbrefs
  OBVIOUS
<1>1. u = Keeping(s, S, Len(s), u)
  BY <1>0, KeepingIsDefined, Zenon
<1>2. Kept(s, S) = u[Len(s)]
  BY Zenon DEF Kept, Keeping
<1> HIDE DEF u
<1> DEFINE Odd == {k \in 0 .. Len(s) : ~Half(s, S, u, k)}
<1>3. Odd = {}
  <2> SUFFICES ASSUME Odd # {} PROVE FALSE
    OBVIOUS
  <2>1. PICK m \in Odd : \A k \in Odd : m <= k
    <3>1. Odd \in SUBSET Nat
      OBVIOUS
    <3> HIDE DEF Odd
    <3> QED BY <3>1, MinOfNaturals, Zenon
  <2>2. CASE m = 0
    <3>1. u[0] = <<>>
      <4>1. Keeping(s, S, Len(s), u)[0] = <<>>
        BY <1>0 DEF Keeping
      <4> QED BY <1>1, <4>1, Zenon
    <3>2. <<>> \in Seq(Dbrefs) /\ \A x \in Dbrefs : Times(x, <<>>) = 0
      <4>1. <<>> \in Seq(Dbrefs)
        OBVIOUS
      <4>2. ASSUME NEW x \in Dbrefs PROVE x \notin Range(<<>>)
        BY DEF Range
      <4> QED BY <4>1, <4>2, TimesIs, Zenon
    <3>3. \A x \in Dbrefs : Cardinality(Before(x, s, 0)) = 0
      <4>1. ASSUME NEW x \in Dbrefs PROVE Counted(x, s, 0)
        BY BeforeIs
      <4> QED BY <4>1, Zenon DEF Counted
    <3>4. Half(s, S, u, 0)
      BY <3>1, <3>2, <3>3 DEF Half
    <3> QED BY <2>1, <2>2, <3>4
  <2>3. CASE m # 0
    <3> PICK n : n = m - 1
      OBVIOUS
    <3>1. n \in Nat /\ m = n + 1 /\ n + 1 \in 1 .. Len(s) /\ n \in 0 .. Len(s) /\ ~(m <= n)
      BY <1>0, <2>1, <2>3
    <3>2. Half(s, S, u, n)
      BY <2>1, <3>1
    <3>3. u[n + 1] = IF s[n + 1] \in S THEN Append(u[n], s[n + 1]) ELSE u[n]
      <4>1. Keeping(s, S, Len(s), u)[n + 1] = IF s[n + 1] \in S THEN Append(u[n], s[n + 1]) ELSE u[n]
        BY <3>1 DEF Keeping
      <4> QED BY <1>1, <4>1, Zenon
    <3>4. Half(s, S, u, n + 1)
      BY <1>0, <3>1, <3>2, <3>3, HalfKept, Zenon
    <3> QED BY <2>1, <3>1, <3>4
  <2> QED BY <2>2, <2>3
<1>4. Half(s, S, u, Len(s))
  BY <1>0, <1>3
<1>5. \A x : Times(x, s) = Cardinality(Before(x, s, Len(s)))
  BY <1>0, Zenon DEF Times, Before
<1> QED BY <1>2, <1>4, <1>5, Zenon DEF Half

(* The list of the members of S.                                             *)
LEMMA KeptRange ==
    ASSUME NEW s \in Seq(Dbrefs), NEW S
    PROVE  Kept(s, S) \in Seq(Dbrefs) /\ Range(Kept(s, S)) = Range(s) \cap S
<1> PICK t \in Seq(Dbrefs) : t = Kept(s, S)
  BY KeptIs
<1>1. ASSUME NEW x \in Dbrefs PROVE x \in Range(t) <=> x \in Range(s) \cap S
  <2>1. Times(x, t) = IF x \in S THEN Times(x, s) ELSE 0
    BY KeptIs
  <2>2. (Times(x, t) = 0 <=> x \notin Range(t)) /\ (Times(x, s) = 0 <=> x \notin Range(s))
    BY TimesIs, Zenon
  <2> QED BY <2>1, <2>2, Zenon
<1>2. Range(t) \subseteq Dbrefs /\ Range(s) \subseteq Dbrefs
  BY DEF Range
<1> QED BY <1>1, <1>2

LEMMA ListOfMembers ==
    ASSUME NEW T, NEW s \in Seq(T), NEW S
    PROVE  s \in Seq(S) <=> Range(s) \subseteq S
<1>1. DOMAIN s = 1 .. Len(s) /\ Len(s) \in Nat /\ s = [i \in DOMAIN s |-> s[i]]
  OBVIOUS
<1>2. ASSUME Range(s) \subseteq S PROVE s \in Seq(S)
  <2>1. \A i \in 1 .. Len(s) : s[i] \in S
    BY <1>1, <1>2 DEF Range
  <2> QED BY <1>1, <2>1
<1>3. ASSUME s \in Seq(S) PROVE Range(s) \subseteq S
  BY <1>3 DEF Range
<1> QED BY <1>2, <1>3

LEMMA NoParents ==
    /\ <<>> \in Seq(Dbrefs) /\ Range(<<>>) = {} /\ \A x : Times(x, <<>>) = 0
    /\ \A s \in Seq(Dbrefs) : Range(s) = {} => s = <<>>
<1>1. <<>> \in Seq(Dbrefs) /\ Range(<<>>) = {}
  BY DEF Range
<1>2. ASSUME NEW x PROVE Times(x, <<>>) = 0
  BY <1>1, TimesIs
<1>3. ASSUME NEW s \in Seq(Dbrefs), Range(s) = {} PROVE s = <<>>
  <2>1. Len(s) \in Nat /\ DOMAIN s = 1 .. Len(s) /\ DOMAIN s = {}
    BY <1>3 DEF Range
  <2>2. Len(s) = 0
    BY <2>1
  <2> QED BY <2>2
<1> QED BY <1>1, <1>2, <1>3

-----------------------------------------------------------------------------
(* What holds of every graph of objects, where the lists of rev were         *)
(* reverted and those of self name the object itself.  Up is what an object  *)
(* has or may get back for parents.                                          *)
Up(g, x) == Range(g.parents[x]) \cup UNION {Range(ps) : ps \in g.former[x]}

Lists(g) ==
    /\ g.objects \subseteq Dbrefs
    /\ g.parents \in [Dbrefs -> Seq(Dbrefs)] /\ g.children \in [Dbrefs -> [Dbrefs -> Nat]]
    /\ g.former \in [Dbrefs -> SUBSET Seq(Dbrefs)]
    /\ \A x \in Dbrefs : \A ps \in g.former[x] : g.former[x] = {ps}

Kin(g, rev) ==
    /\ \A p, c \in Dbrefs : c \notin rev => g.children[p][c] = Times(p, g.parents[c])
    /\ \A x \in Dbrefs \ g.objects :
          g.parents[x] = <<>> /\ g.children[x] = NoChildren /\ g.former[x] = {}

Rooted(g, self) ==
    \A S \in SUBSET Dbrefs : S # {} => \E x \in S : Up(g, x) \cap S \subseteq {x} \cap self

Sound(g, rev, self) == Lists(g) /\ Kin(g, rev) /\ Rooted(g, self)

LEMMA SoundIs ==
    ASSUME NEW g, NEW rev, NEW self, Sound(g, rev, self), NEW c \in Dbrefs, c \notin rev
    PROVE  /\ g.parents[c] \in Seq(Dbrefs) /\ Range(g.parents[c]) \subseteq g.objects
           /\ c \notin g.objects => g.parents[c] = <<>>
<1>1. g.parents[c] \in Seq(Dbrefs)
  BY DEF Sound, Lists
<1>2. ASSUME NEW x \in Range(g.parents[c]), x \notin g.objects PROVE FALSE
  <2>1. x \in Dbrefs
    BY <1>1 DEF Range
  <2>2. Times(x, g.parents[c]) # 0
    BY <1>1, TimesIs, Zenon
  <2>3. g.children[x][c] = Times(x, g.parents[c]) /\ g.children[x] = NoChildren
    BY <2>1, <1>2 DEF Sound, Kin
  <2>4. NoChildren[c] = 0
    BY DEF NoChildren
  <2> QED BY <2>2, <2>3, <2>4, Zenon
<1>3. ASSUME c \notin g.objects PROVE g.parents[c] = <<>>
  BY <1>3 DEF Sound, Kin
<1> QED BY <1>1, <1>2, <1>3

LEMMA ChildrenAre ==
    ASSUME NEW g, NEW rev, NEW self, Sound(g, rev, self), NEW p \in Dbrefs, NEW c \in Dbrefs, c \notin rev
    PROVE  /\ g.children[p][c] = Times(p, g.parents[c]) /\ Times(p, g.parents[c]) \in Nat
           /\ g.children[p][c] > 0 <=> p \in Range(g.parents[c])
<1>1. g.children[p][c] = Times(p, g.parents[c]) /\ g.parents[c] \in Seq(Dbrefs)
  BY DEF Sound, Kin, Lists
<1>2. Times(p, g.parents[c]) \in Nat /\ (Times(p, g.parents[c]) = 0 <=> p \notin Range(g.parents[c]))
  BY <1>1, TimesIs, Zenon
<1> QED BY <1>1, <1>2

(* Marking objects takes nothing but what they may get back.                 *)
LEMMA MarkedIs ==
    ASSUME NEW fs \in [Dbrefs -> SUBSET Seq(Dbrefs)], NEW ds,
           \A x \in Dbrefs : \A ps \in fs[x] : fs[x] = {ps}
    PROVE  /\ Marked(fs, ds) \in [Dbrefs -> SUBSET Seq(Dbrefs)]
           /\ \A x \in Dbrefs : \A ps \in Marked(fs, ds)[x] : Marked(fs, ds)[x] = {ps}
           /\ \A x \in Dbrefs : Marked(fs, ds)[x] \subseteq fs[x] /\ (x \in ds => Marked(fs, ds)[x] = {})
BY DEF Marked

LEMMA UpIs ==
    ASSUME NEW g, NEW h, NEW x, h.former[x] \subseteq g.former[x]
    PROVE  Up(h, x) \subseteq Range(h.parents[x]) \cup Up(g, x)
BY DEF Up

LEMMA CreatedIsSound ==
    ASSUME NEW g, NEW rev, NEW self, Sound(g, rev, self), NEW d \in Dbrefs, d \notin g.objects,
           NEW ps \in Seq(Dbrefs), Range(ps) \subseteq g.objects \cup {d},
           \A c \in Dbrefs : d \notin Up(g, c)
    PROVE  /\ Sound(Created(g, d, ps), rev, self \cup ({d} \cap Range(ps)))
           /\ \A c \in Dbrefs : /\ Up(Created(g, d, ps), c) \subseteq Up(g, c) \cup Range(ps)
                               /\ Created(g, d, ps).former[c] \subseteq g.former[c]
<1> PICK h : h = Created(g, d, ps)
  OBVIOUS
<1> PICK me : me = self \cup ({d} \cap Range(ps))
  OBVIOUS
<1> PICK ch : ch = [g.children EXCEPT ![d] = NoChildren]
  OBVIOUS
<1>1. /\ h.objects = g.objects \cup {d} /\ h.parents = [g.parents EXCEPT ![d] = ps]
      /\ h.children = Added(ch, ps, {d}) /\ h.former = Marked(g.former, Range(ps))
  BY DEF Created
<1>2. /\ g.objects \subseteq Dbrefs /\ g.parents \in [Dbrefs -> Seq(Dbrefs)]
      /\ g.children \in [Dbrefs -> [Dbrefs -> Nat]]
      /\ g.children[d] = NoChildren /\ g.parents[d] = <<>> /\ g.former[d] = {}
      /\ g.former \in [Dbrefs -> SUBSET Seq(Dbrefs)]
      /\ \A x \in Dbrefs : \A qs \in g.former[x] : g.former[x] = {qs}
  BY DEF Sound, Kin, Lists
<1>3. /\ h.former \in [Dbrefs -> SUBSET Seq(Dbrefs)]
      /\ \A x \in Dbrefs : \A qs \in h.former[x] : h.former[x] = {qs}
      /\ \A x \in Dbrefs : h.former[x] \subseteq g.former[x]
  <2> PICK fs \in [Dbrefs -> SUBSET Seq(Dbrefs)] : fs = g.former
    BY <1>2
  <2> PICK ds : ds = Range(ps)
    OBVIOUS
  <2>1. h.former = Marked(fs, ds) /\ \A x \in Dbrefs : \A qs \in fs[x] : fs[x] = {qs}
    BY <1>1, <1>2
  <2> QED BY <2>1, MarkedIs
<1>4. ch = g.children
  BY <1>2
<1>5. /\ h.parents \in [Dbrefs -> Seq(Dbrefs)] /\ h.parents[d] = ps
      /\ \A c \in Dbrefs : c # d => h.parents[c] = g.parents[c]
  BY <1>1, <1>2
<1>6. \A p, c \in Dbrefs : h.children[p][c] = g.children[p][c] + IF c \in {d} THEN Times(p, ps) ELSE 0
  BY <1>1, <1>4 DEF Added
<1>7. ASSUME NEW p \in Dbrefs, NEW c \in Dbrefs
      PROVE  /\ h.children[p][c] \in Nat
             /\ c \notin rev => h.children[p][c] = Times(p, h.parents[c])
  <2>2. Times(p, ps) \in Nat /\ Times(p, <<>>) = 0 /\ g.children[p][c] \in Nat
    BY <1>2, TimesIs, NoParents
  <2>1. c \notin rev => g.children[p][c] = Times(p, g.parents[c])
    BY DEF Sound, Kin
  <2>3. CASE c = d
    <3>1. h.children[p][c] = g.children[p][c] + Times(p, ps)
      BY <1>6, <2>3
    <3>2. c \notin rev => g.children[p][c] = 0
      BY <1>2, <2>1, <2>2, <2>3, Zenon
    <3>3. h.parents[c] = ps
      BY <1>5, <2>3, Zenon
    <3> QED BY <2>2, <3>1, <3>2, <3>3
  <2>4. CASE c # d
    <3>1. h.children[p][c] = g.children[p][c] + 0
      BY <1>6, <2>4
    <3>2. h.parents[c] = g.parents[c]
      BY <1>5, <2>4, Zenon
    <3> QED BY <2>1, <2>2, <3>1, <3>2
  <2> QED BY <2>3, <2>4
<1>8. h.children \in [Dbrefs -> [Dbrefs -> Nat]]
  <2>1. \A p, c \in Dbrefs : h.children[p][c] \in Nat
    BY <1>7, Zenon
  <2> QED BY <1>1, <2>1 DEF Added
<1>9. ASSUME NEW x \in Dbrefs, x \notin h.objects
      PROVE  h.parents[x] = <<>> /\ h.children[x] = NoChildren /\ h.former[x] = {}
  <2>1. x # d /\ x \notin g.objects
    BY <1>1, <1>9
  <2>2. /\ h.parents[x] = g.parents[x] /\ g.parents[x] = <<>> /\ g.children[x] = NoChildren
        /\ g.former[x] = {}
    BY <1>5, <2>1 DEF Sound, Kin
  <2>3. ASSUME NEW c \in Dbrefs PROVE h.children[x][c] = 0
    <3>1. Times(x, ps) = 0
      BY <2>1, TimesIs
    <3>2. g.children[x][c] = 0
      BY <2>2 DEF NoChildren
    <3> QED BY <1>6, <3>1, <3>2
  <2>4. h.children[x] = NoChildren
    BY <1>8, <2>3 DEF NoChildren
  <2> QED BY <1>3, <2>2, <2>4
<1>12. ASSUME NEW x \in Dbrefs, x # d PROVE Up(h, x) \subseteq Up(g, x)
  <2>1. h.parents[x] = g.parents[x] /\ h.former[x] \subseteq g.former[x]
    BY <1>3, <1>5, <1>12
  <2> QED BY <2>1 DEF Up
<1>13. Up(h, d) = Range(ps)
  <2>1. h.former[d] = {}
    BY <1>2, <1>3
  <2> QED BY <1>5, <2>1 DEF Up
<1>10. Rooted(h, me)
  <2> SUFFICES ASSUME NEW S \in SUBSET Dbrefs, S # {}
               PROVE  \E x \in S : Up(h, x) \cap S \subseteq {x} \cap me
    BY Zenon DEF Rooted
  <2>1. CASE S \subseteq {d}
    BY <1>13, <2>1
  <2>2. CASE ~(S \subseteq {d})
    <3>1. S \ {d} \in SUBSET Dbrefs /\ S \ {d} # {}
      BY <2>2
    <3>2. PICK x \in S \ {d} : Up(g, x) \cap (S \ {d}) \subseteq {x} \cap self
      BY <3>1, Zenon DEF Sound, Rooted
    <3>3. x \in Dbrefs /\ x # d /\ x \in S
      BY <3>1
    <3>4. d \notin Up(g, x) /\ Up(h, x) \subseteq Up(g, x)
      BY <1>12, <3>3
    <3> QED BY <3>2, <3>3, <3>4
  <2> QED BY <2>1, <2>2
<1>11. Lists(h)
  BY <1>1, <1>2, <1>3, <1>5, <1>8 DEF Lists
<1>14. Kin(h, rev)
  BY <1>7, <1>9 DEF Kin
<1>15. \A c \in Dbrefs : Up(h, c) \subseteq Up(g, c) \cup Range(ps)
  BY <1>12, <1>13
<1> QED BY <1>3, <1>10, <1>11, <1>14, <1>15 DEF Sound

-----------------------------------------------------------------------------
(* Where all of d's kin know it.                                             *)
Known(g, rev, d) ==
    d \notin rev /\ d \notin Range(g.parents[d]) /\ \A k \in rev : g.children[d][k] = 0

(* The children of d that get its parents are those that have no other.      *)
Kids(g, d) == {k \in Dbrefs : g.children[d][k] > 0}
Heirs(g, d) == Adopted(g, Kids(g, d), d)

LEMMA HeirsAre ==
    ASSUME NEW g, NEW rev, NEW self, Sound(g, rev, self), NEW d \in Dbrefs, NEW k \in Dbrefs, k \notin rev
    PROVE  /\ k \in Kids(g, d) <=> d \in Range(g.parents[k])
           /\ k \in Heirs(g, d) <=> d \in Range(g.parents[k]) /\ Range(g.parents[k]) \subseteq {d}
<1>1. g.children[d][k] > 0 <=> d \in Range(g.parents[k])
  BY ChildrenAre, Zenon
<1>2. g.parents[k] \in Seq(Dbrefs)
  BY SoundIs, Zenon
<1>3. Times(d, g.parents[k]) = Len(g.parents[k]) <=> Range(g.parents[k]) \subseteq {d}
  BY <1>2, AllTheSame, Zenon
<1> QED BY <1>1, <1>3 DEF Heirs, Adopted, Kids

LEMMA NoReverted ==
    ASSUME NEW g, NEW rev, NEW d \in Dbrefs, Known(g, rev, d), NEW k \in rev
    PROVE  k \notin Kids(g, d) /\ k \notin Heirs(g, d) /\ k # d
<1>1. k \notin Kids(g, d) /\ k # d
  BY DEF Known, Kids
<1> QED BY <1>1 DEF Heirs, Adopted

(* The parents of an object after d is destroyed.                            *)
ParentsLeft(g, d, k) ==
    IF k = d THEN <<>>
    ELSE IF k \in Heirs(g, d) THEN g.parents[d]
    ELSE IF k \in Kids(g, d) THEN Kept(g.parents[k], Dbrefs \ {d})
    ELSE g.parents[k]

(* h is what is left of g without d.                                         *)
Without(g, d, h) ==
    /\ h.objects = g.objects \ {d}
    /\ h.parents = [k \in Dbrefs |-> ParentsLeft(g, d, k)]
    /\ h.children =
         [Added(Left(g.children, g.parents[d], d), g.parents[d], Heirs(g, d)) EXCEPT ![d] = NoChildren]
    /\ h.former = Marked(g.former, Kids(g, d) \cup Range(g.parents[d]) \cup {d})

LEMMA DestroyedIs ==
    ASSUME NEW g, NEW d
    PROVE  Without(g, d, Destroyed(g, d))
<1>2. Destroyed(g, d).parents = [k \in Dbrefs |-> ParentsLeft(g, d, k)]
  BY DEF Destroyed, Heirs, Kids, ParentsLeft
<1>6. /\ Destroyed(g, d).objects = g.objects \ {d}
      /\ Destroyed(g, d).former = Marked(g.former, Kids(g, d) \cup Range(g.parents[d]) \cup {d})
  BY DEF Destroyed, Kids
<1>7. Destroyed(g, d).children =
        [Added(Left(g.children, g.parents[d], d), g.parents[d], Heirs(g, d)) EXCEPT ![d] = NoChildren]
  BY DEF Destroyed, Heirs, Kids
<1> QED BY <1>2, <1>6, <1>7, Zenon DEF Without

LEMMA ParentsLeftAre ==
    ASSUME NEW g, NEW rev, NEW self, Sound(g, rev, self), NEW d \in Dbrefs, Known(g, rev, d),
           NEW k \in Dbrefs, k \notin rev
    PROVE  /\ ParentsLeft(g, d, k) \in Seq(Dbrefs)
           /\ \A p \in Dbrefs :
                Times(p, ParentsLeft(g, d, k)) =
                  IF p = d \/ k = d THEN 0
                  ELSE IF k \in Heirs(g, d) THEN Times(p, g.parents[d]) ELSE Times(p, g.parents[k])
<1>0. g.parents[d] \in Seq(Dbrefs) /\ g.parents[k] \in Seq(Dbrefs) /\ d \notin Range(g.parents[d])
  BY DEF Sound, Lists, Known
<1>1. CASE k = d
  <2>1. ParentsLeft(g, d, k) = <<>>
    BY <1>1, Zenon DEF ParentsLeft
  <2> QED BY <1>1, <2>1, NoParents
<1>2. CASE k # d /\ k \in Heirs(g, d)
  <2>1. ParentsLeft(g, d, k) = g.parents[d]
    BY <1>2, Zenon DEF ParentsLeft
  <2>2. Times(d, g.parents[d]) = 0
    BY <1>0, TimesIs, Zenon
  <2> QED BY <1>0, <1>2, <2>1, <2>2
<1>3. CASE k # d /\ k \notin Heirs(g, d) /\ k \in Kids(g, d)
  <2>1. ParentsLeft(g, d, k) = Kept(g.parents[k], Dbrefs \ {d})
    BY <1>3, Zenon DEF ParentsLeft
  <2>2. /\ Kept(g.parents[k], Dbrefs \ {d}) \in Seq(Dbrefs)
        /\ \A p \in Dbrefs : Times(p, Kept(g.parents[k], Dbrefs \ {d}))
                               = IF p \in Dbrefs \ {d} THEN Times(p, g.parents[k]) ELSE 0
    BY <1>0, KeptIs, Zenon
  <2> QED BY <1>3, <2>1, <2>2
<1>4. CASE k # d /\ k \notin Heirs(g, d) /\ k \notin Kids(g, d)
  <2>1. ParentsLeft(g, d, k) = g.parents[k]
    BY <1>4, Zenon DEF ParentsLeft
  <2>2. Times(d, g.parents[k]) = 0
    <3>1. d \notin Range(g.parents[k])
      BY <1>4, HeirsAre, Zenon
    <3> QED BY <1>0, <3>1, TimesIs, Zenon
  <2> QED BY <1>0, <1>4, <2>1, <2>2
<1> QED BY <1>1, <1>2, <1>3, <1>4

(* New parents come from d, and no object that knows it keeps d.             *)
LEMMA NewParents ==
    ASSUME NEW g, NEW rev, NEW self, Sound(g, rev, self), NEW d \in Dbrefs, Known(g, rev, d), NEW k \in Dbrefs
    PROVE  /\ ParentsLeft(g, d, k) \in Seq(Dbrefs)
           /\ Range(ParentsLeft(g, d, k)) \subseteq Range(g.parents[k]) \cup Range(g.parents[d])
           /\ d \notin Range(g.parents[k]) => Range(ParentsLeft(g, d, k)) \subseteq Range(g.parents[k])
           /\ k \notin rev => d \notin Range(ParentsLeft(g, d, k))
<1>1. g.parents[d] \in Seq(Dbrefs) /\ g.parents[k] \in Seq(Dbrefs)
  BY DEF Sound, Lists
<1>2. CASE k \in rev
  <2>1. ParentsLeft(g, d, k) = g.parents[k]
    BY <1>2, NoReverted, Zenon DEF ParentsLeft
  <2> QED BY <1>1, <1>2, <2>1
<1>3. CASE k \notin rev
  <2>1. ParentsLeft(g, d, k) \in Seq(Dbrefs)
    BY <1>3, ParentsLeftAre, Zenon
  <2>2. ASSUME NEW p \in Dbrefs
        PROVE  p \in Range(ParentsLeft(g, d, k)) =>
                  p # d /\ (\/ k \in Heirs(g, d) /\ p \in Range(g.parents[d])
                            \/ k \notin Heirs(g, d) /\ p \in Range(g.parents[k]))
    <3>1. /\ Times(p, ParentsLeft(g, d, k)) = 0 <=> p \notin Range(ParentsLeft(g, d, k))
          /\ Times(p, g.parents[d]) = 0 <=> p \notin Range(g.parents[d])
          /\ Times(p, g.parents[k]) = 0 <=> p \notin Range(g.parents[k])
      BY <1>1, <2>1, TimesIs, Zenon
    <3>2. Times(p, ParentsLeft(g, d, k)) =
            IF p = d \/ k = d THEN 0
            ELSE IF k \in Heirs(g, d) THEN Times(p, g.parents[d]) ELSE Times(p, g.parents[k])
      BY <1>3, ParentsLeftAre
    <3> QED BY <3>1, <3>2
  <2>3. Range(ParentsLeft(g, d, k)) \subseteq Dbrefs
    BY <2>1 DEF Range
  <2>4. k \in Heirs(g, d) => d \in Range(g.parents[k])
    BY <1>3, HeirsAre, Zenon
  <2> QED BY <2>1, <2>2, <2>3, <2>4
<1> QED BY <1>2, <1>3

LEMMA DestroyedIsSound ==
    ASSUME NEW g, NEW rev, NEW self, Sound(g, rev, self), NEW d \in Dbrefs, Known(g, rev, d)
    PROVE  /\ Sound(Destroyed(g, d), rev, self)
           /\ \A c \in Dbrefs : /\ Up(Destroyed(g, d), c) \subseteq Up(g, c) \cup Up(g, d)
                               /\ Destroyed(g, d).former[c] \subseteq g.former[c]
<1> PICK h : h = Destroyed(g, d)
  OBVIOUS
<1> PICK left : left = Left(g.children, g.parents[d], d)
  OBVIOUS
<1> PICK more : more = Added(left, g.parents[d], Heirs(g, d))
  OBVIOUS
<1>1. /\ h.objects = g.objects \ {d} /\ h.parents = [k \in Dbrefs |-> ParentsLeft(g, d, k)]
      /\ h.children = [more EXCEPT ![d] = NoChildren]
      /\ h.former = Marked(g.former, Kids(g, d) \cup Range(g.parents[d]) \cup {d})
  <2>1. Without(g, d, h)
    BY DestroyedIs, Zenon
  <2> QED BY <2>1 DEF Without
<1>2. /\ g.objects \subseteq Dbrefs /\ g.parents \in [Dbrefs -> Seq(Dbrefs)]
      /\ g.children \in [Dbrefs -> [Dbrefs -> Nat]]
      /\ g.former \in [Dbrefs -> SUBSET Seq(Dbrefs)]
      /\ \A x \in Dbrefs : \A qs \in g.former[x] : g.former[x] = {qs}
  BY DEF Sound, Lists
<1>20. /\ h.former \in [Dbrefs -> SUBSET Seq(Dbrefs)]
       /\ \A x \in Dbrefs : \A qs \in h.former[x] : h.former[x] = {qs}
       /\ \A x \in Dbrefs : h.former[x] \subseteq g.former[x]
       /\ h.former[d] = {}
  <2> PICK fs \in [Dbrefs -> SUBSET Seq(Dbrefs)] : fs = g.former
    BY <1>2
  <2> PICK ds : ds = Kids(g, d) \cup Range(g.parents[d]) \cup {d}
    OBVIOUS
  <2>1. h.former = Marked(fs, ds) /\ \A x \in Dbrefs : \A qs \in fs[x] : fs[x] = {qs}
    BY <1>1, <1>2
  <2>2. d \in ds
    OBVIOUS
  <2>3. h.former = [x \in Dbrefs |-> IF x \in ds THEN {} ELSE fs[x]]
    BY <2>1, Zenon DEF Marked
  <2>4. /\ h.former \in [Dbrefs -> SUBSET Seq(Dbrefs)] /\ h.former[d] = {}
        /\ \A x \in Dbrefs : h.former[x] = {} \/ h.former[x] = fs[x]
    BY <2>2, <2>3
  <2> QED BY <2>1, <2>4
<1>21. d \notin rev /\ d \notin Range(g.parents[d]) /\ g.parents[d] \in Seq(Dbrefs)
  BY <1>2 DEF Known
<1>22. d \notin Heirs(g, d)
  BY <1>21, HeirsAre, Zenon
<1>3. h.parents \in [Dbrefs -> Seq(Dbrefs)]
  <2>1. \A k \in Dbrefs : ParentsLeft(g, d, k) \in Seq(Dbrefs)
    BY NewParents, Zenon
  <2> QED BY <1>1, <2>1
<1>23. ASSUME NEW p \in Dbrefs, NEW c \in Dbrefs
       PROVE  /\ p = d => h.children[p][c] = 0
              /\ p # d => h.children[p][c] = (IF c = d THEN g.children[p][c] - Times(p, g.parents[d])
                                              ELSE g.children[p][c])
                                             + (IF c \in Heirs(g, d) THEN Times(p, g.parents[d]) ELSE 0)
  <2>1. CASE p = d
    <3>1. h.children[p] = NoChildren
      BY <1>1, <2>1 DEF Added
    <3> QED BY <2>1, <3>1 DEF NoChildren
  <2>2. CASE p # d
    <3>1. h.children[p] = more[p]
      BY <1>1, <2>2 DEF Added
    <3>2. more[p][c] = left[p][c] + IF c \in Heirs(g, d) THEN Times(p, g.parents[d]) ELSE 0
      BY DEF Added
    <3>3. left[p] = [g.children[p] EXCEPT ![d] = @ - Times(p, g.parents[d])]
      BY DEF Left
    <3>4. left[p][c] = IF c = d THEN g.children[p][c] - Times(p, g.parents[d]) ELSE g.children[p][c]
      BY <1>2, <3>3
    <3> QED BY <2>2, <3>1, <3>2, <3>4
  <2> QED BY <2>1, <2>2
<1>4. ASSUME NEW p \in Dbrefs, NEW c \in Dbrefs
      PROVE  /\ h.children[p][c] \in Nat
             /\ c \notin rev => h.children[p][c] = Times(p, h.parents[c])
  <2>0. Times(p, g.parents[d]) \in Nat /\ g.children[p][c] \in Nat
    BY <1>2, <1>21, TimesIs
  <2>8. CASE c \in rev
    <3>1. c \notin Heirs(g, d) /\ c # d
      BY <2>8, NoReverted, Zenon
    <3>2. h.children[p][c] = 0 \/ h.children[p][c] = g.children[p][c]
      BY <1>23, <2>0, <3>1
    <3> QED BY <2>0, <2>8, <3>2
  <2>9. CASE c \notin rev
    <3>1. g.children[p][c] = Times(p, g.parents[c]) /\ Times(p, g.parents[c]) \in Nat
      BY <2>9, ChildrenAre, Zenon
    <3>2. Times(p, h.parents[c]) =
            IF p = d \/ c = d THEN 0
            ELSE IF c \in Heirs(g, d) THEN Times(p, g.parents[d]) ELSE Times(p, g.parents[c])
      <4>1. h.parents[c] = ParentsLeft(g, d, c)
        BY <1>1
      <4>2. Times(p, ParentsLeft(g, d, c)) =
              IF p = d \/ c = d THEN 0
              ELSE IF c \in Heirs(g, d) THEN Times(p, g.parents[d]) ELSE Times(p, g.parents[c])
        BY <2>9, ParentsLeftAre
      <4> QED BY <4>1, <4>2, Zenon
    <3>3. CASE p = d
      <4>1. h.children[p][c] = 0
        BY <1>23, <3>3
      <4> QED BY <3>2, <3>3, <4>1
    <3>4. CASE p # d /\ c = d
      <4>1. h.children[p][c] = 0
        BY <1>22, <1>23, <3>1, <3>4
      <4> QED BY <3>2, <3>4, <4>1
    <3>5. CASE p # d /\ c # d /\ c \in Heirs(g, d)
      <4>1. p \notin Range(g.parents[c]) /\ g.parents[c] \in Seq(Dbrefs)
        <5>1. Range(g.parents[c]) \subseteq {d}
          BY <2>9, <3>5, HeirsAre, Zenon
        <5> QED BY <1>2, <3>5, <5>1
      <4>2. Times(p, g.parents[c]) = 0
        BY <4>1, TimesIs, Zenon
      <4>3. h.children[p][c] = Times(p, g.parents[d])
        BY <1>23, <2>0, <3>1, <3>5, <4>2
      <4> QED BY <2>0, <3>2, <3>5, <4>3
    <3>6. CASE p # d /\ c # d /\ c \notin Heirs(g, d)
      <4>1. h.children[p][c] = Times(p, g.parents[c])
        BY <1>23, <3>1, <3>6
      <4> QED BY <3>1, <3>2, <3>6, <4>1
    <3> QED BY <3>3, <3>4, <3>5, <3>6
  <2> QED BY <2>8, <2>9
<1>5. h.children \in [Dbrefs -> [Dbrefs -> Nat]]
  <2>1. \A p, c \in Dbrefs : h.children[p][c] \in Nat
    BY <1>4, Zenon
  <2>2. \A p \in Dbrefs : h.children[p] = [c \in Dbrefs |-> h.children[p][c]]
    BY <1>1 DEF Added, NoChildren
  <2>3. h.children = [p \in Dbrefs |-> h.children[p]]
    BY <1>1 DEF Added
  <2> QED BY <2>1, <2>2, <2>3
<1>6. ASSUME NEW x \in Dbrefs, x \notin h.objects
      PROVE  h.parents[x] = <<>> /\ h.children[x] = NoChildren /\ h.former[x] = {}
  <2>1. CASE x = d
    <3>1. h.children[x] = NoChildren
      BY <1>1, <2>1 DEF Added
    <3>2. h.parents[x] = <<>>
      BY <1>1, <2>1 DEF ParentsLeft
    <3> QED BY <1>20, <2>1, <3>1, <3>2
  <2>2. CASE x # d
    <3>1. x \notin g.objects
      BY <1>1, <1>6, <2>2
    <3>2. g.parents[x] = <<>> /\ g.children[x] = NoChildren /\ g.former[x] = {}
      BY <3>1 DEF Sound, Kin
    <3>3. h.parents[x] = <<>>
      <4>1. Range(g.parents[x]) = {} /\ d \notin Range(g.parents[x])
        BY <3>2, NoParents
      <4>2. Range(ParentsLeft(g, d, x)) \subseteq Range(g.parents[x]) /\ ParentsLeft(g, d, x) \in Seq(Dbrefs)
        BY <4>1, NewParents, Zenon
      <4>3. ParentsLeft(g, d, x) = <<>>
        BY <4>1, <4>2, NoParents
      <4> QED BY <1>1, <4>3
    <3>4. ASSUME NEW c \in Dbrefs PROVE h.children[x][c] = 0
      <4>1. Range(g.parents[d]) \subseteq g.objects
        BY <1>21, SoundIs, Zenon
      <4>2. Times(x, g.parents[d]) = 0
        BY <1>21, <3>1, <4>1, TimesIs
      <4>3. g.children[x][c] = 0
        BY <3>2 DEF NoChildren
      <4> QED BY <1>23, <2>2, <4>2, <4>3
    <3>5. h.children[x] = NoChildren
      BY <1>5, <3>4 DEF NoChildren
    <3> QED BY <1>20, <3>2, <3>3, <3>5
  <2> QED BY <2>1, <2>2
<1>10. ASSUME NEW x \in Dbrefs
       PROVE  /\ Up(h, x) \subseteq Up(g, x) \cup Range(g.parents[d])
              /\ d \notin Range(g.parents[x]) => Up(h, x) \subseteq Up(g, x)
              /\ x = d => Up(h, x) = {}
  <2>1. h.parents[x] = ParentsLeft(g, d, x) /\ h.former[x] \subseteq g.former[x]
    BY <1>1, <1>20
  <2>2. /\ Range(h.parents[x]) \subseteq Range(g.parents[x]) \cup Range(g.parents[d])
        /\ d \notin Range(g.parents[x]) => Range(h.parents[x]) \subseteq Range(g.parents[x])
    BY <2>1, NewParents, Zenon
  <2>3. x = d => h.parents[x] = <<>> /\ h.former[x] = {}
    BY <1>20, <2>1 DEF ParentsLeft
  <2> QED BY <2>1, <2>2, <2>3, NoParents DEF Up
<1>7. Rooted(h, self)
  <2> SUFFICES ASSUME NEW S \in SUBSET Dbrefs, S # {}
               PROVE  \E x \in S : Up(h, x) \cap S \subseteq {x} \cap self
    BY Zenon DEF Rooted
  <2>1. CASE d \in S
    <3>1. Up(h, d) \cap S \subseteq {d} \cap self
      BY <1>10
    <3> QED BY <2>1, <3>1
  <2>2. CASE d \notin S
    <3>1. S \cup {d} \in SUBSET Dbrefs /\ S \cup {d} # {}
      OBVIOUS
    <3>2. PICK y \in S \cup {d} : Up(g, y) \cap (S \cup {d}) \subseteq {y} \cap self
      BY <3>1, Zenon DEF Sound, Rooted
    <3>3. CASE y = d
      <4>1. Range(g.parents[d]) \cap S = {}
        BY <2>2, <3>2, <3>3 DEF Up
      <4>2. PICK x \in S : Up(g, x) \cap S \subseteq {x} \cap self
        BY Zenon DEF Sound, Rooted
      <4>3. Up(h, x) \subseteq Up(g, x) \cup Range(g.parents[d])
        BY <1>10
      <4> QED BY <4>1, <4>2, <4>3
    <3>4. CASE y # d
      <4>1. y \in S /\ d \notin Up(g, y)
        BY <3>2, <3>4
      <4>2. d \notin Range(g.parents[y])
        BY <4>1 DEF Up
      <4>3. Up(h, y) \subseteq Up(g, y)
        BY <1>10, <4>1, <4>2
      <4> QED BY <3>2, <4>1, <4>3
    <3> QED BY <3>3, <3>4
  <2> QED BY <2>1, <2>2
<1>8. Lists(h)
  BY <1>1, <1>2, <1>3, <1>5, <1>20 DEF Lists
<1>9. Kin(h, rev)
  BY <1>4, <1>6 DEF Kin
<1>11. \A c \in Dbrefs : Up(h, c) \subseteq Up(g, c) \cup Up(g, d)
  BY <1>10 DEF Up
<1> QED BY <1>7, <1>8, <1>9, <1>11, <1>20 DEF Sound

-----------------------------------------------------------------------------
(* What a search from the new parents comes to has the parents of its        *)
(* members, and d is not among it.                                           *)
LEMMA SearchedIs ==
    ASSUME NEW par \in [Dbrefs -> Seq(Dbrefs)], NEW p \in Dbrefs
    PROVE  /\ p \in Searched(par, p) /\ Searched(par, p) \subseteq Dbrefs
           /\ \A x \in Searched(par, p) : Range(par[x]) \subseteq Searched(par, p)
<1> DEFINE closed == {S \in SUBSET Dbrefs : p \in S /\ \A y \in S : Range(par[y]) \subseteq S}
<1>1. Searched(par, p) = {x \in Dbrefs : \A S \in closed : x \in S}
  BY DEF Searched
<1>2. \A x \in Dbrefs : Range(par[x]) \subseteq Dbrefs
  BY DEF Range
<1>3. ASSUME NEW x \in Searched(par, p), NEW y \in Range(par[x]) PROVE y \in Searched(par, p)
  <2>1. x \in Dbrefs /\ \A S \in closed : x \in S
    BY <1>1
  <2>2. y \in Dbrefs
    BY <1>2, <2>1
  <2>3. \A S \in closed : y \in S
    BY <2>1
  <2> QED BY <1>1, <2>2, <2>3
<1> QED BY <1>1, <1>3

Reached(ps) == UNION {Searched(parents, p) : p \in Range(ps)}

LEMMA VisitedIs ==
    ASSUME parents \in [Dbrefs -> Seq(Dbrefs)], NEW d, NEW ps \in Seq(Dbrefs), ParentsOk(d, ps)
    PROVE  /\ Range(ps) \subseteq Reached(ps) /\ d \notin Reached(ps)
           /\ Reached(ps) \subseteq Visited(d, ps)
           /\ \A x \in Reached(ps) : x \in Dbrefs /\ Range(parents[x]) \subseteq Reached(ps)
<1>1. Range(ps) \subseteq Dbrefs
  BY DEF Range
<1>2. ASSUME NEW p \in Range(ps)
      PROVE  /\ p \in Searched(parents, p) /\ Searched(parents, p) \subseteq Dbrefs
             /\ \A x \in Searched(parents, p) : Range(parents[x]) \subseteq Searched(parents, p)
             /\ d \notin Searched(parents, p)
  <2>1. p \in Dbrefs
    BY <1>1
  <2>2. ~HasAncestor(p, d)
    BY DEF ParentsOk
  <2> QED BY <2>1, <2>2, SearchedIs DEF HasAncestor
<1> QED BY <1>2 DEF Visited, Reached

(* A list that op_chparents changes, and what may come back of the old one.  *)
Moved(d, ps, onDisk) ==
    [objects |-> objects, parents |-> [parents EXCEPT ![d] = ps],
     children |-> Added(Left(children, parents[d], d), ps, {d}),
     former |-> Marked([former EXCEPT ![d] = IF onDisk = {} \/ @ = {} THEN onDisk ELSE @],
                       Visited(d, ps))]

LEMMA MovedIsSound ==
    ASSUME Sound(Graph, reverted, own), NEW d \in objects, NEW ps \in Seq(Dbrefs), ParentsOk(d, ps),
           d \notin reverted, NEW onDisk, onDisk = {} \/ onDisk = {parents[d]},
           NEW g, g = Moved(d, ps, onDisk)
    PROVE  /\ Sound(g, reverted, own)
           /\ \A x \in Dbrefs : Up(g, x) \subseteq Up(Graph, x) \cup Range(ps)
<1> PICK left : left = Left(children, parents[d], d)
  OBVIOUS
<1> PICK fs : fs = [former EXCEPT ![d] = IF onDisk = {} \/ @ = {} THEN onDisk ELSE @]
  OBVIOUS
<1> PICK A : A = Reached(ps)
  OBVIOUS
<1>1. /\ Graph.objects = objects /\ Graph.parents = parents /\ Graph.children = children
      /\ Graph.former = former
      /\ g.objects = objects /\ g.parents = [parents EXCEPT ![d] = ps]
      /\ g.children = Added(left, ps, {d}) /\ g.former = Marked(fs, Visited(d, ps))
  BY DEF Graph, Moved
<1>2. /\ objects \subseteq Dbrefs /\ parents \in [Dbrefs -> Seq(Dbrefs)]
      /\ children \in [Dbrefs -> [Dbrefs -> Nat]] /\ d \in Dbrefs
      /\ former \in [Dbrefs -> SUBSET Seq(Dbrefs)]
      /\ \A x \in Dbrefs : \A qs \in former[x] : former[x] = {qs}
  BY <1>1 DEF Sound, Lists
<1>3. Range(ps) \subseteq objects
  BY DEF ParentsOk
<1>4. /\ g.parents \in [Dbrefs -> Seq(Dbrefs)] /\ g.parents[d] = ps
      /\ \A c \in Dbrefs : c # d => g.parents[c] = parents[c]
  BY <1>1, <1>2
<1>5. ASSUME NEW p \in Dbrefs, NEW c \in Dbrefs
      PROVE  /\ g.children[p][c] \in Nat
             /\ c \notin reverted => g.children[p][c] = Times(p, g.parents[c])
  <2>1. Times(p, parents[d]) \in Nat /\ children[p][d] = Times(p, parents[d])
    <3>1. Graph.children[p][d] = Times(p, Graph.parents[d]) /\ Times(p, Graph.parents[d]) \in Nat
      BY <1>2, ChildrenAre
    <3> QED BY <1>1, <3>1, Zenon
  <2>2. Times(p, ps) \in Nat /\ children[p][c] \in Nat
    BY <1>2, TimesIs
  <2>3. g.children[p][c] = left[p][c] + IF c \in {d} THEN Times(p, ps) ELSE 0
    BY <1>1 DEF Added
  <2>4. left[p] = [children[p] EXCEPT ![d] = @ - Times(p, parents[d])]
    BY DEF Left
  <2>5. left[p][c] = IF c = d THEN children[p][c] - Times(p, parents[d]) ELSE children[p][c]
    BY <1>2, <2>4
  <2>6. CASE c = d
    <3>1. left[p][c] = 0
      BY <2>1, <2>5, <2>6
    <3>2. g.children[p][c] = Times(p, ps)
      BY <2>2, <2>3, <2>6, <3>1
    <3> QED BY <1>4, <2>2, <2>6, <3>2, Zenon
  <2>7. CASE c # d
    <3>1. g.children[p][c] = children[p][c]
      BY <2>2, <2>3, <2>5, <2>7
    <3>2. c \notin reverted => children[p][c] = Times(p, parents[c])
      BY <1>1 DEF Sound, Kin
    <3> QED BY <1>4, <2>2, <2>7, <3>1, <3>2, Zenon
  <2> QED BY <2>6, <2>7
<1>6. g.children \in [Dbrefs -> [Dbrefs -> Nat]]
  <2>1. \A p, c \in Dbrefs : g.children[p][c] \in Nat
    BY <1>5, Zenon
  <2> QED BY <1>1, <2>1 DEF Added
<1>7. /\ fs \in [Dbrefs -> SUBSET Seq(Dbrefs)]
      /\ \A x \in Dbrefs : \A qs \in fs[x] : fs[x] = {qs}
      /\ \A x \in Dbrefs : x # d => fs[x] = former[x]
      /\ \A qs \in fs[d] : qs = parents[d] \/ qs \in former[d]
  <2> PICK new : new = IF onDisk = {} \/ former[d] = {} THEN onDisk ELSE former[d]
    OBVIOUS
  <2>1. parents[d] \in Seq(Dbrefs) /\ former[d] \in SUBSET Seq(Dbrefs)
    BY <1>2
  <2>2. new \in SUBSET Seq(Dbrefs) /\ \A qs \in new : new = {qs}
    BY <1>2, <2>1
  <2>3. \A qs \in new : qs = parents[d] \/ qs \in former[d]
    BY <1>2
  <2>4. fs = [former EXCEPT ![d] = new]
    BY Zenon
  <2>5. /\ fs \in [Dbrefs -> SUBSET Seq(Dbrefs)] /\ fs[d] = new
        /\ \A x \in Dbrefs : x # d => fs[x] = former[x]
    BY <1>2, <2>2, <2>4
  <2> QED BY <1>2, <2>2, <2>3, <2>5
<1>8. /\ g.former \in [Dbrefs -> SUBSET Seq(Dbrefs)]
      /\ \A x \in Dbrefs : \A qs \in g.former[x] : g.former[x] = {qs}
      /\ \A x \in Dbrefs : g.former[x] \subseteq fs[x] /\ (x \in Visited(d, ps) => g.former[x] = {})
  <2> PICK ds : ds = Visited(d, ps)
    OBVIOUS
  <2>1. g.former = [x \in Dbrefs |-> IF x \in ds THEN {} ELSE fs[x]]
    BY <1>1 DEF Marked
  <2>2. /\ g.former \in [Dbrefs -> SUBSET Seq(Dbrefs)]
        /\ \A x \in Dbrefs : /\ g.former[x] = {} \/ g.former[x] = fs[x]
                             /\ x \in ds => g.former[x] = {}
    BY <1>7, <2>1
  <2> QED BY <1>7, <2>2
<1>9. ASSUME NEW x \in Dbrefs, x \notin objects
      PROVE  g.parents[x] = <<>> /\ g.children[x] = NoChildren /\ g.former[x] = {}
  <2>1. x # d /\ g.parents[x] = parents[x]
    BY <1>4, <1>9
  <2>2. parents[x] = <<>> /\ children[x] = NoChildren /\ former[x] = {}
    BY <1>1, <1>9 DEF Sound, Kin
  <2>3. ASSUME NEW c \in Dbrefs PROVE g.children[x][c] = 0
    <3>1. Times(x, ps) = 0
      BY <1>3, <1>9, TimesIs
    <3>2. Times(x, parents[d]) = 0
      <4>1. Graph.children[x][d] = Times(x, Graph.parents[d])
        BY <1>2, ChildrenAre
      <4> QED BY <1>1, <1>2, <2>2, <4>1 DEF NoChildren
    <3>3. children[x][c] = 0
      BY <2>2 DEF NoChildren
    <3>4. left[x] = [children[x] EXCEPT ![d] = @ - Times(x, parents[d])]
      BY DEF Left
    <3>5. left[x][c] = 0
      BY <1>2, <3>2, <3>3, <3>4
    <3>6. g.children[x][c] = left[x][c] + IF c \in {d} THEN Times(x, ps) ELSE 0
      BY <1>1 DEF Added
    <3> QED BY <3>1, <3>5, <3>6
  <2>4. g.children[x] = NoChildren
    BY <1>6, <2>3 DEF NoChildren
  <2>5. g.former[x] = {}
    BY <1>7, <1>8, <2>1, <2>2
  <2> QED BY <2>1, <2>2, <2>4, <2>5
<1>10. /\ Range(ps) \subseteq A /\ d \notin A /\ A \subseteq Visited(d, ps)
       /\ \A x \in A : x \in Dbrefs /\ Range(parents[x]) \subseteq A
  BY <1>2, VisitedIs, Zenon
<1>11. ASSUME NEW x \in Dbrefs
       PROVE  /\ Up(g, x) \subseteq Up(Graph, x) \cup Range(ps)
              /\ x # d => Up(g, x) \subseteq Up(Graph, x)
              /\ x \in A => Up(g, x) \subseteq A
  <2>1. CASE x # d
    <3>1. g.parents[x] = parents[x] /\ g.former[x] \subseteq former[x]
      BY <1>4, <1>7, <1>8, <2>1
    <3>2. x \in A => g.former[x] = {} /\ Range(parents[x]) \subseteq A
      BY <1>8, <1>10
    <3> QED BY <1>1, <2>1, <3>1, <3>2 DEF Up
  <2>2. CASE x = d
    <3>1. g.parents[x] = ps /\ \A qs \in g.former[x] : qs = parents[x] \/ qs \in former[x]
      BY <1>4, <1>7, <1>8, <2>2
    <3> QED BY <1>1, <1>10, <2>2, <3>1 DEF Up
  <2> QED BY <2>1, <2>2
<1>12. Rooted(g, own)
  <2> SUFFICES ASSUME NEW S \in SUBSET Dbrefs, S # {}
               PROVE  \E x \in S : Up(g, x) \cap S \subseteq {x} \cap own
    BY Zenon DEF Rooted
  <2>1. CASE S \cap A = {}
    <3>1. PICK x \in S : Up(Graph, x) \cap S \subseteq {x} \cap own
      BY Zenon DEF Sound, Rooted
    <3>2. Up(g, x) \subseteq Up(Graph, x) \cup Range(ps)
      BY <1>11
    <3> QED BY <1>10, <2>1, <3>1, <3>2
  <2>2. CASE S \cap A # {}
    <3>1. S \cap A \in SUBSET Dbrefs
      OBVIOUS
    <3>2. PICK x \in S \cap A : Up(Graph, x) \cap (S \cap A) \subseteq {x} \cap own
      BY <2>2, <3>1, Zenon DEF Sound, Rooted
    <3>3. x \in Dbrefs /\ x # d
      BY <1>10
    <3>4. Up(g, x) \subseteq Up(Graph, x) /\ Up(g, x) \subseteq A
      BY <1>11, <3>3
    <3> QED BY <3>2, <3>4
  <2> QED BY <2>1, <2>2
<1>13. Lists(g)
  BY <1>1, <1>2, <1>4, <1>6, <1>8 DEF Lists
<1>14. Kin(g, reverted)
  BY <1>1, <1>5, <1>9 DEF Kin
<1> QED BY <1>11, <1>12, <1>13, <1>14 DEF Sound

(* What comes back makes no cycle, as it was allowed for.                    *)
LEMMA RereadIsSound ==
    ASSUME Sound(Graph, reverted, own), NEW d \in Dbrefs, Reread(d)
    PROVE  /\ Sound(Graph', reverted', own) /\ d \in objects /\ own' = own
           /\ \A x \in Dbrefs : Up(Graph', x) \subseteq Up(Graph, x)
<1> PICK h : h = Graph'
  OBVIOUS
<1> PICK ps \in former[d] : parents' = [parents EXCEPT ![d] = ps]
  BY DEF Reread
<1>1. /\ Graph.objects = objects /\ Graph.parents = parents /\ Graph.children = children
      /\ Graph.former = former
      /\ h.objects = objects /\ h.parents = [parents EXCEPT ![d] = ps]
      /\ h.children = children /\ h.former = [former EXCEPT ![d] = {}]
      /\ reverted' = reverted \cup {d} /\ own' = own
  BY DEF Graph, Reread
<1>2. /\ objects \subseteq Dbrefs /\ parents \in [Dbrefs -> Seq(Dbrefs)]
      /\ children \in [Dbrefs -> [Dbrefs -> Nat]]
      /\ former \in [Dbrefs -> SUBSET Seq(Dbrefs)]
      /\ \A x \in Dbrefs : \A qs \in former[x] : former[x] = {qs}
  BY <1>1 DEF Sound, Lists
<1>3. Lists(h)
  BY <1>1, <1>2 DEF Lists
<1>4. d \in objects
  BY <1>1 DEF Sound, Kin
<1>5. Kin(h, reverted')
  <2>1. \A p, c \in Dbrefs : c \notin reverted' => h.children[p][c] = Times(p, h.parents[c])
    BY <1>1, <1>2 DEF Sound, Kin
  <2>2. \A x \in Dbrefs \ h.objects : h.parents[x] = <<>> /\ h.children[x] = NoChildren /\ h.former[x] = {}
    BY <1>1, <1>2, <1>4 DEF Sound, Kin
  <2> QED BY <2>1, <2>2 DEF Kin
<1>6. ASSUME NEW x \in Dbrefs PROVE Up(h, x) \subseteq Up(Graph, x)
  BY <1>1, <1>2 DEF Up
<1>7. Rooted(h, own)
  <2> SUFFICES ASSUME NEW S \in SUBSET Dbrefs, S # {}
               PROVE  \E x \in S : Up(h, x) \cap S \subseteq {x} \cap own
    BY Zenon DEF Rooted
  <2>1. PICK x \in S : Up(Graph, x) \cap S \subseteq {x} \cap own
    BY Zenon DEF Sound, Rooted
  <2>2. Up(h, x) \subseteq Up(Graph, x)
    BY <1>6
  <2> QED BY <2>1, <2>2
<1> QED BY <1>1, <1>3, <1>4, <1>5, <1>6, <1>7 DEF Sound

-----------------------------------------------------------------------------
(* The invariant.  Dead objects and held ones are still objects, root and    *)
(* the system object stay, numbers above db_top are free and no list names   *)
(* them, and frames hold nothing and nothing was moved while the dump is     *)
(* read.                                                                     *)
Below == \A c \in Dbrefs : \A x \in Up(Graph, c) : x < db_top

Alive ==
    /\ loading \in BOOLEAN /\ db_top \in Nat /\ \A d \in objects : d < db_top
    /\ {ROOT_DBREF, SYSTEM_DBREF} \subseteq objects
    /\ dead \subseteq held /\ held \subseteq objects \cap Holdable
    /\ dead \cap {ROOT_DBREF, SYSTEM_DBREF} = {}
    /\ reverted \subseteq Dbrefs /\ own \subseteq Dbrefs
    /\ loading => held = {} /\ reverted = {} /\ \A d \in Dbrefs : former[d] = {}

IInv == Alive /\ Below /\ Sound(Graph, reverted, own)

LEMMA GraphIs ==
    /\ Graph.objects = objects /\ Graph.parents = parents /\ Graph.children = children
    /\ Graph.former = former
BY DEF Graph

LEMMA Dbrefs01 == ROOT_DBREF \in Dbrefs /\ SYSTEM_DBREF \in Dbrefs /\ ROOT_DBREF # SYSTEM_DBREF /\ Dbrefs \subseteq Nat
BY HierarchyAssumption DEF ROOT_DBREF, SYSTEM_DBREF

(* A graph that has become g is g.                                           *)
LEMMA SameFields ==
    ASSUME NEW g, NEW h, NEW rev, NEW self, Sound(g, rev, self),
           h.objects = g.objects, h.parents = g.parents, h.children = g.children, h.former = g.former
    PROVE  Sound(h, rev, self) /\ \A x : Up(h, x) = Up(g, x)
<1>0. Lists(h)
  BY DEF Sound, Lists
<1>1. Kin(h, rev)
  BY Zenon DEF Sound, Kin
<1>2. \A x : Up(h, x) = Up(g, x)
  BY Zenon DEF Up
<1>3. Rooted(h, self)
  <2> SUFFICES ASSUME NEW S \in SUBSET Dbrefs, S # {}
               PROVE  \E x \in S : Up(h, x) \cap S \subseteq {x} \cap self
    BY Zenon DEF Rooted
  <2>1. PICK x \in S : Up(g, x) \cap S \subseteq {x} \cap self
    BY Zenon DEF Sound, Rooted
  <2>2. Up(h, x) = Up(g, x)
    BY <1>2, Zenon
  <2> QED BY <2>1, <2>2
<1> QED BY <1>0, <1>1, <1>2, <1>3, Zenon DEF Sound

LEMMA BecomeSound ==
    ASSUME NEW g, NEW rev, NEW self, Sound(g, rev, self), Become(g)
    PROVE  /\ Sound(Graph', rev, self) /\ objects' = g.objects /\ former' = g.former
           /\ \A x : Up(Graph', x) = Up(g, x)
<1> PICK h : h = Graph'
  OBVIOUS
<1>1. h.objects = g.objects /\ h.parents = g.parents /\ h.children = g.children /\ h.former = g.former
  BY DEF Become, Graph
<1> QED BY <1>1, SameFields, Zenon DEF Become

LEMMA UpIsOfObjects ==
    ASSUME NEW g, NEW rev, NEW self, Sound(g, rev, self), NEW c \in Dbrefs
    PROVE  /\ Up(g, c) \subseteq Dbrefs
           /\ c \notin rev /\ g.former[c] = {} => Up(g, c) \subseteq g.objects
<1>1. g.parents[c] \in Seq(Dbrefs) /\ g.former[c] \subseteq Seq(Dbrefs)
  BY DEF Sound, Lists
<1>2. \A ps \in Seq(Dbrefs) : Range(ps) \subseteq Dbrefs
  BY DEF Range
<1>3. c \notin rev => Range(g.parents[c]) \subseteq g.objects
  BY SoundIs, Zenon
<1> QED BY <1>1, <1>2, <1>3 DEF Up

(* Lists that name what they named, or objects, name nothing above db_top.   *)
LEMMA BelowInv ==
    ASSUME Below, Alive, Alive', NEW rev, NEW self, Sound(Graph', rev, self), db_top <= db_top',
           \A c \in Dbrefs : \A x \in Up(Graph', c) : x \in objects' \/ \E y \in Dbrefs : x \in Up(Graph, y)
    PROVE  Below'
<1>1. ASSUME NEW c \in Dbrefs, NEW x \in Up(Graph', c) PROVE x < db_top'
  <2>1. x \in Nat /\ db_top \in Nat /\ db_top' \in Nat
    BY UpIsOfObjects, Dbrefs01 DEF Alive
  <2>2. CASE x \in objects'
    BY <2>2 DEF Alive
  <2>3. CASE \E y \in Dbrefs : x \in Up(Graph, y)
    <3>1. x < db_top
      BY <2>3, Zenon DEF Below
    <3> QED BY <2>1, <3>1
  <2> QED BY <2>2, <2>3
<1> QED BY <1>1, Zenon DEF Below

LEMMA InitInv == Init => IInv
<1> SUFFICES ASSUME Init PROVE IInv
  OBVIOUS
<1>1. /\ loading = TRUE /\ objects = {ROOT_DBREF, SYSTEM_DBREF} /\ dead = {} /\ held = {} /\ db_top = 2
      /\ parents = [d \in Dbrefs |-> IF d = SYSTEM_DBREF THEN <<ROOT_DBREF>> ELSE <<>>]
      /\ children = [d \in Dbrefs |-> IF d = ROOT_DBREF THEN [NoChildren EXCEPT ![SYSTEM_DBREF] = 1]
                                      ELSE NoChildren]
      /\ former = [d \in Dbrefs |-> {}] /\ reverted = {} /\ own = {}
  BY DEF Init
<1>2. Alive
  BY <1>1 DEF Alive, ROOT_DBREF, SYSTEM_DBREF
<1>3. parents \in [Dbrefs -> Seq(Dbrefs)] /\ children \in [Dbrefs -> [Dbrefs -> Nat]]
  BY <1>1, Dbrefs01 DEF NoChildren
<1>4. Range(<<ROOT_DBREF>>) = {ROOT_DBREF}
  BY DEF Range
<1>5. ASSUME NEW p \in Dbrefs PROVE Times(p, <<ROOT_DBREF>>) = IF p = ROOT_DBREF THEN 1 ELSE 0
  <2>1. CASE p = ROOT_DBREF
    <3>1. Len(<<ROOT_DBREF>>) = 1 /\ <<ROOT_DBREF>> \in Seq(Dbrefs)
      BY Dbrefs01
    <3>2. Times(p, <<ROOT_DBREF>>) = Len(<<ROOT_DBREF>>)
      BY <1>4, <2>1, <3>1, AllTheSame
    <3> QED BY <2>1, <3>1, <3>2
  <2>2. CASE p # ROOT_DBREF
    <3>1. <<ROOT_DBREF>> \in Seq(Dbrefs) /\ p \notin Range(<<ROOT_DBREF>>)
      BY <1>4, <2>2, Dbrefs01
    <3>2. Times(p, <<ROOT_DBREF>>) = 0
      BY <3>1, TimesIs
    <3> QED BY <2>2, <3>2
  <2> QED BY <2>1, <2>2
<1>6. ASSUME NEW p \in Dbrefs, NEW c \in Dbrefs PROVE children[p][c] = Times(p, parents[c])
  <2>1. children[p][c] = IF p = ROOT_DBREF /\ c = SYSTEM_DBREF THEN 1 ELSE 0
    BY <1>1 DEF NoChildren
  <2>2. CASE c = SYSTEM_DBREF
    <3>1. parents[c] = <<ROOT_DBREF>>
      BY <1>1, <2>2
    <3> QED BY <1>5, <2>1, <2>2, <3>1, Zenon
  <2>3. CASE c # SYSTEM_DBREF
    <3>1. parents[c] = <<>>
      BY <1>1, <2>3
    <3>2. Times(p, <<>>) = 0
      BY NoParents
    <3> QED BY <2>1, <2>3, <3>1, <3>2, Zenon
  <2> QED BY <2>2, <2>3
<1>7. \A d \in Dbrefs \ objects : parents[d] = <<>> /\ children[d] = NoChildren /\ former[d] = {}
  BY <1>1
<1>8. Kin(Graph, reverted)
  BY <1>6, <1>7, GraphIs DEF Kin
<1>9. Lists(Graph)
  <2>1. objects \subseteq Dbrefs
    BY <1>1, Dbrefs01
  <2>2. former \in [Dbrefs -> SUBSET Seq(Dbrefs)] /\ \A x \in Dbrefs : former[x] = {}
    BY <1>1
  <2> QED BY <1>3, <2>1, <2>2, GraphIs DEF Lists
<1>10. ASSUME NEW x \in Dbrefs
       PROVE  Up(Graph, x) = IF x = SYSTEM_DBREF THEN {ROOT_DBREF} ELSE {}
  <2>1. Up(Graph, x) = Range(parents[x])
    BY <1>1, GraphIs DEF Up
  <2> QED BY <1>1, <1>4, <2>1, NoParents
<1>11. Rooted(Graph, own)
  <2> SUFFICES ASSUME NEW S \in SUBSET Dbrefs, S # {}
               PROVE  \E x \in S : Up(Graph, x) \cap S \subseteq {x} \cap own
    BY Zenon DEF Rooted
  <2>1. CASE ROOT_DBREF \in S
    <3>1. Up(Graph, ROOT_DBREF) = {}
      BY <1>10, Dbrefs01
    <3> QED BY <2>1, <3>1
  <2>2. CASE ROOT_DBREF \notin S
    <3>1. \A x \in S : Up(Graph, x) \cap S = {}
      BY <1>10, <2>2
    <3> QED BY <3>1
  <2> QED BY <2>1, <2>2
<1>12. Below
  BY <1>1, <1>10 DEF Below, ROOT_DBREF
<1> QED BY <1>2, <1>8, <1>9, <1>11, <1>12 DEF IInv, Sound

LEMMA OpCreateInv == ASSUME IInv, NEW ps \in ParentLists, OpCreate(ps) PROVE IInv'
<1>1. /\ ~loading /\ db_top \in Dbrefs /\ Range(ps) \subseteq objects
      /\ Become(Created(Graph, db_top, ps)) /\ db_top' = db_top + 1
      /\ loading' = loading /\ dead' = dead /\ held' = held /\ reverted' = reverted /\ own' = own
  BY DEF OpCreate
<1>2. Alive /\ Below /\ Sound(Graph, reverted, own)
  BY DEF IInv
<1>3. db_top \notin objects /\ db_top \in Nat
  BY <1>2 DEF Alive
<1>4. ps \in Seq(Dbrefs) /\ Range(ps) \subseteq Graph.objects \cup {db_top}
  BY <1>1, HierarchyAssumption, GraphIs
<1>5. \A c \in Dbrefs : db_top \notin Up(Graph, c)
  BY <1>2, <1>3 DEF Below
<1> PICK g : g = Created(Graph, db_top, ps)
  OBVIOUS
<1>6. /\ Sound(g, reverted, own \cup ({db_top} \cap Range(ps)))
      /\ \A c \in Dbrefs : Up(g, c) \subseteq Up(Graph, c) \cup Range(ps)
  <2>1. db_top \notin Graph.objects
    BY <1>3, GraphIs
  <2> QED BY <1>1, <1>2, <1>4, <1>5, <2>1, CreatedIsSound, Zenon
<1>7. own \cup ({db_top} \cap Range(ps)) = own
  BY <1>1, <1>3
<1>8. Sound(g, reverted, own)
  BY <1>6, <1>7, Zenon
<1>9. Sound(Graph', reverted', own') /\ objects' = g.objects /\ \A x : Up(Graph', x) = Up(g, x)
  BY <1>1, <1>8, BecomeSound, Zenon
<1>10. objects' = objects \cup {db_top}
  BY <1>9, GraphIs DEF Created
<1>11. Alive'
  <2>1. \A d \in objects : d < db_top /\ d \in Nat
    BY <1>2, GraphIs, Dbrefs01 DEF Alive, Sound, Lists
  <2>2. \A d \in objects' : d < db_top'
    BY <1>1, <1>3, <1>10, <2>1
  <2> QED BY <1>1, <1>2, <1>3, <1>10, <2>2 DEF Alive
<1>12. Below'
  <2>1. \A c \in Dbrefs : \A x \in Up(Graph', c) : x \in objects' \/ \E y \in Dbrefs : x \in Up(Graph, y)
    BY <1>1, <1>6, <1>9, <1>10
  <2>2. db_top <= db_top'
    BY <1>1, <1>3
  <2> QED BY <1>2, <1>9, <1>11, <2>1, <2>2, BelowInv, Zenon
<1> QED BY <1>9, <1>11, <1>12 DEF IInv

LEMMA OpChparentsInv ==
    ASSUME IInv, NEW d \in Dbrefs, NEW ps \in ParentLists, OpChparents(d, ps)
    PROVE  IInv'
<1>1. /\ ~loading /\ d \in objects /\ ParentsOk(d, ps) /\ d \notin reverted
      /\ objects' = objects /\ loading' = loading /\ dead' = dead /\ held' = held /\ db_top' = db_top
      /\ reverted' = reverted /\ own' = own
  BY DEF OpChparents, KinKnow
<1>2. Alive /\ Below /\ Sound(Graph, reverted, own)
  BY DEF IInv
<1>3. ps \in Seq(Dbrefs)
  BY HierarchyAssumption
<1>4. PICK onDisk : (onDisk = {} \/ onDisk = {parents[d]}) /\ Become(Moved(d, ps, onDisk))
  <2>1. PICK onDisk \in {{}} \cup {{parents[x]} : x \in {d} \cap Clean} :
          former' = Marked([former EXCEPT ![d] = IF onDisk = {} \/ @ = {} THEN onDisk ELSE @],
                           Visited(d, ps))
    BY Zenon DEF OpChparents
  <2>2. /\ parents' = [parents EXCEPT ![d] = ps]
        /\ children' = Added(Left(children, parents[d], d), ps, {d})
    BY Zenon DEF OpChparents
  <2>3. Become(Moved(d, ps, onDisk))
    BY <1>1, <2>1, <2>2 DEF Become, Moved
  <2> QED BY <2>1, <2>3
<1> PICK g : g = Moved(d, ps, onDisk)
  OBVIOUS
<1>5. Sound(g, reverted, own) /\ \A x \in Dbrefs : Up(g, x) \subseteq Up(Graph, x) \cup Range(ps)
  BY <1>1, <1>2, <1>3, <1>4, MovedIsSound, Zenon
<1>6. Sound(Graph', reverted', own') /\ \A x : Up(Graph', x) = Up(g, x)
  BY <1>1, <1>4, <1>5, BecomeSound, Zenon
<1>7. Alive'
  BY <1>1, <1>2 DEF Alive
<1>8. Below'
  <2>1. Range(ps) \subseteq objects'
    BY <1>1 DEF ParentsOk
  <2>2. \A c \in Dbrefs : \A x \in Up(Graph', c) : x \in objects' \/ \E y \in Dbrefs : x \in Up(Graph, y)
    BY <1>5, <1>6, <2>1
  <2>3. db_top <= db_top'
    BY <1>1, <1>2 DEF Alive
  <2> QED BY <1>2, <1>6, <1>7, <2>2, <2>3, BelowInv, Zenon
<1> QED BY <1>6, <1>7, <1>8 DEF IInv

LEMMA SameGraph ==
    ASSUME Below, Sound(Graph, reverted, own), UNCHANGED <<graph, db_top, reverted, own>>
    PROVE  Below' /\ Sound(Graph', reverted', own')
<1>1. Graph' = Graph /\ db_top' = db_top /\ reverted' = reverted /\ own' = own
  BY DEF graph, Graph
<1>2. Below'
  BY <1>1, Zenon DEF Below
<1> QED BY <1>1, <1>2, Zenon

(* An object that may go, goes.                                              *)
LEMMA KnownIs ==
    ASSUME IInv, NEW d \in Dbrefs, Destroyable(d)
    PROVE  Known(Graph, reverted, d)
<1>1. parents[d] \in Seq(Dbrefs)
  BY GraphIs DEF IInv, Sound, Lists
<1>2. d \notin Range(parents[d])
  BY <1>1 DEF Destroyable, Contains, Range
<1> QED BY <1>2, GraphIs DEF Known, Destroyable, KinKnow

LEMMA GoneInv ==
    ASSUME IInv, NEW d \in Dbrefs, Destroyable(d), Become(Destroyed(Graph, d)), Alive',
           UNCHANGED <<db_top, reverted, own>>
    PROVE  Sound(Graph', reverted', own') /\ Below'
<1> PICK g : g = Destroyed(Graph, d)
  OBVIOUS
<1>1. Alive /\ Below /\ Sound(Graph, reverted, own)
  BY DEF IInv
<1>2. /\ Sound(g, reverted, own)
      /\ \A c \in Dbrefs : Up(g, c) \subseteq Up(Graph, c) \cup Up(Graph, d)
  BY <1>1, KnownIs, DestroyedIsSound, Zenon
<1>3. Sound(Graph', reverted', own') /\ \A x : Up(Graph', x) = Up(g, x)
  BY <1>2, BecomeSound, Zenon
<1>4. \A c \in Dbrefs : \A x \in Up(Graph', c) : x \in objects' \/ \E y \in Dbrefs : x \in Up(Graph, y)
  BY <1>2, <1>3
<1>5. db_top <= db_top'
  BY <1>1 DEF Alive
<1>6. Below'
  BY <1>1, <1>3, <1>4, <1>5, BelowInv, Zenon
<1> QED BY <1>3, <1>6

LEMMA GoneObjects == ASSUME NEW d, Become(Destroyed(Graph, d)) PROVE objects' = objects \ {d}
BY GraphIs DEF Become, Destroyed

LEMMA OpDestroyInv == ASSUME IInv, NEW d \in Dbrefs, OpDestroy(d) PROVE IInv'
<1>1. /\ ~loading /\ d \in objects /\ d # ROOT_DBREF /\ d # SYSTEM_DBREF
      /\ IF d \in held THEN dead' = dead \cup {d} /\ UNCHANGED graph
                       ELSE Destroyable(d) /\ Become(Destroyed(Graph, d)) /\ UNCHANGED dead
      /\ loading' = loading /\ held' = held /\ db_top' = db_top /\ reverted' = reverted /\ own' = own
  BY DEF OpDestroy
<1>2. Alive /\ Below /\ Sound(Graph, reverted, own)
  BY DEF IInv
<1>3. CASE d \in held
  <2>1. dead' = dead \cup {d} /\ UNCHANGED graph
    BY <1>1, <1>3
  <2>2. Alive'
    BY <1>1, <1>2, <1>3, <2>1 DEF Alive, graph
  <2>3. UNCHANGED <<graph, db_top, reverted, own>>
    BY <1>1, <2>1
  <2> QED BY <1>2, <2>2, <2>3, SameGraph, Zenon DEF IInv
<1>4. CASE d \notin held
  <2>1. Destroyable(d) /\ Become(Destroyed(Graph, d)) /\ dead' = dead
    BY <1>1, <1>4
  <2>2. objects' = objects \ {d}
    BY <2>1, GoneObjects, Zenon
  <2>3. Alive'
    BY <1>1, <1>2, <1>4, <2>1, <2>2 DEF Alive
  <2>4. UNCHANGED <<db_top, reverted, own>>
    BY <1>1
  <2>5. Sound(Graph', reverted', own') /\ Below'
    BY <2>1, <2>3, <2>4, GoneInv, Zenon
  <2> QED BY <2>3, <2>5, Zenon DEF IInv
<1> QED BY <1>3, <1>4

LEMMA ReleaseInv == ASSUME IInv, NEW d \in Dbrefs, Release(d) PROVE IInv'
<1>1. /\ d \in held /\ held' = held \ {d}
      /\ IF d \in dead THEN Destroyable(d) /\ Become(Destroyed(Graph, d)) ELSE UNCHANGED graph
      /\ dead' = dead \ {d} /\ loading' = loading /\ db_top' = db_top
      /\ reverted' = reverted /\ own' = own
  BY DEF Release
<1>2. Alive /\ Below /\ Sound(Graph, reverted, own) /\ ~loading
  BY <1>1 DEF IInv, Alive
<1>3. CASE d \in dead
  <2>1. Destroyable(d) /\ Become(Destroyed(Graph, d))
    BY <1>1, <1>3
  <2>2. objects' = objects \ {d}
    BY <2>1, GoneObjects, Zenon
  <2>3. Alive'
    BY <1>1, <1>2, <1>3, <2>2 DEF Alive
  <2>4. UNCHANGED <<db_top, reverted, own>>
    BY <1>1
  <2>5. Sound(Graph', reverted', own') /\ Below'
    BY <2>1, <2>3, <2>4, GoneInv, Zenon
  <2> QED BY <2>3, <2>5, Zenon DEF IInv
<1>4. CASE d \notin dead
  <2>1. UNCHANGED <<graph, db_top, reverted, own>>
    BY <1>1, <1>4
  <2>2. Alive'
    BY <1>1, <1>2, <1>4, <2>1 DEF Alive, graph
  <2> QED BY <1>2, <2>1, <2>2, SameGraph, Zenon DEF IInv
<1> QED BY <1>3, <1>4

LEMMA RereadInv == ASSUME IInv, NEW d \in Dbrefs, Reread(d) PROVE IInv'
<1>1. Alive /\ Below /\ Sound(Graph, reverted, own)
  BY DEF IInv
<1>2. /\ objects' = objects /\ dead' = dead /\ held' = held /\ db_top' = db_top /\ loading' = loading
      /\ former[d] # {} /\ reverted' = reverted \cup {d}
  BY DEF Reread
<1>3. /\ Sound(Graph', reverted', own) /\ own' = own
      /\ \A x \in Dbrefs : Up(Graph', x) \subseteq Up(Graph, x)
  BY <1>1, RereadIsSound, Zenon
<1>4. Alive'
  BY <1>1, <1>2, <1>3 DEF Alive
<1>5. \A c \in Dbrefs : \A x \in Up(Graph', c) : x \in objects' \/ \E y \in Dbrefs : x \in Up(Graph, y)
  BY <1>3
<1>6. db_top <= db_top'
  BY <1>1, <1>2 DEF Alive
<1>7. Below'
  BY <1>1, <1>3, <1>4, <1>5, <1>6, BelowInv, Zenon
<1> QED BY <1>3, <1>4, <1>7, Zenon DEF IInv

LEMMA HoldInv == ASSUME IInv, NEW d \in Dbrefs, Hold(d) PROVE IInv'
<1>1. UNCHANGED <<graph, db_top, reverted, own>>
  BY DEF Hold
<1>2. Alive'
  BY DEF Alive, IInv, Hold, graph
<1> QED BY <1>1, <1>2, SameGraph, Zenon DEF IInv

LEMMA LoadDoneInv == ASSUME IInv, LoadDone PROVE IInv'
<1>1. UNCHANGED <<graph, db_top, reverted, own>>
  BY DEF LoadDone
<1>2. Alive'
  BY DEF Alive, IInv, LoadDone, graph
<1> QED BY <1>1, <1>2, SameGraph, Zenon DEF IInv

LEMMA ListOfOne == ASSUME NEW S, NEW x \in S PROVE <<x>> \in Seq(S) /\ Range(<<x>>) = {x}
BY DEF Range

(* What the dump makes of the parent lines of an object.                     *)
Listed(d, ps) ==
    LET known == Kept(ps, objects)
    IN  IF known = <<>> /\ d # ROOT_DBREF THEN <<ROOT_DBREF>> ELSE known

LEMMA ListedIs ==
    ASSUME IInv, NEW d, NEW ps \in ParentLists
    PROVE  Listed(d, ps) \in Seq(Dbrefs) /\ Range(Listed(d, ps)) \subseteq objects
<1>1. ps \in Seq(Dbrefs)
  BY HierarchyAssumption
<1>2. Kept(ps, objects) \in Seq(Dbrefs) /\ Range(Kept(ps, objects)) = Range(ps) \cap objects
  BY <1>1, KeptRange, Zenon
<1>3. <<ROOT_DBREF>> \in Seq(Dbrefs) /\ Range(<<ROOT_DBREF>>) = {ROOT_DBREF} /\ ROOT_DBREF \in objects
  BY Dbrefs01, ListOfOne DEF IInv, Alive
<1> QED BY <1>2, <1>3 DEF Listed

(* The graph an object of the dump is put in.                                *)
Cleared(d) == IF d \in objects THEN Destroyed(Graph, d) ELSE Graph

LEMMA ClearedIs ==
    ASSUME IInv, loading, NEW d \in Dbrefs, d \in objects => Destroyable(d)
    PROVE  /\ Sound(Cleared(d), reverted, own) /\ Cleared(d).objects = objects \ {d}
           /\ \A c \in Dbrefs : Cleared(d).former[c] = {} /\ Up(Cleared(d), c) \subseteq objects \ {d}
<1>1. /\ Sound(Graph, reverted, own) /\ reverted = {} /\ \A c \in Dbrefs : former[c] = {}
  BY DEF IInv, Alive
<1>2. CASE d \in objects
  <2> PICK g : g = Destroyed(Graph, d)
    OBVIOUS
  <2>1. Cleared(d) = g /\ g.objects = objects \ {d}
    BY <1>2, GraphIs DEF Cleared, Destroyed
  <2>2. /\ Sound(g, reverted, own) /\ \A c \in Dbrefs : g.former[c] \subseteq Graph.former[c]
    BY <1>1, <1>2, KnownIs, DestroyedIsSound, Zenon
  <2>3. \A c \in Dbrefs : g.former[c] = {}
    BY <1>1, <2>2, GraphIs
  <2>4. \A c \in Dbrefs : Up(g, c) \subseteq g.objects
    BY <1>1, <2>2, <2>3, UpIsOfObjects
  <2> QED BY <2>1, <2>2, <2>3, <2>4
<1>3. CASE d \notin objects
  <2>1. Cleared(d) = Graph /\ objects = objects \ {d}
    BY <1>3 DEF Cleared
  <2>2. \A c \in Dbrefs : Up(Graph, c) \subseteq Graph.objects
    BY <1>1, GraphIs, UpIsOfObjects
  <2> QED BY <1>1, <2>1, <2>2, GraphIs
<1> QED BY <1>2, <1>3

LEMMA LoadObjectIs ==
    ASSUME NEW d, NEW ps, LoadObject(d, ps)
    PROVE  /\ loading /\ (d \in objects => Destroyable(d))
           /\ Become(Created(Cleared(d), d, Listed(d, ps)))
           /\ own' = own \cup {x \in {d} : Contains(Listed(d, ps), x)}
           /\ db_top' = IF d >= db_top THEN d + 1 ELSE db_top
           /\ loading' = loading /\ dead' = dead /\ held' = held /\ reverted' = reverted
BY Zenon DEF LoadObject, Listed, Cleared

LEMMA LoadObjectInv ==
    ASSUME IInv, NEW d \in Dbrefs, NEW ps \in ParentLists, LoadObject(d, ps)
    PROVE  IInv'
<1> PICK list : list = Listed(d, ps)
  OBVIOUS
<1> PICK g : g = Cleared(d)
  OBVIOUS
<1> PICK h : h = Created(g, d, list)
  OBVIOUS
<1>1. /\ loading /\ (d \in objects => Destroyable(d)) /\ Become(h)
      /\ own' = own \cup {x \in {d} : Contains(list, x)}
      /\ db_top' = IF d >= db_top THEN d + 1 ELSE db_top
      /\ loading' = loading /\ dead' = dead /\ held' = held /\ reverted' = reverted
  BY LoadObjectIs, Zenon
<1>2. Alive /\ Below
  BY DEF IInv
<1>3. /\ Sound(g, reverted, own) /\ g.objects = objects \ {d}
      /\ \A c \in Dbrefs : g.former[c] = {} /\ Up(g, c) \subseteq objects \ {d}
  BY <1>1, ClearedIs, Zenon
<1>4. list \in Seq(Dbrefs) /\ Range(list) \subseteq objects
  BY ListedIs, Zenon
<1>5. /\ Sound(h, reverted, own \cup ({d} \cap Range(list)))
      /\ \A c \in Dbrefs : Up(h, c) \subseteq Up(g, c) \cup Range(list) /\ h.former[c] \subseteq g.former[c]
  <2>1. /\ d \notin g.objects /\ Range(list) \subseteq g.objects \cup {d}
        /\ \A c \in Dbrefs : d \notin Up(g, c)
    BY <1>3, <1>4
  <2> QED BY <1>3, <1>4, <2>1, CreatedIsSound, Zenon
<1>6. own' = own \cup ({d} \cap Range(list))
  <2>1. Contains(list, d) <=> d \in Range(list)
    BY <1>4 DEF Contains, Range
  <2> QED BY <1>1, <2>1
<1>7. /\ Sound(Graph', reverted', own') /\ objects' = h.objects /\ former' = h.former
      /\ \A x : Up(Graph', x) = Up(h, x)
  BY <1>1, <1>5, <1>6, BecomeSound, Zenon
<1>8. objects' = objects \cup {d}
  <2>1. h.objects = g.objects \cup {d}
    BY DEF Created
  <2> QED BY <1>3, <1>7, <2>1
<1>9. db_top' \in Nat /\ db_top <= db_top' /\ \A x \in objects' : x < db_top'
  <2>1. \A x \in objects : x < db_top /\ x \in Nat
    BY <1>2, GraphIs, Dbrefs01 DEF IInv, Alive, Sound, Lists
  <2>2. db_top \in Nat /\ d \in Nat
    BY <1>2, Dbrefs01 DEF Alive
  <2> QED BY <1>1, <1>8, <2>1, <2>2
<1>10. Alive'
  <2>1. own' \subseteq Dbrefs
    BY <1>2, <1>6 DEF Alive
  <2>2. \A c \in Dbrefs : former'[c] = {}
    BY <1>3, <1>5, <1>7
  <2> QED BY <1>1, <1>2, <1>8, <1>9, <2>1, <2>2 DEF Alive
<1>11. Below'
  <2>1. \A c \in Dbrefs : \A x \in Up(Graph', c) : x \in objects' \/ \E y \in Dbrefs : x \in Up(Graph, y)
    BY <1>3, <1>4, <1>5, <1>7, <1>8
  <2> QED BY <1>2, <1>7, <1>9, <1>10, <2>1, BelowInv, Zenon
<1> QED BY <1>7, <1>10, <1>11, Zenon DEF IInv

LEMMA NextInv == IInv /\ [Next]_hvars => IInv'
<1> SUFFICES ASSUME IInv, [Next]_hvars PROVE IInv'
  OBVIOUS
<1>1. CASE \E ps \in ParentLists : OpCreate(ps)
  BY <1>1, OpCreateInv, Zenon
<1>2. CASE \E d \in Dbrefs : OpDestroy(d) \/ Hold(d) \/ Release(d) \/ Reread(d)
  BY <1>2, OpDestroyInv, HoldInv, ReleaseInv, RereadInv, Zenon
<1>3. CASE \E d \in Dbrefs, ps \in ParentLists : OpChparents(d, ps) \/ LoadObject(d, ps)
  BY <1>3, OpChparentsInv, LoadObjectInv, Zenon
<1>4. CASE LoadDone
  BY <1>4, LoadDoneInv, Zenon
<1>5. CASE UNCHANGED hvars
  <2>1. UNCHANGED <<graph, db_top, reverted, own>> /\ UNCHANGED <<loading, dead, held>>
    BY <1>5 DEF hvars
  <2>2. Alive'
    BY <2>1 DEF Alive, IInv, graph
  <2> QED BY <2>1, <2>2, SameGraph, Zenon DEF IInv
<1> QED BY <1>1, <1>2, <1>3, <1>4, <1>5, Zenon DEF Next

LEMMA Invariance == Spec => []IInv
BY InitInv, NextInv, PTL DEF Spec

-----------------------------------------------------------------------------
LEMMA InvIsTyped == IInv => TypeOK
<1> SUFFICES ASSUME IInv PROVE TypeOK
  OBVIOUS
<1>1. Alive /\ Lists(Graph)
  BY DEF IInv, Sound
<1>2. /\ objects \subseteq Dbrefs /\ parents \in [Dbrefs -> Seq(Dbrefs)]
      /\ children \in [Dbrefs -> [Dbrefs -> Nat]]
      /\ \A d \in Dbrefs : \A ps \in former[d] : ps \in Seq(Dbrefs) /\ former[d] = {ps}
  BY <1>1, GraphIs DEF Lists
<1> QED BY <1>1, <1>2 DEF TypeOK, Alive

(* The variables of the model have their types: a list of parents is a list  *)
(* of dbrefs, and dead objects are objects that are held.                    *)
THEOREM HierarchyIsTyped == Spec => []TypeOK
BY Invariance, InvIsTyped, PTL

LEMMA InvAgrees == IInv => KinAgree /\ Acyclic
<1> SUFFICES ASSUME IInv PROVE KinAgree /\ Acyclic
  OBVIOUS
<1>1. Kin(Graph, reverted) /\ Rooted(Graph, own) /\ objects \subseteq Dbrefs
  BY GraphIs DEF IInv, Sound, Lists
<1>2. KinAgree
  BY <1>1, GraphIs DEF Kin, KinAgree
<1>3. ASSUME NEW S \in SUBSET objects, S # {}
      PROVE  \E d \in S : Range(parents[d]) \cap S \subseteq {d} \cap own
  <2>1. S \in SUBSET Dbrefs
    BY <1>1
  <2>2. PICK d \in S : Up(Graph, d) \cap S \subseteq {d} \cap own
    BY <1>1, <1>3, <2>1, Zenon DEF Rooted
  <2>3. Range(parents[d]) \subseteq Up(Graph, d)
    BY GraphIs DEF Up
  <2> QED BY <2>2, <2>3
<1> QED BY <1>2, <1>3 DEF Acyclic

(* Of every object that was not read back with parents op_chparents had      *)
(* taken from it, the lists of parents and of children say the same, and     *)
(* neither list names an object that is gone, after any sequence of          *)
(* op_create, op_chparents, op_destroy and objects of a text dump.           *)
THEOREM ParentsAndChildrenAgree == Spec => []KinAgree
BY Invariance, InvAgrees, PTL

(* No sequence of them, whatever moves are lost, makes an object its own     *)
(* ancestor, but for objects a text dump loads as parents of themselves.     *)
THEOREM AncestryHasNoCycle == Spec => []Acyclic
BY Invariance, InvAgrees, PTL

-----------------------------------------------------------------------------
(* An object whose list of parents becomes empty hung on one that had none.  *)
HungOn(par, d) == d = ROOT_DBREF \/ \E p \in Range(par[d]) : par[p] = <<>>

NoneCutOff ==
    \A d \in objects \cap objects' :
        parents[d] # <<>> /\ parents'[d] = <<>>
            => \/ d \in reverted' \cup {ROOT_DBREF}
               \/ \E p \in Range(parents[d]) : parents[p] = <<>>

LEMMA HangingOn ==
    ASSUME \A k \in objects \cap objects' :
               k \notin reverted' /\ parents[k] # <<>> /\ parents'[k] = <<>> => HungOn(parents, k)
    PROVE  NoneCutOff
BY DEF NoneCutOff, HungOn

LEMMA HeirsHang ==
    ASSUME NEW g, NEW rev, NEW self, Sound(g, rev, self), NEW d \in Dbrefs, NEW k \in Dbrefs, k # d,
           k \notin rev, g.parents[k] # <<>>, Destroyed(g, d).parents[k] = <<>>
    PROVE  HungOn(g.parents, k)
<1>1. ParentsLeft(g, d, k) = <<>>
  <2>1. Without(g, d, Destroyed(g, d))
    BY DestroyedIs, Zenon
  <2> QED BY <2>1 DEF Without
<1>2. CASE k \in Heirs(g, d)
  <2>1. g.parents[d] = <<>>
    BY <1>1, <1>2, Zenon DEF ParentsLeft
  <2>2. d \in Range(g.parents[k])
    BY <1>2, HeirsAre, Zenon
  <2> QED BY <2>1, <2>2, Zenon DEF HungOn
<1>3. CASE k \notin Heirs(g, d)
  <2>0. k \in Kids(g, d) /\ Kept(g.parents[k], Dbrefs \ {d}) = <<>>
    BY <1>1, <1>3, Zenon DEF ParentsLeft
  <2>1. d \in Range(g.parents[k])
    BY <2>0, HeirsAre, Zenon
  <2>2. g.parents[k] \in Seq(Dbrefs)
    BY SoundIs, Zenon
  <2>3. Range(g.parents[k]) \cap (Dbrefs \ {d}) = {}
    <3>1. Range(Kept(g.parents[k], Dbrefs \ {d})) = Range(g.parents[k]) \cap (Dbrefs \ {d})
      BY <2>2, KeptRange, Zenon
    <3> QED BY <2>0, <3>1, NoParents
  <2>4. Range(g.parents[k]) \subseteq {d}
    BY <2>2, <2>3 DEF Range
  <2>5. k \in Heirs(g, d)
    BY <2>1, <2>4, HeirsAre, Zenon
  <2> QED BY <1>3, <2>5
<1> QED BY <1>2, <1>3

LEMMA GoneCutsNobodyOff ==
    ASSUME IInv, NEW d \in Dbrefs, Become(Destroyed(Graph, d)), reverted' = reverted
    PROVE  NoneCutOff
<1>1. objects' = objects \ {d} /\ parents' = Destroyed(Graph, d).parents
  BY DestroyedIs, GraphIs, Zenon DEF Become, Without
<1>2. objects \subseteq Dbrefs /\ Sound(Graph, reverted, own)
  BY GraphIs DEF IInv, Sound, Lists
<1>3. ASSUME NEW k \in objects \cap objects', k \notin reverted', parents[k] # <<>>, parents'[k] = <<>>
      PROVE  HungOn(parents, k)
  <2>1. k \in Dbrefs /\ k # d /\ k \notin reverted
    BY <1>1, <1>2, <1>3
  <2>2. Graph.parents[k] # <<>> /\ Destroyed(Graph, d).parents[k] = <<>>
    BY <1>1, <1>3, GraphIs, Zenon
  <2>3. HungOn(Graph.parents, k)
    BY <1>2, <2>1, <2>2, HeirsHang, Zenon
  <2> QED BY <2>3, GraphIs, Zenon
<1> QED BY <1>3, HangingOn

LEMMA LoadCutsNobodyOff ==
    ASSUME IInv, NEW d \in Dbrefs, NEW ps \in ParentLists, LoadObject(d, ps)
    PROVE  NoneCutOff
<1> PICK list : list = Listed(d, ps)
  OBVIOUS
<1> PICK g : g = Cleared(d)
  OBVIOUS
<1>1. /\ loading /\ (d \in objects => Destroyable(d)) /\ Become(Created(g, d, list))
  BY LoadObjectIs, Zenon
<1>2. Sound(Graph, reverted, own) /\ Sound(g, reverted, own) /\ objects \subseteq Dbrefs
      /\ reverted' = reverted
  BY <1>1, ClearedIs, LoadObjectIs, GraphIs DEF IInv, Sound, Lists
<1>3. parents' = [g.parents EXCEPT ![d] = list] /\ g.parents \in [Dbrefs -> Seq(Dbrefs)]
  BY <1>1, <1>2 DEF Become, Created, Sound, Lists
<1>4. ASSUME NEW k \in objects \cap objects', k \notin reverted', parents[k] # <<>>, parents'[k] = <<>>
      PROVE  HungOn(parents, k)
  <2>1. k \in Dbrefs
    BY <1>2
  <2>2. CASE k = d
    <3>1. list = <<>>
      BY <1>3, <1>4, <2>1, <2>2
    <3>2. <<ROOT_DBREF>> # <<>>
      OBVIOUS
    <3>3. d = ROOT_DBREF
      BY <3>1, <3>2, Zenon DEF Listed
    <3> QED BY <2>2, <3>3, Zenon DEF HungOn
  <2>3. CASE k # d
    <3>1. parents'[k] = g.parents[k]
      BY <1>3, <2>1, <2>3
    <3>2. d \in objects
      BY <1>4, <3>1, GraphIs DEF Cleared
    <3>3. Graph.parents[k] # <<>> /\ Destroyed(Graph, d).parents[k] = <<>>
      BY <1>4, <3>1, <3>2, GraphIs DEF Cleared
    <3>4. HungOn(Graph.parents, k)
      BY <1>2, <1>4, <2>1, <2>3, <3>3, HeirsHang, Zenon
    <3> QED BY <3>4, GraphIs, Zenon
  <2> QED BY <2>2, <2>3
<1> QED BY <1>4, HangingOn

LEMMA NextCutsNobodyOff == IInv /\ [Next]_hvars => [NoneCutOff]_hvars
<1> SUFFICES ASSUME IInv, Next PROVE NoneCutOff
  BY Zenon
<1>0. /\ Alive /\ objects \subseteq Dbrefs /\ parents \in [Dbrefs -> Seq(Dbrefs)]
  BY GraphIs DEF IInv, Sound, Lists
<1>1. CASE UNCHANGED graph
  BY <1>1 DEF NoneCutOff, graph
<1>2. ASSUME NEW ps \in ParentLists, OpCreate(ps) PROVE NoneCutOff
  <2>1. /\ parents' = [parents EXCEPT ![db_top] = ps]
    BY <1>2, GraphIs DEF OpCreate, Become, Created
  <2>2. db_top \notin objects
    BY <1>0 DEF Alive
  <2>3. \A d \in objects : parents'[d] = parents[d]
    BY <1>0, <2>1, <2>2
  <2> QED BY <2>3, Zenon DEF NoneCutOff
<1>3. ASSUME NEW d \in Dbrefs, OpDestroy(d) PROVE NoneCutOff
  BY <1>1, <1>3, GoneCutsNobodyOff, Zenon DEF OpDestroy
<1>4. ASSUME NEW d \in Dbrefs, Release(d) PROVE NoneCutOff
  BY <1>1, <1>4, GoneCutsNobodyOff, Zenon DEF Release
<1>5. ASSUME NEW d \in Dbrefs, NEW ps \in ParentLists, OpChparents(d, ps) PROVE NoneCutOff
  <2>1. parents' = [parents EXCEPT ![d] = ps] /\ ps # <<>>
    BY <1>5 DEF OpChparents
  <2>2. \A k \in objects : parents'[k] = <<>> => parents[k] = <<>>
    BY <1>0, <2>1
  <2> QED BY <2>2, Zenon DEF NoneCutOff
<1>6. ASSUME NEW d \in Dbrefs, NEW ps \in ParentLists, LoadObject(d, ps) PROVE NoneCutOff
  BY <1>6, LoadCutsNobodyOff, Zenon
<1>7. ASSUME NEW d \in Dbrefs, Hold(d) PROVE NoneCutOff
  BY <1>1, <1>7, Zenon DEF Hold
<1>8. ASSUME LoadDone PROVE NoneCutOff
  BY <1>1, <1>8, Zenon DEF LoadDone
<1>9. ASSUME NEW d \in Dbrefs, Reread(d) PROVE NoneCutOff
  <2>1. PICK ps : parents' = [parents EXCEPT ![d] = ps]
    BY <1>9 DEF Reread
  <2>2. d \in reverted' /\ \A k \in objects : k # d => parents'[k] = parents[k]
    BY <1>0, <1>9, <2>1 DEF Reread
  <2> QED BY <2>2 DEF NoneCutOff
<1> QED BY <1>2, <1>3, <1>4, <1>5, <1>6, <1>7, <1>8, <1>9, Zenon DEF Next

(* Destroying or redefining an object never leaves one that inherited        *)
(* through it without parents, unless what it hung on had none, or it is     *)
(* read back as it was before it was moved.                                  *)
THEOREM DescendantsKeepParents == Spec => NobodyCutOff
BY Invariance, NextCutsNobodyOff, PTL DEF Spec, NobodyCutOff, NoneCutOff
============================================================================
