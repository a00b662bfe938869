-------------------------- MODULE ObjectCacheProofs --------------------------
(* Proofs about ObjectCache, for every number of objects, chains and holders *)
(* and references.                                                           *)
EXTENDS ObjectCache, FiniteSetTheorems, SequenceTheorems, WellFoundedInduction, TLAPS

-----------------------------------------------------------------------------
(* Chains: the objects that a chain names, and the holder of one.            *)
Named(s) == {s[i].dbref : i \in DOMAIN s} \ {-1}
Of(s, d) == s[Index(s, d)]
Occupied(s) == \A i \in DOMAIN s : s[i].dbref # -1
Distinct(s) == \A i, j \in DOMAIN s : s[i].dbref = s[j].dbref /\ s[i].dbref # -1 => i = j

LEMMA IndexFinds ==
    ASSUME NEW s \in Seq(Holder), NEW d
    PROVE  /\ (\E i \in DOMAIN s : s[i].dbref = d) => Index(s, d) \in DOMAIN s /\ s[Index(s, d)].dbref = d
           /\ ~(\E i \in DOMAIN s : s[i].dbref = d) => Index(s, d) = 0
           /\ Index(s, d) # 0 <=> \E i \in DOMAIN s : s[i].dbref = d
<1>1. (\E i \in DOMAIN s : s[i].dbref = d) => Index(s, d) \in DOMAIN s /\ s[Index(s, d)].dbref = d
  BY Zenon DEF Index
<1>2. ~(\E i \in DOMAIN s : s[i].dbref = d) => Index(s, d) = 0
  BY Zenon DEF Index
<1>3. 0 \notin DOMAIN s
  OBVIOUS
<1> QED BY <1>1, <1>2, <1>3, Zenon

LEMMA OfIs ==
    ASSUME NEW s \in Seq(Holder), Distinct(s), NEW i \in DOMAIN s, s[i].dbref # -1
    PROVE  s[i].dbref \in Named(s) /\ Of(s, s[i].dbref) = s[i] /\ Index(s, s[i].dbref) = i
<1>1. Index(s, s[i].dbref) \in DOMAIN s /\ s[Index(s, s[i].dbref)].dbref = s[i].dbref
  BY IndexFinds
<1>2. Index(s, s[i].dbref) = i
  BY <1>1 DEF Distinct
<1> QED BY <1>2 DEF Of, Named

LEMMA OfNamed ==
    ASSUME NEW s \in Seq(Holder), NEW d
    PROVE  /\ d \in Named(s) => Index(s, d) \in DOMAIN s /\ s[Index(s, d)] = Of(s, d)
                                /\ Of(s, d).dbref = d /\ Of(s, d) \in Holder
           /\ d # -1 => (Index(s, d) # 0 <=> d \in Named(s))
<1>1. ASSUME d \in Named(s)
      PROVE  Index(s, d) \in DOMAIN s /\ s[Index(s, d)] = Of(s, d) /\ Of(s, d).dbref = d /\ Of(s, d) \in Holder
  <2>1. Index(s, d) \in DOMAIN s /\ s[Index(s, d)].dbref = d
    BY <1>1, IndexFinds DEF Named
  <2> QED BY <2>1 DEF Of
<1>2. ASSUME d # -1 PROVE Index(s, d) # 0 <=> d \in Named(s)
  BY <1>2, IndexFinds DEF Named
<1> QED BY <1>1, <1>2

(* A holder is put at the head or the tail, taken away, or changed.          *)
Ahead(h, s) == <<h>> \o s
Longer(s, t, h) ==
    /\ t \in Seq(Holder) /\ Distinct(t) /\ Len(t) = Len(s) + 1
    /\ Named(t) = Named(s) \cup {h.dbref} /\ Of(t, h.dbref) = h /\ t[1] = h /\ Tail(t) = s
    /\ \A d \in Named(s) : Of(t, d) = Of(s, d)
    /\ Occupied(s) => Occupied(t)

LEMMA Pushed ==
    ASSUME NEW s \in Seq(Holder), Distinct(s), NEW h \in Holder, h.dbref # -1, h.dbref \notin Named(s)
    PROVE  Longer(s, Ahead(h, s), h)
<1> PICK t : t = Ahead(h, s)
  OBVIOUS
<1>0. t = <<h>> \o s
  BY Zenon DEF Ahead
<1>1. t \in Seq(Holder) /\ Len(t) = Len(s) + 1 /\ DOMAIN t = 1 .. Len(s) + 1 /\ Len(s) \in Nat
  BY <1>0
<1>2. t[1] = h /\ \A i \in DOMAIN s : i + 1 \in DOMAIN t /\ t[i + 1] = s[i]
  BY <1>0
<1>3. \A i \in DOMAIN t : i = 1 \/ (i - 1 \in DOMAIN s /\ t[i] = s[i - 1])
  BY <1>0
<1>4. Tail(t) = s
  BY <1>0
<1>5. \A i \in DOMAIN s : s[i].dbref # h.dbref
  BY DEF Named
<1>6. Distinct(t)
  <2> SUFFICES ASSUME NEW i \in DOMAIN t, NEW j \in DOMAIN t, t[i].dbref = t[j].dbref, t[i].dbref # -1
               PROVE  i = j
    BY DEF Distinct
  <2>1. CASE i = 1
    BY <1>2, <1>3, <1>5, <2>1
  <2>2. CASE j = 1
    BY <1>2, <1>3, <1>5, <2>2
  <2>3. CASE i # 1 /\ j # 1
    <3>1. i - 1 = j - 1
      BY <1>3, <2>3 DEF Distinct
    <3> QED BY <1>1, <3>1
  <2> QED BY <2>1, <2>2, <2>3
<1>7. Named(t) = Named(s) \cup {h.dbref}
  <2>1. ASSUME NEW i \in DOMAIN t PROVE t[i].dbref \in {s[j].dbref : j \in DOMAIN s} \cup {h.dbref}
    BY <1>2, <1>3
  <2>2. ASSUME NEW j \in DOMAIN s PROVE s[j].dbref \in {t[i].dbref : i \in DOMAIN t}
    BY <1>2
  <2>3. h.dbref \in {t[i].dbref : i \in DOMAIN t}
    BY <1>1, <1>2
  <2>4. {t[i].dbref : i \in DOMAIN t} = {s[j].dbref : j \in DOMAIN s} \cup {h.dbref}
    BY <2>1, <2>2, <2>3, Zenon
  <2>5. h.dbref # -1
    OBVIOUS
  <2> HIDE DEF Holder
  <2> QED BY <2>4, <2>5, Zenon DEF Named
<1>8. Of(t, h.dbref) = h
  <2>1. 1 \in DOMAIN t
    BY <1>1
  <2>2. Of(t, t[1].dbref) = t[1]
    BY <1>1, <1>2, <1>6, <2>1, OfIs
  <2> QED BY <1>2, <2>2, Zenon
<1>9. ASSUME NEW d \in Named(s) PROVE Of(t, d) = Of(s, d)
  <2> DEFINE i == Index(s, d)
  <2>1. i \in DOMAIN s /\ s[i] = Of(s, d) /\ s[i].dbref = d /\ d # -1
    BY OfNamed DEF Named
  <2> HIDE DEF i
  <2>2. i + 1 \in DOMAIN t /\ t[i + 1] = s[i]
    BY <1>2, <2>1
  <2> QED BY <1>1, <1>6, <2>1, <2>2, OfIs
<1>10. Occupied(s) => Occupied(t)
  BY <1>2, <1>3 DEF Occupied
<1>11. Longer(s, t, h)
  BY <1>1, <1>2, <1>4, <1>6, <1>7, <1>8, <1>9, <1>10 DEF Longer
<1> QED BY <1>11

Shorter(s, t, d) ==
    /\ Distinct(t) /\ Named(t) = Named(s) \ {d}
    /\ \A e \in Named(t) : Of(t, e) = Of(s, e)
    /\ Occupied(s) => Occupied(t)

LEMMA WithoutOne ==
    ASSUME NEW s \in Seq(Holder), Distinct(s), NEW k \in DOMAIN s,
           NEW t \in Seq(Holder), Len(t) = Len(s) - 1,
           \A i \in DOMAIN t : (i < k => t[i] = s[i]) /\ (~(i < k) => t[i] = s[i + 1])
    PROVE  Shorter(s, t, s[k].dbref)
<1>1. DOMAIN t = 1 .. Len(s) - 1 /\ Len(s) \in Nat /\ DOMAIN s = 1 .. Len(s)
  OBVIOUS
<1> DEFINE f(i) == IF i < k THEN i ELSE i + 1
<1>2. ASSUME NEW i \in DOMAIN t PROVE f(i) \in DOMAIN s \ {k} /\ t[i] = s[f(i)]
  BY <1>1
<1>3. ASSUME NEW i \in DOMAIN s, i # k PROVE \E j \in DOMAIN t : f(j) = i
  <2>1. CASE i < k
    BY <1>1, <2>1
  <2>2. CASE i > k
    <3>1. i - 1 \in DOMAIN t /\ f(i - 1) = i
      BY <1>1, <2>2
    <3> QED BY <3>1
  <2> QED BY <1>1, <1>3, <2>1, <2>2
<1>4. \A i, j \in DOMAIN t : f(i) = f(j) => i = j
  BY <1>1
<1> HIDE DEF f
<1>5. Distinct(t)
  BY <1>2, <1>4 DEF Distinct
<1>6. Named(t) \subseteq Named(s) \ {s[k].dbref}
  <2> SUFFICES ASSUME NEW i \in DOMAIN t, t[i].dbref # -1
               PROVE  t[i].dbref \in Named(s) /\ t[i].dbref # s[k].dbref
    BY DEF Named
  <2> QED BY <1>2 DEF Named, Distinct
<1>7. Named(s) \ {s[k].dbref} \subseteq Named(t)
  <2> SUFFICES ASSUME NEW i \in DOMAIN s, s[i].dbref # -1, s[i].dbref # s[k].dbref
               PROVE  s[i].dbref \in Named(t)
    BY DEF Named
  <2>1. PICK j \in DOMAIN t : f(j) = i
    BY <1>3
  <2> QED BY <1>2, <2>1 DEF Named
<1>8. ASSUME NEW d \in Named(t) PROVE Of(t, d) = Of(s, d)
  <2>1. PICK i \in DOMAIN t : t[i].dbref = d /\ d # -1
    BY DEF Named
  <2>2. f(i) \in DOMAIN s /\ t[i] = s[f(i)]
    BY <1>2
  <2>3. Of(t, d) = t[i]
    BY <1>5, <2>1, OfIs
  <2>4. Of(s, d) = s[f(i)]
    BY <2>1, <2>2, OfIs
  <2> QED BY <2>2, <2>3, <2>4
<1>9. Occupied(s) => Occupied(t)
  BY <1>2 DEF Occupied
<1> QED BY <1>5, <1>6, <1>7, <1>8, <1>9 DEF Shorter

Without(s, d) == RemoveAt(s, Index(s, d))
Removes(s, t, d) == t \in Seq(Holder) /\ Len(t) = Len(s) - 1 /\ Shorter(s, t, d)

LEMMA Removed ==
    ASSUME NEW s \in Seq(Holder), Distinct(s), NEW d \in Named(s)
    PROVE  Removes(s, Without(s, d), d)
<1> PICK t : t = Without(s, d)
  OBVIOUS
<1>1. PICK k \in DOMAIN s : k = Index(s, d) /\ s[k].dbref = d
  BY OfNamed
<1> DEFINE a == SubSeq(s, 1, k - 1)
           b == SubSeq(s, k + 1, Len(s))
<1>2. t = a \o b
  BY <1>1, Zenon DEF RemoveAt, Without
<1>3. a \in Seq(Holder) /\ b \in Seq(Holder) /\ Len(a) = k - 1 /\ Len(b) = Len(s) - k
  BY <1>1
<1>4. \A i \in 1 .. k - 1 : a[i] = s[i]
  BY <1>1
<1>5. \A i \in 1 .. Len(s) - k : b[i] = s[k + i]
  BY <1>1
<1>6. k \in 1 .. Len(s) /\ Len(s) \in Nat
  BY <1>1
<1> HIDE DEF a, b
<1>7. t \in Seq(Holder) /\ Len(t) = Len(s) - 1
  <2>1. t \in Seq(Holder) /\ Len(t) = Len(a) + Len(b)
    BY <1>2, <1>3, ConcatProperties, Zenon
  <2> QED BY <1>3, <1>6, <2>1
<1>8. ASSUME NEW i \in DOMAIN t PROVE t[i] = IF i < k THEN s[i] ELSE s[i + 1]
  <2>1. t[i] = IF i <= Len(a) THEN a[i] ELSE b[i - Len(a)]
    BY <1>2, <1>3, <1>7
  <2>2. i \in 1 .. Len(s) - 1
    BY <1>7
  <2>3. CASE i < k
    <3>1. i <= Len(a) /\ i \in 1 .. k - 1
      BY <1>3, <1>6, <2>2, <2>3
    <3> QED BY <1>4, <2>1, <2>3, <3>1
  <2>4. CASE ~(i < k)
    <3>1. ~(i <= Len(a)) /\ i - Len(a) \in 1 .. Len(s) - k /\ k + (i - Len(a)) = i + 1
      BY <1>3, <1>6, <2>2, <2>4
    <3> QED BY <1>5, <2>1, <2>4, <3>1
  <2> QED BY <2>3, <2>4
<1>9. Shorter(s, t, d)
  <2>1. \A i \in DOMAIN t : (i < k => t[i] = s[i]) /\ (~(i < k) => t[i] = s[i + 1])
    BY <1>8
  <2> QED BY <1>1, <1>7, <2>1, WithoutOne
<1>10. Removes(s, t, d)
  BY <1>7, <1>9 DEF Removes
<1> QED BY <1>10

LEMMA LastTaken ==
    ASSUME NEW s \in Seq(Holder), Distinct(s), s # <<>>, NEW t, t = Front(s)
    PROVE  /\ t \in Seq(Holder) /\ Distinct(t) /\ Len(t) = Len(s) - 1
           /\ Named(t) = Named(s) \ {Last(s).dbref} /\ \A e \in Named(t) : Of(t, e) = Of(s, e)
           /\ Last(s) \in Holder
           /\ Last(s).dbref # -1 => Last(s).dbref \in Named(s) /\ Of(s, Last(s).dbref) = Last(s)
<1>1. Len(s) \in DOMAIN s /\ Len(s) \in Nat /\ Last(s) = s[Len(s)]
  BY DEF Last
<1>0. Len(s) - 1 \in 0 .. Len(s)
  OBVIOUS
<1>2. t \in Seq(Holder) /\ Len(t) = Len(s) - 1 /\ \A i \in DOMAIN t : t[i] = s[i] /\ i < Len(s)
  <2>1. t = SubSeq(s, 1, Len(s) - 1)
    BY Zenon DEF Front
  <2>2. t \in Seq(Holder)
    BY <1>1, <2>1
  <2>3. Len(t) = Len(s) - 1
    <3>1. Len(s) - 1 \in Int /\ \A i \in 1 .. Len(s) - 1 : s[i] \in Holder
      BY <1>1
    <3>2. Len(t) = IF 1 <= Len(s) - 1 THEN Len(s) - 1 - 1 + 1 ELSE 0
      BY <2>1, <3>1, SubSeqProperties
    <3> QED BY <1>0, <1>1, <3>2
  <2>4. \A i \in DOMAIN t : i \in 1 .. Len(s) - 1
    BY <1>1, <2>2, <2>3
  <2>5. \A i \in 1 .. Len(s) - 1 : t[i] = s[i]
    BY <1>1, <2>1
  <2> QED BY <1>1, <2>2, <2>3, <2>4, <2>5
<1>3. Shorter(s, t, Last(s).dbref)
  BY <1>1, <1>2, WithoutOne
<1> QED BY <1>1, <1>2, <1>3, OfIs DEF Shorter

Ends(s, t) ==
    /\ t \in Seq(Holder) /\ Distinct(t) /\ Len(t) = Len(s) + 1
    /\ Named(t) = Named(s) /\ \A d \in Named(s) : Of(t, d) = Of(s, d)

LEMMA Appended ==
    ASSUME NEW s \in Seq(Holder), Distinct(s), NEW h \in Holder, h.dbref = -1
    PROVE  Ends(s, Append(s, h))
<1> PICK t : t = Append(s, h)
  OBVIOUS
<1>1. t \in Seq(Holder) /\ Len(t) = Len(s) + 1 /\ Len(s) \in Nat
  OBVIOUS
<1>2. \A i \in DOMAIN s : i \in DOMAIN t /\ t[i] = s[i]
  OBVIOUS
<1>3. \A i \in DOMAIN t : i \in DOMAIN s \/ t[i] = h
  OBVIOUS
<1>4. Distinct(t)
  BY <1>2, <1>3 DEF Distinct
<1>5. Named(t) = Named(s)
  <2>1. ASSUME NEW i \in DOMAIN t, t[i].dbref # -1 PROVE t[i].dbref \in Named(s)
    BY <1>2, <1>3, <2>1 DEF Named
  <2>2. ASSUME NEW i \in DOMAIN s, s[i].dbref # -1 PROVE s[i].dbref \in Named(t)
    BY <1>2, <2>2 DEF Named
  <2> QED BY <2>1, <2>2 DEF Named
<1>6. ASSUME NEW d \in Named(s) PROVE Of(t, d) = Of(s, d)
  <2>1. PICK i \in DOMAIN s : s[i].dbref = d /\ d # -1
    BY DEF Named
  <2>2. i \in DOMAIN t /\ t[i] = s[i]
    BY <1>2
  <2> QED BY <1>1, <1>4, <2>1, <2>2, OfIs
<1>7. Ends(s, t)
  BY <1>1, <1>4, <1>5, <1>6 DEF Ends
<1> QED BY <1>7

Put(s, d, h) == [s EXCEPT ![Index(s, d)] = h]

LEMMA Replaced ==
    ASSUME NEW s \in Seq(Holder), Distinct(s), NEW d \in Named(s), NEW h \in Holder, h.dbref = d,
           NEW t, t = Put(s, d, h)
    PROVE  /\ t \in Seq(Holder) /\ Distinct(t) /\ Len(t) = Len(s) /\ Named(t) = Named(s)
           /\ Of(t, d) = h /\ (\A e \in Named(s) : e # d => Of(t, e) = Of(s, e))
           /\ Occupied(s) => Occupied(t)
           /\ Index(t, d) = Index(s, d)
<1>1. PICK k \in DOMAIN s : k = Index(s, d) /\ s[k].dbref = d /\ d # -1
  BY OfNamed DEF Named
<1>2. t \in Seq(Holder) /\ Len(t) = Len(s) /\ DOMAIN t = DOMAIN s
  <2>1. t = [s EXCEPT ![k] = h]
    BY <1>1 DEF Put
  <2>2. k \in 1 .. Len(s)
    BY <1>1
  <2>3. [s EXCEPT ![k] = h] \in Seq(Holder) /\ Len([s EXCEPT ![k] = h]) = Len(s)
    BY <2>2, ExceptSeq, Zenon
  <2> QED BY <2>1, <2>3
<1>3. \A i \in DOMAIN s : t[i] = (IF i = k THEN h ELSE s[i]) /\ t[i].dbref = s[i].dbref
  BY <1>1 DEF Put
<1>4. Distinct(t)
  BY <1>2, <1>3 DEF Distinct
<1>5. Named(t) = Named(s)
  BY <1>2, <1>3 DEF Named
<1>6. Of(t, d) = h /\ Index(t, d) = Index(s, d)
  <2>1. t[k] = h /\ t[k].dbref = d
    BY <1>1, <1>3
  <2> QED BY <1>1, <1>2, <1>4, <2>1, OfIs
<1>7. ASSUME NEW e \in Named(s), e # d PROVE Of(t, e) = Of(s, e)
  <2>1. PICK i \in DOMAIN s : s[i].dbref = e /\ e # -1
    BY DEF Named
  <2>2. t[i] = s[i] /\ i \in DOMAIN t
    BY <1>1, <1>2, <1>3, <1>7, <2>1
  <2>3. Of(t, t[i].dbref) = t[i]
    BY <1>2, <1>4, <2>1, <2>2, OfIs
  <2>4. Of(s, s[i].dbref) = s[i]
    BY <2>1, OfIs
  <2> QED BY <2>1, <2>2, <2>3, <2>4, Zenon
<1>8. Occupied(s) => Occupied(t)
  BY <1>2, <1>3 DEF Occupied
<1> QED BY <1>2, <1>4, <1>5, <1>6, <1>7, <1>8

-----------------------------------------------------------------------------
(* The state of a cache: every object has at most one holder, in its chain;  *)
(* what happens to an object that an operation is not about; and how far     *)
(* chains grow.                                                              *)
Images == Values \cup {NoObj}
Caches == [active : [Chains -> Seq(Holder)], inactive : [Chains -> Seq(Holder)],
           store : [Dbrefs -> Images], clean : BOOLEAN]

ChainsOK(a, b, n) ==
    /\ a \in Seq(Holder) /\ Distinct(a) /\ Occupied(a)
    /\ b \in Seq(Holder) /\ Distinct(b)
    /\ \A d \in Named(a) : Chain(d) = n /\ d \notin Named(b)
    /\ \A d \in Named(b) : Chain(d) = n

WellFormed(c) == c \in Caches /\ \A n \in Chains : ChainsOK(c.active[n], c.inactive[n], n)

Resting(c, d) == Of(Inact(c, d), d)

Same(c, after, d) ==
    /\ IsActive(after, d) <=> IsActive(c, d)
    /\ IsInactive(after, d) <=> IsInactive(c, d)
    /\ IsActive(c, d) => Holding(after, d) = Holding(c, d)
    /\ IsInactive(c, d) => Resting(after, d) = Resting(c, d)
    /\ after.store[d] = c.store[d]

SwappedOut(c, after, d) ==
    /\ IsInactive(c, d) /\ ~IsActive(c, d)
    /\ ~IsActive(after, d) /\ ~IsInactive(after, d)
    /\ after.store[d] = IF Resting(c, d).dirty THEN Resting(c, d).val ELSE c.store[d]

Stays(c, after, d) == Same(c, after, d) \/ SwappedOut(c, after, d)

Marks(c, after) == after.clean => c.clean /\ after.store = c.store

Size(c, n) == Len(c.active[n]) + Len(c.inactive[n])
Mine(n) == Cardinality({d \in Dbrefs : Chain(d) = n})
Grows(c, after) == \A n \in Chains : Size(after, n) <= Size(c, n) \/ Size(after, n) <= Mine(n)

LEMMA Constants ==
    /\ Dbrefs \subseteq Nat /\ SYSTEM_DBREF \in Dbrefs /\ ROOT_DBREF \in Dbrefs /\ SYSTEM_DBREF # ROOT_DBREF
    /\ NoObj \notin Values /\ IsFiniteSet(Dbrefs) /\ -1 \notin Dbrefs
    /\ CACHE_WIDTH \in Nat \ {0} /\ CACHE_DEPTH \in Nat \ {0}
  BY CacheAssumption DEF SYSTEM_DBREF, ROOT_DBREF

LEMMA ChainIsOne ==
    ASSUME NEW d \in Dbrefs PROVE Chain(d) \in Chains
  BY Constants DEF Chain, Chains

LEMMA IsActiveIs ==
    ASSUME NEW c, WellFormed(c), NEW d \in Dbrefs
    PROVE  /\ IsActive(c, d) <=> d \in Named(Act(c, d))
           /\ IsInactive(c, d) <=> d \in Named(Inact(c, d))
           /\ Holding(c, d) = Of(Act(c, d), d)
           /\ IsActive(c, d) => Holding(c, d) \in Holder /\ Holding(c, d).dbref = d /\ ~IsInactive(c, d)
           /\ IsInactive(c, d) => Resting(c, d) \in Holder /\ Resting(c, d).dbref = d
<1>1. Act(c, d) \in Seq(Holder) /\ Inact(c, d) \in Seq(Holder) /\ d # -1
  BY ChainIsOne, Constants DEF WellFormed, ChainsOK, Act, Inact
<1>2. IsActive(c, d) <=> d \in Named(Act(c, d))
  BY <1>1, OfNamed DEF IsActive
<1>3. IsInactive(c, d) <=> d \in Named(Inact(c, d))
  BY <1>1, OfNamed DEF IsInactive
<1>4. Holding(c, d) = Of(Act(c, d), d)
  BY DEF Holding, Of
<1>5. IsActive(c, d) => Holding(c, d) \in Holder /\ Holding(c, d).dbref = d
  BY <1>1, <1>2, <1>4, OfNamed
<1>6. IsInactive(c, d) => Resting(c, d) \in Holder /\ Resting(c, d).dbref = d
  BY <1>1, <1>3, OfNamed DEF Resting
<1>7. IsActive(c, d) => ~IsInactive(c, d)
  BY <1>2, <1>3, ChainIsOne DEF WellFormed, ChainsOK, Act, Inact
<1> QED BY <1>2, <1>3, <1>4, <1>5, <1>6, <1>7

-----------------------------------------------------------------------------
(* An operation changes the two chains of one number.                        *)
Changes(c, after, n, a, b) ==
    /\ after \in Caches
    /\ after.active = [c.active EXCEPT ![n] = a] /\ after.inactive = [c.inactive EXCEPT ![n] = b]

LEMMA HoldersThere ==
    /\ \A d \in Dbrefs : New(d) \in Holder /\ New(d).dbref = d /\ d # -1
    /\ \A h \in Holder : Emptied(h) \in Holder /\ Emptied(h).dbref = -1
    /\ Empty \in Holder /\ Empty.dbref = -1
  BY Constants DEF New, Emptied, Empty, Holder

LEMMA ChangesOne ==
    ASSUME NEW c, WellFormed(c), NEW n \in Chains, NEW a, NEW b, ChainsOK(a, b, n),
           NEW after, Changes(c, after, n, a, b)
    PROVE  /\ WellFormed(after)
           /\ \A e \in Dbrefs : Chain(e) = n => Act(after, e) = a /\ Inact(after, e) = b
           /\ \A e \in Dbrefs : Chain(e) # n => Act(after, e) = Act(c, e) /\ Inact(after, e) = Inact(c, e)
           /\ \A m \in Chains : m # n => Size(after, m) = Size(c, m)
           /\ Size(after, n) = Len(a) + Len(b)
<1>1. after \in Caches /\ c \in Caches
  BY DEF WellFormed, Changes
<1>2. after.active[n] = a /\ after.inactive[n] = b
  BY <1>1 DEF Changes, Caches
<1>3. \A m \in Chains : m # n => after.active[m] = c.active[m] /\ after.inactive[m] = c.inactive[m]
  BY <1>1 DEF Changes, Caches
<1>4. WellFormed(after)
  <2> SUFFICES ASSUME NEW m \in Chains PROVE ChainsOK(after.active[m], after.inactive[m], m)
    BY <1>1 DEF WellFormed
  <2>1. CASE m = n
    BY <1>2, <2>1
  <2>2. CASE m # n
    BY <1>3, <2>2 DEF WellFormed
  <2> QED BY <2>1, <2>2
<1>5. \A e \in Dbrefs : Chain(e) = n => Act(after, e) = a /\ Inact(after, e) = b
  BY <1>2 DEF Act, Inact
<1>6. \A e \in Dbrefs : Chain(e) # n => Act(after, e) = Act(c, e) /\ Inact(after, e) = Inact(c, e)
  BY <1>3, ChainIsOne DEF Act, Inact
<1>7. \A m \in Chains : m # n => Size(after, m) = Size(c, m)
  BY <1>3 DEF Size
<1>8. Size(after, n) = Len(a) + Len(b)
  BY <1>2 DEF Size
<1> QED BY <1>4, <1>5, <1>6, <1>7, <1>8

LEMMA SameIs ==
    ASSUME NEW c, WellFormed(c), NEW after, WellFormed(after), NEW e \in Dbrefs,
           e \in Named(Act(after, e)) <=> e \in Named(Act(c, e)),
           e \in Named(Inact(after, e)) <=> e \in Named(Inact(c, e)),
           e \in Named(Act(c, e)) => Of(Act(after, e), e) = Of(Act(c, e), e),
           e \in Named(Inact(c, e)) => Of(Inact(after, e), e) = Of(Inact(c, e), e),
           after.store[e] = c.store[e]
    PROVE  Same(c, after, e)
  BY IsActiveIs DEF Same, Resting

LEMMA SameElsewhere ==
    ASSUME NEW c, WellFormed(c), NEW n \in Chains, NEW a, NEW b, ChainsOK(a, b, n),
           NEW after, Changes(c, after, n, a, b),
           NEW e \in Dbrefs, Chain(e) # n, after.store[e] = c.store[e]
    PROVE  Same(c, after, e)
<1>1. WellFormed(after) /\ Act(after, e) = Act(c, e) /\ Inact(after, e) = Inact(c, e)
  BY ChangesOne
<1> QED BY <1>1, SameIs

LEMMA StaysTwice ==
    ASSUME NEW c, NEW d, NEW b, NEW after, Stays(c, b, d), Stays(b, after, d)
    PROVE  Stays(c, after, d)
  BY DEF Stays, Same, SwappedOut

LEMMA MarksTwice ==
    ASSUME NEW c, NEW b, NEW after, Marks(c, b), Marks(b, after)
    PROVE  Marks(c, after)
  BY DEF Marks

LEMMA MineCounted ==
    ASSUME NEW n \in Chains PROVE Mine(n) \in Nat /\ IsFiniteSet({d \in Dbrefs : Chain(d) = n})
  BY Constants, FS_Subset, FS_CardinalityType DEF Mine

LEMMA SizeCounted ==
    ASSUME NEW c, WellFormed(c), NEW n \in Chains PROVE Size(c, n) \in Nat
<1>1. c.active[n] \in Seq(Holder) /\ c.inactive[n] \in Seq(Holder)
  BY DEF WellFormed, ChainsOK
<1>2. Len(c.active[n]) \in Nat /\ Len(c.inactive[n]) \in Nat
  BY <1>1, LenProperties, Zenon
<1>3. \A i, j \in Nat : i + j \in Nat
  OBVIOUS
<1> QED BY <1>2, <1>3, Zenon DEF Size

LEMMA GrowsTwice ==
    ASSUME NEW c, NEW b, NEW after, WellFormed(c), WellFormed(b), WellFormed(after),
           Grows(c, b), Grows(b, after)
    PROVE  Grows(c, after)
<1> SUFFICES ASSUME NEW n \in Chains
             PROVE  Size(after, n) <= Size(c, n) \/ Size(after, n) <= Mine(n)
  BY DEF Grows
<1>1. Size(c, n) \in Nat /\ Size(b, n) \in Nat /\ Size(after, n) \in Nat /\ Mine(n) \in Nat
  BY SizeCounted, MineCounted
<1>2. Size(b, n) <= Size(c, n) \/ Size(b, n) <= Mine(n)
  BY DEF Grows
<1>3. Size(after, n) <= Size(b, n) \/ Size(after, n) <= Mine(n)
  BY DEF Grows
<1> QED BY <1>1, <1>2, <1>3

(* Holders in use have different objects of their chain, so that there are   *)
(* no more of them than such objects.                                        *)
LEMMA OccupiedAreFew ==
    ASSUME NEW s \in Seq(Holder), Distinct(s), Occupied(s), NEW n \in Chains,
           \A d \in Named(s) : Chain(d) = n
    PROVE  Len(s) <= Mine(n)
<1> DEFINE N == 1 .. Len(s)
           M == {d \in Dbrefs : Chain(d) = n}
           f == [i \in N |-> s[i].dbref]
<1>1. Len(s) \in Nat /\ DOMAIN s = N
  OBVIOUS
<1>2. ASSUME NEW i \in N PROVE s[i].dbref \in Named(s) /\ s[i].dbref \in Dbrefs
  <2>1. s[i] \in Holder /\ s[i].dbref # -1
    BY <1>1 DEF Occupied
  <2>2. s[i].dbref \in Dbrefs
    BY <2>1 DEF Holder
  <2> QED BY <1>1, <2>1, <2>2 DEF Named
<1>3. \A i, j \in N : f[i] = f[j] => i = j
  BY <1>1 DEF Distinct, Occupied
<1>4. f \in [N -> M]
  BY <1>2
<1>5. IsFiniteSet(N) /\ Cardinality(N) = Len(s)
  BY <1>1, FS_Interval
<1>6. IsFiniteSet(M) /\ Cardinality(M) \in Nat
  BY MineCounted DEF Mine
<1>7. ~(Cardinality(M) < Cardinality(N))
  <2> SUFFICES ASSUME Cardinality(M) < Cardinality(N) PROVE FALSE
    OBVIOUS
  <2> HIDE DEF f, N, M
  <2>1. PICK x \in N, y \in N : x # y /\ f[x] = f[y]
    BY <1>4, <1>5, <1>6, FS_PigeonHole, Zenon
  <2> QED BY <1>3, <2>1, Zenon
<1> QED BY <1>1, <1>5, <1>6, <1>7 DEF Mine

-----------------------------------------------------------------------------
(* An operation on d leaves the other objects as they are, or swaps one out. *)
Does(c, after, d) ==
    /\ WellFormed(after) /\ Marks(c, after) /\ Grows(c, after)
    /\ \A e \in Dbrefs \ {d} : Stays(c, after, e)

LEMMA DoesTwice ==
    ASSUME NEW c, WellFormed(c), NEW d, NEW b, NEW after, Does(c, b, d), Does(b, after, d)
    PROVE  Does(c, after, d)
<1>1. WellFormed(b) /\ WellFormed(after) /\ Marks(c, b) /\ Marks(b, after) /\ Grows(c, b) /\ Grows(b, after)
  BY DEF Does
<1>2. Marks(c, after)
  BY <1>1, MarksTwice
<1>3. Grows(c, after)
  BY <1>1, GrowsTwice
<1>4. ASSUME NEW e \in Dbrefs \ {d} PROVE Stays(c, after, e)
  <2>1. Stays(c, b, e) /\ Stays(b, after, e)
    BY DEF Does
  <2> QED BY <2>1, StaysTwice
<1> QED BY <1>1, <1>2, <1>3, <1>4 DEF Does

(* The chains of d become a and b; the objects of D are the ones that it is  *)
(* about.                                                                    *)
Others(s, t, D) == Named(t) \ D = Named(s) \ D /\ \A e \in Named(s) \ D : Of(t, e) = Of(s, e)

Moves(c, after, d, D, a, b) ==
    /\ ChainsOK(a, b, Chain(d)) /\ Changes(c, after, Chain(d), a, b)
    /\ Others(Act(c, d), a, D) /\ Others(Inact(c, d), b, D)
    /\ Marks(c, after) /\ \A e \in Dbrefs \ D : after.store[e] = c.store[e]

Arrives(c, after, d, D, a, b) ==
    /\ WellFormed(after) /\ Marks(c, after) /\ Act(after, d) = a /\ Inact(after, d) = b
    /\ \A e \in Dbrefs \ D : Same(c, after, e)
    /\ Size(after, Chain(d)) = Len(a) + Len(b)
    /\ \A m \in Chains : m # Chain(d) => Size(after, m) = Size(c, m)

LEMMA OthersSame ==
    ASSUME NEW c, WellFormed(c), NEW d \in Dbrefs, NEW D, NEW a, NEW b, NEW after, Moves(c, after, d, D, a, b)
    PROVE  Arrives(c, after, d, D, a, b)
<1>0. /\ ChainsOK(a, b, Chain(d)) /\ Changes(c, after, Chain(d), a, b)
      /\ Others(Act(c, d), a, D) /\ Others(Inact(c, d), b, D)
      /\ Marks(c, after) /\ \A e \in Dbrefs \ D : after.store[e] = c.store[e]
  BY DEF Moves
<1>1. Chain(d) \in Chains
  BY ChainIsOne
<1>2. /\ WellFormed(after)
      /\ \A e \in Dbrefs : Chain(e) = Chain(d) => Act(after, e) = a /\ Inact(after, e) = b
      /\ \A m \in Chains : m # Chain(d) => Size(after, m) = Size(c, m)
      /\ Size(after, Chain(d)) = Len(a) + Len(b)
  BY <1>0, <1>1, ChangesOne
<1>3. ASSUME NEW e \in Dbrefs \ D PROVE Same(c, after, e)
  <2>1. CASE Chain(e) # Chain(d)
    BY <1>0, <1>1, <2>1, SameElsewhere
  <2>2. CASE Chain(e) = Chain(d)
    <3>1. Act(after, e) = a /\ Inact(after, e) = b
      BY <1>2, <2>2
    <3>2. Act(c, e) = Act(c, d) /\ Inact(c, e) = Inact(c, d)
      BY <2>2 DEF Act, Inact
    <3>3. e \in Named(Act(after, e)) <=> e \in Named(Act(c, e))
      BY <1>0, <3>1, <3>2 DEF Others
    <3>4. e \in Named(Inact(after, e)) <=> e \in Named(Inact(c, e))
      BY <1>0, <3>1, <3>2 DEF Others
    <3>5. e \in Named(Act(c, e)) => Of(Act(after, e), e) = Of(Act(c, e), e)
      BY <1>0, <3>1, <3>2 DEF Others
    <3>6. e \in Named(Inact(c, e)) => Of(Inact(after, e), e) = Of(Inact(c, e), e)
      BY <1>0, <3>1, <3>2 DEF Others
    <3>7. after.store[e] = c.store[e]
      BY <1>0
    <3> QED BY <1>2, <3>3, <3>4, <3>5, <3>6, <3>7, SameIs
  <2> QED BY <2>1, <2>2
<1> QED BY <1>0, <1>2, <1>3 DEF Arrives

Fewer(c, d, a, b) == Len(a) + Len(b) <= Size(c, Chain(d)) \/ Len(a) + Len(b) <= Mine(Chain(d))

LEMMA Grown ==
    ASSUME NEW c, WellFormed(c), NEW d \in Dbrefs, NEW D, NEW a, NEW b, NEW after,
           Arrives(c, after, d, D, a, b), Fewer(c, d, a, b)
    PROVE  Grows(c, after)
<1>1. ASSUME NEW m \in Chains PROVE Size(after, m) <= Size(c, m) \/ Size(after, m) <= Mine(m)
  <2>1. CASE m = Chain(d)
    BY <2>1 DEF Arrives, Fewer
  <2>2. CASE m # Chain(d)
    BY <2>2, SizeCounted DEF Arrives
  <2> QED BY <2>1, <2>2
<1> QED BY <1>1 DEF Grows

LEMMA DoesOne ==
    ASSUME NEW c, WellFormed(c), NEW d \in Dbrefs, NEW a, NEW b, NEW after,
           Arrives(c, after, d, {d}, a, b), Fewer(c, d, a, b)
    PROVE  Does(c, after, d)
  BY Grown DEF Arrives, Does, Stays

(* The chains of an object in a cache.                                       *)
LEMMA ChainsOf ==
    ASSUME NEW c, WellFormed(c), NEW d \in Dbrefs
    PROVE  /\ Chain(d) \in Chains /\ ChainsOK(Act(c, d), Inact(c, d), Chain(d))
           /\ Size(c, Chain(d)) = Len(Act(c, d)) + Len(Inact(c, d))
           /\ Len(Act(c, d)) \in Nat /\ Len(Inact(c, d)) \in Nat
           /\ c.active[Chain(d)] = Act(c, d) /\ c.inactive[Chain(d)] = Inact(c, d)
<1>1. Chain(d) \in Chains
  BY ChainIsOne
<1>2. ChainsOK(Act(c, d), Inact(c, d), Chain(d))
  BY <1>1 DEF WellFormed, Act, Inact
<1>3. Size(c, Chain(d)) = Len(Act(c, d)) + Len(Inact(c, d))
  BY Zenon DEF Size, Act, Inact
<1>4. Len(Act(c, d)) \in Nat /\ Len(Inact(c, d)) \in Nat
  BY <1>2, LenProperties, Zenon DEF ChainsOK
<1> QED BY <1>1, <1>2, <1>3, <1>4, Zenon DEF Act, Inact

(* A holder of an active object changes.                                     *)
Edit(c, d, h) == [c EXCEPT !.active[Chain(d)][Index(Act(c, d), d)] = h]
Activity(c, after, d, h) ==
    /\ Does(c, after, d) /\ after.store = c.store /\ after.clean = c.clean
    /\ IsActive(after, d) /\ Holding(after, d) = h

LEMMA Edited ==
    ASSUME NEW c, WellFormed(c), NEW d \in Dbrefs, IsActive(c, d), NEW h \in Holder, h.dbref = d
    PROVE  Activity(c, Edit(c, d, h), d, h) /\ Index(Act(Edit(c, d, h), d), d) = Index(Act(c, d), d)
<1> PICK after : after = Edit(c, d, h)
  OBVIOUS
<1>0. PICK a : a = Put(Act(c, d), d, h)
  OBVIOUS
<1>1. ChainsOK(Act(c, d), Inact(c, d), Chain(d)) /\ Chain(d) \in Chains /\ d \in Named(Act(c, d))
  BY ChainsOf, IsActiveIs
<1>2. /\ a \in Seq(Holder) /\ Distinct(a) /\ Len(a) = Len(Act(c, d)) /\ Named(a) = Named(Act(c, d))
      /\ Of(a, d) = h /\ (\A e \in Named(Act(c, d)) : e # d => Of(a, e) = Of(Act(c, d), e))
      /\ Occupied(a) /\ Index(a, d) = Index(Act(c, d), d)
  <2>1. Act(c, d) \in Seq(Holder) /\ Distinct(Act(c, d)) /\ Occupied(Act(c, d))
    BY <1>1 DEF ChainsOK
  <2> QED BY <1>0, <1>1, <2>1, Replaced
<1>3. ChainsOK(a, Inact(c, d), Chain(d))
  BY <1>1, <1>2 DEF ChainsOK
<1>4. c \in Caches /\ Inact(c, d) = c.inactive[Chain(d)] /\ Inact(c, d) \in Seq(Holder)
  BY <1>1 DEF WellFormed, Inact, ChainsOK
<1>5. after = [c EXCEPT !.active[Chain(d)] = a]
  BY <1>0, Zenon DEF Act, Put, Edit
<1>6. Changes(c, after, Chain(d), a, Inact(c, d)) /\ after.store = c.store /\ after.clean = c.clean
  <2>1. after.active = [c.active EXCEPT ![Chain(d)] = a] /\ after.store = c.store /\ after.clean = c.clean
        /\ after.inactive = c.inactive
    BY <1>4, <1>5 DEF Caches
  <2>2. c.inactive = [c.inactive EXCEPT ![Chain(d)] = Inact(c, d)]
    BY <1>1, <1>4 DEF Caches
  <2>3. [c.active EXCEPT ![Chain(d)] = a] \in [Chains -> Seq(Holder)]
    BY <1>2, <1>4 DEF Caches
  <2>4. after = [active |-> after.active, inactive |-> c.inactive, store |-> c.store, clean |-> c.clean]
    BY <1>4, <1>5 DEF Caches
  <2>5. after \in Caches
    BY <1>4, <2>1, <2>3, <2>4 DEF Caches
  <2> QED BY <2>1, <2>2, <2>5, Zenon DEF Changes
<1>7. Others(Act(c, d), a, {d}) /\ Others(Inact(c, d), Inact(c, d), {d})
  BY <1>2 DEF Others
<1>8. Size(c, Chain(d)) = Len(a) + Len(Inact(c, d)) /\ Size(c, Chain(d)) \in Nat
  BY <1>1, <1>2, ChainsOf, SizeCounted, Zenon
<1>9. Does(c, after, d) /\ Act(after, d) = a
  <2>1. Fewer(c, d, a, Inact(c, d))
    BY <1>8 DEF Fewer
  <2>2. Marks(c, after) /\ \A e \in Dbrefs \ {d} : after.store[e] = c.store[e]
    BY <1>6 DEF Marks
  <2>3. Moves(c, after, d, {d}, a, Inact(c, d))
    BY <1>3, <1>6, <1>7, <2>2, Zenon DEF Moves
  <2>4. Arrives(c, after, d, {d}, a, Inact(c, d))
    BY <2>3, OthersSame
  <2> QED BY <2>1, <2>4, DoesOne DEF Arrives
<1>10. Activity(c, after, d, h)
  BY <1>1, <1>2, <1>6, <1>9, IsActiveIs DEF Does, Activity
<1> QED BY <1>2, <1>9, <1>10

Update(c, n, a, b) == [c EXCEPT !.inactive[n] = b, !.active[n] = a]
Updated(c, after, n, a, b) == Changes(c, after, n, a, b) /\ after.store = c.store /\ after.clean = c.clean

LEMMA TwoChains ==
    ASSUME NEW c \in Caches, NEW n \in Chains, NEW a \in Seq(Holder), NEW b \in Seq(Holder)
    PROVE  Updated(c, Update(c, n, a, b), n, a, b)
<1> PICK after : after = Update(c, n, a, b)
  OBVIOUS
<1>1. /\ after.active = [c.active EXCEPT ![n] = a] /\ after.inactive = [c.inactive EXCEPT ![n] = b]
      /\ after.store = c.store /\ after.clean = c.clean
  BY DEF Caches, Update
<1>2. [c.active EXCEPT ![n] = a] \in [Chains -> Seq(Holder)] /\ [c.inactive EXCEPT ![n] = b] \in [Chains -> Seq(Holder)]
  BY DEF Caches
<1>3. after = [active |-> after.active, inactive |-> after.inactive, store |-> c.store, clean |-> c.clean]
  BY DEF Caches, Update
<1>4. after \in Caches
  BY <1>1, <1>2, <1>3 DEF Caches
<1>5. Updated(c, after, n, a, b)
  BY <1>1, <1>4, Zenon DEF Changes, Updated
<1> QED BY <1>5

(* Writing a holder's object out.                                            *)
WrittenOut(c, after, h) ==
    /\ after \in Caches /\ after.active = c.active /\ after.inactive = c.inactive
    /\ after.clean = FALSE /\ after.store[h.dbref] = h.val
    /\ \A e \in Dbrefs : e # h.dbref => after.store[e] = c.store[e]

LEMMA DiskPutIs ==
    ASSUME NEW c \in Caches, NEW h \in Holder, h.dbref # -1
    PROVE  WrittenOut(c, DiskPut(c, h), h)
<1> PICK after : after = DiskPut(c, h)
  OBVIOUS
<1>1. h.dbref \in Dbrefs /\ h.val \in Images
  BY DEF Holder, Images
<1>2. /\ after.active = c.active /\ after.inactive = c.inactive /\ after.clean = FALSE
      /\ after.store = [c.store EXCEPT ![h.dbref] = h.val]
  BY DEF DiskPut, Caches
<1>3. after = [active |-> c.active, inactive |-> c.inactive, store |-> after.store, clean |-> FALSE]
  BY <1>2 DEF DiskPut, Caches
<1>4. [c.store EXCEPT ![h.dbref] = h.val] \in [Dbrefs -> Images]
  BY <1>1 DEF Caches
<1>5. after \in Caches
  BY <1>2, <1>3, <1>4 DEF Caches
<1>6. WrittenOut(c, after, h)
  BY <1>1, <1>2, <1>5 DEF Caches, WrittenOut
<1> QED BY <1>6

(* Nothing waits to be written out.                                          *)
Pristine(c) ==
    /\ c.clean
    /\ \A d \in Dbrefs : IsActive(c, d) => ~Holding(c, d).dirty
    /\ \A d \in Dbrefs : IsInactive(c, d) => ~Resting(c, d).dirty

(* The holder at the tail of the inactive chain, and what is left of it.     *)
Recycles(c, d) == LET in == Inact(c, d) IN in # <<>> /\ Last(in).dbref # -1 /\ Last(in).dirty
Recycled(c, d) == IF Recycles(c, d) THEN DiskPut(c, Last(Inact(c, d))) ELSE c
Rest(s) == IF s = <<>> THEN s ELSE Front(s)
Spare(s) == IF s = <<>> THEN {} ELSE {Last(s).dbref}
Fresh(s, d) == <<New(d)>> \o s

LEMMA GetHolderIs ==
    ASSUME NEW c, WellFormed(c), NEW d \in Dbrefs, ~IsActive(c, d), ~IsInactive(c, d),
           NEW after, after = GetHolder(c, d)
    PROVE  /\ Does(c, after, d) /\ IsActive(after, d) /\ Holding(after, d) = New(d)
           /\ Act(after, d) = Fresh(Act(c, d), d) /\ after.store[d] = c.store[d]
           /\ Pristine(c) => after.clean = c.clean
<1> PICK n : n = Chain(d)
  OBVIOUS
<1> PICK u : u = Act(c, d)
  OBVIOUS
<1> PICK w : w = Inact(c, d)
  OBVIOUS
<1> PICK base : base = Recycled(c, d)
  OBVIOUS
<1>1. /\ n \in Chains /\ ChainsOK(u, w, n) /\ c.active[n] = u /\ c.inactive[n] = w
      /\ Size(c, n) = Len(u) + Len(w) /\ Len(u) \in Nat /\ Len(w) \in Nat
      /\ d \notin Named(u) /\ d \notin Named(w) /\ c \in Caches
  BY ChainsOf, IsActiveIs, Zenon DEF WellFormed
<1>2. /\ u \in Seq(Holder) /\ Distinct(u) /\ Occupied(u) /\ w \in Seq(Holder) /\ Distinct(w)
  BY <1>1 DEF ChainsOK
<1> PICK a : a = Fresh(u, d)
  OBVIOUS
<1>3. /\ a \in Seq(Holder) /\ Distinct(a) /\ Len(a) = Len(u) + 1 /\ Named(a) = Named(u) \cup {d}
      /\ Of(a, d) = New(d) /\ (\A e \in Named(u) : Of(a, e) = Of(u, e)) /\ Occupied(a)
  <2>1. PICK h \in Holder : h = New(d) /\ h.dbref = d /\ d # -1
    BY HoldersThere
  <2>2. Longer(u, Ahead(h, u), h)
    BY <1>1, <1>2, <2>1, Pushed
  <2>3. a = Ahead(h, u)
    BY <2>1, Zenon DEF Ahead, Fresh
  <2>4. Longer(u, a, h)
    BY <2>2, <2>3, Zenon
  <2> QED BY <1>2, <2>1, <2>4, Zenon DEF Longer
<1> PICK b : b = Rest(w)
  OBVIOUS
<1>4. /\ b \in Seq(Holder) /\ Distinct(b) /\ Named(b) = Named(w) \ Spare(w)
      /\ \A e \in Named(b) : Of(b, e) = Of(w, e)
  <2>1. CASE w = <<>>
    BY <1>2, <2>1 DEF Rest, Spare
  <2>2. CASE w # <<>>
    <3>1. b = Front(w) /\ Spare(w) = {Last(w).dbref}
      BY <2>2 DEF Rest, Spare
    <3> QED BY <1>2, <2>2, <3>1, LastTaken, Zenon
  <2> QED BY <2>1, <2>2
<1>5. ChainsOK(a, b, n)
  BY <1>1, <1>3, <1>4 DEF ChainsOK
<1>6. Len(a) + Len(b) <= Size(c, n) \/ Len(a) + Len(b) <= Mine(n)
  <2>1. CASE w = <<>>
    <3>1. Len(b) = 0
      BY <2>1 DEF Rest
    <3>2. Len(a) <= Mine(n)
      BY <1>1, <1>3, <1>5, OccupiedAreFew DEF ChainsOK
    <3>3. Len(a) + Len(b) = Len(a)
      BY <1>1, <1>3, <3>1
    <3> QED BY <3>2, <3>3
  <2>2. CASE w # <<>>
    <3>1. Len(b) = Len(w) - 1
      BY <1>2, <2>2, LastTaken, Zenon DEF Rest
    <3> QED BY <1>1, <1>3, <3>1
  <2> QED BY <2>1, <2>2
<1>7. /\ base \in Caches /\ base.active = c.active /\ base.inactive = c.inactive /\ Marks(c, base)
      /\ \A e \in Dbrefs : e \notin Spare(w) => base.store[e] = c.store[e]
  <2>1. CASE Recycles(c, d)
    <3>1. w # <<>> /\ Last(w).dbref # -1 /\ Last(w) \in Holder /\ base = DiskPut(c, Last(w))
      BY <1>2, <2>1, LastTaken, Zenon DEF Recycles, Recycled
    <3>2. Spare(w) = {Last(w).dbref}
      BY <3>1 DEF Spare
    <3>3. /\ base \in Caches /\ base.active = c.active /\ base.inactive = c.inactive
          /\ base.clean = FALSE /\ \A e \in Dbrefs : e # Last(w).dbref => base.store[e] = c.store[e]
      <4>1. WrittenOut(c, DiskPut(c, Last(w)), Last(w))
        BY <1>1, <3>1, DiskPutIs
      <4> QED BY <3>1, <4>1, Zenon DEF WrittenOut
    <3> QED BY <3>2, <3>3 DEF Marks
  <2>2. CASE ~Recycles(c, d)
    BY <1>1, <2>2 DEF Recycled, Marks
  <2> QED BY <2>1, <2>2
<1>8. after = Update(base, n, a, b)
  <2>1. after = [base EXCEPT !.inactive[n] = b, !.active[n] = <<New(d)>> \o base.active[n]]
    BY Zenon DEF GetHolder, Recycled, Recycles, Rest
  <2>2. base.active[n] = u
    BY <1>1, <1>7
  <2> QED BY <2>1, <2>2, Zenon DEF Fresh, Update
<1>9. Changes(c, after, n, a, b) /\ after.store = base.store /\ after.clean = base.clean
  <2>1. Updated(base, after, n, a, b)
    <3>1. Updated(base, Update(base, n, a, b), n, a, b)
      BY <1>1, <1>3, <1>4, <1>7, TwoChains
    <3> QED BY <1>8, <3>1, Zenon
  <2> QED BY <1>7, <2>1, Zenon DEF Changes, Updated
<1>10. Moves(c, after, d, {d} \cup Spare(w), a, b)
  <2>1. Others(u, a, {d} \cup Spare(w)) /\ Others(w, b, {d} \cup Spare(w))
    BY <1>1, <1>3, <1>4 DEF Others
  <2>2. Marks(c, after) /\ \A e \in Dbrefs \ ({d} \cup Spare(w)) : after.store[e] = c.store[e]
    BY <1>7, <1>9 DEF Marks
  <2> QED BY <1>5, <1>9, <2>1, <2>2, Zenon DEF Moves
<1>11. /\ WellFormed(after) /\ Marks(c, after) /\ Grows(c, after) /\ Act(after, d) = a /\ Inact(after, d) = b
       /\ \A e \in Dbrefs \ ({d} \cup Spare(w)) : Same(c, after, e)
  <2>1. Arrives(c, after, d, {d} \cup Spare(w), a, b)
    BY <1>10, OthersSame
  <2>2. Fewer(c, d, a, b)
    BY <1>6, Zenon DEF Fewer
  <2>3. Grows(c, after)
    BY <2>1, <2>2, Grown
  <2> QED BY <2>1, <2>3, Zenon DEF Arrives
<1>12. ASSUME NEW e \in Dbrefs \ {d}, e \in Spare(w) PROVE SwappedOut(c, after, e)
  <2>1. w # <<>> /\ e = Last(w).dbref /\ Last(w) \in Holder /\ e # -1
    BY <1>2, <1>12, LastTaken, Constants DEF Spare
  <2>2. e \in Named(w) /\ Of(w, e) = Last(w)
    BY <1>2, <2>1, LastTaken, Zenon
  <2>3. Chain(e) = n /\ e \notin Named(u)
    BY <1>1, <2>2 DEF ChainsOK
  <2>4. Act(c, e) = u /\ Inact(c, e) = w /\ Act(after, e) = a /\ Inact(after, e) = b
    BY <1>11, <2>3 DEF Act, Inact
  <2>5. IsInactive(c, e) /\ ~IsActive(c, e) /\ Resting(c, e) = Last(w)
    BY <2>2, <2>3, <2>4, IsActiveIs DEF Resting
  <2>6. ~IsActive(after, e) /\ ~IsInactive(after, e)
    <3>1. e \notin Named(a) /\ e \notin Named(b)
      BY <1>3, <1>4, <1>12, <2>3
    <3> QED BY <1>11, <2>4, <3>1, IsActiveIs
  <2>7. Recycles(c, d) <=> Last(w).dirty
    BY <2>1, Zenon DEF Recycles
  <2>8. after.store[e] = IF Last(w).dirty THEN Last(w).val ELSE c.store[e]
    <3>1. CASE Recycles(c, d)
      <4>1. base = DiskPut(c, Last(w))
        BY <3>1, Zenon DEF Recycled
      <4>2. base.store[e] = Last(w).val
        <5>1. WrittenOut(c, DiskPut(c, Last(w)), Last(w))
          BY <1>1, <2>1, DiskPutIs
        <5> QED BY <2>1, <4>1, <5>1, Zenon DEF WrittenOut
      <4> QED BY <1>9, <2>7, <3>1, <4>2
    <3>2. CASE ~Recycles(c, d)
      BY <1>9, <2>7, <3>2 DEF Recycled
    <3> QED BY <3>1, <3>2
  <2> QED BY <2>5, <2>6, <2>8 DEF SwappedOut
<1>13. Does(c, after, d)
  BY <1>11, <1>12 DEF Does, Stays
<1>14. IsActive(after, d) /\ Holding(after, d) = New(d)
  BY <1>3, <1>11, IsActiveIs
<1>15. after.store[d] = c.store[d]
  <2>1. d \notin Spare(w)
    <3>1. CASE w = <<>>
      BY <3>1 DEF Spare
    <3>2. CASE w # <<>>
      BY <1>1, <1>2, <3>2, LastTaken, Constants DEF Spare
    <3> QED BY <3>1, <3>2
  <2> QED BY <1>7, <1>9, <2>1
<1>16. ASSUME Pristine(c) PROVE after.clean = c.clean
  <2>1. ~Recycles(c, d)
    <3> SUFFICES ASSUME Recycles(c, d) PROVE FALSE
      OBVIOUS
    <3>1. w # <<>> /\ Last(w).dbref # -1 /\ Last(w).dirty
      BY Zenon DEF Recycles
    <3>2. Last(w).dbref \in Named(w) /\ Of(w, Last(w).dbref) = Last(w) /\ Last(w) \in Holder
      BY <1>2, <3>1, LastTaken, Zenon
    <3>3. Last(w).dbref \in Dbrefs /\ Chain(Last(w).dbref) = n
      BY <1>1, <3>1, <3>2 DEF ChainsOK, Holder
    <3>4. Inact(c, Last(w).dbref) = w
      BY <3>3, Zenon DEF Inact
    <3>5. IsInactive(c, Last(w).dbref) /\ Resting(c, Last(w).dbref) = Last(w)
      BY <3>2, <3>3, <3>4, IsActiveIs DEF Resting
    <3>6. ~Resting(c, Last(w).dbref).dirty
      <4>1. \A e \in Dbrefs : IsInactive(c, e) => ~Resting(c, e).dirty
        BY <1>16 DEF Pristine
      <4> QED BY <3>3, <3>5, <4>1
    <3> QED BY <3>1, <3>5, <3>6, Zenon
  <2> QED BY <1>9, <2>1 DEF Recycled
<1> QED BY <1>11, <1>13, <1>14, <1>15, <1>16

(* An inactive holder becomes active, and the other way round; the holder of *)
(* a dying object leaves the chains, and comes back for another.             *)
Activate(c, d, h) == [c EXCEPT !.inactive[Chain(d)] = Without(Inact(c, d), d),
                               !.active[Chain(d)] = Ahead(h, Act(c, d))]

LEMMA Activated ==
    ASSUME NEW c, WellFormed(c), NEW d \in Dbrefs, IsInactive(c, d), NEW h \in Holder, h.dbref = d
    PROVE  Activity(c, Activate(c, d, h), d, h)
<1> PICK after : after = Activate(c, d, h)
  OBVIOUS
<1> PICK u : u = Act(c, d)
  OBVIOUS
<1> PICK w : w = Inact(c, d)
  OBVIOUS
<1> PICK a : a = Ahead(h, u)
  OBVIOUS
<1> PICK b : b = Without(w, d)
  OBVIOUS
<1>1. /\ Chain(d) \in Chains /\ ChainsOK(u, w, Chain(d)) /\ Size(c, Chain(d)) = Len(u) + Len(w)
      /\ Len(u) \in Nat /\ Len(w) \in Nat /\ d \in Named(w) /\ d # -1 /\ c \in Caches
  BY ChainsOf, IsActiveIs, Constants DEF WellFormed
<1>2. /\ u \in Seq(Holder) /\ Distinct(u) /\ Occupied(u) /\ w \in Seq(Holder) /\ Distinct(w) /\ d \notin Named(u)
  BY <1>1 DEF ChainsOK
<1>3. Longer(u, a, h)
  <2>1. Longer(u, Ahead(h, u), h)
    BY <1>1, <1>2, Pushed
  <2> QED BY <2>1
<1>4. Removes(w, b, d)
  <2>1. Removes(w, Without(w, d), d)
    BY <1>1, <1>2, Removed
  <2> QED BY <2>1
<1>5. /\ a \in Seq(Holder) /\ Distinct(a) /\ Len(a) = Len(u) + 1 /\ Named(a) = Named(u) \cup {d}
      /\ Of(a, d) = h /\ (\A e \in Named(u) : Of(a, e) = Of(u, e)) /\ Occupied(a)
  BY <1>2, <1>3 DEF Longer
<1>6. /\ b \in Seq(Holder) /\ Distinct(b) /\ Len(b) = Len(w) - 1 /\ Named(b) = Named(w) \ {d}
      /\ \A e \in Named(b) : Of(b, e) = Of(w, e)
  BY <1>4 DEF Removes, Shorter
<1>7. ChainsOK(a, b, Chain(d))
  BY <1>1, <1>5, <1>6 DEF ChainsOK
<1>8. Updated(c, after, Chain(d), a, b)
  <2>1. Updated(c, Update(c, Chain(d), a, b), Chain(d), a, b)
    BY <1>1, <1>5, <1>6, TwoChains
  <2>2. after = Update(c, Chain(d), a, b)
    BY Zenon DEF Update, Activate
  <2> QED BY <2>1, <2>2, Zenon
<1>9. Moves(c, after, d, {d}, a, b)
  <2>1. Others(u, a, {d}) /\ Others(w, b, {d})
    BY <1>5, <1>6 DEF Others
  <2>2. Marks(c, after) /\ \A e \in Dbrefs \ {d} : after.store[e] = c.store[e]
    BY <1>8 DEF Marks, Updated
  <2> QED BY <1>7, <1>8, <2>1, <2>2, Zenon DEF Moves, Updated
<1>10. Arrives(c, after, d, {d}, a, b)
  BY <1>9, OthersSame
<1>11. Fewer(c, d, a, b)
  BY <1>1, <1>5, <1>6 DEF Fewer
<1>12. Does(c, after, d)
  BY <1>10, <1>11, DoesOne
<1>13. Activity(c, after, d, h)
  BY <1>5, <1>8, <1>10, <1>12, IsActiveIs DEF Arrives, Updated, Activity
<1> QED BY <1>13

TakeOut(c, d) == [c EXCEPT !.active[Chain(d)] = Without(Act(c, d), d)]
Absence(c, after, d) ==
    /\ Does(c, after, d) /\ after.store = c.store /\ after.clean = c.clean
    /\ ~IsActive(after, d) /\ ~IsInactive(after, d)
    /\ Size(after, Chain(d)) = Size(c, Chain(d)) - 1

LEMMA TakenOut ==
    ASSUME NEW c, WellFormed(c), NEW d \in Dbrefs, IsActive(c, d)
    PROVE  Absence(c, TakeOut(c, d), d)
<1> PICK after : after = TakeOut(c, d)
  OBVIOUS
<1> PICK u : u = Act(c, d)
  OBVIOUS
<1> PICK w : w = Inact(c, d)
  OBVIOUS
<1> PICK a : a = Without(u, d)
  OBVIOUS
<1>1. /\ Chain(d) \in Chains /\ ChainsOK(u, w, Chain(d)) /\ Size(c, Chain(d)) = Len(u) + Len(w)
      /\ Len(u) \in Nat /\ Len(w) \in Nat /\ d \in Named(u) /\ d \notin Named(w) /\ c \in Caches
      /\ c.inactive[Chain(d)] = w
  BY ChainsOf, IsActiveIs, Constants DEF WellFormed
<1>2. u \in Seq(Holder) /\ Distinct(u) /\ Occupied(u) /\ w \in Seq(Holder) /\ Distinct(w)
  BY <1>1 DEF ChainsOK
<1>3. Removes(u, a, d)
  <2>1. Removes(u, Without(u, d), d)
    BY <1>1, <1>2, Removed
  <2> QED BY <2>1
<1>4. /\ a \in Seq(Holder) /\ Distinct(a) /\ Len(a) = Len(u) - 1 /\ Named(a) = Named(u) \ {d}
      /\ Occupied(a) /\ \A e \in Named(a) : Of(a, e) = Of(u, e)
  BY <1>2, <1>3 DEF Removes, Shorter
<1>5. ChainsOK(a, w, Chain(d))
  BY <1>1, <1>4 DEF ChainsOK
<1>6. Updated(c, after, Chain(d), a, w)
  <2>1. Updated(c, Update(c, Chain(d), a, w), Chain(d), a, w)
    BY <1>1, <1>2, <1>4, TwoChains
  <2>2. after = [c EXCEPT !.active[Chain(d)] = a]
    BY Zenon DEF TakeOut
  <2>3. [c EXCEPT !.active[Chain(d)] = a] = Update(c, Chain(d), a, w)
    <3>1. c.inactive = [c.inactive EXCEPT ![Chain(d)] = w]
      BY <1>1 DEF Caches
    <3>2. c = [c EXCEPT !.inactive[Chain(d)] = w]
      BY <1>1, <3>1 DEF Caches
    <3> QED BY <3>2, Zenon DEF Update
  <2> QED BY <2>1, <2>2, <2>3, Zenon
<1>7. Moves(c, after, d, {d}, a, w)
  <2>1. Others(u, a, {d}) /\ Others(w, w, {d})
    BY <1>4 DEF Others
  <2>2. Marks(c, after) /\ \A e \in Dbrefs \ {d} : after.store[e] = c.store[e]
    BY <1>6 DEF Marks, Updated
  <2> QED BY <1>5, <1>6, <2>1, <2>2, Zenon DEF Moves, Updated
<1>8. Arrives(c, after, d, {d}, a, w)
  BY <1>7, OthersSame
<1>9. Fewer(c, d, a, w)
  BY <1>1, <1>4 DEF Fewer
<1>10. Does(c, after, d)
  BY <1>8, <1>9, DoesOne
<1>11. ~IsActive(after, d) /\ ~IsInactive(after, d)
  BY <1>1, <1>4, <1>8, IsActiveIs DEF Arrives
<1>12. Absence(c, after, d)
  BY <1>1, <1>4, <1>6, <1>8, <1>10, <1>11 DEF Arrives, Updated, Absence
<1> QED BY <1>12

Deactivate(c, d, h) == [c EXCEPT !.active[Chain(d)] = Without(Act(c, d), d),
                                 !.inactive[Chain(d)] = Ahead(h, Inact(c, d))]
Inactivity(c, after, d, h) ==
    /\ Does(c, after, d) /\ after.store = c.store /\ after.clean = c.clean
    /\ ~IsActive(after, d) /\ IsInactive(after, d) /\ Resting(after, d) = h

LEMMA Deactivated ==
    ASSUME NEW c, WellFormed(c), NEW d \in Dbrefs, IsActive(c, d), NEW h \in Holder, h.dbref = d
    PROVE  Inactivity(c, Deactivate(c, d, h), d, h)
<1> PICK after : after = Deactivate(c, d, h)
  OBVIOUS
<1> PICK u : u = Act(c, d)
  OBVIOUS
<1> PICK w : w = Inact(c, d)
  OBVIOUS
<1> PICK a : a = Without(u, d)
  OBVIOUS
<1> PICK b : b = Ahead(h, w)
  OBVIOUS
<1>1. /\ Chain(d) \in Chains /\ ChainsOK(u, w, Chain(d)) /\ Size(c, Chain(d)) = Len(u) + Len(w)
      /\ Len(u) \in Nat /\ Len(w) \in Nat /\ d \in Named(u) /\ d \notin Named(w) /\ d # -1 /\ c \in Caches
  BY ChainsOf, IsActiveIs, Constants DEF WellFormed
<1>2. /\ u \in Seq(Holder) /\ Distinct(u) /\ Occupied(u) /\ w \in Seq(Holder) /\ Distinct(w)
  BY <1>1 DEF ChainsOK
<1>3. Removes(u, a, d)
  <2>1. Removes(u, Without(u, d), d)
    BY <1>1, <1>2, Removed
  <2> QED BY <2>1
<1>4. Longer(w, b, h)
  <2>1. Longer(w, Ahead(h, w), h)
    BY <1>1, <1>2, Pushed
  <2> QED BY <2>1
<1>5. /\ a \in Seq(Holder) /\ Distinct(a) /\ Len(a) = Len(u) - 1 /\ Named(a) = Named(u) \ {d}
      /\ Occupied(a) /\ \A e \in Named(a) : Of(a, e) = Of(u, e)
  BY <1>2, <1>3 DEF Removes, Shorter
<1>6. /\ b \in Seq(Holder) /\ Distinct(b) /\ Len(b) = Len(w) + 1 /\ Named(b) = Named(w) \cup {d}
      /\ Of(b, d) = h /\ (\A e \in Named(w) : Of(b, e) = Of(w, e))
  BY <1>2, <1>4 DEF Longer
<1>7. ChainsOK(a, b, Chain(d))
  BY <1>1, <1>5, <1>6 DEF ChainsOK
<1>8. Updated(c, after, Chain(d), a, b)
  <2>1. Updated(c, Update(c, Chain(d), a, b), Chain(d), a, b)
    BY <1>1, <1>5, <1>6, TwoChains
  <2>2. after = [c EXCEPT !.active[Chain(d)] = a, !.inactive[Chain(d)] = b]
    BY Zenon DEF Deactivate
  <2>3. [c EXCEPT !.active[Chain(d)] = a, !.inactive[Chain(d)] = b] = Update(c, Chain(d), a, b)
    BY <1>1 DEF Update, Caches
  <2> QED BY <2>1, <2>2, <2>3, Zenon
<1>9. Moves(c, after, d, {d}, a, b)
  <2>1. Others(u, a, {d}) /\ Others(w, b, {d})
    BY <1>5, <1>6 DEF Others
  <2>2. Marks(c, after) /\ \A e \in Dbrefs \ {d} : after.store[e] = c.store[e]
    BY <1>8 DEF Marks, Updated
  <2> QED BY <1>7, <1>8, <2>1, <2>2, Zenon DEF Moves, Updated
<1>10. Arrives(c, after, d, {d}, a, b)
  BY <1>9, OthersSame
<1>11. Fewer(c, d, a, b)
  BY <1>1, <1>5, <1>6 DEF Fewer
<1>12. Does(c, after, d)
  BY <1>10, <1>11, DoesOne
<1>13. ~IsActive(after, d) /\ IsInactive(after, d) /\ Resting(after, d) = h
  BY <1>5, <1>6, <1>10, IsActiveIs DEF Arrives, Resting
<1>14. Inactivity(c, after, d, h)
  BY <1>8, <1>12, <1>13 DEF Updated, Inactivity
<1> QED BY <1>14

Free(c, d, h) == [c EXCEPT !.inactive[Chain(d)] = Append(Inact(c, d), h)]
OneMore(c, after, d) ==
    /\ WellFormed(after) /\ after.store = c.store /\ after.clean = c.clean
    /\ \A e \in Dbrefs : Same(c, after, e)
    /\ Size(after, Chain(d)) = Size(c, Chain(d)) + 1
    /\ \A m \in Chains : m # Chain(d) => Size(after, m) = Size(c, m)

LEMMA Freed ==
    ASSUME NEW c, WellFormed(c), NEW d \in Dbrefs, NEW h \in Holder, h.dbref = -1
    PROVE  OneMore(c, Free(c, d, h), d)
<1> PICK after : after = Free(c, d, h)
  OBVIOUS
<1> PICK u : u = Act(c, d)
  OBVIOUS
<1> PICK w : w = Inact(c, d)
  OBVIOUS
<1> PICK b : b = Append(w, h)
  OBVIOUS
<1>1. /\ Chain(d) \in Chains /\ ChainsOK(u, w, Chain(d)) /\ Size(c, Chain(d)) = Len(u) + Len(w)
      /\ Len(u) \in Nat /\ Len(w) \in Nat /\ c \in Caches /\ c.active[Chain(d)] = u
  BY ChainsOf, Constants DEF WellFormed
<1>2. /\ u \in Seq(Holder) /\ w \in Seq(Holder) /\ Distinct(w)
  BY <1>1 DEF ChainsOK
<1>3. Ends(w, b)
  <2>1. Ends(w, Append(w, h))
    BY <1>2, Appended
  <2> QED BY <2>1
<1>4. /\ b \in Seq(Holder) /\ Distinct(b) /\ Len(b) = Len(w) + 1 /\ Named(b) = Named(w)
      /\ \A e \in Named(w) : Of(b, e) = Of(w, e)
  BY <1>3 DEF Ends
<1>5. ChainsOK(u, b, Chain(d))
  BY <1>1, <1>4 DEF ChainsOK
<1>6. Updated(c, after, Chain(d), u, b)
  <2>1. Updated(c, Update(c, Chain(d), u, b), Chain(d), u, b)
    BY <1>1, <1>2, <1>4, TwoChains
  <2>2. after = [c EXCEPT !.inactive[Chain(d)] = b]
    BY Zenon DEF Free
  <2>3. [c EXCEPT !.inactive[Chain(d)] = b] = Update(c, Chain(d), u, b)
    <3>1. c.active = [c.active EXCEPT ![Chain(d)] = u]
      BY <1>1 DEF Caches
    <3> QED BY <1>1, <3>1 DEF Caches, Update
  <2> QED BY <2>1, <2>2, <2>3, Zenon
<1>7. Moves(c, after, d, {}, u, b)
  <2>1. Others(u, u, {}) /\ Others(w, b, {})
    BY <1>4 DEF Others
  <2>2. Marks(c, after) /\ \A e \in Dbrefs \ {} : after.store[e] = c.store[e]
    BY <1>6 DEF Marks, Updated
  <2> QED BY <1>5, <1>6, <2>1, <2>2, Zenon DEF Moves, Updated
<1>8. Arrives(c, after, d, {}, u, b)
  BY <1>7, OthersSame
<1>9. \A e \in Dbrefs : Same(c, after, e)
  BY <1>8 DEF Arrives
<1>10. Size(after, Chain(d)) = Size(c, Chain(d)) + 1
  BY <1>1, <1>4, <1>8 DEF Arrives
<1>11. after.store = c.store /\ after.clean = c.clean
  BY <1>6, Zenon DEF Updated
<1>12. OneMore(c, after, d)
  BY <1>8, <1>9, <1>10, <1>11, Zenon DEF Arrives, OneMore
<1> QED BY <1>12

-----------------------------------------------------------------------------
(* cache_retrieve.                                                           *)
Retrieved(c, after, d) ==
    /\ Does(c, after, d) /\ after.store[d] = c.store[d] /\ (Pristine(c) => after.clean = c.clean)
    /\ IsActive(c, d) => IsActive(after, d) /\ Holding(after, d) = [Holding(c, d) EXCEPT !.refs = @ + 1]
    /\ IsInactive(c, d) => IsActive(after, d) /\ Holding(after, d) = [Resting(c, d) EXCEPT !.refs = 1]
    /\ ~IsActive(c, d) /\ ~IsInactive(c, d) /\ c.store[d] # NoObj =>
          IsActive(after, d) /\ Holding(after, d) = [New(d) EXCEPT !.val = c.store[d]]
    /\ ~IsActive(c, d) /\ ~IsInactive(c, d) /\ c.store[d] = NoObj => ~IsActive(after, d) /\ ~IsInactive(after, d)

LEMMA RetrievesActive ==
    ASSUME NEW c, WellFormed(c), NEW d \in Dbrefs, IsActive(c, d)
    PROVE  Retrieved(c, Retrieve(c, d), d)
<1> PICK after : after = Retrieve(c, d)
  OBVIOUS
<1>1. Holding(c, d) \in Holder /\ Holding(c, d).dbref = d /\ ~IsInactive(c, d)
  BY IsActiveIs
<1> PICK h : h = [Holding(c, d) EXCEPT !.refs = @ + 1]
  OBVIOUS
<1>2. h \in Holder /\ h.dbref = d
  BY <1>1 DEF Holder
<1>3. after = Edit(c, d, h)
  BY Zenon DEF Retrieve, IsActive, Holding, Act, Edit
<1>4. Activity(c, Edit(c, d, h), d, h)
  BY <1>2, Edited
<1>5. Activity(c, after, d, h)
  BY <1>3, <1>4, Zenon
<1> QED BY <1>1, <1>5, Zenon DEF Retrieved, Activity

LEMMA RetrievesInactive ==
    ASSUME NEW c, WellFormed(c), NEW d \in Dbrefs, IsInactive(c, d)
    PROVE  Retrieved(c, Retrieve(c, d), d)
<1> PICK after : after = Retrieve(c, d)
  OBVIOUS
<1>1. Resting(c, d) \in Holder /\ Resting(c, d).dbref = d /\ ~IsActive(c, d)
  BY IsActiveIs
<1> PICK h : h = [Resting(c, d) EXCEPT !.refs = 1]
  OBVIOUS
<1>2. h \in Holder /\ h.dbref = d
  BY <1>1 DEF Holder
<1>3. after = Activate(c, d, h)
  <2>1. Index(Act(c, d), d) = 0 /\ Index(Inact(c, d), d) # 0
    BY <1>1, Zenon DEF IsActive, IsInactive
  <2>2. after = [c EXCEPT !.inactive[Chain(d)] = RemoveAt(c.inactive[Chain(d)], Index(Inact(c, d), d)),
                          !.active[Chain(d)] = <<[Inact(c, d)[Index(Inact(c, d), d)] EXCEPT !.refs = 1]>> \o c.active[Chain(d)]]
    BY <2>1, Zenon DEF Retrieve
  <2> QED BY <2>2, Zenon DEF Act, Inact, Resting, Of, Without, Ahead, Activate
<1>4. Activity(c, Activate(c, d, h), d, h)
  BY <1>2, Activated
<1>5. Activity(c, after, d, h)
  BY <1>3, <1>4, Zenon
<1> QED BY <1>1, <1>5, Zenon DEF Retrieved, Activity

LEMMA IndexFresh ==
    ASSUME NEW s \in Seq(Holder), Distinct(s), NEW d \in Dbrefs, d \notin Named(s)
    PROVE  Longer(s, Fresh(s, d), New(d)) /\ Index(Fresh(s, d), d) = 1 /\ New(d).dbref = d
<1>1. PICK h \in Holder : h = New(d) /\ h.dbref = d /\ d # -1
  BY HoldersThere
<1>2. Longer(s, Ahead(h, s), h)
  BY <1>1, Pushed
<1>3. Longer(s, Fresh(s, d), h)
  BY <1>1, <1>2, Zenon DEF Ahead, Fresh
<1>4. Index(Fresh(s, d), d) = 1
  <2> PICK t : t = Fresh(s, d)
    OBVIOUS
  <2>1. t \in Seq(Holder) /\ Distinct(t) /\ t[1] = h /\ Len(t) = Len(s) + 1
    BY <1>3, Zenon DEF Longer
  <2>2. 1 \in DOMAIN t
    BY <2>1
  <2> QED BY <1>1, <2>1, <2>2, OfIs
<1> QED BY <1>1, <1>3, <1>4

LEMMA RetrievesStored ==
    ASSUME NEW c, WellFormed(c), NEW d \in Dbrefs, ~IsActive(c, d), ~IsInactive(c, d), c.store[d] # NoObj
    PROVE  Retrieved(c, Retrieve(c, d), d)
<1> PICK after : after = Retrieve(c, d)
  OBVIOUS
<1> PICK miss : miss = GetHolder(c, d)
  OBVIOUS
<1>1. /\ Does(c, miss, d) /\ IsActive(miss, d) /\ Holding(miss, d) = New(d)
      /\ Act(miss, d) = Fresh(Act(c, d), d) /\ miss.store[d] = c.store[d] /\ WellFormed(miss)
      /\ Pristine(c) => miss.clean = c.clean
  BY GetHolderIs DEF Does
<1>2. Index(Act(miss, d), d) = 1
  <2>1. Act(c, d) \in Seq(Holder) /\ Distinct(Act(c, d)) /\ d \notin Named(Act(c, d))
    BY ChainsOf, IsActiveIs DEF ChainsOK
  <2> QED BY <1>1, <2>1, IndexFresh, Zenon
<1> PICK h : h = [New(d) EXCEPT !.val = c.store[d]]
  OBVIOUS
<1>3. h \in Holder /\ h.dbref = d
  BY Constants DEF New, Holder, WellFormed, Caches, Images
<1>4. after = Edit(miss, d, h)
  <2>1. after = [miss EXCEPT !.active[Chain(d)][1].val = miss.store[d]]
    BY <1>1, Zenon DEF Retrieve, IsActive, IsInactive
  <2>2. after = [miss EXCEPT !.active[Chain(d)][1] = [miss.active[Chain(d)][1] EXCEPT !.val = miss.store[d]]]
    BY <2>1, Zenon
  <2>3. miss.active[Chain(d)][1] = New(d)
    BY <1>1, <1>2, Zenon DEF Holding, Act
  <2> QED BY <1>1, <1>2, <2>2, <2>3, Zenon DEF Edit
<1>5. Does(miss, after, d) /\ after.store = miss.store /\ after.clean = miss.clean /\ IsActive(after, d) /\ Holding(after, d) = h
  <2>1. Activity(miss, Edit(miss, d, h), d, h)
    BY <1>1, <1>3, Edited
  <2> QED BY <1>4, <2>1, Zenon DEF Activity
<1>6. Does(c, after, d)
  BY <1>1, <1>5, DoesTwice
<1> QED BY <1>1, <1>5, <1>6, Zenon DEF Retrieved

LEMMA RetrievesNothing ==
    ASSUME NEW c, WellFormed(c), NEW d \in Dbrefs, ~IsActive(c, d), ~IsInactive(c, d), c.store[d] = NoObj
    PROVE  Retrieved(c, Retrieve(c, d), d)
<1> PICK after : after = Retrieve(c, d)
  OBVIOUS
<1> PICK miss : miss = GetHolder(c, d)
  OBVIOUS
<1>1. /\ Does(c, miss, d) /\ IsActive(miss, d) /\ Holding(miss, d) = New(d)
      /\ Act(miss, d) = Fresh(Act(c, d), d) /\ miss.store[d] = c.store[d] /\ WellFormed(miss)
      /\ Pristine(c) => miss.clean = c.clean
  BY GetHolderIs DEF Does
<1> PICK n : n = Chain(d)
  OBVIOUS
<1> PICK a : a = Act(c, d)
  OBVIOUS
<1> PICK u : u = Act(miss, d)
  OBVIOUS
<1> PICK w : w = Inact(miss, d)
  OBVIOUS
<1> PICK b : b = Append(w, Empty)
  OBVIOUS
<1>2. a \in Seq(Holder) /\ Distinct(a) /\ Occupied(a) /\ d \notin Named(a) /\ Len(a) \in Nat
  BY ChainsOf, IsActiveIs DEF ChainsOK
<1>3. Longer(a, u, New(d)) /\ New(d).dbref = d
  BY <1>1, <1>2, IndexFresh, Zenon
<1>4. /\ u \in Seq(Holder) /\ Len(u) = Len(a) + 1 /\ Named(u) = Named(a) \cup {d} /\ Tail(u) = a
      /\ \A e \in Named(a) : Of(u, e) = Of(a, e)
  BY <1>3, Zenon DEF Longer
<1>5. /\ n \in Chains /\ ChainsOK(u, w, n) /\ Size(miss, n) = Len(u) + Len(w) /\ Len(w) \in Nat /\ miss \in Caches
  BY <1>1, ChainsOf DEF WellFormed
<1>6. w \in Seq(Holder) /\ Distinct(w)
  BY <1>5 DEF ChainsOK
<1>7. /\ b \in Seq(Holder) /\ Distinct(b) /\ Len(b) = Len(w) + 1 /\ Named(b) = Named(w)
      /\ \A e \in Named(w) : Of(b, e) = Of(w, e)
  <2>1. Ends(w, Append(w, Empty))
    BY <1>6, HoldersThere, Appended
  <2> QED BY <2>1, Zenon DEF Ends
<1>8. ChainsOK(a, b, n)
  BY <1>2, <1>4, <1>5, <1>7 DEF ChainsOK
<1>9. Updated(miss, after, n, a, b)
  <2>1. Updated(miss, Update(miss, n, a, b), n, a, b)
    BY <1>2, <1>5, <1>7, TwoChains
  <2>2. after = [miss EXCEPT !.active[n] = Tail(miss.active[n]), !.inactive[n] = Append(miss.inactive[n], Empty)]
    BY <1>1, Zenon DEF Retrieve, IsActive, IsInactive
  <2>3. Tail(miss.active[n]) = a /\ Append(miss.inactive[n], Empty) = b
    BY <1>4, Zenon DEF Act, Inact
  <2>4. after = [miss EXCEPT !.active[n] = a, !.inactive[n] = b]
    BY <2>2, <2>3, Zenon
  <2>5. [miss EXCEPT !.active[n] = a, !.inactive[n] = b] = Update(miss, n, a, b)
    BY <1>5 DEF Update, Caches
  <2> QED BY <2>1, <2>4, <2>5, Zenon
<1>10. Moves(miss, after, d, {d}, a, b)
  <2>1. Others(u, a, {d}) /\ Others(w, b, {d})
    BY <1>2, <1>4, <1>7 DEF Others
  <2>2. Marks(miss, after) /\ \A e \in Dbrefs \ {d} : after.store[e] = miss.store[e]
    BY <1>9 DEF Marks, Updated
  <2> QED BY <1>8, <1>9, <2>1, <2>2, Zenon DEF Moves, Updated
<1>11. Arrives(miss, after, d, {d}, a, b)
  BY <1>1, <1>10, OthersSame
<1>12. Fewer(miss, d, a, b)
  BY <1>2, <1>4, <1>5, <1>7 DEF Fewer
<1>13. Does(miss, after, d)
  BY <1>1, <1>11, <1>12, DoesOne
<1>14. Does(c, after, d)
  BY <1>1, <1>13, DoesTwice
<1>15. ~IsActive(after, d) /\ ~IsInactive(after, d)
  <2>1. WellFormed(after) /\ Act(after, d) = a /\ Inact(after, d) = b
    BY <1>11, Zenon DEF Arrives
  <2>2. d \notin Named(b)
    BY <1>4, <1>5, <1>7 DEF ChainsOK
  <2> QED BY <1>2, <2>1, <2>2, IsActiveIs
<1>16. after.store[d] = c.store[d] /\ (Pristine(c) => after.clean = c.clean)
  BY <1>1, <1>9 DEF Updated
<1> QED BY <1>14, <1>15, <1>16, Zenon DEF Retrieved

LEMMA RetrieveIs ==
    ASSUME NEW c, WellFormed(c), NEW d \in Dbrefs
    PROVE  Retrieved(c, Retrieve(c, d), d)
  BY RetrievesActive, RetrievesInactive, RetrievesStored, RetrievesNothing, Zenon

-----------------------------------------------------------------------------
(* What the cache and its store have of an object: the references to it, its *)
(* value, and whether it is about to die.  Of an object that was changed     *)
(* with no mark an older value than the last may be there, but never an      *)
(* object too many or too few.                                               *)
Keeps(c, d, h, v) == v # NoObj /\ Agrees(h.val, v) /\ (~h.dirty => Agrees(c.store[d], v))

Fits(c, d, r, v, doomed) ==
    /\ IsActive(c, d) => /\ Holding(c, d).refs = r /\ r > 0 /\ (Holding(c, d).dead <=> doomed)
                         /\ Keeps(c, d, Holding(c, d), v)
    /\ ~IsActive(c, d) => r = 0 /\ ~doomed
    /\ IsInactive(c, d) => ~Resting(c, d).dead /\ Keeps(c, d, Resting(c, d), v)
    /\ ~IsActive(c, d) /\ ~IsInactive(c, d) => Agrees(c.store[d], v)

Tracks(c, refs, objs, doomed) ==
    /\ WellFormed(c)
    /\ refs \in [Dbrefs -> Nat] /\ objs \in [Dbrefs -> Records] /\ doomed \subseteq Dbrefs
    /\ \A d \in Dbrefs : Fits(c, d, refs[d], objs[d], d \in doomed)

Bounded(c) == \A n \in Chains : Size(c, n) <= CACHE_DEPTH \/ Size(c, n) <= Mine(n) + 1

LEMMA RecordsAre ==
    /\ Images \subseteq Records /\ NoObj \in Images
    /\ \A x \in Images : x \notin Unvouched
    /\ \A v \in Values : v # NoObj /\ <<v>> \in Records /\ <<v>> \in Unvouched /\ <<v>> # NoObj
<1>1. NoObj \notin Values /\ Images \cap Unvouched = {}
  BY CacheAssumption DEF Images, Unvouched
<1> QED BY <1>1 DEF Images, Records, Unvouched

LEMMA AgreesMeans ==
    ASSUME NEW x, NEW v, Agrees(x, v) PROVE x = NoObj <=> v = NoObj
  BY RecordsAre DEF Agrees

LEMMA AgreesSelf ==
    ASSUME NEW v \in Images PROVE Agrees(v, v)
  BY RecordsAre DEF Agrees

(* What is stored in an object that is not dirty leaves it as it is on disk. *)
LEMMA AgreesBare ==
    ASSUME NEW v \in Values, NEW x, x # NoObj PROVE Agrees(x, <<v>>)
  BY RecordsAre DEF Agrees

LEMMA ExistsIs ==
    ASSUME NEW c, NEW refs, NEW objs, NEW doomed, Tracks(c, refs, objs, doomed), NEW d \in Dbrefs
    PROVE  Exists(c, d) <=> objs[d] # NoObj
<1>1. Fits(c, d, refs[d], objs[d], d \in doomed)
  BY DEF Tracks
<1>2. IsActive(c, d) \/ IsInactive(c, d) => objs[d] # NoObj
  BY <1>1 DEF Fits, Keeps
<1>3. ~IsActive(c, d) /\ ~IsInactive(c, d) => (c.store[d] = NoObj <=> objs[d] = NoObj)
  BY <1>1, AgreesMeans DEF Fits
<1> QED BY <1>2, <1>3 DEF Exists

LEMMA FitsKept ==
    ASSUME NEW c, NEW after, NEW d \in Dbrefs, Stays(c, after, d),
           NEW r, NEW v, NEW doomed, Fits(c, d, r, v, doomed)
    PROVE  Fits(after, d, r, v, doomed)
<1>1. CASE Same(c, after, d)
  <2>1. /\ IsActive(after, d) <=> IsActive(c, d)
        /\ IsInactive(after, d) <=> IsInactive(c, d)
        /\ IsActive(c, d) => Holding(after, d) = Holding(c, d)
        /\ IsInactive(c, d) => Resting(after, d) = Resting(c, d)
        /\ after.store[d] = c.store[d]
    BY <1>1, Zenon DEF Same
  <2> QED BY <2>1 DEF Fits, Keeps
<1>2. CASE SwappedOut(c, after, d)
  <2>1. /\ IsInactive(c, d) /\ ~IsActive(c, d)
        /\ ~IsActive(after, d) /\ ~IsInactive(after, d)
        /\ after.store[d] = IF Resting(c, d).dirty THEN Resting(c, d).val ELSE c.store[d]
    BY <1>2, Zenon DEF SwappedOut
  <2>2. r = 0 /\ ~doomed /\ Keeps(c, d, Resting(c, d), v)
    BY <2>1 DEF Fits
  <2>3. Agrees(after.store[d], v)
    BY <2>1, <2>2 DEF Keeps
  <2> QED BY <2>1, <2>2, <2>3 DEF Fits
<1> QED BY <1>1, <1>2 DEF Stays

At(f, d, x) == [f EXCEPT ![d] = x]
Flag(S, d, x) == IF x THEN S \cup {d} ELSE S \ {d}

(* An operation leads to a cache that tracks these.                          *)
Leads(c, after, refs, objs, doomed) ==
    Tracks(after, refs, objs, doomed) /\ Marks(c, after) /\ Grows(c, after)

LEMMA TracksOne ==
    ASSUME NEW c, NEW refs, NEW objs, NEW doomed, Tracks(c, refs, objs, doomed),
           NEW d \in Dbrefs, NEW after, Does(c, after, d),
           NEW r \in Nat, NEW v \in Records, NEW x \in BOOLEAN, Fits(after, d, r, v, x)
    PROVE  Leads(c, after, At(refs, d, r), At(objs, d, v), Flag(doomed, d, x))
<1>1. /\ WellFormed(c) /\ refs \in [Dbrefs -> Nat] /\ objs \in [Dbrefs -> Records] /\ doomed \subseteq Dbrefs
      /\ \A e \in Dbrefs : Fits(c, e, refs[e], objs[e], e \in doomed)
  BY DEF Tracks
<1>2. At(refs, d, r) \in [Dbrefs -> Nat] /\ At(objs, d, v) \in [Dbrefs -> Records] /\ Flag(doomed, d, x) \subseteq Dbrefs
  BY <1>1 DEF At, Flag
<1>3. /\ At(refs, d, r)[d] = r /\ At(objs, d, v)[d] = v /\ (d \in Flag(doomed, d, x)) = x
      /\ \A e \in Dbrefs \ {d} : At(refs, d, r)[e] = refs[e] /\ At(objs, d, v)[e] = objs[e]
      /\ \A e \in Dbrefs \ {d} : (e \in Flag(doomed, d, x)) = (e \in doomed)
  BY <1>1 DEF At, Flag
<1>4. ASSUME NEW e \in Dbrefs
      PROVE  Fits(after, e, At(refs, d, r)[e], At(objs, d, v)[e], e \in Flag(doomed, d, x))
  <2>1. CASE e = d
    BY <1>3, <2>1
  <2>2. CASE e # d
    <3>1. Stays(c, after, e)
      BY <2>2 DEF Does
    <3>2. Fits(c, e, refs[e], objs[e], e \in doomed)
      BY <1>1
    <3>3. Fits(after, e, refs[e], objs[e], e \in doomed)
      BY <3>1, <3>2, FitsKept
    <3> QED BY <1>3, <2>2, <3>3
  <2> QED BY <2>1, <2>2
<1>5. WellFormed(after) /\ Marks(c, after) /\ Grows(c, after)
  BY DEF Does
<1> QED BY <1>2, <1>4, <1>5 DEF Tracks, Leads

LEMMA TracksAbout ==
    ASSUME NEW c, NEW refs, NEW objs, NEW doomed, Tracks(c, refs, objs, doomed),
           NEW d \in Dbrefs, NEW after, Does(c, after, d),
           NEW r \in Nat, NEW v \in Records, Fits(after, d, r, v, d \in doomed)
    PROVE  Leads(c, after, At(refs, d, r), At(objs, d, v), doomed)
<1>1. CASE d \in doomed
  <2>1. Fits(after, d, r, v, TRUE)
    BY <1>1 DEF Fits
  <2>2. Leads(c, after, At(refs, d, r), At(objs, d, v), Flag(doomed, d, TRUE))
    BY <2>1, TracksOne
  <2>3. Flag(doomed, d, TRUE) = doomed
    BY <1>1 DEF Flag
  <2> QED BY <2>2, <2>3, Zenon
<1>2. CASE d \notin doomed
  <2>1. Fits(after, d, r, v, FALSE)
    BY <1>2 DEF Fits
  <2>2. Leads(c, after, At(refs, d, r), At(objs, d, v), Flag(doomed, d, FALSE))
    BY <2>1, TracksOne
  <2>3. Flag(doomed, d, FALSE) = doomed
    BY <1>2 DEF Flag
  <2> QED BY <2>2, <2>3, Zenon
<1> QED BY <1>1, <1>2

LEMMA FitsOf ==
    ASSUME NEW c, NEW refs, NEW objs, NEW doomed, Tracks(c, refs, objs, doomed), NEW d \in Dbrefs
    PROVE  /\ WellFormed(c) /\ Fits(c, d, refs[d], objs[d], d \in doomed)
           /\ refs[d] \in Nat /\ objs[d] \in Records
           /\ At(refs, d, refs[d]) = refs /\ At(objs, d, objs[d]) = objs /\ Flag(doomed, d, d \in doomed) = doomed
<1>1. /\ WellFormed(c) /\ refs \in [Dbrefs -> Nat] /\ objs \in [Dbrefs -> Records]
      /\ Fits(c, d, refs[d], objs[d], d \in doomed)
  BY DEF Tracks
<1>2. At(refs, d, refs[d]) = refs
  BY <1>1 DEF At
<1>3. At(objs, d, objs[d]) = objs
  BY <1>1 DEF At
<1>4. Flag(doomed, d, d \in doomed) = doomed
  BY DEF Flag
<1> QED BY <1>1, <1>2, <1>3, <1>4

LEMMA TracksRefs ==
    ASSUME NEW c, NEW refs, NEW objs, NEW doomed, Tracks(c, refs, objs, doomed),
           NEW d \in Dbrefs, NEW after, Does(c, after, d),
           NEW r \in Nat, Fits(after, d, r, objs[d], d \in doomed)
    PROVE  Leads(c, after, At(refs, d, r), objs, doomed)
<1>1. objs[d] \in Records /\ At(objs, d, objs[d]) = objs
  BY FitsOf
<1>2. Leads(c, after, At(refs, d, r), At(objs, d, objs[d]), doomed)
  BY <1>1, TracksAbout
<1> QED BY <1>1, <1>2, Zenon

LEMMA LeadsTwice ==
    ASSUME NEW c, WellFormed(c), NEW b, NEW r, NEW o, NEW x, Leads(c, b, r, o, x),
           NEW after, NEW refs, NEW objs, NEW doomed, Leads(b, after, refs, objs, doomed)
    PROVE  Leads(c, after, refs, objs, doomed)
<1>1. WellFormed(b) /\ WellFormed(after) /\ Grows(c, b) /\ Grows(b, after) /\ Marks(c, b) /\ Marks(b, after)
  BY DEF Leads, Tracks
<1>2. Grows(c, after)
  BY <1>1, GrowsTwice
<1>3. Marks(c, after)
  BY <1>1, MarksTwice
<1> QED BY <1>2, <1>3 DEF Leads

(* What all operations promise, those that free a holder included.           *)
Brings(c, after, refs, objs, doomed) ==
    Tracks(after, refs, objs, doomed) /\ Marks(c, after) /\ (Bounded(c) => Bounded(after))

LEMMA LeadsBrings ==
    ASSUME NEW c, WellFormed(c), NEW after, NEW refs, NEW objs, NEW doomed, Leads(c, after, refs, objs, doomed)
    PROVE  Brings(c, after, refs, objs, doomed)
<1>1. Marks(c, after) /\ Grows(c, after) /\ WellFormed(after)
  BY DEF Leads, Tracks
<1>2. ASSUME Bounded(c), NEW n \in Chains
      PROVE  Size(after, n) <= CACHE_DEPTH \/ Size(after, n) <= Mine(n) + 1
  <2>1. Size(after, n) <= Size(c, n) \/ Size(after, n) <= Mine(n)
    BY <1>1 DEF Grows
  <2>2. Size(c, n) <= CACHE_DEPTH \/ Size(c, n) <= Mine(n) + 1
    BY <1>2 DEF Bounded
  <2>3. Size(c, n) \in Nat /\ Size(after, n) \in Nat /\ Mine(n) \in Nat /\ CACHE_DEPTH \in Nat
    BY <1>1, SizeCounted, MineCounted, Constants
  <2> QED BY <2>1, <2>2, <2>3
<1>3. Bounded(c) => Bounded(after)
  BY <1>2 DEF Bounded
<1> QED BY <1>3 DEF Leads, Brings

LEMMA BringsTwice ==
    ASSUME NEW c, NEW b, NEW r, NEW o, NEW x, Brings(c, b, r, o, x),
           NEW after, NEW refs, NEW objs, NEW doomed, Brings(b, after, refs, objs, doomed)
    PROVE  Brings(c, after, refs, objs, doomed)
  BY DEF Brings, Marks

(* What each function does to what is tracked.                               *)
LEMMA RetrieveTracks ==
    ASSUME NEW c, NEW refs, NEW objs, NEW doomed, Tracks(c, refs, objs, doomed), NEW d \in Dbrefs
    PROVE  /\ objs[d] # NoObj => Leads(c, Retrieve(c, d), At(refs, d, refs[d] + 1), objs, doomed)
           /\ objs[d] = NoObj => Leads(c, Retrieve(c, d), refs, objs, doomed)
<1> PICK after : after = Retrieve(c, d)
  OBVIOUS
<1>1. /\ WellFormed(c) /\ Fits(c, d, refs[d], objs[d], d \in doomed)
      /\ refs[d] \in Nat /\ At(refs, d, refs[d]) = refs
  BY FitsOf
<1>2. Retrieved(c, after, d)
  BY <1>1, RetrieveIs
<1>3. Does(c, after, d) /\ after.store[d] = c.store[d] /\ WellFormed(after)
  BY <1>2, Zenon DEF Retrieved, Does
<1>4. ASSUME objs[d] # NoObj PROVE Fits(after, d, refs[d] + 1, objs[d], d \in doomed)
  <2>1. CASE IsActive(c, d)
    <3>1. IsActive(after, d) /\ Holding(after, d) = [Holding(c, d) EXCEPT !.refs = @ + 1] /\ Holding(c, d) \in Holder
      BY <1>1, <1>2, <2>1, IsActiveIs, Zenon DEF Retrieved
    <3>2. /\ Holding(after, d).refs = Holding(c, d).refs + 1 /\ Holding(after, d).val = Holding(c, d).val
          /\ Holding(after, d).dirty = Holding(c, d).dirty /\ Holding(after, d).dead = Holding(c, d).dead
      BY <3>1 DEF Holder
    <3>3. /\ Holding(c, d).refs = refs[d] /\ (Holding(c, d).dead <=> d \in doomed)
          /\ Keeps(c, d, Holding(c, d), objs[d])
      BY <1>1, <2>1 DEF Fits
    <3>4. Keeps(after, d, Holding(after, d), objs[d])
      BY <1>3, <3>2, <3>3 DEF Keeps
    <3>5. ~IsInactive(after, d)
      BY <1>3, <3>1, IsActiveIs
    <3> QED BY <1>1, <3>1, <3>2, <3>3, <3>4, <3>5 DEF Fits
  <2>2. CASE IsInactive(c, d)
    <3>1. /\ IsActive(after, d) /\ Holding(after, d) = [Resting(c, d) EXCEPT !.refs = 1]
          /\ Resting(c, d) \in Holder /\ ~IsActive(c, d)
      BY <1>1, <1>2, <2>2, IsActiveIs DEF Retrieved
    <3>2. /\ Holding(after, d).refs = 1 /\ Holding(after, d).val = Resting(c, d).val
          /\ Holding(after, d).dirty = Resting(c, d).dirty /\ Holding(after, d).dead = Resting(c, d).dead
      BY <3>1 DEF Holder
    <3>3. refs[d] = 0 /\ d \notin doomed /\ ~Resting(c, d).dead /\ Keeps(c, d, Resting(c, d), objs[d])
      BY <1>1, <2>2, <3>1 DEF Fits
    <3>4. Keeps(after, d, Holding(after, d), objs[d])
      BY <1>3, <3>2, <3>3 DEF Keeps
    <3>5. ~IsInactive(after, d)
      BY <1>3, <3>1, IsActiveIs
    <3> QED BY <3>1, <3>2, <3>3, <3>4, <3>5 DEF Fits
  <2>3. CASE ~IsActive(c, d) /\ ~IsInactive(c, d)
    <3>1. refs[d] = 0 /\ d \notin doomed /\ Agrees(c.store[d], objs[d]) /\ c.store[d] # NoObj
      BY <1>1, <1>4, <2>3, AgreesMeans DEF Fits
    <3>2. IsActive(after, d) /\ Holding(after, d) = [New(d) EXCEPT !.val = c.store[d]]
      BY <1>2, <2>3, <3>1, Zenon DEF Retrieved
    <3>3. /\ Holding(after, d).refs = 1 /\ Holding(after, d).val = c.store[d]
          /\ Holding(after, d).dirty = FALSE /\ Holding(after, d).dead = FALSE
      BY <3>2 DEF New
    <3>4. Keeps(after, d, Holding(after, d), objs[d])
      BY <1>3, <1>4, <3>1, <3>3 DEF Keeps
    <3>5. ~IsInactive(after, d)
      BY <1>3, <3>2, IsActiveIs
    <3> QED BY <3>1, <3>2, <3>3, <3>4, <3>5 DEF Fits
  <2> QED BY <2>1, <2>2, <2>3
<1>5. ASSUME objs[d] = NoObj PROVE Fits(after, d, refs[d], objs[d], d \in doomed)
  <2>1. ~IsActive(c, d) /\ ~IsInactive(c, d)
    BY <1>1, <1>5 DEF Fits, Keeps
  <2>2. refs[d] = 0 /\ d \notin doomed /\ Agrees(c.store[d], objs[d]) /\ c.store[d] = NoObj
    BY <1>1, <1>5, <2>1, AgreesMeans DEF Fits
  <2>3. ~IsActive(after, d) /\ ~IsInactive(after, d)
    BY <1>2, <2>1, <2>2, Zenon DEF Retrieved
  <2> QED BY <1>3, <2>2, <2>3 DEF Fits
<1>6. refs[d] + 1 \in Nat
  BY <1>1
<1>7. ASSUME objs[d] # NoObj PROVE Leads(c, after, At(refs, d, refs[d] + 1), objs, doomed)
  BY <1>3, <1>4, <1>6, <1>7, TracksRefs
<1>8. ASSUME objs[d] = NoObj PROVE Leads(c, after, refs, objs, doomed)
  <2>1. Leads(c, after, At(refs, d, refs[d]), objs, doomed)
    BY <1>1, <1>3, <1>5, <1>8, TracksRefs
  <2> QED BY <1>1, <2>1, Zenon
<1> QED BY <1>7, <1>8, Zenon

LEMMA EditTracks ==
    ASSUME NEW c, NEW refs, NEW objs, NEW doomed, Tracks(c, refs, objs, doomed), NEW d \in Dbrefs,
           IsActive(c, d), NEW h \in Holder, h.dbref = d, NEW v \in Records,
           h.refs > 0, Keeps(c, d, h, v)
    PROVE  Leads(c, Edit(c, d, h), At(refs, d, h.refs), At(objs, d, v), Flag(doomed, d, h.dead))
<1> PICK after : after = Edit(c, d, h)
  OBVIOUS
<1>1. WellFormed(c)
  BY FitsOf
<1>2. Activity(c, after, d, h)
  BY <1>1, Edited
<1>3. Does(c, after, d) /\ after.store = c.store /\ IsActive(after, d) /\ Holding(after, d) = h /\ WellFormed(after)
  BY <1>2, Zenon DEF Activity, Does
<1>4. h.refs \in Nat /\ h.dead \in BOOLEAN
  BY DEF Holder
<1>5. Keeps(after, d, h, v)
  BY <1>3 DEF Keeps
<1>6. ~IsInactive(after, d)
  BY <1>3, IsActiveIs
<1>7. Fits(after, d, h.refs, v, h.dead)
  BY <1>3, <1>4, <1>5, <1>6 DEF Fits
<1>8. Leads(c, after, At(refs, d, h.refs), At(objs, d, v), Flag(doomed, d, h.dead))
  BY <1>3, <1>4, <1>7, TracksOne
<1> QED BY <1>8

(* The holder of an object that is referred to.                              *)
Held(c, d, h, r, v, x) ==
    /\ IsActive(c, d) /\ Holding(c, d) = h /\ h \in Holder /\ h.dbref = d
    /\ h.refs = r /\ (h.dead = x) /\ Keeps(c, d, h, v) /\ h.val \in Images

LEMMA HeldIs ==
    ASSUME NEW c, NEW refs, NEW objs, NEW doomed, Tracks(c, refs, objs, doomed), NEW d \in Dbrefs, refs[d] > 0
    PROVE  Held(c, d, Holding(c, d), refs[d], objs[d], d \in doomed)
<1>1. WellFormed(c) /\ Fits(c, d, refs[d], objs[d], d \in doomed) /\ refs[d] \in Nat
  BY FitsOf
<1>2. IsActive(c, d)
  BY <1>1 DEF Fits
<1>3. Holding(c, d) \in Holder /\ Holding(c, d).dbref = d
  BY <1>1, <1>2, IsActiveIs
<1>4. Holding(c, d).val \in Images /\ Holding(c, d).dead \in BOOLEAN
  BY <1>3 DEF Holder, Images
<1> QED BY <1>1, <1>2, <1>3, <1>4 DEF Fits, Held

LEMMA AssignTracks ==
    ASSUME NEW c, NEW refs, NEW objs, NEW doomed, Tracks(c, refs, objs, doomed), NEW d \in Dbrefs,
           refs[d] > 0, NEW v \in Values
    PROVE  Leads(c, Assign(c, d, v), refs, At(objs, d, Stored(c, d, v)), doomed)
<1> PICK g : g = Holding(c, d)
  OBVIOUS
<1> PICK h : h = [g EXCEPT !.val = v]
  OBVIOUS
<1> PICK x : x = Stored(c, d, v)
  OBVIOUS
<1>1. Held(c, d, g, refs[d], objs[d], d \in doomed)
  BY HeldIs
<1>2. v \in Images /\ v # NoObj /\ x \in Records /\ x # NoObj
  <2>1. v \in Images
    BY DEF Images
  <2>2. x = v \/ x = <<v>>
    BY DEF Stored
  <2> QED BY <2>1, <2>2, RecordsAre
<1>3. /\ h \in Holder /\ h.dbref = d /\ h.refs = refs[d] /\ h.dead = (d \in doomed) /\ h.val = v
      /\ h.dirty = g.dirty
  BY <1>1, <1>2 DEF Held, Holder, Images
<1>4. Keeps(c, d, h, x)
  <2>1. CASE g.dirty
    <3>1. x = v /\ h.dirty
      BY <1>3, <2>1 DEF Stored, Bare
    <3> QED BY <1>2, <1>3, <3>1, AgreesSelf DEF Keeps
  <2>2. CASE ~g.dirty
    <3>1. x = <<v>>
      BY <2>2 DEF Stored, Bare
    <3>2. Agrees(c.store[d], objs[d]) /\ objs[d] # NoObj
      BY <1>1, <2>2 DEF Held, Keeps
    <3>3. c.store[d] # NoObj
      BY <3>2, AgreesMeans
    <3> QED BY <1>2, <1>3, <3>1, <3>3, AgreesBare DEF Keeps
  <2> QED BY <2>1, <2>2
<1>5. Leads(c, Edit(c, d, h), At(refs, d, h.refs), At(objs, d, x), Flag(doomed, d, h.dead))
  <2>1. IsActive(c, d)
    BY <1>1 DEF Held
  <2> QED BY <1>2, <1>3, <1>4, <2>1, EditTracks
<1>6. Assign(c, d, v) = Edit(c, d, h)
  BY Zenon DEF Assign, Edit, Holding, Act
<1>7. At(refs, d, h.refs) = refs /\ Flag(doomed, d, h.dead) = doomed
  BY <1>3, FitsOf
<1> QED BY <1>5, <1>6, <1>7, Zenon

LEMMA SetTracks ==
    ASSUME NEW c, NEW refs, NEW objs, NEW doomed, Tracks(c, refs, objs, doomed), NEW d \in Dbrefs,
           refs[d] > 0, NEW v \in Values
    PROVE  Leads(c, Set(c, d, v), refs, At(objs, d, v), doomed)
<1> PICK g : g = Holding(c, d)
  OBVIOUS
<1> PICK h : h = [g EXCEPT !.val = v]
  OBVIOUS
<1> PICK k : k = [h EXCEPT !.dirty = TRUE]
  OBVIOUS
<1> PICK b : b = Edit(c, d, h)
  OBVIOUS
<1>0. WellFormed(c)
  BY FitsOf
<1>1. Held(c, d, g, refs[d], objs[d], d \in doomed)
  BY HeldIs
<1>2. v \in Images /\ v # NoObj
  BY Constants DEF Images
<1>3. /\ h \in Holder /\ h.dbref = d /\ k \in Holder /\ k.dbref = d /\ k.dirty = TRUE /\ k.val = v
      /\ k.refs = refs[d] /\ k.dead = (d \in doomed)
  BY <1>1, <1>2 DEF Held, Holder, Images
<1>4. IsActive(c, d)
  BY <1>1 DEF Held
<1>5. Activity(c, b, d, h) /\ Index(Act(b, d), d) = Index(Act(c, d), d)
  BY <1>0, <1>3, <1>4, Edited
<1>6. Does(c, b, d) /\ b.store = c.store /\ IsActive(b, d) /\ Holding(b, d) = h /\ WellFormed(b)
  BY <1>5, Zenon DEF Activity, Does
<1>7. Activity(b, Edit(b, d, k), d, k)
  BY <1>3, <1>6, Edited
<1> PICK after : after = Edit(b, d, k)
  OBVIOUS
<1>8. Does(b, after, d) /\ after.store = c.store /\ IsActive(after, d) /\ Holding(after, d) = k /\ WellFormed(after)
  BY <1>6, <1>7, Zenon DEF Activity, Does
<1>9. Does(c, after, d)
  BY <1>0, <1>6, <1>8, DoesTwice
<1>10. Fits(after, d, refs[d], v, d \in doomed)
  <2>1. Keeps(after, d, k, v)
    BY <1>2, <1>3, AgreesSelf DEF Keeps
  <2>2. ~IsInactive(after, d)
    BY <1>8, IsActiveIs
  <2> QED BY <1>3, <1>8, <2>1, <2>2 DEF Fits
<1>11. refs[d] \in Nat /\ At(refs, d, refs[d]) = refs
  BY FitsOf
<1>12. Leads(c, after, At(refs, d, refs[d]), At(objs, d, v), doomed)
  <2>1. v \in Records
    BY <1>2, RecordsAre
  <2> QED BY <1>9, <1>10, <1>11, <2>1, TracksAbout
<1>13. Set(c, d, v) = after
  <2>1. Assign(c, d, v) = b
    BY Zenon DEF Assign, Edit, Holding, Act
  <2>2. b.active[Chain(d)][Index(Act(b, d), d)] = h
    BY <1>6, Zenon DEF Holding, Act
  <2>3. Set(c, d, v) = [b EXCEPT !.active[Chain(d)][Index(Act(b, d), d)].dirty = TRUE]
    BY <1>5, <2>1, Zenon DEF Set
  <2>4. Set(c, d, v) = [b EXCEPT !.active[Chain(d)][Index(Act(b, d), d)] =
                          [b.active[Chain(d)][Index(Act(b, d), d)] EXCEPT !.dirty = TRUE]]
    BY <2>3, Zenon
  <2> QED BY <2>2, <2>4, Zenon DEF Edit
<1> QED BY <1>11, <1>12, <1>13, Zenon

LEMMA KillTracks ==
    ASSUME NEW c, NEW refs, NEW objs, NEW doomed, Tracks(c, refs, objs, doomed), NEW d \in Dbrefs, refs[d] > 0
    PROVE  Leads(c, Kill(c, d), refs, objs, doomed \cup {d})
<1> PICK g : g = Holding(c, d)
  OBVIOUS
<1> PICK h : h = [g EXCEPT !.dead = TRUE]
  OBVIOUS
<1>1. Held(c, d, g, refs[d], objs[d], d \in doomed)
  BY HeldIs
<1>2. h \in Holder /\ h.dbref = d /\ h.refs = refs[d] /\ h.dead = TRUE /\ h.val = g.val /\ h.dirty = g.dirty
  BY <1>1 DEF Held, Holder
<1>3. Keeps(c, d, h, objs[d])
  BY <1>1, <1>2 DEF Held, Keeps
<1>4. Leads(c, Edit(c, d, h), At(refs, d, h.refs), At(objs, d, objs[d]), Flag(doomed, d, h.dead))
  <2>1. IsActive(c, d)
    BY <1>1 DEF Held
  <2>2. objs[d] \in Records
    BY FitsOf
  <2> QED BY <1>2, <1>3, <2>1, <2>2, EditTracks
<1>5. Kill(c, d) = Edit(c, d, h)
  BY Zenon DEF Kill, Edit, Holding, Act
<1>6. At(refs, d, h.refs) = refs /\ At(objs, d, objs[d]) = objs /\ Flag(doomed, d, h.dead) = doomed \cup {d}
  BY <1>2, FitsOf DEF Flag
<1> QED BY <1>4, <1>5, <1>6, Zenon

LEMMA ReleaseTracks ==
    ASSUME NEW c, NEW refs, NEW objs, NEW doomed, Tracks(c, refs, objs, doomed), NEW d \in Dbrefs,
           refs[d] > 0, refs[d] = 1 => d \notin doomed
    PROVE  Leads(c, Release(c, d), At(refs, d, refs[d] - 1), objs, doomed)
<1> PICK g : g = Holding(c, d)
  OBVIOUS
<1> PICK h : h = [g EXCEPT !.refs = @ - 1]
  OBVIOUS
<1>0. WellFormed(c) /\ refs[d] \in Nat /\ objs[d] \in Records /\ At(objs, d, objs[d]) = objs
  BY FitsOf
<1>1. Held(c, d, g, refs[d], objs[d], d \in doomed)
  BY HeldIs
<1>2. /\ h \in Holder /\ h.dbref = d /\ h.refs = refs[d] - 1 /\ h.dead = (d \in doomed) /\ h.val = g.val
      /\ h.dirty = g.dirty
  BY <1>0, <1>1 DEF Held, Holder
<1>3. Keeps(c, d, h, objs[d])
  BY <1>1, <1>2 DEF Held, Keeps
<1>4. IsActive(c, d)
  BY <1>1 DEF Held
<1>8. refs[d] - 1 \in Nat /\ (refs[d] - 1 # 0 => refs[d] - 1 > 0) /\ (refs[d] - 1 = 0 => refs[d] = 1)
  BY <1>0
<1>9. (h.refs # 0 => h.refs > 0) /\ (h.refs = 0 => refs[d] = 1)
  BY <1>2, <1>8, Zenon
<1>5. Release(c, d) = IF h.refs # 0 THEN Edit(c, d, h) ELSE Deactivate(c, d, h)
  BY Zenon DEF Release, Edit, Deactivate, Holding, Act, Inact, Without, Ahead
<1>6. CASE h.refs # 0
  <2>1. Leads(c, Edit(c, d, h), At(refs, d, h.refs), At(objs, d, objs[d]), Flag(doomed, d, h.dead))
    <3>1. h.refs > 0
      BY <1>6, <1>9, Zenon
    <3> QED BY <1>0, <1>2, <1>3, <1>4, <3>1, EditTracks
  <2>2. At(refs, d, h.refs) = At(refs, d, refs[d] - 1) /\ Flag(doomed, d, h.dead) = doomed
    BY <1>2 DEF Flag
  <2> QED BY <1>0, <1>5, <1>6, <2>1, <2>2, Zenon
<1>7. CASE h.refs = 0
  <2> PICK after : after = Deactivate(c, d, h)
    OBVIOUS
  <2>1. Inactivity(c, after, d, h)
    BY <1>0, <1>2, <1>4, Deactivated
  <2>2. /\ Does(c, after, d) /\ after.store = c.store /\ ~IsActive(after, d) /\ IsInactive(after, d)
        /\ Resting(after, d) = h
    BY <2>1, Zenon DEF Inactivity
  <2>3. refs[d] = 1 /\ d \notin doomed /\ ~h.dead
    BY <1>2, <1>7, <1>9, Zenon
  <2>4. Keeps(after, d, h, objs[d])
    BY <1>3, <2>2 DEF Keeps
  <2>5. Fits(after, d, 0, objs[d], d \in doomed)
    BY <2>2, <2>3, <2>4 DEF Fits
  <2>6. Leads(c, after, At(refs, d, 0), objs, doomed)
    BY <2>2, <2>5, TracksRefs
  <2>7. refs[d] - 1 = 0
    BY <2>3
  <2> QED BY <1>5, <1>7, <2>6, <2>7, Zenon
<1> QED BY <1>6, <1>7

LEMMA AtAt ==
    ASSUME NEW f, NEW d \in Dbrefs, d \in DOMAIN f, NEW x, NEW y
    PROVE  /\ At(At(f, d, x), d, y) = At(f, d, y) /\ At(f, d, x)[d] = x
           /\ \A e \in DOMAIN f : e # d => At(f, d, x)[e] = f[e]
  BY DEF At

LEMMA AtOneMore ==
    ASSUME NEW f \in [Dbrefs -> Nat], NEW d \in Dbrefs
    PROVE  At(f, d, f[d] + 1)[d] = f[d] + 1 /\ At(f, d, f[d] + 1)[d] > 0
<1>1. At(f, d, f[d] + 1)[d] = f[d] + 1
  BY DEF At
<1>2. f[d] \in Nat
  OBVIOUS
<1> QED BY <1>1, <1>2

LEMMA TouchTracks ==
    ASSUME NEW c, NEW refs, NEW objs, NEW doomed, Tracks(c, refs, objs, doomed), NEW d \in Dbrefs,
           objs[d] # NoObj, NEW v \in Values, NEW k, k[1] = d, k[2] = v
    PROVE  Leads(c, Touch(c, k), refs, At(objs, d, v), doomed)
<1> PICK c1 : c1 = Retrieve(c, d)
  OBVIOUS
<1> PICK c2 : c2 = Set(c1, d, v)
  OBVIOUS
<1> PICK c3 : c3 = Release(c2, d)
  OBVIOUS
<1>0. WellFormed(c) /\ refs[d] \in Nat /\ At(refs, d, refs[d]) = refs /\ refs \in [Dbrefs -> Nat]
  BY FitsOf DEF Tracks
<1> PICK more : more = At(refs, d, refs[d] + 1)
  OBVIOUS
<1> PICK made : made = At(objs, d, v)
  OBVIOUS
<1>1. Leads(c, c1, more, objs, doomed)
  BY RetrieveTracks
<1>2. more[d] = refs[d] + 1 /\ more[d] > 0
  BY <1>0, AtAt
<1>3. Leads(c1, c2, more, made, doomed)
  <2>1. Tracks(c1, more, objs, doomed)
    BY <1>1 DEF Leads
  <2> QED BY <1>2, <2>1, SetTracks
<1>4. Leads(c2, c3, At(more, d, more[d] - 1), made, doomed)
  <2>1. Tracks(c2, more, made, doomed)
    BY <1>3 DEF Leads
  <2>2. more[d] = 1 => d \notin doomed
    <3>1. Fits(c, d, refs[d], objs[d], d \in doomed)
      BY FitsOf
    <3>2. refs[d] = 0 => d \notin doomed
      BY <3>1 DEF Fits
    <3> QED BY <1>0, <1>2, <3>2
  <2> QED BY <1>2, <2>1, <2>2, ReleaseTracks
<1>5. At(more, d, more[d] - 1) = refs
  <2>1. more[d] - 1 = refs[d]
    BY <1>0, <1>2
  <2>2. At(more, d, refs[d]) = refs
    BY <1>0, AtAt
  <2> QED BY <2>1, <2>2, Zenon
<1>6. Leads(c, c2, more, made, doomed)
  BY <1>0, <1>1, <1>3, LeadsTwice
<1>7. Leads(c, c3, At(more, d, more[d] - 1), made, doomed)
  BY <1>0, <1>4, <1>6, LeadsTwice
<1>8. Touch(c, k) = c3
  BY Zenon DEF Touch
<1> QED BY <1>5, <1>7, <1>8, Zenon

(* The objects that a change of d reaches.                                   *)
Kins(objs, d) == {<<>>} \cup {<<k>> : k \in {p \in Dbrefs \ {d} : objs[p] # NoObj} \X Values}

LEMMA KinOfKins ==
    ASSUME NEW objs, NEW d PROVE KinOf(objs, d) \subseteq Kins(objs, d)
  <1>1. {p \in Changeable \ {d} : objs[p] # NoObj} \subseteq {p \in Dbrefs \ {d} : objs[p] # NoObj}
  BY CacheAssumption
<1>2. ASSUME NEW kin \in KinOf(objs, d) PROVE kin \in Kins(objs, d)
  <2>1. CASE kin = <<>>
    BY <2>1 DEF Kins
  <2>2. CASE kin # <<>>
    <3>1. PICK k \in {p \in Changeable \ {d} : objs[p] # NoObj} \X Values : kin = <<k>>
      BY <2>2, Zenon DEF KinOf
    <3>2. k \in {p \in Dbrefs \ {d} : objs[p] # NoObj} \X Values
      BY <1>1, <3>1
    <3> QED BY <3>1, <3>2, Zenon DEF Kins
  <2> QED BY <2>1, <2>2
<1> QED BY <1>2

LEMMA KinIs ==
    ASSUME NEW objs \in [Dbrefs -> Records], NEW d \in Dbrefs, NEW kin \in Kins(objs, d), kin # <<>>
    PROVE  /\ kin[1][1] \in Dbrefs \ {d} /\ objs[kin[1][1]] # NoObj /\ kin[1][2] \in Values
           /\ After(objs, kin) = At(objs, kin[1][1], kin[1][2])
<1>1. PICK k \in {p \in Dbrefs \ {d} : objs[p] # NoObj} \X Values : kin = <<k>>
  BY DEF Kins
<1>2. kin[1] = k
  BY <1>1
<1>3. k[1] \in {p \in Dbrefs \ {d} : objs[p] # NoObj} /\ k[2] \in Values
  OBVIOUS
<1>4. After(objs, kin) = At(objs, kin[1][1], kin[1][2])
  BY Zenon DEF After, At
<1> QED BY <1>2, <1>3, <1>4

LEMMA AfterIs ==
    ASSUME NEW objs \in [Dbrefs -> Records], NEW d \in Dbrefs, NEW kin \in Kins(objs, d)
    PROVE  /\ After(objs, kin) \in [Dbrefs -> Records] /\ After(objs, kin)[d] = objs[d]
           /\ \A e \in Dbrefs : After(objs, kin)[e] = NoObj <=> objs[e] = NoObj
<1>1. CASE kin = <<>>
  BY <1>1 DEF After
<1>2. CASE kin # <<>>
  <2>1. PICK e \in Dbrefs \ {d}, v \in Values : objs[e] # NoObj /\ After(objs, kin) = At(objs, e, v)
    BY <1>2, KinIs
  <2>2. v \in Records /\ v # NoObj
    BY RecordsAre DEF Images
  <2> QED BY <2>1, <2>2 DEF At
<1> QED BY <1>1, <1>2

LEMMA TouchAllTracks ==
    ASSUME NEW c, NEW refs, NEW objs, NEW doomed, Tracks(c, refs, objs, doomed), NEW d \in Dbrefs,
           NEW kin \in Kins(objs, d)
    PROVE  Leads(c, TouchAll(c, kin), refs, After(objs, kin), doomed)
<1>0. objs \in [Dbrefs -> Records]
  BY DEF Tracks
<1>1. CASE kin = <<>>
  <2>1. TouchAll(c, kin) = c /\ After(objs, kin) = objs
    BY <1>1 DEF TouchAll, After
  <2>2. Marks(c, c) /\ Grows(c, c)
    <3>1. \A n \in Chains : Size(c, n) <= Size(c, n)
      BY SizeCounted DEF Tracks
    <3> QED BY <3>1 DEF Marks, Grows
  <2> QED BY <2>1, <2>2, Zenon DEF Leads
<1>2. CASE kin # <<>>
  <2>1. /\ kin[1][1] \in Dbrefs /\ objs[kin[1][1]] # NoObj /\ kin[1][2] \in Values
        /\ After(objs, kin) = At(objs, kin[1][1], kin[1][2])
    BY <1>0, <1>2, KinIs
  <2>2. TouchAll(c, kin) = Touch(c, kin[1])
    BY <1>2, Zenon DEF TouchAll
  <2>3. Leads(c, Touch(c, kin[1]), refs, At(objs, kin[1][1], kin[1][2]), doomed)
    BY <2>1, TouchTracks
  <2> QED BY <2>1, <2>2, <2>3, Zenon
<1> QED BY <1>1, <1>2

LEMMA DiskDelIs ==
    ASSUME NEW c, WellFormed(c), NEW d \in Dbrefs, ~IsActive(c, d), ~IsInactive(c, d)
    PROVE  /\ Does(c, DiskDel(c, d), d) /\ ~IsActive(DiskDel(c, d), d) /\ ~IsInactive(DiskDel(c, d), d)
           /\ DiskDel(c, d).store[d] = NoObj /\ \A n \in Chains : Size(DiskDel(c, d), n) = Size(c, n)
<1> PICK after : after = DiskDel(c, d)
  OBVIOUS
<1>1. c \in Caches /\ NoObj \in Images
  BY DEF WellFormed, Images
<1>2. /\ after \in Caches /\ after.active = c.active /\ after.inactive = c.inactive /\ after.store[d] = NoObj
      /\ (after = c \/ after.clean = FALSE) /\ \A e \in Dbrefs : e # d => after.store[e] = c.store[e]
  <2>1. CASE c.store[d] = NoObj
    <3>1. after = c
      BY <2>1, Zenon DEF DiskDel
    <3> QED BY <1>1, <2>1, <3>1
  <2>2. CASE c.store[d] # NoObj
    <3>1. after = [c EXCEPT !.store[d] = NoObj, !.clean = FALSE]
      BY <2>2, Zenon DEF DiskDel
    <3>2. /\ after.active = c.active /\ after.inactive = c.inactive /\ after.clean = FALSE
          /\ after.store = [c.store EXCEPT ![d] = NoObj]
      BY <1>1, <3>1 DEF Caches
    <3>3. after = [active |-> c.active, inactive |-> c.inactive, store |-> after.store, clean |-> FALSE]
      BY <1>1, <3>1, <3>2 DEF Caches
    <3>4. [c.store EXCEPT ![d] = NoObj] \in [Dbrefs -> Images]
      BY <1>1 DEF Caches
    <3>5. after \in Caches
      BY <1>1, <3>2, <3>3, <3>4 DEF Caches
    <3> QED BY <1>1, <3>2, <3>5 DEF Caches
  <2> QED BY <2>1, <2>2
<1>3. WellFormed(after)
  BY <1>2 DEF WellFormed
<1>4. \A e \in Dbrefs : Act(after, e) = Act(c, e) /\ Inact(after, e) = Inact(c, e)
  BY <1>2 DEF Act, Inact
<1>5. \A n \in Chains : Size(after, n) = Size(c, n)
  BY <1>2 DEF Size
<1>6. \A e \in Dbrefs \ {d} : Same(c, after, e)
  BY <1>2, <1>3, <1>4, SameIs
<1>7. Marks(c, after)
  BY <1>2 DEF Marks
<1>8. Grows(c, after)
  <2>1. \A n \in Chains : Size(after, n) <= Size(c, n)
    BY <1>5, SizeCounted
  <2> QED BY <2>1 DEF Grows
<1>9. ~IsActive(after, d) /\ ~IsInactive(after, d)
  BY <1>3, <1>4, IsActiveIs
<1>10. Does(c, after, d)
  BY <1>3, <1>6, <1>7, <1>8 DEF Does, Stays
<1> QED BY <1>2, <1>5, <1>9, <1>10

(* A dead object is taken out of its chain and off the disk.                 *)
LEMMA GoneTracks ==
    ASSUME NEW c, NEW refs, NEW objs, NEW doomed, Tracks(c, refs, objs, doomed), NEW d \in Dbrefs, refs[d] > 0
    PROVE  /\ Leads(c, DiskDel(TakeOut(c, d), d), At(refs, d, 0), At(objs, d, NoObj), doomed \ {d})
           /\ Size(DiskDel(TakeOut(c, d), d), Chain(d)) = Size(c, Chain(d)) - 1
<1> PICK out : out = TakeOut(c, d)
  OBVIOUS
<1> PICK after : after = DiskDel(out, d)
  OBVIOUS
<1>1. WellFormed(c) /\ IsActive(c, d)
  BY FitsOf, HeldIs DEF Held
<1>2. Absence(c, out, d)
  BY <1>1, TakenOut
<1>3. /\ Does(c, out, d) /\ WellFormed(out) /\ ~IsActive(out, d) /\ ~IsInactive(out, d)
      /\ Size(out, Chain(d)) = Size(c, Chain(d)) - 1
  BY <1>2 DEF Absence, Does
<1>4. /\ Does(out, after, d) /\ ~IsActive(after, d) /\ ~IsInactive(after, d)
      /\ after.store[d] = NoObj /\ \A n \in Chains : Size(after, n) = Size(out, n)
  BY <1>3, DiskDelIs
<1>5. Does(c, after, d)
  BY <1>1, <1>3, <1>4, DoesTwice
<1>6. Fits(after, d, 0, NoObj, FALSE)
  BY <1>4, AgreesSelf, RecordsAre DEF Fits
<1>7. Leads(c, after, At(refs, d, 0), At(objs, d, NoObj), Flag(doomed, d, FALSE))
  <2>1. NoObj \in Records /\ 0 \in Nat
    BY RecordsAre
  <2> QED BY <1>5, <1>6, <2>1, TracksOne
<1>8. Flag(doomed, d, FALSE) = doomed \ {d}
  BY DEF Flag
<1>9. Size(after, Chain(d)) = Size(c, Chain(d)) - 1
  BY <1>3, <1>4, ChainIsOne
<1> QED BY <1>7, <1>8, <1>9, Zenon

LEMMA FreeTracks ==
    ASSUME NEW c, NEW refs, NEW objs, NEW doomed, Tracks(c, refs, objs, doomed), NEW d \in Dbrefs,
           NEW h \in Holder, h.dbref = -1
    PROVE  /\ Tracks(Free(c, d, h), refs, objs, doomed) /\ Marks(c, Free(c, d, h))
           /\ Size(Free(c, d, h), Chain(d)) = Size(c, Chain(d)) + 1
           /\ \A m \in Chains : m # Chain(d) => Size(Free(c, d, h), m) = Size(c, m)
<1> PICK after : after = Free(c, d, h)
  OBVIOUS
<1>1. OneMore(c, after, d)
  BY FitsOf, Freed
<1>2. /\ WellFormed(after) /\ after.store = c.store /\ after.clean = c.clean /\ \A e \in Dbrefs : Same(c, after, e)
      /\ Size(after, Chain(d)) = Size(c, Chain(d)) + 1
      /\ \A m \in Chains : m # Chain(d) => Size(after, m) = Size(c, m)
  BY <1>1, Zenon DEF OneMore
<1>3. ASSUME NEW e \in Dbrefs PROVE Fits(after, e, refs[e], objs[e], e \in doomed)
  <2>1. Stays(c, after, e)
    BY <1>2 DEF Stays
  <2>2. Fits(c, e, refs[e], objs[e], e \in doomed)
    BY DEF Tracks
  <2> QED BY <2>1, <2>2, FitsKept
<1>4. Tracks(after, refs, objs, doomed)
  BY <1>2, <1>3 DEF Tracks
<1>5. Marks(c, after)
  BY <1>2 DEF Marks
<1> QED BY <1>2, <1>4, <1>5, Zenon

LEMMA DiesIs ==
    ASSUME NEW c, NEW refs, NEW objs, NEW doomed, Tracks(c, refs, objs, doomed), NEW d \in Dbrefs, refs[d] > 0
    PROVE  Dies(c, d) <=> refs[d] = 1 /\ d \in doomed
<1>1. Held(c, d, Holding(c, d), refs[d], objs[d], d \in doomed)
  BY HeldIs
<1>2. Holding(c, d).refs = refs[d] /\ (Holding(c, d).dead <=> d \in doomed)
  <2>1. Fits(c, d, refs[d], objs[d], d \in doomed) /\ IsActive(c, d)
    BY <1>1, FitsOf DEF Held
  <2> QED BY <2>1 DEF Fits
<1> QED BY <1>2 DEF Dies, LastRef

(* cache_discard, of an object that lives on and of one that does not.       *)
LEMMA DiscardTracks ==
    ASSUME NEW c, NEW refs, NEW objs, NEW doomed, Tracks(c, refs, objs, doomed), NEW d \in Dbrefs, refs[d] > 0,
           ~(refs[d] = 1 /\ d \in doomed), NEW kin
    PROVE  Brings(c, Discard(c, d, kin), At(refs, d, refs[d] - 1), objs, doomed)
<1>1. ~Dies(c, d)
  BY DiesIs
<1>2. Discard(c, d, kin) = Release(c, d)
  BY <1>1, Zenon DEF Discard
<1>3. Leads(c, Release(c, d), At(refs, d, refs[d] - 1), objs, doomed)
  BY ReleaseTracks
<1>4. Brings(c, Release(c, d), At(refs, d, refs[d] - 1), objs, doomed)
  BY <1>3, FitsOf, LeadsBrings
<1> QED BY <1>2, <1>4, Zenon

LEMMA DiscardDying ==
    ASSUME NEW c, NEW refs, NEW objs, NEW doomed, Tracks(c, refs, objs, doomed), NEW d \in Dbrefs,
           refs[d] = 1, d \in doomed, NEW kin, kin \in Kins(objs, d)
    PROVE  Brings(c, Discard(c, d, kin), At(refs, d, 0), After(At(objs, d, NoObj), kin), doomed \ {d})
<1> PICK out : out = DiskDel(TakeOut(c, d), d)
  OBVIOUS
<1> PICK gone : gone = TouchAll(out, kin)
  OBVIOUS
<1> PICK h : h = Emptied(Holding(c, d))
  OBVIOUS
<1> PICK after : after = Free(gone, d, h)
  OBVIOUS
<1> PICK left : left = At(objs, d, NoObj)
  OBVIOUS
<1>0. WellFormed(c) /\ objs \in [Dbrefs -> Records] /\ Holding(c, d) \in Holder /\ Dies(c, d)
  <2>1. Held(c, d, Holding(c, d), refs[d], objs[d], d \in doomed)
    BY HeldIs
  <2>2. Dies(c, d)
    BY DiesIs
  <2> QED BY <2>1, <2>2, Zenon DEF Tracks, Held
<1>1. /\ Leads(c, out, At(refs, d, 0), left, doomed \ {d})
      /\ Size(out, Chain(d)) = Size(c, Chain(d)) - 1
  BY GoneTracks
<1>2. kin \in Kins(left, d)
  <2>1. \A e \in Dbrefs \ {d} : left[e] = objs[e]
    BY <1>0 DEF At
  <2> QED BY <2>1 DEF Kins
<1>3. Leads(out, gone, At(refs, d, 0), After(left, kin), doomed \ {d})
  <2>1. Tracks(out, At(refs, d, 0), left, doomed \ {d})
    BY <1>1 DEF Leads
  <2> QED BY <1>2, <2>1, TouchAllTracks
<1>4. h \in Holder /\ h.dbref = -1
  BY <1>0, HoldersThere
<1>5. /\ Tracks(after, At(refs, d, 0), After(left, kin), doomed \ {d}) /\ Marks(gone, after)
      /\ Size(after, Chain(d)) = Size(gone, Chain(d)) + 1
      /\ \A m \in Chains : m # Chain(d) => Size(after, m) = Size(gone, m)
  <2>1. Tracks(gone, At(refs, d, 0), After(left, kin), doomed \ {d})
    BY <1>3 DEF Leads
  <2> QED BY <1>4, <2>1, FreeTracks
<1>6. Marks(c, out) /\ Grows(c, out) /\ Marks(out, gone) /\ Grows(out, gone) /\ WellFormed(out) /\ WellFormed(gone)
  BY <1>1, <1>3 DEF Leads, Tracks
<1>7. Marks(c, after)
  BY <1>5, <1>6, MarksTwice
<1>8. ASSUME Bounded(c), NEW n \in Chains
      PROVE  Size(after, n) <= CACHE_DEPTH \/ Size(after, n) <= Mine(n) + 1
  <2>1. Size(c, n) \in Nat /\ Size(out, n) \in Nat /\ Size(gone, n) \in Nat /\ Mine(n) \in Nat /\ CACHE_DEPTH \in Nat
    BY <1>0, <1>6, SizeCounted, MineCounted, Constants
  <2>2. Size(c, n) <= CACHE_DEPTH \/ Size(c, n) <= Mine(n) + 1
    BY <1>8 DEF Bounded
  <2>3. Size(gone, n) <= Size(out, n) \/ Size(gone, n) <= Mine(n)
    BY <1>6 DEF Grows
  <2>4. Size(out, n) <= Size(c, n) \/ Size(out, n) <= Mine(n)
    BY <1>6 DEF Grows
  <2>5. CASE n = Chain(d)
    <3>1. Size(out, n) = Size(c, n) - 1 /\ Size(after, n) = Size(gone, n) + 1
      BY <1>1, <1>5, <2>5
    <3> QED BY <2>1, <2>2, <2>3, <3>1
  <2>6. CASE n # Chain(d)
    <3>1. Size(after, n) = Size(gone, n)
      BY <1>5, <2>6
    <3> QED BY <2>1, <2>2, <2>3, <2>4, <3>1
  <2> QED BY <2>5, <2>6
<1>9. Discard(c, d, kin) = after
  BY <1>0, Zenon DEF Discard, TakeOut, Without, Free, Act, Inact, Holding
<1>10. Bounded(c) => Bounded(after)
  BY <1>8 DEF Bounded
<1> QED BY <1>5, <1>7, <1>9, <1>10, Zenon DEF Brings

(* object_new of a dbref that no object has.                                 *)
LEMMA NewObjectTracks ==
    ASSUME NEW c, NEW refs, NEW objs, NEW doomed, Tracks(c, refs, objs, doomed), NEW d \in Dbrefs,
           objs[d] = NoObj, NEW v \in Values, NEW kin, kin \in Kins(objs, d)
    PROVE  Brings(c, NewObject(c, d, v, kin), At(refs, d, 1), After(At(objs, d, v), kin), doomed)
<1> PICK c1 : c1 = GetHolder(c, d)
  OBVIOUS
<1> PICK g : g = New(d)
  OBVIOUS
<1> PICK h : h = [g EXCEPT !.val = v]
  OBVIOUS
<1> PICK k : k = [h EXCEPT !.dirty = TRUE]
  OBVIOUS
<1> PICK b : b = Edit(c1, d, h)
  OBVIOUS
<1> PICK c2 : c2 = Edit(b, d, k)
  OBVIOUS
<1> PICK made : made = At(objs, d, v)
  OBVIOUS
<1>0. WellFormed(c) /\ Fits(c, d, refs[d], objs[d], d \in doomed) /\ objs \in [Dbrefs -> Records]
  BY FitsOf DEF Tracks
<1>1. ~IsActive(c, d) /\ ~IsInactive(c, d)
  BY <1>0 DEF Fits, Keeps
<1>2. d \notin doomed
  BY <1>0, <1>1 DEF Fits
<1>3. v \in Images /\ v # NoObj
  BY Constants DEF Images
<1>4. g \in Holder /\ g.dbref = d /\ g.refs = 1 /\ g.dead = FALSE
  BY HoldersThere DEF New
<1>5. h \in Holder /\ h.dbref = d /\ h.val = v /\ h.refs = 1 /\ h.dead = FALSE
  BY <1>3, <1>4 DEF Holder, Images
<1>6. k \in Holder /\ k.dbref = d /\ k.val = v /\ k.refs = 1 /\ k.dead = FALSE /\ k.dirty = TRUE
  BY <1>5 DEF Holder
<1>7. Does(c, c1, d) /\ WellFormed(c1) /\ IsActive(c1, d) /\ Holding(c1, d) = g
  BY <1>0, <1>1, GetHolderIs DEF Does
<1>8. Activity(c1, b, d, h) /\ Index(Act(b, d), d) = Index(Act(c1, d), d)
  BY <1>5, <1>7, Edited
<1>9. Does(c1, b, d) /\ WellFormed(b) /\ IsActive(b, d) /\ Holding(b, d) = h
  BY <1>8, Zenon DEF Activity, Does
<1>10. Activity(b, c2, d, k)
  BY <1>6, <1>9, Edited
<1>11. Does(b, c2, d) /\ WellFormed(c2) /\ IsActive(c2, d) /\ Holding(c2, d) = k
  BY <1>10, Zenon DEF Activity, Does
<1>12. Does(c, c2, d)
  <2>1. Does(c, b, d)
    BY <1>0, <1>7, <1>9, DoesTwice
  <2> QED BY <1>0, <1>11, <2>1, DoesTwice
<1>13. Fits(c2, d, 1, v, d \in doomed)
  <2>1. Keeps(c2, d, k, v)
    BY <1>3, <1>6, AgreesSelf DEF Keeps
  <2>2. ~IsInactive(c2, d)
    BY <1>11, IsActiveIs
  <2>3. Holding(c2, d).refs = 1 /\ Holding(c2, d).dead = FALSE /\ Keeps(c2, d, Holding(c2, d), v)
    BY <1>6, <1>11, <2>1, Zenon
  <2>4. 1 > 0
    OBVIOUS
  <2> QED BY <1>2, <1>11, <2>2, <2>3, <2>4, Zenon DEF Fits
<1>14. Leads(c, c2, At(refs, d, 1), made, doomed)
  <2>1. v \in Records /\ 1 \in Nat
    BY <1>3, RecordsAre
  <2> QED BY <1>3, <1>12, <1>13, <2>1, TracksAbout
<1>15. Set(c1, d, v) = c2
  <2>1. Assign(c1, d, v) = b
    BY <1>7, Zenon DEF Assign, Edit, Holding, Act
  <2>2. b.active[Chain(d)][Index(Act(b, d), d)] = h
    BY <1>9, Zenon DEF Holding, Act
  <2>3. Set(c1, d, v) = [b EXCEPT !.active[Chain(d)][Index(Act(b, d), d)].dirty = TRUE]
    BY <1>8, <2>1, Zenon DEF Set
  <2>4. Set(c1, d, v) = [b EXCEPT !.active[Chain(d)][Index(Act(b, d), d)] =
                          [b.active[Chain(d)][Index(Act(b, d), d)] EXCEPT !.dirty = TRUE]]
    BY <2>3, Zenon
  <2> QED BY <2>2, <2>4, Zenon DEF Edit
<1>16. kin \in Kins(made, d)
  <2>1. \A e \in Dbrefs \ {d} : made[e] = objs[e]
    BY <1>0 DEF At
  <2> QED BY <2>1 DEF Kins
<1>17. Leads(c2, TouchAll(c2, kin), At(refs, d, 1), After(made, kin), doomed)
  <2>1. Tracks(c2, At(refs, d, 1), made, doomed)
    BY <1>14 DEF Leads
  <2> QED BY <1>16, <2>1, TouchAllTracks
<1>18. Leads(c, TouchAll(c2, kin), At(refs, d, 1), After(made, kin), doomed)
  BY <1>0, <1>14, <1>17, LeadsTwice
<1>19. NewObject(c, d, v, kin) = TouchAll(c2, kin)
  BY <1>15, Zenon DEF NewObject
<1>20. Brings(c, TouchAll(c2, kin), At(refs, d, 1), After(made, kin), doomed)
  BY <1>0, <1>18, LeadsBrings
<1> QED BY <1>19, <1>20, Zenon

-----------------------------------------------------------------------------
(* cache_sync writes out what has changed and leaves the chains as they are. *)
Cleaned(s) == [i \in DOMAIN s |-> IF s[i].dbref = -1 THEN s[i] ELSE [s[i] EXCEPT !.dirty = FALSE]]

Washes(s, t) ==
    /\ t \in Seq(Holder) /\ Distinct(t) /\ Len(t) = Len(s) /\ Named(t) = Named(s)
    /\ Occupied(s) => Occupied(t)
    /\ \A d \in Named(s) : Of(t, d) = [Of(s, d) EXCEPT !.dirty = FALSE]

LEMMA CleanedIs ==
    ASSUME NEW s \in Seq(Holder), Distinct(s)
    PROVE  Washes(s, Cleaned(s))
<1> PICK t : t = Cleaned(s)
  OBVIOUS
<1>1. Len(s) \in Nat /\ DOMAIN s = 1 .. Len(s) /\ \A i \in DOMAIN s : s[i] \in Holder
  OBVIOUS
<1>2. /\ DOMAIN t = DOMAIN s
      /\ \A i \in DOMAIN s : t[i] = IF s[i].dbref = -1 THEN s[i] ELSE [s[i] EXCEPT !.dirty = FALSE]
  BY DEF Cleaned
<1>3. \A i \in DOMAIN s : t[i] \in Holder /\ t[i].dbref = s[i].dbref
  BY <1>1, <1>2 DEF Holder
<1>4. t \in Seq(Holder) /\ Len(t) = Len(s)
  <2>1. t = [i \in 1 .. Len(s) |-> t[i]]
    BY <1>1 DEF Cleaned
  <2>2. \A i \in 1 .. Len(s) : t[i] \in Holder
    BY <1>1, <1>3
  <2>3. t \in [1 .. Len(s) -> Holder]
    BY <2>1, <2>2
  <2> QED BY <1>1, <2>3
<1>5. Distinct(t)
  BY <1>2, <1>3 DEF Distinct
<1>6. Named(t) = Named(s)
  BY <1>2, <1>3 DEF Named
<1>7. Occupied(s) => Occupied(t)
  BY <1>2, <1>3 DEF Occupied
<1>8. ASSUME NEW d \in Named(s) PROVE Of(t, d) = [Of(s, d) EXCEPT !.dirty = FALSE]
  <2>1. PICK i \in DOMAIN s : s[i].dbref = d /\ d # -1
    BY DEF Named
  <2>2. Of(s, d) = s[i]
    BY <2>1, OfIs
  <2>3. Of(t, t[i].dbref) = t[i]
    BY <1>2, <1>3, <1>4, <1>5, <2>1, OfIs
  <2> QED BY <1>2, <1>3, <2>1, <2>2, <2>3
<1>9. Washes(s, t)
  BY <1>4, <1>5, <1>6, <1>7, <1>8 DEF Washes
<1> QED BY <1>9

LEMMA SyncedTracks ==
    ASSUME NEW c, NEW refs, NEW objs, NEW doomed, Tracks(c, refs, objs, doomed)
    PROVE  /\ Tracks(Synced(c), refs, objs, doomed) /\ Synced(c).clean = TRUE
           /\ Bounded(c) => Bounded(Synced(c))
           /\ \A d \in Dbrefs : Agrees(Synced(c).store[d], objs[d])
<1> PICK after : after = Synced(c)
  OBVIOUS
<1> DEFINE Changed0 == {h \in UNION {Range(c.active[n]) \cup Range(c.inactive[n]) : n \in Chains} :
                            h.dbref # -1 /\ h.dirty}
<1> PICK changed : changed = Changed0
  OBVIOUS
<1>0. WellFormed(c) /\ c \in Caches /\ \A d \in Dbrefs : Fits(c, d, refs[d], objs[d], d \in doomed)
  BY DEF Tracks, WellFormed
<1>1. /\ after.active = [n \in Chains |-> Cleaned(c.active[n])]
      /\ after.inactive = [n \in Chains |-> Cleaned(c.inactive[n])]
      /\ after.store = [d \in Dbrefs |-> IF \E h \in changed : h.dbref = d
                                         THEN (CHOOSE h \in changed : h.dbref = d).val ELSE c.store[d]]
      /\ after.clean = TRUE
      /\ after = [active |-> after.active, inactive |-> after.inactive, store |-> after.store, clean |-> TRUE]
  BY DEF Synced, Cleaned
<1>2. ASSUME NEW n \in Chains
      PROVE  /\ ChainsOK(after.active[n], after.inactive[n], n) /\ Size(after, n) = Size(c, n)
             /\ Named(after.active[n]) = Named(c.active[n]) /\ Named(after.inactive[n]) = Named(c.inactive[n])
             /\ \A d \in Named(c.active[n]) : Of(after.active[n], d) = [Of(c.active[n], d) EXCEPT !.dirty = FALSE]
             /\ \A d \in Named(c.inactive[n]) : Of(after.inactive[n], d) = [Of(c.inactive[n], d) EXCEPT !.dirty = FALSE]
  <2> PICK u : u = c.active[n]
    OBVIOUS
  <2> PICK w : w = c.inactive[n]
    OBVIOUS
  <2> PICK a : a = Cleaned(u)
    OBVIOUS
  <2> PICK b : b = Cleaned(w)
    OBVIOUS
  <2>1. after.active[n] = a /\ after.inactive[n] = b
    BY <1>1
  <2>2. ChainsOK(u, w, n)
    BY <1>0 DEF WellFormed
  <2>3. u \in Seq(Holder) /\ Distinct(u) /\ Occupied(u) /\ w \in Seq(Holder) /\ Distinct(w)
    BY <2>2 DEF ChainsOK
  <2>4. /\ a \in Seq(Holder) /\ Distinct(a) /\ Len(a) = Len(u) /\ Named(a) = Named(u) /\ Occupied(a)
        /\ \A d \in Named(u) : Of(a, d) = [Of(u, d) EXCEPT !.dirty = FALSE]
    <3>1. Washes(u, a)
      BY <2>3, CleanedIs
    <3> QED BY <2>3, <3>1, Zenon DEF Washes
  <2>5. /\ b \in Seq(Holder) /\ Distinct(b) /\ Len(b) = Len(w) /\ Named(b) = Named(w)
        /\ \A d \in Named(w) : Of(b, d) = [Of(w, d) EXCEPT !.dirty = FALSE]
    <3>1. Washes(w, b)
      BY <2>3, CleanedIs
    <3> QED BY <3>1, Zenon DEF Washes
  <2>6. ChainsOK(a, b, n)
    BY <2>2, <2>4, <2>5 DEF ChainsOK
  <2>7. Size(after, n) = Size(c, n)
    BY <2>1, <2>4, <2>5 DEF Size
  <2> QED BY <2>1, <2>4, <2>5, <2>6, <2>7, Zenon
<1>3. ASSUME NEW h \in changed
      PROVE  /\ h.dbref \in Dbrefs /\ h.dirty
             /\ \/ IsActive(c, h.dbref) /\ Holding(c, h.dbref) = h
                \/ IsInactive(c, h.dbref) /\ Resting(c, h.dbref) = h
  <2>1. PICK n \in Chains : h \in Range(c.active[n]) \cup Range(c.inactive[n])
    BY Zenon
  <2>2. h.dbref # -1 /\ h.dirty
    BY Zenon
  <2>3. ChainsOK(c.active[n], c.inactive[n], n)
    BY <1>0 DEF WellFormed
  <2>4. CASE h \in Range(c.active[n])
    <3>1. PICK i \in DOMAIN c.active[n] : c.active[n][i] = h
      BY <2>4 DEF Range
    <3>2. c.active[n] \in Seq(Holder) /\ Distinct(c.active[n])
      BY <2>3 DEF ChainsOK
    <3>3. h \in Holder /\ h.dbref \in Named(c.active[n]) /\ Of(c.active[n], h.dbref) = h
      BY <2>2, <3>1, <3>2, OfIs
    <3>4. h.dbref \in Dbrefs /\ Chain(h.dbref) = n
      BY <2>2, <2>3, <3>3 DEF Holder, ChainsOK
    <3>5. Act(c, h.dbref) = c.active[n]
      BY <3>4, Zenon DEF Act
    <3> QED BY <1>0, <2>2, <3>3, <3>4, <3>5, IsActiveIs
  <2>5. CASE h \in Range(c.inactive[n])
    <3>1. PICK i \in DOMAIN c.inactive[n] : c.inactive[n][i] = h
      BY <2>5 DEF Range
    <3>2. c.inactive[n] \in Seq(Holder) /\ Distinct(c.inactive[n])
      BY <2>3 DEF ChainsOK
    <3>3. h \in Holder /\ h.dbref \in Named(c.inactive[n]) /\ Of(c.inactive[n], h.dbref) = h
      BY <2>2, <3>1, <3>2, OfIs
    <3>4. h.dbref \in Dbrefs /\ Chain(h.dbref) = n
      BY <2>2, <2>3, <3>3 DEF Holder, ChainsOK
    <3>5. Inact(c, h.dbref) = c.inactive[n]
      BY <3>4, Zenon DEF Inact
    <3> QED BY <1>0, <2>2, <3>3, <3>4, <3>5, IsActiveIs DEF Resting
  <2> QED BY <2>1, <2>4, <2>5
<1>4. ASSUME NEW d \in Dbrefs
      PROVE  /\ after.store[d] \in Images /\ Agrees(after.store[d], objs[d])
  <2>1. Fits(c, d, refs[d], objs[d], d \in doomed) /\ c.store[d] \in Images
    BY <1>0 DEF Caches
  <2>2. CASE \E h \in changed : h.dbref = d
    <3>1. PICK h \in changed : h = CHOOSE g \in changed : g.dbref = d
      BY <2>2
    <3>2. h.dbref = d
      BY <2>2, <3>1, Zenon
    <3>3. after.store[d] = h.val
      BY <1>1, <2>2, <3>1
    <3>4. \/ IsActive(c, d) /\ Holding(c, d) = h
          \/ IsInactive(c, d) /\ Resting(c, d) = h
      BY <1>3, <3>2, Zenon
    <3>5. h \in Holder
      BY <1>0, <3>4, IsActiveIs
    <3>6. h.val \in Images
      BY <3>5 DEF Holder, Images
    <3>7. Agrees(h.val, objs[d])
      BY <2>1, <3>4 DEF Fits, Keeps
    <3> QED BY <3>3, <3>6, <3>7
  <2>3. CASE ~\E h \in changed : h.dbref = d
    <3>1. after.store[d] = c.store[d]
      BY <1>1, <2>3
    <3>2. ASSUME NEW h, (IsActive(c, d) /\ Holding(c, d) = h) \/ (IsInactive(c, d) /\ Resting(c, d) = h)
          PROVE  ~h.dirty
      <4>1. h.dbref = d /\ d # -1
        BY <1>0, <3>2, IsActiveIs, Constants
      <4>2. h \in UNION {Range(c.active[n]) \cup Range(c.inactive[n]) : n \in Chains}
        <5>1. Chain(d) \in Chains
          BY ChainIsOne
        <5>2. Act(c, d) \in Seq(Holder) /\ Inact(c, d) \in Seq(Holder)
          BY <1>0, ChainsOf DEF ChainsOK
        <5>3. h \in Range(Act(c, d)) \/ h \in Range(Inact(c, d))
          BY <1>0, <3>2, <5>2, IsActiveIs, OfNamed DEF Range, Resting
        <5> QED BY <5>1, <5>3 DEF Act, Inact
      <4> QED BY <2>3, <4>1, <4>2, Zenon
    <3>3. IsActive(c, d) => ~Holding(c, d).dirty
      <4> SUFFICES ASSUME IsActive(c, d) PROVE ~Holding(c, d).dirty
        OBVIOUS
      <4> PICK h : h = Holding(c, d)
        OBVIOUS
      <4>1. ~h.dirty
        BY <3>2
      <4> QED BY <4>1, Zenon
    <3>4. IsInactive(c, d) => ~Resting(c, d).dirty
      <4> SUFFICES ASSUME IsInactive(c, d) PROVE ~Resting(c, d).dirty
        OBVIOUS
      <4> PICK h : h = Resting(c, d)
        OBVIOUS
      <4>1. ~h.dirty
        BY <3>2
      <4> QED BY <4>1, Zenon
    <3>5. Agrees(c.store[d], objs[d])
      BY <2>1, <3>3, <3>4 DEF Fits, Keeps
    <3> QED BY <2>1, <3>1, <3>5
  <2> QED BY <2>2, <2>3
<1>5. WellFormed(after)
  <2>1. after.active \in [Chains -> Seq(Holder)] /\ after.inactive \in [Chains -> Seq(Holder)]
    BY <1>1, <1>2 DEF ChainsOK
  <2>2. after.store \in [Dbrefs -> Images]
    BY <1>1, <1>4
  <2>3. after \in Caches
    BY <1>1, <2>1, <2>2 DEF Caches
  <2> QED BY <1>2, <2>3 DEF WellFormed
<1>6. ASSUME NEW d \in Dbrefs PROVE Fits(after, d, refs[d], objs[d], d \in doomed)
  <2>1. Fits(c, d, refs[d], objs[d], d \in doomed) /\ Agrees(after.store[d], objs[d]) /\ Chain(d) \in Chains
    BY <1>0, <1>4, ChainIsOne
  <2>2. /\ Act(after, d) = after.active[Chain(d)] /\ Act(c, d) = c.active[Chain(d)]
        /\ Inact(after, d) = after.inactive[Chain(d)] /\ Inact(c, d) = c.inactive[Chain(d)]
    BY DEF Act, Inact
  <2>3. (IsActive(after, d) <=> IsActive(c, d)) /\ (IsInactive(after, d) <=> IsInactive(c, d))
    BY <1>0, <1>2, <1>5, <2>1, <2>2, IsActiveIs
  <2>4. ASSUME IsActive(c, d)
        PROVE  /\ Holding(after, d).refs = Holding(c, d).refs /\ Holding(after, d).val = Holding(c, d).val
               /\ Holding(after, d).dead = Holding(c, d).dead
    <3>1. Holding(c, d) \in Holder /\ d \in Named(c.active[Chain(d)])
      BY <1>0, <2>2, <2>4, IsActiveIs
    <3>2. Holding(after, d) = Of(after.active[Chain(d)], d) /\ Holding(c, d) = Of(c.active[Chain(d)], d)
      BY Zenon DEF Holding, Of, Act
    <3>3. Of(after.active[Chain(d)], d) = [Of(c.active[Chain(d)], d) EXCEPT !.dirty = FALSE]
      BY <1>2, <2>1, <3>1, Zenon
    <3>4. Holding(after, d) = [Holding(c, d) EXCEPT !.dirty = FALSE]
      BY <3>2, <3>3, Zenon
    <3> QED BY <3>1, <3>4 DEF Holder
  <2>5. ASSUME IsInactive(c, d)
        PROVE  Resting(after, d).val = Resting(c, d).val /\ Resting(after, d).dead = Resting(c, d).dead
    <3>1. Resting(c, d) \in Holder /\ d \in Named(c.inactive[Chain(d)])
      BY <1>0, <2>2, <2>5, IsActiveIs
    <3>2. Resting(after, d) = [Resting(c, d) EXCEPT !.dirty = FALSE]
      BY <1>2, <2>1, <2>2, <3>1 DEF Resting
    <3> QED BY <3>1, <3>2 DEF Holder
  <2> QED BY <2>1, <2>3, <2>4, <2>5 DEF Fits, Keeps
<1>7. Tracks(after, refs, objs, doomed)
  BY <1>5, <1>6 DEF Tracks
<1>8. Bounded(c) => Bounded(after)
  BY <1>2 DEF Bounded
<1> QED BY <1>1, <1>4, <1>7, <1>8

-----------------------------------------------------------------------------
(* Opening a database: until something changes, nothing is written.          *)
LEMMA StaysPristine ==
    ASSUME NEW c, Pristine(c), NEW after, NEW d \in Dbrefs, after.clean = c.clean,
           \A e \in Dbrefs \ {d} : Stays(c, after, e),
           IsActive(after, d) => ~Holding(after, d).dirty,
           IsInactive(after, d) => ~Resting(after, d).dirty
    PROVE  Pristine(after)
<1>1. ASSUME NEW e \in Dbrefs
      PROVE  /\ IsActive(after, e) => ~Holding(after, e).dirty
             /\ IsInactive(after, e) => ~Resting(after, e).dirty
  <2>1. CASE e = d
    BY <2>1
  <2>2. CASE e # d
    <3>1. Same(c, after, e) \/ SwappedOut(c, after, e)
      BY <2>2 DEF Stays
    <3>2. (IsActive(c, e) => ~Holding(c, e).dirty) /\ (IsInactive(c, e) => ~Resting(c, e).dirty)
      BY DEF Pristine
    <3>3. CASE Same(c, after, e)
      BY <3>2, <3>3, Zenon DEF Same
    <3>4. CASE SwappedOut(c, after, e)
      BY <3>4, Zenon DEF SwappedOut
    <3> QED BY <3>1, <3>3, <3>4
  <2> QED BY <2>1, <2>2
<1>2. after.clean
  BY DEF Pristine
<1> QED BY <1>1, <1>2 DEF Pristine

LEMMA RetrievePristine ==
    ASSUME NEW c, WellFormed(c), Pristine(c), NEW d \in Dbrefs
    PROVE  Pristine(Retrieve(c, d))
<1> PICK after : after = Retrieve(c, d)
  OBVIOUS
<1>1. Retrieved(c, after, d)
  BY RetrieveIs
<1>2. after.clean = c.clean /\ WellFormed(after) /\ \A e \in Dbrefs \ {d} : Stays(c, after, e)
  BY <1>1, Zenon DEF Retrieved, Does
<1>3. (IsActive(c, d) => ~Holding(c, d).dirty) /\ (IsInactive(c, d) => ~Resting(c, d).dirty)
  BY DEF Pristine
<1>4. /\ IsActive(after, d) => ~Holding(after, d).dirty
      /\ IsInactive(after, d) => ~Resting(after, d).dirty
  <2>1. CASE IsActive(c, d)
    <3>1. IsActive(after, d) /\ Holding(after, d) = [Holding(c, d) EXCEPT !.refs = @ + 1]
      BY <1>1, <2>1, Zenon DEF Retrieved
    <3>2. Holding(c, d) \in Holder /\ ~IsInactive(after, d)
      BY <1>2, <2>1, <3>1, IsActiveIs
    <3>3. Holding(after, d).dirty = Holding(c, d).dirty
      BY <3>1, <3>2 DEF Holder
    <3> QED BY <1>3, <2>1, <3>2, <3>3
  <2>2. CASE IsInactive(c, d)
    <3>1. IsActive(after, d) /\ Holding(after, d) = [Resting(c, d) EXCEPT !.refs = 1]
      BY <1>1, <2>2, Zenon DEF Retrieved
    <3>2. Resting(c, d) \in Holder /\ ~IsInactive(after, d)
      BY <1>2, <2>2, <3>1, IsActiveIs
    <3>3. Holding(after, d).dirty = Resting(c, d).dirty
      BY <3>1, <3>2 DEF Holder
    <3> QED BY <1>3, <2>2, <3>2, <3>3
  <2>3. CASE ~IsActive(c, d) /\ ~IsInactive(c, d) /\ c.store[d] # NoObj
    <3>1. IsActive(after, d) /\ Holding(after, d) = [New(d) EXCEPT !.val = c.store[d]]
      BY <1>1, <2>3, Zenon DEF Retrieved
    <3>2. ~IsInactive(after, d)
      BY <1>2, <3>1, IsActiveIs
    <3>3. Holding(after, d).dirty = FALSE
      BY <3>1 DEF New
    <3> QED BY <3>2, <3>3
  <2>4. CASE ~IsActive(c, d) /\ ~IsInactive(c, d) /\ c.store[d] = NoObj
    BY <1>1, <2>4, Zenon DEF Retrieved
  <2> QED BY <2>1, <2>2, <2>3, <2>4
<1>5. Pristine(after)
  BY <1>2, <1>4, StaysPristine
<1> QED BY <1>5

LEMMA ReleasePristine ==
    ASSUME NEW c, NEW refs, NEW objs, NEW doomed, Tracks(c, refs, objs, doomed), Pristine(c),
           NEW d \in Dbrefs, refs[d] > 0
    PROVE  Pristine(Release(c, d))
<1> PICK g : g = Holding(c, d)
  OBVIOUS
<1> PICK h : h = [g EXCEPT !.refs = @ - 1]
  OBVIOUS
<1> PICK after : after = Release(c, d)
  OBVIOUS
<1>0. WellFormed(c) /\ refs[d] \in Nat
  BY FitsOf
<1>1. Held(c, d, g, refs[d], objs[d], d \in doomed)
  BY HeldIs
<1>2. g \in Holder /\ g.dbref = d /\ g.refs = refs[d] /\ IsActive(c, d)
  BY <1>1, Zenon DEF Held
<1>3. h \in Holder /\ h.dbref = d /\ h.dirty = g.dirty
  BY <1>0, <1>2 DEF Holder
<1>4. ~h.dirty
  BY <1>2, <1>3 DEF Pristine
<1>5. after = IF h.refs # 0 THEN Edit(c, d, h) ELSE Deactivate(c, d, h)
  BY Zenon DEF Release, Edit, Deactivate, Holding, Act, Inact, Without, Ahead
<1>6. CASE h.refs # 0
  <2>1. Activity(c, Edit(c, d, h), d, h)
    BY <1>0, <1>2, <1>3, Edited
  <2>2. Activity(c, after, d, h)
    BY <1>5, <1>6, <2>1, Zenon
  <2>3. /\ WellFormed(after) /\ (\A e \in Dbrefs \ {d} : Stays(c, after, e)) /\ after.clean = c.clean
        /\ IsActive(after, d) /\ Holding(after, d) = h
    BY <2>2, Zenon DEF Activity, Does
  <2>4. ~IsInactive(after, d)
    BY <2>3, IsActiveIs
  <2>5. Pristine(after)
    BY <1>4, <2>3, <2>4, StaysPristine
  <2> QED BY <2>5
<1>7. CASE h.refs = 0
  <2>1. Inactivity(c, Deactivate(c, d, h), d, h)
    BY <1>0, <1>2, <1>3, Deactivated
  <2>2. Inactivity(c, after, d, h)
    BY <1>5, <1>7, <2>1, Zenon
  <2>3. /\ (\A e \in Dbrefs \ {d} : Stays(c, after, e)) /\ after.clean = c.clean
        /\ ~IsActive(after, d) /\ Resting(after, d) = h
    BY <2>2, Zenon DEF Inactivity, Does
  <2>4. Pristine(after)
    BY <1>4, <2>3, StaysPristine
  <2> QED BY <2>4
<1> QED BY <1>6, <1>7

LEMMA EnsuredThere ==
    ASSUME NEW c, NEW refs, NEW objs, NEW doomed, Tracks(c, refs, objs, doomed), NEW d \in Dbrefs,
           objs[d] # NoObj, refs[d] = 0, NEW v, NEW kin
    PROVE  /\ Brings(c, Ensured(c, d, v, kin), refs, objs, doomed)
           /\ Pristine(c) => Pristine(Ensured(c, d, v, kin))
<1> PICK b : b = Retrieve(c, d)
  OBVIOUS
<1> PICK after : after = Release(b, d)
  OBVIOUS
<1> PICK more : more = At(refs, d, refs[d] + 1)
  OBVIOUS
<1>0. /\ WellFormed(c) /\ refs \in [Dbrefs -> Nat] /\ At(refs, d, refs[d]) = refs
      /\ Fits(c, d, refs[d], objs[d], d \in doomed)
  BY FitsOf DEF Tracks
<1>1. Leads(c, b, more, objs, doomed)
  BY RetrieveTracks
<1>2. Tracks(b, more, objs, doomed)
  BY <1>1 DEF Leads
<1>3. more[d] = 1 /\ more[d] > 0 /\ more[d] - 1 = 0
  <2>1. more[d] = refs[d] + 1
    BY <1>0, AtAt
  <2> QED BY <2>1
<1>4. d \notin doomed
  BY <1>0 DEF Fits
<1>5. Leads(b, after, At(more, d, more[d] - 1), objs, doomed)
  BY <1>2, <1>3, <1>4, ReleaseTracks
<1>6. At(more, d, more[d] - 1) = refs
  <2>1. At(more, d, 0) = At(refs, d, 0)
    BY <1>0, AtAt
  <2> QED BY <1>0, <1>3, <2>1, Zenon
<1>7. Leads(c, after, refs, objs, doomed)
  <2>1. Leads(c, after, At(more, d, more[d] - 1), objs, doomed)
    BY <1>0, <1>1, <1>5, LeadsTwice
  <2> QED BY <1>6, <2>1, Zenon
<1>8. Brings(c, after, refs, objs, doomed)
  BY <1>0, <1>7, LeadsBrings
<1>9. Pristine(c) => Pristine(after)
  <2>1. Pristine(c) => Pristine(b)
    BY <1>0, RetrievePristine
  <2>2. Pristine(b) => Pristine(after)
    BY <1>2, <1>3, ReleasePristine
  <2> QED BY <2>1, <2>2
<1>10. Ensured(c, d, v, kin) = after
  <2>1. Exists(c, d)
    BY ExistsIs
  <2> QED BY <2>1, Zenon DEF Ensured
<1> QED BY <1>8, <1>9, <1>10, Zenon

LEMMA CreatedTracks ==
    ASSUME NEW c, NEW refs, NEW objs, NEW doomed, Tracks(c, refs, objs, doomed), NEW d \in Dbrefs,
           objs[d] = NoObj, NEW v \in Values, NEW kin, kin \in Kins(objs, d)
    PROVE  Brings(c, Release(NewObject(c, d, v, kin), d), refs, After(At(objs, d, v), kin), doomed)
<1> PICK b : b = NewObject(c, d, v, kin)
  OBVIOUS
<1> PICK after : after = Release(b, d)
  OBVIOUS
<1> PICK made : made = After(At(objs, d, v), kin)
  OBVIOUS
<1>0. /\ WellFormed(c) /\ refs \in [Dbrefs -> Nat] /\ At(refs, d, refs[d]) = refs
      /\ Fits(c, d, refs[d], objs[d], d \in doomed)
  BY FitsOf DEF Tracks
<1>1. refs[d] = 0 /\ d \notin doomed
  BY <1>0 DEF Fits, Keeps
<1>2. Brings(c, b, At(refs, d, 1), made, doomed)
  BY NewObjectTracks
<1>3. Tracks(b, At(refs, d, 1), made, doomed)
  BY <1>2 DEF Brings
<1> PICK more : more = At(refs, d, 1)
  OBVIOUS
<1>4. more[d] = 1 /\ more[d] > 0 /\ more[d] - 1 = 0
  <2>1. more[d] = 1
    BY <1>0, AtAt
  <2> QED BY <2>1
<1>5. Leads(b, after, At(more, d, more[d] - 1), made, doomed)
  BY <1>1, <1>3, <1>4, ReleaseTracks
<1>6. At(more, d, more[d] - 1) = refs
  <2>1. At(more, d, 0) = At(refs, d, 0)
    BY <1>0, AtAt
  <2> QED BY <1>0, <1>1, <1>4, <2>1, Zenon
<1>7. Brings(b, after, refs, made, doomed)
  <2>1. WellFormed(b)
    BY <1>3 DEF Tracks
  <2>2. Brings(b, after, At(more, d, more[d] - 1), made, doomed)
    BY <1>5, <2>1, LeadsBrings
  <2> QED BY <1>6, <2>2, Zenon
<1>8. Brings(c, after, refs, made, doomed)
  BY <1>2, <1>7, BringsTwice
<1> QED BY <1>8

LEMMA EnsuredNew ==
    ASSUME NEW c, NEW refs, NEW objs, NEW doomed, Tracks(c, refs, objs, doomed), NEW d \in Dbrefs,
           objs[d] = NoObj, NEW v \in Values, NEW kin, kin \in Kins(objs, d)
    PROVE  Brings(c, Ensured(c, d, v, kin), refs, After(At(objs, d, v), kin), doomed)
<1>1. Brings(c, Release(NewObject(c, d, v, kin), d), refs, After(At(objs, d, v), kin), doomed)
  BY CreatedTracks
<1>2. Ensured(c, d, v, kin) = Release(NewObject(c, d, v, kin), d)
  <2>1. ~Exists(c, d)
    BY ExistsIs
  <2> QED BY <2>1, Zenon DEF Ensured
<1> QED BY <1>1, <1>2, Zenon

LEMMA HoldBothTracks ==
    ASSUME NEW c, NEW refs, NEW objs, NEW doomed, Tracks(c, refs, objs, doomed),
           objs[SYSTEM_DBREF] # NoObj, objs[ROOT_DBREF] # NoObj
    PROVE  /\ Brings(c, HoldBoth(c), At(At(refs, SYSTEM_DBREF, refs[SYSTEM_DBREF] + 1), ROOT_DBREF, refs[ROOT_DBREF] + 1),
                     objs, doomed)
           /\ Pristine(c) => Pristine(HoldBoth(c))
<1> PICK s \in Dbrefs, t \in Dbrefs : s = SYSTEM_DBREF /\ t = ROOT_DBREF /\ s # t
  BY Constants
<1> PICK b : b = Retrieve(c, s)
  OBVIOUS
<1> PICK after : after = Retrieve(b, t)
  OBVIOUS
<1> PICK more : more = At(refs, s, refs[s] + 1)
  OBVIOUS
<1>0. WellFormed(c) /\ refs \in [Dbrefs -> Nat]
  BY DEF Tracks
<1>1. Leads(c, b, more, objs, doomed)
  BY RetrieveTracks, Zenon
<1>2. Tracks(b, more, objs, doomed) /\ WellFormed(b)
  BY <1>1 DEF Leads, Tracks
<1>3. Leads(b, after, At(more, t, more[t] + 1), objs, doomed)
  BY <1>2, RetrieveTracks, Zenon
<1>4. more[t] = refs[t]
  <2>1. t # s /\ t \in DOMAIN refs
    BY <1>0
  <2>2. At(refs, s, refs[s] + 1)[t] = refs[t]
    BY <1>0, <2>1 DEF At
  <2> QED BY <2>2
<1>5. Leads(c, after, At(more, t, refs[t] + 1), objs, doomed)
  <2>1. Leads(c, after, At(more, t, more[t] + 1), objs, doomed)
    BY <1>0, <1>1, <1>3, LeadsTwice
  <2> QED BY <1>4, <2>1, Zenon
<1>6. Brings(c, after, At(more, t, refs[t] + 1), objs, doomed)
  BY <1>0, <1>5, LeadsBrings
<1>7. Pristine(c) => Pristine(after)
  BY <1>0, <1>2, RetrievePristine
<1>8. HoldBoth(c) = after
  BY Zenon DEF HoldBoth
<1> QED BY <1>6, <1>7, <1>8, Zenon

(* init_cache and init_db, over the disk that is there.                      *)
Opened(disk) == [active |-> NoChains,
                 inactive |-> [n \in Chains |-> [i \in 1 .. CACHE_DEPTH |-> Empty]],
                 store |-> disk, clean |-> TRUE]

LEMMA EmptyChain ==
    ASSUME NEW s \in Seq(Holder), \A i \in DOMAIN s : s[i].dbref = -1
    PROVE  Distinct(s) /\ Named(s) = {}
  BY DEF Distinct, Named

LEMMA OpenedTracks ==
    ASSUME NEW disk \in [Dbrefs -> Images]
    PROVE  Tracks(Opened(disk), Unheld, disk, {}) /\ Pristine(Opened(disk)) /\ Bounded(Opened(disk))
<1> PICK c : c = Opened(disk)
  OBVIOUS
<1> PICK w : w = [i \in 1 .. CACHE_DEPTH |-> Empty]
  OBVIOUS
<1>1. w \in Seq(Holder) /\ Len(w) = CACHE_DEPTH /\ \A i \in DOMAIN w : w[i].dbref = -1
  BY HoldersThere, Constants
<1>2. Distinct(w) /\ Named(w) = {}
  BY <1>1, EmptyChain
<1> PICK u : u = <<>>
  OBVIOUS
<1>3. u \in Seq(Holder) /\ Distinct(u) /\ Named(u) = {} /\ Occupied(u) /\ Len(u) = 0
  BY DEF Distinct, Named, Occupied
<1>4. /\ c.active = [n \in Chains |-> u] /\ c.inactive = [n \in Chains |-> w] /\ c.store = disk /\ c.clean = TRUE
      /\ c = [active |-> c.active, inactive |-> c.inactive, store |-> disk, clean |-> TRUE]
  BY DEF Opened, NoChains
<1>5. WellFormed(c)
  <2>1. c \in Caches
    <3>1. c.active \in [Chains -> Seq(Holder)] /\ c.inactive \in [Chains -> Seq(Holder)]
      <4>1. [n \in Chains |-> u] \in [Chains -> Seq(Holder)]
        BY <1>3
      <4>2. [n \in Chains |-> w] \in [Chains -> Seq(Holder)]
        BY <1>1
      <4> QED BY <1>4, <4>1, <4>2, Zenon
    <3>2. TRUE \in BOOLEAN
      OBVIOUS
    <3>3. [active |-> c.active, inactive |-> c.inactive, store |-> disk, clean |-> TRUE] \in Caches
      BY <3>1, <3>2, Zenon DEF Caches
    <3> QED BY <1>4, <3>3, Zenon
  <2>2. \A n \in Chains : c.active[n] = u /\ c.inactive[n] = w
    BY <1>4
  <2>3. \A n \in Chains : ChainsOK(u, w, n)
    BY <1>1, <1>2, <1>3 DEF ChainsOK
  <2> QED BY <2>1, <2>2, <2>3, Zenon DEF WellFormed
<1>6. ASSUME NEW d \in Dbrefs PROVE ~IsActive(c, d) /\ ~IsInactive(c, d)
  <2>1. Act(c, d) = u /\ Inact(c, d) = w
    BY <1>4, ChainIsOne DEF Act, Inact
  <2> QED BY <1>2, <1>3, <1>5, <2>1, IsActiveIs
<1>7. Tracks(c, Unheld, disk, {})
  <2>1. ASSUME NEW d \in Dbrefs PROVE Fits(c, d, Unheld[d], disk[d], d \in {})
    <3>1. Unheld[d] = 0 /\ Agrees(c.store[d], disk[d])
      <4>1. c.store = disk /\ disk[d] \in Images
        BY <1>4
      <4> QED BY <4>1, AgreesSelf DEF Unheld
    <3> QED BY <1>6, <3>1 DEF Fits
  <2>2. Unheld \in [Dbrefs -> Nat]
    BY DEF Unheld
  <2>3. disk \in [Dbrefs -> Records] /\ {} \subseteq Dbrefs
    BY RecordsAre
  <2> QED BY <1>5, <2>1, <2>2, <2>3 DEF Tracks
<1>8. Pristine(c)
  BY <1>4, <1>6 DEF Pristine
<1>9. Bounded(c)
  <2>1. ASSUME NEW n \in Chains PROVE Size(c, n) <= CACHE_DEPTH
    <3>1. c.active[n] = u /\ c.inactive[n] = w
      BY <1>4
    <3>2. Size(c, n) = 0 + CACHE_DEPTH
      BY <1>1, <1>3, <3>1 DEF Size
    <3> QED BY <3>2, Constants
  <2> QED BY <2>1 DEF Bounded
<1> QED BY <1>7, <1>8, <1>9, Zenon

-----------------------------------------------------------------------------
(* The invariant: the cache tracks the references that are counted, the      *)
(* objects last stored and those that die with their last reference; a       *)
(* database at rest has the objects that its mark vouches for; and the two   *)
(* objects that must never leave the cache are there and do not die.         *)
Essential == {SYSTEM_DBREF, ROOT_DBREF}
Counts == [d \in Dbrefs |-> References(d)]
Doomed == {d \in Dbrefs : IsActive(Cache, d) /\ Holding(Cache, d).dead}

Typed ==
    /\ phase \in {"down", "loading", "running"} /\ WellFormed(Cache)
    /\ db_top \in Nat /\ held \in [Dbrefs -> Nat] /\ leaked \subseteq Dbrefs
    /\ objects \in [Dbrefs -> Records] /\ saved \in [Dbrefs -> Records]

Loading(obj) == [d \in Dbrefs |-> IF d = obj THEN 1 ELSE 0]

Counted ==
    /\ phase # "running" => leaked = {}
    /\ phase # "down" => torn = {}
    /\ phase # "loading" => loadObj = -1
    /\ phase = "down" => held = Unheld
    /\ phase = "loading" => loadObj \in Dbrefs \cup {-1} /\ held = Loading(loadObj)

Tracked == phase # "down" => Tracks(Cache, Counts, objects, Doomed)

AtRest == phase = "down" => /\ active = NoChains /\ inactive = NoChains
                            /\ clean => \A d \in Dbrefs \ torn : Agrees(store[d], objects[d])
                            /\ ~clean => objects = Nothing

Vouched == /\ clean => \A d \in Dbrefs \ torn : Agrees(store[d], saved[d])
           /\ ~clean => saved = Nothing

Stands(objs, doomed) == \A d \in Essential : objs[d] # NoObj /\ d \notin doomed
Whole(objs) == objs = Nothing \/ \A d \in Essential : objs[d] # NoObj
Kernel == /\ phase # "down" => Stands(objects, Doomed)
          /\ clean => Whole(store)

Inv == Typed /\ Counted /\ Tracked /\ AtRest /\ Vouched /\ Kernel /\ Bounded(Cache) /\ TopIsFree

LEMMA CountsIs ==
    ASSUME held \in [Dbrefs -> Nat]
    PROVE  /\ Counts \in [Dbrefs -> Nat]
           /\ \A d \in Dbrefs : Counts[d] = held[d] + IF d \in leaked THEN 1 ELSE 0
           /\ \A d \in Dbrefs : held[d] <= Counts[d]
  BY DEF Counts, References

LEMMA CountsMore ==
    ASSUME held \in [Dbrefs -> Nat], NEW d \in Dbrefs, NEW n \in Int,
           held' = At(held, d, held[d] + n), leaked' = leaked
    PROVE  Counts' = At(Counts, d, Counts[d] + n)
<1>1. ASSUME NEW e \in Dbrefs
      PROVE  References(e)' = IF e = d THEN References(d) + n ELSE References(e)
  BY DEF References, At
<1>2. Counts' = [e \in Dbrefs |-> References(e)']
  BY DEF Counts
<1>3. At(Counts, d, Counts[d] + n) = [e \in Dbrefs |-> IF e = d THEN References(d) + n ELSE References(e)]
  BY DEF Counts, At
<1> QED BY <1>1, <1>2, <1>3

LEMMA CountsSame ==
    ASSUME held' = held, leaked' = leaked PROVE Counts' = Counts
  BY DEF Counts, References

LEMMA CountsLeaked ==
    ASSUME held \in [Dbrefs -> Nat], NEW d \in Dbrefs, d \notin leaked,
           held' = held, leaked' = leaked \cup {d}
    PROVE  Counts' = At(Counts, d, Counts[d] + 1)
<1>1. ASSUME NEW e \in Dbrefs
      PROVE  References(e)' = IF e = d THEN References(d) + 1 ELSE References(e)
  BY DEF References
<1>2. Counts' = [e \in Dbrefs |-> References(e)']
  BY DEF Counts
<1>3. At(Counts, d, Counts[d] + 1) = [e \in Dbrefs |-> IF e = d THEN References(d) + 1 ELSE References(e)]
  BY DEF Counts, At
<1> QED BY <1>1, <1>2, <1>3

LEMMA DoomedIs ==
    ASSUME NEW c, NEW refs, NEW objs, NEW doomed, Tracks(c, refs, objs, doomed)
    PROVE  doomed = {d \in Dbrefs : IsActive(c, d) /\ Holding(c, d).dead}
<1>1. doomed \subseteq Dbrefs /\ \A d \in Dbrefs : Fits(c, d, refs[d], objs[d], d \in doomed)
  BY DEF Tracks
<1>2. ASSUME NEW d \in Dbrefs
      PROVE  d \in doomed <=> IsActive(c, d) /\ Holding(c, d).dead
  <2>1. CASE d \in doomed
    BY <1>1, <2>1 DEF Fits
  <2>2. CASE d \notin doomed
    BY <1>1, <2>2 DEF Fits
  <2> QED BY <2>1, <2>2
<1> QED BY <1>1, <1>2

LEMMA CacheIs ==
    ASSUME NEW c, c \in Caches, Install(c) PROVE Cache' = c
<1>1. c = [active |-> c.active, inactive |-> c.inactive, store |-> c.store, clean |-> c.clean]
  BY DEF Caches
<1> QED BY <1>1 DEF Install, Cache

(* What a step has to be to leave a cache of which the invariant holds.      *)
Follows(c, doomed) ==
    /\ Tracks(c, Counts', objects', doomed) /\ Bounded(c)
    /\ Stands(objects', doomed)

LEMMA ServingIs ==
    ASSUME phase # "down", Inv
    PROVE  /\ Tracks(Cache, Counts, objects, Doomed) /\ Stands(objects, Doomed) /\ Bounded(Cache)
           /\ WellFormed(Cache) /\ held \in [Dbrefs -> Nat] /\ Counts \in [Dbrefs -> Nat]
           /\ objects \in [Dbrefs -> Records] /\ db_top \in Nat
  BY CountsIs DEF Inv, Typed, Tracked, Kernel

LEMMA StepsOn ==
    ASSUME Inv, phase # "down", phase' \in {"loading", "running"},
           NEW c, NEW doomed, Follows(c, doomed), Marks(Cache, c), Become(c),
           Counted', TopIsFree', db_top' \in Nat,
           held' \in [Dbrefs -> Nat], leaked' \subseteq Dbrefs, torn' = torn
    PROVE  Inv'
<1>1. c \in Caches /\ WellFormed(c) /\ objects' \in [Dbrefs -> Records] /\ Tracks(c, Counts', objects', doomed)
      /\ Bounded(c) /\ Stands(objects', doomed)
  BY DEF Follows, Tracks, WellFormed
<1>2. Cache' = c /\ store' = c.store /\ clean' = c.clean
  BY <1>1, CacheIs DEF Become, Install
<1>3. Doomed' = doomed
  <2>1. doomed = {d \in Dbrefs : IsActive(c, d) /\ Holding(c, d).dead}
    BY <1>1, DoomedIs
  <2> QED BY <1>2, <2>1 DEF Doomed
<1>4. Typed'
  <2>1. saved' \in [Dbrefs -> Records]
    BY RecordsAre DEF Become, Nothing, Inv, Typed
  <2>2. WellFormed(Cache)'
    BY <1>1, <1>2
  <2> QED BY <1>1, <2>1, <2>2 DEF Typed
<1>5. Tracked' /\ Bounded(Cache)'
  BY <1>1, <1>2, <1>3 DEF Tracked
<1>6. AtRest'
  BY DEF AtRest
<1>7. Vouched'
  <2>1. CASE c.clean
    <3>1. clean /\ store' = store /\ clean'
      BY <1>2, <2>1 DEF Marks, Cache
    <3>2. saved' = saved
      BY <2>1 DEF Become
    <3> QED BY <3>1, <3>2 DEF Vouched, Inv
  <2>2. CASE ~c.clean
    <3>1. saved' = Nothing /\ ~clean'
      BY <1>2, <2>2 DEF Become
    <3> QED BY <3>1 DEF Vouched
  <2> QED BY <2>1, <2>2
<1>8. Kernel'
  <2>1. clean' => Whole(store')
    <3>1. clean' => clean /\ store' = store
      BY <1>2 DEF Marks, Cache
    <3> QED BY <3>1 DEF Kernel, Inv
  <2> QED BY <1>1, <1>3, <2>1 DEF Kernel
<1> QED BY <1>4, <1>5, <1>6, <1>7, <1>8 DEF Inv


-----------------------------------------------------------------------------
(* The steps.                                                                *)
LEMMA TopIsAbove ==
    ASSUME Inv, phase # "down", db_top' = db_top, objects' \in [Dbrefs -> Records],
           \A d \in Dbrefs : objects[d] = NoObj => objects'[d] = NoObj
    PROVE  TopIsFree'
<1>1. \A d \in Dbrefs : objects[d] # NoObj => d < db_top
  BY DEF Inv, TopIsFree
<1> QED BY <1>1 DEF TopIsFree

LEMMA FetchKeeps ==
    ASSUME Inv, "paused_eval" \notin Scripts, NEW d \in Dbrefs, Fetch(d)
    PROVE  Inv'
<1> PICK c : c = Retrieve(Cache, d)
  OBVIOUS
<1>0. /\ phase = "running" /\ phase # "down" /\ phase' = phase /\ db_top' = db_top /\ loadObj' = loadObj
      /\ leaked' = leaked /\ torn' = torn /\ objects' = objects /\ Become(c)
      /\ held' = IF Exists(Cache, d) THEN [held EXCEPT ![d] = @ + 1] ELSE held
  BY DEF Fetch, Executing
<1>1. /\ Tracks(Cache, Counts, objects, Doomed) /\ Stands(objects, Doomed) /\ Bounded(Cache)
      /\ WellFormed(Cache) /\ held \in [Dbrefs -> Nat]
  BY <1>0, ServingIs
<1>2. Exists(Cache, d) <=> objects[d] # NoObj
  BY <1>1, ExistsIs
<1>3. Brings(Cache, c, Counts', objects, Doomed) /\ held' \in [Dbrefs -> Nat]
  <2>1. CASE objects[d] # NoObj
    <3>1. Leads(Cache, c, At(Counts, d, Counts[d] + 1), objects, Doomed)
      BY <1>1, <2>1, RetrieveTracks
    <3>2. Counts' = At(Counts, d, Counts[d] + 1)
      <4>1. held' = At(held, d, held[d] + 1) /\ leaked' = leaked /\ 1 \in Int
        BY <1>0, <1>2, <2>1 DEF At
      <4> QED BY <1>1, <4>1, CountsMore, Zenon
    <3>3. Leads(Cache, c, Counts', objects, Doomed)
      BY <3>1, <3>2, Zenon
    <3> QED BY <1>0, <1>1, <1>2, <2>1, <3>3, LeadsBrings
  <2>2. CASE objects[d] = NoObj
    <3>1. Leads(Cache, c, Counts, objects, Doomed)
      BY <1>1, <2>2, RetrieveTracks
    <3>2. Counts' = Counts
      BY <1>0, <1>2, <2>2, CountsSame
    <3>3. Leads(Cache, c, Counts', objects, Doomed)
      BY <3>1, <3>2, Zenon
    <3> QED BY <1>0, <1>1, <1>2, <2>2, <3>3, LeadsBrings
  <2> QED BY <2>1, <2>2
<1>4. Follows(c, Doomed) /\ Marks(Cache, c)
  BY <1>0, <1>1, <1>3 DEF Brings, Follows
<1>5. Counted' /\ TopIsFree' /\ db_top' \in Nat /\ leaked' \subseteq Dbrefs
  <2>1. Counted'
    BY <1>0 DEF Inv, Counted
  <2>2. TopIsFree'
    BY <1>0 DEF Inv, TopIsFree
  <2> QED BY <1>0, <2>1, <2>2 DEF Inv, Typed
<1> QED BY <1>0, <1>3, <1>4, <1>5, StepsOn

(* Giving a reference back: the object lives on, or leaves with it.          *)
Lost(dies, objs, d, kin) == IF dies THEN After(At(objs, d, NoObj), kin) ELSE objs
Outlived(dies, doomed, d) == IF dies THEN doomed \ {d} ELSE doomed

LEMMA LostIs ==
    ASSUME NEW dies \in BOOLEAN, NEW objs \in [Dbrefs -> Records], NEW d \in Dbrefs,
           NEW kin \in KinIf(dies, objs, d)
    PROVE  /\ Lost(dies, objs, d, kin) \in [Dbrefs -> Records]
           /\ \A e \in Dbrefs : objs[e] = NoObj => Lost(dies, objs, d, kin)[e] = NoObj
           /\ \A e \in Dbrefs : e # d /\ objs[e] # NoObj => Lost(dies, objs, d, kin)[e] # NoObj
           /\ ~dies => Lost(dies, objs, d, kin) = objs
           /\ dies => Lost(dies, objs, d, kin)[d] = NoObj
<1>1. CASE dies
  <2> PICK o : o = At(objs, d, NoObj)
    OBVIOUS
  <2>1. o \in [Dbrefs -> Records] /\ o[d] = NoObj /\ \A e \in Dbrefs : e # d => o[e] = objs[e]
    BY RecordsAre DEF At
  <2>2. kin \in Kins(o, d)
    <3>1. kin \in Kins(objs, d)
      BY <1>1, KinOfKins DEF KinIf
    <3> QED BY <2>1, <3>1 DEF Kins
  <2>3. /\ After(o, kin) \in [Dbrefs -> Records] /\ After(o, kin)[d] = o[d]
        /\ \A e \in Dbrefs : After(o, kin)[e] = NoObj <=> o[e] = NoObj
    BY <2>1, <2>2, AfterIs
  <2>4. Lost(dies, objs, d, kin) = After(o, kin)
    BY <1>1 DEF Lost
  <2> QED BY <1>1, <2>1, <2>3, <2>4
<1>2. CASE ~dies
  BY <1>2 DEF Lost
<1> QED BY <1>1, <1>2

LEMMA DiscardedTracks ==
    ASSUME NEW c, NEW refs, NEW objs, NEW doomed, Tracks(c, refs, objs, doomed), NEW d \in Dbrefs, refs[d] > 0,
           NEW kin, kin \in KinIf(Dies(c, d), objs, d)
    PROVE  Brings(c, Discard(c, d, kin), At(refs, d, refs[d] - 1),
                  Lost(Dies(c, d), objs, d, kin), Outlived(Dies(c, d), doomed, d))
<1> PICK after : after = Discard(c, d, kin)
  OBVIOUS
<1>1. Dies(c, d) <=> refs[d] = 1 /\ d \in doomed
  BY DiesIs
<1>2. CASE Dies(c, d)
  <2>1. refs[d] = 1 /\ d \in doomed /\ refs[d] - 1 = 0
    BY <1>1, <1>2
  <2>2. kin \in Kins(objs, d)
    BY <1>2, KinOfKins DEF KinIf
  <2>3. Brings(c, after, At(refs, d, 0), After(At(objs, d, NoObj), kin), doomed \ {d})
    BY <2>1, <2>2, DiscardDying
  <2>4. Lost(Dies(c, d), objs, d, kin) = After(At(objs, d, NoObj), kin) /\ Outlived(Dies(c, d), doomed, d) = doomed \ {d}
    BY <1>2, Zenon DEF Lost, Outlived
  <2> QED BY <2>1, <2>3, <2>4, Zenon
<1>3. CASE ~Dies(c, d)
  <2>1. Brings(c, after, At(refs, d, refs[d] - 1), objs, doomed)
    BY <1>1, <1>3, DiscardTracks
  <2>2. Lost(Dies(c, d), objs, d, kin) = objs /\ Outlived(Dies(c, d), doomed, d) = doomed
    BY <1>3, Zenon DEF Lost, Outlived
  <2> QED BY <2>1, <2>2, Zenon
<1> QED BY <1>2, <1>3

(* An object that dies is none of the two.                                   *)
LEMMA StandsOn ==
    ASSUME NEW c, NEW refs, NEW objs, NEW doomed, Tracks(c, refs, objs, doomed), NEW d \in Dbrefs, refs[d] > 0,
           NEW kin \in KinIf(Dies(c, d), objs, d), Stands(objs, doomed)
    PROVE  Stands(Lost(Dies(c, d), objs, d, kin), Outlived(Dies(c, d), doomed, d))
<1>1. Dies(c, d) <=> refs[d] = 1 /\ d \in doomed
  BY DiesIs
<1>2. objs \in [Dbrefs -> Records] /\ Essential \subseteq Dbrefs /\ Dies(c, d) \in BOOLEAN
  BY Constants DEF Tracks, Essential, Dies, LastRef
<1>3. \A e \in Dbrefs : e # d /\ objs[e] # NoObj => Lost(Dies(c, d), objs, d, kin)[e] # NoObj
  BY <1>2, LostIs
<1>4. CASE Dies(c, d)
  <2>1. d \in doomed
    BY <1>1, <1>4
  <2>2. Outlived(Dies(c, d), doomed, d) = doomed \ {d}
    BY <1>4 DEF Outlived
  <2> QED BY <1>2, <1>3, <2>1, <2>2 DEF Stands
<1>5. CASE ~Dies(c, d)
  BY <1>5 DEF Lost, Outlived
<1> QED BY <1>4, <1>5


LEMMA DropKeeps ==
    ASSUME Inv, NEW d \in Dbrefs, Drop(d)
    PROVE  Inv'
<1> PICK dies \in BOOLEAN : dies = Dies(Cache, d)
  BY DEF Dies, LastRef
<1>0. /\ phase = "running" /\ phase # "down" /\ phase' = phase /\ db_top' = db_top /\ loadObj' = loadObj
      /\ leaked' = leaked /\ torn' = torn /\ held' = [held EXCEPT ![d] = @ - 1] /\ held[d] > Kept(d)
  BY DEF Drop
<1>1. /\ Tracks(Cache, Counts, objects, Doomed) /\ Stands(objects, Doomed) /\ Bounded(Cache)
      /\ WellFormed(Cache) /\ held \in [Dbrefs -> Nat] /\ objects \in [Dbrefs -> Records]
  BY <1>0, ServingIs
<1>2. PICK kin \in KinIf(dies, objects, d) :
         Become(Discard(Cache, d, kin)) /\ objects' = Killed(dies, d, kin)
  BY Zenon DEF Drop
<1> PICK c : c = Discard(Cache, d, kin)
  OBVIOUS
<1>3. held[d] > 0 /\ Counts[d] > 0
  <2>1. Kept(d) \in Nat
    BY <1>0 DEF Kept, BothHeld, Unheld
  <2> QED BY <1>0, <1>1, <2>1, CountsIs
<1>4. objects' = Lost(dies, objects, d, kin)
  BY <1>2 DEF Killed, Lost, At
<1>5. Brings(Cache, c, At(Counts, d, Counts[d] - 1), objects', Outlived(dies, Doomed, d))
  <2>1. Brings(Cache, c, At(Counts, d, Counts[d] - 1), Lost(dies, objects, d, kin), Outlived(dies, Doomed, d))
    BY <1>1, <1>2, <1>3, DiscardedTracks
  <2> QED BY <1>4, <2>1, Zenon
<1>6. Counts' = At(Counts, d, Counts[d] - 1) /\ held' \in [Dbrefs -> Nat]
  <2>1. held' = At(held, d, held[d] + (-1)) /\ -1 \in Int /\ held' \in [Dbrefs -> Nat]
    <3>1. held[d] \in Nat /\ held[d] - 1 = held[d] + (-1) /\ held[d] - 1 \in Nat
      BY <1>1, <1>3
    <3>2. held' = [held EXCEPT ![d] = held[d] - 1]
      BY <1>0
    <3>3. held' = At(held, d, held[d] + (-1))
      BY <3>1, <3>2, Zenon DEF At
    <3>4. held' \in [Dbrefs -> Nat]
      BY <1>1, <3>1, <3>2
    <3>5. -1 \in Int
      OBVIOUS
    <3> QED BY <3>3, <3>4, <3>5
  <2>2. Counts' = At(Counts, d, Counts[d] + (-1))
    BY <1>0, <1>1, <2>1, CountsMore, Zenon
  <2>3. Counts[d] + (-1) = Counts[d] - 1
    BY <1>1, CountsIs
  <2> QED BY <2>1, <2>2, <2>3
<1>7. Brings(Cache, c, Counts', objects', Outlived(dies, Doomed, d))
  BY <1>5, <1>6, Zenon
<1>8. Stands(objects', Outlived(dies, Doomed, d))
  <2>1. Stands(Lost(dies, objects, d, kin), Outlived(dies, Doomed, d))
    BY <1>1, <1>2, <1>3, StandsOn
  <2> QED BY <1>4, <2>1, Zenon
<1>9. Follows(c, Outlived(dies, Doomed, d)) /\ Marks(Cache, c)
  BY <1>1, <1>7, <1>8 DEF Brings, Follows
<1>10. Counted' /\ TopIsFree' /\ db_top' \in Nat /\ leaked' \subseteq Dbrefs
  <2>1. Counted'
    BY <1>0 DEF Inv, Counted
  <2>2. objects' \in [Dbrefs -> Records] /\ \A e \in Dbrefs : objects[e] = NoObj => objects'[e] = NoObj
    BY <1>1, <1>2, <1>4, LostIs
  <2>3. TopIsFree'
    BY <1>0, <2>2, TopIsAbove
  <2> QED BY <1>0, <2>1, <2>3 DEF Inv, Typed
<1> QED BY <1>0, <1>2, <1>6, <1>9, <1>10, StepsOn

LEMMA ChangesKeep ==
    ASSUME Inv, NEW d \in Dbrefs, NEW v \in Values, Modify(d, v) \/ AssignVar(d, v)
    PROVE  Inv'
<1>1. PICK c, x : /\ (c = Set(Cache, d, v) /\ x = v) \/ (c = Assign(Cache, d, v) /\ x = Stored(Cache, d, v))
                  /\ Changing(d) /\ Changed(c, d, x)
  BY Zenon DEF Modify, AssignVar
<1>0. /\ phase # "down" /\ held[d] > 0 /\ phase' = phase /\ db_top' = db_top /\ loadObj' = loadObj
      /\ held' = held /\ leaked' = leaked /\ torn' = torn /\ Become(c)
      /\ objects' = At(objects, d, x)
  BY <1>1, Zenon DEF Changing, Changed, At
<1>2. /\ Tracks(Cache, Counts, objects, Doomed) /\ Stands(objects, Doomed) /\ Bounded(Cache)
      /\ WellFormed(Cache) /\ held \in [Dbrefs -> Nat] /\ objects \in [Dbrefs -> Records]
  BY <1>0, ServingIs
<1>3. Counts[d] > 0 /\ Counts' = Counts
  <2>1. held[d] \in Nat /\ held[d] <= Counts[d] /\ Counts[d] \in Nat
    BY <1>2, CountsIs
  <2>2. Counts' = Counts
    BY <1>0, CountsSame
  <2> QED BY <1>0, <2>1, <2>2
<1>4. Brings(Cache, c, Counts', objects', Doomed)
  <2>1. Leads(Cache, c, Counts, At(objects, d, x), Doomed)
    <3>1. CASE c = Set(Cache, d, v) /\ x = v
      BY <1>2, <1>3, <3>1, SetTracks
    <3>2. CASE c = Assign(Cache, d, v) /\ x = Stored(Cache, d, v)
      BY <1>2, <1>3, <3>2, AssignTracks
    <3> QED BY <1>1, <3>1, <3>2
  <2>2. Brings(Cache, c, Counts, At(objects, d, x), Doomed)
    BY <1>2, <2>1, LeadsBrings
  <2> QED BY <1>0, <1>3, <2>2, Zenon
<1>5. objects[d] # NoObj /\ x # NoObj /\ x \in Records
  <2>1. Held(Cache, d, Holding(Cache, d), Counts[d], objects[d], d \in Doomed)
    BY <1>2, <1>3, HeldIs
  <2>2. v \in Records /\ v # NoObj /\ <<v>> \in Records /\ <<v>> # NoObj
    BY RecordsAre DEF Images
  <2> QED BY <1>1, <2>1, <2>2 DEF Held, Keeps, Stored
<1>6. objects' \in [Dbrefs -> Records] /\ \A e \in Dbrefs : objects'[e] = NoObj <=> objects[e] = NoObj
  BY <1>0, <1>2, <1>5 DEF At
<1>7. Stands(objects', Doomed)
  <2>1. Essential \subseteq Dbrefs
    BY Constants DEF Essential
  <2> QED BY <1>2, <1>6, <2>1 DEF Stands
<1>8. Follows(c, Doomed) /\ Marks(Cache, c)
  BY <1>2, <1>4, <1>7 DEF Brings, Follows
<1>9. Counted' /\ TopIsFree' /\ db_top' \in Nat /\ leaked' \subseteq Dbrefs
  <2>1. Counted'
    BY <1>0 DEF Inv, Counted
  <2>2. TopIsFree'
    BY <1>0, <1>6, TopIsAbove
  <2> QED BY <1>0, <2>1, <2>2 DEF Inv, Typed
<1>10. phase' \in {"loading", "running"} /\ held' \in [Dbrefs -> Nat]
  BY <1>0, <1>2 DEF Inv, Typed
<1> QED BY <1>0, <1>8, <1>9, <1>10, StepsOn

(* An object is moved: its kin are marked, it is not.                        *)
LEMMA MovedTracks ==
    ASSUME NEW c, NEW refs, NEW objs, NEW doomed, Tracks(c, refs, objs, doomed), NEW d \in Dbrefs, refs[d] > 0, refs[d] = 1 => d \notin doomed,
           NEW v \in Values, NEW kin \in Kins(objs, d)
    PROVE  Leads(c, Release(TouchAll(Assign(c, d, v), kin), d), At(refs, d, refs[d] - 1),
                 After(At(objs, d, Stored(c, d, v)), kin), doomed)
<1> PICK x : x = Stored(c, d, v)
  OBVIOUS
<1> PICK made : made = At(objs, d, x)
  OBVIOUS
<1> PICK b : b = Assign(c, d, v)
  OBVIOUS
<1> PICK t : t = TouchAll(b, kin)
  OBVIOUS
<1> PICK after : after = Release(t, d)
  OBVIOUS
<1>0. WellFormed(c) /\ refs[d] \in Nat /\ objs \in [Dbrefs -> Records]
  BY FitsOf DEF Tracks
<1>1. Leads(c, b, refs, made, doomed)
  BY <1>0, AssignTracks
<1>2. Kins(made, d) = Kins(objs, d)
  BY <1>0 DEF Kins, At
<1>3. Leads(b, t, refs, After(made, kin), doomed)
  <2>1. Tracks(b, refs, made, doomed)
    BY <1>1 DEF Leads
  <2>2. kin \in Kins(made, d)
    BY <1>2
  <2> QED BY <2>1, <2>2, TouchAllTracks
<1>4. Leads(t, after, At(refs, d, refs[d] - 1), After(made, kin), doomed)
  <2>1. Tracks(t, refs, After(made, kin), doomed)
    BY <1>3 DEF Leads
  <2> QED BY <1>0, <2>1, ReleaseTracks
<1>5. Leads(c, t, refs, After(made, kin), doomed)
  BY <1>0, <1>1, <1>3, LeadsTwice
<1>6. Leads(c, after, At(refs, d, refs[d] - 1), After(made, kin), doomed)
  BY <1>0, <1>4, <1>5, LeadsTwice
<1> QED BY <1>6

LEMMA MovesKeep ==
    ASSUME Inv, NEW d \in Dbrefs, NEW v \in Values, OpChparents(d, v)
    PROVE  Inv'
<1> PICK b : b = Retrieve(Cache, d)
  OBVIOUS
<1> PICK x : x = Stored(b, d, v)
  OBVIOUS
<1> PICK more : more = At(Counts, d, Counts[d] + 1)
  OBVIOUS
<1>0. /\ phase # "down" /\ phase' = phase /\ db_top' = db_top /\ loadObj' = loadObj
      /\ held' = held /\ leaked' = leaked /\ torn' = torn /\ Exists(Cache, d)
  BY DEF OpChparents, Executing
<1>1. /\ Tracks(Cache, Counts, objects, Doomed) /\ Stands(objects, Doomed) /\ Bounded(Cache)
      /\ WellFormed(Cache) /\ held \in [Dbrefs -> Nat] /\ objects \in [Dbrefs -> Records]
      /\ Counts \in [Dbrefs -> Nat]
  BY <1>0, ServingIs
<1>2. PICK kin \in KinOf(objects, d) :
         /\ Become(Release(TouchAll(Assign(b, d, v), kin), d))
         /\ objects' = After([objects EXCEPT ![d] = x], kin)
  BY Zenon DEF OpChparents
<1> PICK c : c = Release(TouchAll(Assign(b, d, v), kin), d)
  OBVIOUS
<1>3. objects' = After(At(objects, d, x), kin) /\ kin \in Kins(objects, d)
  <2>1. kin \in Kins(objects, d)
    BY KinOfKins
  <2>2. objects' = After(At(objects, d, x), kin)
    BY <1>2, Zenon DEF At
  <2> QED BY <2>1, <2>2
<1>4. objects[d] # NoObj
  BY <1>0, <1>1, ExistsIs
<1>5. Leads(Cache, b, more, objects, Doomed)
  BY <1>1, <1>4, RetrieveTracks
<1>6. Fits(Cache, d, Counts[d], objects[d], d \in Doomed) /\ Counts[d] \in Nat
  BY <1>1, FitsOf
<1>7. more[d] = Counts[d] + 1 /\ more[d] > 0 /\ more[d] - 1 = Counts[d]
  <2>1. more[d] = Counts[d] + 1
    BY <1>1, AtAt
  <2> QED BY <1>6, <2>1
<1>8. Leads(b, c, At(more, d, more[d] - 1), After(At(objects, d, x), kin), Doomed)
  <2>1. Tracks(b, more, objects, Doomed)
    BY <1>5 DEF Leads
  <2>2. more[d] = 1 => d \notin Doomed
    <3>1. Counts[d] = 0 => d \notin Doomed
      BY <1>6 DEF Fits
    <3> QED BY <1>6, <1>7, <3>1
  <2> QED BY <1>3, <1>7, <2>1, <2>2, MovedTracks
<1>9. At(more, d, more[d] - 1) = Counts
  <2>1. At(more, d, Counts[d]) = At(Counts, d, Counts[d])
    BY <1>1, AtAt
  <2>2. At(Counts, d, Counts[d]) = Counts
    BY <1>1, FitsOf
  <2> QED BY <1>7, <2>1, <2>2, Zenon
<1>10. Counts' = Counts
  BY <1>0, CountsSame
<1>11. Leads(Cache, c, Counts', objects', Doomed)
  <2>1. Leads(b, c, Counts', objects', Doomed)
    BY <1>3, <1>8, <1>9, <1>10, Zenon
  <2> QED BY <1>1, <1>5, <2>1, LeadsTwice
<1>12. x \in Records /\ x # NoObj
  <2>1. v \in Records /\ v # NoObj /\ <<v>> \in Records /\ <<v>> # NoObj
    BY RecordsAre DEF Images
  <2> QED BY <2>1 DEF Stored
<1>13. objects' \in [Dbrefs -> Records] /\ \A e \in Dbrefs : objects'[e] = NoObj <=> objects[e] = NoObj
  <2> PICK o : o = At(objects, d, x)
    OBVIOUS
  <2>1. o \in [Dbrefs -> Records] /\ \A e \in Dbrefs : o[e] = NoObj <=> objects[e] = NoObj
    BY <1>1, <1>4, <1>12 DEF At
  <2>2. kin \in Kins(o, d)
    <3>1. Kins(o, d) = Kins(objects, d)
      BY <1>1 DEF Kins, At
    <3> QED BY <1>3, <3>1
  <2>3. After(o, kin) \in [Dbrefs -> Records] /\ \A e \in Dbrefs : After(o, kin)[e] = NoObj <=> o[e] = NoObj
    BY <2>1, <2>2, AfterIs
  <2> QED BY <1>3, <2>1, <2>3
<1>14. Stands(objects', Doomed)
  <2>1. Essential \subseteq Dbrefs
    BY Constants DEF Essential
  <2> QED BY <1>1, <1>13, <2>1 DEF Stands
<1>15. Follows(c, Doomed) /\ Marks(Cache, c)
  <2>1. Brings(Cache, c, Counts', objects', Doomed)
    BY <1>1, <1>11, LeadsBrings
  <2> QED BY <1>1, <1>14, <2>1 DEF Brings, Follows
<1>16. Counted' /\ TopIsFree' /\ db_top' \in Nat /\ leaked' \subseteq Dbrefs
  <2>1. Counted'
    BY <1>0 DEF Inv, Counted
  <2>2. TopIsFree'
    BY <1>0, <1>13, TopIsAbove
  <2> QED BY <1>0, <2>1, <2>2 DEF Inv, Typed
<1>17. phase' \in {"loading", "running"} /\ held' \in [Dbrefs -> Nat]
  BY <1>0, <1>1 DEF Inv, Typed
<1> QED BY <1>0, <1>2, <1>15, <1>16, <1>17, StepsOn

LEMMA ChparentsKeeps ==
    ASSUME Inv, NEW d \in Dbrefs, OpChparentsNone(d)
    PROVE  Inv'
<1> PICK c : c = Retrieve(Cache, d)
  OBVIOUS
<1>0. /\ phase = "running" /\ phase # "down" /\ phase' = phase /\ db_top' = db_top /\ loadObj' = loadObj
      /\ held' = held /\ d \notin leaked /\ leaked' = leaked \cup {d} /\ torn' = torn /\ objects' = objects
      /\ Become(c) /\ Exists(Cache, d)
  BY DEF OpChparentsNone
<1>1. /\ Tracks(Cache, Counts, objects, Doomed) /\ Stands(objects, Doomed) /\ Bounded(Cache)
      /\ WellFormed(Cache) /\ held \in [Dbrefs -> Nat]
  BY <1>0, ServingIs
<1>2. Brings(Cache, c, Counts', objects', Doomed)
  <2>1. objects[d] # NoObj
    BY <1>0, <1>1, ExistsIs
  <2>2. Leads(Cache, c, At(Counts, d, Counts[d] + 1), objects, Doomed)
    BY <1>1, <2>1, RetrieveTracks
  <2>3. Counts' = At(Counts, d, Counts[d] + 1)
    BY <1>0, <1>1, CountsLeaked
  <2>4. Leads(Cache, c, Counts', objects', Doomed)
    BY <1>0, <2>2, <2>3, Zenon
  <2> QED BY <1>1, <2>4, LeadsBrings
<1>3. Follows(c, Doomed) /\ Marks(Cache, c)
  BY <1>0, <1>1, <1>2 DEF Brings, Follows
<1>4. Counted' /\ TopIsFree' /\ db_top' \in Nat /\ leaked' \subseteq Dbrefs
  <2>1. Counted'
    BY <1>0 DEF Inv, Counted
  <2>2. TopIsFree'
    BY <1>0 DEF Inv, TopIsFree
  <2> QED BY <1>0, <2>1, <2>2 DEF Inv, Typed
<1> QED BY <1>0, <1>1, <1>3, <1>4, StepsOn


LEMMA MadeIs ==
    ASSUME NEW objs \in [Dbrefs -> Records], NEW d \in Dbrefs, NEW v \in Values, NEW kin \in Kins(At(objs, d, v), d)
    PROVE  /\ After(At(objs, d, v), kin) \in [Dbrefs -> Records]
           /\ \A e \in Dbrefs : After(At(objs, d, v), kin)[e] = NoObj <=> e # d /\ objs[e] = NoObj
<1> PICK o : o = At(objs, d, v)
  OBVIOUS
<1>1. o \in [Dbrefs -> Records] /\ v # NoObj /\ o[d] = v /\ \A e \in Dbrefs : e # d => o[e] = objs[e]
  BY RecordsAre DEF At, Images
<1>2. After(o, kin) \in [Dbrefs -> Records] /\ \A e \in Dbrefs : After(o, kin)[e] = NoObj <=> o[e] = NoObj
  BY <1>1, AfterIs
<1> QED BY <1>1, <1>2

LEMMA KinsOfMade ==
    ASSUME NEW objs \in [Dbrefs -> Records], NEW d \in Dbrefs, NEW x
    PROVE  Kins(At(objs, d, x), d) = Kins(objs, d)
  BY DEF Kins, At

LEMMA CreateKeeps ==
    ASSUME Inv, NEW v \in Values, OpCreate(v)
    PROVE  Inv'
<1> PICK d : d = db_top
  OBVIOUS
<1>0. /\ phase # "down" /\ phase' = phase /\ db_top' = d + 1 /\ loadObj' = loadObj
      /\ held' = held /\ leaked' = leaked /\ torn' = torn /\ d \in Dbrefs
  BY DEF OpCreate, Executing
<1>1. /\ Tracks(Cache, Counts, objects, Doomed) /\ Stands(objects, Doomed) /\ Bounded(Cache)
      /\ WellFormed(Cache) /\ held \in [Dbrefs -> Nat] /\ objects \in [Dbrefs -> Records] /\ d \in Nat
  BY <1>0, ServingIs
<1>2. PICK kin \in KinOf(objects, d) :
         Become(Release(NewObject(Cache, d, v, kin), d)) /\ objects' = After([objects EXCEPT ![d] = v], kin)
  BY Zenon DEF OpCreate
<1> PICK c : c = Release(NewObject(Cache, d, v, kin), d)
  OBVIOUS
<1>3. objects' = After(At(objects, d, v), kin) /\ kin \in Kins(objects, d) /\ kin \in Kins(At(objects, d, v), d)
  <2>1. kin \in Kins(objects, d)
    BY <1>2, KinOfKins
  <2>2. Kins(At(objects, d, v), d) = Kins(objects, d)
    BY <1>0, <1>1, KinsOfMade
  <2>3. objects' = After(At(objects, d, v), kin)
    BY <1>2, Zenon DEF At
  <2> QED BY <2>1, <2>2, <2>3
<1>4. objects[d] = NoObj /\ \A e \in Dbrefs : objects[e] # NoObj => e < d
  <2>1. \A e \in Dbrefs : objects[e] # NoObj => e < d
    BY <1>0 DEF Inv, TopIsFree
  <2>2. ~(d < d)
    BY <1>1
  <2> QED BY <1>0, <2>1, <2>2
<1>5. Brings(Cache, c, Counts', objects', Doomed)
  <2>1. Brings(Cache, c, Counts, After(At(objects, d, v), kin), Doomed)
    BY <1>0, <1>1, <1>3, <1>4, CreatedTracks
  <2>2. Counts' = Counts
    BY <1>0, CountsSame
  <2> QED BY <1>3, <2>1, <2>2, Zenon
<1>6. objects' \in [Dbrefs -> Records] /\ \A e \in Dbrefs : objects'[e] = NoObj <=> e # d /\ objects[e] = NoObj
  BY <1>0, <1>1, <1>3, MadeIs
<1>7. Stands(objects', Doomed)
  <2>1. Essential \subseteq Dbrefs
    BY Constants DEF Essential
  <2> QED BY <1>1, <1>6, <2>1 DEF Stands
<1>8. Follows(c, Doomed) /\ Marks(Cache, c)
  BY <1>1, <1>5, <1>7 DEF Brings, Follows
<1>9. Counted' /\ TopIsFree' /\ db_top' \in Nat /\ leaked' \subseteq Dbrefs
  <2>1. Counted'
    BY <1>0 DEF Inv, Counted
  <2>2. TopIsFree'
    <3>1. ASSUME NEW e \in Dbrefs, objects'[e] # NoObj PROVE e < d + 1
      <4>1. e \in Nat
        BY Constants
      <4> QED BY <1>1, <1>4, <1>6, <3>1, <4>1
    <3> QED BY <1>0, <3>1 DEF TopIsFree
  <2> QED BY <1>0, <1>1, <2>1, <2>2 DEF Inv, Typed
<1>10. phase' \in {"loading", "running"} /\ held' \in [Dbrefs -> Nat]
  BY <1>0, <1>1 DEF Inv, Typed
<1> QED BY <1>0, <1>2, <1>8, <1>9, <1>10, StepsOn

LEMMA DestroyKeeps ==
    ASSUME Inv, NEW d \in Dbrefs, OpDestroy(d)
    PROVE  Inv'
<1> PICK b : b = Retrieve(Cache, d)
  OBVIOUS
<1> PICK k : k = Kill(b, d)
  OBVIOUS
<1> PICK dies \in BOOLEAN : dies = Dies(k, d)
  BY DEF Dies, LastRef
<1> PICK more : more = At(Counts, d, Counts[d] + 1)
  OBVIOUS
<1>0. /\ phase # "down" /\ phase' = phase /\ db_top' = db_top /\ loadObj' = loadObj
      /\ held' = held /\ leaked' = leaked /\ torn' = torn
      /\ d \notin Essential /\ Exists(Cache, d)
  BY DEF OpDestroy, Executing, Essential
<1>1. /\ Tracks(Cache, Counts, objects, Doomed) /\ Stands(objects, Doomed) /\ Bounded(Cache)
      /\ WellFormed(Cache) /\ held \in [Dbrefs -> Nat] /\ objects \in [Dbrefs -> Records]
      /\ Counts \in [Dbrefs -> Nat]
  BY <1>0, ServingIs
<1>2. PICK kin \in KinIf(dies, objects, d) :
         Become(Discard(k, d, kin)) /\ objects' = Killed(dies, d, kin)
  BY Zenon DEF OpDestroy
<1> PICK c : c = Discard(k, d, kin)
  OBVIOUS
<1>3. objects' = Lost(dies, objects, d, kin)
  BY <1>2 DEF Killed, Lost, At
<1>4. Brings(Cache, b, more, objects, Doomed)
  <2>1. objects[d] # NoObj
    BY <1>0, <1>1, ExistsIs
  <2>2. Leads(Cache, b, more, objects, Doomed)
    BY <1>1, <2>1, RetrieveTracks
  <2> QED BY <1>1, <2>2, LeadsBrings
<1>5. more[d] = Counts[d] + 1 /\ more[d] > 0
  BY <1>1, AtOneMore, Zenon
<1>6. Brings(b, k, more, objects, Doomed \cup {d})
  <2>1. Tracks(b, more, objects, Doomed) /\ WellFormed(b)
    BY <1>4 DEF Brings, Tracks
  <2>2. Leads(b, k, more, objects, Doomed \cup {d})
    BY <1>5, <2>1, KillTracks
  <2> QED BY <2>1, <2>2, LeadsBrings
<1>7. Tracks(k, more, objects, Doomed \cup {d})
  BY <1>6 DEF Brings
<1>8. Brings(k, c, Counts', objects', Outlived(dies, Doomed \cup {d}, d))
  <2>1. Brings(k, c, At(more, d, more[d] - 1), Lost(dies, objects, d, kin), Outlived(dies, Doomed \cup {d}, d))
    BY <1>2, <1>5, <1>7, DiscardedTracks
  <2>2. At(more, d, more[d] - 1) = Counts
    <3>1. At(more, d, Counts[d]) = At(Counts, d, Counts[d])
      BY <1>1, AtAt
    <3>2. At(Counts, d, Counts[d]) = Counts
      BY <1>1, FitsOf
    <3>3. more[d] - 1 = Counts[d]
      BY <1>1, <1>5
    <3> QED BY <3>1, <3>2, <3>3, Zenon
  <2>3. Counts' = Counts
    BY <1>0, CountsSame
  <2> QED BY <1>3, <2>1, <2>2, <2>3, Zenon
<1>9. Brings(Cache, c, Counts', objects', Outlived(dies, Doomed \cup {d}, d))
  <2>1. Brings(Cache, k, more, objects, Doomed \cup {d})
    BY <1>4, <1>6, BringsTwice
  <2> QED BY <1>8, <2>1, BringsTwice
<1>10. Stands(objects', Outlived(dies, Doomed \cup {d}, d))
  <2>1. Stands(objects, Doomed \cup {d})
    BY <1>0, <1>1 DEF Stands
  <2>2. Stands(Lost(dies, objects, d, kin), Outlived(dies, Doomed \cup {d}, d))
    BY <1>2, <1>5, <1>7, <2>1, StandsOn
  <2> QED BY <1>3, <2>2, Zenon
<1>11. Follows(c, Outlived(dies, Doomed \cup {d}, d)) /\ Marks(Cache, c)
  BY <1>1, <1>9, <1>10 DEF Brings, Follows
<1>12. Counted' /\ TopIsFree' /\ db_top' \in Nat /\ leaked' \subseteq Dbrefs
  <2>1. Counted'
    BY <1>0 DEF Inv, Counted
  <2>2. objects' \in [Dbrefs -> Records] /\ \A e \in Dbrefs : objects[e] = NoObj => objects'[e] = NoObj
    BY <1>1, <1>2, <1>3, LostIs
  <2>3. TopIsFree'
    BY <1>0, <2>2, TopIsAbove
  <2> QED BY <1>0, <2>1, <2>3 DEF Inv, Typed
<1>13. phase' \in {"loading", "running"} /\ held' \in [Dbrefs -> Nat]
  BY <1>0, <1>1 DEF Inv, Typed
<1> QED BY <1>0, <1>2, <1>11, <1>12, <1>13, StepsOn


LEMMA DumpKeeps ==
    ASSUME Inv, BinaryDump
    PROVE  Inv'
<1> PICK c : c = Synced(Cache)
  OBVIOUS
<1>0. /\ phase # "down" /\ phase' = phase /\ db_top' = db_top /\ loadObj' = loadObj /\ held' = held
      /\ leaked' = leaked /\ torn' = torn /\ objects' = objects /\ saved' = objects /\ Install(c)
  BY DEF BinaryDump, Executing
<1>1. /\ Tracks(Cache, Counts, objects, Doomed) /\ Stands(objects, Doomed) /\ Bounded(Cache)
      /\ WellFormed(Cache) /\ held \in [Dbrefs -> Nat] /\ objects \in [Dbrefs -> Records]
  BY <1>0, ServingIs
<1>2. /\ Tracks(c, Counts, objects, Doomed) /\ c.clean = TRUE /\ Bounded(c) /\ WellFormed(c) /\ c \in Caches
      /\ \A d \in Dbrefs : Agrees(c.store[d], objects[d])
  BY <1>1, SyncedTracks DEF Tracks, WellFormed
<1>3. Cache' = c /\ store' = c.store /\ clean'
  BY <1>0, <1>2, CacheIs DEF Install
<1>4. Counts' = Counts
  BY <1>0, CountsSame
<1>5. Doomed' = Doomed
  <2>1. Doomed = {d \in Dbrefs : IsActive(c, d) /\ Holding(c, d).dead}
    BY <1>2, DoomedIs
  <2> QED BY <1>3, <2>1 DEF Doomed
<1>6. Typed'
  BY <1>0, <1>1, <1>2, <1>3 DEF Typed, Inv
<1>7. Counted'
  BY <1>0 DEF Inv, Counted
<1>8. Tracked' /\ Bounded(Cache)'
  BY <1>0, <1>2, <1>3, <1>4, <1>5 DEF Tracked
<1>9. AtRest' /\ Vouched'
  BY <1>0, <1>2, <1>3 DEF AtRest, Vouched
<1>10. Kernel'
  BY <1>0, <1>1, <1>2, <1>3, <1>5, AgreesMeans, Constants DEF Kernel, Stands, Whole, Essential
<1>11. TopIsFree'
  BY <1>0 DEF Inv, TopIsFree
<1> QED BY <1>6, <1>7, <1>8, <1>9, <1>10, <1>11 DEF Inv

(* With the process gone there are no chains, and no references.             *)
Files(st, mark) == [active |-> NoChains, inactive |-> NoChains, store |-> st, clean |-> mark]

LEMMA FilesAreWellFormed ==
    ASSUME NEW st \in [Dbrefs -> Images], NEW mark \in BOOLEAN
    PROVE  WellFormed(Files(st, mark)) /\ Bounded(Files(st, mark))
<1> PICK c : c = Files(st, mark)
  OBVIOUS
<1> PICK u : u = <<>>
  OBVIOUS
<1>1. u \in Seq(Holder) /\ Distinct(u) /\ Named(u) = {} /\ Occupied(u) /\ Len(u) = 0
  BY DEF Distinct, Named, Occupied
<1>2. /\ c.active = [n \in Chains |-> u] /\ c.inactive = [n \in Chains |-> u]
      /\ c = [active |-> c.active, inactive |-> c.inactive, store |-> st, clean |-> mark]
  BY DEF Files, NoChains
<1>3. c \in Caches
  <2>1. [n \in Chains |-> u] \in [Chains -> Seq(Holder)]
    BY <1>1
  <2>2. c.active \in [Chains -> Seq(Holder)] /\ c.inactive \in [Chains -> Seq(Holder)]
    BY <1>2, <2>1, Zenon
  <2>3. [active |-> c.active, inactive |-> c.inactive, store |-> st, clean |-> mark] \in Caches
    BY <2>2, Zenon DEF Caches
  <2> QED BY <1>2, <2>3, Zenon
<1>4. \A n \in Chains : c.active[n] = u /\ c.inactive[n] = u
  BY <1>2
<1>5. \A n \in Chains : ChainsOK(u, u, n)
  BY <1>1 DEF ChainsOK
<1>6. WellFormed(c)
  BY <1>3, <1>4, <1>5, Zenon DEF WellFormed
<1>7. Bounded(c)
  <2>1. ASSUME NEW n \in Chains PROVE Size(c, n) <= CACHE_DEPTH
    <3>1. Size(c, n) = Len(u) + Len(u)
      BY <1>4, Zenon DEF Size
    <3> QED BY <1>1, <3>1, Constants
  <2> QED BY <2>1 DEF Bounded
<1> QED BY <1>6, <1>7, Zenon

LEMMA ExitKeeps ==
    ASSUME Inv, NEW mark \in BOOLEAN, NEW objs \in [Dbrefs -> Records], NEW gone, Exit(mark, objs, gone),
           store' \in [Dbrefs -> Images], saved' \in [Dbrefs -> Records],
           mark => \A d \in Dbrefs \ gone : Agrees(store'[d], objs[d]) /\ Agrees(store'[d], saved'[d]),
           ~mark => objs = Nothing /\ saved' = Nothing,
           mark => Whole(store')
    PROVE  Inv'
<1>0. /\ phase' = "down" /\ active' = NoChains /\ inactive' = NoChains /\ clean' = mark /\ db_top' = 0
      /\ loadObj' = -1 /\ held' = Unheld /\ leaked' = {} /\ objects' = objs /\ torn' = gone
  BY DEF Exit
<1>1. Cache' = Files(store', mark)
  BY <1>0 DEF Cache, Files
<1>2. WellFormed(Cache)' /\ Bounded(Cache)'
  BY <1>1, FilesAreWellFormed
<1>3. Typed'
  <2>1. held' \in [Dbrefs -> Nat]
    BY <1>0 DEF Unheld
  <2> QED BY <1>0, <1>2, <2>1 DEF Typed, Inv
<1>4. Counted' /\ Tracked' /\ TopIsFree'
  BY <1>0 DEF Counted, Tracked, TopIsFree
<1>5. AtRest' /\ Vouched' /\ Kernel'
  BY <1>0 DEF AtRest, Vouched, Kernel
<1> QED BY <1>2, <1>3, <1>4, <1>5 DEF Inv

LEMMA CrashesKeep ==
    ASSUME Inv, Shutdown \/ Crash \/ CrashInPut \/ \E d \in Dbrefs : CrashInDel(d)
    PROVE  Inv'
<1>0. /\ WellFormed(Cache) /\ objects \in [Dbrefs -> Records] /\ saved \in [Dbrefs -> Records]
      /\ Cache.store = store /\ Cache.clean = clean
  BY DEF Inv, Typed, Cache
<1>1. store \in [Dbrefs -> Images] /\ clean \in BOOLEAN
  BY <1>0 DEF WellFormed, Caches
<1>2. /\ phase # "down" /\ torn = {}
      /\ clean => \A d \in Dbrefs : Agrees(store[d], saved[d])
      /\ ~clean => saved = Nothing
      /\ clean => Whole(store)
  <2>1. phase # "down"
    BY DEF Shutdown, Crash, CrashInPut, CrashInDel, Exit
  <2>2. torn = {}
    BY <2>1 DEF Inv, Counted
  <2> QED BY <2>1, <2>2 DEF Inv, Vouched, Kernel
<1>3. Nothing \in [Dbrefs -> Records]
  BY RecordsAre DEF Nothing
<1>4. CASE Shutdown
  <2> PICK c : c = Synced(Cache)
    OBVIOUS
  <2>0. phase = "running" /\ phase # "down" /\ Exit(TRUE, objects, {}) /\ store' = c.store /\ saved' = objects
    BY <1>4 DEF Shutdown
  <2>1. Tracks(Cache, Counts, objects, Doomed) /\ Stands(objects, Doomed)
    BY <2>0, ServingIs
  <2>2. c \in Caches /\ \A d \in Dbrefs : Agrees(c.store[d], objects[d])
    BY <2>1, SyncedTracks DEF Tracks, WellFormed
  <2>3. store' \in [Dbrefs -> Images]
    BY <2>0, <2>2 DEF Caches
  <2>4. Whole(store')
    BY <2>0, <2>1, <2>2, AgreesMeans, Constants DEF Whole, Stands, Essential
  <2>5. TRUE \in BOOLEAN
    OBVIOUS
  <2> QED BY <1>0, <2>0, <2>2, <2>3, <2>4, <2>5, ExitKeeps
<1>5. CASE Crash
  <2>0. Exit(clean, saved, {}) /\ store' = store /\ saved' = saved
    BY <1>5 DEF Crash
  <2> QED BY <1>0, <1>1, <1>2, <2>0, ExitKeeps
<1>6. CASE CrashInPut
  <2>0. Exit(FALSE, Nothing, {}) /\ store' = store /\ saved' = Nothing /\ FALSE \in BOOLEAN
    BY <1>6 DEF CrashInPut
  <2> QED BY <1>1, <1>3, <2>0, ExitKeeps
<1>7. ASSUME NEW d \in Dbrefs, CrashInDel(d)
      PROVE  Inv'
  <2>0. /\ d \notin Essential /\ Exit(clean, saved, {d}) /\ store' = [store EXCEPT ![d] = NoObj] /\ saved' = saved
        /\ phase # "down" /\ Exists(Cache, d)
    BY <1>7 DEF CrashInDel, Essential, Exit
  <2>1. clean
    <3>1. (IF held[d] > Kept(d) THEN Cache ELSE Kill(Retrieve(Cache, d), d)).clean
      BY <1>7, Zenon DEF CrashInDel
    <3>2. CASE held[d] > Kept(d)
      BY <1>0, <3>1, <3>2
    <3>3. CASE ~(held[d] > Kept(d))
      <4> PICK b : b = Retrieve(Cache, d)
        OBVIOUS
      <4> PICK more : more = At(Counts, d, Counts[d] + 1)
        OBVIOUS
      <4>1. Tracks(Cache, Counts, objects, Doomed) /\ Counts \in [Dbrefs -> Nat]
        BY <2>0, ServingIs
      <4>2. objects[d] # NoObj
        BY <2>0, <4>1, ExistsIs
      <4>3. Leads(Cache, b, more, objects, Doomed)
        BY <4>1, <4>2, RetrieveTracks
      <4>4. more[d] > 0
        BY <4>1, AtOneMore, Zenon
      <4>5. Leads(b, Kill(b, d), more, objects, Doomed \cup {d})
        BY <4>3, <4>4, KillTracks DEF Leads
      <4>6. Kill(b, d).clean
        BY <3>1, <3>3, Zenon
      <4>7. b.clean
        BY <4>5, <4>6 DEF Leads, Marks
      <4>8. Cache.clean
        BY <4>3, <4>7 DEF Leads, Marks
      <4> QED BY <1>0, <4>8
    <3> QED BY <3>2, <3>3
  <2>2. store' \in [Dbrefs -> Images]
    BY <1>0, <1>1, <2>0 DEF Images
  <2>3. \A e \in Dbrefs \ {d} : Agrees(store'[e], saved[e])
    <3>1. \A e \in Dbrefs \ {d} : store'[e] = store[e]
      BY <1>1, <2>0
    <3> QED BY <1>2, <2>1, <3>1
  <2>4. Whole(store')
    <3>1. Essential \subseteq Dbrefs
      BY Constants DEF Essential
    <3>2. CASE store = Nothing
      <4>1. store' = Nothing
        BY <2>0, <3>2 DEF Nothing
      <4> QED BY <4>1 DEF Whole
    <3>3. CASE \A e \in Essential : store[e] # NoObj
      <4>1. \A e \in Essential : store'[e] = store[e]
        BY <1>1, <2>0, <3>1
      <4> QED BY <3>3, <4>1 DEF Whole
    <3> QED BY <1>2, <2>1, <3>2, <3>3 DEF Whole
  <2> QED BY <1>0, <1>1, <2>0, <2>1, <2>2, <2>3, <2>4, ExitKeeps
<1> QED BY <1>4, <1>5, <1>6, <1>7


(* Reading the text dump.  Only the reader holds an object between its lines.*)
LEMMA LoadingIs ==
    ASSUME Inv, phase = "loading"
    PROVE  /\ loadObj \in Dbrefs \cup {-1} /\ leaked = {} /\ held = Loading(loadObj)
           /\ Counts = Loading(loadObj) /\ Loading(loadObj) \in [Dbrefs -> Nat]
           /\ loadObj # -1 => Counts[loadObj] = 1
<1>1. loadObj \in Dbrefs \cup {-1} /\ leaked = {} /\ held = Loading(loadObj)
  BY DEF Inv, Counted
<1>2. Counts = Loading(loadObj)
  BY <1>1 DEF Counts, References, Loading
<1> QED BY <1>1, <1>2 DEF Loading

LEMMA NoneIsHeld ==
    ASSUME NEW obj \in Dbrefs
    PROVE  At(Loading(obj), obj, 0) = Loading(-1) /\ At(Loading(-1), obj, 1) = Loading(obj)
  BY Constants DEF At, Loading

LEMMA GivenBack ==
    ASSUME NEW obj \in Dbrefs \cup {-1}
    PROVE  (IF obj = -1 THEN Loading(obj) ELSE [Loading(obj) EXCEPT ![obj] = @ - 1]) = Loading(-1)
<1>1. CASE obj = -1
  BY <1>1
<1>2. CASE obj # -1
  <2>1. Loading(obj)[obj] - 1 = 0
    BY <1>2 DEF Loading
  <2>2. [Loading(obj) EXCEPT ![obj] = Loading(obj)[obj] - 1] = Loading(-1)
    BY <1>2, <2>1, NoneIsHeld DEF At
  <2> QED BY <1>2, <2>2
<1> QED BY <1>1, <1>2

(* The reader lets go of the object it has, if it has one.                   *)
LEMMA PreviousTracks ==
    ASSUME Inv, phase = "loading", NEW dies, dies = (loadObj # -1 /\ Dies(Cache, loadObj)),
           NEW kin \in KinIf(dies, objects, loadObj),
           NEW c, c = IF loadObj = -1 THEN Cache ELSE Discard(Cache, loadObj, kin)
    PROVE  \E doomed : /\ Brings(Cache, c, Loading(-1), Killed(dies, loadObj, kin), doomed)
                       /\ Stands(Killed(dies, loadObj, kin), doomed)
                       /\ \A e \in Dbrefs : objects[e] = NoObj => Killed(dies, loadObj, kin)[e] = NoObj
<1>0. /\ Tracks(Cache, Counts, objects, Doomed) /\ Stands(objects, Doomed)
      /\ WellFormed(Cache) /\ objects \in [Dbrefs -> Records] /\ Counts \in [Dbrefs -> Nat]
  BY ServingIs
<1>1. loadObj \in Dbrefs \cup {-1} /\ Counts = Loading(loadObj) /\ (loadObj # -1 => Counts[loadObj] = 1)
  BY LoadingIs
<1>2. CASE loadObj = -1
  <2>1. c = Cache /\ Killed(dies, loadObj, kin) = objects /\ Counts = Loading(-1)
    BY <1>1, <1>2 DEF Killed
  <2>2. Brings(Cache, Cache, Counts, objects, Doomed)
    BY <1>0 DEF Brings, Marks
  <2> QED BY <1>0, <2>1, <2>2, Zenon
<1>3. CASE loadObj # -1
  <2> PICK d \in Dbrefs : d = loadObj
    BY <1>1, <1>3
  <2> PICK x \in BOOLEAN : x = Dies(Cache, d)
    BY DEF Dies, LastRef
  <2>1. dies = x /\ c = Discard(Cache, d, kin) /\ Counts[d] = 1 /\ Counts[d] > 0 /\ Counts[d] - 1 = 0
    BY <1>1, <1>3
  <2>2. Killed(dies, loadObj, kin) = Lost(x, objects, d, kin)
    BY <2>1 DEF Killed, Lost, At
  <2>3. kin \in KinIf(x, objects, d)
    BY <2>1
  <2>4. Brings(Cache, c, At(Counts, d, Counts[d] - 1), Lost(x, objects, d, kin), Outlived(x, Doomed, d))
    BY <1>0, <2>1, <2>3, DiscardedTracks
  <2>5. Stands(Lost(x, objects, d, kin), Outlived(x, Doomed, d))
    BY <1>0, <2>1, <2>3, StandsOn
  <2>6. At(Counts, d, Counts[d] - 1) = Loading(-1)
    <3>1. At(Loading(d), d, 0) = Loading(-1)
      BY NoneIsHeld
    <3> QED BY <1>1, <2>1, <3>1, Zenon
  <2>7. \A e \in Dbrefs : objects[e] = NoObj => Lost(x, objects, d, kin)[e] = NoObj
    BY <1>0, <2>3, LostIs
  <2> QED BY <2>2, <2>4, <2>5, <2>6, <2>7, Zenon
<1> QED BY <1>2, <1>3

LEMMA LoadDoneKeeps ==
    ASSUME Inv, LoadDone
    PROVE  Inv'
<1> PICK dies \in BOOLEAN : dies = (loadObj # -1 /\ Dies(Cache, loadObj))
  BY DEF Dies, LastRef
<1> PICK h : h = IF loadObj = -1 THEN held ELSE [held EXCEPT ![loadObj] = @ - 1]
  OBVIOUS
<1>0. /\ phase = "loading" /\ phase # "down" /\ phase' = "running" /\ db_top' = db_top /\ loadObj' = -1
      /\ leaked' = leaked /\ torn' = torn
      /\ held' = [h EXCEPT ![SYSTEM_DBREF] = @ + 1, ![ROOT_DBREF] = @ + 1]
  BY DEF LoadDone
<1>1. /\ Tracks(Cache, Counts, objects, Doomed) /\ Stands(objects, Doomed) /\ Bounded(Cache)
      /\ WellFormed(Cache) /\ objects \in [Dbrefs -> Records]
  BY <1>0, ServingIs
<1>2. loadObj \in Dbrefs \cup {-1} /\ leaked = {} /\ held = Loading(loadObj) /\ Loading(-1) \in [Dbrefs -> Nat]
  <2>1. Loading(-1) \in [Dbrefs -> Nat]
    BY DEF Loading
  <2> QED BY <1>0, <2>1, LoadingIs
<1>3. h = Loading(-1)
  BY <1>2, GivenBack
<1>4. PICK kin \in KinIf(dies, objects, loadObj) :
         /\ Become(HoldBoth(IF loadObj = -1 THEN Cache ELSE Discard(Cache, loadObj, kin)))
         /\ objects' = Killed(dies, loadObj, kin)
  BY Zenon DEF LoadDone
<1> PICK b : b = IF loadObj = -1 THEN Cache ELSE Discard(Cache, loadObj, kin)
  OBVIOUS
<1> PICK c : c = HoldBoth(b)
  OBVIOUS
<1>5. PICK doomed : /\ Brings(Cache, b, Loading(-1), objects', doomed) /\ Stands(objects', doomed)
                    /\ \A e \in Dbrefs : objects[e] = NoObj => objects'[e] = NoObj
  BY <1>0, <1>4, PreviousTracks
<1> PICK s \in Dbrefs, t \in Dbrefs : s = SYSTEM_DBREF /\ t = ROOT_DBREF /\ s # t
  BY Constants
<1> PICK none : none = Loading(-1)
  OBVIOUS
<1>6. Brings(b, c, At(At(none, s, none[s] + 1), t, none[t] + 1), objects', doomed)
  <2>1. objects'[SYSTEM_DBREF] # NoObj /\ objects'[ROOT_DBREF] # NoObj
    BY <1>5 DEF Stands, Essential
  <2>2. Tracks(b, none, objects', doomed)
    BY <1>5 DEF Brings
  <2> QED BY <2>1, <2>2, HoldBothTracks, Zenon
<1>7. Counts' = At(At(none, s, none[s] + 1), t, none[t] + 1) /\ held' \in [Dbrefs -> Nat]
  <2>1. held' = [none EXCEPT ![s] = @ + 1, ![t] = @ + 1]
    BY <1>0, <1>3
  <2>2. held' = At(At(none, s, none[s] + 1), t, none[t] + 1) /\ held' \in [Dbrefs -> Nat]
    BY <1>2, <2>1 DEF At
  <2>3. Counts' = held'
    <3>1. leaked' = {}
      BY <1>0, <1>2
    <3>2. \A e \in Dbrefs : References(e)' = held'[e]
      BY <2>2, <3>1 DEF References
    <3>3. Counts' = [e \in Dbrefs |-> References(e)']
      BY DEF Counts
    <3> QED BY <2>2, <3>2, <3>3
  <2> QED BY <2>2, <2>3
<1>8. Brings(Cache, c, Counts', objects', doomed)
  <2>1. Brings(b, c, Counts', objects', doomed)
    BY <1>6, <1>7, Zenon
  <2> QED BY <1>5, <2>1, BringsTwice
<1>9. Follows(c, doomed) /\ Marks(Cache, c)
  BY <1>1, <1>5, <1>8 DEF Brings, Follows
<1>10. Counted' /\ TopIsFree' /\ db_top' \in Nat /\ leaked' \subseteq Dbrefs
  <2>1. Counted'
    BY <1>0 DEF Counted, Inv
  <2>2. objects' \in [Dbrefs -> Records]
    BY <1>5 DEF Brings, Tracks
  <2>3. TopIsFree'
    BY <1>0, <1>5, <2>2, TopIsAbove
  <2> QED BY <1>0, <1>2, <2>1, <2>3 DEF Inv, Typed
<1> QED BY <1>0, <1>4, <1>7, <1>9, <1>10, StepsOn


(* What was there under this dbref goes before the new object comes: a dead  *)
(* object that nothing else refers to.                                       *)
Dying(b, d) == Kill(Retrieve(b, d), d)
OldDies(b, d) == Exists(b, d) /\ Dies(Dying(b, d), d)
Vacated(b, d, kin) == IF Exists(b, d) THEN Discard(Dying(b, d), d, kin) ELSE Retrieve(b, d)
Bereft(b, objs, d, kin) == IF OldDies(b, d) THEN After(objs, kin) ELSE objs

LEMMA ReplacedTracks ==
    ASSUME NEW b, NEW objs, NEW doomed, Tracks(b, Loading(-1), objs, doomed), Stands(objs, doomed),
           NEW d \in Dbrefs, NEW v \in Values,
           NEW kin \in KinIf(OldDies(b, d), objs, d),
           NEW kinNew \in KinOf(Bereft(b, objs, d, kin), d)
    PROVE  LET now == After(At(Bereft(b, objs, d, kin), d, v), kinNew) IN
           \E left : /\ Brings(b, NewObject(Vacated(b, d, kin), d, v, kinNew), Loading(d), now, left)
                     /\ Stands(now, left)
                     /\ \A e \in Dbrefs : objs[e] = NoObj /\ e # d => now[e] = NoObj
<1> PICK exists \in BOOLEAN : exists = Exists(b, d)
  BY DEF Exists
<1> PICK dying : dying = Dying(b, d)
  OBVIOUS
<1> PICK dies \in BOOLEAN : dies = OldDies(b, d)
  BY DEF OldDies
<1> PICK c : c = Vacated(b, d, kin)
  OBVIOUS
<1> PICK o : o = Bereft(b, objs, d, kin)
  OBVIOUS
<1>1. /\ dies = (exists /\ Dies(dying, d)) /\ dying = Kill(Retrieve(b, d), d)
      /\ c = (IF exists THEN Discard(dying, d, kin) ELSE Retrieve(b, d))
      /\ o = (IF dies THEN After(objs, kin) ELSE objs)
      /\ kin \in KinIf(dies, objs, d) /\ kinNew \in KinOf(o, d)
  BY Zenon DEF Dying, OldDies, Vacated, Bereft
<1> PICK none : none = Loading(-1)
  OBVIOUS
<1> PICK now : now = After(At(o, d, v), kinNew)
  OBVIOUS
<1>2. /\ WellFormed(b) /\ none \in [Dbrefs -> Nat] /\ objs \in [Dbrefs -> Records] /\ doomed \subseteq Dbrefs
      /\ none[d] = 0 /\ At(none, d, 1) = Loading(d) /\ Loading(d)[d] = 1
  <2>1. d # -1
    BY Constants
  <2> QED BY <2>1, NoneIsHeld DEF Tracks, Loading
<1>3. exists <=> objs[d] # NoObj
  BY ExistsIs
<1>4. PICK t, left :
         /\ Brings(b, c, none, t, left) /\ d \notin left
         /\ t \in [Dbrefs -> Records] /\ t[d] = NoObj /\ At(t, d, v) = At(o, d, v)
         /\ \A e \in Dbrefs : e # d => (objs[e] = NoObj <=> t[e] = NoObj)
         /\ \A e \in Dbrefs : e # d => (e \in left => e \in doomed)
  <2>1. CASE objs[d] = NoObj
    <3>1. Leads(b, c, none, objs, doomed)
      <4>1. Leads(b, Retrieve(b, d), none, objs, doomed)
        BY <2>1, RetrieveTracks
      <4>2. c = Retrieve(b, d)
        BY <1>3, <1>1, <2>1
      <4> QED BY <4>1, <4>2, Zenon
    <3>2. Brings(b, c, none, objs, doomed)
      BY <1>2, <3>1, LeadsBrings
    <3>3. o = objs
      BY <1>3, <1>1, <2>1
    <3>4. d \notin doomed
      BY <2>1, FitsOf DEF Fits, Keeps
    <3> QED BY <1>2, <2>1, <3>2, <3>3, <3>4
  <2>2. CASE objs[d] # NoObj
    <3> PICK a : a = Retrieve(b, d)
      OBVIOUS
    <3> PICK more : more = At(none, d, 1)
      OBVIOUS
    <3>1. exists
      BY <1>3, <2>2
    <3>2. Leads(b, a, more, objs, doomed)
      <4>1. Leads(b, a, At(none, d, none[d] + 1), objs, doomed)
        BY <2>2, RetrieveTracks
      <4>2. none[d] + 1 = 1
        BY <1>2
      <4> QED BY <4>1, <4>2, Zenon
    <3>3. more[d] = 1 /\ more[d] > 0
      <4>1. more[d] = 1
        BY <1>2, Zenon
      <4> QED BY <4>1
    <3>4. Leads(a, dying, more, objs, doomed \cup {d})
      <4>1. Tracks(a, more, objs, doomed)
        BY <3>2 DEF Leads
      <4>2. dying = Kill(a, d)
        BY <1>1, Zenon
      <4> QED BY <3>3, <4>1, <4>2, KillTracks
    <3>5. Tracks(dying, more, objs, doomed \cup {d}) /\ d \in doomed \cup {d}
      BY <3>4 DEF Leads
    <3>6. Dies(dying, d) /\ dies
      <4>1. Dies(dying, d)
        BY <3>3, <3>5, DiesIs
      <4> QED BY <1>1, <3>1, <4>1
    <3> PICK t : t = After(At(objs, d, NoObj), kin)
      OBVIOUS
    <3>7. kin \in Kins(objs, d)
      BY <1>1, <3>6, KinOfKins DEF KinIf
    <3>8. Brings(dying, c, At(more, d, 0), t, (doomed \cup {d}) \ {d})
      <4>1. Brings(dying, Discard(dying, d, kin), At(more, d, 0), t, (doomed \cup {d}) \ {d})
        BY <3>3, <3>5, <3>7, DiscardDying
      <4>2. c = Discard(dying, d, kin)
        BY <1>1, <3>1
      <4> QED BY <4>1, <4>2, Zenon
    <3>9. At(more, d, 0) = none
      <4>1. At(more, d, 0) = At(none, d, 0)
        BY <1>2, AtAt
      <4>2. At(none, d, 0) = none
        BY <1>2 DEF At
      <4> QED BY <4>1, <4>2
    <3>10. Brings(b, c, none, t, doomed \ {d})
      <4>1. Brings(b, dying, more, objs, doomed \cup {d})
        <5>1. Leads(b, dying, more, objs, doomed \cup {d})
          BY <1>2, <3>2, <3>4, LeadsTwice
        <5> QED BY <1>2, <5>1, LeadsBrings
      <4>2. (doomed \cup {d}) \ {d} = doomed \ {d}
        OBVIOUS
      <4>3. Brings(dying, c, none, t, doomed \ {d})
        BY <3>8, <3>9, <4>2, Zenon
      <4> QED BY <4>1, <4>3, BringsTwice
    <3>11. /\ t \in [Dbrefs -> Records] /\ t[d] = NoObj
           /\ \A e \in Dbrefs : e # d => (objs[e] = NoObj <=> t[e] = NoObj)
      <4> PICK x : x = At(objs, d, NoObj)
        OBVIOUS
      <4>1. x \in [Dbrefs -> Records] /\ x[d] = NoObj /\ \A e \in Dbrefs : e # d => x[e] = objs[e]
        BY <1>2, RecordsAre DEF At
      <4>2. kin \in Kins(x, d)
        BY <1>2, <3>7, KinsOfMade
      <4>3. /\ After(x, kin) \in [Dbrefs -> Records] /\ After(x, kin)[d] = x[d]
            /\ \A e \in Dbrefs : After(x, kin)[e] = NoObj <=> x[e] = NoObj
        BY <4>1, <4>2, AfterIs
      <4> QED BY <4>1, <4>3
    <3>12. At(t, d, v) = At(o, d, v)
      <4>1. o = After(objs, kin)
        BY <1>1, <3>6
      <4>2. CASE kin = <<>>
        <5>1. t = At(objs, d, NoObj) /\ o = objs
          BY <4>1, <4>2 DEF After
        <5> QED BY <1>2, <5>1, AtAt
      <4>3. CASE kin # <<>>
        <5> PICK p : p = kin[1][1]
          OBVIOUS
        <5> PICK w : w = kin[1][2]
          OBVIOUS
        <5>1. p \in Dbrefs /\ p # d
          BY <1>2, <3>7, <4>3, KinIs
        <5>2. t = [At(objs, d, NoObj) EXCEPT ![p] = w] /\ o = [objs EXCEPT ![p] = w]
          BY <4>1, <4>3, Zenon DEF After
        <5> QED BY <1>2, <5>1, <5>2 DEF At
      <4> QED BY <4>2, <4>3
    <3> QED BY <3>10, <3>11, <3>12
  <2> QED BY <2>1, <2>2
<1>5. Tracks(c, none, t, left)
  BY <1>4 DEF Brings
<1>6. kinNew \in Kins(t, d) /\ kinNew \in Kins(At(t, d, v), d)
  <2>1. o \in [Dbrefs -> Records]
    <3>1. CASE dies
      <4>1. kin \in Kins(objs, d)
        BY <1>1, <3>1, KinOfKins DEF KinIf
      <4> QED BY <1>2, <1>1, <3>1, <4>1, AfterIs
    <3>2. CASE ~dies
      BY <1>2, <1>1, <3>2
    <3> QED BY <3>1, <3>2
  <2>2. kinNew \in Kins(o, d)
    BY <1>1, KinOfKins
  <2>3. Kins(At(o, d, v), d) = Kins(o, d) /\ Kins(At(t, d, v), d) = Kins(t, d)
    BY <1>4, <2>1, KinsOfMade
  <2> QED BY <1>4, <2>2, <2>3, Zenon
<1>7. Brings(b, NewObject(c, d, v, kinNew), Loading(d), now, left)
  <2>1. Brings(c, NewObject(c, d, v, kinNew), At(none, d, 1), After(At(t, d, v), kinNew), left)
    BY <1>4, <1>5, <1>6, NewObjectTracks
  <2>2. Brings(c, NewObject(c, d, v, kinNew), Loading(d), now, left)
    BY <1>2, <1>4, <2>1, Zenon
  <2> QED BY <1>4, <2>2, BringsTwice
<1>8. \A e \in Dbrefs : now[e] = NoObj <=> e # d /\ t[e] = NoObj
  <2>1. now = After(At(t, d, v), kinNew)
    BY <1>4, Zenon
  <2> QED BY <1>4, <1>6, <2>1, MadeIs
<1>9. Stands(now, left)
  <2>1. Essential \subseteq Dbrefs
    BY Constants DEF Essential
  <2>2. ASSUME NEW e \in Essential PROVE now[e] # NoObj /\ e \notin left
    <3>1. e \in Dbrefs /\ objs[e] # NoObj /\ e \notin doomed
      BY <2>1 DEF Stands
    <3> QED BY <1>4, <1>8, <3>1
  <2> QED BY <2>2 DEF Stands
<1>10. \A e \in Dbrefs : objs[e] = NoObj /\ e # d => now[e] = NoObj
  BY <1>4, <1>8
<1> QED BY <1>7, <1>9, <1>10, Zenon

PrevDies == loadObj # -1 /\ Dies(Cache, loadObj)
Before(kin) == IF loadObj = -1 THEN Cache ELSE Discard(Cache, loadObj, kin)

LEMMA LoadObjectKeeps ==
    ASSUME Inv, NEW d \in Dbrefs, NEW v \in Values, LoadObject(d, v)
    PROVE  Inv'
<1> PICK x \in BOOLEAN : x = PrevDies
  BY DEF PrevDies, Dies, LastRef
<1>1. /\ phase = "loading" /\ phase # "down" /\ d \in TextDump
  BY Zenon DEF LoadObject
<1>2. PICK kinPrev \in KinIf(PrevDies, objects, loadObj) :
         \E kinOld \in KinIf(OldDies(Before(kinPrev), d), Killed(PrevDies, loadObj, kinPrev), d) :
            LET o == Bereft(Before(kinPrev), Killed(PrevDies, loadObj, kinPrev), d, kinOld) IN
            /\ \E kinNew \in KinOf(o, d) :
                  /\ Become(NewObject(Vacated(Before(kinPrev), d, kinOld), d, v, kinNew))
                  /\ objects' = After([o EXCEPT ![d] = v], kinNew)
            /\ held' = [(IF loadObj = -1 THEN held ELSE [held EXCEPT ![loadObj] = @ - 1]) EXCEPT ![d] = @ + 1]
            /\ loadObj' = d /\ db_top' = Bumped(d) /\ UNCHANGED <<phase, leaked, torn>>
  BY Zenon DEF LoadObject, PrevDies, Before, OldDies, Dying, Vacated, Bereft
<1> PICK b : b = Before(kinPrev)
  OBVIOUS
<1> PICK o1 : o1 = Killed(PrevDies, loadObj, kinPrev)
  OBVIOUS
<1>3. PICK kinOld \in KinIf(OldDies(b, d), o1, d) :
         LET o == Bereft(b, o1, d, kinOld) IN
         /\ \E kinNew \in KinOf(o, d) :
               /\ Become(NewObject(Vacated(b, d, kinOld), d, v, kinNew))
               /\ objects' = After([o EXCEPT ![d] = v], kinNew)
         /\ held' = [(IF loadObj = -1 THEN held ELSE [held EXCEPT ![loadObj] = @ - 1]) EXCEPT ![d] = @ + 1]
         /\ loadObj' = d /\ db_top' = Bumped(d) /\ UNCHANGED <<phase, leaked, torn>>
  BY <1>2, Zenon
<1> PICK o : o = Bereft(b, o1, d, kinOld)
  OBVIOUS
<1> PICK c : c = Vacated(b, d, kinOld)
  OBVIOUS
<1>4. PICK kinNew \in KinOf(o, d) :
         Become(NewObject(c, d, v, kinNew)) /\ objects' = After(At(o, d, v), kinNew)
  BY <1>3, Zenon DEF At
<1>5. /\ held' = [(IF loadObj = -1 THEN held ELSE [held EXCEPT ![loadObj] = @ - 1]) EXCEPT ![d] = @ + 1]
      /\ loadObj' = d /\ db_top' = Bumped(d) /\ phase' = phase /\ leaked' = leaked /\ torn' = torn
  BY <1>3, Zenon
<1> PICK f : f = NewObject(c, d, v, kinNew)
  OBVIOUS
<1>6. Bounded(Cache) /\ objects \in [Dbrefs -> Records] /\ db_top \in Nat
  BY <1>1, ServingIs
<1>7. loadObj \in Dbrefs \cup {-1} /\ leaked = {} /\ held = Loading(loadObj)
  BY <1>1, LoadingIs
<1>8. PICK doomed : /\ Brings(Cache, b, Loading(-1), o1, doomed) /\ Stands(o1, doomed)
                    /\ \A e \in Dbrefs : objects[e] = NoObj => o1[e] = NoObj
  BY <1>1, <1>2, PreviousTracks DEF PrevDies, Before
<1>9. Tracks(b, Loading(-1), o1, doomed)
  BY <1>8 DEF Brings
<1>10. PICK left : /\ Brings(b, f, Loading(d), objects', left) /\ Stands(objects', left)
                  /\ \A e \in Dbrefs : o1[e] = NoObj /\ e # d => objects'[e] = NoObj
  <2>1. \E left : /\ Brings(b, NewObject(c, d, v, kinNew), Loading(d), After(At(o, d, v), kinNew), left)
                  /\ Stands(After(At(o, d, v), kinNew), left)
                  /\ \A e \in Dbrefs : o1[e] = NoObj /\ e # d => After(At(o, d, v), kinNew)[e] = NoObj
    BY <1>3, <1>4, <1>8, <1>9, ReplacedTracks
  <2> QED BY <1>4, <2>1, Zenon
<1>11. held' = Loading(d) /\ Counts' = Loading(d) /\ held' \in [Dbrefs -> Nat]
  <2>1. held' = [Loading(-1) EXCEPT ![d] = @ + 1]
    <3>1. (IF loadObj = -1 THEN held ELSE [held EXCEPT ![loadObj] = @ - 1]) = Loading(-1)
      BY <1>7, GivenBack
    <3> QED BY <1>5, <3>1, Zenon
  <2>2. Loading(-1)[d] + 1 = 1
    BY Constants DEF Loading
  <2>3. held' = At(Loading(-1), d, 1)
    BY <2>1, <2>2, Zenon DEF At
  <2>4. held' = Loading(d)
    BY <2>3, NoneIsHeld
  <2>5. Counts' = Loading(d)
    <3>1. leaked' = {}
      BY <1>5, <1>7
    <3> QED BY <2>4, <3>1 DEF Counts, References, Loading
  <2> QED BY <2>4, <2>5 DEF Loading
<1>12. Brings(Cache, f, Counts', objects', left)
  <2>1. Brings(b, f, Counts', objects', left)
    BY <1>10, <1>11, Zenon
  <2> QED BY <1>8, <2>1, BringsTwice
<1>13. Follows(f, left) /\ Marks(Cache, f)
  BY <1>6, <1>10, <1>12 DEF Brings, Follows
<1>14. Counted' /\ TopIsFree' /\ db_top' \in Nat /\ leaked' \subseteq Dbrefs
  <2>1. Counted'
    BY <1>1, <1>5, <1>7, <1>11 DEF Counted, Inv
  <2>2. d \in Nat
    BY Constants
  <2>3. db_top' \in Nat /\ db_top <= db_top' /\ d < db_top'
    BY <1>5, <1>6, <2>2 DEF Bumped
  <2>4. TopIsFree'
    <3>1. ASSUME NEW e \in Dbrefs, objects'[e] # NoObj PROVE e < db_top'
      <4>1. CASE e = d
        BY <2>3, <4>1
      <4>2. CASE e # d
        <5>1. objects[e] # NoObj
          BY <1>8, <1>10, <3>1, <4>2
        <5>2. e < db_top /\ e \in Nat
          BY <1>1, <5>1, Constants DEF Inv, TopIsFree
        <5> QED BY <1>6, <2>3, <5>2
      <4> QED BY <4>1, <4>2
    <3> QED BY <3>1 DEF TopIsFree
  <2> QED BY <1>5, <1>7, <2>1, <2>3, <2>4 DEF Inv, Typed
<1>15. phase' \in {"loading", "running"}
  BY <1>1, <1>5
<1> QED BY <1>1, <1>4, <1>5, <1>11, <1>13, <1>14, <1>15, StepsOn


LEMMA MaxOfFinite ==
    ASSUME NEW S \in SUBSET Nat, S # {}, IsFiniteSet(S)
    PROVE  Max(S) \in S /\ \A y \in S : Max(S) >= y
<1> DEFINE Above(x) == {y \in S : y > x}
<1> DEFINE Sizes == {Cardinality(Above(x)) : x \in S}
<1> DEFINE R == {ss \in Nat \X Nat : ss[1] < ss[2]}
<1>1. ASSUME NEW x \in S
      PROVE  IsFiniteSet(Above(x)) /\ Cardinality(Above(x)) \in Nat
  <2>1. Above(x) \subseteq S
    OBVIOUS
  <2>2. IsFiniteSet(Above(x))
    BY <2>1, FS_Subset
  <2> QED BY <2>2, FS_CardinalityType
<1>2. IsWellFoundedOn(R, Nat)
  BY NatLessThanWellFounded, Zenon DEF OpToRel
<1>3. Sizes \in SUBSET Nat /\ Sizes # {}
  BY <1>1
<1>4. PICK m \in Sizes : \A k \in Sizes : ~(<<k, m>> \in R)
  BY <1>2, <1>3, WFMin, Zenon
<1>5. PICK x \in S : m = Cardinality(Above(x))
  BY <1>4
<1>6. ASSUME NEW y \in S PROVE x >= y
  <2>1. SUFFICES ASSUME y > x PROVE FALSE
    <3>1. x \in Nat /\ y \in Nat
      OBVIOUS
    <3> QED BY <2>1, <3>1
  <2>2. Above(y) \subseteq Above(x) /\ y \in Above(x) /\ y \notin Above(y)
    <3>1. x \in Nat /\ y \in Nat /\ ~(y > y)
      OBVIOUS
    <3>2. ASSUME NEW z \in S, z > y PROVE z > x
      <4>1. z \in Nat
        OBVIOUS
      <4> HIDE DEF Above
      <4> QED BY <2>1, <3>1, <3>2, <4>1
    <3> QED BY <2>1, <3>1, <3>2, Zenon
  <2>3. /\ Cardinality(Above(y)) <= Cardinality(Above(x))
        /\ Cardinality(Above(y)) = Cardinality(Above(x)) => Above(y) = Above(x)
    BY <1>1, <2>2, FS_Subset
  <2>4. Cardinality(Above(y)) < Cardinality(Above(x))
    <3>1. Cardinality(Above(x)) \in Nat /\ Cardinality(Above(y)) \in Nat /\ Above(y) # Above(x)
      BY <1>1, <2>2
    <3> HIDE DEF Above
    <3> QED BY <2>3, <3>1
  <2>5. <<Cardinality(Above(y)), m>> \in R /\ Cardinality(Above(y)) \in Sizes
    <3>1. Cardinality(Above(x)) \in Nat /\ Cardinality(Above(y)) \in Nat
      BY <1>1
    <3>2. Cardinality(Above(y)) \in Sizes
      OBVIOUS
    <3> HIDE DEF Above, Sizes
    <3> QED BY <1>5, <2>4, <3>1, <3>2
  <2> QED BY <1>4, <2>5
<1> QED BY <1>6, Zenon DEF Max

(* The two objects that a new database is given.                             *)
Founded(v, w) == [d \in Dbrefs |-> IF d = ROOT_DBREF THEN v ELSE IF d = SYSTEM_DBREF THEN w ELSE NoObj]

Ready(c, v, w) == Ensured(Ensured(c, ROOT_DBREF, v, <<>>), SYSTEM_DBREF, w, <<<<ROOT_DBREF, v>>>>)

LEMMA FoundedTracks ==
    ASSUME NEW v \in Values, NEW w \in Values
    PROVE  Brings(Opened(Nothing), Ready(Opened(Nothing), v, w), Unheld, Founded(v, w), {})
<1> PICK s \in Dbrefs, t \in Dbrefs : s = SYSTEM_DBREF /\ t = ROOT_DBREF /\ s # t
  BY Constants
<1> PICK c : c = Opened(Nothing)
  OBVIOUS
<1> PICK b : b = Ensured(c, t, v, <<>>)
  OBVIOUS
<1> PICK o : o = At(Nothing, t, v)
  OBVIOUS
<1> PICK kin : kin = <<<<t, v>>>>
  OBVIOUS
<1>1. Tracks(c, Unheld, Nothing, {})
  <2>1. Nothing \in [Dbrefs -> Images]
    BY DEF Nothing, Images
  <2> QED BY <2>1, OpenedTracks
<1>2. Brings(c, b, Unheld, o, {})
  <2>1. Nothing[t] = NoObj /\ <<>> \in Kins(Nothing, t)
    BY DEF Nothing, Kins
  <2>2. Brings(c, b, Unheld, After(At(Nothing, t, v), <<>>), {})
    BY <1>1, <2>1, EnsuredNew
  <2>3. After(o, <<>>) = o
    BY DEF After
  <2> QED BY <2>2, <2>3, Zenon
<1>3. o = [d \in Dbrefs |-> IF d = t THEN v ELSE NoObj] /\ v # NoObj
  BY Constants DEF At, Nothing
<1>4. Brings(b, Ensured(b, s, w, kin), Unheld, After(At(o, s, w), kin), {})
  <2>1. Tracks(b, Unheld, o, {})
    BY <1>2 DEF Brings
  <2>2. o[s] = NoObj
    BY <1>3
  <2>3. kin \in Kins(o, s)
    <3>1. <<t, v>> \in {p \in Dbrefs \ {s} : o[p] # NoObj} \X Values
      BY <1>3
    <3> QED BY <3>1, Zenon DEF Kins
  <2> QED BY <2>1, <2>2, <2>3, EnsuredNew
<1>5. After(At(o, s, w), kin) = Founded(v, w)
  <2>1. kin # <<>> /\ kin[1][1] = t /\ kin[1][2] = v
    OBVIOUS
  <2>2. After(At(o, s, w), kin) = [At(o, s, w) EXCEPT ![t] = v]
    BY <2>1, Zenon DEF After
  <2>3. Founded(v, w) = [d \in Dbrefs |-> IF d = t THEN v ELSE IF d = s THEN w ELSE NoObj]
    BY DEF Founded
  <2> QED BY <1>3, <2>2, <2>3 DEF At
<1>6. Brings(c, Ensured(b, s, w, kin), Unheld, Founded(v, w), {})
  <2>1. Brings(b, Ensured(b, s, w, kin), Unheld, Founded(v, w), {})
    BY <1>4, <1>5, Zenon
  <2> QED BY <1>2, <2>1, BringsTwice
<1> QED BY <1>6, Zenon DEF Ready

LEMMA ReopenedTracks ==
    ASSUME NEW disk \in [Dbrefs -> Images], \A d \in Essential : disk[d] # NoObj, NEW v, NEW w
    PROVE  /\ Brings(Opened(disk), Ready(Opened(disk), v, w), Unheld, disk, {})
           /\ Pristine(Ready(Opened(disk), v, w))
<1> PICK s \in Dbrefs, t \in Dbrefs : s = SYSTEM_DBREF /\ t = ROOT_DBREF /\ s # t
  BY Constants
<1> PICK c : c = Opened(disk)
  OBVIOUS
<1> PICK b : b = Ensured(c, t, v, <<>>)
  OBVIOUS
<1> PICK kin : kin = <<<<t, v>>>>
  OBVIOUS
<1>1. Tracks(c, Unheld, disk, {}) /\ Pristine(c)
  BY OpenedTracks
<1>2. disk[s] # NoObj /\ disk[t] # NoObj /\ Unheld[s] = 0 /\ Unheld[t] = 0
  BY DEF Essential, Unheld
<1>3. Brings(c, b, Unheld, disk, {}) /\ Pristine(b)
  BY <1>1, <1>2, EnsuredThere
<1>4. Brings(b, Ensured(b, s, w, kin), Unheld, disk, {}) /\ Pristine(Ensured(b, s, w, kin))
  <2>1. Tracks(b, Unheld, disk, {})
    BY <1>3 DEF Brings
  <2> QED BY <1>2, <1>3, <2>1, EnsuredThere
<1>5. Brings(c, Ensured(b, s, w, kin), Unheld, disk, {})
  BY <1>3, <1>4, BringsTwice
<1> QED BY <1>4, <1>5, Zenon DEF Ready


(* What is on a marked disk has the two objects, unless it has nothing.      *)
Disk == IF clean THEN store ELSE Nothing

LEMMA DiskIs ==
    ASSUME Inv
    PROVE  /\ Disk \in [Dbrefs -> Images]
           /\ Disk = Nothing \/ (clean /\ \A d \in Essential : Disk[d] # NoObj)
<1>1. store \in [Dbrefs -> Images]
  <2>1. WellFormed(Cache)
    BY DEF Inv, Typed
  <2>2. Cache.store \in [Dbrefs -> Images]
    BY <2>1 DEF WellFormed, Caches
  <2> QED BY <2>2 DEF Cache
<1>2. Nothing \in [Dbrefs -> Images]
  BY DEF Nothing, Images
<1>3. CASE clean
  <2>1. Disk = store
    BY <1>3 DEF Disk
  <2> QED BY <1>1, <1>3, <2>1 DEF Inv, Kernel, Whole
<1>4. CASE ~clean
  BY <1>2, <1>4 DEF Disk
<1> QED BY <1>3, <1>4

LEMMA BothHeldIs ==
    /\ BothHeld \in [Dbrefs -> Nat]
    /\ BothHeld = At(At(Unheld, SYSTEM_DBREF, Unheld[SYSTEM_DBREF] + 1), ROOT_DBREF, Unheld[ROOT_DBREF] + 1)
<1> PICK s \in Dbrefs, t \in Dbrefs : s = SYSTEM_DBREF /\ t = ROOT_DBREF /\ s # t
  BY Constants
<1>1. Unheld[s] + 1 = 1 /\ Unheld[t] + 1 = 1
  BY DEF Unheld
<1>2. At(At(Unheld, s, Unheld[s] + 1), t, Unheld[t] + 1) = At(At(Unheld, s, 1), t, 1)
  BY <1>1, Zenon
<1>3. BothHeld = [Unheld EXCEPT ![s] = 1, ![t] = 1]
  BY DEF BothHeld
<1>4. BothHeld = At(At(Unheld, s, 1), t, 1) /\ BothHeld \in [Dbrefs -> Nat]
  BY <1>3 DEF At, Unheld
<1> QED BY <1>2, <1>4

LEMMA InitializeKeeps ==
    ASSUME Inv, NEW v \in Values, NEW w \in Values, Initialize(v, w)
    PROVE  Inv'
<1> PICK disk : disk = Disk
  OBVIOUS
<1> PICK c : c = Opened(disk)
  OBVIOUS
<1> PICK ready : ready = Ready(c, v, w)
  OBVIOUS
<1> PICK f : f = IF clean THEN HoldBoth(ready) ELSE ready
  OBVIOUS
<1>0. /\ phase = "down" /\ phase' = IF clean THEN "running" ELSE "loading"
      /\ Install(f) /\ held' = IF clean THEN BothHeld ELSE Unheld
      /\ loadObj' = -1 /\ leaked' = {}
      /\ db_top' = 1 + Max({ROOT_DBREF} \cup {d \in Dbrefs : disk[d] # NoObj})
      /\ objects' = [d \in Dbrefs |->
                       IF disk[d] # NoObj THEN disk[d]
                       ELSE IF d = ROOT_DBREF THEN v
                       ELSE IF d = SYSTEM_DBREF THEN w ELSE NoObj]
      /\ saved' = disk /\ torn' = {}
  BY Zenon DEF Initialize, Disk, Opened, Ready
<1>1. disk \in [Dbrefs -> Images] /\ (disk = Nothing \/ (clean /\ \A d \in Essential : disk[d] # NoObj))
  BY DiskIs
<1>2. Tracks(c, Unheld, disk, {}) /\ Bounded(c)
  BY <1>1, OpenedTracks
<1>3. /\ Brings(c, ready, Unheld, objects', {})
      /\ disk # Nothing => Pristine(ready)
      /\ \A d \in Essential : objects'[d] # NoObj
  <2>1. CASE disk = Nothing
    <3>1. Brings(c, ready, Unheld, Founded(v, w), {})
      BY <2>1, FoundedTracks
    <3>2. objects' = Founded(v, w)
      BY <1>0, <2>1 DEF Founded, Nothing
    <3>3. \A d \in Essential : Founded(v, w)[d] # NoObj
      BY Constants DEF Founded, Essential
    <3> QED BY <2>1, <3>1, <3>2, <3>3, Zenon
  <2>2. CASE disk # Nothing
    <3>1. \A d \in Essential : disk[d] # NoObj
      BY <1>1, <2>2
    <3>2. Brings(c, ready, Unheld, disk, {}) /\ Pristine(ready)
      BY <1>1, <3>1, ReopenedTracks
    <3>3. objects' = disk
      BY <1>0, <1>1, <3>1 DEF Essential
    <3> QED BY <3>1, <3>2, <3>3, Zenon
  <2> QED BY <2>1, <2>2
<1>4. Brings(c, f, held', objects', {}) /\ (disk # Nothing => f.clean) /\ held' \in [Dbrefs -> Nat]
  <2>1. CASE clean
    <3>1. Tracks(ready, Unheld, objects', {})
      BY <1>3 DEF Brings
    <3>2. objects'[SYSTEM_DBREF] # NoObj /\ objects'[ROOT_DBREF] # NoObj
      BY <1>3 DEF Essential
    <3>3. /\ Brings(ready, HoldBoth(ready), BothHeld, objects', {})
          /\ Pristine(ready) => Pristine(HoldBoth(ready))
      <4>1. /\ Brings(ready, HoldBoth(ready), At(At(Unheld, SYSTEM_DBREF, Unheld[SYSTEM_DBREF] + 1), ROOT_DBREF, Unheld[ROOT_DBREF] + 1),
                      objects', {})
            /\ Pristine(ready) => Pristine(HoldBoth(ready))
        BY <3>1, <3>2, HoldBothTracks
      <4> QED BY <4>1, BothHeldIs, Zenon
    <3>4. f = HoldBoth(ready) /\ held' = BothHeld
      BY <1>0, <2>1
    <3>5. Brings(ready, f, held', objects', {})
      BY <3>3, <3>4, Zenon
    <3>6. Brings(c, f, held', objects', {})
      BY <1>3, <3>5, BringsTwice
    <3>7. disk # Nothing => f.clean
      BY <1>3, <3>3, <3>4 DEF Pristine
    <3> QED BY <3>4, <3>6, <3>7, BothHeldIs
  <2>2. CASE ~clean
    <3>1. f = ready /\ held' = Unheld /\ disk = Nothing
      BY <1>0, <1>1, <2>2
    <3>2. Unheld \in [Dbrefs -> Nat]
      BY DEF Unheld
    <3> QED BY <1>3, <3>1, <3>2, Zenon
  <2> QED BY <2>1, <2>2
<1>5. /\ Tracks(f, held', objects', {}) /\ Bounded(f) /\ Marks(c, f) /\ f \in Caches /\ WellFormed(f)
      /\ objects' \in [Dbrefs -> Records]
  BY <1>2, <1>4 DEF Brings, Tracks, WellFormed
<1>6. Cache' = f /\ store' = f.store /\ clean' = f.clean
  BY <1>0, <1>5, CacheIs DEF Install
<1>7. Counts' = held'
  BY <1>0, <1>4 DEF Counts, References
<1>8. Doomed' = {}
  <2>1. {} = {d \in Dbrefs : IsActive(f, d) /\ Holding(f, d).dead}
    BY <1>5, DoomedIs
  <2> QED BY <1>6, <2>1 DEF Doomed
<1>9. db_top' \in Nat /\ \A d \in Dbrefs : objects'[d] # NoObj => d < db_top'
  <2> DEFINE S == {ROOT_DBREF} \cup {d \in Dbrefs : disk[d] # NoObj}
  <2>1. S \in SUBSET Nat /\ S # {} /\ IsFiniteSet(S)
    <3>1. S \subseteq Dbrefs
      BY Constants
    <3> QED BY <3>1, Constants, FS_Subset
  <2>2. Max(S) \in S /\ \A y \in S : Max(S) >= y
    <3> HIDE DEF S
    <3> QED BY <2>1, MaxOfFinite
  <2>3. db_top' = 1 + Max(S)
    BY <1>0
  <2>4. ASSUME NEW d \in Dbrefs, objects'[d] # NoObj
        PROVE  d \in S \/ d = 0
    BY <1>0, <2>4 DEF SYSTEM_DBREF
  <2> HIDE DEF S
  <2>5. Max(S) \in Nat
    BY <2>1, <2>2
  <2>6. ASSUME NEW d \in Dbrefs, objects'[d] # NoObj
        PROVE  d < db_top'
    <3>1. d \in S \/ d = 0
      BY <2>4, <2>6
    <3>2. d \in S => Max(S) >= d /\ d \in Nat
      BY <2>1, <2>2
    <3> QED BY <2>3, <2>5, <3>1, <3>2
  <2> QED BY <2>3, <2>5, <2>6
<1>10. Typed'
  <2>0. disk \in [Dbrefs -> Records]
    BY <1>1, RecordsAre
  <2>1. phase' \in {"down", "loading", "running"}
    BY <1>0
  <2>2. WellFormed(Cache)'
    BY <1>5, <1>6
  <2> QED BY <1>0, <1>4, <1>5, <1>9, <2>0, <2>1, <2>2 DEF Typed
<1>11. Counted'
  <2>1. phase' # "down" /\ (phase' = "loading" => held' = Unheld)
    BY <1>0
  <2>2. Unheld = Loading(-1)
    BY Constants DEF Unheld, Loading
  <2> QED BY <1>0, <2>1, <2>2 DEF Counted
<1>12. Tracked' /\ Bounded(Cache)'
  BY <1>5, <1>6, <1>7, <1>8 DEF Tracked
<1>13. phase' # "down"
  BY <1>0
<1>14. AtRest' /\ TopIsFree'
  BY <1>9, <1>13 DEF AtRest, TopIsFree
<1>15. Vouched'
  <2>1. clean' => store' = disk
    BY <1>5, <1>6 DEF Marks, Opened
  <2>2. ~clean' => disk = Nothing
    BY <1>4, <1>6
  <2> QED BY <1>0, <1>1, <2>1, <2>2, AgreesSelf DEF Vouched
<1>16. Kernel'
  <2>1. Whole(disk)
    BY <1>1 DEF Whole
  <2>2. Stands(objects', {})
    BY <1>3 DEF Stands
  <2>3. clean' => store' = disk
    BY <1>5, <1>6 DEF Marks, Opened
  <2> QED BY <1>0, <1>8, <2>1, <2>2, <2>3 DEF Kernel
<1> QED BY <1>10, <1>11, <1>12, <1>14, <1>15, <1>16 DEF Inv


LEMMA InitInv ==
    ASSUME Init PROVE Inv
<1>0. /\ phase = "down" /\ store = Nothing /\ clean = FALSE /\ db_top = 0 /\ loadObj = -1 /\ held = Unheld
      /\ leaked = {} /\ objects = Nothing /\ saved = Nothing /\ torn = {}
      /\ active = NoChains /\ inactive = NoChains
  BY DEF Init
<1>1. /\ Nothing \in [Dbrefs -> Images] /\ Nothing \in [Dbrefs -> Records]
      /\ Unheld \in [Dbrefs -> Nat] /\ FALSE \in BOOLEAN
  BY RecordsAre DEF Nothing, Unheld
<1>2. WellFormed(Files(Nothing, FALSE)) /\ Bounded(Files(Nothing, FALSE))
  BY <1>1, FilesAreWellFormed
<1>3. Cache = Files(Nothing, FALSE)
  BY <1>0 DEF Cache, Files
<1>4. WellFormed(Cache) /\ Bounded(Cache)
  BY <1>2, <1>3, Zenon
<1>5. Typed
  BY <1>0, <1>1, <1>4 DEF Typed
<1>6. Counted /\ Tracked /\ TopIsFree /\ AtRest /\ Vouched /\ Kernel
  BY <1>0 DEF Counted, Tracked, TopIsFree, AtRest, Vouched, Kernel
<1> QED BY <1>4, <1>5, <1>6 DEF Inv

LEMMA NextInv ==
    ASSUME "paused_eval" \notin Scripts, Inv, [Next]_vars
    PROVE  Inv'
<1>1. CASE \E v, w \in Values : Initialize(v, w)
  BY <1>1, InitializeKeeps
<1>2. CASE LoadDone
  BY <1>2, LoadDoneKeeps
<1>3. CASE BinaryDump
  BY <1>3, DumpKeeps
<1>4. CASE Shutdown \/ Crash \/ CrashInPut \/ \E d \in Dbrefs : CrashInDel(d)
  BY <1>4, CrashesKeep
<1>5. ASSUME NEW d \in Dbrefs, Fetch(d) \/ Drop(d) \/ OpDestroy(d) \/ OpChparentsNone(d)
      PROVE  Inv'
  BY <1>5, FetchKeeps, DropKeeps, DestroyKeeps, ChparentsKeeps
<1>6. ASSUME NEW d \in Dbrefs, NEW v \in Values, Modify(d, v) \/ AssignVar(d, v)
      PROVE  Inv'
  BY <1>6, ChangesKeep
<1>10. ASSUME NEW d \in Dbrefs, NEW v \in Values, OpChparents(d, v)
      PROVE  Inv'
  BY <1>10, MovesKeep
<1>7. ASSUME NEW d \in Dbrefs, NEW v \in Values, LoadObject(d, v)
      PROVE  Inv'
  BY <1>7, LoadObjectKeeps
<1>8. ASSUME NEW v \in Values, OpCreate(v)
      PROVE  Inv'
  BY <1>8, CreateKeeps
<1>9. CASE UNCHANGED vars
  <2>1. /\ phase' = phase /\ active' = active /\ inactive' = inactive /\ store' = store /\ clean' = clean
        /\ db_top' = db_top /\ loadObj' = loadObj /\ held' = held /\ leaked' = leaked
        /\ objects' = objects /\ saved' = saved /\ torn' = torn
    BY <1>9 DEF vars, chains
  <2>2. Cache' = Cache /\ Counts' = Counts
    BY <2>1, CountsSame DEF Cache
  <2>3. Doomed' = Doomed
    BY <2>2 DEF Doomed
  <2>4. Typed' /\ Counted' /\ Bounded(Cache)'
    BY <2>1, <2>2 DEF Inv, Typed, Counted
  <2>5. Tracked' /\ AtRest' /\ Vouched'
    BY <2>1, <2>2, <2>3 DEF Inv, Tracked, AtRest, Vouched
  <2>6. Kernel' /\ TopIsFree'
    BY <2>1, <2>3 DEF Inv, Kernel, TopIsFree
  <2> QED BY <2>4, <2>5, <2>6 DEF Inv
<1> QED BY <1>1, <1>2, <1>3, <1>4, <1>5, <1>6, <1>7, <1>8, <1>9, <1>10, Zenon DEF Next

-----------------------------------------------------------------------------
(* What the invariant says.                                                  *)
LEMMA InvGivesOneHolder ==
    ASSUME Inv PROVE OneHolder
<1> DEFINE Places(chain, d) == {i \in DOMAIN chain : chain[i].dbref = d}
<1>1. \A n \in Chains : ChainsOK(active[n], inactive[n], n)
  BY DEF Inv, Typed, WellFormed, Cache
<1>2. ASSUME NEW d \in Dbrefs, NEW n \in Chains
      PROVE  /\ active[n] \in Seq(Holder) /\ Distinct(active[n])
             /\ inactive[n] \in Seq(Holder) /\ Distinct(inactive[n])
             /\ d \in Named(active[n]) => Chain(d) = n /\ d \notin Named(inactive[n])
             /\ d \in Named(inactive[n]) => Chain(d) = n
  BY <1>1 DEF ChainsOK
<1>3. ASSUME NEW s \in Seq(Holder), Distinct(s), NEW d \in Dbrefs
      PROVE  /\ Places(s, d) = {} => d \notin Named(s)
             /\ d \notin Named(s) => Places(s, d) = {}
             /\ Cardinality(Places(s, d)) \in {0, 1}
             /\ d \notin Named(s) => Cardinality(Places(s, d)) = 0
  <2>1. d # -1
    BY Constants
  <2>2. d \in Named(s) <=> Places(s, d) # {}
    BY <2>1 DEF Named
  <2>3. CASE Places(s, d) = {}
    BY <2>2, <2>3, FS_EmptySet
  <2>4. CASE Places(s, d) # {}
    <3>1. PICK i \in DOMAIN s : s[i].dbref = d
      BY <2>4
    <3>2. Places(s, d) = {i}
      BY <1>3, <2>1, <3>1 DEF Distinct
    <3>3. Cardinality(Places(s, d)) = 1
      BY <3>2, FS_Singleton
    <3> QED BY <2>2, <2>4, <3>3
  <2> QED BY <2>3, <2>4
<1> HIDE DEF Places
<1>4. ASSUME NEW d \in Dbrefs
      PROVE  /\ Cardinality(Places(active[Chain(d)], d)) + Cardinality(Places(inactive[Chain(d)], d)) <= 1
             /\ \A n \in Chains \ {Chain(d)} : Places(active[n], d) = {} /\ Places(inactive[n], d) = {}
  <2>1. Chain(d) \in Chains
    BY ChainIsOne
  <2>2. d \notin Named(active[Chain(d)]) \/ d \notin Named(inactive[Chain(d)])
    BY <1>2, <2>1
  <2>3. Cardinality(Places(active[Chain(d)], d)) + Cardinality(Places(inactive[Chain(d)], d)) <= 1
    <3>1. Cardinality(Places(active[Chain(d)], d)) \in {0, 1} /\ Cardinality(Places(inactive[Chain(d)], d)) \in {0, 1}
      BY <1>2, <1>3, <2>1
    <3>2. Cardinality(Places(active[Chain(d)], d)) = 0 \/ Cardinality(Places(inactive[Chain(d)], d)) = 0
      BY <1>2, <1>3, <2>1, <2>2
    <3> QED BY <3>1, <3>2
  <2>4. \A n \in Chains \ {Chain(d)} : Places(active[n], d) = {} /\ Places(inactive[n], d) = {}
    BY <1>2, <1>3
  <2> QED BY <2>3, <2>4
<1> QED BY <1>4, Zenon DEF OneHolder, Places

LEMMA HolderIs ==
    ASSUME Inv, NEW n \in Chains
    PROVE  /\ \A h \in Holders(active[n]) :
                 /\ h.dbref \in Dbrefs /\ IsActive(Cache, h.dbref) /\ h = Holding(Cache, h.dbref)
           /\ \A h \in Holders(inactive[n]) :
                 /\ h.dbref \in Dbrefs /\ IsInactive(Cache, h.dbref) /\ h = Resting(Cache, h.dbref)
                 /\ ~IsActive(Cache, h.dbref)
<1>1. WellFormed(Cache) /\ ChainsOK(active[n], inactive[n], n)
  BY DEF Inv, Typed, WellFormed, Cache
<1>2. ASSUME NEW s \in Seq(Holder), Distinct(s), NEW h \in Holders(s)
      PROVE  h.dbref \in Dbrefs /\ h.dbref \in Named(s) /\ h = Of(s, h.dbref)
  <2>1. PICK i \in DOMAIN s : s[i] = h /\ h.dbref # -1
    BY DEF Holders
  <2>2. h \in Holder /\ h.dbref \in Dbrefs
    <3>1. h \in Holder
      BY <2>1
    <3>2. h.dbref \in Dbrefs \cup {-1}
      BY <3>1 DEF Holder
    <3> QED BY <2>1, <3>2
  <2>3. h.dbref \in Named(s)
    BY <2>1 DEF Named
  <2>4. h = Of(s, h.dbref)
    BY <1>2, <2>1, <2>2, OfIs
  <2> QED BY <2>2, <2>3, <2>4
<1>3. ASSUME NEW h \in Holders(active[n])
      PROVE  h.dbref \in Dbrefs /\ IsActive(Cache, h.dbref) /\ h = Holding(Cache, h.dbref)
  <2>1. h.dbref \in Dbrefs /\ h.dbref \in Named(active[n]) /\ h = Of(active[n], h.dbref)
    BY <1>1, <1>2 DEF ChainsOK
  <2>2. Chain(h.dbref) = n
    BY <1>1, <2>1 DEF ChainsOK
  <2>3. Act(Cache, h.dbref) = active[n]
    BY <2>2 DEF Act, Cache
  <2> QED BY <1>1, <2>1, <2>3, IsActiveIs
<1>4. ASSUME NEW h \in Holders(inactive[n])
      PROVE  /\ h.dbref \in Dbrefs /\ IsInactive(Cache, h.dbref) /\ h = Resting(Cache, h.dbref)
             /\ ~IsActive(Cache, h.dbref)
  <2>1. h.dbref \in Dbrefs /\ h.dbref \in Named(inactive[n]) /\ h = Of(inactive[n], h.dbref)
    BY <1>1, <1>2 DEF ChainsOK
  <2>2. Chain(h.dbref) = n
    BY <1>1, <2>1 DEF ChainsOK
  <2>3. Inact(Cache, h.dbref) = inactive[n]
    BY <2>2 DEF Inact, Cache
  <2>4. IsInactive(Cache, h.dbref)
    BY <1>1, <2>1, <2>3, IsActiveIs
  <2> QED BY <1>1, <2>1, <2>3, <2>4, IsActiveIs DEF Resting
<1> QED BY <1>3, <1>4

LEMMA InvGivesHeldIsActive ==
    ASSUME Inv PROVE HeldIsActive
<1>0. Counts = [d \in Dbrefs |-> References(d)] /\ \A d \in Dbrefs : References(d) = held[d] + IF d \in leaked THEN 1 ELSE 0
  BY DEF Counts, References
<1>1. CASE phase = "down"
  <2>1. \A d \in Dbrefs : References(d) = 0
    BY <1>0, <1>1 DEF Inv, Counted, Unheld
  <2>2. \A n \in Chains : active[n] = <<>> /\ inactive[n] = <<>>
    BY <1>1 DEF Inv, AtRest, NoChains
  <2>3. \A n \in Chains : Holders(active[n]) = {} /\ Holders(inactive[n]) = {}
    BY <2>2 DEF Holders
  <2> QED BY <2>1, <2>3 DEF HeldIsActive
<1>2. CASE phase # "down"
  <2>1. Tracks(Cache, Counts, objects, Doomed)
    BY <1>2, ServingIs
  <2>2. ASSUME NEW d \in Dbrefs PROVE Fits(Cache, d, References(d), objects[d], d \in Doomed)
    <3>1. Counts[d] = References(d)
      BY <1>0
    <3>2. Fits(Cache, d, Counts[d], objects[d], d \in Doomed)
      BY <2>1, FitsOf
    <3> QED BY <3>1, <3>2, Zenon
  <2>3. ASSUME NEW d \in Dbrefs, References(d) > 0 PROVE IsActive(Cache, d)
    BY <2>2, <2>3 DEF Fits
  <2>4. ASSUME NEW n \in Chains, NEW h \in Holders(active[n])
        PROVE  h.refs = References(h.dbref) /\ h.refs > 0
    <3> PICK d : d = h.dbref
      OBVIOUS
    <3>1. d \in Dbrefs /\ IsActive(Cache, d) /\ h = Holding(Cache, d)
      BY <2>4, HolderIs
    <3>2. Holding(Cache, d).refs = References(d) /\ References(d) > 0
      BY <2>2, <3>1 DEF Fits
    <3> QED BY <3>1, <3>2
  <2>5. ASSUME NEW n \in Chains, NEW h \in Holders(inactive[n])
        PROVE  References(h.dbref) = 0 /\ ~h.dead
    <3> PICK d : d = h.dbref
      OBVIOUS
    <3>1. d \in Dbrefs /\ IsInactive(Cache, d) /\ h = Resting(Cache, d) /\ ~IsActive(Cache, d)
      BY <2>5, HolderIs
    <3>2. References(d) = 0 /\ ~Resting(Cache, d).dead
      BY <2>2, <3>1 DEF Fits
    <3> QED BY <3>1, <3>2
  <2> QED BY <2>3, <2>4, <2>5 DEF HeldIsActive
<1> QED BY <1>1, <1>2

LEMMA InvGivesBounded ==
    ASSUME Inv PROVE HoldersBounded
<1>1. \A n \in Chains : Size(Cache, n) <= CACHE_DEPTH \/ Size(Cache, n) <= Mine(n) + 1
  BY DEF Inv, Bounded
<1>2. \A n \in Chains : Size(Cache, n) = Len(active[n]) + Len(inactive[n])
  BY DEF Size, Cache
<1> QED BY <1>1, <1>2, Zenon DEF HoldersBounded, Mine

LEMMA InvGivesIntact ==
    ASSUME Inv PROVE ObjectsIntact /\ CleanMeansSaved
<1>1. /\ WellFormed(Cache) /\ saved \in [Dbrefs -> Records] /\ Cache.store = store
      /\ Cache.active = active /\ Cache.inactive = inactive
  BY DEF Inv, Typed, Cache
<1>2. store \in [Dbrefs -> Images]
  BY <1>1 DEF WellFormed, Caches
<1>3. CleanMeansSaved
  BY DEF Inv, Vouched, CleanMeansSaved
<1>4. ASSUME NEW d \in Dbrefs \ torn PROVE Agrees(Current(d), objects[d])
  <2>1. CASE phase = "down"
    <3>1. clean => Agrees(store[d], objects[d])
      BY <2>1 DEF Inv, AtRest
    <3>2. ~clean => objects[d] = NoObj
      BY <2>1 DEF Inv, AtRest, Nothing
    <3> QED BY <2>1, <3>1, <3>2, RecordsAre, AgreesSelf DEF Current
  <2>2. CASE phase # "down"
    <3>1. Fits(Cache, d, Counts[d], objects[d], d \in Doomed)
      BY <2>2, ServingIs, FitsOf
    <3>2. Current(d) = IF IsActive(Cache, d) THEN Holding(Cache, d).val
                       ELSE IF IsInactive(Cache, d) THEN Resting(Cache, d).val ELSE store[d]
      BY <2>2, Zenon DEF Current, IsActive, IsInactive, Holding, Resting, Of
    <3>3. CASE IsActive(Cache, d)
      BY <3>1, <3>2, <3>3 DEF Fits, Keeps
    <3>4. CASE ~IsActive(Cache, d) /\ IsInactive(Cache, d)
      BY <3>1, <3>2, <3>4 DEF Fits, Keeps
    <3>5. CASE ~IsActive(Cache, d) /\ ~IsInactive(Cache, d)
      BY <1>1, <3>1, <3>2, <3>5 DEF Fits
    <3> QED BY <3>3, <3>4, <3>5
  <2> QED BY <2>1, <2>2
<1> QED BY <1>3, <1>4 DEF ObjectsIntact

-----------------------------------------------------------------------------
LEMMA Invariance ==
    ASSUME "paused_eval" \notin Scripts PROVE Spec => []Inv
<1>1. Init => Inv
  BY InitInv
<1>2. Inv /\ [Next]_vars => Inv'
  BY NextInv
<1> QED BY <1>1, <1>2, PTL DEF Spec

(* However objects are retrieved, swapped out, destroyed and made again, no  *)
(* object is in memory twice or in a chain in which the search for it does   *)
(* not look (cache_get_holder, cache_retrieve and cache_discard).            *)
THEOREM ObjectsAreInMemoryOnce ==
    ASSUME "paused_eval" \notin Scripts PROVE Spec => []OneHolder
<1>1. Inv => OneHolder
  BY InvGivesOneHolder
<1> QED BY <1>1, Invariance, PTL

(* No holder to which there are references is recycled, and its count is     *)
(* theirs, through every retrieve, discard, destruction and restart.         *)
THEOREM ReferencesKeepObjectsActive ==
    ASSUME "paused_eval" \notin Scripts PROVE Spec => []HeldIsActive
<1>1. Inv => HeldIsActive
  BY InvGivesHeldIsActive
<1> QED BY <1>1, Invariance, PTL

(* cache_get_holder allocates a holder only when its chain has none to       *)
(* recycle, so that the cache does not outgrow the objects.                  *)
THEOREM ChainsStayBounded ==
    ASSUME "paused_eval" \notin Scripts PROVE Spec => []HoldersBounded
<1>1. Inv => HoldersBounded
  BY InvGivesBounded
<1> QED BY <1>1, Invariance, PTL

(* The dbref that object_new takes is never that of an object, whatever was  *)
(* loaded, created or found in the database.                                 *)
THEOREM NewDbrefsAreFree ==
    ASSUME "paused_eval" \notin Scripts PROVE Spec => []TopIsFree
<1>1. Inv => TopIsFree
  BY DEF Inv
<1> QED BY <1>1, Invariance, PTL

(* What is retrieved is what was last stored, in the chains, on the disk and *)
(* after a restart, but for an object that was changed with no mark, which   *)
(* is there with the change or without, and one that a crash was deleting.   *)
THEOREM ObjectsAreKept ==
    ASSUME "paused_eval" \notin Scripts PROVE Spec => []ObjectsIntact
<1>1. Inv => ObjectsIntact
  BY InvGivesIntact
<1> QED BY <1>1, Invariance, PTL

(* While the mark of a clean database is there, its files are what was saved *)
(* last, but for an object that a crash was deleting: no swapping out leaves *)
(* it in place.                                                              *)
THEOREM TheMarkIsTrue ==
    ASSUME "paused_eval" \notin Scripts PROVE Spec => []CleanMeansSaved
<1>1. Inv => CleanMeansSaved
  BY InvGivesIntact
<1> QED BY <1>1, Invariance, PTL
=============================================================================
