----------------------------- MODULE TasksProofs -----------------------------
(* Proofs about Tasks, for any number of tasks and of VMStates and any       *)
(* number of ticks, whatever resume() and cancel() are asked for.            *)
EXTENDS Tasks, FiniteSetTheorems, SequenceTheorems, WellFoundedInduction, TLAPS

(* Lists as sets.                                                            *)
LEMMA PushedIs ==
    ASSUME NEW S, NEW s \in Seq(S), NEW x \in S
    PROVE  /\ <<x>> \o s \in Seq(S) /\ ToSet(<<x>> \o s) = {x} \cup ToSet(s)
           /\ IsInjective(s) /\ x \notin ToSet(s) => IsInjective(<<x>> \o s)
<1> PICK t : t = <<x>> \o s
  OBVIOUS
<1>1. t \in Seq(S) /\ Len(t) = Len(s) + 1 /\ t[1] = x /\ \A i \in 1 .. Len(s) : t[i + 1] = s[i]
  OBVIOUS
<1>2. DOMAIN t = 1 .. Len(s) + 1 /\ DOMAIN s = 1 .. Len(s) /\ Len(s) \in Nat
  BY <1>1
<1>3. \A i \in DOMAIN t : i = 1 \/ (i - 1 \in DOMAIN s /\ t[i] = s[i - 1])
  <2>1. ASSUME NEW i \in 1 .. Len(s) + 1, i # 1
        PROVE  i - 1 \in 1 .. Len(s) /\ t[i] = s[i - 1]
    <3>1. i - 1 \in 1 .. Len(s) /\ (i - 1) + 1 = i
      BY <1>2, <2>1
    <3>2. t[(i - 1) + 1] = s[i - 1]
      BY <1>1, <3>1, Zenon
    <3> QED BY <3>1, <3>2, Zenon
  <2> QED BY <1>2, <2>1, Zenon
<1>4. ToSet(t) = {x} \cup ToSet(s)
  <2>1. ASSUME NEW y \in ToSet(t) PROVE y \in {x} \cup ToSet(s)
    <3>1. PICK i \in DOMAIN t : y = t[i]
      BY Zenon DEF ToSet
    <3>2. i = 1 \/ y \in ToSet(s)
      BY <1>3, <3>1, Zenon DEF ToSet
    <3> QED BY <1>1, <3>1, <3>2
  <2>2. ASSUME NEW y \in ToSet(s) PROVE y \in ToSet(t)
    <3>1. PICK i \in DOMAIN s : y = s[i]
      BY Zenon DEF ToSet
    <3>2. i + 1 \in DOMAIN t /\ t[i + 1] = y
      BY <1>1, <1>2, <3>1
    <3> QED BY <3>2, Zenon DEF ToSet
  <2>3. x \in ToSet(t)
    <3>1. 1 \in DOMAIN t
      BY <1>2
    <3> QED BY <1>1, <3>1, Zenon DEF ToSet
  <2> QED BY <2>1, <2>2, <2>3
<1>5. ASSUME IsInjective(s), x \notin ToSet(s)
      PROVE  IsInjective(t)
  <2>1. \A i \in DOMAIN s : s[i] # x
    BY <1>5, Zenon DEF ToSet
  <2>2. ASSUME NEW i \in DOMAIN t, NEW j \in DOMAIN t, t[i] = t[j] PROVE i = j
    <3>1. CASE i = 1
      BY <1>1, <1>3, <2>1, <2>2, <3>1
    <3>2. CASE j = 1
      BY <1>1, <1>3, <2>1, <2>2, <3>2
    <3>3. CASE i # 1 /\ j # 1
      <4>1. i - 1 \in DOMAIN s /\ j - 1 \in DOMAIN s /\ s[i - 1] = s[j - 1]
        BY <1>3, <2>2, <3>3
      <4>2. i - 1 = j - 1
        BY <1>5, <4>1, Zenon DEF IsInjective
      <4> QED BY <1>2, <4>2
    <3> QED BY <3>1, <3>2, <3>3
  <2> QED BY <2>2, Zenon DEF IsInjective
<1> QED BY <1>1, <1>4, <1>5, Zenon

LEMMA TakenIs ==
    ASSUME NEW S, NEW s \in Seq(S), s # <<>>, IsInjective(s)
    PROVE  /\ Head(s) \in S /\ Head(s) \in ToSet(s) /\ Tail(s) \in Seq(S) /\ IsInjective(Tail(s))
           /\ ToSet(Tail(s)) = ToSet(s) \ {Head(s)}
<1> PICK t : t = Tail(s)
  OBVIOUS
<1> PICK x : x = Head(s)
  OBVIOUS
<1>1. /\ x = s[1] /\ Len(s) \in Nat /\ Len(s) > 0 /\ DOMAIN s = 1 .. Len(s) /\ 1 \in DOMAIN s
      /\ t \in Seq(S) /\ DOMAIN t = 1 .. Len(s) - 1 /\ \A i \in 1 .. Len(s) - 1 : t[i] = s[i + 1]
  <2>1. Len(s) > 0 /\ x = s[1] /\ t \in Seq(S) /\ Len(t) = Len(s) - 1 /\ \A i \in 1 .. Len(t) : t[i] = s[i + 1]
    BY EmptySeq, HeadTailProperties
  <2> QED BY <2>1
<1>2. x \in ToSet(s) /\ x \in S
  BY <1>1 DEF ToSet
<1>3. ASSUME NEW i \in DOMAIN s, NEW j \in DOMAIN s, s[i] = s[j] PROVE i = j
  BY <1>3, Zenon DEF IsInjective
<1>4. IsInjective(t)
  <2>1. ASSUME NEW i \in DOMAIN t, NEW j \in DOMAIN t, t[i] = t[j] PROVE i = j
    <3>1. i \in Int /\ j \in Int /\ i + 1 \in DOMAIN s /\ j + 1 \in DOMAIN s /\ s[i + 1] = s[j + 1]
      BY <1>1, <2>1
    <3>2. i + 1 = j + 1
      BY <1>3, <3>1, Zenon
    <3> QED BY <3>1, <3>2
  <2> QED BY <2>1, Zenon DEF IsInjective
<1>5. ASSUME NEW y \in ToSet(t) PROVE y \in ToSet(s) /\ y # x
  <2>1. PICK i \in DOMAIN t : y = t[i]
    BY Zenon DEF ToSet
  <2>2. i + 1 \in DOMAIN s /\ y = s[i + 1] /\ i + 1 # 1
    BY <1>1, <2>1
  <2>3. y # x
    BY <1>1, <1>3, <2>2
  <2> QED BY <2>2, <2>3, Zenon DEF ToSet
<1>6. ASSUME NEW y \in ToSet(s), y # x PROVE y \in ToSet(t)
  <2>1. PICK i \in DOMAIN s : y = s[i]
    BY Zenon DEF ToSet
  <2>2. i - 1 \in DOMAIN t /\ t[i - 1] = y
    <3>1. i # 1 /\ i \in 1 .. Len(s)
      BY <1>1, <1>6, <2>1
    <3>2. i - 1 \in 1 .. Len(s) - 1 /\ (i - 1) + 1 = i
      BY <1>1, <3>1
    <3>3. t[i - 1] = s[(i - 1) + 1]
      BY <1>1, <3>2, Zenon
    <3> QED BY <1>1, <2>1, <3>2, <3>3, Zenon
  <2> QED BY <2>2, Zenon DEF ToSet
<1> QED BY <1>1, <1>2, <1>4, <1>5, <1>6


LEMMA MinOfNaturals ==
    ASSUME NEW S \in SUBSET Nat, S # {}
    PROVE  Min(S) \in S /\ \A y \in S : Min(S) <= y
<1> DEFINE R == {ss \in Nat \X Nat : ss[1] < ss[2]}
<1>1. IsWellFoundedOn(R, Nat)
  BY NatLessThanWellFounded, Zenon DEF OpToRel
<1>2. PICK x \in S : \A y \in S : ~(<<y, x>> \in R)
  BY <1>1, WFMin, Zenon
<1>3. ASSUME NEW y \in S PROVE x <= y
  <2>1. x \in Nat /\ y \in Nat
    OBVIOUS
  <2>2. ~(<<y, x>> \in R)
    BY <1>2
  <2> QED BY <2>1, <2>2
<1> QED BY <1>3 DEF Min

-----------------------------------------------------------------------------
(* s is the list whose first node is head.                                   *)
Chain(vm, head, s) ==
    /\ s \in Seq(VMs) /\ IsInjective(s)
    /\ head = IF s = <<>> THEN NULL ELSE s[1]
    /\ \A i \in DOMAIN s : vm[s[i]].next = IF i = Len(s) THEN NULL ELSE s[i + 1]

LEMMA Numbers ==
    /\ MaxVM \in Nat /\ MaxTasks \in Nat /\ VMs \subseteq Nat \ {0} /\ TaskNo \subseteq Nat \ {0}
    /\ NULL \notin VMs /\ None \notin TaskNo /\ METHOD_TICKS \in Nat /\ PAUSED_METHOD_TICKS \in Nat
BY TasksAssumption DEF VMs, TaskNo, NULL, None

LEMMA ChainsEnd ==
    ASSUME NEW s \in Seq(VMs), IsInjective(s)
    PROVE  Len(s) \in 0 .. MaxVM
<1>1. Len(s) \in Nat /\ DOMAIN s = 1 .. Len(s) /\ s \in [1 .. Len(s) -> VMs]
  BY LenProperties
<1>2. s \in Injection(1 .. Len(s), VMs)
  BY <1>1 DEF Injection, IsInjective
<1>3. IsFiniteSet(VMs) /\ Cardinality(VMs) = MaxVM
  BY Numbers, FS_Interval DEF VMs
<1>4. Cardinality(1 .. Len(s)) = Len(s)
  BY <1>1, FS_Interval
<1>5. Cardinality(1 .. Len(s)) <= Cardinality(VMs)
  BY <1>2, <1>3, FS_Injection, Zenon
<1> QED BY <1>1, <1>3, <1>4, <1>5, Numbers

(* What the recursive function of Walk is equal to, and what it comes to.    *)
Onward(h, head, f) ==
    [i \in 1 .. MaxVM + 1 |->
       IF i = 1 THEN <<head>>
       ELSE LET s == f[i - 1]
                n == h.vm[s[Len(s)]].next
            IN  IF n = NULL THEN s ELSE Append(s, n)]
Part(s, k) == IF k < Len(s) THEN SubSeq(s, 1, k) ELSE s
Reaches(f, i, s) == f[i] = Part(s, i)

LEMMA PartIs ==
    ASSUME NEW S, NEW s \in Seq(S), NEW k \in 1 .. Len(s)
    PROVE  /\ Part(s, k) \in Seq(S) /\ Len(Part(s, k)) = k
           /\ \A i \in 1 .. k : Part(s, k)[i] = s[i]
<1>1. Len(s) \in Nat /\ s \in [1 .. Len(s) -> S]
  BY LenProperties
<1>2. CASE k < Len(s)
  <2>1. \A i \in 1 .. k : s[i] \in S
    BY <1>1, <1>2
  <2>2. /\ SubSeq(s, 1, k) \in Seq(S) /\ Len(SubSeq(s, 1, k)) = IF 1 <= k THEN k - 1 + 1 ELSE 0
        /\ \A i \in 1 .. k - 1 + 1 : SubSeq(s, 1, k)[i] = s[1 + i - 1]
    BY <2>1, <1>1, SubSeqProperties
  <2>3. k - 1 + 1 = k /\ 1 <= k /\ \A i \in 1 .. k : 1 + i - 1 = i
    BY <1>1
  <2> PICK p : p = SubSeq(s, 1, k)
    OBVIOUS
  <2>4. p \in Seq(S) /\ Len(p) = k /\ \A i \in 1 .. k : p[i] = s[i]
    BY <2>2, <2>3
  <2>5. Part(s, k) = p
    BY <1>2, Zenon DEF Part
  <2> QED BY <2>4, <2>5, Zenon
<1>3. CASE k = Len(s)
  <2>1. ~(k < Len(s))
    BY <1>1, <1>3
  <2>2. Part(s, k) = s
    BY <2>1, Zenon DEF Part
  <2> QED BY <1>3, <2>2
<1>4. k < Len(s) \/ k = Len(s)
  <2>1. Len(s) \in Nat
    BY <1>1
  <2> QED BY <2>1
<1> QED BY <1>2, <1>3, <1>4, Zenon

LEMMA StepOnward ==
    ASSUME NEW h, NEW head, NEW s, Chain(h.vm, head, s), s # <<>>,
           NEW f, NEW i \in 2 .. MaxVM + 1, Reaches(f, i - 1, s)
    PROVE  Reaches(Onward(h, head, f), i, s)
<1> SUFFICES ASSUME f[i - 1] = Part(s, i - 1) PROVE Onward(h, head, f)[i] = Part(s, i)
  BY Zenon DEF Reaches
<1>1. s \in Seq(VMs) /\ Len(s) \in Nat /\ Len(s) > 0 /\ DOMAIN s = 1 .. Len(s) /\ i \in Nat
      /\ s \in [1 .. Len(s) -> VMs]
  BY EmptySeq, LenProperties, Numbers DEF Chain
<1> PICK p : p = Part(s, i - 1)
  OBVIOUS
<1>2. Onward(h, head, f)[i] = (IF h.vm[p[Len(p)]].next = NULL THEN p ELSE Append(p, h.vm[p[Len(p)]].next))
  BY Numbers DEF Onward
<1>3. CASE i - 1 < Len(s)
  <2>1. i - 1 \in 1 .. Len(s) /\ i \in 1 .. Len(s)
    BY <1>1, <1>3
  <2>2. p \in Seq(VMs) /\ Len(p) = i - 1 /\ \A j \in 1 .. i - 1 : p[j] = s[j]
    BY <2>1, <1>1, PartIs
  <2>3. p[Len(p)] = s[i - 1]
    BY <2>1, <2>2
  <2>4. h.vm[p[Len(p)]].next = s[i]
    BY <2>1, <2>3, <1>1, <1>3 DEF Chain
  <2>5. s[i] \in VMs
    BY <2>1, <1>1
  <2>6. Onward(h, head, f)[i] = Append(p, s[i])
    BY <1>2, <2>4, <2>5, Numbers
  <2> PICK q : q = Append(p, s[i])
    OBVIOUS
  <2>7. q \in Seq(VMs) /\ Len(q) = Len(p) + 1 /\ (\A j \in 1 .. Len(p) : q[j] = p[j]) /\ q[Len(p) + 1] = s[i]
    BY <2>2, <2>5, AppendProperties
  <2> PICK r : r = Part(s, i)
    OBVIOUS
  <2>8. r \in Seq(VMs) /\ Len(r) = i /\ \A j \in 1 .. i : r[j] = s[j]
    BY <2>1, <1>1, PartIs
  <2>9. Len(q) = Len(r) /\ \A j \in 1 .. Len(q) : q[j] = r[j]
    BY <2>1, <2>2, <2>7, <2>8
  <2>10. q = r
    BY <2>7, <2>8, <2>9, SeqEqual
  <2> QED BY <2>6, <2>10
<1>4. CASE Len(s) <= i - 1
  <2>0. ~(i - 1 < Len(s)) /\ ~(i < Len(s))
    BY <1>1, <1>4
  <2>1. p = s /\ Part(s, i) = s
    BY <2>0, Zenon DEF Part
  <2>2. h.vm[s[Len(s)]].next = NULL
    BY <1>1 DEF Chain
  <2> QED BY <1>2, <2>1, <2>2
<1> QED BY <1>1, <1>3, <1>4

LEMMA WalkIs ==
    ASSUME NEW h, NEW head, NEW s, Chain(h.vm, head, s)
    PROVE  Walk(h, head) = s
<1>1. CASE s = <<>>
  <2>1. head = NULL
    BY <1>1 DEF Chain
  <2> QED BY <1>1, <2>1, Zenon DEF Walk
<1>2. CASE s # <<>>
  <2>1. s \in Seq(VMs) /\ Len(s) \in 1 .. MaxVM /\ head = s[1] /\ s \in [1 .. Len(s) -> VMs]
    BY <1>2, EmptySeq, LenProperties, ChainsEnd, Numbers DEF Chain
  <2>2. head \in VMs /\ head # NULL
    BY <2>1, Numbers
  <2>3. Part(s, 1) = <<head>>
    <3> PICK p : p = Part(s, 1)
      OBVIOUS
    <3>0. 1 \in 1 .. Len(s) /\ 1 \in 1 .. 1
      BY <2>1, Numbers
    <3>1. p \in Seq(VMs) /\ Len(p) = 1 /\ p[1] = s[1]
      BY <2>1, <3>0, PartIs, Zenon
    <3>2. <<head>> \in Seq(VMs) /\ Len(<<head>>) = 1 /\ <<head>>[1] = head
      BY <2>2
    <3>3. p = <<head>>
      BY <3>1, <3>2, <2>1, SeqEqual
    <3> QED BY <3>3
  <2> PICK g : g = [i \in 1 .. MaxVM + 1 |-> Part(s, i)]
    OBVIOUS
  <2> DEFINE u == CHOOSE f : f = Onward(h, head, f)
  <2>4. g = Onward(h, head, g)
    <3>1. ASSUME NEW i \in 1 .. MaxVM + 1 PROVE g[i] = Onward(h, head, g)[i]
      <4>1. CASE i = 1
        BY <4>1, <2>3 DEF Onward
      <4>2. CASE i # 1
        <5>1. i \in 2 .. MaxVM + 1 /\ i - 1 \in 1 .. MaxVM + 1
          BY <4>2, Numbers
        <5>2. Reaches(g, i - 1, s)
          BY <5>1 DEF Reaches
        <5>3. Reaches(Onward(h, head, g), i, s)
          BY <5>1, <5>2, <1>2, StepOnward, Zenon
        <5> QED BY <5>1, <5>3 DEF Reaches
      <4> QED BY <4>1, <4>2
    <3> QED BY <3>1, Zenon DEF Onward
  <2>5. u = Onward(h, head, u)
    BY <2>4, Zenon
  <2> HIDE DEF u
  <2>6. Walk(h, head) = u[MaxVM + 1]
    BY <2>2, Zenon DEF Walk, Onward, u
  <2>7. u[1] = Part(s, 1)
    BY <2>3, <2>5, Numbers DEF Onward
  <2> DEFINE Odd == {i \in 1 .. MaxVM + 1 : u[i] # Part(s, i)}
  <2>8. Odd = {}
    <3> SUFFICES ASSUME Odd # {} PROVE FALSE
      OBVIOUS
    <3> PICK m : m = Min(Odd)
      OBVIOUS
    <3>1. m \in Odd /\ \A i \in Odd : m <= i
      <4>1. Odd \in SUBSET Nat
        BY Numbers
      <4> HIDE DEF Odd
      <4> QED BY <4>1, MinOfNaturals
    <3>2. m \in 2 .. MaxVM + 1 /\ m - 1 \in 1 .. MaxVM + 1 /\ ~(m <= m - 1)
      BY <3>1, <2>7, Numbers
    <3>3. Reaches(u, m - 1, s)
      BY <3>1, <3>2 DEF Reaches
    <3>4. Reaches(Onward(h, head, u), m, s)
      BY <3>2, <3>3, <1>2, StepOnward, Zenon
    <3> QED BY <2>5, <3>1, <3>4 DEF Reaches
  <2>9. u[MaxVM + 1] = Part(s, MaxVM + 1)
    BY <2>8, Numbers
  <2>10. Part(s, MaxVM + 1) = s
    <3>1. ~(MaxVM + 1 < Len(s))
      BY <2>1, Numbers
    <3> QED BY <3>1, Zenon DEF Part
  <2> QED BY <2>6, <2>9, <2>10
<1> QED BY <1>1, <1>2

LEMMA ListOf ==
    ASSUME NEW S, NEW n \in Nat, NEW t \in [1 .. n -> S]
    PROVE  t \in Seq(S) /\ Len(t) = n
OBVIOUS

LEMMA ChainIsASet ==
    ASSUME NEW h, NEW head, NEW s, Chain(h.vm, head, s)
    PROVE  Nodes(h, head) = ToSet(s) /\ Ends(h, head)
<1>1. Walk(h, head) = s
  BY WalkIs, Zenon
<1>2. Len(s) \in 0 .. MaxVM
  BY ChainsEnd, Zenon DEF Chain
<1>3. Len(s) <= MaxVM
  BY <1>2, Numbers
<1> QED BY <1>1, <1>3, Zenon DEF Nodes, Ends, ToSet

SameNext(vm, vm2, S) == \A w \in S : vm2[w].next = vm[w].next

LEMMA ChainElsewhere ==
    ASSUME NEW vm, NEW vm2, NEW head, NEW s, Chain(vm, head, s), SameNext(vm, vm2, ToSet(s))
    PROVE  Chain(vm2, head, s)
<1>1. \A i \in DOMAIN s : vm2[s[i]].next = vm[s[i]].next
  BY Zenon DEF SameNext, ToSet
<1> QED BY <1>1, Zenon DEF Chain

LEMMA EmptyChain ==
    ASSUME NEW vm
    PROVE  Chain(vm, NULL, <<>>) /\ ToSet(<<>>) = {}
<1>1. <<>> \in Seq(VMs) /\ DOMAIN <<>> = {}
  OBVIOUS
<1> QED BY <1>1, Zenon DEF Chain, IsInjective, ToSet

LEMMA ChainHead ==
    ASSUME NEW vm, NEW head, NEW s, Chain(vm, head, s)
    PROVE  /\ head = NULL <=> s = <<>>
           /\ head # NULL => head \in ToSet(s) /\ head \in VMs /\ Head(s) = head
<1>1. s \in Seq(VMs)
  BY Zenon DEF Chain
<1>2. CASE s = <<>>
  BY <1>2, Zenon DEF Chain
<1>3. CASE s # <<>>
  <2>1. Head(s) \in VMs /\ Head(s) \in ToSet(s)
    <3>1. Len(s) \in Nat /\ Len(s) > 0 /\ DOMAIN s = 1 .. Len(s) /\ s \in [1 .. Len(s) -> VMs] /\ Head(s) = s[1]
      BY <1>1, <1>3, EmptySeq, LenProperties
    <3>2. 1 \in DOMAIN s /\ s[1] \in VMs
      BY <3>1
    <3> QED BY <3>1, <3>2, Zenon DEF ToSet
  <2>2. head = s[1] /\ Head(s) = s[1]
    BY <1>1, <1>3 DEF Chain
  <2> QED BY <1>3, <2>1, <2>2, Numbers
<1> QED BY <1>2, <1>3

Pushing(vm, vm2, head, s, v) ==
    /\ Chain(vm, head, s) /\ SameNext(vm, vm2, ToSet(s))
    /\ v \in VMs /\ v \notin ToSet(s) /\ vm2[v].next = head

LEMMA ChainPushed ==
    ASSUME NEW vm, NEW vm2, NEW head, NEW s, NEW v, Pushing(vm, vm2, head, s, v)
    PROVE  Chain(vm2, v, <<v>> \o s) /\ ToSet(<<v>> \o s) = {v} \cup ToSet(s)
<1>0. /\ Chain(vm, head, s) /\ SameNext(vm, vm2, ToSet(s))
      /\ v \in VMs /\ v \notin ToSet(s) /\ vm2[v].next = head
  BY Zenon DEF Pushing
<1> PICK t : t = <<v>> \o s
  OBVIOUS
<1>1. s \in Seq(VMs) /\ IsInjective(s) /\ Len(s) \in Nat /\ DOMAIN s = 1 .. Len(s)
  BY <1>0, LenProperties DEF Chain
<1>2. t \in Seq(VMs) /\ IsInjective(t) /\ ToSet(t) = {v} \cup ToSet(s)
  BY <1>0, <1>1, PushedIs, Zenon
<1>3. Len(t) = Len(s) + 1 /\ t[1] = v /\ DOMAIN t = 1 .. Len(s) + 1 /\ \A i \in 1 .. Len(s) : t[i + 1] = s[i]
  <2>1. s \in Seq(VMs) /\ <<v>> \in Seq(VMs) /\ Len(<<v>>) = 1 /\ <<v>>[1] = v
    BY <1>0, <1>1
  <2>2. /\ Len(<<v>> \o s) = Len(<<v>>) + Len(s)
        /\ \A i \in 1 .. Len(<<v>>) + Len(s) :
              (<<v>> \o s)[i] = IF i <= Len(<<v>>) THEN <<v>>[i] ELSE s[i - Len(<<v>>)]
    BY <2>1, ConcatProperties
  <2>3. Len(t) = Len(s) + 1 /\ \A i \in 1 .. Len(s) + 1 : t[i] = IF i <= 1 THEN v ELSE s[i - 1]
    BY <2>1, <2>2, <1>1
  <2>4. \A i \in 1 .. Len(s) : i + 1 \in 1 .. Len(s) + 1 /\ ~(i + 1 <= 1) /\ (i + 1) - 1 = i
    BY <1>1
  <2>5. \A i \in 1 .. Len(s) : t[i + 1] = s[i]
    BY <2>3, <2>4
  <2>6. DOMAIN t = 1 .. Len(t)
    BY <1>2, LenProperties
  <2> QED BY <1>1, <2>3, <2>5, <2>6
<1>4. ASSUME NEW i \in DOMAIN t PROVE vm2[t[i]].next = IF i = Len(t) THEN NULL ELSE t[i + 1]
  <2>1. CASE i = 1
    <3>1. CASE s = <<>>
      <4>1. Len(s) = 0 /\ head = NULL
        BY <1>0, <3>1 DEF Chain
      <4> QED BY <1>0, <1>3, <2>1, <4>1
    <3>2. CASE s # <<>>
      <4>1. Len(s) > 0 /\ head = s[1]
        BY <1>0, <1>1, <3>2, EmptySeq DEF Chain
      <4>2. t[2] = s[1]
        <5>1. 1 \in 1 .. Len(s)
          BY <1>1, <4>1
        <5>2. t[1 + 1] = s[1]
          BY <5>1, <1>3, Zenon
        <5>3. 1 + 1 = 2
          OBVIOUS
        <5> QED BY <5>2, <5>3, Zenon
      <4>3. i # Len(t) /\ t[i + 1] = s[1] /\ t[i] = v
        <5>1. i # Len(t) /\ t[i] = v /\ i + 1 = 2
          BY <1>1, <1>3, <2>1, <4>1
        <5> QED BY <5>1, <4>2, Zenon
      <4>4. vm2[v].next = s[1]
        BY <1>0, <4>1
      <4> QED BY <4>3, <4>4, Zenon
    <3> QED BY <3>1, <3>2
  <2>2. CASE i # 1
    <3>1. PICK j \in Nat : j = i - 1 /\ j \in DOMAIN s /\ i = j + 1
      BY <1>1, <1>3, <2>2
    <3>2. t[i] = s[j]
      BY <1>1, <1>3, <3>1
    <3>3. vm2[s[j]].next = vm[s[j]].next
      BY <1>0, <3>1, Zenon DEF SameNext, ToSet
    <3>4. vm[s[j]].next = IF j = Len(s) THEN NULL ELSE s[j + 1]
      BY <1>0, <3>1, Zenon DEF Chain
    <3>5. CASE j = Len(s)
      BY <1>1, <1>3, <3>1, <3>2, <3>3, <3>4, <3>5
    <3>6. CASE j # Len(s)
      <4>1. j + 1 \in 1 .. Len(s) /\ i # Len(t)
        BY <1>1, <1>3, <3>1, <3>6
      <4>2. t[i + 1] = s[j + 1]
        BY <1>3, <3>1, <4>1
      <4> QED BY <3>2, <3>3, <3>4, <3>6, <4>1, <4>2
    <3> QED BY <3>5, <3>6
  <2> QED BY <2>1, <2>2
<1>5. v = IF t = <<>> THEN NULL ELSE t[1]
  BY <1>1, <1>3
<1> QED BY <1>2, <1>4, <1>5, Zenon DEF Chain

LEMMA ChainTaken ==
    ASSUME NEW vm, NEW head, NEW s, Chain(vm, head, s), head # NULL
    PROVE  Chain(vm, vm[head].next, Tail(s)) /\ ToSet(Tail(s)) = ToSet(s) \ {head}
<1> PICK t : t = Tail(s)
  OBVIOUS
<1>1. s \in Seq(VMs) /\ IsInjective(s) /\ s # <<>> /\ Head(s) = head /\ head = s[1]
  BY ChainHead DEF Chain
<1>2. t \in Seq(VMs) /\ IsInjective(t) /\ ToSet(t) = ToSet(s) \ {head}
  BY <1>1, TakenIs, Zenon
<1>3. Len(s) \in Nat /\ Len(s) > 0 /\ DOMAIN s = 1 .. Len(s)
  BY <1>1, EmptySeq, LenProperties
<1>4. Len(t) = Len(s) - 1 /\ DOMAIN t = 1 .. Len(s) - 1 /\ \A i \in 1 .. Len(s) - 1 : t[i] = s[i + 1]
  <2>1. Len(t) = Len(s) - 1 /\ \A i \in 1 .. Len(t) : t[i] = s[i + 1]
    BY <1>1, HeadTailProperties
  <2>2. DOMAIN t = 1 .. Len(t)
    BY <1>2, LenProperties
  <2> QED BY <2>1, <2>2
<1>5. ASSUME NEW i \in DOMAIN t PROVE vm[t[i]].next = IF i = Len(t) THEN NULL ELSE t[i + 1]
  <2>1. i + 1 \in DOMAIN s /\ t[i] = s[i + 1] /\ i \in Nat
    BY <1>3, <1>4
  <2>2. vm[s[i + 1]].next = IF i + 1 = Len(s) THEN NULL ELSE s[(i + 1) + 1]
    BY <2>1, Zenon DEF Chain
  <2>3. CASE i + 1 = Len(s)
    BY <1>3, <1>4, <2>1, <2>2, <2>3
  <2>4. CASE i + 1 # Len(s)
    <3>1. i + 1 \in 1 .. Len(s) - 1 /\ i # Len(t)
      BY <1>3, <1>4, <2>1, <2>4
    <3>2. t[i + 1] = s[(i + 1) + 1]
      BY <1>4, <3>1
    <3> QED BY <2>1, <2>2, <2>4, <3>1, <3>2
  <2> QED BY <2>3, <2>4
<1>6. vm[head].next = IF t = <<>> THEN NULL ELSE t[1]
  <2>1. vm[s[1]].next = IF 1 = Len(s) THEN NULL ELSE s[1 + 1]
    <3>1. 1 \in DOMAIN s
      BY <1>3
    <3> QED BY <3>1, Zenon DEF Chain
  <2>2. CASE Len(s) = 1
    <3>1. t = <<>>
      BY <1>2, <1>4, <2>2, EmptySeq
    <3>2. vm[s[1]].next = NULL
      BY <2>1, <2>2
    <3> QED BY <1>1, <3>1, <3>2, Zenon
  <2>3. CASE Len(s) # 1
    <3>0. 1 \in 1 .. Len(s) - 1 /\ Len(t) # 0
      BY <1>3, <1>4, <2>3
    <3>1. 1 \in 1 .. Len(s) - 1 /\ t # <<>>
      BY <3>0, EmptySeq
    <3>2. t[1] = s[1 + 1]
      BY <1>4, <3>1
    <3>3. vm[s[1]].next = s[1 + 1]
      BY <2>1, <2>3
    <3> QED BY <1>1, <3>1, <3>2, <3>3, Zenon
  <2> QED BY <2>2, <2>3
<1> QED BY <1>2, <1>5, <1>6, Zenon DEF Chain

(* A list without its element k.                                             *)
After(k, i) == IF i < k THEN i ELSE i + 1
Dropped(s, k) == [i \in 1 .. Len(s) - 1 |-> s[After(k, i)]]

LEMMA AfterIs ==
    ASSUME NEW n \in Nat, NEW k \in 1 .. n, NEW i \in 1 .. n - 1
    PROVE  After(k, i) \in 1 .. n /\ After(k, i) # k
BY DEF After

LEMMA AfterInjective ==
    ASSUME NEW n \in Nat, NEW k \in 1 .. n, NEW i \in 1 .. n - 1, NEW j \in 1 .. n - 1,
           After(k, i) = After(k, j)
    PROVE  i = j
BY DEF After

LEMMA AfterOnto ==
    ASSUME NEW n \in Nat, NEW k \in 1 .. n, NEW j \in 1 .. n, j # k
    PROVE  \/ j \in 1 .. n - 1 /\ After(k, j) = j
           \/ j - 1 \in 1 .. n - 1 /\ After(k, j - 1) = j
BY DEF After

LEMMA DroppedIs ==
    ASSUME NEW S, NEW s \in Seq(S), IsInjective(s), NEW k \in 1 .. Len(s)
    PROVE  /\ Dropped(s, k) \in Seq(S) /\ IsInjective(Dropped(s, k))
           /\ Len(Dropped(s, k)) = Len(s) - 1
           /\ \A i \in 1 .. Len(s) - 1 : Dropped(s, k)[i] = s[After(k, i)]
           /\ ToSet(Dropped(s, k)) = ToSet(s) \ {s[k]}
<1> PICK t : t = Dropped(s, k)
  OBVIOUS
<1> PICK n : n = Len(s)
  OBVIOUS
<1>1. n \in Nat /\ k \in 1 .. n /\ DOMAIN s = 1 .. n /\ s \in [1 .. n -> S] /\ n - 1 \in Nat
  <2>1. n \in Nat /\ DOMAIN s = 1 .. n /\ s \in [1 .. n -> S]
    BY LenProperties
  <2>2. k \in 1 .. n
    OBVIOUS
  <2>3. n - 1 \in Nat
    BY <2>1, <2>2
  <2> QED BY <2>1, <2>2, <2>3
<1>2. DOMAIN t = 1 .. n - 1 /\ \A i \in 1 .. n - 1 : t[i] = s[After(k, i)]
  BY DEF Dropped
<1>3. \A i \in 1 .. n - 1 : After(k, i) \in 1 .. n /\ After(k, i) # k
  BY <1>1, AfterIs, Zenon
<1>4. t \in Seq(S) /\ Len(t) = n - 1
  <2>1. \A i \in 1 .. n - 1 : s[After(k, i)] \in S
    BY <1>1, <1>3
  <2>2. t \in [1 .. n - 1 -> S]
    BY <2>1 DEF Dropped
  <2> QED BY <2>2, <1>1, ListOf
<1>5. IsInjective(t)
  <2>1. ASSUME NEW i \in DOMAIN t, NEW j \in DOMAIN t, t[i] = t[j] PROVE i = j
    <3>1. i \in 1 .. n - 1 /\ j \in 1 .. n - 1
      BY <1>2
    <3>2. After(k, i) \in DOMAIN s /\ After(k, j) \in DOMAIN s /\ s[After(k, i)] = s[After(k, j)]
      BY <1>1, <1>2, <1>3, <2>1, <3>1, Zenon
    <3>3. After(k, i) = After(k, j)
      BY <3>2, Zenon DEF IsInjective
    <3> QED BY <1>1, <3>1, <3>3, AfterInjective, Zenon
  <2> QED BY <2>1, Zenon DEF IsInjective
<1>6. ASSUME NEW y \in ToSet(t) PROVE y \in ToSet(s) /\ y # s[k]
  <2>1. PICK i \in DOMAIN t : y = t[i]
    BY Zenon DEF ToSet
  <2>2. i \in 1 .. n - 1
    BY <1>2, <2>1, Zenon
  <2>3. After(k, i) \in DOMAIN s /\ k \in DOMAIN s /\ After(k, i) # k /\ y = s[After(k, i)]
    BY <1>1, <1>2, <1>3, <2>1, <2>2, Zenon
  <2> QED BY <2>3, Zenon DEF ToSet, IsInjective
<1>7. ASSUME NEW y \in ToSet(s), y # s[k] PROVE y \in ToSet(t)
  <2>1. PICK j \in DOMAIN s : y = s[j]
    BY Zenon DEF ToSet
  <2>2. j \in 1 .. n /\ j # k
    BY <1>1, <1>7, <2>1, Zenon
  <2>3. PICK i \in 1 .. n - 1 : After(k, i) = j
    <3>0. n \in Nat /\ k \in 1 .. n /\ j \in 1 .. n /\ j # k
      BY <1>1, <2>2, Zenon
    <3>1. \/ j \in 1 .. n - 1 /\ After(k, j) = j
          \/ j - 1 \in 1 .. n - 1 /\ After(k, j - 1) = j
      BY <3>0, AfterOnto, Zenon
    <3> QED BY <3>1
  <2>4. i \in DOMAIN t /\ t[i] = y
    BY <1>2, <2>1, <2>3, Zenon
  <2> QED BY <2>4, Zenon DEF ToSet
<1>8. ToSet(t) = ToSet(s) \ {s[k]}
  BY <1>6, <1>7
<1> QED BY <1>2, <1>4, <1>5, <1>8

(* task_delete: the node before the k-th is linked to the one after it.      *)
Bypassed(vm, vm2, s, k) ==
    SameNext(vm, vm2, ToSet(s) \ {s[k - 1]}) /\ vm2[s[k - 1]].next = vm[s[k]].next
Bypassing(vm, vm2, head, s, k) == Chain(vm, head, s) /\ k \in 2 .. Len(s) /\ Bypassed(vm, vm2, s, k)

LEMMA ChainCut ==
    ASSUME NEW vm, NEW vm2, NEW head, NEW s, NEW k, Bypassing(vm, vm2, head, s, k)
    PROVE  Chain(vm2, head, Dropped(s, k)) /\ ToSet(Dropped(s, k)) = ToSet(s) \ {s[k]}
<1>0. /\ SameNext(vm, vm2, ToSet(s) \ {s[k - 1]}) /\ vm2[s[k - 1]].next = vm[s[k]].next
      /\ Chain(vm, head, s) /\ k \in 2 .. Len(s)
  BY Zenon DEF Bypassed, Bypassing
<1> PICK t : t = Dropped(s, k)
  OBVIOUS
<1> PICK n : n = Len(s)
  OBVIOUS
<1>1. s \in Seq(VMs) /\ IsInjective(s) /\ n \in Nat /\ n > 0 /\ k \in Nat /\ k >= 2 /\ k <= n /\ DOMAIN s = 1 .. n
  BY <1>0, LenProperties DEF Chain
<1>2. k \in 1 .. Len(s)
  BY <1>1
<1>3. t \in Seq(VMs) /\ IsInjective(t) /\ ToSet(t) = ToSet(s) \ {s[k]}
      /\ Len(t) = n - 1 /\ \A i \in 1 .. n - 1 : t[i] = s[After(k, i)]
  <2>1. /\ Dropped(s, k) \in Seq(VMs) /\ IsInjective(Dropped(s, k))
        /\ Len(Dropped(s, k)) = Len(s) - 1
        /\ \A i \in 1 .. Len(s) - 1 : Dropped(s, k)[i] = s[After(k, i)]
        /\ ToSet(Dropped(s, k)) = ToSet(s) \ {s[k]}
    BY <1>1, <1>2, DroppedIs, Zenon
  <2> QED BY <2>1
<1>4. DOMAIN t = 1 .. n - 1
  BY <1>3, LenProperties
<1>5. ASSUME NEW i \in DOMAIN t PROVE vm2[t[i]].next = IF i = Len(t) THEN NULL ELSE t[i + 1]
  <2>1. i \in 1 .. n - 1 /\ i \in Nat
    BY <1>4
  <2>2. CASE i < k - 1
    <3>1. i \in DOMAIN s /\ k - 1 \in DOMAIN s /\ i # k - 1 /\ i # n /\ i # n - 1 /\ i + 1 \in 1 .. n - 1
      BY <1>1, <2>1, <2>2
    <3>2. After(k, i) = i /\ After(k, i + 1) = i + 1
      BY <1>1, <2>1, <2>2 DEF After
    <3>3. t[i] = s[i] /\ t[i + 1] = s[i + 1]
      BY <1>3, <2>1, <3>1, <3>2, Zenon
    <3>4. s[i] \in ToSet(s) /\ s[i] # s[k - 1]
      BY <1>1, <3>1, Zenon DEF ToSet, IsInjective
    <3>5. vm2[s[i]].next = vm[s[i]].next
      BY <3>4, <1>0 DEF SameNext
    <3>6. vm[s[i]].next = s[i + 1]
      BY <1>0, <3>1 DEF Chain
    <3> QED BY <1>3, <3>1, <3>3, <3>5, <3>6, Zenon
  <2>3. CASE i = k - 1
    <3>1. After(k, i) = i /\ i \in DOMAIN s
      BY <1>1, <2>1, <2>3 DEF After
    <3>2. t[i] = s[k - 1]
      BY <1>3, <2>1, <2>3, <3>1, Zenon
    <3>3. vm2[t[i]].next = IF k = n THEN NULL ELSE s[k + 1]
      BY <1>0, <1>1, <3>2 DEF Chain
    <3>4. CASE k = n
      <4>1. i = Len(t)
        BY <1>1, <1>3, <2>3, <3>4
      <4> QED BY <3>3, <3>4, <4>1, Zenon
    <3>5. CASE k # n
      <4>1. k \in 1 .. n - 1 /\ i # Len(t) /\ i + 1 = k /\ After(k, k) = k + 1
        BY <1>1, <1>3, <2>3, <3>5 DEF After
      <4>2. t[k] = s[k + 1]
        BY <1>3, <4>1, Zenon
      <4> QED BY <3>3, <3>5, <4>1, <4>2, Zenon
    <3> QED BY <3>4, <3>5
  <2>4. CASE i >= k
    <3>1. i + 1 \in DOMAIN s /\ k - 1 \in DOMAIN s /\ i + 1 # k - 1 /\ After(k, i) = i + 1
      BY <1>1, <2>1, <2>4 DEF After
    <3>2. t[i] = s[i + 1]
      BY <1>3, <2>1, <3>1, Zenon
    <3>3. s[i + 1] \in ToSet(s) /\ s[i + 1] # s[k - 1]
      BY <1>1, <3>1, Zenon DEF ToSet, IsInjective
    <3>4. vm2[s[i + 1]].next = vm[s[i + 1]].next
      BY <3>3, <1>0 DEF SameNext
    <3>5. vm[s[i + 1]].next = IF i + 1 = n THEN NULL ELSE s[(i + 1) + 1]
      BY <1>0, <3>1, Zenon DEF Chain
    <3>6. CASE i + 1 = n
      <4>1. i = Len(t)
        BY <1>1, <1>3, <2>1, <3>6
      <4> QED BY <3>2, <3>4, <3>5, <3>6, <4>1, Zenon
    <3>7. CASE i + 1 # n
      <4>1. i + 1 \in 1 .. n - 1 /\ i # Len(t) /\ After(k, i + 1) = (i + 1) + 1
        BY <1>1, <1>3, <2>1, <2>4, <3>7 DEF After
      <4>2. t[i + 1] = s[(i + 1) + 1]
        BY <1>3, <4>1, Zenon
      <4> QED BY <3>2, <3>4, <3>5, <3>7, <4>1, <4>2, Zenon
    <3> QED BY <3>6, <3>7
  <2> QED BY <1>1, <2>1, <2>2, <2>3, <2>4
<1>6. head = IF t = <<>> THEN NULL ELSE t[1]
  <2>1. s # <<>> /\ t # <<>> /\ 1 \in 1 .. n - 1 /\ After(k, 1) = 1
    <3>1. n # 0 /\ Len(t) # 0
      BY <1>1, <1>3
    <3>2. s # <<>> /\ t # <<>>
      BY <3>1, EmptySeq
    <3> QED BY <1>1, <3>2 DEF After
  <2>2. t[1] = s[1]
    BY <1>3, <2>1, Zenon
  <2> QED BY <1>0, <2>1, <2>2, Zenon DEF Chain
<1> QED BY <1>3, <1>5, <1>6, Zenon DEF Chain

-----------------------------------------------------------------------------
VMStates == [next : VMs \cup {NULL}, task : TaskNo \cup {None}, tid : Int, stack : Nat,
             paused : BOOLEAN]
Heaps == [vm : [VMs -> VMStates], tasks : VMs \cup {NULL}, paused : VMs \cup {NULL},
          vmstore : VMs \cup {NULL}, allocated : Nat]
Globals == [task : TaskNo \cup {None}, tid : Int, stack : Nat]

(* Nothing but the next fields differs.                                      *)
Alike(vm, vm2) == \A w \in VMs : /\ vm2[w].task = vm[w].task /\ vm2[w].tid = vm[w].tid
                                 /\ vm2[w].stack = vm[w].stack /\ vm2[w].paused = vm[w].paused
Linked(vm, v, n) == [vm EXCEPT ![v].next = n]

LEMMA LinkedIs ==
    ASSUME NEW vm \in [VMs -> VMStates], NEW v \in VMs, NEW n \in VMs \cup {NULL}
    PROVE  /\ Linked(vm, v, n) \in [VMs -> VMStates] /\ Linked(vm, v, n)[v].next = n
           /\ \A w \in VMs \ {v} : Linked(vm, v, n)[w] = vm[w]
           /\ Alike(vm, Linked(vm, v, n))
<1>1. vm[v] \in VMStates
  OBVIOUS
<1>2. [vm[v] EXCEPT !.next = n] \in VMStates
  BY <1>1 DEF VMStates
<1>3. Linked(vm, v, n) = [vm EXCEPT ![v] = [vm[v] EXCEPT !.next = n]]
  BY DEF Linked
<1>4. Linked(vm, v, n) \in [VMs -> VMStates]
  BY <1>2, <1>3
<1>5. \A w \in VMs \ {v} : Linked(vm, v, n)[w] = vm[w]
  BY <1>3
<1>6. Linked(vm, v, n)[v] = [vm[v] EXCEPT !.next = n]
  BY <1>3
<1>7. /\ [vm[v] EXCEPT !.next = n].next = n /\ [vm[v] EXCEPT !.next = n].task = vm[v].task
      /\ [vm[v] EXCEPT !.next = n].tid = vm[v].tid /\ [vm[v] EXCEPT !.next = n].stack = vm[v].stack
      /\ [vm[v] EXCEPT !.next = n].paused = vm[v].paused
  BY <1>1 DEF VMStates
<1>8. Alike(vm, Linked(vm, v, n))
  BY <1>5, <1>6, <1>7 DEF Alike
<1> QED BY <1>4, <1>5, <1>6, <1>7, <1>8

LEMMA HeapIs ==
    ASSUME NEW h \in Heaps
    PROVE  /\ h.vm \in [VMs -> VMStates] /\ h.allocated \in Nat
           /\ {h.tasks, h.paused, h.vmstore} \subseteq VMs \cup {NULL}
           /\ h["tasks"] = h.tasks /\ h["paused"] = h.paused /\ h["vmstore"] = h.vmstore
BY DEF Heaps

LEMMA AddedTo ==
    ASSUME NEW h \in Heaps, NEW v \in VMs
    PROVE  /\ /\ Added(h, "tasks", v) \in Heaps
              /\ Added(h, "tasks", v).vm = Linked(h.vm, v, h.tasks)
              /\ Added(h, "tasks", v).tasks = v /\ Added(h, "tasks", v).paused = h.paused
              /\ Added(h, "tasks", v).vmstore = h.vmstore
              /\ Added(h, "tasks", v).allocated = h.allocated
           /\ /\ Added(h, "paused", v) \in Heaps
              /\ Added(h, "paused", v).vm = Linked(h.vm, v, h.paused)
              /\ Added(h, "paused", v).paused = v /\ Added(h, "paused", v).tasks = h.tasks
              /\ Added(h, "paused", v).vmstore = h.vmstore
              /\ Added(h, "paused", v).allocated = h.allocated
           /\ /\ Added(h, "vmstore", v) \in Heaps
              /\ Added(h, "vmstore", v).vm = Linked(h.vm, v, h.vmstore)
              /\ Added(h, "vmstore", v).vmstore = v /\ Added(h, "vmstore", v).paused = h.paused
              /\ Added(h, "vmstore", v).tasks = h.tasks
              /\ Added(h, "vmstore", v).allocated = h.allocated
<1>1. h.vm \in [VMs -> VMStates] /\ {h.tasks, h.paused, h.vmstore} \subseteq VMs \cup {NULL}
  BY HeapIs
<1>2. /\ Linked(h.vm, v, h.tasks) \in [VMs -> VMStates] /\ Linked(h.vm, v, h.paused) \in [VMs -> VMStates]
      /\ Linked(h.vm, v, h.vmstore) \in [VMs -> VMStates]
  BY <1>1, LinkedIs
<1>3. Added(h, "tasks", v) = [h EXCEPT !.vm = Linked(h.vm, v, h.tasks), !.tasks = v]
  BY HeapIs DEF Added, Linked
<1>4. Added(h, "paused", v) = [h EXCEPT !.vm = Linked(h.vm, v, h.paused), !.paused = v]
  BY HeapIs DEF Added, Linked
<1>5. Added(h, "vmstore", v) = [h EXCEPT !.vm = Linked(h.vm, v, h.vmstore), !.vmstore = v]
  BY HeapIs DEF Added, Linked
<1> QED BY <1>2, <1>3, <1>4, <1>5 DEF Heaps

ParkedState(b) == [next |-> NULL, task |-> cur.task, tid |-> cur.tid, stack |-> cur.stack, paused |-> b]
LEMMA ParkedIs ==
    ASSUME NEW h \in Heaps, CanPark(h), cur \in Globals, NEW b \in BOOLEAN
    PROVE  /\ Parked(h, b) \in Heaps /\ Taken(h) \in VMs
           /\ Parked(h, b).vm \in [VMs -> VMStates] /\ Parked(h, b).vm[Taken(h)] = ParkedState(b)
           /\ \A w \in VMs \ {Taken(h)} : Parked(h, b).vm[w] = h.vm[w]
           /\ Parked(h, b).tasks = h.tasks /\ Parked(h, b).paused = h.paused
           /\ Parked(h, b).vmstore = (IF h.vmstore # NULL THEN h.vm[h.vmstore].next ELSE NULL)
           /\ Parked(h, b).allocated = (IF h.vmstore # NULL THEN h.allocated ELSE h.allocated + 1)
<1> PICK v : v = Taken(h)
  OBVIOUS
<1>1. h.vm \in [VMs -> VMStates] /\ h.vmstore \in VMs \cup {NULL} /\ h.allocated \in Nat
  BY HeapIs
<1>2. v \in VMs
  BY <1>1, Numbers DEF Taken, CanPark, VMs
<1>3. ParkedState(b) \in VMStates
  BY DEF ParkedState, VMStates, Globals
<1> PICK vm : vm = [h.vm EXCEPT ![v] = ParkedState(b)]
  OBVIOUS
<1> PICK f : f = (IF h.vmstore # NULL THEN h.vm[h.vmstore].next ELSE NULL)
  OBVIOUS
<1> PICK n : n = (IF h.vmstore # NULL THEN h.allocated ELSE h.allocated + 1)
  OBVIOUS
<1>4. vm \in [VMs -> VMStates] /\ vm[v] = ParkedState(b) /\ \A w \in VMs \ {v} : vm[w] = h.vm[w]
  BY <1>1, <1>2, <1>3
<1>5. f \in VMs \cup {NULL} /\ n \in Nat
  BY <1>1, <1>2 DEF VMStates
<1>6. Parked(h, b) = [h EXCEPT !.vm = vm, !.vmstore = f, !.allocated = n]
  BY DEF Parked, ParkedState, Heaps
<1>7. /\ Parked(h, b) \in Heaps /\ Parked(h, b).vm = vm /\ Parked(h, b).vmstore = f
      /\ Parked(h, b).allocated = n /\ Parked(h, b).tasks = h.tasks /\ Parked(h, b).paused = h.paused
  BY <1>4, <1>5, <1>6 DEF Heaps
<1> QED BY <1>2, <1>4, <1>7

-----------------------------------------------------------------------------
(* Every VMState is in one place: in one of the lists, once, or local to a   *)
(* caller of execute().  "pending" is what run_paused_tasks has still to run.*)
Places == {"tasks", "paused", "vmstore", "pending"}

Sorted(vm, heads, C, L, n) ==
    /\ n \in 0 .. MaxVM /\ L \subseteq 1 .. n
    /\ DOMAIN heads = Places /\ DOMAIN C = Places
    /\ \A l \in Places : Chain(vm, heads[l], C[l])
    /\ \A l \in Places : ToSet(C[l]) \subseteq 1 .. n /\ ToSet(C[l]) \cap L = {}
    /\ \A l, m \in Places : l # m => ToSet(C[l]) \cap ToSet(C[m]) = {}
    /\ \A v \in 1 .. n : v \in L \/ \E l \in Places : v \in ToSet(C[l])

Put(f, l, x) == [f EXCEPT ![l] = x]
LEMMA PutIs ==
    ASSUME NEW f, DOMAIN f = Places, NEW l \in Places, NEW x
    PROVE  /\ DOMAIN Put(f, l, x) = Places /\ Put(f, l, x)[l] = x
           /\ \A m \in Places : m # l => Put(f, l, x)[m] = f[m]
<1>1. /\ DOMAIN Put(f, l, x) = DOMAIN f
      /\ l \in DOMAIN f => Put(f, l, x)[l] = x
      /\ \A m \in DOMAIN f : m # l => Put(f, l, x)[m] = f[m]
  BY DEF Put
<1> QED BY <1>1

(* A change of one list, with what it takes from or leaves to the callers.   *)
KeptBut(vm, vm2, C, l) == \A m \in Places : m # l => SameNext(vm, vm2, ToSet(C[m]))
Exchange(A, L, A2, L2) == A2 \cup L2 = A \cup L /\ A2 \cap L2 = {}

LEMMA Resorted ==
    ASSUME NEW vm, NEW vm2, NEW heads, NEW C, NEW L, NEW n, Sorted(vm, heads, C, L, n),
           NEW l \in Places, NEW head, NEW s, NEW L2,
           Chain(vm2, head, s), KeptBut(vm, vm2, C, l), Exchange(ToSet(C[l]), L, ToSet(s), L2)
    PROVE  Sorted(vm2, Put(heads, l, head), Put(C, l, s), L2, n)
<1> PICK heads2 : heads2 = Put(heads, l, head)
  OBVIOUS
<1> PICK C2 : C2 = Put(C, l, s)
  OBVIOUS
<1>1. DOMAIN C = Places /\ DOMAIN heads = Places
  BY Zenon DEF Sorted
<1>2. DOMAIN heads2 = Places /\ heads2[l] = head /\ \A m \in Places : m # l => heads2[m] = heads[m]
  BY <1>1, PutIs
<1>3. DOMAIN C2 = Places /\ C2[l] = s /\ \A m \in Places : m # l => C2[m] = C[m]
  BY <1>1, PutIs
<1>4. \A m \in Places : Chain(vm2, heads2[m], C2[m])
  <2>1. ASSUME NEW m \in Places, m # l PROVE Chain(vm2, heads[m], C[m])
    <3>1. Chain(vm, heads[m], C[m])
      BY Zenon DEF Sorted
    <3>2. SameNext(vm, vm2, ToSet(C[m]))
      BY <2>1, Zenon DEF KeptBut
    <3> QED BY <3>1, <3>2, ChainElsewhere, Zenon
  <2> QED BY <1>2, <1>3, <2>1, Zenon
<1> DEFINE A == ToSet(C[l])
           A2 == ToSet(s)
<1>5. A2 \cup L2 = A \cup L /\ A2 \cap L2 = {} /\ A \subseteq 1 .. n /\ L \subseteq 1 .. n /\ A \cap L = {}
  BY Zenon DEF Exchange, Sorted
<1>6. ASSUME NEW m \in Places, m # l
      PROVE  ToSet(C[m]) \subseteq 1 .. n /\ ToSet(C[m]) \cap L = {} /\ ToSet(C[m]) \cap A = {}
  BY <1>6, Zenon DEF Sorted
<1> HIDE DEF A, A2
<1>7. L2 \subseteq 1 .. n /\ A2 \subseteq 1 .. n
  BY <1>5, Zenon
<1>8. ASSUME NEW m \in Places, m # l PROVE ToSet(C[m]) \cap L2 = {} /\ ToSet(C[m]) \cap A2 = {}
  BY <1>5, <1>6, <1>8, Zenon
<1>9. \A m \in Places : ToSet(C2[m]) \subseteq 1 .. n /\ ToSet(C2[m]) \cap L2 = {}
  BY <1>3, <1>5, <1>6, <1>7, <1>8, Zenon DEF A2
<1>10. ASSUME NEW m \in Places, NEW k \in Places, m # k PROVE ToSet(C2[m]) \cap ToSet(C2[k]) = {}
  <2>1. m # l /\ k # l => ToSet(C[m]) \cap ToSet(C[k]) = {}
    BY <1>10, Zenon DEF Sorted
  <2> QED BY <1>3, <1>8, <1>10, <2>1, Zenon DEF A2
<1>11. ASSUME NEW v \in 1 .. n PROVE v \in L2 \/ \E m \in Places : v \in ToSet(C2[m])
  <2>1. v \in L \/ v \in A \/ \E m \in Places : m # l /\ v \in ToSet(C[m])
    BY Zenon DEF Sorted, A
  <2>2. v \in L \/ v \in A => v \in L2 \/ v \in A2
    BY <1>5, Zenon
  <2> QED BY <1>3, <2>1, <2>2, Zenon DEF A2
<1>12. n \in 0 .. MaxVM
  BY Zenon DEF Sorted
<1> QED BY <1>2, <1>3, <1>4, <1>7, <1>9, <1>10, <1>11, <1>12, Zenon DEF Sorted

(* A VMState more, local to a caller.                                        *)
LEMMA SortedMore ==
    ASSUME NEW vm, NEW vm2, NEW heads, NEW C, NEW L, NEW n, Sorted(vm, heads, C, L, n),
           n < MaxVM, \A l \in Places : SameNext(vm, vm2, ToSet(C[l]))
    PROVE  Sorted(vm2, heads, C, L \cup {n + 1}, n + 1)
<1>1. n \in Nat /\ n + 1 \in 0 .. MaxVM /\ n + 1 \in 1 .. n + 1 /\ 1 .. n + 1 = (1 .. n) \cup {n + 1}
      /\ n + 1 \notin 1 .. n
  BY Numbers DEF Sorted
<1>2. \A l \in Places : Chain(vm2, heads[l], C[l])
  <2>1. ASSUME NEW l \in Places PROVE Chain(vm2, heads[l], C[l])
    <3>1. Chain(vm, heads[l], C[l])
      BY Zenon DEF Sorted
    <3>2. SameNext(vm, vm2, ToSet(C[l]))
      OBVIOUS
    <3> QED BY <3>1, <3>2, ChainElsewhere, Zenon
  <2> QED BY <2>1
<1>3. /\ L \subseteq 1 .. n /\ DOMAIN heads = Places /\ DOMAIN C = Places
      /\ \A l \in Places : ToSet(C[l]) \subseteq 1 .. n /\ ToSet(C[l]) \cap L = {}
      /\ \A l, m \in Places : l # m => ToSet(C[l]) \cap ToSet(C[m]) = {}
      /\ \A v \in 1 .. n : v \in L \/ \E l \in Places : v \in ToSet(C[l])
  BY Zenon DEF Sorted
<1> PICK k : k = n + 1
  OBVIOUS
<1>4. k \notin 1 .. n /\ k \in 0 .. MaxVM /\ 1 .. k = (1 .. n) \cup {k}
  BY <1>1, Zenon
<1>5. L \cup {k} \subseteq 1 .. k
  BY <1>3, <1>4, Zenon
<1>6. ASSUME NEW l \in Places PROVE ToSet(C[l]) \subseteq 1 .. k /\ ToSet(C[l]) \cap (L \cup {k}) = {}
  <2>1. ToSet(C[l]) \subseteq 1 .. n /\ ToSet(C[l]) \cap L = {}
    BY <1>3, Zenon
  <2> PICK I : I = 1 .. n
    OBVIOUS
  <2> PICK K : K = 1 .. k
    OBVIOUS
  <2>2. ToSet(C[l]) \subseteq I /\ k \notin I /\ K = I \cup {k}
    BY <1>4, <2>1, Zenon
  <2>3. ToSet(C[l]) \subseteq K /\ ToSet(C[l]) \cap (L \cup {k}) = {}
    BY <2>1, <2>2
  <2> QED BY <2>3
<1>7. \A v \in 1 .. k : v \in L \cup {k} \/ \E l \in Places : v \in ToSet(C[l])
  BY <1>3, <1>4, Zenon
<1> QED BY <1>2, <1>3, <1>4, <1>5, <1>6, <1>7, Zenon DEF Sorted

(* A list taken as a whole: run_paused_tasks.                                *)
LEMMA SortedMoved ==
    ASSUME NEW vm, NEW heads, NEW C, NEW L, NEW n, Sorted(vm, heads, C, L, n),
           heads["pending"] = NULL
    PROVE  Sorted(vm, Put(Put(heads, "pending", heads["paused"]), "paused", NULL),
                  Put(Put(C, "pending", C["paused"]), "paused", <<>>), L, n)
<1> PICK heads2 : heads2 = Put(Put(heads, "pending", heads["paused"]), "paused", NULL)
  OBVIOUS
<1> PICK C2 : C2 = Put(Put(C, "pending", C["paused"]), "paused", <<>>)
  OBVIOUS
<1>1. DOMAIN C = Places /\ DOMAIN heads = Places
  BY Zenon DEF Sorted
<1>2. "pending" \in Places /\ "paused" \in Places /\ "pending" # "paused"
  BY DEF Places
<1>3. /\ DOMAIN heads2 = Places /\ heads2["paused"] = NULL /\ heads2["pending"] = heads["paused"]
      /\ \A m \in Places : m # "paused" /\ m # "pending" => heads2[m] = heads[m]
  BY <1>1, <1>2, PutIs
<1>4. /\ DOMAIN C2 = Places /\ C2["paused"] = <<>> /\ C2["pending"] = C["paused"]
      /\ \A m \in Places : m # "paused" /\ m # "pending" => C2[m] = C[m]
  BY <1>1, <1>2, PutIs
<1>5. C["pending"] = <<>> /\ ToSet(<<>>) = {}
  <2>1. Chain(vm, heads["pending"], C["pending"])
    BY <1>2, Zenon DEF Sorted
  <2> QED BY <2>1, ChainHead, EmptyChain, Zenon
<1>6. /\ n \in 0 .. MaxVM /\ L \subseteq 1 .. n
      /\ \A l \in Places : Chain(vm, heads[l], C[l])
      /\ \A l \in Places : ToSet(C[l]) \subseteq 1 .. n /\ ToSet(C[l]) \cap L = {}
      /\ \A l, m \in Places : l # m => ToSet(C[l]) \cap ToSet(C[m]) = {}
      /\ \A v \in 1 .. n : v \in L \/ \E l \in Places : v \in ToSet(C[l])
  BY Zenon DEF Sorted
<1>7. \A l \in Places : Chain(vm, heads2[l], C2[l])
  BY <1>2, <1>3, <1>4, <1>6, EmptyChain, Zenon
<1>8. ASSUME NEW l \in Places PROVE ToSet(C2[l]) \subseteq 1 .. n /\ ToSet(C2[l]) \cap L = {}
  <2>1. CASE l = "paused"
    <3>1. ToSet(C2[l]) = {}
      BY <1>4, <1>5, <2>1, Zenon
    <3> QED BY <3>1
  <2>2. CASE l = "pending"
    BY <1>2, <1>4, <1>6, <2>2, Zenon
  <2>3. CASE l # "paused" /\ l # "pending"
    BY <1>4, <1>6, <2>3, Zenon
  <2> QED BY <2>1, <2>2, <2>3
<1>9. ASSUME NEW l \in Places, NEW m \in Places, l # m PROVE ToSet(C2[l]) \cap ToSet(C2[m]) = {}
  <2>1. CASE l = "paused" \/ m = "paused"
    <3>1. ToSet(C2[l]) = {} \/ ToSet(C2[m]) = {}
      BY <1>4, <1>5, <2>1, Zenon
    <3> QED BY <3>1
  <2>2. CASE l # "paused" /\ m # "paused"
    <3> PICK from : from = [k \in Places |-> IF k = "pending" THEN "paused" ELSE k]
      OBVIOUS
    <3>1. from[l] \in Places /\ from[m] \in Places /\ from[l] # from[m]
      BY <1>2, <1>9, <2>2
    <3>2. C2[l] = C[from[l]] /\ C2[m] = C[from[m]]
      BY <1>4, <2>2
    <3> QED BY <1>6, <3>1, <3>2, Zenon
  <2> QED BY <2>1, <2>2
<1>10. ASSUME NEW v \in 1 .. n PROVE v \in L \/ \E l \in Places : v \in ToSet(C2[l])
  <2>1. v \in L \/ v \in ToSet(C["paused"]) \/ \E l \in Places : l # "paused" /\ l # "pending" /\ v \in ToSet(C[l])
    BY <1>5, <1>6, Zenon
  <2> QED BY <1>2, <1>4, <2>1, Zenon
<1> QED BY <1>3, <1>4, <1>6, <1>7, <1>8, <1>9, <1>10, Zenon DEF Sorted

OnlyAt(vm, vm2, v) == \A w \in VMs \ {v} : vm2[w] = vm[w]

LEMMA KeptIs ==
    ASSUME NEW vm, NEW vm2, NEW heads, NEW C, NEW L, NEW n, Sorted(vm, heads, C, L, n),
           NEW l \in Places, NEW v \in ToSet(C[l]) \cup L, OnlyAt(vm, vm2, v)
    PROVE  KeptBut(vm, vm2, C, l) /\ SameNext(vm, vm2, ToSet(C[l]) \ {v}) /\ v \in VMs
<1>1. 1 .. n \subseteq VMs
  BY Numbers DEF Sorted, VMs
<1>2. ASSUME NEW m \in Places, m # l, NEW w \in ToSet(C[m]) PROVE vm2[w].next = vm[w].next
  <2>1. w \in 1 .. n /\ w # v
    BY <1>2, Zenon DEF Sorted
  <2> QED BY <1>1, <2>1 DEF OnlyAt
<1>3. ASSUME NEW w \in ToSet(C[l]) \ {v} PROVE vm2[w].next = vm[w].next
  <2>1. w \in 1 .. n
    BY Zenon DEF Sorted
  <2> QED BY <1>1, <2>1 DEF OnlyAt
<1>4. v \in 1 .. n
  BY Zenon DEF Sorted
<1> QED BY <1>1, <1>2, <1>3, <1>4, Zenon DEF KeptBut, SameNext

LinkedTo(vm, vm2, v, n) == OnlyAt(vm, vm2, v) /\ vm2[v].next = n

LEMMA SortedPushed ==
    ASSUME NEW vm, NEW vm2, NEW heads, NEW C, NEW L, NEW n, Sorted(vm, heads, C, L, n),
           NEW l \in Places, NEW v \in L, LinkedTo(vm, vm2, v, heads[l])
    PROVE  /\ Sorted(vm2, Put(heads, l, v), Put(C, l, <<v>> \o C[l]), L \ {v}, n)
           /\ ToSet(<<v>> \o C[l]) = {v} \cup ToSet(C[l]) /\ v \notin ToSet(C[l])
<1>1. Chain(vm, heads[l], C[l]) /\ ToSet(C[l]) \cap L = {}
  BY Zenon DEF Sorted
<1>2. v \in VMs
  <2>1. v \in 1 .. n /\ n \in 0 .. MaxVM
    BY Zenon DEF Sorted
  <2> QED BY <2>1, Numbers DEF VMs
<1>4. vm2[v].next = heads[l] /\ OnlyAt(vm, vm2, v)
  BY Zenon DEF LinkedTo
<1>5. KeptBut(vm, vm2, C, l) /\ SameNext(vm, vm2, ToSet(C[l]) \ {v})
  <2>1. v \in ToSet(C[l]) \cup L
    OBVIOUS
  <2> QED BY <1>4, <2>1, KeptIs, Zenon
<1>6. v \notin ToSet(C[l]) /\ ToSet(C[l]) \ {v} = ToSet(C[l])
  BY <1>1
<1>7. Chain(vm2, v, <<v>> \o C[l]) /\ ToSet(<<v>> \o C[l]) = {v} \cup ToSet(C[l])
  <2>1. SameNext(vm, vm2, ToSet(C[l]))
    BY <1>5, <1>6
  <2>2. Pushing(vm, vm2, heads[l], C[l], v)
    BY <1>1, <1>2, <1>4, <1>6, <2>1, Zenon DEF Pushing
  <2> QED BY <2>2, ChainPushed
<1>8. Exchange(ToSet(C[l]), L, ToSet(<<v>> \o C[l]), L \ {v})
  <2>1. ({v} \cup ToSet(C[l])) \cup (L \ {v}) = ToSet(C[l]) \cup L /\ ({v} \cup ToSet(C[l])) \cap (L \ {v}) = {}
    BY <1>1
  <2> QED BY <1>7, <2>1, Zenon DEF Exchange
<1>9. Sorted(vm2, Put(heads, l, v), Put(C, l, <<v>> \o C[l]), L \ {v}, n)
  BY <1>5, <1>7, <1>8, Resorted, Zenon
<1> QED BY <1>6, <1>7, <1>9

Taking(vm, vm2, heads, C, L, n, l) ==
    Sorted(vm, heads, C, L, n) /\ l \in Places /\ heads[l] # NULL /\ OnlyAt(vm, vm2, heads[l])
Took(vm, vm2, heads, C, L, n, l) ==
    /\ Sorted(vm2, Put(heads, l, vm[heads[l]].next), Put(C, l, Tail(C[l])), L \cup {heads[l]}, n)
    /\ ToSet(Tail(C[l])) = ToSet(C[l]) \ {heads[l]}
    /\ heads[l] \in ToSet(C[l]) /\ heads[l] \in VMs /\ heads[l] \notin L /\ heads[l] \in 1 .. n

LEMMA SortedTaken ==
    ASSUME NEW vm, NEW vm2, NEW heads, NEW C, NEW L, NEW n, NEW l, Taking(vm, vm2, heads, C, L, n, l)
    PROVE  Took(vm, vm2, heads, C, L, n, l)
<1>0. Sorted(vm, heads, C, L, n) /\ l \in Places /\ heads[l] # NULL /\ OnlyAt(vm, vm2, heads[l])
  BY Zenon DEF Taking
<1>1. Chain(vm, heads[l], C[l]) /\ ToSet(C[l]) \cap L = {} /\ ToSet(C[l]) \subseteq 1 .. n
  BY <1>0, Zenon DEF Sorted
<1>2. heads[l] \in ToSet(C[l]) /\ heads[l] \in VMs
  BY <1>0, <1>1, ChainHead, Zenon
<1>3. KeptBut(vm, vm2, C, l) /\ SameNext(vm, vm2, ToSet(C[l]) \ {heads[l]})
  <2>1. heads[l] \in ToSet(C[l]) \cup L
    BY <1>2
  <2> QED BY <1>0, <2>1, KeptIs, Zenon
<1>4. Chain(vm, vm[heads[l]].next, Tail(C[l])) /\ ToSet(Tail(C[l])) = ToSet(C[l]) \ {heads[l]}
  BY <1>0, <1>1, ChainTaken, Zenon
<1>5. Chain(vm2, vm[heads[l]].next, Tail(C[l]))
  <2>1. SameNext(vm, vm2, ToSet(Tail(C[l])))
    BY <1>3, <1>4, Zenon
  <2> QED BY <1>4, <2>1, ChainElsewhere, Zenon
<1>6. Exchange(ToSet(C[l]), L, ToSet(Tail(C[l])), L \cup {heads[l]})
  <2>1. /\ (ToSet(C[l]) \ {heads[l]}) \cup (L \cup {heads[l]}) = ToSet(C[l]) \cup L
        /\ (ToSet(C[l]) \ {heads[l]}) \cap (L \cup {heads[l]}) = {}
    BY <1>1, <1>2
  <2> QED BY <1>4, <2>1, Zenon DEF Exchange
<1>7. Sorted(vm2, Put(heads, l, vm[heads[l]].next), Put(C, l, Tail(C[l])), L \cup {heads[l]}, n)
  BY <1>0, <1>3, <1>5, <1>6, Resorted, Zenon
<1>8. heads[l] \notin L /\ heads[l] \in 1 .. n
  BY <1>1, <1>2
<1> QED BY <1>2, <1>4, <1>7, <1>8, Zenon DEF Took

Cutting(vm, vm2, heads, C, L, n, l, k) ==
    /\ Sorted(vm, heads, C, L, n) /\ l \in Places /\ k \in 2 .. Len(C[l])
    /\ LinkedTo(vm, vm2, C[l][k - 1], vm[C[l][k]].next)
WasCut(vm2, heads, C, L, n, l, k) ==
    /\ Sorted(vm2, Put(heads, l, heads[l]), Put(C, l, Dropped(C[l], k)), L \cup {C[l][k]}, n)
    /\ ToSet(Dropped(C[l], k)) = ToSet(C[l]) \ {C[l][k]}

LEMMA SortedCut ==
    ASSUME NEW vm, NEW vm2, NEW heads, NEW C, NEW L, NEW n, NEW l, NEW k,
           Cutting(vm, vm2, heads, C, L, n, l, k)
    PROVE  WasCut(vm2, heads, C, L, n, l, k)
<1>0. /\ Sorted(vm, heads, C, L, n) /\ l \in Places /\ k \in 2 .. Len(C[l])
      /\ LinkedTo(vm, vm2, C[l][k - 1], vm[C[l][k]].next)
  BY Zenon DEF Cutting
<1>1. Chain(vm, heads[l], C[l]) /\ ToSet(C[l]) \cap L = {}
  BY <1>0, Zenon DEF Sorted
<1>2. Len(C[l]) \in Nat /\ DOMAIN C[l] = 1 .. Len(C[l])
  <2>1. C[l] \in Seq(VMs)
    BY <1>1, Zenon DEF Chain
  <2> QED BY <2>1, LenProperties
<1>3. k \in DOMAIN C[l] /\ k - 1 \in DOMAIN C[l]
  BY <1>0, <1>2
<1>6. C[l][k] \in ToSet(C[l]) /\ C[l][k - 1] \in ToSet(C[l])
  BY <1>3, Zenon DEF ToSet
<1>7. KeptBut(vm, vm2, C, l) /\ Bypassed(vm, vm2, C[l], k)
  <2>1. C[l][k - 1] \in ToSet(C[l]) \cup L
    BY <1>6
  <2>2. OnlyAt(vm, vm2, C[l][k - 1]) /\ vm2[C[l][k - 1]].next = vm[C[l][k]].next
    BY <1>0, Zenon DEF LinkedTo
  <2>3. KeptBut(vm, vm2, C, l) /\ SameNext(vm, vm2, ToSet(C[l]) \ {C[l][k - 1]})
    BY <1>0, <2>1, <2>2, KeptIs, Zenon
  <2> QED BY <2>2, <2>3, Zenon DEF Bypassed
<1>8. Chain(vm2, heads[l], Dropped(C[l], k)) /\ ToSet(Dropped(C[l], k)) = ToSet(C[l]) \ {C[l][k]}
  <2>1. Bypassing(vm, vm2, heads[l], C[l], k)
    BY <1>0, <1>1, <1>7, Zenon DEF Bypassing
  <2> QED BY <2>1, ChainCut
<1>9. Exchange(ToSet(C[l]), L, ToSet(Dropped(C[l], k)), L \cup {C[l][k]})
  <2>1. /\ (ToSet(C[l]) \ {C[l][k]}) \cup (L \cup {C[l][k]}) = ToSet(C[l]) \cup L
        /\ (ToSet(C[l]) \ {C[l][k]}) \cap (L \cup {C[l][k]}) = {}
    BY <1>1, <1>6
  <2> QED BY <1>8, <2>1, Zenon DEF Exchange
<1>10. Sorted(vm2, Put(heads, l, heads[l]), Put(C, l, Dropped(C[l], k)), L \cup {C[l][k]}, n)
  BY <1>0, <1>7, <1>8, <1>9, Resorted, Zenon
<1> QED BY <1>8, <1>10, Zenon DEF WasCut

(* The node task_delete finds before v.                                      *)
Seeking(h, head, s, v) ==
    Chain(h.vm, head, s) /\ v \in ToSet(s) /\ head # v /\ h.vm[head].next # v
FoundBefore(h, head, s, v) ==
    \E k \in 2 .. Len(s) : /\ s[k] = v
                           /\ {n \in Nodes(h, h.vm[head].next) : h.vm[n].next = v} = {s[k - 1]}

LEMMA BeforeIs ==
    ASSUME NEW h, NEW head, NEW s, NEW v, Seeking(h, head, s, v)
    PROVE  FoundBefore(h, head, s, v)
<1> SUFFICES ASSUME Chain(h.vm, head, s), v \in ToSet(s), head # v, h.vm[head].next # v
             PROVE  FoundBefore(h, head, s, v)
  BY Zenon DEF Seeking
<1> PICK vm : vm = h.vm
  OBVIOUS
<1>0. Chain(vm, head, s) /\ vm[head].next # v
  OBVIOUS
<1>1. s \in Seq(VMs) /\ Len(s) \in Nat /\ DOMAIN s = 1 .. Len(s) /\ s \in [1 .. Len(s) -> VMs] /\ IsInjective(s)
  BY LenProperties DEF Chain
<1>2. PICK k \in DOMAIN s : s[k] = v
  BY Zenon DEF ToSet
<1>3. s # <<>> /\ head = s[1] /\ head # NULL
  <2>1. Len(s) # 0
    BY <1>1, <1>2
  <2>2. s # <<>>
    BY <2>1, EmptySeq
  <2>3. head = s[1]
    BY <2>2, Zenon DEF Chain
  <2>4. head # NULL
    BY <2>2, ChainHead, Zenon
  <2> QED BY <2>2, <2>3, <2>4
<1>4. k \in 2 .. Len(s) /\ k - 1 \in DOMAIN s /\ k - 1 # Len(s) /\ (k - 1) + 1 = k
  BY <1>1, <1>2, <1>3
<1>5. vm[s[k - 1]].next = v
  <2>1. vm[s[k - 1]].next = IF k - 1 = Len(s) THEN NULL ELSE s[(k - 1) + 1]
    BY <1>4, <1>0, Zenon DEF Chain
  <2> QED BY <1>2, <1>4, <2>1, Zenon
<1>6. Nodes(h, h.vm[head].next) = ToSet(s) \ {head}
  <2>1. Chain(h.vm, h.vm[head].next, Tail(s)) /\ ToSet(Tail(s)) = ToSet(s) \ {head}
    BY <1>3, ChainTaken, Zenon
  <2>2. Nodes(h, h.vm[head].next) = ToSet(Tail(s))
    BY <2>1, ChainIsASet, Zenon
  <2> QED BY <2>1, <2>2
<1>7. s[k - 1] \in ToSet(s) \ {head}
  <2>1. s[k - 1] # head
    BY <1>0, <1>5
  <2>2. s[k - 1] \in ToSet(s)
    BY <1>4, Zenon DEF ToSet
  <2> QED BY <2>1, <2>2
<1>8. ASSUME NEW w \in ToSet(s), vm[w].next = v PROVE w = s[k - 1]
  <2>1. PICK j \in DOMAIN s : s[j] = w
    BY Zenon DEF ToSet
  <2>2. v = IF j = Len(s) THEN NULL ELSE s[j + 1]
    BY <1>0, <1>8, <2>1, Zenon DEF Chain
  <2>3. v \in VMs /\ NULL \notin VMs
    BY <1>1, <1>2, Numbers
  <2>4. j # Len(s) /\ v = s[j + 1]
    BY <2>2, <2>3
  <2>5. j + 1 \in DOMAIN s /\ j \in Nat /\ k \in Nat
    BY <1>1, <2>1, <2>4
  <2>6. j + 1 = k
    BY <1>1, <1>2, <2>4, <2>5, Zenon DEF IsInjective
  <2>7. j = k - 1
    BY <2>5, <2>6
  <2> QED BY <2>1, <2>7
<1>9. {n \in Nodes(h, h.vm[head].next) : h.vm[n].next = v} = {s[k - 1]}
  BY <1>5, <1>6, <1>7, <1>8
<1> QED BY <1>2, <1>4, <1>9, Zenon DEF FoundBefore

-----------------------------------------------------------------------------
(* The same of the heap and what run_paused_tasks has still to run.          *)
HeadsOf(h, q) ==
    [l \in Places |-> IF l = "tasks" THEN h.tasks ELSE IF l = "paused" THEN h.paused
                      ELSE IF l = "vmstore" THEN h.vmstore ELSE q]

HeapSorted(h, q, C, L) == h \in Heaps /\ Sorted(h.vm, HeadsOf(h, q), C, L, h.allocated)

LEMMA HeadsAre ==
    ASSUME NEW h, NEW q
    PROVE  /\ DOMAIN HeadsOf(h, q) = Places
           /\ {"tasks", "paused", "vmstore", "pending"} \subseteq Places
           /\ HeadsOf(h, q)["tasks"] = h.tasks /\ HeadsOf(h, q)["paused"] = h.paused
           /\ HeadsOf(h, q)["vmstore"] = h.vmstore /\ HeadsOf(h, q)["pending"] = q
BY DEF HeadsOf, Places

LEMMA HeadsChange ==
    ASSUME NEW h, NEW h2, NEW q, NEW q2
    PROVE  /\ h2.paused = h.paused /\ h2.vmstore = h.vmstore
              => HeadsOf(h2, q) = Put(HeadsOf(h, q), "tasks", h2.tasks)
           /\ h2.tasks = h.tasks /\ h2.vmstore = h.vmstore
              => HeadsOf(h2, q) = Put(HeadsOf(h, q), "paused", h2.paused)
           /\ h2.tasks = h.tasks /\ h2.paused = h.paused
              => HeadsOf(h2, q) = Put(HeadsOf(h, q), "vmstore", h2.vmstore)
           /\ HeadsOf(h, q2) = Put(HeadsOf(h, q), "pending", q2)
<1>1. h2.paused = h.paused /\ h2.vmstore = h.vmstore
      => HeadsOf(h2, q) = Put(HeadsOf(h, q), "tasks", h2.tasks)
  BY DEF HeadsOf, Put, Places
<1>2. h2.tasks = h.tasks /\ h2.vmstore = h.vmstore
      => HeadsOf(h2, q) = Put(HeadsOf(h, q), "paused", h2.paused)
  BY DEF HeadsOf, Put, Places
<1>3. h2.tasks = h.tasks /\ h2.paused = h.paused
      => HeadsOf(h2, q) = Put(HeadsOf(h, q), "vmstore", h2.vmstore)
  BY DEF HeadsOf, Put, Places
<1>4. HeadsOf(h, q2) = Put(HeadsOf(h, q), "pending", q2)
  BY DEF HeadsOf, Put, Places
<1> QED BY <1>1, <1>2, <1>3, <1>4

(* The VMStates that stand for a task or a caller, and those of paused tasks.*)
Used(h, C) == (1 .. h.allocated) \ ToSet(C["vmstore"])
Pausing(C) == ToSet(C["paused"]) \cup ToSet(C["pending"])

Outcome(h, q, C, L, U, W) == HeapSorted(h, q, C, L) /\ Used(h, C) = U /\ Pausing(C) = W

(* What goes on in one list, seen from the sets of VMStates.                 *)
LEMMA SetsChange ==
    ASSUME NEW C, DOMAIN C = Places, NEW l \in Places, NEW s
    PROVE  LET D == Put(C, l, s) IN
           /\ D[l] = s /\ \A m \in Places : m # l => D[m] = C[m]
           /\ l = "tasks" => Pausing(D) = Pausing(C) /\ D["vmstore"] = C["vmstore"]
           /\ l = "vmstore" => Pausing(D) = Pausing(C)
           /\ l = "paused" => Pausing(D) = ToSet(s) \cup ToSet(C["pending"]) /\ D["vmstore"] = C["vmstore"]
           /\ l = "pending" => Pausing(D) = ToSet(C["paused"]) \cup ToSet(s) /\ D["vmstore"] = C["vmstore"]
<1> DEFINE D == Put(C, l, s)
<1>1. D[l] = s /\ \A m \in Places : m # l => D[m] = C[m]
  BY PutIs
<1>2. {"tasks", "paused", "vmstore", "pending"} \subseteq Places
  BY DEF Places
<1> HIDE DEF D
<1>3. l = "tasks" => D["paused"] = C["paused"] /\ D["pending"] = C["pending"] /\ D["vmstore"] = C["vmstore"]
  BY <1>1, <1>2
<1>4. l = "vmstore" => D["paused"] = C["paused"] /\ D["pending"] = C["pending"]
  BY <1>1, <1>2
<1>5. l = "paused" => D["paused"] = s /\ D["pending"] = C["pending"] /\ D["vmstore"] = C["vmstore"]
  BY <1>1, <1>2
<1>6. l = "pending" => D["paused"] = C["paused"] /\ D["pending"] = s /\ D["vmstore"] = C["vmstore"]
  BY <1>1, <1>2
<1>7. /\ l = "tasks" => Pausing(D) = Pausing(C) /\ D["vmstore"] = C["vmstore"]
      /\ l = "vmstore" => Pausing(D) = Pausing(C)
  BY <1>3, <1>4 DEF Pausing
<1>8. /\ l = "paused" => Pausing(D) = ToSet(s) \cup ToSet(C["pending"]) /\ D["vmstore"] = C["vmstore"]
      /\ l = "pending" => Pausing(D) = ToSet(C["paused"]) \cup ToSet(s) /\ D["vmstore"] = C["vmstore"]
  BY <1>5, <1>6 DEF Pausing
<1> QED BY <1>1, <1>7, <1>8 DEF D

LEMMA SparesChange ==
    ASSUME NEW C, DOMAIN C = Places, NEW s
    PROVE  LET D == Put(C, "vmstore", s) IN
           /\ D["vmstore"] = s /\ D["tasks"] = C["tasks"] /\ D["paused"] = C["paused"]
           /\ Pausing(D) = Pausing(C)
<1> DEFINE D == Put(C, "vmstore", s)
<1>1. {"tasks", "paused", "vmstore", "pending"} \subseteq Places
  BY DEF Places
<1>2. D["vmstore"] = s /\ \A m \in Places : m # "vmstore" => D[m] = C[m]
  BY <1>1, PutIs
<1> HIDE DEF D
<1>3. D["paused"] = C["paused"] /\ D["pending"] = C["pending"] /\ D["tasks"] = C["tasks"]
  BY <1>1, <1>2
<1> QED BY <1>2, <1>3 DEF D, Pausing

LEMMA HeapSortedIs ==
    ASSUME NEW h, NEW q, NEW C, NEW L, HeapSorted(h, q, C, L)
    PROVE  /\ h \in Heaps /\ Sorted(h.vm, HeadsOf(h, q), C, L, h.allocated)
           /\ DOMAIN C = Places /\ L \subseteq VMs /\ 1 .. h.allocated \subseteq VMs /\ L \subseteq 1 .. h.allocated
           /\ \A l \in Places : /\ ToSet(C[l]) \subseteq 1 .. h.allocated /\ ToSet(C[l]) \cap L = {}
                                /\ Chain(h.vm, HeadsOf(h, q)[l], C[l])
           /\ L \subseteq Used(h, C) /\ h.vm \in [VMs -> VMStates] /\ h.allocated \in 0 .. MaxVM
<1>1. h \in Heaps /\ Sorted(h.vm, HeadsOf(h, q), C, L, h.allocated)
  BY Zenon DEF HeapSorted
<1>2. /\ h.allocated \in 0 .. MaxVM /\ L \subseteq 1 .. h.allocated /\ DOMAIN C = Places
      /\ \A l \in Places : /\ ToSet(C[l]) \subseteq 1 .. h.allocated /\ ToSet(C[l]) \cap L = {}
                           /\ Chain(h.vm, HeadsOf(h, q)[l], C[l])
  BY <1>1, Zenon DEF Sorted
<1>3. 1 .. h.allocated \subseteq VMs
  BY <1>2, Numbers DEF VMs
<1>4. ToSet(C["vmstore"]) \cap L = {}
  BY <1>2, HeadsAre, Zenon
<1>5. L \subseteq Used(h, C)
  BY <1>2, <1>4 DEF Used
<1>6. h.vm \in [VMs -> VMStates]
  BY <1>1, HeapIs
<1> QED BY <1>1, <1>2, <1>3, <1>5, <1>6

LEMMA AddedWaiting ==
    ASSUME NEW h, NEW q, NEW C, NEW L, HeapSorted(h, q, C, L), NEW v \in L
    PROVE  /\ Outcome(Added(h, "tasks", v), q, Put(C, "tasks", <<v>> \o C["tasks"]), L \ {v},
                      Used(h, C), Pausing(C))
           /\ Alike(h.vm, Added(h, "tasks", v).vm)
<1> DEFINE h2 == Added(h, "tasks", v)
           s == <<v>> \o C["tasks"]
           C2 == Put(C, "tasks", s)
           heads == HeadsOf(h, q)
<1>1. /\ h \in Heaps /\ Sorted(h.vm, heads, C, L, h.allocated) /\ DOMAIN C = Places /\ v \in VMs
      /\ h.vm \in [VMs -> VMStates] /\ h.tasks \in VMs \cup {NULL}
  BY HeapSortedIs, HeapIs
<1>2. /\ h2 \in Heaps /\ h2.vm = Linked(h.vm, v, h.tasks) /\ h2.tasks = v
      /\ h2.paused = h.paused /\ h2.vmstore = h.vmstore /\ h2.allocated = h.allocated
  BY <1>1, AddedTo
<1>3. LinkedTo(h.vm, h2.vm, v, heads["tasks"]) /\ Alike(h.vm, h2.vm)
  BY <1>1, <1>2, LinkedIs, HeadsAre DEF LinkedTo, OnlyAt
<1>4. HeadsOf(h2, q) = Put(heads, "tasks", v)
  BY <1>2, HeadsChange
<1>5. "tasks" \in Places
  BY HeadsAre
<1> HIDE DEF h2, heads
<1>6. Sorted(h2.vm, Put(heads, "tasks", v), C2, L \ {v}, h.allocated)
  BY <1>1, <1>3, <1>5, SortedPushed, Zenon
<1>7. HeapSorted(h2, q, C2, L \ {v})
  BY <1>2, <1>4, <1>6, Zenon DEF HeapSorted
<1>8. Pausing(C2) = Pausing(C) /\ C2["vmstore"] = C["vmstore"]
  BY <1>1, <1>5, SetsChange
<1> HIDE DEF C2
<1>9. Used(h2, C2) = Used(h, C)
  BY <1>2, <1>8 DEF Used
<1> QED BY <1>3, <1>7, <1>8, <1>9, Zenon DEF Outcome, h2, C2

LEMMA AddedPaused ==
    ASSUME NEW h, NEW q, NEW C, NEW L, HeapSorted(h, q, C, L), NEW v \in L
    PROVE  /\ Outcome(Added(h, "paused", v), q, Put(C, "paused", <<v>> \o C["paused"]), L \ {v},
                      Used(h, C), Pausing(C) \cup {v})
           /\ Alike(h.vm, Added(h, "paused", v).vm)
<1> DEFINE h2 == Added(h, "paused", v)
           s == <<v>> \o C["paused"]
           C2 == Put(C, "paused", s)
           heads == HeadsOf(h, q)
<1>1. /\ h \in Heaps /\ Sorted(h.vm, heads, C, L, h.allocated) /\ DOMAIN C = Places /\ v \in VMs
      /\ h.vm \in [VMs -> VMStates] /\ h.paused \in VMs \cup {NULL}
  BY HeapSortedIs, HeapIs
<1>2. /\ h2 \in Heaps /\ h2.vm = Linked(h.vm, v, h.paused) /\ h2.paused = v
      /\ h2.tasks = h.tasks /\ h2.vmstore = h.vmstore /\ h2.allocated = h.allocated
  BY <1>1, AddedTo
<1>3. LinkedTo(h.vm, h2.vm, v, heads["paused"]) /\ Alike(h.vm, h2.vm)
  BY <1>1, <1>2, LinkedIs, HeadsAre DEF LinkedTo, OnlyAt
<1>4. HeadsOf(h2, q) = Put(heads, "paused", v)
  BY <1>2, HeadsChange
<1>5. "paused" \in Places
  BY HeadsAre
<1> HIDE DEF h2, heads
<1>6. Sorted(h2.vm, Put(heads, "paused", v), C2, L \ {v}, h.allocated) /\ ToSet(s) = {v} \cup ToSet(C["paused"])
  <2>1. Sorted(h.vm, heads, C, L, h.allocated) /\ LinkedTo(h.vm, h2.vm, v, heads["paused"])
    BY <1>1, <1>3
  <2> QED BY <1>5, <2>1, SortedPushed
<1>7. HeapSorted(h2, q, C2, L \ {v})
  BY <1>2, <1>4, <1>6, Zenon DEF HeapSorted
<1>8. Pausing(C2) = ToSet(s) \cup ToSet(C["pending"]) /\ C2["vmstore"] = C["vmstore"]
  BY <1>1, <1>5, SetsChange
<1> HIDE DEF C2, s
<1>9. Used(h2, C2) = Used(h, C) /\ Pausing(C2) = Pausing(C) \cup {v}
  BY <1>2, <1>6, <1>8 DEF Used, Pausing
<1> QED BY <1>3, <1>7, <1>9, Zenon DEF Outcome, h2, C2, s

LEMMA AddedSpare ==
    ASSUME NEW h, NEW q, NEW C, NEW L, HeapSorted(h, q, C, L), NEW v \in L
    PROVE  /\ Outcome(Added(h, "vmstore", v), q, Put(C, "vmstore", <<v>> \o C["vmstore"]), L \ {v},
                      Used(h, C) \ {v}, Pausing(C))
           /\ Alike(h.vm, Added(h, "vmstore", v).vm)
<1> DEFINE h2 == Added(h, "vmstore", v)
           s == <<v>> \o C["vmstore"]
           C2 == Put(C, "vmstore", s)
           heads == HeadsOf(h, q)
<1>1. /\ h \in Heaps /\ Sorted(h.vm, heads, C, L, h.allocated) /\ DOMAIN C = Places /\ v \in VMs
      /\ h.vm \in [VMs -> VMStates] /\ h.vmstore \in VMs \cup {NULL}
  BY HeapSortedIs, HeapIs
<1>2. /\ h2 \in Heaps /\ h2.vm = Linked(h.vm, v, h.vmstore) /\ h2.vmstore = v
      /\ h2.tasks = h.tasks /\ h2.paused = h.paused /\ h2.allocated = h.allocated
  BY <1>1, AddedTo
<1>3. LinkedTo(h.vm, h2.vm, v, heads["vmstore"]) /\ Alike(h.vm, h2.vm)
  BY <1>1, <1>2, LinkedIs, HeadsAre DEF LinkedTo, OnlyAt
<1>4. HeadsOf(h2, q) = Put(heads, "vmstore", v)
  BY <1>2, HeadsChange
<1>5. "vmstore" \in Places
  BY HeadsAre
<1> HIDE DEF h2, heads
<1>6. Sorted(h2.vm, Put(heads, "vmstore", v), C2, L \ {v}, h.allocated) /\ ToSet(s) = {v} \cup ToSet(C["vmstore"])
  <2>1. Sorted(h.vm, heads, C, L, h.allocated) /\ LinkedTo(h.vm, h2.vm, v, heads["vmstore"])
    BY <1>1, <1>3
  <2> QED BY <1>5, <2>1, SortedPushed
<1>7. HeapSorted(h2, q, C2, L \ {v})
  BY <1>2, <1>4, <1>6, Zenon DEF HeapSorted
<1>8. Pausing(C2) = Pausing(C) /\ C2["vmstore"] = s
  BY <1>1, SparesChange
<1> HIDE DEF C2, s
<1>9. Used(h2, C2) = Used(h, C) \ {v}
  BY <1>2, <1>6, <1>8 DEF Used
<1> QED BY <1>3, <1>7, <1>8, <1>9, Zenon DEF Outcome, h2, C2, s

LEMMA ParkedSorted ==
    ASSUME NEW h, NEW q, NEW C, NEW L, HeapSorted(h, q, C, L), CanPark(h), cur \in Globals, NEW b \in BOOLEAN
    PROVE  LET C2 == IF h.vmstore # NULL THEN Put(C, "vmstore", Tail(C["vmstore"])) ELSE C IN
           /\ Outcome(Parked(h, b), q, C2, L \cup {Taken(h)}, Used(h, C) \cup {Taken(h)}, Pausing(C))
           /\ Taken(h) \in VMs /\ Taken(h) \notin Used(h, C)
           /\ Parked(h, b).vm[Taken(h)] = ParkedState(b) /\ OnlyAt(h.vm, Parked(h, b).vm, Taken(h))
           /\ C2["tasks"] = C["tasks"] /\ C2["paused"] = C["paused"]
<1> PICK h2 : h2 = Parked(h, b)
  OBVIOUS
<1> PICK v : v = Taken(h)
  OBVIOUS
<1>1. /\ h \in Heaps /\ Sorted(h.vm, HeadsOf(h, q), C, L, h.allocated) /\ DOMAIN C = Places
      /\ h.vm \in [VMs -> VMStates] /\ h.vmstore \in VMs \cup {NULL} /\ h.allocated \in 0 .. MaxVM
  BY HeapSortedIs, HeapIs
<1>2. /\ h2 \in Heaps /\ v \in VMs /\ h2.vm[v] = ParkedState(b) /\ OnlyAt(h.vm, h2.vm, v)
      /\ h2.tasks = h.tasks /\ h2.paused = h.paused
      /\ h2.vmstore = (IF h.vmstore # NULL THEN h.vm[h.vmstore].next ELSE NULL)
      /\ h2.allocated = (IF h.vmstore # NULL THEN h.allocated ELSE h.allocated + 1)
  BY <1>1, ParkedIs DEF OnlyAt
<1>3. HeadsOf(h2, q) = Put(HeadsOf(h, q), "vmstore", h2.vmstore)
  <2>1. h2.tasks = h.tasks /\ h2.paused = h.paused
    BY <1>2
  <2> QED BY <2>1 DEF HeadsOf, Put, Places
<1>4. "vmstore" \in Places /\ HeadsOf(h, q)["vmstore"] = h.vmstore /\ "tasks" \in Places /\ "paused" \in Places
  BY HeadsAre
<1>5. CASE h.vmstore # NULL
  <2>0. v = h.vmstore
    BY <1>5 DEF Taken
  <2> DEFINE heads == HeadsOf(h, q)
             C2 == Put(C, "vmstore", Tail(C["vmstore"]))
  <2>1. heads["vmstore"] # NULL /\ OnlyAt(h.vm, h2.vm, heads["vmstore"])
    BY <1>2, <1>4, <1>5, <2>0
  <2> HIDE DEF heads
  <2>2. /\ Sorted(h2.vm, Put(heads, "vmstore", h.vm[heads["vmstore"]].next), C2, L \cup {heads["vmstore"]}, h.allocated)
        /\ ToSet(Tail(C["vmstore"])) = ToSet(C["vmstore"]) \ {heads["vmstore"]}
        /\ heads["vmstore"] \in ToSet(C["vmstore"]) /\ heads["vmstore"] \in VMs
        /\ heads["vmstore"] \notin L /\ heads["vmstore"] \in 1 .. h.allocated
    <3>1. Sorted(h.vm, heads, C, L, h.allocated)
      BY <1>1 DEF heads
    <3>2. Taking(h.vm, h2.vm, heads, C, L, h.allocated, "vmstore")
      BY <1>4, <2>1, <3>1, Zenon DEF Taking
    <3>3. Took(h.vm, h2.vm, heads, C, L, h.allocated, "vmstore")
      BY <3>2, SortedTaken, Zenon
    <3> QED BY <3>3, Zenon DEF Took
  <2>3. heads["vmstore"] = v /\ h.vm[heads["vmstore"]].next = h2.vmstore /\ h2.allocated = h.allocated
    BY <1>2, <1>4, <1>5, <2>0 DEF heads
  <2>4. HeapSorted(h2, q, C2, L \cup {v})
    BY <1>2, <1>3, <2>2, <2>3, Zenon DEF HeapSorted, heads
  <2>5. Pausing(C2) = Pausing(C) /\ C2["vmstore"] = Tail(C["vmstore"]) /\ C2["tasks"] = C["tasks"]
        /\ C2["paused"] = C["paused"]
    BY <1>1, SparesChange
  <2> HIDE DEF C2
  <2>6. Used(h2, C2) = Used(h, C) \cup {v} /\ v \notin Used(h, C)
    BY <2>2, <2>3, <2>5 DEF Used
  <2> QED BY <1>2, <1>5, <2>4, <2>5, <2>6 DEF Outcome, C2
<1>6. CASE h.vmstore = NULL
  <2>0. v = h.allocated + 1 /\ h.allocated < MaxVM /\ h2.allocated = v /\ h2.vmstore = h.vmstore
    BY <1>1, <1>2, <1>6 DEF Taken, CanPark
  <2>1. HeadsOf(h2, q) = HeadsOf(h, q)
    BY <1>2, <2>0 DEF HeadsOf
  <2>2. \A l \in Places : SameNext(h.vm, h2.vm, ToSet(C[l]))
    <3>1. ASSUME NEW l \in Places, NEW w \in ToSet(C[l]) PROVE h2.vm[w] = h.vm[w]
      <4>1. w \in 1 .. h.allocated
        BY <1>1, Zenon DEF Sorted
      <4>2. w \in VMs /\ w # v
        BY <4>1, <2>0, <1>1, Numbers DEF VMs
      <4> QED BY <1>2, <4>2 DEF OnlyAt
    <3> QED BY <3>1, Zenon DEF SameNext
  <2>3. Sorted(h2.vm, HeadsOf(h, q), C, L \cup {h.allocated + 1}, h.allocated + 1)
    BY <1>1, <2>0, <2>2, SortedMore
  <2>4. HeapSorted(h2, q, C, L \cup {v})
    BY <1>2, <2>0, <2>1, <2>3, Zenon DEF HeapSorted
  <2>5. ToSet(C["vmstore"]) \subseteq 1 .. h.allocated
    BY <1>1, <1>4, Zenon DEF Sorted
  <2>6. Used(h2, C) = Used(h, C) \cup {v} /\ v \notin Used(h, C)
    <3>1. 1 .. v = (1 .. h.allocated) \cup {v} /\ v \notin 1 .. h.allocated
      BY <1>1, <2>0
    <3> QED BY <2>0, <2>5, <3>1 DEF Used
  <2> QED BY <1>2, <1>6, <2>4, <2>6 DEF Outcome
<1> QED BY <1>5, <1>6

Unlinked(h, h2, q, L, U, W) == Alike(h.vm, h2.vm) /\ \E D : Outcome(h2, q, D, L, U, W)

LEMMA RemovedWaiting ==
    ASSUME NEW h, NEW q, NEW C, NEW L, HeapSorted(h, q, C, L), NEW v \in ToSet(C["tasks"]),
           h.vm[h.tasks].next # v
    PROVE  Unlinked(h, Removed(h, "tasks", v), q, L \cup {v}, Used(h, C), Pausing(C))
<1> DEFINE vm == h.vm
           heads == HeadsOf(h, q)
           s == C["tasks"]
<1>1. /\ h \in Heaps /\ Sorted(vm, heads, C, L, h.allocated) /\ DOMAIN C = Places
      /\ vm \in [VMs -> VMStates] /\ h.tasks \in VMs \cup {NULL}
  BY HeapSortedIs, HeapIs
<1>2. "tasks" \in Places /\ "vmstore" \in Places /\ "pending" \in Places /\ heads["tasks"] = h.tasks
  BY HeadsAre
<1>3. Chain(vm, h.tasks, s) /\ ToSet(s) \subseteq VMs /\ v \in VMs
  <2>1. Chain(vm, heads["tasks"], s)
    BY <1>1, <1>2, Zenon DEF Sorted
  <2>2. s \in Seq(VMs)
    BY <2>1, Zenon DEF Chain
  <2>3. s \in [1 .. Len(s) -> VMs] /\ DOMAIN s = 1 .. Len(s)
    BY <2>2, LenProperties
  <2>4. ToSet(s) \subseteq VMs
    BY <2>3 DEF ToSet
  <2> QED BY <1>2, <2>1, <2>4
<1>4. vm[v].next \in VMs \cup {NULL}
  BY <1>1, <1>3 DEF VMStates
<1>5. ASSUME NEW h2 \in Heaps, NEW t, NEW D,
             h2.allocated = h.allocated, Sorted(h2.vm, HeadsOf(h2, q), D, L \cup {v}, h.allocated),
             D = Put(C, "tasks", t), ToSet(t) = ToSet(s) \ {v}, Alike(vm, h2.vm)
      PROVE  Unlinked(h, h2, q, L \cup {v}, Used(h, C), Pausing(C))
  <2>1. HeapSorted(h2, q, D, L \cup {v})
    BY <1>5, Zenon DEF HeapSorted
  <2>2. Pausing(D) = Pausing(C) /\ D["vmstore"] = C["vmstore"]
    BY <1>1, <1>2, <1>5, SetsChange
  <2>3. Used(h2, D) = Used(h, C)
    BY <1>5, <2>2 DEF Used
  <2> QED BY <1>5, <2>1, <2>2, <2>3 DEF Unlinked, Outcome
<1>6. CASE h.tasks = v
  <2> PICK h2 : h2 = Removed(h, "tasks", v)
    OBVIOUS
  <2>1. h2 = [h EXCEPT !.tasks = vm[v].next]
    BY <1>1, <1>6, HeapIs DEF Removed
  <2>2. /\ h2 \in Heaps /\ h2.vm = vm /\ h2.tasks = vm[v].next /\ h2.paused = h.paused
        /\ h2.vmstore = h.vmstore /\ h2.allocated = h.allocated
    BY <1>1, <1>4, <2>1 DEF Heaps
  <2>3. HeadsOf(h2, q) = Put(heads, "tasks", vm[heads["tasks"]].next)
    BY <2>2, <1>2, <1>6 DEF HeadsOf, Put, Places
  <2>4. Taking(vm, h2.vm, heads, C, L, h.allocated, "tasks")
    BY <1>1, <1>2, <1>3, <1>6, <2>2, Numbers DEF Taking, OnlyAt
  <2>5. Took(vm, h2.vm, heads, C, L, h.allocated, "tasks")
    BY <2>4, SortedTaken, Zenon
  <2>6. /\ Sorted(h2.vm, HeadsOf(h2, q), Put(C, "tasks", Tail(s)), L \cup {v}, h.allocated)
        /\ ToSet(Tail(s)) = ToSet(s) \ {v}
    BY <1>2, <1>6, <2>3, <2>5 DEF Took
  <2>7. Alike(vm, h2.vm)
    BY <2>2 DEF Alike
  <2>8. Unlinked(h, h2, q, L \cup {v}, Used(h, C), Pausing(C))
    BY <1>5, <2>2, <2>6, <2>7
  <2> QED BY <2>8
<1>7. CASE h.tasks # v
  <2> PICK h2 : h2 = Removed(h, "tasks", v)
    OBVIOUS
  <2>1. PICK k \in 2 .. Len(s) : /\ s[k] = v
                                 /\ {n \in Nodes(h, vm[h.tasks].next) : vm[n].next = v} = {s[k - 1]}
    <3>1. Seeking(h, h.tasks, s, v)
      BY <1>3, <1>7, Zenon DEF Seeking
    <3>2. FoundBefore(h, h.tasks, s, v)
      BY <3>1, BeforeIs, Zenon
    <3> QED BY <3>2, Zenon DEF FoundBefore
  <2> PICK p : p = s[k - 1]
    OBVIOUS
  <2>2. s # <<>> /\ p \in VMs
    <3>1. s \in Seq(VMs) /\ s \in [1 .. Len(s) -> VMs] /\ Len(s) \in Nat
      BY <1>3, LenProperties DEF Chain
    <3> QED BY <3>1, EmptySeq
  <2>3. h.tasks # NULL
    BY <1>3, <2>2, ChainHead, Zenon
  <2>4. h2 = [h EXCEPT !.vm = Linked(vm, p, vm[v].next)]
    <3> DEFINE B == {n \in Nodes(h, vm[h.tasks].next) : vm[n].next = v}
    <3>1. B = {p}
      BY <2>1
    <3>2. B # {} /\ (CHOOSE n \in B : TRUE) = p
      BY <3>1
    <3>3. h["tasks"] = h.tasks
      BY <1>1, HeapIs
    <3>4. h2 = [h EXCEPT !.vm[CHOOSE n \in B : TRUE].next = vm[v].next]
      <4> HIDE DEF B
      <4>1. Removed(h, "tasks", v) = (IF h.tasks = v THEN [h EXCEPT !["tasks"] = vm[v].next]
                                  ELSE IF B = {} THEN h
                                  ELSE [h EXCEPT !.vm[CHOOSE n \in B : TRUE].next = vm[v].next])
        BY <2>3, <3>3, Zenon DEF Removed, B
      <4> QED BY <1>7, <3>2, <4>1, Zenon
    <3> HIDE DEF B
    <3>5. h2 = [h EXCEPT !.vm[p].next = vm[v].next]
      BY <3>2, <3>4, Zenon
    <3> QED BY <3>5, <1>1, HeapIs DEF Linked
  <2>5. Linked(vm, p, vm[v].next) \in [VMs -> VMStates] /\ Alike(vm, Linked(vm, p, vm[v].next))
        /\ LinkedTo(vm, Linked(vm, p, vm[v].next), p, vm[v].next)
    BY <1>1, <1>4, <2>2, LinkedIs DEF LinkedTo, OnlyAt
  <2>6. /\ h2 \in Heaps /\ h2.vm = Linked(vm, p, vm[v].next) /\ h2.tasks = h.tasks /\ h2.paused = h.paused
        /\ h2.vmstore = h.vmstore /\ h2.allocated = h.allocated
    BY <1>1, <2>4, <2>5 DEF Heaps
  <2>7. HeadsOf(h2, q) = Put(heads, "tasks", heads["tasks"])
    BY <2>6, <1>2 DEF HeadsOf, Put, Places
  <2>8. Cutting(vm, h2.vm, heads, C, L, h.allocated, "tasks", k)
    BY <1>1, <1>2, <2>1, <2>5, <2>6 DEF Cutting
  <2>9. WasCut(h2.vm, heads, C, L, h.allocated, "tasks", k)
    BY <2>8, SortedCut, Zenon
  <2>10. /\ Sorted(h2.vm, HeadsOf(h2, q), Put(C, "tasks", Dropped(s, k)), L \cup {v}, h.allocated)
         /\ ToSet(Dropped(s, k)) = ToSet(s) \ {v}
    BY <2>1, <2>7, <2>9 DEF WasCut
  <2>11. Unlinked(h, h2, q, L \cup {v}, Used(h, C), Pausing(C))
    BY <1>5, <2>5, <2>6, <2>10
  <2> QED BY <2>11
<1> QED BY <1>6, <1>7

LEMMA RemovedPaused ==
    ASSUME NEW h, NEW q, NEW C, NEW L, HeapSorted(h, q, C, L), NEW v \in ToSet(C["paused"]),
           h.vm[h.paused].next # v
    PROVE  Unlinked(h, Removed(h, "paused", v), q, L \cup {v}, Used(h, C), Pausing(C) \ {v})
<1> DEFINE vm == h.vm
           heads == HeadsOf(h, q)
           s == C["paused"]
<1>1. /\ h \in Heaps /\ Sorted(vm, heads, C, L, h.allocated) /\ DOMAIN C = Places
      /\ vm \in [VMs -> VMStates] /\ h.paused \in VMs \cup {NULL}
  BY HeapSortedIs, HeapIs
<1>2. "paused" \in Places /\ "vmstore" \in Places /\ "pending" \in Places /\ heads["paused"] = h.paused
  BY HeadsAre
<1>3. Chain(vm, h.paused, s) /\ ToSet(s) \subseteq VMs /\ v \in VMs
  <2>1. Chain(vm, heads["paused"], s)
    BY <1>1, <1>2, Zenon DEF Sorted
  <2>2. s \in Seq(VMs)
    BY <2>1, Zenon DEF Chain
  <2>3. s \in [1 .. Len(s) -> VMs] /\ DOMAIN s = 1 .. Len(s)
    BY <2>2, LenProperties
  <2>4. ToSet(s) \subseteq VMs
    BY <2>3 DEF ToSet
  <2> QED BY <1>2, <2>1, <2>4
<1>4. vm[v].next \in VMs \cup {NULL}
  BY <1>1, <1>3 DEF VMStates
<1>5. ASSUME NEW h2 \in Heaps, NEW t, NEW D,
             h2.allocated = h.allocated, Sorted(h2.vm, HeadsOf(h2, q), D, L \cup {v}, h.allocated),
             D = Put(C, "paused", t), ToSet(t) = ToSet(s) \ {v}, Alike(vm, h2.vm)
      PROVE  Unlinked(h, h2, q, L \cup {v}, Used(h, C), Pausing(C) \ {v})
  <2>1. HeapSorted(h2, q, D, L \cup {v})
    BY <1>5, Zenon DEF HeapSorted
  <2>2. Pausing(D) = Pausing(C) \ {v} /\ D["vmstore"] = C["vmstore"]
    <3>1. Pausing(D) = ToSet(t) \cup ToSet(C["pending"]) /\ D["vmstore"] = C["vmstore"]
      BY <1>1, <1>2, <1>5, SetsChange
    <3>2. ToSet(C["paused"]) \cap ToSet(C["pending"]) = {}
      BY <1>1, <1>2, Zenon DEF Sorted
    <3> QED BY <1>5, <3>1, <3>2 DEF Pausing
  <2>3. Used(h2, D) = Used(h, C)
    BY <1>5, <2>2 DEF Used
  <2> QED BY <1>5, <2>1, <2>2, <2>3 DEF Unlinked, Outcome
<1>6. CASE h.paused = v
  <2> PICK h2 : h2 = Removed(h, "paused", v)
    OBVIOUS
  <2>1. h2 = [h EXCEPT !.paused = vm[v].next]
    BY <1>1, <1>6, HeapIs DEF Removed
  <2>2. /\ h2 \in Heaps /\ h2.vm = vm /\ h2.paused = vm[v].next /\ h2.tasks = h.tasks
        /\ h2.vmstore = h.vmstore /\ h2.allocated = h.allocated
    BY <1>1, <1>4, <2>1 DEF Heaps
  <2>3. HeadsOf(h2, q) = Put(heads, "paused", vm[heads["paused"]].next)
    BY <2>2, <1>2, <1>6 DEF HeadsOf, Put, Places
  <2>4. Taking(vm, h2.vm, heads, C, L, h.allocated, "paused")
    BY <1>1, <1>2, <1>3, <1>6, <2>2, Numbers DEF Taking, OnlyAt
  <2>5. Took(vm, h2.vm, heads, C, L, h.allocated, "paused")
    BY <2>4, SortedTaken, Zenon
  <2>6. /\ Sorted(h2.vm, HeadsOf(h2, q), Put(C, "paused", Tail(s)), L \cup {v}, h.allocated)
        /\ ToSet(Tail(s)) = ToSet(s) \ {v}
    BY <1>2, <1>6, <2>3, <2>5 DEF Took
  <2>7. Alike(vm, h2.vm)
    BY <2>2 DEF Alike
  <2>8. Unlinked(h, h2, q, L \cup {v}, Used(h, C), Pausing(C) \ {v})
    BY <1>5, <2>2, <2>6, <2>7
  <2> QED BY <2>8
<1>7. CASE h.paused # v
  <2> PICK h2 : h2 = Removed(h, "paused", v)
    OBVIOUS
  <2>1. PICK k \in 2 .. Len(s) : /\ s[k] = v
                                 /\ {n \in Nodes(h, vm[h.paused].next) : vm[n].next = v} = {s[k - 1]}
    <3>1. Seeking(h, h.paused, s, v)
      BY <1>3, <1>7, Zenon DEF Seeking
    <3>2. FoundBefore(h, h.paused, s, v)
      BY <3>1, BeforeIs, Zenon
    <3> QED BY <3>2, Zenon DEF FoundBefore
  <2> PICK p : p = s[k - 1]
    OBVIOUS
  <2>2. s # <<>> /\ p \in VMs
    <3>1. s \in Seq(VMs) /\ s \in [1 .. Len(s) -> VMs] /\ Len(s) \in Nat
      BY <1>3, LenProperties DEF Chain
    <3> QED BY <3>1, EmptySeq
  <2>3. h.paused # NULL
    BY <1>3, <2>2, ChainHead, Zenon
  <2>4. h2 = [h EXCEPT !.vm = Linked(vm, p, vm[v].next)]
    <3> DEFINE B == {n \in Nodes(h, vm[h.paused].next) : vm[n].next = v}
    <3>1. B = {p}
      BY <2>1
    <3>2. B # {} /\ (CHOOSE n \in B : TRUE) = p
      BY <3>1
    <3>3. h["paused"] = h.paused
      BY <1>1, HeapIs
    <3>4. h2 = [h EXCEPT !.vm[CHOOSE n \in B : TRUE].next = vm[v].next]
      <4> HIDE DEF B
      <4>1. Removed(h, "paused", v) = (IF h.paused = v THEN [h EXCEPT !["paused"] = vm[v].next]
                                  ELSE IF B = {} THEN h
                                  ELSE [h EXCEPT !.vm[CHOOSE n \in B : TRUE].next = vm[v].next])
        BY <2>3, <3>3, Zenon DEF Removed, B
      <4> QED BY <1>7, <3>2, <4>1, Zenon
    <3> HIDE DEF B
    <3>5. h2 = [h EXCEPT !.vm[p].next = vm[v].next]
      BY <3>2, <3>4, Zenon
    <3> QED BY <3>5, <1>1, HeapIs DEF Linked
  <2>5. Linked(vm, p, vm[v].next) \in [VMs -> VMStates] /\ Alike(vm, Linked(vm, p, vm[v].next))
        /\ LinkedTo(vm, Linked(vm, p, vm[v].next), p, vm[v].next)
    BY <1>1, <1>4, <2>2, LinkedIs DEF LinkedTo, OnlyAt
  <2>6. /\ h2 \in Heaps /\ h2.vm = Linked(vm, p, vm[v].next) /\ h2.paused = h.paused /\ h2.tasks = h.tasks
        /\ h2.vmstore = h.vmstore /\ h2.allocated = h.allocated
    BY <1>1, <2>4, <2>5 DEF Heaps
  <2>7. HeadsOf(h2, q) = Put(heads, "paused", heads["paused"])
    BY <2>6, <1>2 DEF HeadsOf, Put, Places
  <2>8. Cutting(vm, h2.vm, heads, C, L, h.allocated, "paused", k)
    BY <1>1, <1>2, <2>1, <2>5, <2>6 DEF Cutting
  <2>9. WasCut(h2.vm, heads, C, L, h.allocated, "paused", k)
    BY <2>8, SortedCut, Zenon
  <2>10. /\ Sorted(h2.vm, HeadsOf(h2, q), Put(C, "paused", Dropped(s, k)), L \cup {v}, h.allocated)
         /\ ToSet(Dropped(s, k)) = ToSet(s) \ {v}
    BY <2>1, <2>7, <2>9 DEF WasCut
  <2>11. Unlinked(h, h2, q, L \cup {v}, Used(h, C), Pausing(C) \ {v})
    BY <1>5, <2>5, <2>6, <2>10
  <2> QED BY <2>11
<1> QED BY <1>6, <1>7

-----------------------------------------------------------------------------
LEMMA NodesAre ==
    ASSUME NEW h, NEW q, NEW C, NEW L, HeapSorted(h, q, C, L)
    PROVE  \A l \in Places : Nodes(h, HeadsOf(h, q)[l]) = ToSet(C[l]) /\ Ends(h, HeadsOf(h, q)[l])
<1>1. \A l \in Places : Chain(h.vm, HeadsOf(h, q)[l], C[l])
  BY HeapSortedIs, Zenon
<1> QED BY <1>1, ChainIsASet, Zenon

(* Where everything is, without saying in which order: L local to callers,   *)
(* U standing for a task or a caller, W of paused tasks.                     *)
Placed(h, q, L, U, W) == \E C : Outcome(h, q, C, L, U, W)

LEMMA PlacedIs ==
    ASSUME NEW h, NEW q, NEW L, NEW U, NEW W, Placed(h, q, L, U, W)
    PROVE  /\ h \in Heaps /\ h.vm \in [VMs -> VMStates] /\ U \subseteq VMs /\ L \subseteq U /\ W \subseteq U
           /\ Nodes(h, h.tasks) \subseteq U /\ Nodes(h, h.tasks) \cap (L \cup W) = {} /\ L \cap W = {}
           /\ U = (1 .. h.allocated) \ Nodes(h, h.vmstore)
           /\ W = Nodes(h, h.paused) \cup Nodes(h, q)
<1> PICK C : Outcome(h, q, C, L, U, W)
  BY Zenon DEF Placed
<1>1. HeapSorted(h, q, C, L) /\ U = Used(h, C) /\ W = Pausing(C)
  BY Zenon DEF Outcome
<1>2. /\ h \in Heaps /\ L \subseteq VMs /\ 1 .. h.allocated \subseteq VMs
      /\ \A l \in Places : /\ ToSet(C[l]) \subseteq 1 .. h.allocated /\ ToSet(C[l]) \cap L = {}
                           /\ Chain(h.vm, HeadsOf(h, q)[l], C[l])
      /\ L \subseteq Used(h, C) /\ h.vm \in [VMs -> VMStates]
      /\ Sorted(h.vm, HeadsOf(h, q), C, L, h.allocated)
  BY <1>1, HeapSortedIs
<1>3. /\ {"tasks", "paused", "vmstore", "pending"} \subseteq Places
      /\ HeadsOf(h, q)["tasks"] = h.tasks /\ HeadsOf(h, q)["paused"] = h.paused
      /\ HeadsOf(h, q)["vmstore"] = h.vmstore /\ HeadsOf(h, q)["pending"] = q
  BY HeadsAre
<1>4. /\ "tasks" \in Places /\ "paused" \in Places /\ "vmstore" \in Places /\ "pending" \in Places
  BY <1>3
<1>5. /\ Nodes(h, h.tasks) = ToSet(C["tasks"]) /\ Nodes(h, h.paused) = ToSet(C["paused"])
      /\ Nodes(h, h.vmstore) = ToSet(C["vmstore"]) /\ Nodes(h, q) = ToSet(C["pending"])
  <2>1. \A l \in Places : Nodes(h, HeadsOf(h, q)[l]) = ToSet(C[l])
    BY <1>2, ChainIsASet, Zenon
  <2> QED BY <1>3, <1>4, <2>1, Zenon
<1>6. \A l, m \in Places : l # m => ToSet(C[l]) \cap ToSet(C[m]) = {}
  BY <1>2, Zenon DEF Sorted
<1> DEFINE T == ToSet(C["tasks"])
           P == ToSet(C["paused"])
           S == ToSet(C["vmstore"])
           Q == ToSet(C["pending"])
           I == 1 .. h.allocated
<1>7. T \subseteq I /\ P \subseteq I /\ S \subseteq I /\ Q \subseteq I
  BY <1>2, <1>4, Zenon
<1>8. T \cap L = {} /\ P \cap L = {} /\ Q \cap L = {}
  BY <1>2, <1>4, Zenon
<1>9. T \cap P = {} /\ T \cap Q = {} /\ T \cap S = {} /\ P \cap S = {} /\ Q \cap S = {}
  <2>1. "tasks" # "paused" /\ "tasks" # "pending" /\ "tasks" # "vmstore" /\ "paused" # "vmstore" /\ "pending" # "vmstore"
    OBVIOUS
  <2> QED BY <1>4, <1>6, <2>1, Zenon
<1>10. U = I \ S /\ W = P \cup Q /\ L \subseteq U /\ I \subseteq VMs
  BY <1>1, <1>2, Zenon DEF Used, Pausing
<1> HIDE DEF T, P, S, Q, I
<1>11. /\ U \subseteq VMs /\ W \subseteq U /\ T \subseteq U /\ T \cap (L \cup W) = {} /\ L \cap W = {}
  BY <1>7, <1>8, <1>9, <1>10
<1> QED BY <1>2, <1>5, <1>10, <1>11, Zenon DEF T, P, S, Q, I

(* The lists that Placed puts in order.                                      *)
ListsAre(h, q, L, U, W, C) ==
    /\ Outcome(h, q, C, L, U, W)
    /\ ToSet(C["tasks"]) = Nodes(h, h.tasks) /\ ToSet(C["paused"]) = Nodes(h, h.paused)
    /\ ToSet(C["vmstore"]) = Nodes(h, h.vmstore) /\ ToSet(C["pending"]) = Nodes(h, q)
    /\ Ends(h, h.tasks) /\ Ends(h, h.paused) /\ Ends(h, h.vmstore)

LEMMA PlacedLists ==
    ASSUME NEW h, NEW q, NEW L, NEW U, NEW W, Placed(h, q, L, U, W)
    PROVE  \E C : ListsAre(h, q, L, U, W, C)
<1> PICK C : Outcome(h, q, C, L, U, W)
  BY Zenon DEF Placed
<1>1. HeapSorted(h, q, C, L)
  BY Zenon DEF Outcome
<1>3. \A l \in Places : Nodes(h, HeadsOf(h, q)[l]) = ToSet(C[l]) /\ Ends(h, HeadsOf(h, q)[l])
  BY <1>1, NodesAre, Zenon
<1>4. /\ HeadsOf(h, q)["tasks"] = h.tasks /\ HeadsOf(h, q)["paused"] = h.paused
      /\ HeadsOf(h, q)["vmstore"] = h.vmstore /\ HeadsOf(h, q)["pending"] = q
  BY HeadsAre
<1>5. /\ "tasks" \in Places /\ "paused" \in Places /\ "vmstore" \in Places /\ "pending" \in Places
  BY HeadsAre
<1>6. ListsAre(h, q, L, U, W, C)
  BY <1>3, <1>4, <1>5, Zenon DEF ListsAre
<1> QED BY <1>6

Holds(vm, v, b) == vm[v].task = cur.task /\ vm[v].stack = cur.stack /\ vm[v].paused = b

LEMMA ParkedPlaced ==
    ASSUME NEW h, NEW q, NEW L, NEW U, NEW W, Placed(h, q, L, U, W), CanPark(h), cur \in Globals,
           NEW b \in BOOLEAN
    PROVE  /\ Placed(Parked(h, b), q, L \cup {Taken(h)}, U \cup {Taken(h)}, W)
           /\ Taken(h) \in VMs /\ Taken(h) \notin U /\ Holds(Parked(h, b).vm, Taken(h), b)
           /\ OnlyAt(h.vm, Parked(h, b).vm, Taken(h))
           /\ Parked(h, b).tasks = h.tasks /\ Parked(h, b).paused = h.paused
           /\ Nodes(Parked(h, b), h.tasks) = Nodes(h, h.tasks)
           /\ Nodes(Parked(h, b), h.paused) = Nodes(h, h.paused)
<1> PICK C : ListsAre(h, q, L, U, W, C)
  BY PlacedLists
<1>0. /\ Outcome(h, q, C, L, U, W)
      /\ ToSet(C["tasks"]) = Nodes(h, h.tasks) /\ ToSet(C["paused"]) = Nodes(h, h.paused)
  BY Zenon DEF ListsAre
<1>1. HeapSorted(h, q, C, L) /\ U = Used(h, C) /\ W = Pausing(C)
  BY <1>0, Zenon DEF Outcome
<1> PICK C2 : C2 = IF h.vmstore # NULL THEN Put(C, "vmstore", Tail(C["vmstore"])) ELSE C
  OBVIOUS
<1>2. /\ Outcome(Parked(h, b), q, C2, L \cup {Taken(h)}, Used(h, C) \cup {Taken(h)}, Pausing(C))
      /\ Taken(h) \in VMs /\ Taken(h) \notin Used(h, C)
      /\ Parked(h, b).vm[Taken(h)] = ParkedState(b) /\ OnlyAt(h.vm, Parked(h, b).vm, Taken(h))
      /\ C2["tasks"] = C["tasks"] /\ C2["paused"] = C["paused"]
  BY <1>1, ParkedSorted
<1>3. Placed(Parked(h, b), q, L \cup {Taken(h)}, U \cup {Taken(h)}, W)
  BY <1>1, <1>2, Zenon DEF Placed
<1>4. Holds(Parked(h, b).vm, Taken(h), b)
  BY <1>2 DEF Holds, ParkedState
<1>5. Parked(h, b).tasks = h.tasks /\ Parked(h, b).paused = h.paused
  <2>1. h \in Heaps
    BY <1>1, HeapSortedIs
  <2> QED BY <2>1, ParkedIs
<1>6. /\ Nodes(Parked(h, b), h.tasks) = ToSet(C2["tasks"])
      /\ Nodes(Parked(h, b), h.paused) = ToSet(C2["paused"])
  <2> PICK h2 : h2 = Parked(h, b)
    OBVIOUS
  <2>1. HeapSorted(h2, q, C2, L \cup {Taken(h)})
    BY <1>2, Zenon DEF Outcome
  <2>3. \A l \in Places : Nodes(h2, HeadsOf(h2, q)[l]) = ToSet(C2[l])
    BY <2>1, NodesAre
  <2>4. "tasks" \in Places /\ "paused" \in Places
    BY HeadsAre
  <2>5. HeadsOf(h2, q)["tasks"] = h2.tasks /\ HeadsOf(h2, q)["paused"] = h2.paused
    BY HeadsAre, Zenon
  <2> QED BY <1>5, <2>3, <2>4, <2>5, Zenon
<1> QED BY <1>0, <1>1, <1>2, <1>3, <1>4, <1>5, <1>6, Zenon

LEMMA AddedPlaced ==
    ASSUME NEW h, NEW q, NEW L, NEW U, NEW W, Placed(h, q, L, U, W), NEW v \in L
    PROVE  /\ Placed(Added(h, "tasks", v), q, L \ {v}, U, W) /\ Alike(h.vm, Added(h, "tasks", v).vm)
           /\ Placed(Added(h, "paused", v), q, L \ {v}, U, W \cup {v}) /\ Alike(h.vm, Added(h, "paused", v).vm)
           /\ Placed(Added(h, "vmstore", v), q, L \ {v}, U \ {v}, W) /\ Alike(h.vm, Added(h, "vmstore", v).vm)
<1> PICK C : Outcome(h, q, C, L, U, W)
  BY Zenon DEF Placed
<1>1. HeapSorted(h, q, C, L) /\ U = Used(h, C) /\ W = Pausing(C)
  BY Zenon DEF Outcome
<1>2. Placed(Added(h, "tasks", v), q, L \ {v}, U, W) /\ Alike(h.vm, Added(h, "tasks", v).vm)
  BY <1>1, AddedWaiting, Zenon DEF Placed
<1>3. Placed(Added(h, "paused", v), q, L \ {v}, U, W \cup {v}) /\ Alike(h.vm, Added(h, "paused", v).vm)
  BY <1>1, AddedPaused, Zenon DEF Placed
<1>4. Placed(Added(h, "vmstore", v), q, L \ {v}, U \ {v}, W) /\ Alike(h.vm, Added(h, "vmstore", v).vm)
  BY <1>1, AddedSpare, Zenon DEF Placed
<1> QED BY <1>2, <1>3, <1>4

LEMMA RemovedPlaced ==
    ASSUME NEW h, NEW q, NEW L, NEW U, NEW W, Placed(h, q, L, U, W), NEW v
    PROVE  /\ v \in Nodes(h, h.tasks) /\ h.vm[h.tasks].next # v
              => /\ Placed(Removed(h, "tasks", v), q, L \cup {v}, U, W)
                 /\ Alike(h.vm, Removed(h, "tasks", v).vm)
           /\ v \in Nodes(h, h.paused) /\ h.vm[h.paused].next # v
              => /\ Placed(Removed(h, "paused", v), q, L \cup {v}, U, W \ {v})
                 /\ Alike(h.vm, Removed(h, "paused", v).vm)
<1> PICK C : ListsAre(h, q, L, U, W, C)
  BY PlacedLists
<1>0. /\ Outcome(h, q, C, L, U, W)
      /\ ToSet(C["tasks"]) = Nodes(h, h.tasks) /\ ToSet(C["paused"]) = Nodes(h, h.paused)
  BY Zenon DEF ListsAre
<1>1. HeapSorted(h, q, C, L) /\ U = Used(h, C) /\ W = Pausing(C)
  BY <1>0, Zenon DEF Outcome
<1>2. v \in ToSet(C["tasks"]) /\ h.vm[h.tasks].next # v
      => Unlinked(h, Removed(h, "tasks", v), q, L \cup {v}, Used(h, C), Pausing(C))
  BY <1>1, RemovedWaiting, Zenon
<1>3. v \in ToSet(C["paused"]) /\ h.vm[h.paused].next # v
      => Unlinked(h, Removed(h, "paused", v), q, L \cup {v}, Used(h, C), Pausing(C) \ {v})
  BY <1>1, RemovedPaused, Zenon
<1> QED BY <1>0, <1>1, <1>2, <1>3, Zenon DEF Unlinked, Placed

-----------------------------------------------------------------------------
(* What each step does to the heap: which task each VMState of S stands for  *)
(* stays, and v, which was spare, is given the globals.                      *)
AgreeOn(vm, vm2, S) == \A w \in S : /\ vm2[w].task = vm[w].task /\ vm2[w].stack = vm[w].stack
                                    /\ vm2[w].paused = vm[w].paused
Parks(vm, vm2, U, v, b) == v \in VMs /\ v \notin U /\ AgreeOn(vm, vm2, U) /\ Holds(vm2, v, b)

SameOn(vm, vm2, S) == \A w \in S : vm2[w] = vm[w]

LEMMA ParksAlike ==
    ASSUME NEW vm, NEW vm2, NEW vm3, NEW U, U \subseteq VMs, NEW v, NEW b,
           Parks(vm, vm2, U, v, b), Alike(vm2, vm3)
    PROVE  Parks(vm, vm3, U, v, b)
BY DEF Parks, AgreeOn, Holds, Alike

LEMMA ParkedParks ==
    ASSUME NEW h, NEW q, NEW L, NEW U, NEW W, Placed(h, q, L, U, W), CanPark(h), cur \in Globals,
           NEW b \in BOOLEAN
    PROVE  /\ Parks(h.vm, Parked(h, b).vm, U, Taken(h), b) /\ Taken(h) \notin L /\ Taken(h) \notin W
           /\ SameOn(h.vm, Parked(h, b).vm, U)
<1> PICK v : v = Taken(h)
  OBVIOUS
<1> PICK vm2 : vm2 = Parked(h, b).vm
  OBVIOUS
<1>1. v \in VMs /\ v \notin U /\ Holds(vm2, v, b) /\ OnlyAt(h.vm, vm2, v)
  BY ParkedPlaced
<1>2. U \subseteq VMs /\ L \subseteq U /\ W \subseteq U
  BY PlacedIs
<1>3. \A w \in U : vm2[w] = h.vm[w]
  BY <1>1, <1>2 DEF OnlyAt
<1>4. AgreeOn(h.vm, vm2, U)
  BY <1>3 DEF AgreeOn
<1> QED BY <1>1, <1>2, <1>3, <1>4 DEF Parks, SameOn

LEMMA SuspendPlaced ==
    ASSUME NEW h, NEW q, NEW L, NEW U, NEW W, Placed(h, q, L, U, W), CanPark(h), cur \in Globals
    PROVE  /\ Placed(Added(Parked(h, FALSE), "tasks", Taken(h)), q, L, U \cup {Taken(h)}, W)
           /\ Parks(h.vm, Added(Parked(h, FALSE), "tasks", Taken(h)).vm, U, Taken(h), FALSE)
<1> PICK v : v = Taken(h)
  OBVIOUS
<1> PICK h1 : h1 = Parked(h, FALSE)
  OBVIOUS
<1>1. Placed(h1, q, L \cup {v}, U \cup {v}, W) /\ Parks(h.vm, h1.vm, U, v, FALSE) /\ v \notin L
  BY ParkedPlaced, ParkedParks
<1>2. v \in L \cup {v} /\ (L \cup {v}) \ {v} = L
  BY <1>1
<1>3. Placed(Added(h1, "tasks", v), q, (L \cup {v}) \ {v}, U \cup {v}, W) /\ Alike(h1.vm, Added(h1, "tasks", v).vm)
  BY <1>1, <1>2, AddedPlaced, Zenon
<1>4. U \subseteq VMs
  BY PlacedIs
<1>5. Parks(h.vm, Added(h1, "tasks", v).vm, U, v, FALSE)
  BY <1>1, <1>3, <1>4, ParksAlike, Zenon
<1> QED BY <1>2, <1>3, <1>5

LEMMA PausePlaced ==
    ASSUME NEW h, NEW q, NEW L, NEW U, NEW W, Placed(h, q, L, U, W), CanPark(h), cur \in Globals
    PROVE  /\ Placed(Added(Parked(h, TRUE), "paused", Taken(h)), q, L, U \cup {Taken(h)}, W \cup {Taken(h)})
           /\ Parks(h.vm, Added(Parked(h, TRUE), "paused", Taken(h)).vm, U, Taken(h), TRUE)
<1> PICK v : v = Taken(h)
  OBVIOUS
<1> PICK h1 : h1 = Parked(h, TRUE)
  OBVIOUS
<1>1. Placed(h1, q, L \cup {v}, U \cup {v}, W) /\ Parks(h.vm, h1.vm, U, v, TRUE) /\ v \notin L
  BY ParkedPlaced, ParkedParks
<1>2. v \in L \cup {v} /\ (L \cup {v}) \ {v} = L
  BY <1>1
<1>3. Placed(Added(h1, "paused", v), q, (L \cup {v}) \ {v}, U \cup {v}, W \cup {v})
      /\ Alike(h1.vm, Added(h1, "paused", v).vm)
  BY <1>1, <1>2, AddedPlaced, Zenon
<1>4. U \subseteq VMs
  BY PlacedIs
<1>5. Parks(h.vm, Added(h1, "paused", v).vm, U, v, TRUE)
  BY <1>1, <1>3, <1>4, ParksAlike, Zenon
<1> QED BY <1>2, <1>3, <1>5

LEMMA HeadsIn ==
    ASSUME NEW h, NEW q, NEW L, NEW U, NEW W, Placed(h, q, L, U, W)
    PROVE  /\ Nodes(h, h.tasks) # {} => h.tasks \in Nodes(h, h.tasks)
           /\ Nodes(h, h.paused) # {} => h.paused \in Nodes(h, h.paused)
           /\ q # NULL => q \in Nodes(h, q)
<1> PICK C : ListsAre(h, q, L, U, W, C)
  BY PlacedLists
<1>1. /\ HeapSorted(h, q, C, L) /\ ToSet(C["tasks"]) = Nodes(h, h.tasks)
      /\ ToSet(C["paused"]) = Nodes(h, h.paused) /\ ToSet(C["pending"]) = Nodes(h, q)
  BY Zenon DEF ListsAre, Outcome
<1>2. \A l \in Places : Chain(h.vm, HeadsOf(h, q)[l], C[l])
  BY <1>1, HeapSortedIs, Zenon
<1>3. /\ "tasks" \in Places /\ "paused" \in Places /\ "pending" \in Places
      /\ HeadsOf(h, q)["tasks"] = h.tasks /\ HeadsOf(h, q)["paused"] = h.paused
      /\ HeadsOf(h, q)["pending"] = q
  BY HeadsAre
<1>4. /\ Chain(h.vm, h.tasks, C["tasks"]) /\ Chain(h.vm, h.paused, C["paused"])
      /\ Chain(h.vm, q, C["pending"])
  BY <1>2, <1>3, Zenon
<1>5. ASSUME NEW head, NEW s, Chain(h.vm, head, s), ToSet(s) # {} PROVE head \in ToSet(s)
  <2>1. s # <<>>
    BY <1>5, EmptyChain
  <2>2. head = NULL <=> s = <<>>
    BY <1>5, ChainHead
  <2>3. head # NULL => head \in ToSet(s)
    BY <1>5, ChainHead
  <2> QED BY <2>1, <2>2, <2>3
<1>6. q # NULL => q \in ToSet(C["pending"])
  BY <1>4, ChainHead, Zenon
<1> QED BY <1>1, <1>4, <1>5, <1>6, Zenon

(* task_resume takes n out of the tasks list.                                *)
LEMMA ResumePlaced ==
    ASSUME NEW h, NEW q, NEW L, NEW U, NEW W, Placed(h, q, L, U, W), CanPark(h), cur \in Globals,
           NEW n \in Nodes(h, h.tasks), h.vm[h.tasks].next # n
    PROVE  LET h2 == Added(Removed(Parked(h, FALSE), "tasks", n), "vmstore", n) IN
           /\ Placed(h2, q, L \cup {Taken(h)}, (U \cup {Taken(h)}) \ {n}, W)
           /\ Parks(h.vm, h2.vm, U, Taken(h), FALSE)
<1> PICK v : v = Taken(h)
  OBVIOUS
<1> PICK h1 : h1 = Parked(h, FALSE)
  OBVIOUS
<1>1. /\ Placed(h1, q, L \cup {v}, U \cup {v}, W) /\ Parks(h.vm, h1.vm, U, v, FALSE)
      /\ h1.tasks = h.tasks /\ Nodes(h1, h.tasks) = Nodes(h, h.tasks) /\ SameOn(h.vm, h1.vm, U)
  <2>1. /\ Placed(Parked(h, FALSE), q, L \cup {Taken(h)}, U \cup {Taken(h)}, W)
        /\ Parked(h, FALSE).tasks = h.tasks
        /\ Nodes(Parked(h, FALSE), h.tasks) = Nodes(h, h.tasks)
    BY ParkedPlaced
  <2>2. /\ Parks(h.vm, Parked(h, FALSE).vm, U, Taken(h), FALSE)
        /\ SameOn(h.vm, Parked(h, FALSE).vm, U)
    BY ParkedParks
  <2> QED BY <2>1, <2>2
<1>2. U \subseteq VMs /\ Nodes(h, h.tasks) \subseteq U /\ Nodes(h, h.tasks) \cap (L \cup W) = {}
  BY PlacedIs
<1>3. h.tasks \in U
  <2>1. h.tasks \in Nodes(h, h.tasks)
    BY HeadsIn
  <2> QED BY <1>2, <2>1
<1>4. n \in Nodes(h1, h1.tasks) /\ h1.vm[h1.tasks].next # n
  BY <1>1, <1>3 DEF SameOn
<1> PICK h2 : h2 = Removed(h1, "tasks", n)
  OBVIOUS
<1>5. Placed(h2, q, (L \cup {v}) \cup {n}, U \cup {v}, W) /\ Alike(h1.vm, h2.vm)
  BY <1>1, <1>4, RemovedPlaced
<1>6. n \in (L \cup {v}) \cup {n} /\ ((L \cup {v}) \cup {n}) \ {n} = L \cup {v}
  <2>1. n # v /\ n \notin L
    BY <1>1, <1>2 DEF Parks
  <2> QED BY <2>1
<1>7. /\ Placed(Added(h2, "vmstore", n), q, ((L \cup {v}) \cup {n}) \ {n}, (U \cup {v}) \ {n}, W)
      /\ Alike(h2.vm, Added(h2, "vmstore", n).vm)
  BY <1>5, <1>6, AddedPlaced, Zenon
<1>8. Parks(h.vm, h2.vm, U, v, FALSE)
  BY <1>1, <1>2, <1>5, ParksAlike, Zenon
<1>9. Parks(h.vm, Added(h2, "vmstore", n).vm, U, v, FALSE)
  BY <1>2, <1>7, <1>8, ParksAlike, Zenon
<1> QED BY <1>6, <1>7, <1>9

(* task_cancel takes n out of either list and gives back two VMStates.     *)
LEMMA CancelWaiting ==
    ASSUME NEW h, NEW q, NEW L, NEW U, NEW W, Placed(h, q, L, U, W), CanPark(h), cur \in Globals,
           NEW n \in Nodes(h, h.tasks), h.vm[h.tasks].next # n
    PROVE  LET h2 == Added(Added(Removed(Parked(h, FALSE), "tasks", n), "vmstore", n), "vmstore", Taken(h)) IN
           Placed(h2, q, L, U \ {n}, W \ {n}) /\ AgreeOn(h.vm, h2.vm, U)
<1> PICK v : v = Taken(h)
  OBVIOUS
<1> PICK h1 : h1 = Parked(h, FALSE)
  OBVIOUS
<1>1. /\ Placed(h1, q, L \cup {v}, U \cup {v}, W) /\ Parks(h.vm, h1.vm, U, v, FALSE)
      /\ h1.tasks = h.tasks /\ Nodes(h1, h.tasks) = Nodes(h, h.tasks) /\ SameOn(h.vm, h1.vm, U)
      /\ v \notin L /\ v \notin W
  <2>1. /\ Placed(Parked(h, FALSE), q, L \cup {Taken(h)}, U \cup {Taken(h)}, W)
        /\ Parked(h, FALSE).tasks = h.tasks
        /\ Nodes(Parked(h, FALSE), h.tasks) = Nodes(h, h.tasks)
    BY ParkedPlaced
  <2>2. /\ Parks(h.vm, Parked(h, FALSE).vm, U, Taken(h), FALSE) /\ Taken(h) \notin L /\ Taken(h) \notin W
        /\ SameOn(h.vm, Parked(h, FALSE).vm, U)
    BY ParkedParks
  <2> QED BY <2>1, <2>2
<1>2. U \subseteq VMs /\ Nodes(h, h.tasks) \subseteq U /\ n \notin L /\ n \notin W
  BY PlacedIs
<1>3. h.tasks \in U
  <2>1. h.tasks \in Nodes(h, h.tasks)
    BY HeadsIn
  <2> QED BY <1>2, <2>1
<1>4. n \in Nodes(h1, h1.tasks) /\ h1.vm[h1.tasks].next # n
  BY <1>1, <1>3 DEF SameOn
<1> PICK h2 : h2 = Removed(h1, "tasks", n)
  OBVIOUS
<1>5. Placed(h2, q, (L \cup {v}) \cup {n}, U \cup {v}, W) /\ Alike(h1.vm, h2.vm)
  BY <1>1, <1>4, RemovedPlaced
<1>6. n # v /\ v \notin U /\ n \in U
  BY <1>1, <1>2 DEF Parks
<1>7. n \in (L \cup {v}) \cup {n} /\ ((L \cup {v}) \cup {n}) \ {n} = L \cup {v}
  BY <1>2, <1>6
<1> PICK h3 : h3 = Added(h2, "vmstore", n)
  OBVIOUS
<1>8. /\ Placed(h3, q, ((L \cup {v}) \cup {n}) \ {n}, (U \cup {v}) \ {n}, W)
      /\ Alike(h2.vm, h3.vm)
  BY <1>5, <1>7, AddedPlaced, Zenon
<1>9. Placed(h3, q, L \cup {v}, (U \cup {v}) \ {n}, W)
  BY <1>7, <1>8
<1>10. v \in L \cup {v} /\ (L \cup {v}) \ {v} = L /\ ((U \cup {v}) \ {n}) \ {v} = U \ {n} /\ W = W \ {n}
  BY <1>1, <1>2, <1>6
<1>11. /\ Placed(Added(h3, "vmstore", v), q, (L \cup {v}) \ {v}, ((U \cup {v}) \ {n}) \ {v}, W)
       /\ Alike(h3.vm, Added(h3, "vmstore", v).vm)
  BY <1>9, <1>10, AddedPlaced, Zenon
<1>12. Parks(h.vm, h2.vm, U, v, FALSE)
  BY <1>1, <1>2, <1>5, ParksAlike, Zenon
<1>13. Parks(h.vm, h3.vm, U, v, FALSE)
  BY <1>2, <1>8, <1>12, ParksAlike, Zenon
<1>14. Parks(h.vm, Added(h3, "vmstore", v).vm, U, v, FALSE)
  BY <1>2, <1>11, <1>13, ParksAlike, Zenon
<1> QED BY <1>10, <1>11, <1>14 DEF Parks

LEMMA CancelPaused ==
    ASSUME NEW h, NEW q, NEW L, NEW U, NEW W, Placed(h, q, L, U, W), CanPark(h), cur \in Globals,
           NEW n \in Nodes(h, h.paused), h.vm[h.paused].next # n
    PROVE  LET h2 == Added(Added(Removed(Parked(h, FALSE), "paused", n), "vmstore", n), "vmstore", Taken(h)) IN
           Placed(h2, q, L, U \ {n}, W \ {n}) /\ AgreeOn(h.vm, h2.vm, U)
<1> PICK v : v = Taken(h)
  OBVIOUS
<1> PICK h1 : h1 = Parked(h, FALSE)
  OBVIOUS
<1>1. /\ Placed(h1, q, L \cup {v}, U \cup {v}, W) /\ Parks(h.vm, h1.vm, U, v, FALSE)
      /\ h1.paused = h.paused /\ Nodes(h1, h.paused) = Nodes(h, h.paused) /\ SameOn(h.vm, h1.vm, U)
      /\ v \notin L /\ v \notin W
  <2>1. /\ Placed(Parked(h, FALSE), q, L \cup {Taken(h)}, U \cup {Taken(h)}, W)
        /\ Parked(h, FALSE).paused = h.paused
        /\ Nodes(Parked(h, FALSE), h.paused) = Nodes(h, h.paused)
    BY ParkedPlaced
  <2>2. /\ Parks(h.vm, Parked(h, FALSE).vm, U, Taken(h), FALSE) /\ Taken(h) \notin L /\ Taken(h) \notin W
        /\ SameOn(h.vm, Parked(h, FALSE).vm, U)
    BY ParkedParks
  <2> QED BY <2>1, <2>2
<1>2. U \subseteq VMs /\ Nodes(h, h.paused) \subseteq U /\ n \notin L 
  BY PlacedIs
<1>3. h.paused \in U
  <2>1. h.paused \in Nodes(h, h.paused)
    BY HeadsIn
  <2> QED BY <1>2, <2>1
<1>4. n \in Nodes(h1, h1.paused) /\ h1.vm[h1.paused].next # n
  BY <1>1, <1>3 DEF SameOn
<1> PICK h2 : h2 = Removed(h1, "paused", n)
  OBVIOUS
<1>5. Placed(h2, q, (L \cup {v}) \cup {n}, U \cup {v}, W \ {n}) /\ Alike(h1.vm, h2.vm)
  BY <1>1, <1>4, RemovedPlaced
<1>6. n # v /\ v \notin U /\ n \in U
  BY <1>1, <1>2 DEF Parks
<1>7. n \in (L \cup {v}) \cup {n} /\ ((L \cup {v}) \cup {n}) \ {n} = L \cup {v}
  BY <1>2, <1>6
<1> PICK h3 : h3 = Added(h2, "vmstore", n)
  OBVIOUS
<1>8. /\ Placed(h3, q, ((L \cup {v}) \cup {n}) \ {n}, (U \cup {v}) \ {n}, W \ {n})
      /\ Alike(h2.vm, h3.vm)
  BY <1>5, <1>7, AddedPlaced, Zenon
<1>9. Placed(h3, q, L \cup {v}, (U \cup {v}) \ {n}, W \ {n})
  BY <1>7, <1>8
<1>10. v \in L \cup {v} /\ (L \cup {v}) \ {v} = L /\ ((U \cup {v}) \ {n}) \ {v} = U \ {n} /\ W \ {n} = W \ {n}
  BY <1>1, <1>2, <1>6
<1>11. /\ Placed(Added(h3, "vmstore", v), q, (L \cup {v}) \ {v}, ((U \cup {v}) \ {n}) \ {v}, W \ {n})
       /\ Alike(h3.vm, Added(h3, "vmstore", v).vm)
  BY <1>9, <1>10, AddedPlaced, Zenon
<1>12. Parks(h.vm, h2.vm, U, v, FALSE)
  BY <1>1, <1>2, <1>5, ParksAlike, Zenon
<1>13. Parks(h.vm, h3.vm, U, v, FALSE)
  BY <1>2, <1>8, <1>12, ParksAlike, Zenon
<1>14. Parks(h.vm, Added(h3, "vmstore", v).vm, U, v, FALSE)
  BY <1>2, <1>11, <1>13, ParksAlike, Zenon
<1> QED BY <1>10, <1>11, <1>14 DEF Parks

(* A caller of execute() gives its VMState back.                             *)
LEMMA GivenBackPlaced ==
    ASSUME NEW h, NEW q, NEW L, NEW U, NEW W, Placed(h, q, L, U, W), NEW v \in L
    PROVE  /\ Placed(Added(h, "vmstore", v), q, L \ {v}, U \ {v}, W \ {v})
           /\ AgreeOn(h.vm, Added(h, "vmstore", v).vm, U)
<1>1. Placed(Added(h, "vmstore", v), q, L \ {v}, U \ {v}, W) /\ Alike(h.vm, Added(h, "vmstore", v).vm)
  BY AddedPlaced
<1>2. U \subseteq VMs /\ W \ {v} = W
  BY PlacedIs
<1>3. AgreeOn(h.vm, Added(h, "vmstore", v).vm, U)
  BY <1>1, <1>2 DEF AgreeOn, Alike
<1> QED BY <1>1, <1>2, <1>3

(* run_paused_tasks goes on to the next VMState of its list.                 *)
LEMMA NextPlaced ==
    ASSUME NEW h, NEW v, NEW L, NEW U, NEW W, Placed(h, v, L, U, W), v # NULL
    PROVE  /\ Placed(Added(h, "vmstore", v), h.vm[v].next, L, U \ {v}, W \ {v})
           /\ AgreeOn(h.vm, Added(h, "vmstore", v).vm, U)
           /\ v \in W /\ v \in VMs
<1> PICK C : ListsAre(h, v, L, U, W, C)
  BY PlacedLists
<1>1. /\ HeapSorted(h, v, C, L) /\ U = Used(h, C) /\ W = Pausing(C)
      /\ ToSet(C["pending"]) = Nodes(h, v)
  BY Zenon DEF ListsAre, Outcome
<1> PICK n : n = h.vm[v].next
  OBVIOUS
<1> PICK D : D = Put(C, "pending", Tail(C["pending"]))
  OBVIOUS
<1>2. /\ h \in Heaps /\ Sorted(h.vm, HeadsOf(h, v), C, L, h.allocated) /\ DOMAIN C = Places
  BY <1>1, HeapSortedIs
<1>3. "pending" \in Places /\ HeadsOf(h, v)["pending"] = v /\ "paused" \in Places
  BY HeadsAre
<1>4. Took(h.vm, h.vm, HeadsOf(h, v), C, L, h.allocated, "pending")
  <2>1. Taking(h.vm, h.vm, HeadsOf(h, v), C, L, h.allocated, "pending")
    BY <1>2, <1>3 DEF Taking, OnlyAt
  <2> QED BY <2>1, SortedTaken, Zenon
<1>5. /\ Sorted(h.vm, Put(HeadsOf(h, v), "pending", n), D, L \cup {v}, h.allocated)
      /\ ToSet(Tail(C["pending"])) = ToSet(C["pending"]) \ {v}
      /\ v \in ToSet(C["pending"]) /\ v \in VMs /\ v \notin L
  BY <1>3, <1>4 DEF Took
<1>6. HeadsOf(h, n) = Put(HeadsOf(h, v), "pending", n)
  BY HeadsChange
<1>7. HeapSorted(h, n, D, L \cup {v})
  BY <1>2, <1>5, <1>6, Zenon DEF HeapSorted
<1>8. Pausing(D) = ToSet(C["paused"]) \cup ToSet(Tail(C["pending"])) /\ D["vmstore"] = C["vmstore"]
  BY <1>2, <1>3, SetsChange
<1>9. ToSet(C["paused"]) \cap ToSet(C["pending"]) = {}
  <2>1. \A l, m \in Places : l # m => ToSet(C[l]) \cap ToSet(C[m]) = {}
    BY <1>2, Zenon DEF Sorted
  <2>2. "paused" # "pending"
    OBVIOUS
  <2> QED BY <1>3, <2>1, <2>2, Zenon
<1>10. Pausing(D) = W \ {v} /\ Used(h, D) = U /\ v \in W
  BY <1>1, <1>5, <1>8, <1>9 DEF Pausing, Used
<1>11. Placed(h, n, L \cup {v}, U, W \ {v})
  BY <1>7, <1>10, Zenon DEF Placed, Outcome
<1>12. v \in L \cup {v} /\ (L \cup {v}) \ {v} = L
  BY <1>5
<1>13. /\ Placed(Added(h, "vmstore", v), n, (L \cup {v}) \ {v}, U \ {v}, W \ {v})
       /\ Alike(h.vm, Added(h, "vmstore", v).vm)
  BY <1>11, <1>12, AddedPlaced, Zenon
<1>14. AgreeOn(h.vm, Added(h, "vmstore", v).vm, U)
  <2>1. U \subseteq VMs
    BY PlacedIs
  <2> QED BY <1>13, <2>1 DEF AgreeOn, Alike
<1> QED BY <1>5, <1>10, <1>12, <1>13, <1>14

LEMMA EmptyFromNull ==
    ASSUME NEW vm, NEW s, Chain(vm, NULL, s)
    PROVE  s = <<>>
BY ChainHead

(* run_paused_tasks parks the globals and takes the paused list.             *)
LEMMA TakeAllPlaced ==
    ASSUME NEW h, NEW L, NEW U, NEW W, Placed(h, NULL, L, U, W), CanPark(h), cur \in Globals
    PROVE  LET h2 == [Parked(h, FALSE) EXCEPT !.paused = NULL] IN
           /\ Placed(h2, h.paused, L \cup {Taken(h)}, U \cup {Taken(h)}, W)
           /\ Parks(h.vm, h2.vm, U, Taken(h), FALSE)
<1> PICK v : v = Taken(h)
  OBVIOUS
<1> PICK h1 : h1 = Parked(h, FALSE)
  OBVIOUS
<1> PICK h2 : h2 = [h1 EXCEPT !.paused = NULL]
  OBVIOUS
<1>1. /\ Placed(h1, NULL, L \cup {v}, U \cup {v}, W) /\ Parks(h.vm, h1.vm, U, v, FALSE)
      /\ h1.paused = h.paused
  <2>1. /\ Placed(Parked(h, FALSE), NULL, L \cup {Taken(h)}, U \cup {Taken(h)}, W)
        /\ Parked(h, FALSE).paused = h.paused
    BY ParkedPlaced
  <2>2. Parks(h.vm, Parked(h, FALSE).vm, U, Taken(h), FALSE)
    BY ParkedParks
  <2> QED BY <2>1, <2>2
<1> PICK C : ListsAre(h1, NULL, L \cup {v}, U \cup {v}, W, C)
  BY <1>1, PlacedLists
<1>2. /\ HeapSorted(h1, NULL, C, L \cup {v}) /\ U \cup {v} = Used(h1, C) /\ W = Pausing(C)
  BY Zenon DEF ListsAre, Outcome
<1> PICK D : D = Put(Put(C, "pending", C["paused"]), "paused", <<>>)
  OBVIOUS
<1>3. /\ h1 \in Heaps /\ Sorted(h1.vm, HeadsOf(h1, NULL), C, L \cup {v}, h1.allocated) /\ DOMAIN C = Places
      /\ \A l \in Places : Chain(h1.vm, HeadsOf(h1, NULL)[l], C[l])
  BY <1>2, HeapSortedIs
<1>4. HeadsOf(h1, NULL)["pending"] = NULL /\ HeadsOf(h1, NULL)["paused"] = h1.paused
      /\ "pending" \in Places /\ "paused" \in Places /\ "vmstore" \in Places
  BY HeadsAre
<1> DEFINE heads2 == Put(Put(HeadsOf(h1, NULL), "pending", HeadsOf(h1, NULL)["paused"]), "paused", NULL)
<1>5. Sorted(h1.vm, heads2, D, L \cup {v}, h1.allocated)
  BY <1>3, <1>4, SortedMoved
<1>6. /\ h2 \in Heaps /\ h2.vm = h1.vm /\ h2.paused = NULL /\ h2.tasks = h1.tasks
      /\ h2.vmstore = h1.vmstore /\ h2.allocated = h1.allocated
  BY <1>3 DEF Heaps
<1>7. HeadsOf(h2, h1.paused) = heads2
  <2>1. h2.tasks = h1.tasks /\ h2.vmstore = h1.vmstore /\ h2.paused = NULL
    BY <1>6
  <2> PICK p : p = h1.paused
    OBVIOUS
  <2>2. heads2 = Put(Put(HeadsOf(h1, NULL), "pending", p), "paused", NULL)
    BY <1>4, Zenon
  <2> HIDE DEF heads2
  <2>3. HeadsOf(h2, p) = heads2
    BY <2>1, <2>2 DEF HeadsOf, Put, Places
  <2> QED BY <2>3
<1> HIDE DEF heads2
<1>8. HeapSorted(h2, h1.paused, D, L \cup {v})
  BY <1>5, <1>6, <1>7, Zenon DEF HeapSorted
<1>9. C["pending"] = <<>>
  <2>1. Chain(h1.vm, NULL, C["pending"])
    BY <1>3, <1>4, Zenon
  <2> QED BY <2>1, EmptyFromNull, Zenon
<1>10. DOMAIN Put(C, "pending", C["paused"]) = Places
  BY <1>3, <1>4, PutIs
<1>11. D["pending"] = C["paused"] /\ D["paused"] = <<>> /\ D["vmstore"] = C["vmstore"]
  <2> PICK D1 : D1 = Put(C, "pending", C["paused"])
    OBVIOUS
  <2>1. D1["pending"] = C["paused"] /\ D1["vmstore"] = C["vmstore"]
    BY <1>3, <1>4, PutIs
  <2>2. D = Put(D1, "paused", <<>>) /\ DOMAIN D1 = Places
    BY <1>10
  <2>3. D["paused"] = <<>> /\ D["pending"] = D1["pending"] /\ D["vmstore"] = D1["vmstore"]
    BY <1>4, <2>2, PutIs
  <2> QED BY <2>1, <2>3
<1>12. Pausing(D) = W /\ Used(h2, D) = U \cup {v}
  BY <1>2, <1>6, <1>9, <1>11, EmptyChain DEF Pausing, Used
<1>13. Placed(h2, h1.paused, L \cup {v}, U \cup {v}, W)
  BY <1>8, <1>12, Zenon DEF Placed, Outcome
<1> QED BY <1>1, <1>6, <1>13

-----------------------------------------------------------------------------
LEMMA JoinedIs ==
    ASSUME NEW S, NEW a \in Seq(S), NEW b \in Seq(S), NEW k \in 1 .. Len(a \o b)
    PROVE  (a \o b)[k] \in ToSet(a) \cup ToSet(b)
<1>1. /\ Len(a \o b) = Len(a) + Len(b)
      /\ \A i \in 1 .. Len(a) + Len(b) : (a \o b)[i] = IF i <= Len(a) THEN a[i] ELSE b[i - Len(a)]
  BY ConcatProperties
<1>2. /\ Len(a) \in Nat /\ Len(b) \in Nat /\ DOMAIN a = 1 .. Len(a) /\ DOMAIN b = 1 .. Len(b)
  BY LenProperties
<1>3. k \in 1 .. Len(a) + Len(b)
  BY <1>1
<1> PICK c : c = a \o b
  OBVIOUS
<1>4. c[k] = IF k <= Len(a) THEN a[k] ELSE b[k - Len(a)]
  BY <1>1, <1>3
<1>5. CASE k <= Len(a)
  <2>1. k \in DOMAIN a /\ c[k] = a[k]
    BY <1>2, <1>3, <1>4, <1>5
  <2>2. c[k] \in ToSet(a)
    BY <2>1, Zenon DEF ToSet
  <2> QED BY <2>2
<1>6. CASE ~(k <= Len(a))
  <2>1. k - Len(a) \in DOMAIN b /\ c[k] = b[k - Len(a)]
    BY <1>2, <1>3, <1>4, <1>6
  <2>2. c[k] \in ToSet(b)
    BY <2>1, Zenon DEF ToSet
  <2> QED BY <2>2
<1> QED BY <1>5, <1>6

(* task_lookup finds a VMState of one of the two lists, if any.              *)
LEMMA LookupIs ==
    ASSUME NEW h, NEW q, NEW L, NEW U, NEW W, Placed(h, q, L, U, W), NEW tid, Lookup(h, tid) # NULL
    PROVE  Lookup(h, tid) \in Nodes(h, h.tasks) \cup Nodes(h, h.paused)
<1> PICK C : ListsAre(h, q, L, U, W, C)
  BY PlacedLists
<1>1. /\ HeapSorted(h, q, C, L) /\ ToSet(C["tasks"]) = Nodes(h, h.tasks)
      /\ ToSet(C["paused"]) = Nodes(h, h.paused)
  BY Zenon DEF ListsAre, Outcome
<1>2. \A l \in Places : Chain(h.vm, HeadsOf(h, q)[l], C[l])
  BY <1>1, HeapSortedIs, Zenon
<1>3. /\ "tasks" \in Places /\ "paused" \in Places
      /\ HeadsOf(h, q)["tasks"] = h.tasks /\ HeadsOf(h, q)["paused"] = h.paused
  BY HeadsAre
<1> PICK a : a = C["tasks"]
  OBVIOUS
<1> PICK b : b = C["paused"]
  OBVIOUS
<1>4. Chain(h.vm, h.tasks, a) /\ Chain(h.vm, h.paused, b)
  BY <1>2, <1>3, Zenon
<1>5. Walk(h, h.tasks) = a /\ Walk(h, h.paused) = b
  BY <1>4, WalkIs, Zenon
<1>6. a \in Seq(VMs) /\ b \in Seq(VMs)
  BY <1>4, Zenon DEF Chain
<1> PICK all : all = a \o b
  OBVIOUS
<1> DEFINE I == {i \in 1 .. Len(all) : h.vm[all[i]].tid = tid}
<1>7. Lookup(h, tid) = LET hits == IF I # {} THEN Min(I) ELSE 0
                       IN  IF hits = 0 THEN NULL ELSE all[hits]
  BY <1>5, Zenon DEF Lookup, SelectInSeq
<1>8. I # {}
  BY <1>7
<1>9. all \in Seq(VMs) /\ Len(all) \in Nat
  <2>1. all \in Seq(VMs)
    BY <1>6
  <2> QED BY <2>1, LenProperties
<1>10. I \in SUBSET Nat /\ I \subseteq 1 .. Len(all)
  <2>0. ASSUME NEW m \in Nat PROVE 1 .. m \subseteq Nat
    OBVIOUS
  <2>1. 1 .. Len(all) \subseteq Nat
    BY <1>9, <2>0, Zenon
  <2>2. I \subseteq 1 .. Len(all)
    OBVIOUS
  <2> HIDE DEF I
  <2> QED BY <2>1, <2>2
<1> HIDE DEF I
<1> PICK k : k = Min(I)
  OBVIOUS
<1>11. k \in 1 .. Len(all) /\ Lookup(h, tid) = all[k]
  <2>1. k \in I
    BY <1>8, <1>10, MinOfNaturals, Zenon
  <2>2. k \in 1 .. Len(all)
    BY <1>10, <2>1
  <2>3. k # 0
    BY <1>9, <2>2
  <2>4. Lookup(h, tid) = IF k = 0 THEN NULL ELSE all[k]
    BY <1>7, <1>8, Zenon
  <2> QED BY <2>2, <2>3, <2>4
<1>12. all[k] \in ToSet(a) \cup ToSet(b)
  <2>1. k \in 1 .. Len(a \o b)
    BY <1>11
  <2>2. (a \o b)[k] \in ToSet(a) \cup ToSet(b)
    BY <1>6, <2>1, JoinedIs, Zenon
  <2> QED BY <2>2
<1> QED BY <1>1, <1>11, <1>12

-----------------------------------------------------------------------------
(* Which task is where: t runs, the VMStates of U stand for others (or, at a *)
(* caller of execute() in L, for none), A are those with frames, n the last. *)
Tasked(vm, t, A, n, U, L, W) ==
    /\ t \in TaskNo \cup {None}
    /\ \A v \in U : vm[v].task \in TaskNo \cup {None}
    /\ \A v \in U : v \notin L => vm[v].task # None
    /\ \A v \in U : vm[v].paused <=> v \in W
    /\ \A v, w \in U : v # w /\ vm[v].task = vm[w].task => vm[v].task = None
    /\ \A v \in U : vm[v].task = t => t = None
    /\ \A x \in A : x \in TaskNo /\ x <= n
    /\ \A x \in TaskNo : x \in A <=> (t = x \/ \E v \in U : vm[v].task = x)

Alive(fs) == {x \in TaskNo : fs[x] # <<>>}

LEMMA TaskedAgree ==
    ASSUME NEW vm, NEW vm2, NEW t, NEW A, NEW n, NEW U, NEW L, NEW W,
           Tasked(vm, t, A, n, U, L, W), AgreeOn(vm, vm2, U)
    PROVE  Tasked(vm2, t, A, n, U, L, W)
<1>1. \A v \in U : vm2[v].task = vm[v].task /\ vm2[v].paused = vm[v].paused
  BY Zenon DEF AgreeOn
<1>2. \A x \in TaskNo : (\E v \in U : vm[v].task = x) <=> (\E v \in U : vm2[v].task = x)
  BY <1>1
<1>3. \A x \in TaskNo : x \in A <=> (t = x \/ \E v \in U : vm2[v].task = x)
  BY <1>2, Zenon DEF Tasked
<1> QED BY <1>1, <1>3 DEF Tasked

(* Only what L and W have of U matters.                                      *)
Same(A, B, U) == \A v \in U : v \in A <=> v \in B

LEMMA TaskedSets ==
    ASSUME NEW vm, NEW t, NEW A, NEW n, NEW U, NEW L, NEW W, Tasked(vm, t, A, n, U, L, W),
           NEW L2, NEW W2, Same(L, L2, U), Same(W, W2, U)
    PROVE  Tasked(vm, t, A, n, U, L2, W2)
BY DEF Same, Tasked

LEMMA TaskedParked ==
    ASSUME NEW vm, NEW vm2, NEW A, NEW n, NEW U, NEW L, NEW W, Tasked(vm, cur.task, A, n, U, L, W),
           NEW v, NEW b \in BOOLEAN, Parks(vm, vm2, U, v, b),
           NEW L2, NEW W2, L \subseteq L2, Same(W, W2, U), b <=> v \in W2, cur.task # None \/ v \in L2
    PROVE  Tasked(vm2, None, A, n, U \cup {v}, L2, W2)
<1> PICK t : t = cur.task
  OBVIOUS
<1>1. /\ v \notin U /\ vm2[v].task = t /\ vm2[v].paused = b
      /\ \A w \in U : vm2[w].task = vm[w].task /\ vm2[w].paused = vm[w].paused
  BY DEF Parks, AgreeOn, Holds
<1>2. /\ t \in TaskNo \cup {None}
      /\ \A w \in U : vm[w].task \in TaskNo \cup {None}
      /\ \A w \in U : w \notin L => vm[w].task # None
      /\ \A w \in U : vm[w].paused <=> w \in W
      /\ \A w, u \in U : w # u /\ vm[w].task = vm[u].task => vm[w].task = None
      /\ \A w \in U : vm[w].task = t => t = None
      /\ \A x \in A : x \in TaskNo /\ x <= n
      /\ \A x \in TaskNo : x \in A <=> (t = x \/ \E w \in U : vm[w].task = x)
  BY Zenon DEF Tasked
<1>3. \A w \in U \cup {v} : vm2[w].task \in TaskNo \cup {None}
  BY <1>1, <1>2
<1>4. \A w \in U \cup {v} : w \notin L2 => vm2[w].task # None
  BY <1>1, <1>2
<1>5. \A w \in U \cup {v} : vm2[w].paused <=> w \in W2
  BY <1>1, <1>2, Zenon DEF Same
<1>6. \A w, u \in U \cup {v} : w # u /\ vm2[w].task = vm2[u].task => vm2[w].task = None
  BY <1>1, <1>2
<1>7. \A x \in TaskNo : x \in A <=> (None = x \/ \E w \in U \cup {v} : vm2[w].task = x)
  <2>1. ASSUME NEW x \in TaskNo PROVE (t = x \/ \E w \in U : vm[w].task = x) <=> \E w \in U \cup {v} : vm2[w].task = x
    BY <1>1
  <2>2. ASSUME NEW x \in TaskNo PROVE None # x
    BY Numbers
  <2> QED BY <1>2, <2>1, <2>2, Zenon
<1> QED BY <1>2, <1>3, <1>4, <1>5, <1>6, <1>7 DEF Tasked

LEMMA TaskedRestored ==
    ASSUME NEW vm, NEW A, NEW n, NEW U, NEW L, NEW W, Tasked(vm, None, A, n, U, L, W), NEW v \in U
    PROVE  Tasked(vm, vm[v].task, A, n, U \ {v}, L, W)
<1> PICK t : t = vm[v].task
  OBVIOUS
<1>1. /\ t \in TaskNo \cup {None}
      /\ \A w \in U : vm[w].task \in TaskNo \cup {None}
      /\ \A w \in U : w \notin L => vm[w].task # None
      /\ \A w \in U : vm[w].paused <=> w \in W
      /\ \A w, u \in U : w # u /\ vm[w].task = vm[u].task => vm[w].task = None
      /\ \A x \in A : x \in TaskNo /\ x <= n
      /\ \A x \in TaskNo : x \in A <=> (None = x \/ \E w \in U : vm[w].task = x)
  BY DEF Tasked
<1>2. \A w \in U \ {v} : vm[w].task = t => t = None
  BY <1>1
<1>3. \A x \in TaskNo : x \in A <=> (t = x \/ \E w \in U \ {v} : vm[w].task = x)
  <2>1. ASSUME NEW x \in TaskNo PROVE (t = x \/ \E w \in U \ {v} : vm[w].task = x) <=> \E w \in U : vm[w].task = x
    OBVIOUS
  <2>2. ASSUME NEW x \in TaskNo PROVE None # x
    BY Numbers
  <2> QED BY <1>1, <2>1, <2>2, Zenon
<1>4. Tasked(vm, t, A, n, U \ {v}, L, W)
  BY <1>1, <1>2, <1>3 DEF Tasked
<1> QED BY <1>4

LEMMA TaskedDropped ==
    ASSUME NEW vm, NEW t, NEW A, NEW n, NEW U, NEW L, NEW W, Tasked(vm, t, A, n, U, L, W),
           NEW v \in U, v \notin L
    PROVE  Tasked(vm, t, A \ {vm[v].task}, n, U \ {v}, L, W) /\ vm[v].task \in A /\ vm[v].task # t
<1> PICK y : y = vm[v].task
  OBVIOUS
<1>1. /\ t \in TaskNo \cup {None}
      /\ \A w \in U : vm[w].task \in TaskNo \cup {None}
      /\ \A w \in U : w \notin L => vm[w].task # None
      /\ \A w \in U : vm[w].paused <=> w \in W
      /\ \A w, u \in U : w # u /\ vm[w].task = vm[u].task => vm[w].task = None
      /\ \A w \in U : vm[w].task = t => t = None
      /\ \A x \in A : x \in TaskNo /\ x <= n
      /\ \A x \in TaskNo : x \in A <=> (t = x \/ \E w \in U : vm[w].task = x)
  BY Zenon DEF Tasked
<1>2. y \in TaskNo /\ y # None /\ y # t
  BY <1>1
<1>3. \A w \in U \ {v} : vm[w].task # y
  BY <1>1, <1>2
<1>4. \A x \in TaskNo : x \in A \ {y} <=> (t = x \/ \E w \in U \ {v} : vm[w].task = x)
  <2>1. ASSUME NEW x \in TaskNo, x # y
        PROVE  (\E w \in U : vm[w].task = x) <=> \E w \in U \ {v} : vm[w].task = x
    BY <2>1
  <2>2. ASSUME NEW x \in TaskNo, x = y
        PROVE  x \notin A \ {y} /\ t # x /\ ~ \E w \in U \ {v} : vm[w].task = x
    BY <1>2, <1>3, <2>2
  <2>3. ASSUME NEW x, x # y PROVE x \in A \ {y} <=> x \in A
    BY <2>3
  <2> QED BY <1>1, <2>1, <2>2, <2>3, Zenon
<1>5. Tasked(vm, t, A \ {y}, n, U \ {v}, L, W)
  BY <1>1, <1>4 DEF Tasked
<1>6. y \in A
  BY <1>1, <1>2
<1> QED BY <1>2, <1>5, <1>6

LEMMA TaskedStarted ==
    ASSUME NEW vm, NEW A, NEW n \in Nat, NEW U, NEW L, NEW W, Tasked(vm, None, A, n, U, L, W),
           n + 1 \in TaskNo
    PROVE  Tasked(vm, n + 1, A \cup {n + 1}, n + 1, U, L, W)
<1> PICK t : t = n + 1
  OBVIOUS
<1>1. /\ \A w \in U : vm[w].task \in TaskNo \cup {None}
      /\ \A w \in U : w \notin L => vm[w].task # None
      /\ \A w \in U : vm[w].paused <=> w \in W
      /\ \A w, u \in U : w # u /\ vm[w].task = vm[u].task => vm[w].task = None
      /\ \A x \in A : x \in TaskNo /\ x <= n
      /\ \A x \in TaskNo : x \in A <=> (None = x \/ \E w \in U : vm[w].task = x)
  BY DEF Tasked
<1>2. t \notin A /\ t \in TaskNo /\ t # None
  <2>1. ~(t <= n)
    OBVIOUS
  <2> QED BY <1>1, <2>1, Numbers
<1>3. \A w \in U : vm[w].task # t
  BY <1>1, <1>2
<1>4. ASSUME NEW x \in A \cup {t} PROVE x \in TaskNo /\ x <= t
  <2>1. CASE x = t
    BY <1>2, <2>1
  <2>2. CASE x \in A
    <3>1. x \in TaskNo /\ x <= n
      BY <1>1, <2>2
    <3>2. x \in Int
      BY <3>1, Numbers
    <3> QED BY <3>1, <3>2
  <2> QED BY <2>1, <2>2
<1>5. \A x \in TaskNo : x \in A \cup {t} <=> (t = x \/ \E w \in U : vm[w].task = x)
  <2>1. \A x \in TaskNo : None # x
    BY Numbers
  <2>2. \A x : x \in A \cup {t} <=> (x \in A \/ x = t)
    OBVIOUS
  <2> QED BY <1>1, <2>1, <2>2, Zenon
<1>6. Tasked(vm, t, A \cup {t}, t, U, L, W)
  BY <1>1, <1>2, <1>3, <1>4, <1>5 DEF Tasked
<1> QED BY <1>6

LEMMA TaskedReturned ==
    ASSUME NEW vm, NEW t \in TaskNo, NEW A, NEW n, NEW U, NEW L, NEW W, Tasked(vm, t, A, n, U, L, W)
    PROVE  Tasked(vm, None, A \ {t}, n, U, L, W) /\ t \in A
<1>1. /\ \A w \in U : vm[w].task \in TaskNo \cup {None}
      /\ \A w \in U : w \notin L => vm[w].task # None
      /\ \A w \in U : vm[w].paused <=> w \in W
      /\ \A w, u \in U : w # u /\ vm[w].task = vm[u].task => vm[w].task = None
      /\ \A w \in U : vm[w].task = t => t = None
      /\ \A x \in A : x \in TaskNo /\ x <= n
      /\ \A x \in TaskNo : x \in A <=> (t = x \/ \E w \in U : vm[w].task = x)
  BY Zenon DEF Tasked
<1>2. t # None /\ \A x \in TaskNo : None # x
  BY Numbers
<1>3. \A w \in U : vm[w].task # t
  BY <1>1, <1>2
<1>4. \A x \in TaskNo : x \in A \ {t} <=> (None = x \/ \E w \in U : vm[w].task = x)
  <2>1. \A x : x \in A \ {t} <=> (x \in A /\ x # t)
    OBVIOUS
  <2> QED BY <1>1, <1>2, <1>3, <2>1, Zenon
<1>5. t \in A
  BY <1>1
<1> QED BY <1>1, <1>4, <1>5 DEF Tasked

-----------------------------------------------------------------------------
(* Which stack is where: s is the one in use, X = ToSet(store) are spare, m  *)
(* are allocated, and only the VMStates of Z may have s too.                 *)
Stacked(vm, s, store, m, U, Z) ==
    /\ m \in Nat /\ store \in Seq(Nat) /\ IsInjective(store) /\ ToSet(store) \subseteq 1 .. m
    /\ s \in 1 .. m /\ s \notin ToSet(store)
    /\ \A v \in U : vm[v].stack \in 1 .. m /\ vm[v].stack \notin ToSet(store)
    /\ \A v, w \in U : vm[v].stack = vm[w].stack => v = w
    /\ \A v \in U : vm[v].stack = s => v \in Z

LEMMA StackedAgree ==
    ASSUME NEW vm, NEW vm2, NEW s, NEW store, NEW m, NEW U, NEW Z,
           Stacked(vm, s, store, m, U, Z), AgreeOn(vm, vm2, U)
    PROVE  Stacked(vm2, s, store, m, U, Z)
BY DEF Stacked, AgreeOn

LEMMA StackedWider ==
    ASSUME NEW vm, NEW s, NEW store, NEW m, NEW U, NEW Z, NEW Z2,
           Stacked(vm, s, store, m, U, Z), \A v \in U : vm[v].stack = s /\ v \in Z => v \in Z2
    PROVE  Stacked(vm, s, store, m, U, Z2)
BY DEF Stacked

LEMMA StackedParked ==
    ASSUME NEW vm, NEW vm2, NEW store, NEW m, NEW U, Stacked(vm, cur.stack, store, m, U, {}),
           NEW v, NEW b, Parks(vm, vm2, U, v, b)
    PROVE  Stacked(vm2, cur.stack, store, m, U \cup {v}, {v})
<1> PICK s : s = cur.stack
  OBVIOUS
<1>1. /\ v \notin U /\ vm2[v].stack = s /\ \A w \in U : vm2[w].stack = vm[w].stack
  BY DEF Parks, AgreeOn, Holds
<1>2. /\ s \in 1 .. m /\ s \notin ToSet(store)
      /\ \A w \in U : vm[w].stack \in 1 .. m /\ vm[w].stack \notin ToSet(store)
      /\ \A w, u \in U : vm[w].stack = vm[u].stack => w = u
      /\ \A w \in U : vm[w].stack # s
  BY DEF Stacked
<1>3. /\ \A w \in U \cup {v} : vm2[w].stack \in 1 .. m /\ vm2[w].stack \notin ToSet(store)
      /\ \A w, u \in U \cup {v} : vm2[w].stack = vm2[u].stack => w = u
      /\ \A w \in U \cup {v} : vm2[w].stack = s => w \in {v}
  BY <1>1, <1>2
<1> QED BY <1>3 DEF Stacked

(* init_execute.                                                             *)
LEMMA StackedNew ==
    ASSUME NEW vm, NEW s, NEW U, NEW Z, Stacked(vm, s, stack_store, stacks, U, Z), InitExecute
    PROVE  Stacked(vm, NewStack, stack_store', stacks', U, {})
<1> PICK m : m = stacks
  OBVIOUS
<1> PICK store : store = stack_store
  OBVIOUS
<1>1. /\ m \in Nat /\ store \in Seq(Nat) /\ IsInjective(store) /\ ToSet(store) \subseteq 1 .. m
      /\ s \in 1 .. m /\ s \notin ToSet(store)
      /\ \A v \in U : vm[v].stack \in 1 .. m /\ vm[v].stack \notin ToSet(store)
      /\ \A v, w \in U : vm[v].stack = vm[w].stack => v = w
  BY DEF Stacked
<1>2. CASE store = <<>>
  <2>1. stack_store' = store /\ stacks' = m + 1 /\ NewStack = m + 1
    BY <1>2 DEF InitExecute, NewStack
  <2>2. 1 .. m \subseteq 1 .. m + 1 /\ m + 1 \in 1 .. m + 1 /\ m + 1 \notin 1 .. m /\ m + 1 \in Nat
    BY <1>1
  <2> PICK k : k = m + 1
    OBVIOUS
  <2>3. 1 .. m \subseteq 1 .. k /\ k \in 1 .. k /\ k \notin 1 .. m /\ k \in Nat
    BY <2>2
  <2>4. Stacked(vm, k, store, k, U, {})
    <3>1. k \notin ToSet(store) /\ ToSet(store) \subseteq 1 .. k
      BY <1>1, <2>3, Zenon
    <3>2. \A v \in U : vm[v].stack \in 1 .. k /\ vm[v].stack # k
      BY <1>1, <2>3, Zenon
    <3> QED BY <1>1, <2>3, <3>1, <3>2, Zenon DEF Stacked
  <2> QED BY <2>1, <2>4
<1>3. CASE store # <<>>
  <2>1. stack_store' = Tail(store) /\ stacks' = m /\ NewStack = Head(store)
    BY <1>3, Zenon DEF InitExecute, NewStack
  <2>2. /\ Head(store) \in ToSet(store) /\ Tail(store) \in Seq(Nat) /\ IsInjective(Tail(store))
        /\ ToSet(Tail(store)) = ToSet(store) \ {Head(store)}
    BY <1>1, <1>3, TakenIs, Zenon
  <2> PICK k : k = Head(store)
    OBVIOUS
  <2> PICK rest : rest = Tail(store)
    OBVIOUS
  <2>3. k \in ToSet(store) /\ rest \in Seq(Nat) /\ IsInjective(rest) /\ ToSet(rest) = ToSet(store) \ {k}
    BY <2>2
  <2> PICK X : X = ToSet(store)
    OBVIOUS
  <2>4. k \in 1 .. m /\ k \notin ToSet(rest) /\ ToSet(rest) \subseteq X
    BY <1>1, <2>3
  <2>5. \A v \in U : vm[v].stack \in 1 .. m /\ vm[v].stack \notin ToSet(rest) /\ vm[v].stack # k
    BY <1>1, <2>3, <2>4, Zenon
  <2>6. ToSet(rest) \subseteq 1 .. m
    BY <1>1, <2>4, Zenon
  <2>7. Stacked(vm, k, rest, m, U, {})
    BY <1>1, <2>3, <2>4, <2>5, <2>6, Zenon DEF Stacked
  <2> QED BY <2>1, <2>7
<1> QED BY <1>2, <1>3

LEMMA StackedRestored ==
    ASSUME NEW vm, NEW s, NEW store, NEW m, NEW U, NEW Z, Stacked(vm, s, store, m, U, Z), NEW v \in U
    PROVE  Stacked(vm, vm[v].stack, store, m, U \ {v}, {})
<1> PICK k : k = vm[v].stack
  OBVIOUS
<1>1. Stacked(vm, k, store, m, U \ {v}, {})
  BY DEF Stacked
<1> QED BY <1>1

LEMMA StackedGiven ==
    ASSUME NEW vm, NEW s, NEW store, NEW m, NEW U, Stacked(vm, s, store, m, U, {}), NEW v \in U
    PROVE  /\ Stacked(vm, vm[v].stack, <<s>> \o store, m, U \ {v}, {})
           /\ Stacked(vm, s, <<vm[v].stack>> \o store, m, U \ {v}, {})
<1>1. /\ m \in Nat /\ store \in Seq(Nat) /\ IsInjective(store) /\ ToSet(store) \subseteq 1 .. m
      /\ s \in 1 .. m /\ s \notin ToSet(store)
      /\ \A w \in U : vm[w].stack \in 1 .. m /\ vm[w].stack \notin ToSet(store)
      /\ \A w, u \in U : vm[w].stack = vm[u].stack => w = u
      /\ \A w \in U : vm[w].stack # s
  BY DEF Stacked
<1>2. ASSUME NEW k \in 1 .. m, k \notin ToSet(store)
      PROVE  /\ <<k>> \o store \in Seq(Nat) /\ IsInjective(<<k>> \o store)
             /\ ToSet(<<k>> \o store) = {k} \cup ToSet(store)
             /\ ToSet(<<k>> \o store) \subseteq 1 .. m
  <2>1. k \in Nat
    BY <1>1
  <2>2. /\ <<k>> \o store \in Seq(Nat) /\ ToSet(<<k>> \o store) = {k} \cup ToSet(store)
        /\ IsInjective(<<k>> \o store)
    BY <1>1, <1>2, <2>1, PushedIs, Zenon
  <2> PICK X : X = ToSet(store)
    OBVIOUS
  <2>3. {k} \cup X \subseteq 1 .. m
    BY <1>1, <1>2
  <2> QED BY <2>2, <2>3
<1>3. ASSUME NEW k \in 1 .. m, NEW j \in 1 .. m, k \notin ToSet(store), j \notin ToSet(store), k # j,
             \A w \in U \ {v} : vm[w].stack # k /\ vm[w].stack # j
      PROVE  Stacked(vm, j, <<k>> \o store, m, U \ {v}, {})
  <2> PICK t : t = <<k>> \o store
    OBVIOUS
  <2>1. t \in Seq(Nat) /\ IsInjective(t) /\ ToSet(t) = {k} \cup ToSet(store) /\ ToSet(t) \subseteq 1 .. m
    BY <1>2, <1>3
  <2>2. j \notin ToSet(t) /\ \A w \in U \ {v} : vm[w].stack \notin ToSet(t)
    BY <1>1, <1>3, <2>1
  <2>3. Stacked(vm, j, t, m, U \ {v}, {})
    BY <1>1, <1>3, <2>1, <2>2 DEF Stacked
  <2> QED BY <2>3
<1>4. /\ vm[v].stack \in 1 .. m /\ vm[v].stack \notin ToSet(store) /\ vm[v].stack # s
      /\ \A w \in U \ {v} : vm[w].stack # vm[v].stack /\ vm[w].stack # s
  BY <1>1
<1> QED BY <1>1, <1>3, <1>4

-----------------------------------------------------------------------------
(* The callers of execute(): task or run_paused_tasks at the bottom, calls   *)
(* of task_resume above, each with a VMState of its own.                     *)
Calls == [kind : {"task", "paused", "resume"}, vm : VMs \cup {NULL}, next : VMs \cup {NULL}]
CallOf(c, bottom) ==
    /\ c.kind = "resume" <=> ~bottom
    /\ c.kind = "task" <=> c.vm = NULL
    /\ c.kind # "paused" => c.next = NULL
Called(cs) ==
    /\ cs \in Seq(Calls)
    /\ \A i \in 1 .. Len(cs) : CallOf(cs[i], i = 1)
    /\ \A i, j \in 1 .. Len(cs) : cs[i].vm = cs[j].vm => i = j
LocalsOf(cs) == {cs[i].vm : i \in 1 .. Len(cs)} \ {NULL}
PendOf(cs) == IF cs = <<>> THEN NULL ELSE cs[1].next

LEMMA FrontIs ==
    ASSUME NEW S, NEW s \in Seq(S), s # <<>>
    PROVE  /\ SubSeq(s, 1, Len(s) - 1) \in Seq(S) /\ Len(SubSeq(s, 1, Len(s) - 1)) = Len(s) - 1
           /\ \A i \in 1 .. Len(s) - 1 : SubSeq(s, 1, Len(s) - 1)[i] = s[i]
           /\ Len(s) \in Nat \ {0} /\ s[Len(s)] \in S
<1>1. Len(s) \in Nat /\ Len(s) > 0 /\ s \in [1 .. Len(s) -> S]
  BY EmptySeq, LenProperties
<1> PICK k : k = Len(s) - 1
  OBVIOUS
<1>2. k \in Nat /\ k < Len(s) /\ Len(s) \in 1 .. Len(s)
  BY <1>1
<1>3. CASE k = 0
  <2>1. SubSeq(s, 1, 0) = <<>>
    OBVIOUS
  <2> QED BY <1>1, <1>3, <2>1
<1>4. CASE k # 0
  <2>1. k \in 1 .. Len(s)
    BY <1>1, <1>2, <1>4
  <2>2. Part(s, k) = SubSeq(s, 1, k)
    BY <1>2, Zenon DEF Part
  <2>3. Part(s, k) \in Seq(S) /\ Len(Part(s, k)) = k /\ \A i \in 1 .. k : Part(s, k)[i] = s[i]
    BY <2>1, PartIs
  <2>4. SubSeq(s, 1, k) \in Seq(S) /\ Len(SubSeq(s, 1, k)) = k /\ \A i \in 1 .. k : SubSeq(s, 1, k)[i] = s[i]
    BY <2>2, <2>3
  <2> QED BY <1>1, <1>2, <2>4
<1> QED BY <1>3, <1>4

LEMMA NoneCalled == Called(<<>>) /\ LocalsOf(<<>>) = {} /\ PendOf(<<>>) = NULL
<1>1. <<>> \in Seq(Calls) /\ Len(<<>>) = 0 /\ 1 .. 0 = {}
  OBVIOUS
<1> QED BY <1>1 DEF Called, LocalsOf, PendOf

LEMMA OneCalled ==
    ASSUME NEW c \in Calls, CallOf(c, TRUE)
    PROVE  /\ Called(<<c>>) /\ LocalsOf(<<c>>) = {c.vm} \ {NULL} /\ PendOf(<<c>>) = c.next
           /\ Len(<<c>>) = 1 /\ <<c>> # <<>>
<1>1. <<c>> \in Seq(Calls) /\ Len(<<c>>) = 1 /\ <<c>>[1] = c /\ <<c>> # <<>> /\ 1 .. 1 = {1}
  OBVIOUS
<1> PICK s : s = <<c>>
  OBVIOUS
<1>2. s \in Seq(Calls) /\ Len(s) = 1 /\ s[1] = c /\ s # <<>>
  BY <1>1
<1>3. 1 .. Len(s) = {1}
  BY <1>1, <1>2
<1>4. CallOf(s[1], 1 = 1)
  BY <1>2
<1>5. Called(s)
  BY <1>2, <1>3, <1>4 DEF Called
<1>6. LocalsOf(s) = {c.vm} \ {NULL} /\ PendOf(s) = c.next
  BY <1>2, <1>3 DEF LocalsOf, PendOf
<1> QED BY <1>1, <1>5, <1>6

LEMMA MoreCalled ==
    ASSUME NEW cs, Called(cs), cs # <<>>, NEW c \in Calls, CallOf(c, FALSE),
           c.vm \in VMs, c.vm \notin LocalsOf(cs)
    PROVE  /\ Called(Append(cs, c)) /\ LocalsOf(Append(cs, c)) = LocalsOf(cs) \cup {c.vm}
           /\ PendOf(Append(cs, c)) = PendOf(cs) /\ Append(cs, c)[1] = cs[1]
           /\ Append(cs, c) # <<>> /\ Len(Append(cs, c)) # 1
<1>1. cs \in Seq(Calls) /\ Len(cs) \in Nat /\ Len(cs) > 0 /\ DOMAIN cs = 1 .. Len(cs)
  BY EmptySeq, LenProperties DEF Called
<1> PICK d : d = Append(cs, c)
  OBVIOUS
<1> PICK n : n = Len(cs)
  OBVIOUS
<1>2. d \in Seq(Calls) /\ Len(d) = n + 1 /\ (\A i \in 1 .. n : d[i] = cs[i]) /\ d[n + 1] = c
  BY <1>1, AppendProperties
<1>3. n \in Nat /\ n > 0 /\ 1 .. n + 1 = (1 .. n) \cup {n + 1} /\ n + 1 \notin 1 .. n /\ 1 \in 1 .. n /\ n + 1 # 1
  BY <1>1
<1>4. d[1] = cs[1] /\ d # <<>> /\ Len(d) # 1
  BY <1>2, <1>3, EmptySeq
<1>5. ASSUME NEW i \in 1 .. n + 1 PROVE CallOf(d[i], i = 1)
  <2>1. CASE i \in 1 .. n
    BY <1>2, <2>1, Zenon DEF Called
  <2>2. CASE i = n + 1
    <3>1. (i = 1) = FALSE
      BY <1>3, <2>2
    <3> QED BY <1>2, <2>2, <3>1
  <2> QED BY <1>3, <2>1, <2>2
<1>6. ASSUME NEW i \in 1 .. n PROVE cs[i].vm # c.vm
  BY Numbers DEF LocalsOf
<1>7. ASSUME NEW i \in 1 .. n + 1, NEW j \in 1 .. n + 1, d[i].vm = d[j].vm PROVE i = j
  <2>1. CASE i \in 1 .. n /\ j \in 1 .. n
    BY <1>2, <1>7, <2>1, Zenon DEF Called
  <2>2. CASE i = n + 1 /\ j = n + 1
    BY <2>2
  <2>3. CASE i = n + 1 /\ j \in 1 .. n
    BY <1>2, <1>6, <1>7, <2>3
  <2>4. CASE i \in 1 .. n /\ j = n + 1
    BY <1>2, <1>6, <1>7, <2>4
  <2> QED BY <1>3, <2>1, <2>2, <2>3, <2>4
<1>8. Called(d)
  BY <1>2, <1>5, <1>7 DEF Called
<1>9. LocalsOf(d) = LocalsOf(cs) \cup {c.vm}
  <2>1. {d[i].vm : i \in 1 .. n + 1} = {cs[i].vm : i \in 1 .. n} \cup {c.vm}
    BY <1>2, <1>3
  <2>2. c.vm # NULL
    BY Numbers
  <2> QED BY <1>2, <2>1, <2>2 DEF LocalsOf
<1>10. PendOf(d) = PendOf(cs)
  BY <1>4 DEF PendOf
<1> QED BY <1>4, <1>8, <1>9, <1>10

Below(cs) == SubSeq(cs, 1, Len(cs) - 1)
LEMMA LessCalled ==
    ASSUME NEW cs, Called(cs), cs # <<>>
    PROVE  /\ Called(Below(cs)) /\ LocalsOf(Below(cs)) = LocalsOf(cs) \ {cs[Len(cs)].vm}
           /\ cs[Len(cs)] \in Calls
           /\ cs[Len(cs)].kind # "task" => cs[Len(cs)].vm \in LocalsOf(cs)
           /\ cs[Len(cs)].kind = "task" => cs[Len(cs)].vm = NULL /\ cs[Len(cs)].next = NULL
           /\ cs[Len(cs)].kind = "resume" => /\ Below(cs) # <<>> /\ PendOf(Below(cs)) = PendOf(cs)
                                             /\ Below(cs)[1] = cs[1] /\ Len(cs) # 1
           /\ cs[Len(cs)].kind # "resume" => Below(cs) = <<>> /\ Len(cs) = 1
<1> PICK d : d = Below(cs)
  OBVIOUS
<1> PICK n : n = Len(cs)
  OBVIOUS
<1> PICK c : c = cs[n]
  OBVIOUS
<1>1. /\ cs \in Seq(Calls) /\ d \in Seq(Calls) /\ Len(d) = n - 1 /\ (\A i \in 1 .. n - 1 : d[i] = cs[i])
      /\ n \in Nat /\ n # 0 /\ c \in Calls
  BY FrontIs DEF Called, Below
<1>2. n - 1 \in Nat /\ 1 .. n = (1 .. n - 1) \cup {n} /\ n \notin 1 .. n - 1 /\ n \in 1 .. n /\ 1 \in 1 .. n
  BY <1>1
<1>3. CallOf(c, n = 1)
  BY <1>2, Zenon DEF Called
<1>4. \A i \in 1 .. n - 1 : cs[i].vm # c.vm
  <2>1. ASSUME NEW i \in 1 .. n - 1, cs[i].vm = cs[n].vm PROVE FALSE
    <3>1. i \in 1 .. n
      BY <1>2
    <3>2. i = n
      BY <1>2, <2>1, <3>1, Zenon DEF Called
    <3> QED BY <1>2, <3>2
  <2> QED BY <2>1
<1>5. Called(d)
  <2>1. ASSUME NEW i \in 1 .. n - 1 PROVE CallOf(d[i], i = 1)
    BY <1>1, <1>2, Zenon DEF Called
  <2>2. ASSUME NEW i \in 1 .. n - 1, NEW j \in 1 .. n - 1, d[i].vm = d[j].vm PROVE i = j
    BY <1>1, <1>2, <2>2, Zenon DEF Called
  <2> QED BY <1>1, <2>1, <2>2 DEF Called
<1>6. LocalsOf(d) = LocalsOf(cs) \ {c.vm}
  <2>1. {cs[i].vm : i \in 1 .. n} = {d[i].vm : i \in 1 .. n - 1} \cup {c.vm}
    BY <1>1, <1>2
  <2>2. c.vm \notin {d[i].vm : i \in 1 .. n - 1}
    BY <1>1, <1>4
  <2> QED BY <1>1, <2>1, <2>2 DEF LocalsOf
<1>7. /\ c.kind # "task" => c.vm \in LocalsOf(cs)
      /\ c.kind = "task" => c.vm = NULL /\ c.next = NULL
  BY <1>2, <1>3 DEF CallOf, LocalsOf
<1>8. CASE c.kind = "resume"
  <2>1. n # 1
    BY <1>3, <1>8 DEF CallOf
  <2>2. 1 \in 1 .. n - 1
    BY <1>1, <2>1
  <2>3. d[1] = cs[1] /\ d # <<>> /\ cs # <<>>
    <3>1. Len(d) # 0
      BY <1>1, <2>1
    <3> QED BY <1>1, <2>2, <3>1, EmptySeq
  <2>4. PendOf(d) = PendOf(cs)
    BY <2>3 DEF PendOf
  <2> QED BY <1>1, <1>5, <1>6, <1>7, <1>8, <2>1, <2>3, <2>4
<1>9. CASE c.kind # "resume"
  <2>1. n = 1
    BY <1>3, <1>9 DEF CallOf
  <2>2. d = <<>>
    BY <1>1, <2>1, EmptySeq
  <2> QED BY <1>1, <1>5, <1>6, <1>7, <1>9, <2>1, <2>2
<1> QED BY <1>8, <1>9

LEMMA WhatIsCalled ==
    ASSUME NEW cs, Called(cs)
    PROVE  /\ PendOf(cs) \in VMs \cup {NULL} /\ LocalsOf(cs) \subseteq VMs
           /\ {cs[i].vm : i \in DOMAIN cs} \ {NULL} = LocalsOf(cs)
           /\ \A i \in DOMAIN cs : cs[i].next = IF i = 1 THEN PendOf(cs) ELSE NULL
           /\ cs = <<>> \/ 1 \in DOMAIN cs
<1>1. cs \in Seq(Calls) /\ Len(cs) \in Nat /\ DOMAIN cs = 1 .. Len(cs) /\ cs \in [1 .. Len(cs) -> Calls]
  BY LenProperties DEF Called
<1>2. \A i \in 1 .. Len(cs) : CallOf(cs[i], i = 1)
  BY Zenon DEF Called
<1>3. cs # <<>> => 1 \in 1 .. Len(cs)
  BY <1>1, EmptySeq
<1>4. \A i \in 1 .. Len(cs) : cs[i].next \in VMs \cup {NULL} /\ cs[i].vm \in VMs \cup {NULL}
  BY <1>1 DEF Calls
<1>5. PendOf(cs) \in VMs \cup {NULL}
  BY <1>3, <1>4 DEF PendOf
<1>6. LocalsOf(cs) \subseteq VMs
  BY <1>4 DEF LocalsOf
<1>7. ASSUME NEW i \in 1 .. Len(cs) PROVE cs[i].next = IF i = 1 THEN PendOf(cs) ELSE NULL
  <2>1. cs # <<>>
    BY <1>1, EmptySeq
  <2>2. CallOf(cs[i], i = 1)
    BY <1>2
  <2> QED BY <2>1, <2>2 DEF CallOf, PendOf
<1> QED BY <1>1, <1>3, <1>5, <1>6, <1>7 DEF LocalsOf

-----------------------------------------------------------------------------
(* The inductive invariant.  run_paused_tasks keeps the stack in use until   *)
(* its first task (Lent), and was not called by a task (Bottom).             *)
LentOf(cs, t) == {v \in VMs : /\ Len(cs) = 1 /\ cs[1].kind = "paused" /\ cs[1].vm = v
                              /\ cs[1].next # NULL /\ t = None}
Bottom(vm, cs, t) ==
    /\ t # None => cs # <<>>
    /\ cs # <<>> /\ cs[1].kind = "paused" => vm[cs[1].vm].task = None

Sound(h, cs, c, fs, n, store, m, U, W) ==
    /\ Placed(h, PendOf(cs), LocalsOf(cs), U, W)
    /\ Tasked(h.vm, c.task, Alive(fs), n, U, LocalsOf(cs), W)
    /\ Stacked(h.vm, c.stack, store, m, U, LentOf(cs, c.task))
    /\ Called(cs) /\ Bottom(h.vm, cs, c.task)
    /\ c \in Globals /\ fs \in [TaskNo -> Seq(Nat)] /\ n \in Nat

Ordered == \E U, W : Sound(heap, callers, cur, frames, started, stack_store, stacks, U, W)
IInv == astray \/ Ordered

LEMMA SoundIs ==
    ASSUME NEW U, NEW W, Sound(heap, callers, cur, frames, started, stack_store, stacks, U, W)
    PROVE  /\ Placed(heap, PendOf(callers), LocalsOf(callers), U, W)
           /\ Tasked(heap.vm, cur.task, Alive(frames), started, U, LocalsOf(callers), W)
           /\ Stacked(heap.vm, cur.stack, stack_store, stacks, U, LentOf(callers, cur.task))
           /\ Called(callers) /\ Bottom(heap.vm, callers, cur.task)
           /\ cur \in Globals /\ frames \in [TaskNo -> Seq(Nat)] /\ started \in Nat
BY Zenon DEF Sound

LEMMA GlobalsAre ==
    ASSUME NEW c \in Globals
    PROVE  /\ c.task \in TaskNo \cup {None} /\ c.tid \in Int /\ c.stack \in Nat
           /\ \A t \in TaskNo \cup {None} : /\ [c EXCEPT !.task = t] \in Globals
                                            /\ [c EXCEPT !.task = t].task = t
                                            /\ [c EXCEPT !.task = t].stack = c.stack
           /\ [c EXCEPT !.tid = @ + 1] \in Globals
           /\ [c EXCEPT !.tid = @ + 1].task = c.task /\ [c EXCEPT !.tid = @ + 1].stack = c.stack
BY DEF Globals

LEMMA NoneLent ==
    ASSUME NEW cs, NEW t,
           cs = <<>> \/ t # None \/ cs[1].kind # "paused" \/ cs[1].next = NULL \/ Len(cs) # 1
    PROVE  LentOf(cs, t) = {}
<1>1. Len(<<>>) # 1
  OBVIOUS
<1> QED BY <1>1 DEF LentOf

LEMMA NotLent ==
    ASSUME NEW vm, NEW s, NEW store, NEW m, NEW U, NEW Z, Stacked(vm, s, store, m, U, {})
    PROVE  Stacked(vm, s, store, m, U, Z)
BY StackedWider

(* Frames.                                                                   *)
LEMMA AliveIs ==
    ASSUME NEW fs \in [TaskNo -> Seq(Nat)], NEW t \in TaskNo, NEW x \in Seq(Nat)
    PROVE  /\ [fs EXCEPT ![t] = x] \in [TaskNo -> Seq(Nat)]
           /\ Alive([fs EXCEPT ![t] = x]) = IF x = <<>> THEN Alive(fs) \ {t} ELSE Alive(fs) \cup {t}
<1> PICK gs : gs = [fs EXCEPT ![t] = x]
  OBVIOUS
<1>1. gs \in [TaskNo -> Seq(Nat)] /\ gs[t] = x /\ \A u \in TaskNo : u # t => gs[u] = fs[u]
  OBVIOUS
<1>2. CASE x = <<>>
  <2>1. Alive(gs) = Alive(fs) \ {t}
    BY <1>1, <1>2, Zenon DEF Alive
  <2> QED BY <1>1, <1>2, <2>1
<1>3. CASE x # <<>>
  <2>1. Alive(gs) = Alive(fs) \cup {t}
    BY <1>1, <1>3, Zenon DEF Alive
  <2> QED BY <1>1, <1>3, <2>1
<1> QED BY <1>2, <1>3

LEMMA TicksAre ==
    ASSUME NEW s \in Seq(Nat), s # <<>>, NEW n \in Nat
    PROVE  WithTicks(s, n) \in Seq(Nat) /\ WithTicks(s, n) # <<>>
<1>1. Len(s) \in Nat /\ Len(s) > 0 /\ DOMAIN s = 1 .. Len(s) /\ s \in [1 .. Len(s) -> Nat]
  BY EmptySeq, LenProperties
<1> PICK k : k = Len(s)
  OBVIOUS
<1>2. k \in 1 .. k /\ s \in [1 .. k -> Nat] /\ k \in Nat /\ k # 0
  BY <1>1
<1> PICK t : t = WithTicks(s, n)
  OBVIOUS
<1>3. t \in [1 .. k -> Nat]
  BY <1>2 DEF WithTicks
<1>4. t \in Seq(Nat) /\ Len(t) = k
  BY <1>2, <1>3, ListOf
<1>5. t # <<>>
  BY <1>2, <1>4, EmptySeq
<1> QED BY <1>4, <1>5

LEMMA SpentIs ==
    ASSUME MayExecute, frames \in [TaskNo -> Seq(Nat)], cur.task \in Alive(frames)
    PROVE  Spent \in Seq(Nat) /\ Spent # <<>> /\ cur.task \in TaskNo
<1>1. cur.task \in TaskNo /\ frames[cur.task] \in Seq(Nat) /\ frames[cur.task] # <<>>
  BY DEF Alive
<1>2. Last(frames[cur.task]) \in Nat
  BY <1>1, FrontIs DEF Last
<1>3. Last(frames[cur.task]) - 1 \in Nat
  BY <1>2 DEF MayExecute
<1> QED BY <1>1, <1>3, TicksAre, Zenon DEF Spent

LEMMA BottomLocal ==
    ASSUME NEW cs, Called(cs), cs # <<>>, cs[1].kind = "paused"
    PROVE  cs[1].vm \in LocalsOf(cs)
<1>1. 1 \in 1 .. Len(cs)
  <2>1. cs \in Seq(Calls)
    BY DEF Called
  <2> QED BY <2>1, EmptySeq, LenProperties
<1>2. CallOf(cs[1], 1 = 1)
  BY <1>1, Zenon DEF Called
<1> QED BY <1>1, <1>2 DEF CallOf, LocalsOf

-----------------------------------------------------------------------------
LEMMA InitIInv == Init => IInv
<1> SUFFICES ASSUME Init PROVE IInv
  OBVIOUS
<1>1. /\ heap = [vm |-> [v \in VMs |-> FreshVM], tasks |-> NULL, paused |-> NULL,
                 vmstore |-> NULL, allocated |-> 0]
      /\ cur = [task |-> None, tid |-> 1, stack |-> 1] /\ started = 0 /\ callers = <<>>
      /\ frames = [t \in TaskNo |-> <<>>] /\ stack_store = <<>> /\ stacks = 1
  BY Zenon DEF Init
<1> PICK C : C = [l \in Places |-> <<>>]
  OBVIOUS
<1>2. heap \in Heaps /\ heap.vm = [v \in VMs |-> FreshVM] /\ heap.allocated = 0
      /\ heap.tasks = NULL /\ heap.paused = NULL /\ heap.vmstore = NULL
  BY <1>1 DEF Heaps, VMStates, FreshVM, NULL, None
<1>3. Sorted(heap.vm, HeadsOf(heap, NULL), C, {}, 0)
  <2>1. \A l \in Places : HeadsOf(heap, NULL)[l] = NULL
    BY <1>2 DEF HeadsOf
  <2>2. \A l \in Places : C[l] = <<>>
    OBVIOUS
  <2>3. \A l \in Places : Chain(heap.vm, HeadsOf(heap, NULL)[l], C[l]) /\ ToSet(C[l]) = {}
    BY <2>1, <2>2, EmptyChain, Zenon
  <2>4. 0 \in 0 .. MaxVM /\ 1 .. 0 = {}
    BY Numbers
  <2>5. DOMAIN HeadsOf(heap, NULL) = Places /\ DOMAIN C = Places
    BY HeadsAre
  <2> QED BY <2>3, <2>4, <2>5 DEF Sorted
<1>4. "vmstore" \in Places /\ "paused" \in Places /\ "pending" \in Places
  BY HeadsAre
<1>5. Used(heap, C) = {} /\ Pausing(C) = {}
  <2>1. C["paused"] = <<>> /\ C["pending"] = <<>>
    BY <1>4
  <2>2. 1 .. 0 = {}
    OBVIOUS
  <2> QED BY <1>2, <2>1, <2>2, EmptyChain DEF Used, Pausing
<1>6. Placed(heap, NULL, {}, {}, {})
  BY <1>2, <1>3, <1>5, Zenon DEF Placed, Outcome, HeapSorted
<1>7. Called(callers) /\ LocalsOf(callers) = {} /\ PendOf(callers) = NULL
  BY <1>1, NoneCalled, Zenon
<1>8. cur \in Globals /\ cur.task = None /\ cur.stack = 1
  BY <1>1 DEF Globals, None
<1>9. frames \in [TaskNo -> Seq(Nat)] /\ Alive(frames) = {}
  BY <1>1 DEF Alive
<1>10. Tasked(heap.vm, cur.task, Alive(frames), started, {}, {}, {})
  <2>1. \A x \in TaskNo : None # x
    BY Numbers
  <2> QED BY <1>8, <1>9, <2>1 DEF Tasked
<1>11. Stacked(heap.vm, cur.stack, stack_store, stacks, {}, LentOf(callers, cur.task))
  <2>1. stack_store \in Seq(Nat) /\ IsInjective(stack_store) /\ ToSet(stack_store) = {} /\ stacks \in Nat
    BY <1>1, EmptyChain DEF IsInjective
  <2>2. cur.stack \in 1 .. stacks
    BY <1>1, <1>8
  <2> QED BY <2>1, <2>2 DEF Stacked
<1>12. Bottom(heap.vm, callers, cur.task)
  BY <1>1, <1>8 DEF Bottom
<1>13. Sound(heap, callers, cur, frames, started, stack_store, stacks, {}, {})
  <2>1. started \in Nat
    BY <1>1
  <2> QED BY <1>6, <1>7, <1>8, <1>9, <1>10, <1>11, <1>12, <2>1, Zenon DEF Sound
<1> QED BY <1>13, Zenon DEF IInv, Ordered

Now(U, W) == Sound(heap, callers, cur, frames, started, stack_store, stacks, U, W)
Then(U, W) == Sound(heap', callers', cur', frames', started', stack_store', stacks', U, W)

LEMMA StartTaskSound ==
    ASSUME NEW U, NEW W, Now(U, W), StartTask
    PROVE  Then(U, W)
<1>0. /\ Placed(heap, PendOf(callers), LocalsOf(callers), U, W)
      /\ Tasked(heap.vm, cur.task, Alive(frames), started, U, LocalsOf(callers), W)
      /\ Stacked(heap.vm, cur.stack, stack_store, stacks, U, LentOf(callers, cur.task))
      /\ cur \in Globals /\ frames \in [TaskNo -> Seq(Nat)] /\ started \in Nat
  BY SoundIs DEF Now
<1> PICK t : t = started + 1
  OBVIOUS
<1>5. cur' \in Globals /\ cur'.task = t /\ cur'.stack = cur.stack
  <2>1. cur' = [cur EXCEPT !.task = t] /\ t \in TaskNo
    BY DEF StartTask
  <2> QED BY <1>0, <2>1 DEF Globals
<1> PICK c : c = [kind |-> "task", vm |-> NULL, next |-> NULL]
  OBVIOUS
<1>1. /\ callers = <<>> /\ cur.task = None /\ t \in TaskNo /\ started' = t
      /\ cur' = [cur EXCEPT !.task = t] /\ frames' = [frames EXCEPT ![t] = <<METHOD_TICKS>>]
      /\ callers' = <<c>> /\ heap' = heap /\ stack_store' = stack_store /\ stacks' = stacks
  BY DEF StartTask, InMain
<1>2. LocalsOf(callers) = {} /\ PendOf(callers) = NULL
  BY <1>1, NoneCalled, Zenon
<1>3. c \in Calls /\ CallOf(c, TRUE) /\ c.vm = NULL /\ c.next = NULL /\ c.kind = "task"
  BY DEF Calls, CallOf
<1>4. /\ Called(callers') /\ LocalsOf(callers') = {} /\ PendOf(callers') = NULL
      /\ callers' # <<>> /\ callers'[1].kind = "task"
  <2>1. <<c>>[1] = c
    OBVIOUS
  <2> QED BY <1>1, <1>3, <2>1, OneCalled
<1>6. frames' \in [TaskNo -> Seq(Nat)] /\ Alive(frames') = Alive(frames) \cup {t}
  <2>1. <<METHOD_TICKS>> \in Seq(Nat) /\ <<METHOD_TICKS>> # <<>>
    BY Numbers
  <2> QED BY <1>0, <1>1, <2>1, AliveIs
<1>7. Tasked(heap.vm, t, Alive(frames) \cup {t}, t, U, {}, W)
  <2>1. Tasked(heap.vm, None, Alive(frames), started, U, {}, W)
    BY <1>0, <1>1, <1>2
  <2>2. started + 1 \in TaskNo
    BY <1>1
  <2>3. Tasked(heap.vm, started + 1, Alive(frames) \cup {started + 1}, started + 1, U, {}, W)
    BY <1>0, <2>1, <2>2, TaskedStarted, Zenon
  <2> QED BY <2>3
<1>8. Stacked(heap.vm, cur.stack, stack_store, stacks, U, LentOf(callers', cur'.task))
  <2>1. LentOf(callers, cur.task) = {}
    BY <1>1, NoneLent
  <2> QED BY <1>0, <2>1, NotLent
<1>9. Bottom(heap.vm, callers', cur'.task)
  BY <1>4 DEF Bottom
<1>10. started' \in Nat
  BY <1>0, <1>1
<1> QED BY <1>0, <1>1, <1>2, <1>4, <1>5, <1>6, <1>7, <1>8, <1>9, <1>10 DEF Then, Sound

LEMMA FrameStartSound ==
    ASSUME NEW U, NEW W, Now(U, W), FrameStart
    PROVE  Then(U, W)
<1>0. /\ Tasked(heap.vm, cur.task, Alive(frames), started, U, LocalsOf(callers), W)
      /\ frames \in [TaskNo -> Seq(Nat)] /\ cur \in Globals
  BY SoundIs DEF Now
<1>1. /\ MayExecute /\ frames' = [frames EXCEPT ![cur.task] = Append(Spent, METHOD_TICKS)]
      /\ UNCHANGED <<heap, cur, started, callers, stack_store, stacks>>
  BY DEF FrameStart
<1>2. cur.task \in TaskNo /\ cur.task \in Alive(frames)
  <2>1. cur.task \in TaskNo
    BY <1>0, <1>1, GlobalsAre DEF MayExecute, Running
  <2> QED BY <1>0, <2>1, TaskedReturned, Zenon
<1>3. Append(Spent, METHOD_TICKS) \in Seq(Nat) /\ Append(Spent, METHOD_TICKS) # <<>>
  <2>1. Spent \in Seq(Nat)
    BY <1>0, <1>1, <1>2, SpentIs
  <2> QED BY <2>1, Numbers, AppendProperties
<1>4. frames' \in [TaskNo -> Seq(Nat)] /\ Alive(frames') = Alive(frames)
  <2>1. Alive(frames) \cup {cur.task} = Alive(frames)
    BY <1>2
  <2> QED BY <1>0, <1>1, <1>2, <1>3, <2>1, AliveIs
<1> QED BY <1>1, <1>4 DEF Now, Then, Sound

LEMMA FrameReturnSound ==
    ASSUME NEW U, NEW W, Now(U, W), FrameReturn
    PROVE  Then(U, W)
<1>0. /\ Placed(heap, PendOf(callers), LocalsOf(callers), U, W)
      /\ Tasked(heap.vm, cur.task, Alive(frames), started, U, LocalsOf(callers), W)
      /\ Stacked(heap.vm, cur.stack, stack_store, stacks, U, LentOf(callers, cur.task))
      /\ Called(callers) /\ Bottom(heap.vm, callers, cur.task)
      /\ cur \in Globals /\ frames \in [TaskNo -> Seq(Nat)] /\ started \in Nat
  BY SoundIs DEF Now
<1> PICK t : t = cur.task
  OBVIOUS
<1>1. /\ t # None /\ frames' = [frames EXCEPT ![t] = Front(frames[t])]
      /\ cur' = IF Len(frames[t]) = 1 THEN [cur EXCEPT !.task = None] ELSE cur
      /\ UNCHANGED <<heap, started, callers, stack_store, stacks>>
  BY DEF FrameReturn, Running
<1>2. t \in TaskNo /\ t \in Alive(frames)
  <2>1. t \in TaskNo
    BY <1>0, <1>1, GlobalsAre
  <2> QED BY <1>0, <2>1, TaskedReturned
<1>3. /\ Front(frames[t]) \in Seq(Nat) /\ Len(Front(frames[t])) = Len(frames[t]) - 1
      /\ Len(frames[t]) \in Nat \ {0}
  <2>1. frames[t] \in Seq(Nat) /\ frames[t] # <<>>
    BY <1>0, <1>2 DEF Alive
  <2> QED BY <2>1, FrontIs DEF Front
<1>4. /\ frames' \in [TaskNo -> Seq(Nat)]
      /\ Alive(frames') = IF Front(frames[t]) = <<>> THEN Alive(frames) \ {t} ELSE Alive(frames) \cup {t}
  BY <1>0, <1>1, <1>2, <1>3, AliveIs
<1>5. CASE Len(frames[t]) = 1
  <2>1. Alive(frames') = Alive(frames) \ {t}
    <3>1. Front(frames[t]) = <<>>
      BY <1>3, <1>5, EmptySeq
    <3> QED BY <1>4, <3>1
  <2>2. cur' \in Globals /\ cur'.task = None /\ cur'.stack = cur.stack
    BY <1>0, <1>1, <1>5, GlobalsAre
  <2>3. Tasked(heap.vm, None, Alive(frames) \ {t}, started, U, LocalsOf(callers), W)
    BY <1>0, <1>2, TaskedReturned
  <2>4. Stacked(heap.vm, cur.stack, stack_store, stacks, U, LentOf(callers, None))
    <3>1. LentOf(callers, cur.task) = {}
      BY <1>1, NoneLent
    <3> QED BY <1>0, <3>1, NotLent
  <2>5. Bottom(heap.vm, callers, None)
    BY <1>0 DEF Bottom
  <2> QED BY <1>0, <1>1, <1>4, <2>1, <2>2, <2>3, <2>4, <2>5 DEF Then, Sound
<1>6. CASE Len(frames[t]) # 1
  <2>1. Alive(frames') = Alive(frames)
    <3>1. Len(Front(frames[t])) # 0
      BY <1>3, <1>6
    <3>2. Front(frames[t]) # <<>>
      BY <3>1, EmptySeq
    <3>3. Alive(frames) \cup {t} = Alive(frames)
      BY <1>2
    <3> QED BY <1>4, <3>2, <3>3
  <2>2. cur' = cur
    BY <1>1, <1>6
  <2> QED BY <1>1, <1>4, <2>1, <2>2 DEF Now, Then, Sound
<1> QED BY <1>5, <1>6

LEMMA TaskEndsSound ==
    ASSUME NEW U, NEW W, Now(U, W), TaskEnds
    PROVE  Then(U, W)
<1>0. /\ Placed(heap, PendOf(callers), LocalsOf(callers), U, W)
      /\ Tasked(heap.vm, cur.task, Alive(frames), started, U, LocalsOf(callers), W)
      /\ Stacked(heap.vm, cur.stack, stack_store, stacks, U, LentOf(callers, cur.task))
      /\ Called(callers) /\ Bottom(heap.vm, callers, cur.task)
      /\ cur \in Globals /\ frames \in [TaskNo -> Seq(Nat)] /\ started \in Nat
  BY SoundIs DEF Now
<1>1. /\ cur.task = None /\ callers # <<>> /\ callers[Len(callers)].kind = "task"
      /\ callers' = Below(callers) /\ cur' = [cur EXCEPT !.tid = @ + 1]
      /\ UNCHANGED <<heap, started, frames, stack_store, stacks>>
  BY DEF TaskEnds, Returned, Running, Caller, CallersBelow, Below
<1>2. /\ Below(callers) = <<>> /\ Len(callers) = 1 /\ callers[Len(callers)].vm = NULL
      /\ callers[Len(callers)].next = NULL
      /\ LocalsOf(Below(callers)) = LocalsOf(callers) \ {callers[Len(callers)].vm}
  BY <1>0, <1>1, LessCalled
<1>3. /\ Called(callers') /\ LocalsOf(callers') = {} /\ PendOf(callers') = NULL /\ callers' = <<>>
      /\ callers[1].next = NULL
  BY <1>1, <1>2, NoneCalled
<1>4. PendOf(callers) = NULL /\ LocalsOf(callers) = {}
  <2>1. LocalsOf(callers) = LocalsOf(callers) \ {NULL}
    BY DEF LocalsOf
  <2> QED BY <1>1, <1>2, <1>3, <2>1 DEF PendOf
<1>5. cur' \in Globals /\ cur'.task = cur.task /\ cur'.stack = cur.stack
  BY <1>0, <1>1, GlobalsAre
<1>6. Stacked(heap.vm, cur.stack, stack_store, stacks, U, LentOf(callers', cur'.task))
  <2>1. LentOf(callers, cur.task) = {}
    BY <1>3, NoneLent
  <2> QED BY <1>0, <2>1, NotLent
<1>7. Bottom(heap.vm, callers', cur'.task)
  BY <1>1, <1>3, <1>5 DEF Bottom
<1> QED BY <1>0, <1>1, <1>3, <1>4, <1>5, <1>6, <1>7 DEF Then, Sound

LEMMA MainStepSound ==
    ASSUME NEW U, NEW W, Now(U, W), MainStep
    PROVE  Then(U, W)
BY DEF Now, Then, Sound, MainStep

(* task_suspend and task_pause.                                              *)
LEMMA SuspendSound ==
    ASSUME NEW U, NEW W, Now(U, W), TaskSuspend
    PROVE  Then(U \cup {Taken(heap)}, W)
<1> PICK v : v = Taken(heap)
  OBVIOUS
<1> PICK L : L = LocalsOf(callers)
  OBVIOUS
<1>0. /\ Placed(heap, PendOf(callers), L, U, W)
      /\ Tasked(heap.vm, cur.task, Alive(frames), started, U, L, W)
      /\ Stacked(heap.vm, cur.stack, stack_store, stacks, U, LentOf(callers, cur.task))
      /\ Called(callers) /\ Bottom(heap.vm, callers, cur.task)
      /\ cur \in Globals /\ frames \in [TaskNo -> Seq(Nat)] /\ started \in Nat
  BY SoundIs DEF Now
<1>1. /\ MayExecute /\ CanPark(heap) /\ InitExecute
      /\ frames' = [frames EXCEPT ![cur.task] = Spent]
      /\ heap' = Added(Parked(heap, FALSE), "tasks", v)
      /\ cur' = [cur EXCEPT !.task = None, !.stack = NewStack]
      /\ UNCHANGED <<started, callers>>
  BY DEF TaskSuspend, Spend
<1>2. cur.task \in TaskNo /\ cur.task \in Alive(frames) /\ cur.task # None
  <2>1. cur.task \in TaskNo /\ cur.task # None
    BY <1>0, <1>1, GlobalsAre DEF MayExecute, Running
  <2> QED BY <1>0, <2>1, TaskedReturned
<1>3. frames' \in [TaskNo -> Seq(Nat)] /\ Alive(frames') = Alive(frames)
  <2>1. Spent \in Seq(Nat) /\ Spent # <<>>
    BY <1>0, <1>1, <1>2, SpentIs
  <2>2. Alive(frames) \cup {cur.task} = Alive(frames)
    BY <1>2
  <2> QED BY <1>0, <1>1, <1>2, <2>1, <2>2, AliveIs
<1>4. Placed(heap', PendOf(callers), L, U \cup {v}, W) /\ Parks(heap.vm, heap'.vm, U, v, FALSE)
  BY <1>0, <1>1, SuspendPlaced
<1>5. v \notin U /\ L \subseteq U /\ W \subseteq U
  BY <1>0, <1>4, PlacedIs DEF Parks
<1>6. Tasked(heap'.vm, None, Alive(frames), started, U \cup {v}, L, W)
  <2>1. Same(W, W, U) /\ (FALSE <=> v \in W)
    BY <1>5 DEF Same
  <2> QED BY <1>0, <1>2, <1>4, <2>1, TaskedParked
<1>7. Stacked(heap'.vm, NewStack, stack_store', stacks', U \cup {v}, {})
  <2>1. LentOf(callers, cur.task) = {}
    BY <1>2, NoneLent
  <2>2. Stacked(heap'.vm, cur.stack, stack_store, stacks, U \cup {v}, {v})
    BY <1>0, <1>4, <2>1, StackedParked
  <2> QED BY <1>1, <2>2, StackedNew
<1>8. cur' \in Globals /\ cur'.task = None /\ cur'.stack = NewStack
  <2>1. NewStack \in Nat
    BY <1>7 DEF Stacked
  <2> QED BY <1>0, <1>1, <2>1 DEF Globals
<1>9. Stacked(heap'.vm, cur'.stack, stack_store', stacks', U \cup {v}, LentOf(callers', cur'.task))
  BY <1>7, <1>8, NotLent
<1>10. Bottom(heap'.vm, callers', cur'.task)
  <2>1. callers # <<>> /\ callers[1].kind = "paused" => callers[1].vm \in L
    BY <1>0, BottomLocal
  <2>2. \A w \in L : heap'.vm[w].task = heap.vm[w].task
    BY <1>4, <1>5 DEF Parks, AgreeOn
  <2> QED BY <1>0, <1>1, <1>8, <2>1, <2>2 DEF Bottom
<1>11. Then(U \cup {v}, W)
  BY <1>0, <1>1, <1>3, <1>4, <1>6, <1>8, <1>9, <1>10 DEF Then, Sound
<1> QED BY <1>11

LEMMA PauseSound ==
    ASSUME NEW U, NEW W, Now(U, W), TaskPause
    PROVE  Then(U \cup {Taken(heap)}, W \cup {Taken(heap)})
<1> PICK v : v = Taken(heap)
  OBVIOUS
<1> PICK L : L = LocalsOf(callers)
  OBVIOUS
<1>0. /\ Placed(heap, PendOf(callers), L, U, W)
      /\ Tasked(heap.vm, cur.task, Alive(frames), started, U, L, W)
      /\ Stacked(heap.vm, cur.stack, stack_store, stacks, U, LentOf(callers, cur.task))
      /\ Called(callers) /\ Bottom(heap.vm, callers, cur.task)
      /\ cur \in Globals /\ frames \in [TaskNo -> Seq(Nat)] /\ started \in Nat
  BY SoundIs DEF Now
<1>1. /\ MayExecute /\ CanPark(heap) /\ InitExecute
      /\ frames' = [frames EXCEPT ![cur.task] = Spent]
      /\ heap' = Added(Parked(heap, TRUE), "paused", v)
      /\ cur' = [cur EXCEPT !.task = None, !.stack = NewStack]
      /\ UNCHANGED <<started, callers>>
  BY DEF TaskPause, Spend
<1>2. cur.task \in TaskNo /\ cur.task \in Alive(frames) /\ cur.task # None
  <2>1. cur.task \in TaskNo /\ cur.task # None
    BY <1>0, <1>1, GlobalsAre DEF MayExecute, Running
  <2> QED BY <1>0, <2>1, TaskedReturned
<1>3. frames' \in [TaskNo -> Seq(Nat)] /\ Alive(frames') = Alive(frames)
  <2>1. Spent \in Seq(Nat) /\ Spent # <<>>
    BY <1>0, <1>1, <1>2, SpentIs
  <2>2. Alive(frames) \cup {cur.task} = Alive(frames)
    BY <1>2
  <2> QED BY <1>0, <1>1, <1>2, <2>1, <2>2, AliveIs
<1>4. /\ Placed(heap', PendOf(callers), L, U \cup {v}, W \cup {v})
      /\ Parks(heap.vm, heap'.vm, U, v, TRUE)
  BY <1>0, <1>1, PausePlaced
<1>5. v \notin U /\ L \subseteq U /\ W \subseteq U
  BY <1>0, <1>4, PlacedIs DEF Parks
<1>6. Tasked(heap'.vm, None, Alive(frames), started, U \cup {v}, L, W \cup {v})
  <2>1. Same(W, W \cup {v}, U) /\ (TRUE <=> v \in W \cup {v})
    BY <1>5 DEF Same
  <2> QED BY <1>0, <1>2, <1>4, <2>1, TaskedParked
<1>7. Stacked(heap'.vm, NewStack, stack_store', stacks', U \cup {v}, {})
  <2>1. LentOf(callers, cur.task) = {}
    BY <1>2, NoneLent
  <2>2. Stacked(heap'.vm, cur.stack, stack_store, stacks, U \cup {v}, {v})
    BY <1>0, <1>4, <2>1, StackedParked
  <2> QED BY <1>1, <2>2, StackedNew
<1>8. cur' \in Globals /\ cur'.task = None /\ cur'.stack = NewStack
  <2>1. NewStack \in Nat
    BY <1>7 DEF Stacked
  <2> QED BY <1>0, <1>1, <2>1 DEF Globals
<1>9. Stacked(heap'.vm, cur'.stack, stack_store', stacks', U \cup {v}, LentOf(callers', cur'.task))
  BY <1>7, <1>8, NotLent
<1>10. Bottom(heap'.vm, callers', cur'.task)
  <2>1. callers # <<>> /\ callers[1].kind = "paused" => callers[1].vm \in L
    BY <1>0, BottomLocal
  <2>2. \A w \in L : heap'.vm[w].task = heap.vm[w].task
    BY <1>4, <1>5 DEF Parks, AgreeOn
  <2> QED BY <1>0, <1>1, <1>8, <2>1, <2>2 DEF Bottom
<1>11. Then(U \cup {v}, W \cup {v})
  BY <1>0, <1>1, <1>3, <1>4, <1>6, <1>8, <1>9, <1>10 DEF Then, Sound
<1> QED BY <1>11

Framed(fs, a, x, b, y) == [fs EXCEPT ![a] = x, ![b] = y]

Framing(fs, a, x, b, y) ==
    /\ fs \in [TaskNo -> Seq(Nat)] /\ a \in Alive(fs) /\ b \in Alive(fs) /\ a # b
    /\ x \in Seq(Nat) /\ x # <<>> /\ y \in Seq(Nat)

LEMMA TwoFrames ==
    ASSUME NEW fs, NEW a, NEW b, NEW x, NEW y, Framing(fs, a, x, b, y)
    PROVE  /\ Framed(fs, a, x, b, y) \in [TaskNo -> Seq(Nat)]
           /\ y = <<>> => Alive(Framed(fs, a, x, b, y)) = Alive(fs) \ {b}
           /\ y # <<>> => Alive(Framed(fs, a, x, b, y)) = Alive(fs)
<1> PICK gs : gs = Framed(fs, a, x, b, y)
  OBVIOUS
<1>0. a \in TaskNo /\ b \in TaskNo
  BY DEF Framing, Alive
<1>9. fs \in [TaskNo -> Seq(Nat)] /\ a # b /\ x \in Seq(Nat) /\ x # <<>> /\ y \in Seq(Nat) /\ a \in Alive(fs) /\ b \in Alive(fs)
  BY DEF Framing
<1>1. gs \in [TaskNo -> Seq(Nat)] /\ gs[a] = x /\ gs[b] = y /\ \A u \in TaskNo : u # a /\ u # b => gs[u] = fs[u]
  BY <1>0, <1>9 DEF Framed
<1>2. \A u \in TaskNo : u \in Alive(gs) <=> gs[u] # <<>>
  BY DEF Alive
<1>3. \A u \in TaskNo : u \in Alive(fs) <=> fs[u] # <<>>
  BY DEF Alive
<1>4. \A u \in TaskNo : u # a /\ u # b => (u \in Alive(gs) <=> u \in Alive(fs))
  BY <1>1, <1>2, <1>3, Zenon
<1>5. a \in Alive(gs) /\ (b \in Alive(gs) <=> y # <<>>)
  BY <1>0, <1>1, <1>2, <1>9, Zenon
<1>6. Alive(fs) \subseteq TaskNo /\ Alive(gs) \subseteq TaskNo
  BY DEF Alive
<1>7. ASSUME y = <<>> PROVE Alive(gs) = Alive(fs) \ {b}
  BY <1>4, <1>5, <1>6, <1>7, <1>9
<1>8. ASSUME y # <<>> PROVE Alive(gs) = Alive(fs)
  <2>1. \A u \in TaskNo : u \in Alive(gs) <=> u \in Alive(fs)
    BY <1>4, <1>5, <1>8, <1>9
  <2> QED BY <1>6, <2>1
<1> QED BY <1>1, <1>7, <1>8, Zenon

(* What resume() and cancel() can be asked for.                              *)
LEMMA AimedIs ==
    ASSUME NEW v, NEW r \in BOOLEAN, Aimed(v, r)
    PROVE  /\ r => v \in Nodes(heap, heap.tasks)
           /\ heap.tasks # NULL => heap.vm[heap.tasks].next # v
           /\ heap.paused # NULL => heap.vm[heap.paused].next # v
<1>1. /\ r => v \in Nodes(heap, heap.tasks)
      /\ \A list \in {"tasks", "paused"} : heap[list] # NULL => heap.vm[heap[list]].next # v
  BY Zenon DEF Aimed
<1>2. heap["tasks"] = heap.tasks /\ heap["paused"] = heap.paused
  OBVIOUS
<1> QED BY <1>1, <1>2

LEMMA ResumeSound ==
    ASSUME NEW U, NEW W, Now(U, W), NEW tid, TaskResume(tid), ~astray'
    PROVE  Then((U \cup {Taken(heap)}) \ {Lookup(heap, tid)}, W)
<1> PICK v : v = Taken(heap)
  OBVIOUS
<1> PICK n : n = Lookup(heap, tid)
  OBVIOUS
<1> PICK L : L = LocalsOf(callers)
  OBVIOUS
<1> PICK t : t = heap.vm[n].task
  OBVIOUS
<1>0. /\ Placed(heap, PendOf(callers), L, U, W)
      /\ Tasked(heap.vm, cur.task, Alive(frames), started, U, L, W)
      /\ Stacked(heap.vm, cur.stack, stack_store, stacks, U, LentOf(callers, cur.task))
      /\ Called(callers) /\ Bottom(heap.vm, callers, cur.task)
      /\ cur \in Globals /\ frames \in [TaskNo -> Seq(Nat)] /\ started \in Nat
  BY SoundIs DEF Now
<1> PICK c : c = [kind |-> "resume", vm |-> v, next |-> NULL]
  OBVIOUS
<1>1. /\ MayExecute /\ CanPark(heap) /\ n # NULL /\ Aimed(n, TRUE)
      /\ heap' = Added(Removed(Parked(heap, FALSE), "tasks", n), "vmstore", n)
      /\ cur' = Restored(Parked(heap, FALSE), n)
      /\ callers' = Append(callers, c)
      /\ frames' = [frames EXCEPT ![cur.task] = Spent, ![t] = WithTicks(@, METHOD_TICKS)]
      /\ UNCHANGED <<started, stack_store, stacks>>
  BY DEF TaskResume
<1>2. cur.task \in TaskNo /\ cur.task \in Alive(frames) /\ cur.task # None
  <2>1. cur.task \in TaskNo /\ cur.task # None
    BY <1>0, <1>1, GlobalsAre DEF MayExecute, Running
  <2> QED BY <1>0, <2>1, TaskedReturned
<1>3. n \in Nodes(heap, heap.tasks) /\ heap.vm[heap.tasks].next # n
  <2>1. n \in Nodes(heap, heap.tasks) /\ (heap.tasks # NULL => heap.vm[heap.tasks].next # n)
    BY <1>1, AimedIs
  <2>2. Nodes(heap, heap.tasks) # {} => heap.tasks \in Nodes(heap, heap.tasks)
    BY <1>0, HeadsIn, Zenon
  <2>3. Nodes(heap, heap.tasks) \subseteq U /\ U \subseteq VMs
    BY <1>0, PlacedIs
  <2> PICK S : S = Nodes(heap, heap.tasks)
    OBVIOUS
  <2>4. heap.tasks # NULL
    <3>1. n \in S /\ S # {}
      BY <2>1
    <3>2. heap.tasks \in S /\ S \subseteq U
      BY <2>2, <2>3, <3>1
    <3> QED BY <2>3, <3>2, Numbers
  <2> QED BY <2>1, <2>4, Zenon
<1>4. /\ Placed(heap', PendOf(callers), L \cup {v}, (U \cup {v}) \ {n}, W)
      /\ Parks(heap.vm, heap'.vm, U, v, FALSE)
  BY <1>0, <1>1, <1>3, ResumePlaced
<1>5. /\ v \notin U /\ v \in VMs /\ L \subseteq U /\ W \subseteq U /\ n \in U /\ n \notin L /\ n \notin W
      /\ n # v /\ n \in U \cup {v} /\ n \in VMs
  <2>1. v \notin U /\ v \in VMs
    BY <1>4 DEF Parks
  <2>2. L \subseteq U /\ W \subseteq U /\ n \in U /\ n \notin L \cup W /\ U \subseteq VMs
    BY <1>0, <1>3, PlacedIs
  <2> QED BY <2>1, <2>2
<1>6. /\ cur' = [task |-> heap.vm[n].task, tid |-> heap.vm[n].tid, stack |-> heap.vm[n].stack]
      /\ heap'.vm[n].task = heap.vm[n].task /\ heap'.vm[n].stack = heap.vm[n].stack
  <2>1. SameOn(heap.vm, Parked(heap, FALSE).vm, U)
    BY <1>0, <1>1, ParkedParks
  <2>2. Parked(heap, FALSE).vm[n] = heap.vm[n]
    BY <1>5, <2>1 DEF SameOn
  <2> QED BY <1>1, <1>4, <1>5, <2>2 DEF Restored, Parks, AgreeOn
<1>7. /\ cur' \in Globals /\ cur'.task = t /\ cur'.stack = heap.vm[n].stack /\ t \in TaskNo /\ t # None
      /\ t # cur.task /\ t \in Alive(frames)
  <2>1. heap.vm[n] \in VMStates
    BY <1>0, <1>5, PlacedIs
  <2>2. t # cur.task /\ t \in Alive(frames)
    BY <1>0, <1>5, TaskedDropped
  <2>3. t \in TaskNo /\ t # None
    BY <2>2, Numbers DEF Alive
  <2> QED BY <1>6, <2>1, <2>2, <2>3 DEF VMStates, Globals
<1>8. frames' \in [TaskNo -> Seq(Nat)] /\ Alive(frames') = Alive(frames)
  <2>1. Spent \in Seq(Nat) /\ Spent # <<>>
    BY <1>0, <1>1, <1>2, SpentIs
  <2>2. WithTicks(frames[t], METHOD_TICKS) \in Seq(Nat) /\ WithTicks(frames[t], METHOD_TICKS) # <<>>
    <3>1. frames[t] \in Seq(Nat) /\ frames[t] # <<>>
      BY <1>0, <1>7 DEF Alive
    <3> QED BY <3>1, TicksAre, Numbers
  <2>3. frames' = [frames EXCEPT ![cur.task] = Spent, ![t] = WithTicks(frames[t], METHOD_TICKS)]
    BY <1>0, <1>1, <1>2, <1>7
  <2> PICK x : x = WithTicks(frames[t], METHOD_TICKS)
    OBVIOUS
  <2>4. frames' = Framed(frames, cur.task, Spent, t, x) /\ x \in Seq(Nat) /\ x # <<>>
    BY <2>2, <2>3, Zenon DEF Framed
  <2>5. /\ frames \in [TaskNo -> Seq(Nat)] /\ cur.task \in Alive(frames) /\ t \in Alive(frames)
        /\ cur.task # t
    BY <1>0, <1>2, <1>7
  <2>6. /\ Framed(frames, cur.task, Spent, t, x) \in [TaskNo -> Seq(Nat)]
        /\ Alive(Framed(frames, cur.task, Spent, t, x)) = Alive(frames)
    <3>1. Framing(frames, cur.task, Spent, t, x)
      BY <2>1, <2>4, <2>5, Zenon DEF Framing
    <3> QED BY <2>4, <3>1, TwoFrames
  <2> QED BY <2>4, <2>6
<1>9. Tasked(heap'.vm, t, Alive(frames), started, (U \cup {v}) \ {n}, L \cup {v}, W)
  <2>1. Same(W, W, U) /\ (FALSE <=> v \in W) /\ L \subseteq L \cup {v} /\ v \in L \cup {v}
    BY <1>5 DEF Same
  <2>2. Tasked(heap'.vm, None, Alive(frames), started, U \cup {v}, L \cup {v}, W)
    BY <1>0, <1>4, <2>1, TaskedParked
  <2>3. Tasked(heap'.vm, heap'.vm[n].task, Alive(frames), started, (U \cup {v}) \ {n}, L \cup {v}, W)
    BY <1>5, <2>2, TaskedRestored, Zenon
  <2> QED BY <1>6, <2>3
<1>10. Stacked(heap'.vm, cur'.stack, stack_store, stacks, (U \cup {v}) \ {n}, LentOf(callers', cur'.task))
  <2>1. LentOf(callers, cur.task) = {}
    BY <1>2, NoneLent
  <2>2. Stacked(heap'.vm, cur.stack, stack_store, stacks, U \cup {v}, {v})
    BY <1>0, <1>4, <2>1, StackedParked
  <2>3. Stacked(heap'.vm, heap'.vm[n].stack, stack_store, stacks, (U \cup {v}) \ {n}, {})
    BY <1>5, <2>2, StackedRestored, Zenon
  <2>4. Stacked(heap'.vm, cur'.stack, stack_store, stacks, (U \cup {v}) \ {n}, {})
    BY <1>6, <1>7, <2>3
  <2> QED BY <2>4, NotLent
<1>11. /\ Called(callers') /\ LocalsOf(callers') = L \cup {v} /\ PendOf(callers') = PendOf(callers)
       /\ callers # <<>> /\ callers'[1] = callers[1] /\ callers' # <<>>
  <2>1. callers # <<>>
    BY <1>0, <1>2 DEF Bottom
  <2>2. c \in Calls /\ CallOf(c, FALSE) /\ c.vm = v /\ v \notin L
    BY <1>5, Numbers DEF Calls, CallOf
  <2> QED BY <1>0, <1>1, <1>5, <2>1, <2>2, MoreCalled
<1>12. Bottom(heap'.vm, callers', cur'.task)
  <2>1. callers # <<>> /\ callers[1].kind = "paused" => callers[1].vm \in L
    BY <1>0, BottomLocal
  <2>2. \A w \in L : heap'.vm[w].task = heap.vm[w].task
    BY <1>4, <1>5 DEF Parks, AgreeOn
  <2> QED BY <1>0, <1>11, <2>1, <2>2 DEF Bottom
<1>13. Then((U \cup {v}) \ {n}, W)
  BY <1>0, <1>1, <1>4, <1>7, <1>8, <1>9, <1>10, <1>11, <1>12 DEF Then, Sound
<1> QED BY <1>13

LEMMA CancelSound ==
    ASSUME NEW U, NEW W, Now(U, W), NEW tid, TaskCancel(tid), ~astray'
    PROVE  Then(U \ {Lookup(heap, tid)}, W \ {Lookup(heap, tid)})
<1> PICK v : v = Taken(heap)
  OBVIOUS
<1> PICK n : n = Lookup(heap, tid)
  OBVIOUS
<1> PICK L : L = LocalsOf(callers)
  OBVIOUS
<1> PICK t : t = heap.vm[n].task
  OBVIOUS
<1>0. /\ Placed(heap, PendOf(callers), L, U, W)
      /\ Tasked(heap.vm, cur.task, Alive(frames), started, U, L, W)
      /\ Stacked(heap.vm, cur.stack, stack_store, stacks, U, LentOf(callers, cur.task))
      /\ Called(callers) /\ Bottom(heap.vm, callers, cur.task)
      /\ cur \in Globals /\ frames \in [TaskNo -> Seq(Nat)] /\ started \in Nat
  BY SoundIs DEF Now
<1>1. /\ MayExecute /\ CanPark(heap) /\ n # NULL /\ Aimed(n, FALSE)
      /\ heap' = Added(Added(Removed(Parked(heap, FALSE), IF heap.vm[n].paused THEN "paused" ELSE "tasks", n),
                             "vmstore", n), "vmstore", v)
      /\ frames' = [frames EXCEPT ![cur.task] = Spent, ![t] = <<>>]
      /\ stack_store' = <<heap.vm[n].stack>> \o stack_store
      /\ UNCHANGED <<cur, started, callers, stacks>>
  BY DEF TaskCancel
<1>2. cur.task \in TaskNo /\ cur.task \in Alive(frames) /\ cur.task # None
  <2>1. cur.task \in TaskNo /\ cur.task # None
    BY <1>0, <1>1, GlobalsAre DEF MayExecute, Running
  <2> QED BY <1>0, <2>1, TaskedReturned
<1>3. /\ heap.vm[n].paused => n \in Nodes(heap, heap.paused)
      /\ ~heap.vm[n].paused => n \in Nodes(heap, heap.tasks)
      /\ n \in U /\ n \notin L
  <2>1. n \in Nodes(heap, heap.tasks) \cup Nodes(heap, heap.paused)
    BY <1>0, <1>1, LookupIs
  <2>2. /\ Nodes(heap, heap.tasks) \subseteq U /\ Nodes(heap, heap.tasks) \cap (L \cup W) = {}
        /\ Nodes(heap, heap.paused) \subseteq W /\ W \subseteq U /\ L \cap W = {}
    BY <1>0, PlacedIs
  <2>3. n \in U /\ n \notin L
    BY <2>1, <2>2
  <2>4. heap.vm[n].paused <=> n \in W
    BY <1>0, <2>3 DEF Tasked
  <2> QED BY <2>1, <2>2, <2>3, <2>4
<1>4. Placed(heap', PendOf(callers), L, U \ {n}, W \ {n}) /\ AgreeOn(heap.vm, heap'.vm, U)
  <2>1. /\ heap.tasks # NULL => heap.vm[heap.tasks].next # n
        /\ heap.paused # NULL => heap.vm[heap.paused].next # n
    BY <1>1, AimedIs
  <2>2. /\ Nodes(heap, heap.tasks) # {} => heap.tasks \in Nodes(heap, heap.tasks)
        /\ Nodes(heap, heap.paused) # {} => heap.paused \in Nodes(heap, heap.paused)
    BY <1>0, HeadsIn, Zenon
  <2>3. NULL \notin Nodes(heap, heap.tasks) /\ NULL \notin Nodes(heap, heap.paused)
    <3>1. Nodes(heap, heap.tasks) \subseteq U /\ U \subseteq VMs /\ Nodes(heap, heap.paused) \subseteq W /\ W \subseteq U
      BY <1>0, PlacedIs
    <3> QED BY <3>1, Numbers
  <2>4. CASE heap.vm[n].paused
    <3>1. n \in Nodes(heap, heap.paused)
      BY <1>3, <2>4, Zenon
    <3>2. Nodes(heap, heap.paused) # {}
      BY <3>1, Zenon
    <3>3. heap.paused # NULL
      BY <2>2, <2>3, <3>2, Zenon
    <3>4. heap.vm[heap.paused].next # n
      BY <2>1, <3>3, Zenon
    <3>5. heap' = Added(Added(Removed(Parked(heap, FALSE), "paused", n), "vmstore", n), "vmstore", Taken(heap))
      BY <1>1, <2>4
    <3>6. /\ Placed(Added(Added(Removed(Parked(heap, FALSE), "paused", n), "vmstore", n), "vmstore", Taken(heap)),
                    PendOf(callers), L, U \ {n}, W \ {n})
          /\ AgreeOn(heap.vm, Added(Added(Removed(Parked(heap, FALSE), "paused", n), "vmstore", n), "vmstore", Taken(heap)).vm, U)
      BY <1>0, <1>1, <3>1, <3>4, CancelPaused, Zenon
    <3> QED BY <3>5, <3>6
  <2>5. CASE ~heap.vm[n].paused
    <3>1. n \in Nodes(heap, heap.tasks)
      BY <1>3, <2>5, Zenon
    <3>2. Nodes(heap, heap.tasks) # {}
      BY <3>1, Zenon
    <3>3. heap.tasks # NULL
      BY <2>2, <2>3, <3>2, Zenon
    <3>4. heap.vm[heap.tasks].next # n
      BY <2>1, <3>3, Zenon
    <3>5. heap' = Added(Added(Removed(Parked(heap, FALSE), "tasks", n), "vmstore", n), "vmstore", Taken(heap))
      BY <1>1, <2>5
    <3>6. /\ Placed(Added(Added(Removed(Parked(heap, FALSE), "tasks", n), "vmstore", n), "vmstore", Taken(heap)),
                    PendOf(callers), L, U \ {n}, W \ {n})
          /\ AgreeOn(heap.vm, Added(Added(Removed(Parked(heap, FALSE), "tasks", n), "vmstore", n), "vmstore", Taken(heap)).vm, U)
      BY <1>0, <1>1, <3>1, <3>4, CancelWaiting, Zenon
    <3> QED BY <3>5, <3>6
  <2> QED BY <2>4, <2>5, Zenon
<1>5. AgreeOn(heap.vm, heap'.vm, U \ {n})
  BY <1>4 DEF AgreeOn
<1>6. Tasked(heap'.vm, cur.task, Alive(frames) \ {t}, started, U \ {n}, L, W \ {n}) /\ t \in Alive(frames) /\ t # cur.task
  <2>1. Tasked(heap.vm, cur.task, Alive(frames) \ {t}, started, U \ {n}, L, W) /\ t \in Alive(frames) /\ t # cur.task
    BY <1>0, <1>3, TaskedDropped
  <2>2. Same(L, L, U \ {n}) /\ Same(W, W \ {n}, U \ {n})
    BY DEF Same
  <2>3. Tasked(heap.vm, cur.task, Alive(frames) \ {t}, started, U \ {n}, L, W \ {n})
    BY <2>1, <2>2, TaskedSets
  <2> QED BY <1>5, <2>1, <2>3, TaskedAgree
<1>7. Stacked(heap'.vm, cur.stack, stack_store', stacks, U \ {n}, LentOf(callers, cur.task))
  <2>1. LentOf(callers, cur.task) = {}
    BY <1>2, NoneLent
  <2>2. Stacked(heap.vm, cur.stack, <<heap.vm[n].stack>> \o stack_store, stacks, U \ {n}, {})
    BY <1>0, <1>3, <2>1, StackedGiven
  <2>3. Stacked(heap'.vm, cur.stack, <<heap.vm[n].stack>> \o stack_store, stacks, U \ {n}, {})
    BY <1>5, <2>2, StackedAgree
  <2> QED BY <1>1, <2>1, <2>3
<1>8. frames' \in [TaskNo -> Seq(Nat)] /\ Alive(frames') = Alive(frames) \ {t}
  <2>1. Spent \in Seq(Nat) /\ Spent # <<>>
    BY <1>0, <1>1, <1>2, SpentIs
  <2>2. frames' = Framed(frames, cur.task, Spent, t, <<>>) /\ <<>> \in Seq(Nat)
    BY <1>1 DEF Framed
  <2>3. /\ frames \in [TaskNo -> Seq(Nat)] /\ cur.task \in Alive(frames) /\ t \in Alive(frames)
        /\ cur.task # t
    BY <1>0, <1>2, <1>6
  <2>4. /\ Framed(frames, cur.task, Spent, t, <<>>) \in [TaskNo -> Seq(Nat)]
        /\ Alive(Framed(frames, cur.task, Spent, t, <<>>)) = Alive(frames) \ {t}
    <3>1. Framing(frames, cur.task, Spent, t, <<>>)
      BY <2>1, <2>2, <2>3, Zenon DEF Framing
    <3> QED BY <3>1, TwoFrames
  <2> QED BY <2>2, <2>4
<1>9. Bottom(heap'.vm, callers, cur.task)
  <2>1. callers # <<>> /\ callers[1].kind = "paused" => callers[1].vm \in L
    BY <1>0, BottomLocal
  <2>2. \A w \in L : heap'.vm[w].task = heap.vm[w].task
    <3>1. L \subseteq U
      BY <1>0, PlacedIs
    <3> QED BY <1>4, <3>1 DEF AgreeOn
  <2> QED BY <1>0, <2>1, <2>2 DEF Bottom
<1>10. Then(U \ {n}, W \ {n})
  BY <1>0, <1>1, <1>4, <1>6, <1>7, <1>8, <1>9 DEF Then, Sound
<1> QED BY <1>10

(* The globals of a VMState.                                                 *)
LEMMA RestoredIs ==
    ASSUME NEW h, h.vm \in [VMs -> VMStates], NEW v \in VMs
    PROVE  /\ Restored(h, v) \in Globals /\ Restored(h, v).task = h.vm[v].task
           /\ Restored(h, v).stack = h.vm[v].stack
<1>1. h.vm[v] \in VMStates
  OBVIOUS
<1> QED BY <1>1 DEF VMStates, Globals, Restored

LEMMA ResumeEndsSound ==
    ASSUME NEW U, NEW W, Now(U, W), ResumeEnds
    PROVE  Then(U \ {Caller.vm}, W \ {Caller.vm})
<1> PICK v : v = Caller.vm
  OBVIOUS
<1> PICK L : L = LocalsOf(callers)
  OBVIOUS
<1>0. /\ Placed(heap, PendOf(callers), L, U, W)
      /\ Tasked(heap.vm, cur.task, Alive(frames), started, U, L, W)
      /\ Stacked(heap.vm, cur.stack, stack_store, stacks, U, LentOf(callers, cur.task))
      /\ Called(callers) /\ Bottom(heap.vm, callers, cur.task)
      /\ cur \in Globals /\ frames \in [TaskNo -> Seq(Nat)] /\ started \in Nat
  BY SoundIs DEF Now
<1>1. /\ cur.task = None /\ callers # <<>> /\ callers[Len(callers)].kind = "resume"
      /\ callers' = Below(callers) /\ cur' = Restored(heap, v) /\ heap' = Added(heap, "vmstore", v)
      /\ stack_store' = <<cur.stack>> \o stack_store
      /\ UNCHANGED <<started, frames, stacks>> /\ v = callers[Len(callers)].vm
  BY DEF ResumeEnds, Returned, Running, Caller, CallersBelow, Below
<1>2. /\ Called(callers') /\ LocalsOf(callers') = L \ {v} /\ v \in L
      /\ callers' # <<>> /\ PendOf(callers') = PendOf(callers) /\ callers'[1] = callers[1] /\ Len(callers) # 1
  BY <1>0, <1>1, LessCalled
<1>3. /\ Placed(heap', PendOf(callers), L \ {v}, U \ {v}, W \ {v})
      /\ AgreeOn(heap.vm, heap'.vm, U)
  BY <1>0, <1>1, <1>2, GivenBackPlaced
<1>4. AgreeOn(heap.vm, heap'.vm, U \ {v}) /\ L \subseteq U /\ U \subseteq VMs /\ v \in U /\ v \in VMs
  <2>1. L \subseteq U /\ U \subseteq VMs
    BY <1>0, PlacedIs
  <2> QED BY <1>2, <1>3, <2>1 DEF AgreeOn
<1>5. cur' \in Globals /\ cur'.task = heap.vm[v].task /\ cur'.stack = heap.vm[v].stack
  <2>1. heap.vm \in [VMs -> VMStates]
    BY <1>0, PlacedIs
  <2> QED BY <1>1, <1>4, <2>1, RestoredIs
<1>6. Tasked(heap'.vm, cur'.task, Alive(frames), started, U \ {v}, L \ {v}, W \ {v})
  <2>1. Tasked(heap.vm, heap.vm[v].task, Alive(frames), started, U \ {v}, L, W)
    <3>1. Tasked(heap.vm, None, Alive(frames), started, U, L, W)
      BY <1>0, <1>1
    <3> QED BY <1>4, <3>1, TaskedRestored, Zenon
  <2>2. Same(L, L \ {v}, U \ {v}) /\ Same(W, W \ {v}, U \ {v})
    BY DEF Same
  <2>3. Tasked(heap.vm, heap.vm[v].task, Alive(frames), started, U \ {v}, L \ {v}, W \ {v})
    BY <2>1, <2>2, TaskedSets
  <2>4. Tasked(heap'.vm, heap.vm[v].task, Alive(frames), started, U \ {v}, L \ {v}, W \ {v})
    BY <1>4, <2>3, TaskedAgree
  <2> QED BY <1>5, <2>4
<1>7. Stacked(heap'.vm, cur'.stack, stack_store', stacks, U \ {v}, LentOf(callers', cur'.task))
  <2>1. LentOf(callers, cur.task) = {}
    BY <1>2, NoneLent
  <2>2. Stacked(heap.vm, heap.vm[v].stack, <<cur.stack>> \o stack_store, stacks, U \ {v}, {})
    BY <1>0, <1>4, <2>1, StackedGiven
  <2>3. Stacked(heap'.vm, heap.vm[v].stack, <<cur.stack>> \o stack_store, stacks, U \ {v}, {})
    BY <1>4, <2>2, StackedAgree
  <2>4. Stacked(heap'.vm, cur'.stack, stack_store', stacks, U \ {v}, {})
    BY <1>1, <1>5, <2>3
  <2> QED BY <2>4, NotLent
<1>8. Bottom(heap'.vm, callers', cur'.task)
  <2>1. callers # <<>> /\ callers[1].kind = "paused" => callers[1].vm \in L
    BY <1>0, BottomLocal
  <2>2. \A w \in L : heap'.vm[w].task = heap.vm[w].task
    BY <1>3, <1>4 DEF AgreeOn
  <2> QED BY <1>0, <1>1, <1>2, <2>1, <2>2 DEF Bottom
<1>9. Then(U \ {v}, W \ {v})
  BY <1>0, <1>1, <1>2, <1>3, <1>5, <1>6, <1>7, <1>8 DEF Then, Sound
<1> QED BY <1>9

(* run_paused_tasks, alone at the bottom of the calls.                       *)
LEMMA RoundIs ==
    ASSUME NEW cs, Called(cs), cs # <<>>, cs[Len(cs)].kind = "paused"
    PROVE  /\ Len(cs) = 1 /\ Below(cs) = <<>> /\ cs[Len(cs)] = cs[1]
           /\ LocalsOf(cs) = {cs[1].vm} /\ PendOf(cs) = cs[1].next
           /\ cs[1] \in Calls /\ cs[1].kind = "paused" /\ cs[1].vm \in VMs
<1>1. /\ Len(cs) = 1 /\ Below(cs) = <<>> /\ cs[Len(cs)] \in Calls
      /\ LocalsOf(Below(cs)) = LocalsOf(cs) \ {cs[Len(cs)].vm} /\ cs[Len(cs)].vm \in LocalsOf(cs)
  BY LessCalled
<1>2. LocalsOf(Below(cs)) = {}
  BY <1>1, NoneCalled
<1>3. LocalsOf(cs) = {cs[Len(cs)].vm}
  BY <1>1, <1>2
<1>4. LocalsOf(cs) \subseteq VMs
  BY WhatIsCalled
<1> QED BY <1>1, <1>3, <1>4 DEF PendOf

LEMMA NextPausedSound ==
    ASSUME NEW U, NEW W, Now(U, W), NextPaused
    PROVE  Then(U \ {Caller.next}, W \ {Caller.next})
<1> PICK v : v = Caller.next
  OBVIOUS
<1> PICK u : u = Caller.vm
  OBVIOUS
<1> PICK L : L = LocalsOf(callers)
  OBVIOUS
<1> PICK t : t = heap.vm[v].task
  OBVIOUS
<1> PICK c : c = [Caller EXCEPT !.next = heap.vm[v].next]
  OBVIOUS
<1>0. /\ Placed(heap, PendOf(callers), L, U, W)
      /\ Tasked(heap.vm, cur.task, Alive(frames), started, U, L, W)
      /\ Stacked(heap.vm, cur.stack, stack_store, stacks, U, LentOf(callers, cur.task))
      /\ Called(callers) /\ Bottom(heap.vm, callers, cur.task)
      /\ cur \in Globals /\ frames \in [TaskNo -> Seq(Nat)] /\ started \in Nat
  BY SoundIs DEF Now
<1>1. /\ cur.task = None /\ callers # <<>> /\ callers[Len(callers)].kind = "paused" /\ v # NULL
      /\ cur' = Restored(heap, v)
      /\ callers' = Append(Below(callers), c)
      /\ heap' = Added(heap, "vmstore", v)
      /\ frames' = [frames EXCEPT ![t] = WithTicks(frames[t], PAUSED_METHOD_TICKS)]
      /\ stack_store' = (IF u # NULL /\ heap.vm[u].stack = cur.stack
                         THEN stack_store ELSE <<cur.stack>> \o stack_store)
      /\ UNCHANGED <<started, stacks>> /\ Caller = callers[Len(callers)]
  BY DEF NextPaused, Returned, Running, Caller, CallersBelow, Below
<1>2. /\ Len(callers) = 1 /\ Below(callers) = <<>> /\ Caller = callers[1]
      /\ L = {u} /\ PendOf(callers) = v /\ Caller \in Calls /\ Caller.kind = "paused" /\ u \in VMs
  BY <1>0, <1>1, RoundIs
<1>3. /\ Placed(heap', heap.vm[v].next, L, U \ {v}, W \ {v})
      /\ AgreeOn(heap.vm, heap'.vm, U) /\ v \in W /\ v \in VMs
  <2>1. Placed(heap, v, L, U, W) /\ v # NULL
    BY <1>0, <1>1, <1>2
  <2>2. /\ Placed(Added(heap, "vmstore", v), heap.vm[v].next, L, U \ {v}, W \ {v})
        /\ AgreeOn(heap.vm, Added(heap, "vmstore", v).vm, U) /\ v \in W /\ v \in VMs
    BY <2>1, NextPlaced, Zenon
  <2> QED BY <1>1, <2>2
<1>4. /\ v \in U /\ v \notin L /\ u \in U /\ heap.vm \in [VMs -> VMStates]
      /\ AgreeOn(heap.vm, heap'.vm, U \ {v})
  <2>1. L \subseteq U /\ W \subseteq U /\ L \cap W = {} /\ heap.vm \in [VMs -> VMStates]
    BY <1>0, PlacedIs
  <2> QED BY <1>2, <1>3, <2>1 DEF AgreeOn
<1>5. cur' \in Globals /\ cur'.task = t /\ cur'.stack = heap.vm[v].stack
  BY <1>1, <1>3, <1>4, RestoredIs
<1>6. c \in Calls /\ CallOf(c, TRUE) /\ c.vm = u /\ c.next = heap.vm[v].next /\ c.kind = "paused"
  <2>1. heap.vm[v].next \in VMs \cup {NULL}
    <3>1. heap.vm[v] \in VMStates
      BY <1>3, <1>4
    <3> QED BY <3>1 DEF VMStates
  <2>2. c \in Calls /\ c.vm = u /\ c.next = heap.vm[v].next /\ c.kind = "paused"
    BY <1>2, <2>1 DEF Calls
  <2> QED BY <1>2, <2>2, Numbers DEF CallOf
<1>7. /\ Called(callers') /\ LocalsOf(callers') = L /\ PendOf(callers') = heap.vm[v].next
      /\ callers' # <<>> /\ callers'[1] = c
  <2>1. callers' = <<c>>
    BY <1>1, <1>2
  <2>2. {u} \ {NULL} = {u} /\ <<c>>[1] = c
    BY <1>2, Numbers
  <2> QED BY <1>2, <1>6, <2>1, <2>2, OneCalled
<1>8. t \in Alive(frames) /\ t \in TaskNo /\ t # None
  <2>1. t \in Alive(frames)
    BY <1>0, <1>4, TaskedDropped
  <2> QED BY <2>1, Numbers DEF Alive
<1>9. frames' \in [TaskNo -> Seq(Nat)] /\ Alive(frames') = Alive(frames)
  <2>1. WithTicks(frames[t], PAUSED_METHOD_TICKS) \in Seq(Nat) /\ WithTicks(frames[t], PAUSED_METHOD_TICKS) # <<>>
    <3>1. frames[t] \in Seq(Nat) /\ frames[t] # <<>>
      BY <1>0, <1>8 DEF Alive
    <3> QED BY <3>1, TicksAre, Numbers
  <2>2. Alive(frames) \cup {t} = Alive(frames)
    BY <1>8
  <2> PICK x : x = WithTicks(frames[t], PAUSED_METHOD_TICKS)
    OBVIOUS
  <2>3. x \in Seq(Nat) /\ x # <<>> /\ frames' = [frames EXCEPT ![t] = x]
    BY <1>1, <2>1
  <2>4. /\ [frames EXCEPT ![t] = x] \in [TaskNo -> Seq(Nat)]
        /\ Alive([frames EXCEPT ![t] = x]) = IF x = <<>> THEN Alive(frames) \ {t} ELSE Alive(frames) \cup {t}
    BY <1>0, <1>8, <2>3, AliveIs
  <2> QED BY <2>2, <2>3, <2>4
<1>10. Tasked(heap'.vm, cur'.task, Alive(frames), started, U \ {v}, L, W \ {v})
  <2>1. Tasked(heap.vm, heap.vm[v].task, Alive(frames), started, U \ {v}, L, W)
    <3>1. Tasked(heap.vm, None, Alive(frames), started, U, L, W)
      BY <1>0, <1>1
    <3> QED BY <1>4, <3>1, TaskedRestored, Zenon
  <2>2. Same(L, L, U \ {v}) /\ Same(W, W \ {v}, U \ {v})
    BY DEF Same
  <2>3. Tasked(heap.vm, heap.vm[v].task, Alive(frames), started, U \ {v}, L, W \ {v})
    BY <2>1, <2>2, TaskedSets
  <2>4. Tasked(heap'.vm, heap.vm[v].task, Alive(frames), started, U \ {v}, L, W \ {v})
    BY <1>4, <2>3, TaskedAgree
  <2> QED BY <1>5, <2>4
<1>11. Stacked(heap.vm, heap.vm[v].stack, stack_store', stacks, U \ {v}, {})
  <2>1. CASE heap.vm[u].stack = cur.stack
    <3>1. Stacked(heap.vm, heap.vm[v].stack, stack_store, stacks, U \ {v}, {})
      BY <1>0, <1>4, StackedRestored, Zenon
    <3>2. stack_store' = stack_store
      BY <1>1, <1>2, <2>1, Numbers
    <3> QED BY <3>1, <3>2
  <2>2. CASE heap.vm[u].stack # cur.stack
    <3>1. LentOf(callers, cur.task) \subseteq {u}
      BY <1>2 DEF LentOf
    <3>2. \A w \in U : heap.vm[w].stack = cur.stack /\ w \in LentOf(callers, cur.task) => w \in {}
      BY <2>2, <3>1
    <3>3. Stacked(heap.vm, cur.stack, stack_store, stacks, U, {})
      BY <1>0, <3>2, StackedWider
    <3>4. Stacked(heap.vm, heap.vm[v].stack, <<cur.stack>> \o stack_store, stacks, U \ {v}, {})
      BY <1>4, <3>3, StackedGiven
    <3>5. stack_store' = <<cur.stack>> \o stack_store
      BY <1>1, <2>2
    <3> QED BY <3>4, <3>5
  <2> QED BY <2>1, <2>2
<1>12. Stacked(heap'.vm, cur'.stack, stack_store', stacks', U \ {v}, LentOf(callers', cur'.task))
  <2>1. Stacked(heap'.vm, heap.vm[v].stack, stack_store', stacks, U \ {v}, {})
    BY <1>4, <1>11, StackedAgree
  <2>2. Stacked(heap'.vm, cur'.stack, stack_store', stacks', U \ {v}, {})
    BY <1>1, <1>5, <2>1
  <2> QED BY <2>2, NotLent
<1>13. Bottom(heap'.vm, callers', cur'.task)
  <2>1. heap'.vm[u].task = heap.vm[u].task /\ heap.vm[u].task = None
    BY <1>0, <1>1, <1>2, <1>3, <1>4 DEF AgreeOn, Bottom
  <2> QED BY <1>6, <1>7, <2>1 DEF Bottom
<1>14. Then(U \ {v}, W \ {v})
  BY <1>0, <1>1, <1>3, <1>5, <1>7, <1>9, <1>10, <1>12, <1>13 DEF Then, Sound
<1> QED BY <1>14

LEMMA PausedEndSound ==
    ASSUME NEW U, NEW W, Now(U, W), PausedEnd
    PROVE  Then(U \ {Caller.vm}, W \ {Caller.vm})
<1> PICK v : v = Caller.vm
  OBVIOUS
<1> PICK L : L = LocalsOf(callers)
  OBVIOUS
<1>0. /\ Placed(heap, PendOf(callers), L, U, W)
      /\ Tasked(heap.vm, cur.task, Alive(frames), started, U, L, W)
      /\ Stacked(heap.vm, cur.stack, stack_store, stacks, U, LentOf(callers, cur.task))
      /\ Called(callers) /\ Bottom(heap.vm, callers, cur.task)
      /\ cur \in Globals /\ frames \in [TaskNo -> Seq(Nat)] /\ started \in Nat
  BY SoundIs DEF Now
<1>1. /\ cur.task = None /\ callers # <<>> /\ callers[Len(callers)].kind = "paused" /\ Caller.next = NULL
      /\ callers' = Below(callers) /\ cur' = Restored(heap, v) /\ heap' = Added(heap, "vmstore", v)
      /\ stack_store' = <<cur.stack>> \o stack_store
      /\ UNCHANGED <<started, frames, stacks>> /\ Caller = callers[Len(callers)]
  BY DEF PausedEnd, Returned, Running, Caller, CallersBelow, Below
<1>2. /\ Len(callers) = 1 /\ callers' = <<>> /\ Caller = callers[1]
      /\ L = {v} /\ PendOf(callers) = NULL /\ Caller.kind = "paused" /\ v \in VMs
  BY <1>0, <1>1, RoundIs
<1>3. /\ Placed(heap', NULL, L \ {v}, U \ {v}, W \ {v})
      /\ AgreeOn(heap.vm, heap'.vm, U) /\ v \in L
  BY <1>0, <1>1, <1>2, GivenBackPlaced
<1>4. /\ v \in U /\ heap.vm \in [VMs -> VMStates] /\ AgreeOn(heap.vm, heap'.vm, U \ {v}) /\ L \ {v} = {}
  <2>1. L \subseteq U /\ heap.vm \in [VMs -> VMStates]
    BY <1>0, PlacedIs
  <2> QED BY <1>2, <1>3, <2>1 DEF AgreeOn
<1>5. cur' \in Globals /\ cur'.task = heap.vm[v].task /\ cur'.stack = heap.vm[v].stack /\ heap.vm[v].task = None
  <2>1. heap.vm[v].task = None
    BY <1>0, <1>1, <1>2 DEF Bottom
  <2> QED BY <1>1, <1>2, <1>4, <2>1, RestoredIs
<1>6. Tasked(heap'.vm, cur'.task, Alive(frames), started, U \ {v}, {}, W \ {v})
  <2>1. Tasked(heap.vm, heap.vm[v].task, Alive(frames), started, U \ {v}, L, W)
    <3>1. Tasked(heap.vm, None, Alive(frames), started, U, L, W)
      BY <1>0, <1>1
    <3> QED BY <1>4, <3>1, TaskedRestored, Zenon
  <2>2. Same(L, {}, U \ {v}) /\ Same(W, W \ {v}, U \ {v})
    BY <1>2 DEF Same
  <2>3. Tasked(heap.vm, heap.vm[v].task, Alive(frames), started, U \ {v}, {}, W \ {v})
    BY <2>1, <2>2, TaskedSets
  <2>4. Tasked(heap'.vm, heap.vm[v].task, Alive(frames), started, U \ {v}, {}, W \ {v})
    BY <1>4, <2>3, TaskedAgree
  <2> QED BY <1>5, <2>4
<1>7. Stacked(heap'.vm, cur'.stack, stack_store', stacks', U \ {v}, LentOf(callers', cur'.task))
  <2>1. LentOf(callers, cur.task) = {}
    BY <1>1, <1>2, NoneLent
  <2>2. Stacked(heap.vm, heap.vm[v].stack, <<cur.stack>> \o stack_store, stacks, U \ {v}, {})
    BY <1>0, <1>4, <2>1, StackedGiven
  <2>3. Stacked(heap'.vm, heap.vm[v].stack, <<cur.stack>> \o stack_store, stacks, U \ {v}, {})
    BY <1>4, <2>2, StackedAgree
  <2>4. Stacked(heap'.vm, cur'.stack, stack_store', stacks', U \ {v}, {})
    BY <1>1, <1>5, <2>3
  <2> QED BY <2>4, NotLent
<1>8. Bottom(heap'.vm, callers', cur'.task)
  BY <1>2, <1>5 DEF Bottom
<1>9. Called(callers') /\ LocalsOf(callers') = {} /\ PendOf(callers') = NULL
  BY <1>2, NoneCalled
<1>10. Then(U \ {v}, W \ {v})
  BY <1>0, <1>1, <1>3, <1>4, <1>5, <1>6, <1>7, <1>8, <1>9 DEF Then, Sound
<1> QED BY <1>10

LEMMA RunPausedSound ==
    ASSUME NEW U, NEW W, Now(U, W), RunPausedTasks
    PROVE  \E U2, W2 : Then(U2, W2)
<1> PICK v : v = Taken(heap)
  OBVIOUS
<1> PICK L : L = LocalsOf(callers)
  OBVIOUS
<1> PICK c : c = [kind |-> "paused", vm |-> v, next |-> heap.paused]
  OBVIOUS
<1>0. /\ Placed(heap, PendOf(callers), L, U, W)
      /\ Tasked(heap.vm, cur.task, Alive(frames), started, U, L, W)
      /\ Stacked(heap.vm, cur.stack, stack_store, stacks, U, LentOf(callers, cur.task))
      /\ Called(callers) /\ Bottom(heap.vm, callers, cur.task)
      /\ cur \in Globals /\ frames \in [TaskNo -> Seq(Nat)] /\ started \in Nat
  BY SoundIs DEF Now
<1>1. /\ callers = <<>> /\ cur.task = None
      /\ heap.paused = NULL => heap' = heap /\ callers' = callers
      /\ heap.paused # NULL => /\ CanPark(heap) /\ heap' = [Parked(heap, FALSE) EXCEPT !.paused = NULL]
                               /\ callers' = <<c>>
      /\ UNCHANGED <<cur, started, frames, stack_store, stacks>>
  BY DEF RunPausedTasks, InMain
<1>2. CASE heap.paused = NULL
  <2>1. Then(U, W)
    BY <1>1, <1>2 DEF Now, Then, Sound
  <2> QED BY <2>1, Zenon
<1>3. CASE heap.paused # NULL
  <2>1. L = {} /\ PendOf(callers) = NULL
    BY <1>1, NoneCalled
  <2>2. /\ Placed(heap', heap.paused, L \cup {v}, U \cup {v}, W)
        /\ Parks(heap.vm, heap'.vm, U, v, FALSE)
    <3>1. Placed(heap, NULL, L, U, W)
      BY <1>0, <2>1
    <3>2. /\ Placed([Parked(heap, FALSE) EXCEPT !.paused = NULL], heap.paused, L \cup {Taken(heap)},
                    U \cup {Taken(heap)}, W)
          /\ Parks(heap.vm, [Parked(heap, FALSE) EXCEPT !.paused = NULL].vm, U, Taken(heap), FALSE)
      <4>1. CanPark(heap) /\ cur \in Globals
        BY <1>0, <1>1, <1>3
      <4> QED BY <3>1, <4>1, TakeAllPlaced, Zenon
    <3>3. heap' = [Parked(heap, FALSE) EXCEPT !.paused = NULL]
      BY <1>1, <1>3
    <3> QED BY <3>2, <3>3
  <2>3. /\ v \in VMs /\ v \notin U /\ v \notin W /\ heap.paused \in VMs
        /\ heap'.vm[v].task = None /\ L \cup {v} = {v}
    <3>1. W \subseteq U /\ heap \in Heaps
      BY <1>0, PlacedIs
    <3>2. heap.paused \in VMs \cup {NULL}
      BY <3>1 DEF Heaps
    <3> QED BY <1>1, <1>3, <2>1, <2>2, <3>1, <3>2 DEF Parks, Holds
  <2>4. c \in Calls /\ CallOf(c, TRUE) /\ c.vm = v /\ c.next = heap.paused /\ c.kind = "paused"
    BY <2>3, Numbers DEF Calls, CallOf
  <2>5. /\ Called(callers') /\ LocalsOf(callers') = {v} /\ PendOf(callers') = heap.paused
        /\ callers' # <<>> /\ callers'[1] = c /\ Len(callers') = 1
    <3>1. {v} \ {NULL} = {v} /\ <<c>>[1] = c
      BY <2>3, Numbers
    <3> QED BY <1>1, <1>3, <2>4, <3>1, OneCalled
  <2>6. Tasked(heap'.vm, None, Alive(frames), started, U \cup {v}, {v}, W)
    <3>1. L \subseteq {v} /\ Same(W, W, U) /\ (FALSE <=> v \in W) /\ v \in {v}
      BY <2>1, <2>3 DEF Same
    <3> QED BY <1>0, <2>2, <3>1, TaskedParked
  <2>7. Stacked(heap'.vm, cur.stack, stack_store, stacks, U \cup {v}, LentOf(callers', None))
    <3>1. LentOf(callers, cur.task) = {}
      BY <1>1, NoneLent
    <3>2. Stacked(heap'.vm, cur.stack, stack_store, stacks, U \cup {v}, {v})
      BY <1>0, <2>2, <3>1, StackedParked
    <3>3. v \in LentOf(callers', None)
      BY <1>3, <2>3, <2>4, <2>5 DEF LentOf
    <3> QED BY <3>2, <3>3, StackedWider
  <2>8. Bottom(heap'.vm, callers', cur'.task)
    BY <1>1, <2>3, <2>4, <2>5 DEF Bottom
  <2>9. Then(U \cup {v}, W)
    BY <1>0, <1>1, <2>2, <2>3, <2>5, <2>6, <2>7, <2>8 DEF Then, Sound
  <2> QED BY <2>9, Zenon
<1> QED BY <1>2, <1>3

LEMMA StepSound ==
    ASSUME NEW U, NEW W, Now(U, W), Next, ~astray'
    PROVE  \E U2, W2 : Then(U2, W2)
<1>1. CASE StartTask
  BY <1>1, StartTaskSound, Zenon
<1>2. CASE FrameStart
  BY <1>2, FrameStartSound, Zenon
<1>3. CASE FrameReturn
  BY <1>3, FrameReturnSound, Zenon
<1>4. CASE TaskSuspend
  BY <1>4, SuspendSound, Zenon
<1>5. CASE TaskPause
  BY <1>5, PauseSound, Zenon
<1>6. ASSUME NEW tid \in TaskNo, TaskResume(tid)
      PROVE  \E U2, W2 : Then(U2, W2)
  BY <1>6, ResumeSound, Zenon
<1>7. ASSUME NEW tid \in TaskNo, TaskCancel(tid)
      PROVE  \E U2, W2 : Then(U2, W2)
  BY <1>7, CancelSound, Zenon
<1>8. CASE TaskEnds
  BY <1>8, TaskEndsSound, Zenon
<1>9. CASE ResumeEnds
  BY <1>9, ResumeEndsSound, Zenon
<1>10. CASE NextPaused
  BY <1>10, NextPausedSound, Zenon
<1>11. CASE PausedEnd
  BY <1>11, PausedEndSound, Zenon
<1>12. CASE MainStep
  BY <1>12, MainStepSound, Zenon
<1>13. CASE RunPausedTasks
  BY <1>13, RunPausedSound, Zenon
<1>14. ~NotFollowed
  BY DEF NotFollowed, vars
<1> QED
  BY <1>1, <1>2, <1>3, <1>4, <1>5, <1>6, <1>7, <1>8, <1>9, <1>10, <1>11, <1>12, <1>13, <1>14, Zenon
  DEF Next, Execute, Ending

(* Nothing but NotFollowed happens once a task was asked for that the lists  *)
(* cannot give up.                                                           *)
LEMMA NotAstray ==
    ASSUME [Next]_vars, ~astray'
    PROVE  ~astray
<1>1. CASE UNCHANGED vars \/ NotFollowed
  BY <1>1 DEF vars, NotFollowed
<1>2. CASE StartTask \/ MainStep \/ RunPausedTasks
  BY <1>2, Zenon DEF StartTask, MainStep, RunPausedTasks, InMain
<1>3. CASE FrameStart \/ FrameReturn \/ TaskSuspend \/ TaskPause
  BY <1>3, Zenon DEF FrameStart, FrameReturn, TaskSuspend, TaskPause, Spend, MayExecute
<1>4. CASE \E tid \in TaskNo : TaskResume(tid) \/ TaskCancel(tid)
  BY <1>4, Zenon DEF TaskResume, TaskCancel, MayExecute
<1>5. CASE Ending
  BY <1>5, Zenon DEF Ending, TaskEnds, ResumeEnds, NextPaused, PausedEnd, Returned
<1> QED BY <1>1, <1>2, <1>3, <1>4, <1>5, Zenon DEF Next, Execute

LEMMA NextIInv ==
    ASSUME IInv, [Next]_vars
    PROVE  IInv'
<1>1. CASE astray'
  BY <1>1, Zenon DEF IInv
<1>2. CASE ~astray'
  <2>1. ~astray
    BY <1>2, NotAstray
  <2> PICK U, W : Now(U, W)
    BY <2>1, Zenon DEF IInv, Ordered, Now
  <2>2. \E U2, W2 : Then(U2, W2)
    <3>1. CASE Next
      BY <1>2, <3>1, StepSound, Zenon
    <3>2. CASE UNCHANGED vars
      <4>1. Then(U, W)
        BY <3>2 DEF vars, Now, Then
      <4> QED BY <4>1, Zenon
    <3> QED BY <3>1, <3>2
  <2> QED BY <2>2, Zenon DEF IInv, Ordered, Then
<1> QED BY <1>1, <1>2

-----------------------------------------------------------------------------
LEMMA NoNodes ==
    ASSUME NEW h
    PROVE  Nodes(h, NULL) = {}
BY EmptyChain, ChainIsASet

LEMMA PendingIs ==
    ASSUME Called(callers)
    PROVE  Pending = Nodes(heap, PendOf(callers)) /\ Locals = LocalsOf(callers)
<1>1. /\ {callers[i].vm : i \in DOMAIN callers} \ {NULL} = LocalsOf(callers)
      /\ \A i \in DOMAIN callers : callers[i].next = IF i = 1 THEN PendOf(callers) ELSE NULL
      /\ callers = <<>> \/ 1 \in DOMAIN callers
  BY WhatIsCalled
<1> PICK S : S = Nodes(heap, PendOf(callers))
  OBVIOUS
<1>2. \A i \in DOMAIN callers : Nodes(heap, callers[i].next) = IF i = 1 THEN S ELSE {}
  BY <1>1, NoNodes
<1>3. ASSUME NEW v \in Pending PROVE v \in S
  <2>1. PICK i \in DOMAIN callers : v \in Nodes(heap, callers[i].next)
    BY Zenon DEF Pending
  <2> QED BY <1>2, <2>1
<1>4. ASSUME NEW v \in S PROVE v \in Pending
  <2>1. callers # <<>>
    BY NoNodes, NoneCalled
  <2>2. 1 \in DOMAIN callers /\ Nodes(heap, callers[1].next) = S
    BY <1>1, <1>2, <2>1
  <2> QED BY <2>2, Zenon DEF Pending
<1>5. Locals = LocalsOf(callers)
  BY <1>1, Zenon DEF Locals
<1> QED BY <1>3, <1>4, <1>5

(* The five places of ListsSound.                                            *)
Apart(A, B, C, D, E) ==
    /\ A \cap B = {} /\ A \cap C = {} /\ A \cap D = {} /\ A \cap E = {} /\ B \cap C = {}
    /\ B \cap D = {} /\ B \cap E = {} /\ C \cap D = {} /\ C \cap E = {} /\ D \cap E = {}

LEMMA FivePlaces ==
    ASSUME NEW U, NEW W, Now(U, W)
    PROVE  /\ Apart(Waiters, Paused, Spare, Pending, Locals)
           /\ Waiters \cup Paused \cup Spare \cup Pending \cup Locals = 1 .. heap.allocated
           /\ U = (1 .. heap.allocated) \ Spare /\ W = Paused \cup Pending /\ U \subseteq VMs
           /\ Ends(heap, heap.tasks) /\ Ends(heap, heap.paused) /\ Ends(heap, heap.vmstore)
<1>1. Placed(heap, PendOf(callers), LocalsOf(callers), U, W) /\ Called(callers)
  BY SoundIs DEF Now
<1>2. Pending = Nodes(heap, PendOf(callers)) /\ Locals = LocalsOf(callers)
  BY <1>1, PendingIs
<1> PICK q : q = PendOf(callers)
  OBVIOUS
<1>3. PICK C : ListsAre(heap, q, Locals, U, W, C)
  BY <1>1, <1>2, PlacedLists
<1> DEFINE n == heap.allocated
<1>4. /\ Sorted(heap.vm, HeadsOf(heap, q), C, Locals, n)
      /\ ToSet(C["tasks"]) = Waiters /\ ToSet(C["paused"]) = Paused
      /\ ToSet(C["vmstore"]) = Spare /\ ToSet(C["pending"]) = Pending
      /\ Ends(heap, heap.tasks) /\ Ends(heap, heap.paused) /\ Ends(heap, heap.vmstore)
  BY <1>2, <1>3 DEF ListsAre, Outcome, HeapSorted, Waiters, Paused, Spare
<1>5. /\ Locals \subseteq 1 .. n
      /\ \A l \in Places : ToSet(C[l]) \subseteq 1 .. n /\ ToSet(C[l]) \cap Locals = {}
      /\ \A l, m \in Places : l # m => ToSet(C[l]) \cap ToSet(C[m]) = {}
      /\ \A v \in 1 .. n : v \in Locals \/ \E l \in Places : v \in ToSet(C[l])
  BY <1>4, Zenon DEF Sorted
<1>6. Apart(Waiters, Paused, Spare, Pending, Locals)
  <2>1. /\ "tasks" \in Places /\ "paused" \in Places /\ "vmstore" \in Places /\ "pending" \in Places
        /\ "tasks" # "paused" /\ "tasks" # "vmstore" /\ "tasks" # "pending"
        /\ "paused" # "vmstore" /\ "paused" # "pending" /\ "vmstore" # "pending"
    BY DEF Places
  <2>2. /\ ToSet(C["tasks"]) \cap ToSet(C["paused"]) = {} /\ ToSet(C["tasks"]) \cap ToSet(C["vmstore"]) = {}
        /\ ToSet(C["tasks"]) \cap ToSet(C["pending"]) = {} /\ ToSet(C["paused"]) \cap ToSet(C["vmstore"]) = {}
        /\ ToSet(C["paused"]) \cap ToSet(C["pending"]) = {} /\ ToSet(C["vmstore"]) \cap ToSet(C["pending"]) = {}
    BY <1>5, <2>1, Zenon
  <2>3. /\ ToSet(C["tasks"]) \cap Locals = {} /\ ToSet(C["paused"]) \cap Locals = {}
        /\ ToSet(C["vmstore"]) \cap Locals = {} /\ ToSet(C["pending"]) \cap Locals = {}
    BY <1>5, <2>1, Zenon
  <2> QED BY <1>4, <2>2, <2>3, Zenon DEF Apart
<1>7. Waiters \cup Paused \cup Spare \cup Pending \cup Locals = 1 .. n
  <2>1. ASSUME NEW v \in 1 .. n PROVE v \in Waiters \cup Paused \cup Spare \cup Pending \cup Locals
    <3>1. CASE v \in Locals
      BY <3>1
    <3>2. CASE \E l \in Places : v \in ToSet(C[l])
      <4>1. PICK l \in Places : v \in ToSet(C[l])
        BY <3>2
      <4>2. l = "tasks" \/ l = "paused" \/ l = "vmstore" \/ l = "pending"
        BY DEF Places
      <4> QED BY <1>4, <4>1, <4>2
    <3> QED BY <1>5, <3>1, <3>2
  <2>2. Waiters \subseteq 1 .. n /\ Paused \subseteq 1 .. n /\ Spare \subseteq 1 .. n /\ Pending \subseteq 1 .. n
    <3>1. "tasks" \in Places /\ "paused" \in Places /\ "vmstore" \in Places /\ "pending" \in Places
      BY DEF Places
    <3>2. ToSet(C["tasks"]) \subseteq 1 .. n /\ ToSet(C["paused"]) \subseteq 1 .. n
          /\ ToSet(C["vmstore"]) \subseteq 1 .. n /\ ToSet(C["pending"]) \subseteq 1 .. n
      BY <1>5, <3>1, Zenon
    <3> QED BY <1>4, <3>2
  <2> QED BY <1>5, <2>1, <2>2
<1>8. U = (1 .. n) \ Spare /\ W = Paused \cup Pending /\ U \subseteq VMs
  BY <1>1, <1>2, PlacedIs DEF Spare, Paused
<1> QED BY <1>4, <1>6, <1>7, <1>8

LEMMA OrderedLists ==
    ASSUME Ordered
    PROVE  ListsSound
<1> PICK U, W : Now(U, W)
  BY Zenon DEF Ordered, Now
<1> DEFINE places == <<Waiters, Paused, Spare, Pending, Locals>>
<1> PICK A : A = Waiters
  OBVIOUS
<1> PICK B : B = Paused
  OBVIOUS
<1> PICK C : C = Spare
  OBVIOUS
<1> PICK D : D = Pending
  OBVIOUS
<1> PICK E : E = Locals
  OBVIOUS
<1>0. places = <<A, B, C, D, E>>
  OBVIOUS
<1>1. /\ Apart(A, B, C, D, E) /\ A \cup B \cup C \cup D \cup E = 1 .. heap.allocated
      /\ Ends(heap, heap.tasks) /\ Ends(heap, heap.paused) /\ Ends(heap, heap.vmstore)
  BY FivePlaces
<1>2. \A list \in {"tasks", "paused", "vmstore"} : Ends(heap, heap[list])
  BY <1>1
<1> HIDE DEF places
<1>3. \A i, j \in 1 .. 5 : i # j => places[i] \cap places[j] = {}
  <2> SUFFICES ASSUME NEW i \in 1 .. 5, NEW j \in 1 .. 5, i # j PROVE places[i] \cap places[j] = {}
    OBVIOUS
  <2>1. places[1] = A /\ places[2] = B /\ places[3] = C /\ places[4] = D /\ places[5] = E
    BY <1>0
  <2>2. (i = 1 \/ i = 2 \/ i = 3 \/ i = 4 \/ i = 5) /\ (j = 1 \/ j = 2 \/ j = 3 \/ j = 4 \/ j = 5)
    OBVIOUS
  <2>3. /\ A \cap B = {} /\ A \cap C = {} /\ A \cap D = {} /\ A \cap E = {} /\ B \cap C = {}
        /\ B \cap D = {} /\ B \cap E = {} /\ C \cap D = {} /\ C \cap E = {} /\ D \cap E = {}
    BY <1>1, Zenon DEF Apart
  <2>4. \A x, y : x \cap y = {} => y \cap x = {}
    OBVIOUS
  <2>5. /\ B \cap A = {} /\ C \cap A = {} /\ D \cap A = {} /\ E \cap A = {} /\ C \cap B = {}
        /\ D \cap B = {} /\ E \cap B = {} /\ D \cap C = {} /\ E \cap C = {} /\ E \cap D = {}
    BY <2>3, <2>4, Zenon
  <2> QED BY <2>1, <2>2, <2>3, <2>5
<1>4. UNION Range(places) = A \cup B \cup C \cup D \cup E
  <2>1. Range(places) = {A, B, C, D, E}
    <3>1. DOMAIN places = {1, 2, 3, 4, 5}
      BY <1>0
    <3>2. places[1] = A /\ places[2] = B /\ places[3] = C /\ places[4] = D /\ places[5] = E
      BY <1>0
    <3> QED BY <3>1, <3>2 DEF Range
  <2> QED BY <2>1
<1> QED BY <1>1, <1>2, <1>3, <1>4, Zenon DEF ListsSound, places

LEMMA CountTo ==
    ASSUME NEW k \in Nat
    PROVE  IsFiniteSet(1 .. k) /\ Cardinality(1 .. k) = k
BY FS_Interval

LEMMA OrderedTasks ==
    ASSUME Ordered
    PROVE  TasksAccountedFor
<1> PICK U, W : Now(U, W)
  BY Zenon DEF Ordered, Now
<1>1. /\ Tasked(heap.vm, cur.task, Alive(frames), started, U, LocalsOf(callers), W)
      /\ U = (1 .. heap.allocated) \ Spare /\ W = Paused \cup Pending
  BY SoundIs, FivePlaces DEF Now
<1> DEFINE At(x) == {v \in U : heap.vm[v].task = x}
<1>2. ASSUME NEW x \in TaskNo
      PROVE  /\ Cardinality(At(x)) + (IF cur.task = x THEN 1 ELSE 0) = (IF frames[x] # <<>> THEN 1 ELSE 0)
             /\ \A v \in At(x) : heap.vm[v].paused <=> v \in W
  <2>0. x # None
    BY Numbers
  <2>1. /\ \A v, w \in U : v # w /\ heap.vm[v].task = heap.vm[w].task => heap.vm[v].task = None
        /\ \A v \in U : heap.vm[v].task = cur.task => cur.task = None
        /\ (frames[x] # <<>>) <=> (cur.task = x \/ \E v \in U : heap.vm[v].task = x)
        /\ \A v \in U : heap.vm[v].paused <=> v \in W
    BY <1>1 DEF Tasked, Alive
  <2>2. CASE At(x) = {}
    <3>1. Cardinality(At(x)) = 0
      BY <2>2, FS_EmptySet
    <3>2. (frames[x] # <<>>) <=> (cur.task = x)
      BY <2>1, <2>2
    <3>3. \A v \in At(x) : heap.vm[v].paused <=> v \in W
      BY <2>1
    <3> QED BY <3>1, <3>2, <3>3
  <2>3. CASE At(x) # {}
    <3>1. PICK v \in U : heap.vm[v].task = x
      BY <2>3
    <3>2. At(x) = {v}
      BY <2>0, <2>1, <3>1
    <3>3. Cardinality(At(x)) = 1
      BY <3>2, FS_Singleton
    <3>4. cur.task # x /\ frames[x] # <<>>
      BY <2>0, <2>1, <3>1
    <3>5. \A w \in At(x) : heap.vm[w].paused <=> w \in W
      BY <2>1
    <3> QED BY <3>3, <3>4, <3>5
  <2> QED BY <2>2, <2>3
<1> QED BY <1>1, <1>2, Zenon DEF TasksAccountedFor

LEMMA OrderedStacks ==
    ASSUME Ordered
    PROVE  StacksExclusive
<1> PICK U, W : Now(U, W)
  BY Zenon DEF Ordered, Now
<1>1. /\ Stacked(heap.vm, cur.stack, stack_store, stacks, U, LentOf(callers, cur.task))
      /\ U = (1 .. heap.allocated) \ Spare
  BY SoundIs, FivePlaces DEF Now
<1>2. Range(stack_store) = ToSet(stack_store)
  BY Zenon DEF Range, ToSet
<1>3. /\ stack_store \in Seq(Nat) /\ IsInjective(stack_store) /\ cur.stack \notin Range(stack_store)
      /\ \A v \in U : heap.vm[v].stack \notin Range(stack_store)
      /\ \A v, w \in U : heap.vm[v].stack = heap.vm[w].stack => v = w
  BY <1>1, <1>2, Zenon DEF Stacked
<1>4. Cardinality(Range(stack_store)) = Len(stack_store)
  <2> PICK k : k = Len(stack_store)
    OBVIOUS
  <2>1. k \in Nat /\ DOMAIN stack_store = 1 .. k /\ stack_store \in [1 .. k -> Nat]
    BY <1>3, LenProperties
  <2>2. stack_store \in Bijection(1 .. k, ToSet(stack_store))
    <3>1. stack_store \in [1 .. k -> ToSet(stack_store)]
      BY <2>1 DEF ToSet
    <3>3. \A y \in ToSet(stack_store) : \E i \in 1 .. k : stack_store[i] = y
      BY <2>1 DEF ToSet
    <3> QED BY <1>3, <3>1, <3>3, Zenon DEF Bijection, Injection, Surjection
  <2>3. IsFiniteSet(1 .. k) /\ Cardinality(1 .. k) = k
    BY <2>1, CountTo, Zenon
  <2>4. Cardinality(ToSet(stack_store)) = Cardinality(1 .. k)
    BY <2>2, <2>3, FS_Bijection, Zenon DEF ExistsBijection
  <2> QED BY <1>2, <2>3, <2>4
<1> QED BY <1>1, <1>3, <1>4, Zenon DEF StacksExclusive

-----------------------------------------------------------------------------
LEMMA AlwaysIInv ==
    Spec => []IInv
BY InitIInv, NextIInv, PTL DEF Spec

(* The lists of VMStates end and share none with each other or with a C      *)
(* variable of a caller of execute(), and none is lost: execute.c's          *)
(* ADD_TO_LIST, REMOVE_FROM_LIST, suspend_vm and run_paused_tasks, whatever  *)
(* resume() and cancel() are asked for, until it is the second task of a     *)
(* list, or a paused one with resume().                                      *)
THEOREM ListsAreSound ==
    Spec => []ListsSound
<1>1. IInv => ListsSound
  <2>1. CASE astray
    BY <2>1, Zenon DEF ListsSound
  <2>2. CASE Ordered
    BY <2>2, OrderedLists
  <2> QED BY <2>1, <2>2, Zenon DEF IInv
<1> QED BY <1>1, AlwaysIInv, PTL

(* A task that has frames is the one that runs or the one that just one      *)
(* VMState in use stands for, and that VMState is marked paused just if it   *)
(* came from task_pause: nothing a task does to another one loses it, until  *)
(* one is resumed or cancelled that its list cannot give up.                 *)
THEOREM TasksAreAccountedFor ==
    Spec => []TasksAccountedFor
<1>1. IInv => TasksAccountedFor
  <2>1. CASE astray
    BY <2>1, Zenon DEF TasksAccountedFor
  <2>2. CASE Ordered
    BY <2>2, OrderedTasks
  <2> QED BY <2>1, <2>2, Zenon DEF IInv
<1> QED BY <1>1, AlwaysIInv, PTL

(* No two tasks share a stack, and none has one that init_execute may give   *)
(* to the next: suspend_vm, restore_vm and the two places where              *)
(* run_paused_tasks and task_resume put stacks into stack_store; as long as  *)
(* the lists are sound.                                                      *)
THEOREM StacksAreExclusive ==
    Spec => []StacksExclusive
<1>1. IInv => StacksExclusive
  <2>1. CASE astray
    BY <2>1, Zenon DEF StacksExclusive
  <2>2. CASE Ordered
    BY <2>2, OrderedStacks
  <2> QED BY <2>1, <2>2, Zenon DEF IInv
<1> QED BY <1>1, AlwaysIInv, PTL
=============================================================================
