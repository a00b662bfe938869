---------------------------- MODULE ValuesProofs -----------------------------
(* Proofs about the values of the interpreter that are shared and counted:   *)
(* the identifiers (Idents), the dictionaries (Dicts), the buffers (Buffers) *)
(* and the strings (Strings), for every set of names, keys, variables and    *)
(* sizes. First the chains of a hash table and the identifiers, then what    *)
(* counted values have in common, then each kind of value.                   *)
EXTENDS Idents, Dicts, Buffers, Strings,
        FiniteSetTheorems, SequenceTheorems, WellFoundedInduction, TLAPS

-----------------------------------------------------------------------------
(* ident.c: its table of hash chains and blanks, for every set of names,     *)
(* permanent ones, sizes and growth. A chain is first reasoned about as a    *)
(* set of entries in a line; then the table as one line for each hash and    *)
(* one of blanks; then the three operations.                                 *)

(* The members of M, in a chain from h on: none is followed by h, no two by  *)
(* the same, and nothing less than all of them can be walked through.        *)
Line(next, M, h) ==
    /\ M \subseteq DOMAIN next /\ -1 \notin DOMAIN next /\ h \in M \cup {-1}
    /\ \A i \in M : next[i] \in M \cup {-1} /\ next[i] # h
    /\ \A i, j \in M : next[i] = next[j] /\ next[i] # -1 => i = j
    /\ \A S \in SUBSET M : h \in S \cup {-1} /\ (\A i \in S : next[i] \in S \cup {-1}) => S = M

LEMMA LineReached ==
    ASSUME NEW next, NEW M, NEW h, Line(next, M, h)
    PROVE  Reached(next, h) = M
<1>1. ASSUME NEW i \in M, NEW S \in SUBSET DOMAIN next, h \in S \cup {-1},
             \A j \in S : next[j] \in S \cup {-1}
      PROVE  i \in S
  <2> PICK T : T = S \cap M
    OBVIOUS
  <2>1. T \in SUBSET M /\ h \in T \cup {-1} /\ \A j \in T : next[j] \in T \cup {-1}
    BY <1>1 DEF Line
  <2>2. T = M
    BY <2>1, Zenon DEF Line
  <2> QED BY <2>2
<1>2. M \in SUBSET DOMAIN next /\ h \in M \cup {-1} /\ \A j \in M : next[j] \in M \cup {-1}
  BY DEF Line
<1>3. Reached(next, h) \subseteq M
  BY <1>2 DEF Reached
<1>4. M \subseteq Reached(next, h)
  BY <1>1, <1>2 DEF Reached
<1> QED BY <1>3, <1>4

LEMMA LineEmpty ==
    ASSUME NEW next, -1 \notin DOMAIN next
    PROVE  Line(next, {}, -1)
BY DEF Line

LEMMA LineEnds ==
    ASSUME NEW next, NEW M, NEW h, Line(next, M, h)
    PROVE  /\ h = -1 <=> M = {}
           /\ h # -1 => h \in M
<1>1. h = -1 => M = {}
  <2>1. {} \in SUBSET M /\ \A i \in {} : next[i] \in {} \cup {-1}
    OBVIOUS
  <2> QED BY <2>1, Zenon DEF Line
<1> QED BY <1>1 DEF Line

(* The same entries in another array.                                        *)
SameOn(next, new, M) ==
    M \subseteq DOMAIN new /\ -1 \notin DOMAIN new /\ \A i \in M : new[i] = next[i]

LEMMA LineSame ==
    ASSUME NEW next, NEW M, NEW h, Line(next, M, h), NEW new, SameOn(next, new, M)
    PROVE  Line(new, M, h)
<1>1. \A i \in M : new[i] \in M \cup {-1} /\ new[i] # h
  BY DEF Line, SameOn
<1>2. \A i, j \in M : new[i] = new[j] /\ new[i] # -1 => i = j
  BY Zenon DEF Line, SameOn
<1>3. ASSUME NEW S \in SUBSET M, h \in S \cup {-1}, \A i \in S : new[i] \in S \cup {-1}
      PROVE  S = M
  <2>1. \A i \in S : next[i] \in S \cup {-1}
    BY <1>3 DEF SameOn
  <2> QED BY <1>3, <2>1, Zenon DEF Line
<1>4. M \subseteq DOMAIN new /\ -1 \notin DOMAIN new /\ h \in M \cup {-1}
  BY Zenon DEF Line, SameOn
<1> QED BY <1>1, <1>2, <1>3, <1>4, Zenon DEF Line

(* An entry at the head.                                                     *)
LEMMA LinePush ==
    ASSUME NEW next, NEW M, NEW h, Line(next, M, h), NEW e, e \notin M, e # -1,
           NEW new, SameOn(next, new, M), e \in DOMAIN new, new[e] = h
    PROVE  Line(new, M \cup {e}, e)
<1>0. h # e /\ h \in M \cup {-1}
  BY DEF Line
<1>1. \A i \in M \cup {e} : new[i] \in (M \cup {e}) \cup {-1} /\ new[i] # e
  BY <1>0 DEF Line, SameOn
<1>2. ASSUME NEW i \in M \cup {e}, NEW j \in M \cup {e}, new[i] = new[j], new[i] # -1
      PROVE  i = j
  <2>1. ASSUME NEW x \in M PROVE new[x] # h /\ new[x] = next[x]
    BY DEF Line, SameOn
  <2>2. CASE i \in M /\ j \in M
    <3>1. next[i] = next[j] /\ next[i] # -1
      BY <1>2, <2>1, <2>2
    <3> QED BY <2>2, <3>1, Zenon DEF Line
  <2>3. CASE ~(i \in M /\ j \in M)
    BY <1>2, <2>1, <2>3
  <2> QED BY <2>2, <2>3
<1>3. ASSUME NEW S \in SUBSET (M \cup {e}), e \in S \cup {-1}, \A i \in S : new[i] \in S \cup {-1}
      PROVE  S = M \cup {e}
  <2> PICK T : T = S \ {e}
    OBVIOUS
  <2>1. e \in S /\ new[e] \in S \cup {-1}
    BY <1>3
  <2>2. T \in SUBSET M /\ h \in T \cup {-1}
    BY <1>0, <2>1
  <2>3. \A i \in T : next[i] \in T \cup {-1}
    BY <1>3, <2>2 DEF Line, SameOn
  <2>4. T = M
    BY <2>2, <2>3, Zenon DEF Line
  <2> QED BY <2>1, <2>4
<1>4. M \cup {e} \subseteq DOMAIN new /\ -1 \notin DOMAIN new
  BY DEF SameOn
<1> QED BY <1>1, <1>2, <1>3, <1>4, Zenon DEF Line

(* An entry taken out: what pointed to it points to the one after it.        *)
Skips(next, new, M, e) ==
    /\ M \subseteq DOMAIN new /\ -1 \notin DOMAIN new
    /\ \A i \in M \ {e} : new[i] = IF next[i] = e THEN next[e] ELSE next[i]

LEMMA LineUnlink ==
    ASSUME NEW next, NEW M, NEW h, Line(next, M, h), NEW e \in M, NEW new, Skips(next, new, M, e)
    PROVE  Line(new, M \ {e}, IF h = e THEN next[e] ELSE h)
<1> PICK k : k = IF h = e THEN next[e] ELSE h
  OBVIOUS
<1>0. next[e] # e
  <2> SUFFICES ASSUME next[e] = e PROVE FALSE
    OBVIOUS
  <2>1. h # e /\ \A i \in M \ {e} : next[i] # e
    <3>1. e # -1
      BY DEF Line
    <3> QED BY <3>1 DEF Line
  <2>2. M \ {e} \in SUBSET M /\ h \in (M \ {e}) \cup {-1}
    BY <2>1 DEF Line
  <2>3. \A i \in M \ {e} : next[i] \in (M \ {e}) \cup {-1}
    BY <2>1 DEF Line
  <2>4. M \ {e} = M
    BY <2>2, <2>3, Zenon DEF Line
  <2> QED BY <2>4
<1>1. k \in (M \ {e}) \cup {-1}
  BY <1>0 DEF Line
<1>2. ASSUME NEW i \in M \ {e}
      PROVE  new[i] \in (M \ {e}) \cup {-1} /\ new[i] # k
  <2>1. new[i] = IF next[i] = e THEN next[e] ELSE next[i]
    BY Zenon DEF Skips
  <2>2. next[i] \in M \cup {-1} /\ next[e] \in M \cup {-1} /\ next[i] # h /\ next[e] # h
    BY Zenon DEF Line
  <2>3. next[i] = next[e] => next[e] = -1
    BY Zenon DEF Line
  <2>4. CASE h = e
    <3>1. k = next[e] /\ new[i] = next[i] /\ next[i] # e
      BY <2>1, <2>2, <2>4
    <3>2. next[i] = next[e] => FALSE
      <4> SUFFICES ASSUME next[i] = next[e] PROVE FALSE
        OBVIOUS
      <4>1. next[e] = -1
        BY <2>3
      <4>2. {e} \in SUBSET M /\ h \in {e} \cup {-1} /\ \A j \in {e} : next[j] \in {e} \cup {-1}
        BY <2>4, <4>1
      <4>3. {e} = M
        BY <4>2, Zenon DEF Line
      <4> QED BY <4>3
    <3> QED BY <2>2, <3>1, <3>2
  <2>5. CASE h # e
    BY <1>0, <2>1, <2>2, <2>5
  <2> QED BY <2>4, <2>5
<1>3. ASSUME NEW i \in M \ {e}, NEW j \in M \ {e}, new[i] = new[j], new[i] # -1
      PROVE  i = j
  <2>1. /\ new[i] = IF next[i] = e THEN next[e] ELSE next[i]
        /\ new[j] = IF next[j] = e THEN next[e] ELSE next[j]
    BY Zenon DEF Skips
  <2>2. /\ next[i] = next[j] /\ next[i] # -1 => i = j
        /\ next[i] = next[e] /\ next[i] # -1 => i = e
        /\ next[j] = next[e] /\ next[j] # -1 => j = e
    BY Zenon DEF Line
  <2>3. e # -1
    BY DEF Line
  <2> QED BY <1>3, <2>1, <2>2, <2>3
<1>4. ASSUME NEW S \in SUBSET (M \ {e}), k \in S \cup {-1}, \A i \in S : new[i] \in S \cup {-1}
      PROVE  S = M \ {e}
  <2> PICK T : T = S \cup {e}
    OBVIOUS
  <2>1. \A i \in S : new[i] = IF next[i] = e THEN next[e] ELSE next[i]
    BY DEF Skips
  <2>2. CASE h = e \/ \E i \in S : next[i] = e
    <3>1. next[e] \in S \cup {-1}
      BY <1>4, <2>1, <2>2
    <3>2. h \in T \cup {-1}
      BY <1>4
    <3>3. \A i \in T : next[i] \in T \cup {-1}
      BY <1>4, <2>1, <3>1
    <3>4. T \in SUBSET M
      OBVIOUS
    <3>5. T = M
      BY <3>2, <3>3, <3>4, Zenon DEF Line
    <3> QED BY <3>5
  <2>3. CASE h # e /\ \A i \in S : next[i] # e
    <3>1. h \in S \cup {-1} /\ \A i \in S : next[i] \in S \cup {-1}
      BY <1>4, <2>1, <2>3
    <3>2. S \in SUBSET M
      OBVIOUS
    <3>3. S = M
      BY <3>1, <3>2, Zenon DEF Line
    <3> QED BY <3>3
  <2> QED BY <2>2, <2>3
<1>5. M \ {e} \subseteq DOMAIN new /\ -1 \notin DOMAIN new
  BY DEF Skips
<1>6. Line(new, M \ {e}, k)
  BY <1>1, <1>2, <1>3, <1>4, <1>5, Zenon DEF Line
<1> QED BY <1>6

LEMMA MinOfNaturals ==
    ASSUME NEW S \in SUBSET Nat, S # {}
    PROVE  \E x \in S : \A y \in S : x <= y
<1> DEFINE R == {ss \in Nat \X Nat : ss[1] < ss[2]}
<1>1. IsWellFoundedOn(R, Nat)
  BY NatLessThanWellFounded, Zenon DEF OpToRel
<1>2. PICK x \in S : \A y \in S : ~(<<y, x>> \in R)
  BY <1>1, WFMin, Zenon
<1>3. ASSUME NEW y \in S PROVE x <= y
  <2>1. x \in Nat /\ y \in Nat
    OBVIOUS
  <2>2. ~(<<y, x>> \in R)
    BY <1>2
  <2> QED BY <2>1, <2>2
<1> QED BY <1>3, Zenon

(* The latest of a set of entries.                                           *)
IsLatest(x, S) == IF S = {} THEN x = -1 ELSE x \in S /\ \A y \in S : y <= x

LEMMA LatestIs ==
    ASSUME NEW n \in Nat, NEW S \in SUBSET (0 .. n - 1)
    PROVE  IsLatest(Latest(S), S)
<1> PICK T : T = S \cup {-1}
  OBVIOUS
<1>1. T \subseteq Int /\ T # {} /\ \A x \in T : n - x \in Nat
  OBVIOUS
<1> DEFINE U == {n - x : x \in T}
<1>2. U \in SUBSET Nat /\ U # {}
  BY <1>1
<1>3. PICK u \in U : \A v \in U : u <= v
  <2> HIDE DEF U
  <2> QED BY <1>2, MinOfNaturals, Zenon
<1>4. PICK x \in T : u = n - x
  OBVIOUS
<1>5. \A y \in T : y <= x
  <2>1. ASSUME NEW y \in T PROVE y <= x
    <3>1. n - y \in U
      OBVIOUS
    <3>2. n - x <= n - y
      BY <1>3, <1>4, <3>1
    <3> QED BY <1>1, <3>2
  <2> QED BY <2>1
<1>6. \A y \in T : x >= y
  BY <1>1, <1>5
<1>7. Latest(S) = Max(T)
  BY Zenon DEF Latest
<1>8. Max(T) \in T /\ \A y \in T : Max(T) >= y
  BY <1>6, Zenon DEF Max
<1> PICK m : m = Max(T)
  OBVIOUS
<1> HIDE DEF U
<1>11. m \in T /\ \A y \in T : m >= y
  BY <1>8, Zenon
<1>9. CASE S = {}
  BY <1>7, <1>11, <1>9 DEF IsLatest
<1>10. CASE S # {}
  <2>1. \A y \in S : m >= y /\ y \in 0 .. n - 1
    BY <1>11
  <2>2. m \in S
    <3> PICK y \in S : TRUE
      BY <1>10
    <3>1. m >= y /\ y \in Nat
      BY <2>1
    <3>2. m # -1
      BY <3>1
    <3> QED BY <1>11, <3>2
  <2> QED BY <1>7, <1>10, <2>1, <2>2 DEF IsLatest
<1> QED BY <1>9, <1>10

Follows(next, M) == \A i \in M : IsLatest(next[i], {j \in M : j < i})

(* Entries that were put at the head one after another are in a chain.       *)
LEMMA LineThreaded ==
    ASSUME NEW n \in Nat, NEW M \in SUBSET (0 .. n - 1), NEW next, -1 \notin DOMAIN next,
           M \subseteq DOMAIN next, Follows(next, M), NEW h, IsLatest(h, M)
    PROVE  Line(next, M, h)
<1>1. \A i \in M : i \in Nat
  OBVIOUS
<1>2. ASSUME NEW i \in M
      PROVE  /\ next[i] = -1 \/ (next[i] \in M /\ next[i] < i)
             /\ \A j \in M : j < i => next[i] \in M /\ j <= next[i]
  <2>1. IsLatest(next[i], {j \in M : j < i})
    BY DEF Follows
  <2> QED BY <2>1 DEF IsLatest
<1>3. h \in M \cup {-1} /\ \A i \in M : h \in M /\ i <= h
  BY DEF IsLatest
<1>4. ASSUME NEW i \in M PROVE next[i] \in M \cup {-1} /\ next[i] # h
  BY <1>1, <1>2, <1>3
<1>5. ASSUME NEW i \in M, NEW j \in M, next[i] = next[j], next[i] # -1 PROVE i = j
  <2>1. next[i] \in M /\ next[i] < i /\ next[i] < j
    BY <1>2, <1>5
  <2>2. i < j => i <= next[j]
    BY <1>2
  <2>3. j < i => j <= next[i]
    BY <1>2
  <2> QED BY <1>1, <1>5, <2>1, <2>2, <2>3
<1>6. ASSUME NEW S \in SUBSET M, h \in S \cup {-1}, \A i \in S : next[i] \in S \cup {-1}
      PROVE  S = M
  <2> SUFFICES ASSUME S # M PROVE FALSE
    OBVIOUS
  <2>1. M \ S \in SUBSET (0 .. n - 1) /\ M \ S # {}
    OBVIOUS
  <2> PICK m : m = Latest(M \ S)
    OBVIOUS
  <2>2. m \in M \ S /\ \A y \in M \ S : y <= m
    <3>1. IsLatest(m, M \ S)
      BY <2>1, LatestIs, Zenon
    <3> QED BY <2>1, <3>1 DEF IsLatest
  <2>3. h \in S /\ m < h
    <3>1. h \in M /\ m <= h
      BY <1>3, <2>2
    <3>2. h \in S
      BY <1>6, <3>1
    <3> QED BY <1>1, <2>2, <3>1, <3>2
  <2> DEFINE A == {j \in M : m < j}
  <2>4. PICK j \in A : \A k \in A : j <= k
    <3>1. A \in SUBSET Nat /\ A # {}
      BY <1>1, <2>3
    <3> HIDE DEF A
    <3> QED BY <3>1, MinOfNaturals, Zenon
  <2>5. j \in S
    <3>1. ~(j <= m)
      BY <1>1, <2>2, <2>4
    <3> QED BY <2>2, <2>4, <3>1
  <2>6. next[j] \in M /\ m <= next[j] /\ next[j] < j
    BY <1>1, <1>2, <2>2, <2>4
  <2>7. next[j] \notin A
    <3>1. ~(j <= next[j])
      BY <1>1, <2>4, <2>6
    <3> QED BY <2>4, <3>1
  <2>8. next[j] = m
    BY <1>1, <2>2, <2>6, <2>7
  <2>9. next[j] \in S \cup {-1}
    BY <1>6, <2>5
  <2> QED BY <1>1, <2>2, <2>8, <2>9
<1> QED BY <1>3, <1>4, <1>5, <1>6, Zenon DEF Line

(* A row of entries, each followed by its neighbour.                         *)
InRow(next, a, b) == \A i \in a .. b - 1 : next[i] = IF i = b - 1 THEN -1 ELSE i + 1

LEMMA LineInRow ==
    ASSUME NEW a \in Nat, NEW b \in Nat, a < b, NEW next, -1 \notin DOMAIN next,
           a .. b - 1 \subseteq DOMAIN next, InRow(next, a, b)
    PROVE  Line(next, a .. b - 1, a)
<1> PICK M : M = a .. b - 1
  OBVIOUS
<1>1. a \in M /\ \A i \in M : i \in Nat /\ a <= i
  OBVIOUS
<1>2. ASSUME NEW i \in M
      PROVE  next[i] \in M \cup {-1} /\ next[i] # a /\ (next[i] # -1 => next[i] = i + 1)
  <2>1. next[i] = IF i = b - 1 THEN -1 ELSE i + 1
    BY DEF InRow
  <2> QED BY <1>1, <2>1
<1>3. ASSUME NEW i \in M, NEW j \in M, next[i] = next[j], next[i] # -1 PROVE i = j
  <2>1. next[i] = i + 1 /\ next[j] = j + 1
    BY <1>2, <1>3
  <2>2. i + 1 = j + 1 /\ i \in Nat /\ j \in Nat
    BY <1>1, <1>3, <2>1
  <2> QED BY <2>2
<1>4. ASSUME NEW S \in SUBSET M, a \in S \cup {-1}, \A i \in S : next[i] \in S \cup {-1}
      PROVE  S = M
  <2> SUFFICES ASSUME S # M PROVE FALSE
    OBVIOUS
  <2>1. M \ S \in SUBSET Nat /\ M \ S # {}
    BY <1>1
  <2>2. PICK m \in M \ S : \A k \in M \ S : m <= k
    BY <2>1, MinOfNaturals, Zenon
  <2>3. m # a
    BY <1>4
  <2>4. m - 1 \in M /\ ~(m <= m - 1)
    BY <1>1, <2>2, <2>3
  <2>5. m - 1 \in S
    BY <2>2, <2>4
  <2>6. next[m - 1] = m
    <3>1. next[m - 1] = IF m - 1 = b - 1 THEN -1 ELSE (m - 1) + 1
      BY <2>4 DEF InRow
    <3> QED BY <2>2, <3>1
  <2>7. next[m - 1] \in S \cup {-1}
    BY <1>4, <2>5
  <2> QED BY <1>1, <2>2, <2>6, <2>7
<1>5. Line(next, M, a)
  BY <1>1, <1>2, <1>3, <1>4, Zenon DEF Line
<1> QED BY <1>5

-----------------------------------------------------------------------------
(* The table of identifiers.                                                 *)
NextOf(t) == [i \in DOMAIN t.tab |-> t.tab[i].next]
Class(t, h) == {i \in DOMAIN t.tab : t.tab[i].s # NoName /\ hash[t.tab[i].s] % TabSize(t) = h}
Blanks(t) == {i \in DOMAIN t.tab : t.tab[i].s = NoName}

Sized(t, n) ==
    /\ n \in Nat \ {0} /\ TabSize(t) = n
    /\ t = [tab |-> t.tab, hashtab |-> t.hashtab, blanks |-> t.blanks]
    /\ t.tab \in [0 .. n - 1 -> [s : Names \cup {NoName}, next : Int, refs : Nat]]
    /\ t.hashtab \in [0 .. n - 1 -> Int]

(* Each hash has a chain of the names with it, the blanks have one, and no   *)
(* name has two entries.                                                     *)
Hashed(t) == \A h \in DOMAIN t.tab : Line(NextOf(t), Class(t, h), t.hashtab[h])
Spared(t) == Line(NextOf(t), Blanks(t), t.blanks)
Single(t) == \A i, j \in DOMAIN t.tab : t.tab[i].s = t.tab[j].s /\ t.tab[i].s # NoName => i = j

Tabled(t) == (\E n \in Nat : Sized(t, n)) /\ Hashed(t) /\ Spared(t) /\ Single(t)

LEMMA SizeIs ==
    ASSUME NEW t, NEW n \in Nat, DOMAIN t.tab = 0 .. n - 1
    PROVE  TabSize(t) = n
<1>1. Cardinality(0 .. n - 1) = n
  BY FS_Interval
<1> QED BY <1>1 DEF TabSize

LEMMA HashIs ==
    ASSUME NEW name \in Names, NEW n \in Nat \ {0}
    PROVE  hash[name] % n \in 0 .. n - 1
<1>1. hash[name] \in Nat
  BY IdentsAssumption
<1> QED BY <1>1

LEMMA NamesAreNumbers == Names \subseteq Nat /\ NoName \notin Names /\ NoName = -1
BY IdentsAssumption DEF NoName

LEMMA SizedIs ==
    ASSUME NEW t, NEW n \in Nat, Sized(t, n)
    PROVE  /\ n \in Nat \ {0} /\ DOMAIN t.tab = 0 .. n - 1 /\ -1 \notin DOMAIN t.tab
           /\ DOMAIN t.hashtab = 0 .. n - 1 /\ DOMAIN NextOf(t) = 0 .. n - 1
           /\ \A i \in 0 .. n - 1 : /\ t.tab[i].s \in Names \cup {NoName}
                                    /\ t.tab[i].next \in Int /\ t.tab[i].refs \in Nat
                                    /\ NextOf(t)[i] = t.tab[i].next
<1>1. /\ n \in Nat \ {0} /\ t.tab \in [0 .. n - 1 -> [s : Names \cup {NoName}, next : Int, refs : Nat]]
      /\ t.hashtab \in [0 .. n - 1 -> Int]
  BY Zenon DEF Sized
<1>2. DOMAIN t.tab = 0 .. n - 1 /\ DOMAIN t.hashtab = 0 .. n - 1 /\ -1 \notin 0 .. n - 1
  BY <1>1
<1>3. DOMAIN NextOf(t) = 0 .. n - 1 /\ \A i \in 0 .. n - 1 : NextOf(t)[i] = t.tab[i].next
  BY <1>2 DEF NextOf
<1>4. ASSUME NEW i \in 0 .. n - 1
      PROVE  t.tab[i].s \in Names \cup {NoName} /\ t.tab[i].next \in Int /\ t.tab[i].refs \in Nat
  <2>1. t.tab[i] \in [s : Names \cup {NoName}, next : Int, refs : Nat]
    BY <1>1
  <2> QED BY <2>1
<1> QED BY <1>1, <1>2, <1>3, <1>4

LEMMA NamedIs ==
    ASSUME NEW t, Tabled(t), NEW name \in Names
    PROVE  Named(t, name) = {i \in DOMAIN t.tab : t.tab[i].s = name}
<1>1. PICK n \in Nat : Sized(t, n)
  BY Zenon DEF Tabled
<1>2. n \in Nat \ {0} /\ TabSize(t) = n /\ DOMAIN t.tab = 0 .. n - 1
  BY <1>1, SizedIs, Zenon DEF Sized
<1>3. hash[name] % n \in DOMAIN t.tab
  BY <1>2, HashIs
<1>4. Line(NextOf(t), Class(t, hash[name] % n), t.hashtab[hash[name] % n])
  BY <1>3, Zenon DEF Tabled, Hashed
<1>5. Follow(t, t.hashtab[hash[name] % n]) = Class(t, hash[name] % n)
  BY <1>4, LineReached, Zenon DEF Follow, NextOf
<1> QED BY <1>2, <1>5, NamesAreNumbers DEF Named, Class

LEMMA FollowBlanks ==
    ASSUME NEW t, Tabled(t)
    PROVE  Follow(t, t.blanks) = Blanks(t)
BY LineReached, Zenon DEF Follow, NextOf, Tabled, Spared

(* Only counts of references differ.                                         *)
SameThreads(t, u) ==
    /\ DOMAIN u.tab = DOMAIN t.tab /\ u.hashtab = t.hashtab /\ u.blanks = t.blanks
    /\ \A i \in DOMAIN t.tab : u.tab[i].s = t.tab[i].s /\ u.tab[i].next = t.tab[i].next

LEMMA StillTabled ==
    ASSUME NEW t, Tabled(t), NEW u, SameThreads(t, u), \E n \in Nat : Sized(u, n)
    PROVE  Tabled(u)
<1>1. NextOf(u) = NextOf(t)
  BY DEF NextOf, SameThreads
<1>2. TabSize(u) = TabSize(t)
  BY Zenon DEF TabSize, SameThreads
<1>3. \A h : Class(u, h) = Class(t, h)
  BY <1>2 DEF Class, SameThreads
<1>4. Blanks(u) = Blanks(t)
  BY DEF Blanks, SameThreads
<1>5. Hashed(u) /\ Spared(u) /\ Single(u)
  BY <1>1, <1>3, <1>4, Zenon DEF Tabled, Hashed, Spared, Single, SameThreads
<1> QED BY <1>5, Zenon DEF Tabled

NewRefs(tab, i, r) == [tab EXCEPT ![i].refs = r]
Recounted(t, i, r) == [t EXCEPT !.tab[i].refs = r]

LEMMA OneRecounted ==
    ASSUME NEW D, NEW tab \in [D -> [s : Names \cup {NoName}, next : Int, refs : Nat]],
           NEW i \in D, NEW r \in Nat
    PROVE  NewRefs(tab, i, r) \in [D -> [s : Names \cup {NoName}, next : Int, refs : Nat]]
<1> PICK new : new = NewRefs(tab, i, r)
  OBVIOUS
<1> PICK e : e = [tab[i] EXCEPT !.refs = r]
  OBVIOUS
<1>1. tab[i] \in [s : Names \cup {NoName}, next : Int, refs : Nat]
  OBVIOUS
<1>2. e \in [s : Names \cup {NoName}, next : Int, refs : Nat]
  BY <1>1
<1> PICK R : R = [s : Names \cup {NoName}, next : Int, refs : Nat]
  OBVIOUS
<1>3. new = [tab EXCEPT ![i] = e]
  BY DEF NewRefs
<1>4. e \in R /\ tab \in [D -> R]
  BY <1>2
<1> QED BY <1>3, <1>4

LEMMA RecountedIs ==
    ASSUME NEW t, Tabled(t), NEW i \in DOMAIN t.tab, NEW r \in Nat
    PROVE  /\ Tabled(Recounted(t, i, r)) /\ SameThreads(t, Recounted(t, i, r))
           /\ Recounted(t, i, r).tab[i].refs = r
           /\ \A j \in DOMAIN t.tab : j # i => Recounted(t, i, r).tab[j].refs = t.tab[j].refs
<1> PICK u : u = Recounted(t, i, r)
  OBVIOUS
<1>1. PICK n \in Nat : Sized(t, n)
  BY Zenon DEF Tabled
<1>2. /\ n \in Nat \ {0} /\ DOMAIN t.tab = 0 .. n - 1
      /\ t = [tab |-> t.tab, hashtab |-> t.hashtab, blanks |-> t.blanks]
      /\ t.tab \in [0 .. n - 1 -> [s : Names \cup {NoName}, next : Int, refs : Nat]]
      /\ t.hashtab \in [0 .. n - 1 -> Int]
  BY <1>1, SizedIs, Zenon DEF Sized
<1>3. u = [tab |-> [t.tab EXCEPT ![i].refs = r], hashtab |-> t.hashtab, blanks |-> t.blanks]
  BY <1>2 DEF Recounted
<1>4. /\ u.tab = [t.tab EXCEPT ![i].refs = r] /\ u.hashtab = t.hashtab /\ u.blanks = t.blanks
      /\ u = [tab |-> u.tab, hashtab |-> u.hashtab, blanks |-> u.blanks]
  BY <1>3
<1>5. u.tab \in [0 .. n - 1 -> [s : Names \cup {NoName}, next : Int, refs : Nat]]
  <2>1. i \in 0 .. n - 1
    BY <1>2
  <2>2. u.tab = NewRefs(t.tab, i, r)
    BY <1>4 DEF NewRefs
  <2>3. NewRefs(t.tab, i, r) \in [0 .. n - 1 -> [s : Names \cup {NoName}, next : Int, refs : Nat]]
    BY <1>2, <2>1, OneRecounted, Zenon
  <2> QED BY <2>2, <2>3
<1>6. Sized(u, n)
  <2>1. DOMAIN u.tab = 0 .. n - 1
    BY <1>5
  <2>2. TabSize(u) = n
    BY <2>1, SizeIs
  <2> QED BY <1>2, <1>4, <1>5, <2>2 DEF Sized
<1>7. SameThreads(t, u) /\ u.tab[i].refs = r /\ \A j \in DOMAIN t.tab : j # i => u.tab[j].refs = t.tab[j].refs
  BY <1>2, <1>4 DEF SameThreads
<1>8. Tabled(u)
  BY <1>6, <1>7, StillTabled, Zenon
<1> QED BY <1>7, <1>8

-----------------------------------------------------------------------------
(* An empty table.                                                           *)
LEMMA BlankIs ==
    /\ Tabled(Blank(InitTabSize))
    /\ \A i \in DOMAIN Blank(InitTabSize).tab : Blank(InitTabSize).tab[i].s = NoName
<1> PICK n \in Nat \ {0} : n = InitTabSize
  BY IdentsAssumption
<1> PICK t : t = Blank(n)
  OBVIOUS
<1>1. /\ t.tab = [i \in 0 .. n - 1 |-> Entry(NoName, IF i = n - 1 THEN -1 ELSE i + 1, 0)]
      /\ t.hashtab = [i \in 0 .. n - 1 |-> -1] /\ t.blanks = 0
      /\ t = [tab |-> t.tab, hashtab |-> t.hashtab, blanks |-> t.blanks]
  BY DEF Blank
<1>2. \A i \in 0 .. n - 1 : /\ t.tab[i].s = NoName /\ t.tab[i].refs = 0
                            /\ t.tab[i].next = IF i = n - 1 THEN -1 ELSE i + 1
  BY <1>1 DEF Entry
<1>3. DOMAIN t.tab = 0 .. n - 1 /\ -1 \notin 0 .. n - 1
  BY <1>1
<1>4. Sized(t, n)
  <2>1. t.tab \in [0 .. n - 1 -> [s : Names \cup {NoName}, next : Int, refs : Nat]]
    <3>1. ASSUME NEW i \in 0 .. n - 1
          PROVE  Entry(NoName, IF i = n - 1 THEN -1 ELSE i + 1, 0)
                   \in [s : Names \cup {NoName}, next : Int, refs : Nat]
      BY DEF Entry
    <3> QED BY <1>1, <3>1
  <2>2. TabSize(t) = n
    BY <1>3, SizeIs
  <2> QED BY <1>1, <2>1, <2>2 DEF Sized
<1>5. NextOf(t) = [i \in 0 .. n - 1 |-> t.tab[i].next]
  BY <1>3 DEF NextOf
<1>6. Hashed(t)
  <2>1. ASSUME NEW h \in 0 .. n - 1 PROVE Class(t, h) = {} /\ t.hashtab[h] = -1
    BY <1>1, <1>2, <1>3 DEF Class
  <2>2. Line(NextOf(t), {}, -1)
    BY <1>3, <1>5, LineEmpty
  <2> QED BY <1>3, <2>1, <2>2, Zenon DEF Hashed
<1>7. Spared(t)
  <2>1. Blanks(t) = 0 .. n - 1
    BY <1>2, <1>3 DEF Blanks
  <2>2. InRow(NextOf(t), 0, n)
    BY <1>2, <1>5 DEF InRow
  <2>3. Line(NextOf(t), 0 .. n - 1, 0)
    <3>1. -1 \notin DOMAIN NextOf(t) /\ 0 .. n - 1 \subseteq DOMAIN NextOf(t) /\ 0 < n /\ 0 \in Nat
      BY <1>3, <1>5
    <3> QED BY <2>2, <3>1, LineInRow, Zenon
  <2> QED BY <1>1, <2>1, <2>3, Zenon DEF Spared
<1>8. Single(t)
  BY <1>2, <1>3 DEF Single
<1> QED BY <1>2, <1>3, <1>4, <1>6, <1>7, <1>8 DEF Tabled

(* A table that grew has the same entries and new blanks.                    *)
GrewTo(t, u) ==
    /\ DOMAIN t.tab \subseteq DOMAIN u.tab /\ u.blanks # -1
    /\ \A i \in DOMAIN t.tab : u.tab[i].s = t.tab[i].s /\ u.tab[i].refs = t.tab[i].refs
    /\ \A i \in DOMAIN u.tab : i \notin DOMAIN t.tab => u.tab[i].s = NoName

(* The fields of the table that Grown makes of t, of n entries, with m.      *)
HashSlots(t, n, m) == [i \in 0 .. n - 1 |-> hash[t.tab[i].s] % m]
Chained(slot, n, h) == {j \in 0 .. n - 1 : slot[j] = h}
Earlier(slot, n, i) == {j \in 0 .. n - 1 : j < i /\ slot[j] = slot[i]}
OldEntry(t, u, slot, n, i) ==
    /\ u.tab[i].s = t.tab[i].s /\ u.tab[i].refs = t.tab[i].refs
    /\ u.tab[i].next = Latest(Earlier(slot, n, i)) /\ u.tab[i].next \in Int
    /\ u.tab[i] \in [s : Names \cup {NoName}, next : Int, refs : Nat]
NewEntry(u, m, i) ==
    /\ u.tab[i].s = NoName /\ u.tab[i].next = IF i = m - 1 THEN -1 ELSE i + 1
    /\ u.tab[i] \in [s : Names \cup {NoName}, next : Int, refs : Nat]
Fields(t, u, slot, n, m) ==
    /\ \A i \in 0 .. n - 1 : OldEntry(t, u, slot, n, i)
    /\ \A i \in n .. m - 1 : NewEntry(u, m, i)
    /\ \A h \in 0 .. m - 1 : u.hashtab[h] = Latest(Chained(slot, n, h)) /\ u.hashtab[h] \in Int
    /\ DOMAIN u.tab = 0 .. m - 1 /\ u.blanks = n

LEMMA LatestOf ==
    ASSUME NEW n \in Nat, NEW S \in SUBSET (0 .. n - 1)
    PROVE  IsLatest(Latest(S), S) /\ Latest(S) \in Int
<1>1. IsLatest(Latest(S), S)
  BY LatestIs, Zenon
<1>2. CASE S = {}
  BY <1>1, <1>2 DEF IsLatest
<1>3. CASE S # {}
  <2>1. Latest(S) \in S
    BY <1>1, <1>3, Zenon DEF IsLatest
  <2>2. S \subseteq Int
    OBVIOUS
  <2> QED BY <1>1, <2>1, <2>2, Zenon
<1> QED BY <1>2, <1>3

Extended(tab, slot, n, m) ==
    [i \in 0 .. m - 1 |-> IF i < n THEN [tab[i] EXCEPT !.next = Threaded(slot)[i]]
                          ELSE Entry(NoName, IF i = m - 1 THEN -1 ELSE i + 1, 0)]

LEMMA OldEntryIs ==
    ASSUME NEW n \in Nat \ {0}, NEW m \in Nat, n < m, NEW slot, DOMAIN slot = 0 .. n - 1,
           NEW t, t.tab \in [0 .. n - 1 -> [s : Names \cup {NoName}, next : Int, refs : Nat]],
           NEW u, u.tab = Extended(t.tab, slot, n, m), NEW i \in 0 .. n - 1
    PROVE  OldEntry(t, u, slot, n, i)
<1> PICK tab : tab = t.tab
  OBVIOUS
<1> PICK new : new = u.tab
  OBVIOUS
<1>0. /\ tab \in [0 .. n - 1 -> [s : Names \cup {NoName}, next : Int, refs : Nat]]
      /\ new = [j \in 0 .. m - 1 |-> IF j < n THEN [tab[j] EXCEPT !.next = Threaded(slot)[j]]
                                     ELSE Entry(NoName, IF j = m - 1 THEN -1 ELSE j + 1, 0)]
  BY DEF Extended
<1>1. Threaded(slot)[i] = Latest(Earlier(slot, n, i))
  BY DEF Threaded, Earlier
<1>2. Latest(Earlier(slot, n, i)) \in Int
  <2>1. Earlier(slot, n, i) \in SUBSET (0 .. n - 1)
    BY DEF Earlier
  <2> QED BY <2>1, LatestOf
<1> PICK k \in Int : k = Threaded(slot)[i]
  BY <1>1, <1>2
<1>3. i \in 0 .. m - 1 /\ i < n
  OBVIOUS
<1>4. new[i] = [tab[i] EXCEPT !.next = k]
  BY <1>0, <1>3
<1>5. tab[i] \in [s : Names \cup {NoName}, next : Int, refs : Nat]
  BY <1>0
<1>6. new[i] \in [s : Names \cup {NoName}, next : Int, refs : Nat] /\ new[i].s = tab[i].s
      /\ new[i].refs = tab[i].refs /\ new[i].next = k
  BY <1>4, <1>5
<1> QED BY <1>1, <1>6, Zenon DEF OldEntry

LEMMA NewEntryIs ==
    ASSUME NEW n \in Nat \ {0}, NEW m \in Nat, n < m, NEW slot, NEW tab,
           NEW u, u.tab = Extended(tab, slot, n, m), NEW i \in n .. m - 1
    PROVE  NewEntry(u, m, i)
<1> PICK new : new = u.tab
  OBVIOUS
<1>1. i \in 0 .. m - 1 /\ ~(i < n) /\ i \in Int
  OBVIOUS
<1>2. new[i] = Entry(NoName, IF i = m - 1 THEN -1 ELSE i + 1, 0)
  BY <1>1 DEF Extended
<1> PICK k \in Int : k = IF i = m - 1 THEN -1 ELSE i + 1
  BY <1>1
<1>3. new[i] = [s |-> NoName, next |-> k, refs |-> 0]
  BY <1>2 DEF Entry
<1>4. new[i].s = NoName /\ new[i].next = k /\ new[i] \in [s : Names \cup {NoName}, next : Int, refs : Nat]
  BY <1>3
<1> QED BY <1>4, Zenon DEF NewEntry

LEMMA FieldsAre ==
    ASSUME NEW t, NEW n \in Nat, Sized(t, n), NEW m \in Nat, n < m, m = n * 2 + TabDelta
    PROVE  /\ Fields(t, Grown(t), HashSlots(t, n, m), n, m)
           /\ Sized(Grown(t), m)
<1> PICK u : u = Grown(t)
  OBVIOUS
<1> PICK slot : slot = HashSlots(t, n, m)
  OBVIOUS
<1>1. /\ n \in Nat \ {0} /\ TabSize(t) = n
      /\ t.tab \in [0 .. n - 1 -> [s : Names \cup {NoName}, next : Int, refs : Nat]]
  BY Zenon DEF Sized
<1>2. slot = [i \in 0 .. n - 1 |-> hash[t.tab[i].s] % m]
  BY DEF HashSlots
<1>3. /\ u.tab = Extended(t.tab, slot, n, m)
      /\ u.hashtab = Heads(slot, m) /\ u.blanks = n
      /\ u = [tab |-> u.tab, hashtab |-> u.hashtab, blanks |-> u.blanks]
  BY <1>1, <1>2 DEF Grown, Extended
<1>4. DOMAIN slot = 0 .. n - 1
  BY <1>2
<1>5. ASSUME NEW i \in 0 .. n - 1 PROVE OldEntry(t, u, slot, n, i)
  BY <1>1, <1>3, <1>4, OldEntryIs, Zenon
<1>6. ASSUME NEW i \in n .. m - 1 PROVE NewEntry(u, m, i)
  BY <1>1, <1>3, NewEntryIs, Zenon
<1>7. ASSUME NEW h \in 0 .. m - 1
      PROVE  u.hashtab[h] = Latest(Chained(slot, n, h)) /\ u.hashtab[h] \in Int
  <2>1. Heads(slot, m)[h] = Latest(Chained(slot, n, h))
    BY <1>4 DEF Heads, Chained
  <2>2. Chained(slot, n, h) \in SUBSET (0 .. n - 1)
    BY DEF Chained
  <2>3. Latest(Chained(slot, n, h)) \in Int
    BY <2>2, LatestOf
  <2> QED BY <1>3, <2>1, <2>3
<1>8. DOMAIN u.tab = 0 .. m - 1
  BY <1>3 DEF Extended
<1>9. Fields(t, u, slot, n, m)
  BY <1>3, <1>5, <1>6, <1>7, <1>8, Zenon DEF Fields
<1>10. Sized(u, m)
  <2>1. ASSUME NEW i \in 0 .. m - 1
        PROVE  u.tab[i] \in [s : Names \cup {NoName}, next : Int, refs : Nat]
    <3>1. i \in 0 .. n - 1 \/ i \in n .. m - 1
      OBVIOUS
    <3> QED BY <1>5, <1>6, <3>1, Zenon DEF OldEntry, NewEntry
  <2>2. u.tab = [i \in 0 .. m - 1 |-> u.tab[i]]
    BY <1>3 DEF Extended
  <2>3. TabSize(u) = m
    BY <1>8, SizeIs
  <2>4. u.tab \in [0 .. m - 1 -> [s : Names \cup {NoName}, next : Int, refs : Nat]]
    BY <2>1, <2>2
  <2>5. u.hashtab \in [0 .. m - 1 -> Int]
    <3>1. u.hashtab = [h \in 0 .. m - 1 |-> u.hashtab[h]]
      BY <1>3 DEF Heads
    <3> QED BY <1>7, <3>1
  <2>6. m \in Nat \ {0}
    BY <1>1
  <2> QED BY <1>3, <2>3, <2>4, <2>5, <2>6, Zenon DEF Sized
<1> QED BY <1>9, <1>10

(* With no blanks, the names of each hash are the ones in its slot.          *)
LEMMA RehashedIs ==
    ASSUME NEW t, NEW u, NEW n \in Nat \ {0}, NEW m \in Nat, n < m, DOMAIN t.tab = 0 .. n - 1,
           \A i \in 0 .. n - 1 : t.tab[i].s \in Names,
           TabSize(u) = m, NEW slot, slot = HashSlots(t, n, m), Fields(t, u, slot, n, m), NEW h \in 0 .. m - 1
    PROVE  Class(u, h) = Chained(slot, n, h) /\ Line(NextOf(u), Class(u, h), u.hashtab[h])
<1>1. \A i \in 0 .. n - 1 : u.tab[i].s = t.tab[i].s /\ t.tab[i].s # NoName /\ slot[i] = hash[t.tab[i].s] % m
  BY NamesAreNumbers DEF Fields, OldEntry, HashSlots
<1>2. \A i \in n .. m - 1 : u.tab[i].s = NoName
  BY DEF Fields, NewEntry
<1>3. DOMAIN u.tab = 0 .. m - 1
  BY DEF Fields
<1>4. \A i \in 0 .. m - 1 : i \in 0 .. n - 1 \/ (i \in n .. m - 1 /\ i \notin 0 .. n - 1)
  OBVIOUS
<1>5. 0 .. n - 1 \subseteq 0 .. m - 1
  OBVIOUS
<1>6. Class(u, h) = Chained(slot, n, h)
  <2>1. \A i \in 0 .. n - 1 : u.tab[i].s # NoName /\ slot[i] = hash[u.tab[i].s] % TabSize(u)
    BY <1>1
  <2> QED BY <1>2, <1>3, <1>4, <1>5, <2>1, Zenon DEF Class, Chained
<1> PICK M : M = Chained(slot, n, h)
  OBVIOUS
<1>7. M \in SUBSET (0 .. n - 1) /\ \A i \in M : i \in 0 .. n - 1 /\ slot[i] = h
  BY DEF Chained
<1>8. DOMAIN NextOf(u) = 0 .. m - 1 /\ -1 \notin 0 .. m - 1
  BY <1>3 DEF NextOf
<1>9. Follows(NextOf(u), M)
  <2> SUFFICES ASSUME NEW i \in M PROVE IsLatest(NextOf(u)[i], {j \in M : j < i})
    BY Zenon DEF Follows
  <2>1. i \in 0 .. n - 1 /\ i \in 0 .. m - 1 /\ slot[i] = h
    BY <1>5, <1>7
  <2>2. NextOf(u)[i] = Latest(Earlier(slot, n, i))
    BY <1>3, <2>1, Zenon DEF NextOf, Fields, OldEntry
  <2>3. {j \in M : j < i} = Earlier(slot, n, i)
    BY <2>1 DEF Chained, Earlier
  <2>4. Earlier(slot, n, i) \in SUBSET (0 .. n - 1)
    BY DEF Earlier
  <2>5. IsLatest(Latest(Earlier(slot, n, i)), Earlier(slot, n, i))
    BY <2>4, LatestOf
  <2> QED BY <2>2, <2>3, <2>5
<1>10. IsLatest(u.hashtab[h], M)
  <2>1. u.hashtab[h] = Latest(M)
    BY Zenon DEF Fields
  <2>2. IsLatest(Latest(M), M)
    BY <1>7, LatestOf
  <2> QED BY <2>1, <2>2
<1>11. Line(NextOf(u), M, u.hashtab[h])
  <2>1. M \subseteq DOMAIN NextOf(u) /\ -1 \notin DOMAIN NextOf(u)
    BY <1>5, <1>7, <1>8
  <2> QED BY <1>7, <1>9, <1>10, <2>1, LineThreaded, Zenon
<1> QED BY <1>6, <1>11

LEMMA GrownIs ==
    ASSUME NEW t, Tabled(t), t.blanks = -1
    PROVE  Tabled(Grown(t)) /\ GrewTo(t, Grown(t))
<1> PICK u : u = Grown(t)
  OBVIOUS
<1>1. PICK n \in Nat : Sized(t, n)
  BY Zenon DEF Tabled
<1>2. /\ n \in Nat \ {0} /\ DOMAIN t.tab = 0 .. n - 1 /\ TabSize(t) = n
      /\ \A i \in 0 .. n - 1 : t.tab[i].s \in Names \cup {NoName}
  BY <1>1, SizedIs, Zenon DEF Sized
<1>3. \A i \in 0 .. n - 1 : t.tab[i].s \in Names
  <2>1. Blanks(t) = {}
    <3>1. Line(NextOf(t), Blanks(t), t.blanks)
      BY Zenon DEF Tabled, Spared
    <3> QED BY <3>1, LineEnds, Zenon
  <2> QED BY <1>2, <2>1 DEF Blanks
<1> PICK m : m = n * 2 + TabDelta
  OBVIOUS
<1>4. m \in Nat /\ n < m
  BY <1>2, IdentsAssumption
<1> PICK slot : slot = HashSlots(t, n, m)
  OBVIOUS
<1>5. Fields(t, u, slot, n, m) /\ Sized(u, m)
  BY <1>1, <1>4, FieldsAre, Zenon
<1>6. TabSize(u) = m /\ DOMAIN u.tab = 0 .. m - 1 /\ u.blanks = n /\ -1 \notin 0 .. m - 1
  BY <1>5 DEF Sized, Fields
<1>7. Hashed(u)
  <2>1. ASSUME NEW h \in 0 .. m - 1 PROVE Line(NextOf(u), Class(u, h), u.hashtab[h])
    BY <1>2, <1>3, <1>4, <1>5, <1>6, RehashedIs, Zenon
  <2> QED BY <1>6, <2>1, Zenon DEF Hashed
<1>8. \A i \in 0 .. n - 1 : i \in 0 .. m - 1 /\ u.tab[i].s = t.tab[i].s /\ u.tab[i].refs = t.tab[i].refs
  <2>1. \A i \in 0 .. n - 1 : u.tab[i].s = t.tab[i].s /\ u.tab[i].refs = t.tab[i].refs
    BY <1>5, Zenon DEF Fields, OldEntry
  <2>2. 0 .. n - 1 \subseteq 0 .. m - 1
    BY <1>4
  <2> QED BY <2>1, <2>2
<1>9. \A i \in n .. m - 1 : u.tab[i].s = NoName /\ u.tab[i].next = IF i = m - 1 THEN -1 ELSE i + 1
  BY <1>5, Zenon DEF Fields, NewEntry
<1>10. \A i \in 0 .. m - 1 : i \in 0 .. n - 1 \/ (i \in n .. m - 1 /\ i \notin 0 .. n - 1)
  BY <1>4
<1>11. Spared(u)
  <2>1. Blanks(u) = n .. m - 1
    <3>1. n .. m - 1 \subseteq 0 .. m - 1
      BY <1>4
    <3>2. ASSUME NEW i \in 0 .. n - 1 PROVE u.tab[i].s # NoName
      BY <1>3, <1>8, NamesAreNumbers
    <3>3. Blanks(u) = {i \in 0 .. m - 1 : u.tab[i].s = NoName}
      BY <1>6, Zenon DEF Blanks
    <3> QED BY <1>9, <1>10, <3>1, <3>2, <3>3
  <2>2. InRow(NextOf(u), n, m)
    <3>1. ASSUME NEW i \in n .. m - 1 PROVE NextOf(u)[i] = IF i = m - 1 THEN -1 ELSE i + 1
      <4>1. i \in 0 .. m - 1
        BY <1>4
      <4> QED BY <1>6, <1>9, <4>1, Zenon DEF NextOf
    <3> QED BY <3>1, Zenon DEF InRow
  <2>3. n .. m - 1 \subseteq DOMAIN NextOf(u) /\ -1 \notin DOMAIN NextOf(u)
    BY <1>4, <1>6 DEF NextOf
  <2>4. Line(NextOf(u), n .. m - 1, n)
    BY <1>4, <2>2, <2>3, LineInRow, Zenon
  <2> QED BY <1>6, <2>1, <2>4, Zenon DEF Spared
<1>12. GrewTo(t, u)
  <2>1. 0 .. n - 1 \subseteq 0 .. m - 1 /\ n # -1
    BY <1>4
  <2> QED BY <1>2, <1>6, <1>8, <1>9, <1>10, <2>1, Zenon DEF GrewTo
<1>13. Single(u)
  <2>1. ASSUME NEW i \in 0 .. m - 1, u.tab[i].s # NoName
        PROVE  i \in DOMAIN t.tab /\ t.tab[i].s = u.tab[i].s
    BY <1>2, <1>8, <1>9, <1>10, <2>1
  <2>2. ASSUME NEW i \in 0 .. m - 1, NEW j \in 0 .. m - 1, u.tab[i].s = u.tab[j].s, u.tab[i].s # NoName
        PROVE  i = j
    <3>1. u.tab[j].s # NoName
      BY <2>2
    <3> QED BY <2>1, <2>2, <3>1, Zenon DEF Tabled, Single
  <2> QED BY <1>6, <2>2, Zenon DEF Single
<1> QED BY <1>4, <1>5, <1>7, <1>11, <1>12, <1>13, Zenon DEF Tabled

-----------------------------------------------------------------------------
(* A name is entered at the first blank.                                     *)
Record == [s : Names \cup {NoName}, next : Int, refs : Nat]

LEMMA SizedFrom ==
    ASSUME NEW n \in Nat \ {0}, NEW u, u = [tab |-> u.tab, hashtab |-> u.hashtab, blanks |-> u.blanks],
           u.tab \in [0 .. n - 1 -> Record], u.hashtab \in [0 .. n - 1 -> Int]
    PROVE  Sized(u, n)
<1>1. u.tab \in [0 .. n - 1 -> [s : Names \cup {NoName}, next : Int, refs : Nat]]
  BY DEF Record
<1>2. DOMAIN u.tab = 0 .. n - 1
  BY <1>1
<1>3. TabSize(u) = n
  BY <1>2, SizeIs
<1> QED BY <1>1, <1>3, Zenon DEF Sized

LEMMA TabledIs ==
    ASSUME NEW t, Tabled(t)
    PROVE  \E n \in Nat \ {0} :
              /\ t = [tab |-> t.tab, hashtab |-> t.hashtab, blanks |-> t.blanks]
              /\ t.tab \in [0 .. n - 1 -> Record] /\ t.hashtab \in [0 .. n - 1 -> Int]
              /\ TabSize(t) = n /\ DOMAIN t.tab = 0 .. n - 1 /\ DOMAIN t.hashtab = 0 .. n - 1
              /\ DOMAIN NextOf(t) = 0 .. n - 1 /\ -1 \notin 0 .. n - 1
              /\ \A i \in 0 .. n - 1 : /\ t.tab[i].s \in Names \cup {NoName} /\ t.tab[i].next \in Int
                                       /\ t.tab[i].refs \in Nat /\ NextOf(t)[i] = t.tab[i].next
<1>1. PICK n \in Nat : Sized(t, n)
  BY Zenon DEF Tabled
<1>2. /\ n \in Nat \ {0} /\ DOMAIN t.tab = 0 .. n - 1 /\ -1 \notin DOMAIN t.tab
      /\ DOMAIN t.hashtab = 0 .. n - 1 /\ DOMAIN NextOf(t) = 0 .. n - 1
      /\ \A i \in 0 .. n - 1 : /\ t.tab[i].s \in Names \cup {NoName}
                               /\ t.tab[i].next \in Int /\ t.tab[i].refs \in Nat
                               /\ NextOf(t)[i] = t.tab[i].next
  BY <1>1, SizedIs, Zenon
<1>3. /\ t = [tab |-> t.tab, hashtab |-> t.hashtab, blanks |-> t.blanks] /\ TabSize(t) = n
      /\ t.tab \in [0 .. n - 1 -> [s : Names \cup {NoName}, next : Int, refs : Nat]]
      /\ t.hashtab \in [0 .. n - 1 -> Int]
  BY <1>1, Zenon DEF Sized
<1>4. t.tab \in [0 .. n - 1 -> Record]
  BY <1>3 DEF Record
<1> QED BY <1>2, <1>3, <1>4, Zenon

PutIn(f, d, x) == [f EXCEPT ![d] = x]

LEMMA PutInIs ==
    ASSUME NEW D, NEW R, NEW f \in [D -> R], NEW d \in D, NEW x \in R
    PROVE  /\ PutIn(f, d, x) \in [D -> R] /\ PutIn(f, d, x)[d] = x
           /\ \A j \in D : j # d => PutIn(f, d, x)[j] = f[j]
BY DEF PutIn

Entered(t, u, name) ==
    /\ t.blanks \in DOMAIN t.tab /\ DOMAIN u.tab = DOMAIN t.tab
    /\ t.tab[t.blanks].s = NoName
    /\ u.tab[t.blanks].s = name /\ u.tab[t.blanks].refs = 1
    /\ \A j \in DOMAIN t.tab : j # t.blanks => u.tab[j].s = t.tab[j].s /\ u.tab[j].refs = t.tab[j].refs

LEMMA InstalledIs ==
    ASSUME NEW t, Tabled(t), t.blanks # -1, NEW name \in Names, \A i \in DOMAIN t.tab : t.tab[i].s # name
    PROVE  Tabled(Installed(t, name)) /\ Entered(t, Installed(t, name), name)
<1> PICK u : u = Installed(t, name)
  OBVIOUS
<1>1. PICK n \in Nat \ {0} :
              /\ t = [tab |-> t.tab, hashtab |-> t.hashtab, blanks |-> t.blanks]
              /\ t.tab \in [0 .. n - 1 -> Record] /\ t.hashtab \in [0 .. n - 1 -> Int]
              /\ TabSize(t) = n /\ DOMAIN t.tab = 0 .. n - 1 /\ DOMAIN t.hashtab = 0 .. n - 1
              /\ DOMAIN NextOf(t) = 0 .. n - 1 /\ -1 \notin 0 .. n - 1
              /\ \A i \in 0 .. n - 1 : /\ t.tab[i].s \in Names \cup {NoName} /\ t.tab[i].next \in Int
                                       /\ t.tab[i].refs \in Nat /\ NextOf(t)[i] = t.tab[i].next
  BY TabledIs
<1> PICK D : D = 0 .. n - 1
  OBVIOUS
<1> PICK b : b = t.blanks
  OBVIOUS
<1> PICK h : h = hash[name] % n
  OBVIOUS
<1>2. h \in D
  BY HashIs
<1>3. Line(NextOf(t), Blanks(t), b) /\ \A k \in D : Line(NextOf(t), Class(t, k), t.hashtab[k])
  BY <1>1, Zenon DEF Tabled, Spared, Hashed
<1>4. b \in Blanks(t) /\ b \in D /\ t.tab[b].s = NoName
  <2>1. b \in Blanks(t)
    <3>1. b # -1
      OBVIOUS
    <3>2. b \in Blanks(t) \cup {-1}
      BY <1>3, Zenon DEF Line
    <3> QED BY <3>1, <3>2
  <2> QED BY <1>1, <2>1 DEF Blanks
<1>5. /\ u.tab = [t.tab EXCEPT ![b] = Entry(name, t.hashtab[h], 1)]
      /\ u.hashtab = [t.hashtab EXCEPT ![h] = b] /\ u.blanks = t.tab[b].next
      /\ u = [tab |-> u.tab, hashtab |-> u.hashtab, blanks |-> u.blanks]
  BY <1>1 DEF Installed
<1>6. Entry(name, t.hashtab[h], 1) \in Record /\ t.hashtab[h] \in Int
  <2>1. t.hashtab[h] \in Int
    BY <1>1, <1>2
  <2> QED BY <2>1 DEF Entry, Record
<1>7. u.tab \in [D -> Record] /\ u.hashtab \in [D -> Int]
  <2>1. b \in Int
    BY <1>4
  <2>2. t.tab \in [D -> Record] /\ t.hashtab \in [D -> Int]
    BY <1>1, Zenon
  <2>3. u.tab = PutIn(t.tab, b, Entry(name, t.hashtab[h], 1)) /\ u.hashtab = PutIn(t.hashtab, h, b)
    BY <1>5, Zenon DEF PutIn
  <2>4. PutIn(t.tab, b, Entry(name, t.hashtab[h], 1)) \in [D -> Record]
    BY <1>4, <1>6, <2>2, PutInIs, Zenon
  <2>5. PutIn(t.hashtab, h, b) \in [D -> Int]
    BY <1>2, <2>1, <2>2, PutInIs, Zenon
  <2> QED BY <2>3, <2>4, <2>5, Zenon
<1>8. Sized(u, n)
  BY <1>5, <1>7, SizedFrom, Zenon
<1>9. /\ u.tab[b].s = name /\ u.tab[b].refs = 1 /\ u.tab[b].next = t.hashtab[h]
      /\ \A j \in D : j # b => u.tab[j] = t.tab[j]
      /\ u.hashtab[h] = b /\ \A k \in D : k # h => u.hashtab[k] = t.hashtab[k]
  <2>1. u.tab[b] = Entry(name, t.hashtab[h], 1)
    BY <1>1, <1>4, <1>5
  <2> QED BY <1>1, <1>2, <1>5, <2>1 DEF Entry
<1>10. /\ DOMAIN u.tab = D /\ DOMAIN NextOf(u) = D /\ TabSize(u) = n
       /\ NextOf(u)[b] = t.hashtab[h] /\ \A j \in D : j # b => NextOf(u)[j] = NextOf(t)[j]
  <2>1. DOMAIN u.tab = D /\ TabSize(u) = n
    BY <1>7, <1>8, Zenon DEF Sized
  <2> QED BY <1>1, <1>4, <1>9, <2>1 DEF NextOf
<1>11. ASSUME NEW k \in D
       PROVE  Class(u, k) = (IF k = h THEN Class(t, k) \cup {b} ELSE Class(t, k)) /\ b \notin Class(t, k)
  <2>1. b \notin Class(t, k)
    BY <1>4 DEF Class
  <2>2. b \in Class(u, k) <=> k = h
    BY <1>4, <1>9, <1>10, NamesAreNumbers DEF Class
  <2>3. ASSUME NEW j \in D, j # b PROVE j \in Class(u, k) <=> j \in Class(t, k)
    BY <1>1, <1>9, <1>10, <2>3, Zenon DEF Class
  <2>4. Class(u, k) \subseteq D /\ Class(t, k) \subseteq D
    BY <1>1, <1>10 DEF Class
  <2>5. \A j \in D : j \in Class(u, k) <=> j \in Class(t, k) \/ (k = h /\ j = b)
    <3> SUFFICES ASSUME NEW j \in D PROVE j \in Class(u, k) <=> j \in Class(t, k) \/ (k = h /\ j = b)
      OBVIOUS
    <3> QED BY <2>1, <2>2, <2>3, Zenon
  <2>6. CASE k = h
    BY <1>4, <2>1, <2>4, <2>5, <2>6
  <2>7. CASE k # h
    BY <2>1, <2>4, <2>5, <2>7
  <2> QED BY <2>6, <2>7
<1>12. ASSUME NEW k \in D PROVE SameOn(NextOf(t), NextOf(u), Class(t, k))
  <2>1. Class(t, k) \subseteq D
    BY <1>1 DEF Class
  <2> QED BY <1>1, <1>10, <1>11, <2>1 DEF SameOn
<1>13. ASSUME NEW k \in D PROVE Line(NextOf(u), Class(u, k), u.hashtab[k])
  <2>1. CASE k = h
    <3>1. Line(NextOf(u), Class(t, h) \cup {b}, b)
      <4>1. b # -1 /\ b \in DOMAIN NextOf(u)
        BY <1>1, <1>4, <1>10
      <4> QED BY <1>2, <1>3, <1>10, <1>11, <1>12, <4>1, LinePush, Zenon
    <3>2. Class(u, k) = Class(t, h) \cup {b}
      BY <1>11, <2>1, Zenon
    <3> QED BY <1>9, <2>1, <3>1, <3>2, Zenon
  <2>2. CASE k # h
    <3>1. Line(NextOf(u), Class(t, k), t.hashtab[k])
      BY <1>3, <1>12, LineSame, Zenon
    <3> QED BY <1>9, <1>11, <2>2, <3>1, Zenon
  <2> QED BY <2>1, <2>2
<1>14. Spared(u)
  <2>1. Blanks(u) = Blanks(t) \ {b}
    <3>1. b \notin Blanks(u)
      BY <1>9, NamesAreNumbers DEF Blanks
    <3>2. ASSUME NEW j \in D, j # b PROVE j \in Blanks(u) <=> j \in Blanks(t)
      BY <1>1, <1>9, <1>10, <3>2, Zenon DEF Blanks
    <3>3. Blanks(u) \subseteq D /\ Blanks(t) \subseteq D
      BY <1>1, <1>10 DEF Blanks
    <3> QED BY <3>1, <3>2, <3>3
  <2>2. ASSUME NEW i \in Blanks(t) \ {b}
        PROVE  NextOf(u)[i] = IF NextOf(t)[i] = b THEN NextOf(t)[b] ELSE NextOf(t)[i]
    <3>1. NextOf(t)[i] # b
      BY <1>3, Zenon DEF Line
    <3>2. i \in D /\ i # b
      BY <1>1 DEF Blanks
    <3> QED BY <1>10, <3>1, <3>2
  <2>3. Skips(NextOf(t), NextOf(u), Blanks(t), b)
    <3>1. Blanks(t) \subseteq D
      BY <1>1 DEF Blanks
    <3> QED BY <1>1, <1>10, <2>2, <3>1, Zenon DEF Skips
  <2>4. Line(NextOf(u), Blanks(t) \ {b}, IF b = b THEN NextOf(t)[b] ELSE b)
    BY <1>3, <1>4, <2>3, LineUnlink, Zenon
  <2>5. u.blanks = NextOf(t)[b]
    BY <1>1, <1>4, <1>5, Zenon
  <2> QED BY <2>1, <2>4, <2>5, Zenon DEF Spared
<1>15. Single(u)
  <2>1. ASSUME NEW i \in D, NEW j \in D, u.tab[i].s = u.tab[j].s, u.tab[i].s # NoName PROVE i = j
    <3>1. \A k, l \in D : t.tab[k].s = t.tab[l].s /\ t.tab[k].s # NoName => k = l
      BY <1>1, Zenon DEF Tabled, Single
    <3>2. \A k \in D : t.tab[k].s # name
      BY <1>1
    <3>3. CASE i = b
      BY <1>9, <2>1, <3>2, <3>3, Zenon
    <3>4. CASE j = b
      BY <1>9, <2>1, <3>2, <3>4, Zenon
    <3>5. CASE i # b /\ j # b
      BY <1>9, <2>1, <3>1, <3>5, Zenon
    <3> QED BY <3>3, <3>4, <3>5
  <2> QED BY <1>10, <2>1, Zenon DEF Single
<1>16. Hashed(u)
  BY <1>10, <1>13, Zenon DEF Hashed
<1>17. Tabled(u)
  BY <1>8, <1>14, <1>15, <1>16, Zenon DEF Tabled
<1>18. Entered(t, u, name)
  BY <1>1, <1>4, <1>9, <1>10, Zenon DEF Entered
<1> QED BY <1>17, <1>18

-----------------------------------------------------------------------------
(* The last reference to a name is discarded.                                *)
Left(t, u, id) ==
    /\ DOMAIN u.tab = DOMAIN t.tab /\ u.tab[id].s = NoName
    /\ \A j \in DOMAIN t.tab : j # id => u.tab[j].s = t.tab[j].s /\ u.tab[j].refs = t.tab[j].refs

Skipped(tab, C, id, next) ==
    [i \in DOMAIN tab |-> IF i \in C /\ tab[i].next = id THEN [tab[i] EXCEPT !.next = next] ELSE tab[i]]
Unlinked(tab, C, id, free) == [Skipped(tab, C, id, tab[id].next) EXCEPT ![id] = Entry(NoName, free, 0)]

Unlinks(tab, new, C, id, free) ==
    /\ new[id].s = NoName /\ new[id].next = free
    /\ \A i \in DOMAIN tab \ {id} :
          /\ new[i].s = tab[i].s /\ new[i].refs = tab[i].refs
          /\ new[i].next = IF i \in C /\ tab[i].next = id THEN tab[id].next ELSE tab[i].next

LEMMA UnlinkedIs ==
    ASSUME NEW D, NEW tab \in [D -> Record], NEW C, NEW id \in D, NEW free \in Int
    PROVE  /\ Unlinked(tab, C, id, free) \in [D -> Record]
           /\ Unlinks(tab, Unlinked(tab, C, id, free), C, id, free)
<1> PICK new : new = Unlinked(tab, C, id, free)
  OBVIOUS
<1>1. DOMAIN tab = D /\ tab[id].next \in Int
  BY DEF Record
<1> PICK next \in Int : next = tab[id].next
  BY <1>1
<1>2. /\ new = [i \in D |-> IF i = id THEN Entry(NoName, free, 0)
                            ELSE IF i \in C /\ tab[i].next = id THEN [tab[i] EXCEPT !.next = next]
                            ELSE tab[i]]
  BY <1>1 DEF Unlinked, Skipped
<1>3. Entry(NoName, free, 0) \in Record /\ Entry(NoName, free, 0).s = NoName /\ Entry(NoName, free, 0).next = free
  BY DEF Entry, Record
<1>4. ASSUME NEW i \in D
      PROVE  /\ [tab[i] EXCEPT !.next = next] \in Record /\ [tab[i] EXCEPT !.next = next].s = tab[i].s
             /\ [tab[i] EXCEPT !.next = next].refs = tab[i].refs /\ [tab[i] EXCEPT !.next = next].next = next
  <2>1. tab[i] \in Record
    OBVIOUS
  <2> QED BY <2>1 DEF Record
<1>5. ASSUME NEW i \in D PROVE new[i] \in Record
  <2>1. tab[i] \in Record
    OBVIOUS
  <2>2. new[i] = IF i = id THEN Entry(NoName, free, 0)
                 ELSE IF i \in C /\ tab[i].next = id THEN [tab[i] EXCEPT !.next = next]
                 ELSE tab[i]
    BY <1>2, Zenon
  <2>3. [tab[i] EXCEPT !.next = next] \in Record
    BY <1>4
  <2> QED BY <1>3, <2>1, <2>2, <2>3, Zenon
<1>6. new \in [D -> Record]
  <2>1. new = [i \in D |-> new[i]]
    BY <1>2
  <2> QED BY <1>5, <2>1
<1>7. ASSUME NEW i \in D, i # id
      PROVE  /\ new[i].s = tab[i].s /\ new[i].refs = tab[i].refs
             /\ new[i].next = IF i \in C /\ tab[i].next = id THEN tab[id].next ELSE tab[i].next
  <2>1. CASE i \in C /\ tab[i].next = id
    <3>1. new[i] = [tab[i] EXCEPT !.next = next]
      BY <1>2, <1>7, <2>1
    <3> QED BY <1>4, <2>1, <3>1
  <2>2. CASE ~(i \in C /\ tab[i].next = id)
    BY <1>2, <1>7, <2>2
  <2> QED BY <2>1, <2>2
<1>8. new[id] = Entry(NoName, free, 0)
  BY <1>2
<1> QED BY <1>1, <1>3, <1>6, <1>7, <1>8, Zenon DEF Unlinks

LEMMA OtherTab ==
    ASSUME NEW tab, NEW heads, NEW free, NEW new
    PROVE  [[tab |-> tab, hashtab |-> heads, blanks |-> free] EXCEPT !.tab = new]
               = [tab |-> new, hashtab |-> heads, blanks |-> free]
OBVIOUS

Headed(t, h, x) == [t EXCEPT !.hashtab[h] = x]
Three(t) == t = [tab |-> t.tab, hashtab |-> t.hashtab, blanks |-> t.blanks]

LEMMA OtherHead ==
    ASSUME NEW t, Three(t), NEW h, NEW x
    PROVE  Headed(t, h, x)
               = [tab |-> t.tab, hashtab |-> PutIn(t.hashtab, h, x), blanks |-> t.blanks]
BY DEF PutIn, Headed, Three

LEMMA LastDiscardIs ==
    ASSUME NEW t, Tabled(t), NEW id \in DOMAIN t.tab, t.tab[id].s \in Names, ~(t.tab[id].refs > 1)
    PROVE  Tabled(ident_discard(t, id)) /\ Left(t, ident_discard(t, id), id)
<1> PICK u : u = ident_discard(t, id)
  OBVIOUS
<1>1. PICK n \in Nat \ {0} :
              /\ t = [tab |-> t.tab, hashtab |-> t.hashtab, blanks |-> t.blanks]
              /\ t.tab \in [0 .. n - 1 -> Record] /\ t.hashtab \in [0 .. n - 1 -> Int]
              /\ TabSize(t) = n /\ DOMAIN t.tab = 0 .. n - 1 /\ DOMAIN t.hashtab = 0 .. n - 1
              /\ DOMAIN NextOf(t) = 0 .. n - 1 /\ -1 \notin 0 .. n - 1
              /\ \A i \in 0 .. n - 1 : /\ t.tab[i].s \in Names \cup {NoName} /\ t.tab[i].next \in Int
                                       /\ t.tab[i].refs \in Nat /\ NextOf(t)[i] = t.tab[i].next
  BY TabledIs
<1> PICK D : D = 0 .. n - 1
  OBVIOUS
<1>1a. PICK h : h = hash[t.tab[id].s] % n
  OBVIOUS
<1>2. h \in D /\ id \in D /\ id # -1 /\ id \in Int
  <2>1. t.tab[id].s \in Names /\ id \in D
    BY <1>1, NamesAreNumbers
  <2>2. hash[t.tab[id].s] % n \in 0 .. n - 1
    BY <1>1, <2>1, HashIs
  <2> QED BY <1>1, <1>1a, <2>1, <2>2
<1>3. Line(NextOf(t), Blanks(t), t.blanks) /\ \A k \in D : Line(NextOf(t), Class(t, k), t.hashtab[k])
  BY <1>1, Zenon DEF Tabled, Spared, Hashed
<1> PICK C : C = Class(t, h)
  OBVIOUS
<1>4. Follow(t, t.hashtab[h]) = C
  <2>1. Line(NextOf(t), C, t.hashtab[h])
    BY <1>2, <1>3, Zenon
  <2> QED BY <2>1, LineReached, Zenon DEF Follow, NextOf
<1>5. id \in C /\ t.tab[id].s # NoName
  BY <1>1, <1>1a, <1>2, NamesAreNumbers DEF Class
<1> PICK new : new = Unlinked(t.tab, C, id, t.blanks)
  OBVIOUS
<1> PICK first : first = IF t.hashtab[h] = id THEN t.tab[id].next ELSE t.hashtab[h]
  OBVIOUS
<1>6. u = [tab |-> new, hashtab |-> PutIn(t.hashtab, h, first), blanks |-> id]
  <2> DEFINE v == [t EXCEPT !.hashtab[h] = first,
                            !.tab = [i \in DOMAIN @ |-> IF i \in C /\ @[i].next = id
                                                        THEN [@[i] EXCEPT !.next = t.tab[id].next] ELSE @[i]]]
  <2>1. u = [v EXCEPT !.tab[id] = Entry(NoName, t.blanks, 0), !.blanks = id]
    <3>1. hash[t.tab[id].s] % TabSize(t) = h
      BY <1>1, <1>1a
    <3> HIDE <1>1a
    <3> QED BY <1>4, <3>1 DEF ident_discard
  <2>2. v = [tab |-> Skipped(t.tab, C, id, t.tab[id].next), hashtab |-> PutIn(t.hashtab, h, first),
             blanks |-> t.blanks]
    <3>1. [t EXCEPT !.hashtab[h] = first]
             = [tab |-> t.tab, hashtab |-> PutIn(t.hashtab, h, first), blanks |-> t.blanks]
      <4>1. Three(t)
        BY <1>1, Zenon DEF Three
      <4> QED BY <4>1, OtherHead, ZenonT(40) DEF Headed
    <3> PICK w : w = [t EXCEPT !.hashtab[h] = first]
      OBVIOUS
    <3>2. v = [w EXCEPT !.tab = Skipped(w.tab, C, id, t.tab[id].next)]
      BY DEF Skipped
    <3>3. w.tab = t.tab
      BY <3>1
    <3>4. v = [w EXCEPT !.tab = Skipped(t.tab, C, id, t.tab[id].next)]
      <4> HIDE DEF v
      <4> QED BY <3>2, <3>3, Zenon
    <3> HIDE DEF v
    <3> QED BY <3>1, <3>4, OtherTab, Zenon
  <2> HIDE DEF v
  <2>3. Unlinked(t.tab, C, id, t.blanks)
           = [Skipped(t.tab, C, id, t.tab[id].next) EXCEPT ![id] = Entry(NoName, t.blanks, 0)]
    BY Zenon DEF Unlinked
  <2> QED BY <2>1, <2>2, <2>3
<1>7. t.blanks \in Int /\ first \in Int
  <2>1. t.blanks \in Blanks(t) \cup {-1}
    BY <1>3, Zenon DEF Line
  <2>2. Blanks(t) \subseteq D
    BY <1>1 DEF Blanks
  <2>3. D \subseteq Int
    OBVIOUS
  <2>4. t.tab[id].next \in Int /\ t.hashtab[h] \in Int
    BY <1>1, <1>2
  <2> QED BY <2>1, <2>2, <2>3, <2>4
<1>8. new \in [D -> Record] /\ Unlinks(t.tab, new, C, id, t.blanks)
  <2>1. t.tab \in [D -> Record]
    BY <1>1, Zenon
  <2> QED BY <1>2, <1>7, <2>1, UnlinkedIs, Zenon
<1>9. /\ u.hashtab \in [D -> Int] /\ u.hashtab[h] = first
      /\ \A k \in D : k # h => u.hashtab[k] = t.hashtab[k]
  <2>1. t.hashtab \in [D -> Int]
    BY <1>1, Zenon
  <2>2. u.hashtab = PutIn(t.hashtab, h, first)
    BY <1>6
  <2>3. /\ PutIn(t.hashtab, h, first) \in [D -> Int] /\ PutIn(t.hashtab, h, first)[h] = first
        /\ \A k \in D : k # h => PutIn(t.hashtab, h, first)[k] = t.hashtab[k]
    <3>1. h \in D /\ first \in Int
      BY <1>2, <1>7, Zenon
    <3> PICK f : f = PutIn(t.hashtab, h, first)
      OBVIOUS
    <3>2. f \in [D -> Int]
      BY <2>1, <3>1, PutInIs, Zenon
    <3>3. f = [t.hashtab EXCEPT ![h] = first] /\ DOMAIN t.hashtab = D
      BY <2>1 DEF PutIn
    <3>4. f[h] = first /\ \A k \in D : k # h => f[k] = t.hashtab[k]
      BY <3>1, <3>3, Zenon
    <3> QED BY <3>2, <3>4, Zenon
  <2> QED BY <2>2, <2>3, Zenon
<1>10. u.tab = new /\ u.blanks = id /\ u = [tab |-> u.tab, hashtab |-> u.hashtab, blanks |-> u.blanks]
  BY <1>6
<1>11. Sized(u, n)
  BY <1>8, <1>9, <1>10, SizedFrom, Zenon
<1>12. /\ DOMAIN u.tab = D /\ DOMAIN NextOf(u) = D /\ TabSize(u) = n
       /\ u.tab[id].s = NoName /\ NextOf(u)[id] = t.blanks
       /\ \A i \in D \ {id} :
             /\ u.tab[i].s = t.tab[i].s /\ u.tab[i].refs = t.tab[i].refs
             /\ NextOf(u)[i] = IF i \in C /\ NextOf(t)[i] = id THEN NextOf(t)[id] ELSE NextOf(t)[i]
  <2>1. DOMAIN u.tab = D /\ TabSize(u) = n
    <3>1. DOMAIN u.tab = D
      BY <1>8, <1>10
    <3> QED BY <1>11, <3>1, Zenon DEF Sized
  <2>2. DOMAIN NextOf(u) = D /\ \A i \in D : NextOf(u)[i] = u.tab[i].next
    BY <2>1 DEF NextOf
  <2>3. \A i \in D : NextOf(t)[i] = t.tab[i].next
    BY <1>1, Zenon
  <2>4. /\ u.tab[id].s = NoName /\ u.tab[id].next = t.blanks
        /\ \A i \in D \ {id} :
              /\ u.tab[i].s = t.tab[i].s /\ u.tab[i].refs = t.tab[i].refs
              /\ u.tab[i].next = IF i \in C /\ t.tab[i].next = id THEN t.tab[id].next ELSE t.tab[i].next
    <3>1. DOMAIN t.tab = D
      BY <1>1, Zenon
    <3> QED BY <1>8, <1>10, <3>1, Zenon DEF Unlinks
  <2> QED BY <1>2, <2>1, <2>2, <2>3, <2>4
<1>13. ASSUME NEW k \in D
       PROVE  Class(u, k) = Class(t, k) \ {id} /\ (k # h => id \notin Class(t, k))
  <2>1. id \notin Class(u, k)
    BY <1>12 DEF Class
  <2>2. ASSUME NEW j \in D, j # id PROVE j \in Class(u, k) <=> j \in Class(t, k)
    <3>1. u.tab[j].s = t.tab[j].s
      BY <1>12, <2>2
    <3>2. DOMAIN t.tab = D /\ DOMAIN u.tab = D /\ TabSize(t) = n /\ TabSize(u) = n
      BY <1>1, <1>12, Zenon
    <3> QED BY <3>1, <3>2, Zenon DEF Class
  <2>3. Class(u, k) \subseteq D /\ Class(t, k) \subseteq D
    BY <1>1, <1>12 DEF Class
  <2>4. k # h => id \notin Class(t, k)
    BY <1>1, <1>1a DEF Class
  <2> QED BY <2>1, <2>2, <2>3, <2>4
<1>14. ASSUME NEW k \in D PROVE Line(NextOf(u), Class(u, k), u.hashtab[k])
  <2>0. Class(t, k) \subseteq D
    BY <1>1 DEF Class
  <2>1. CASE k = h
    <3>1. ASSUME NEW i \in C \ {id}
          PROVE  NextOf(u)[i] = IF NextOf(t)[i] = id THEN NextOf(t)[id] ELSE NextOf(t)[i]
      BY <1>12, <2>0, <2>1, <3>1
    <3>2. Skips(NextOf(t), NextOf(u), C, id)
      BY <1>1, <1>12, <2>0, <2>1, <3>1, Zenon DEF Skips
    <3>3. Line(NextOf(t), C, t.hashtab[h])
      BY <1>2, <1>3, Zenon
    <3>4. Line(NextOf(u), C \ {id}, IF t.hashtab[h] = id THEN NextOf(t)[id] ELSE t.hashtab[h])
      BY <1>5, <3>2, <3>3, LineUnlink, Zenon
    <3>5. NextOf(t)[id] = t.tab[id].next
      BY <1>1, <1>2, Zenon
    <3> QED BY <1>9, <1>13, <2>1, <3>4, <3>5, Zenon
  <2>2. CASE k # h
    <3>1. Class(u, k) = Class(t, k) /\ id \notin Class(t, k)
      <4>1. id \notin Class(t, k)
        BY <1>13, <2>2, Zenon
      <4> QED BY <1>13, <4>1
    <3>2. ASSUME NEW i \in Class(t, k) PROVE NextOf(u)[i] = NextOf(t)[i]
      <4>1. i \notin C
        BY <1>1, <2>2 DEF Class
      <4> QED BY <1>12, <2>0, <3>1, <4>1
    <3>3. SameOn(NextOf(t), NextOf(u), Class(t, k))
      BY <1>1, <1>12, <2>0, <3>2, Zenon DEF SameOn
    <3>4. Line(NextOf(u), Class(t, k), t.hashtab[k])
      BY <1>3, <3>3, LineSame, Zenon
    <3> QED BY <1>9, <2>2, <3>1, <3>4, Zenon
  <2> QED BY <2>1, <2>2
<1>15. Spared(u)
  <2>0. Blanks(t) \subseteq D /\ id \notin Blanks(t)
    BY <1>1, <1>5 DEF Blanks
  <2>1. Blanks(u) = Blanks(t) \cup {id}
    <3>1. id \in Blanks(u)
      BY <1>2, <1>12 DEF Blanks
    <3>2. ASSUME NEW j \in D, j # id PROVE j \in Blanks(u) <=> j \in Blanks(t)
      <4>1. u.tab[j].s = t.tab[j].s
        BY <1>12, <3>2
      <4> QED BY <1>1, <1>12, <4>1, Zenon DEF Blanks
    <3>3. Blanks(u) \subseteq D
      BY <1>12 DEF Blanks
    <3> QED BY <2>0, <3>1, <3>2, <3>3
  <2>2. ASSUME NEW i \in Blanks(t) PROVE NextOf(u)[i] = NextOf(t)[i]
    <3>1. i \notin C
      BY DEF Class, Blanks
    <3> QED BY <1>12, <2>0, <3>1
  <2>3. SameOn(NextOf(t), NextOf(u), Blanks(t))
    BY <1>1, <1>12, <2>0, <2>2, Zenon DEF SameOn
  <2>4. id \in DOMAIN NextOf(u)
    BY <1>2, <1>12, Zenon
  <2>5. Line(NextOf(u), Blanks(t) \cup {id}, id)
    BY <1>2, <1>3, <1>12, <2>0, <2>3, <2>4, LinePush, Zenon
  <2> QED BY <1>10, <2>1, <2>5, Zenon DEF Spared
<1>16. Single(u)
  <2>1. ASSUME NEW i \in D, NEW j \in D, u.tab[i].s = u.tab[j].s, u.tab[i].s # NoName PROVE i = j
    <3>1. \A k, l \in D : t.tab[k].s = t.tab[l].s /\ t.tab[k].s # NoName => k = l
      BY <1>1, Zenon DEF Tabled, Single
    <3>2. i # id /\ j # id
      BY <1>12, <2>1
    <3>3. u.tab[i].s = t.tab[i].s /\ u.tab[j].s = t.tab[j].s
      BY <1>12, <3>2
    <3> QED BY <2>1, <3>1, <3>3, Zenon
  <2> QED BY <1>12, <2>1, Zenon DEF Single
<1>17. Hashed(u)
  BY <1>12, <1>14, Zenon DEF Hashed
<1>18. Tabled(u)
  BY <1>11, <1>15, <1>16, <1>17, Zenon DEF Tabled
<1>19. Left(t, u, id)
  BY <1>1, <1>12 DEF Left
<1> QED BY <1>18, <1>19

-----------------------------------------------------------------------------
(* What the table says of each name, when c counts the references to it.     *)
Tells(t, name, k) ==
    /\ k = 0 => \A i \in DOMAIN t.tab : t.tab[i].s # name
    /\ k # 0 => \E i \in DOMAIN t.tab : t.tab[i].s = name
    /\ \A i \in DOMAIN t.tab : t.tab[i].s = name => t.tab[i].refs = k
Holds(t, c) == Tabled(t) /\ c \in [Names -> Nat] /\ \A name \in Names : Tells(t, name, c[name])

AsTold(t, u, name) ==
    /\ DOMAIN u.tab = DOMAIN t.tab
    /\ \A j \in DOMAIN t.tab : /\ u.tab[j].s = name <=> t.tab[j].s = name
                               /\ t.tab[j].s = name => u.tab[j].refs = t.tab[j].refs

LEMMA TellsSame ==
    ASSUME NEW t, NEW u, NEW name, NEW k, Tells(t, name, k), AsTold(t, u, name)
    PROVE  Tells(u, name, k)
<1>1. /\ DOMAIN u.tab = DOMAIN t.tab
      /\ \A j \in DOMAIN t.tab : /\ u.tab[j].s = name <=> t.tab[j].s = name
                                 /\ t.tab[j].s = name => u.tab[j].refs = t.tab[j].refs
  BY Zenon DEF AsTold
<1>2. k = 0 => \A i \in DOMAIN u.tab : u.tab[i].s # name
  BY <1>1, Zenon DEF Tells
<1>3. k # 0 => \E i \in DOMAIN u.tab : u.tab[i].s = name
  BY <1>1, Zenon DEF Tells
<1>4. \A i \in DOMAIN u.tab : u.tab[i].s = name => u.tab[i].refs = k
  BY <1>1 DEF Tells
<1> QED BY <1>2, <1>3, <1>4, Zenon DEF Tells

(* Names stay where they are.                                                *)
Stays(t, u) == \A i \in DOMAIN t.tab : t.tab[i].s \in Names => i \in DOMAIN u.tab /\ u.tab[i].s = t.tab[i].s
Counting(c, name, k) == [c EXCEPT ![name] = c[name] + k]

LEMMA CountingIs ==
    ASSUME NEW c \in [Names -> Nat], NEW name \in Names, NEW k \in Int, c[name] + k \in Nat
    PROVE  /\ Counting(c, name, k) \in [Names -> Nat] /\ Counting(c, name, k)[name] = c[name] + k
           /\ \A m \in Names : m # name => Counting(c, name, k)[m] = c[m]
BY DEF Counting

(* The references to the name of an entry change.                            *)
LEMMA RecountHolds ==
    ASSUME NEW t, NEW c, Holds(t, c), NEW i \in DOMAIN t.tab, NEW name \in Names, t.tab[i].s = name,
           NEW k \in Int, c[name] + k \in Nat \ {0}
    PROVE  /\ Holds(Recounted(t, i, c[name] + k), Counting(c, name, k))
           /\ Stays(t, Recounted(t, i, c[name] + k)) /\ SameThreads(t, Recounted(t, i, c[name] + k))
<1> PICK r \in Nat \ {0} : r = c[name] + k
  OBVIOUS
<1> PICK u : u = Recounted(t, i, r)
  OBVIOUS
<1> PICK e : e = Counting(c, name, k)
  OBVIOUS
<1>1. Tabled(t) /\ c \in [Names -> Nat] /\ Single(t)
  BY Zenon DEF Holds, Tabled
<1>2. e \in [Names -> Nat] /\ e[name] = r /\ \A m \in Names : m # name => e[m] = c[m]
  BY <1>1, CountingIs
<1>3. /\ Tabled(u) /\ SameThreads(t, u) /\ u.tab[i].refs = r
      /\ \A j \in DOMAIN t.tab : j # i => u.tab[j].refs = t.tab[j].refs
  BY <1>1, RecountedIs
<1>4. DOMAIN u.tab = DOMAIN t.tab /\ \A j \in DOMAIN t.tab : u.tab[j].s = t.tab[j].s
  BY <1>3, Zenon DEF SameThreads
<1>5. ASSUME NEW m \in Names PROVE Tells(u, m, e[m])
  <2>1. Tells(t, m, c[m])
    BY Zenon DEF Holds
  <2>2. CASE m = name
    <3>1. ASSUME NEW j \in DOMAIN u.tab, u.tab[j].s = name PROVE u.tab[j].refs = r
      <4>1. j = i
        <5>1. t.tab[j].s = t.tab[i].s /\ t.tab[j].s # NoName /\ j \in DOMAIN t.tab
          BY <1>4, <3>1, NamesAreNumbers
        <5> QED BY <1>1, <5>1, Zenon DEF Single
      <4> QED BY <1>3, <4>1
    <3>2. u.tab[i].s = name /\ i \in DOMAIN u.tab /\ r # 0
      BY <1>4
    <3> QED BY <1>2, <2>2, <3>1, <3>2, Zenon DEF Tells
  <2>3. CASE m # name
    <3>1. \A j \in DOMAIN t.tab : t.tab[j].s = m => j # i
      BY <2>3
    <3>2. AsTold(t, u, m)
      BY <1>3, <1>4, <3>1 DEF AsTold
    <3>3. e[m] = c[m]
      BY <1>2, <2>3
    <3> QED BY <2>1, <3>2, <3>3, TellsSame, Zenon
  <2> QED BY <2>2, <2>3
<1>6. Holds(u, e) /\ Stays(t, u)
  BY <1>2, <1>3, <1>4, <1>5, Zenon DEF Holds, Stays
<1> QED BY <1>3, <1>6

LEMMA GrownHolds ==
    ASSUME NEW t, NEW c, Holds(t, c), t.blanks = -1
    PROVE  Holds(Grown(t), c) /\ Stays(t, Grown(t)) /\ Grown(t).blanks # -1
<1> PICK u : u = Grown(t)
  OBVIOUS
<1>1. Tabled(t) /\ c \in [Names -> Nat]
  BY Zenon DEF Holds
<1>2. Tabled(u) /\ GrewTo(t, u)
  BY <1>1, GrownIs, Zenon
<1>3. /\ DOMAIN t.tab \subseteq DOMAIN u.tab /\ u.blanks # -1
      /\ \A i \in DOMAIN t.tab : u.tab[i].s = t.tab[i].s /\ u.tab[i].refs = t.tab[i].refs
      /\ \A i \in DOMAIN u.tab : i \notin DOMAIN t.tab => u.tab[i].s = NoName
  BY <1>2, Zenon DEF GrewTo
<1>4. ASSUME NEW m \in Names PROVE Tells(u, m, c[m])
  <2>1. Tells(t, m, c[m])
    BY Zenon DEF Holds
  <2>2. m # NoName
    BY NamesAreNumbers
  <2>3. \A i \in DOMAIN u.tab : u.tab[i].s = m => i \in DOMAIN t.tab
    BY <1>3, <2>2
  <2>4. \A i \in DOMAIN t.tab : i \in DOMAIN u.tab
    BY <1>3
  <2> QED BY <1>3, <2>1, <2>3, <2>4, Zenon DEF Tells
<1>5. Holds(u, c)
  BY <1>1, <1>2, <1>4, Zenon DEF Holds
<1>6. Stays(t, u)
  BY <1>3 DEF Stays
<1> QED BY <1>3, <1>5, <1>6

LEMMA InstallHolds ==
    ASSUME NEW t, NEW c, Holds(t, c), t.blanks # -1, NEW name \in Names, c[name] = 0
    PROVE  /\ Holds(Installed(t, name), Counting(c, name, 1)) /\ Stays(t, Installed(t, name))
           /\ t.blanks \in DOMAIN Installed(t, name).tab /\ Installed(t, name).tab[t.blanks].s = name
<1> PICK u : u = Installed(t, name)
  OBVIOUS
<1> PICK b : b = t.blanks
  OBVIOUS
<1> PICK e : e = Counting(c, name, 1)
  OBVIOUS
<1>1. Tabled(t) /\ c \in [Names -> Nat] /\ Tells(t, name, 0)
  BY Zenon DEF Holds
<1>2. \A i \in DOMAIN t.tab : t.tab[i].s # name
  BY <1>1, Zenon DEF Tells
<1>3. Tabled(u) /\ Entered(t, u, name)
  BY <1>1, <1>2, InstalledIs, Zenon
<1>4. /\ b \in DOMAIN t.tab /\ DOMAIN u.tab = DOMAIN t.tab /\ t.tab[b].s = NoName
      /\ u.tab[b].s = name /\ u.tab[b].refs = 1
      /\ \A j \in DOMAIN t.tab : j # b => u.tab[j].s = t.tab[j].s /\ u.tab[j].refs = t.tab[j].refs
  BY <1>3, Zenon DEF Entered
<1>5. e \in [Names -> Nat] /\ e[name] = 1 /\ \A m \in Names : m # name => e[m] = c[m]
  <2>1. c[name] + 1 \in Nat /\ c[name] + 1 = 1
    OBVIOUS
  <2> QED BY <1>1, <2>1, CountingIs
<1>6. ASSUME NEW m \in Names PROVE Tells(u, m, e[m])
  <2>1. CASE m = name
    <3>1. ASSUME NEW j \in DOMAIN u.tab, u.tab[j].s = name PROVE u.tab[j].refs = 1
      <4>1. j = b
        BY <1>2, <1>4, <3>1
      <4> QED BY <1>4, <4>1
    <3>2. b \in DOMAIN u.tab /\ u.tab[b].s = name
      BY <1>4
    <3> QED BY <1>5, <2>1, <3>1, <3>2 DEF Tells
  <2>2. CASE m # name
    <3>1. Tells(t, m, c[m])
      BY Zenon DEF Holds
    <3>2. m # NoName
      BY NamesAreNumbers
    <3>3. \A j \in DOMAIN t.tab : t.tab[j].s = m => j # b
      BY <1>4, <3>2
    <3>4. \A j \in DOMAIN u.tab : u.tab[j].s = m => j # b
      BY <1>4, <2>2
    <3> QED BY <1>4, <1>5, <2>2, <3>1, <3>3, <3>4, ZenonT(40) DEF Tells
  <2> QED BY <2>1, <2>2
<1>7. Holds(u, e)
  BY <1>3, <1>5, <1>6, Zenon DEF Holds
<1>8. Stays(t, u)
  BY <1>4, NamesAreNumbers DEF Stays
<1> QED BY <1>4, <1>7, <1>8

Got(t, got, c, name) ==
    /\ Holds(got.table, Counting(c, name, 1)) /\ Stays(t, got.table)
    /\ got.id \in DOMAIN got.table.tab /\ got.table.tab[got.id].s = name

LEMMA GetIs ==
    ASSUME NEW t, NEW c, Holds(t, c), NEW name \in Names
    PROVE  Got(t, ident_get(t, name), c, name)
<1>1. Tabled(t) /\ c \in [Names -> Nat] /\ Tells(t, name, c[name])
  BY Zenon DEF Holds
<1>2. Named(t, name) = {i \in DOMAIN t.tab : t.tab[i].s = name}
  BY <1>1, NamedIs, Zenon
<1> PICK got : got = ident_get(t, name)
  OBVIOUS
<1>3. CASE Named(t, name) # {}
  <2> PICK ind : ind = CHOOSE i \in Named(t, name) : TRUE
    OBVIOUS
  <2>1. ind \in Named(t, name)
    BY <1>3
  <2>2. ind \in DOMAIN t.tab /\ t.tab[ind].s = name /\ t.tab[ind].refs = c[name]
    BY <1>1, <1>2, <2>1, Zenon DEF Tells
  <2>3. got = [id |-> ind, table |-> [t EXCEPT !.tab[ind].refs = t.tab[ind].refs + 1]]
    BY <1>3 DEF ident_get
  <2>4. got = [id |-> ind, table |-> Recounted(t, ind, c[name] + 1)]
    BY <2>2, <2>3, Zenon DEF Recounted
  <2>5. c[name] + 1 \in Nat \ {0}
    BY <1>1
  <2>6. /\ Holds(Recounted(t, ind, c[name] + 1), Counting(c, name, 1))
        /\ Stays(t, Recounted(t, ind, c[name] + 1))
    BY <2>2, <2>5, RecountHolds
  <2>7. got.id = ind /\ got.table = Recounted(t, ind, c[name] + 1)
    BY <2>4
  <2>8. ind \in DOMAIN got.table.tab /\ got.table.tab[ind].s = name
    BY <2>2, <2>6, <2>7, Zenon DEF Stays
  <2> QED BY <2>6, <2>7, <2>8, Zenon DEF Got
<1>4. CASE Named(t, name) = {}
  <2> PICK u : u = IF t.blanks = -1 THEN Grown(t) ELSE t
    OBVIOUS
  <2>1. got = [id |-> u.blanks, table |-> Installed(u, name)]
    BY <1>4, Zenon DEF ident_get
  <2>2. Holds(u, c) /\ Stays(t, u) /\ u.blanks # -1
    <3>1. CASE t.blanks = -1
      BY <3>1, GrownHolds
    <3>2. CASE t.blanks # -1
      BY <3>2 DEF Stays
    <3> QED BY <3>1, <3>2
  <2>3. c[name] = 0
    BY <1>1, <1>2, <1>4, Zenon DEF Tells
  <2>4. /\ Holds(Installed(u, name), Counting(c, name, 1)) /\ Stays(u, Installed(u, name))
        /\ u.blanks \in DOMAIN Installed(u, name).tab /\ Installed(u, name).tab[u.blanks].s = name
    BY <2>2, <2>3, InstallHolds
  <2>5. got.id = u.blanks /\ got.table = Installed(u, name)
    BY <2>1
  <2>6. Stays(t, Installed(u, name))
    BY <2>2, <2>4, Zenon DEF Stays
  <2> QED BY <2>4, <2>5, <2>6, Zenon DEF Got
<1> QED BY <1>3, <1>4

(* A reference to the name of an entry is discarded.                         *)
StayOthers(t, u, name) ==
    \A i \in DOMAIN t.tab : t.tab[i].s \in Names \ {name} => i \in DOMAIN u.tab /\ u.tab[i].s = t.tab[i].s

LEMMA DiscardIs ==
    ASSUME NEW t, NEW c, Holds(t, c), NEW name \in Names, c[name] # 0,
           NEW id \in DOMAIN t.tab, t.tab[id].s = name
    PROVE  /\ Holds(ident_discard(t, id), Counting(c, name, -1))
           /\ StayOthers(t, ident_discard(t, id), name)
           /\ c[name] # 1 => Stays(t, ident_discard(t, id))
<1> PICK u : u = ident_discard(t, id)
  OBVIOUS
<1> PICK e : e = Counting(c, name, -1)
  OBVIOUS
<1>1. Tabled(t) /\ c \in [Names -> Nat] /\ Tells(t, name, c[name]) /\ Single(t)
  BY Zenon DEF Holds, Tabled
<1>2. t.tab[id].refs = c[name] /\ c[name] \in Nat \ {0}
  BY <1>1 DEF Tells
<1>3. c[name] + -1 \in Nat /\ c[name] + -1 = c[name] - 1
  BY <1>2
<1>4. e \in [Names -> Nat] /\ e[name] = c[name] - 1 /\ \A m \in Names : m # name => e[m] = c[m]
  BY <1>1, <1>3, CountingIs
<1>5. CASE c[name] > 1
  <2>1. u = Recounted(t, id, t.tab[id].refs - 1)
    BY <1>2, <1>5 DEF ident_discard, Recounted
  <2>2. u = Recounted(t, id, c[name] + -1)
    BY <1>2, <1>3, <2>1, Zenon
  <2>3. c[name] + -1 \in Nat \ {0}
    BY <1>2, <1>5
  <2>4. Holds(u, e) /\ Stays(t, u)
    BY <2>2, <2>3, RecountHolds
  <2> QED BY <2>4 DEF Stays, StayOthers
<1>6. CASE ~(c[name] > 1)
  <2>1. c[name] = 1
    BY <1>2, <1>6
  <2>2. Tabled(u) /\ Left(t, u, id)
    <3>1. ~(t.tab[id].refs > 1) /\ t.tab[id].s \in Names
      BY <1>2, <1>6
    <3> QED BY <1>1, <3>1, LastDiscardIs, Zenon
  <2>3. /\ DOMAIN u.tab = DOMAIN t.tab /\ u.tab[id].s = NoName
        /\ \A j \in DOMAIN t.tab : j # id => u.tab[j].s = t.tab[j].s /\ u.tab[j].refs = t.tab[j].refs
    BY <2>2, Zenon DEF Left
  <2>4. ASSUME NEW m \in Names PROVE Tells(u, m, e[m])
    <3>0. m # NoName
      BY NamesAreNumbers
    <3>1. CASE m = name
      <4>1. ASSUME NEW j \in DOMAIN u.tab PROVE u.tab[j].s # name
        <5>1. CASE j = id
          BY <2>3, <3>0, <3>1, <5>1
        <5>2. CASE j # id
          <6>1. t.tab[j].s = name => j = id
            <7>1. name # NoName
              BY NamesAreNumbers
            <7> QED BY <1>1, <2>3, <7>1, Zenon DEF Single
          <6> QED BY <2>3, <5>2, <6>1
        <5> QED BY <5>1, <5>2
      <4>2. e[m] = 0
        BY <1>4, <2>1, <3>1
      <4> QED BY <3>1, <4>1, <4>2, Zenon DEF Tells
    <3>2. CASE m # name
      <4>1. Tells(t, m, c[m])
        BY Zenon DEF Holds
      <4>2. \A j \in DOMAIN t.tab : t.tab[j].s = m => j # id
        BY <3>2
      <4>3. \A j \in DOMAIN u.tab : u.tab[j].s = m => j # id
        BY <2>3, <3>0
      <4>4. AsTold(t, u, m)
        BY <2>3, <4>2, <4>3 DEF AsTold
      <4>5. e[m] = c[m]
        BY <1>4, <3>2
      <4> QED BY <4>1, <4>4, <4>5, TellsSame, Zenon
    <3> QED BY <3>1, <3>2
  <2>5. Holds(u, e)
    BY <1>4, <2>2, <2>4, Zenon DEF Holds
  <2>6. StayOthers(t, u, name)
    BY <2>3 DEF StayOthers
  <2> QED BY <2>1, <2>5, <2>6
<1> QED BY <1>5, <1>6

-----------------------------------------------------------------------------
(* init_ident takes the permanent names one after another.                   *)
Getting(n, f) ==
    [k \in 0 .. n |-> IF k = 0 THEN Blank(InitTabSize) ELSE ident_get(f[k - 1], Permanent[k]).table]

LEMMA GettingIsDefined ==
    ASSUME NEW n \in Nat
    PROVE  \E f : f = Getting(n, f)
<1> DEFINE Odd == {k \in Nat : ~\E f : f = Getting(k, f)}
<1> SUFFICES ASSUME Odd # {} PROVE FALSE
  OBVIOUS
<1>1. PICK m \in Odd : \A k \in Odd : m <= k
  <2>1. Odd \in SUBSET Nat
    OBVIOUS
  <2> HIDE DEF Odd
  <2> QED BY <2>1, MinOfNaturals, Zenon
<1>2. m # 0
  <2> PICK f : f = [i \in 0 .. 0 |-> Blank(InitTabSize)]
    OBVIOUS
  <2>1. f = Getting(0, f)
    BY DEF Getting
  <2> QED BY <2>1, <1>1
<1>3. m - 1 \in Nat /\ m - 1 \notin Odd /\ m \in Nat
  BY <1>1, <1>2
<1>4. PICK f : f = Getting(m - 1, f)
  BY <1>3
<1> PICK g : g = [i \in 0 .. m |-> IF i <= m - 1 THEN f[i] ELSE ident_get(f[i - 1], Permanent[i]).table]
  OBVIOUS
<1>5. ASSUME NEW i \in 0 .. m PROVE g[i] = Getting(m, g)[i]
  <2>1. CASE i = 0
    <3>1. g[0] = f[0] /\ Getting(m, g)[0] = Blank(InitTabSize)
      BY <1>3 DEF Getting
    <3>2. f[0] = Blank(InitTabSize)
      <4>1. 0 \in 0 .. m - 1
        BY <1>3
      <4>2. Getting(m - 1, f)[0] = Blank(InitTabSize)
        BY <4>1 DEF Getting
      <4> QED BY <1>4, <4>2, Zenon
    <3> QED BY <2>1, <3>1, <3>2
  <2>2. CASE i # 0
    <3>1. i - 1 \in 0 .. m /\ i - 1 <= m - 1 /\ i \in Nat
      BY <1>3, <2>2
    <3>2. g[i - 1] = f[i - 1]
      BY <3>1
    <3>3. Getting(m, g)[i] = ident_get(f[i - 1], Permanent[i]).table
      BY <2>2, <3>2 DEF Getting
    <3>4. CASE i <= m - 1
      <4>1. i \in 0 .. m - 1
        BY <1>3, <3>1, <3>4
      <4>2. Getting(m - 1, f)[i] = ident_get(f[i - 1], Permanent[i]).table
        BY <2>2, <4>1 DEF Getting
      <4>3. f[i] = ident_get(f[i - 1], Permanent[i]).table
        BY <1>4, <4>2, Zenon
      <4> QED BY <3>3, <3>4, <4>3
    <3>5. CASE ~(i <= m - 1)
      BY <3>3, <3>5
    <3> QED BY <3>4, <3>5
  <2> QED BY <2>1, <2>2
<1>6. g = Getting(m, g)
  BY <1>5, Zenon DEF Getting
<1> QED BY <1>1, <1>6

(* How often a name is among the first n permanent ones.                     *)
Before(name, n) == {i \in 1 .. n : Permanent[i] = name}
Taken(n) == [name \in Names |-> Cardinality(Before(name, n))]

LEMMA BeforeIs ==
    ASSUME NEW name, NEW n \in Nat
    PROVE  /\ Cardinality(Before(name, 0)) = 0 /\ Cardinality(Before(name, n)) \in Nat
           /\ Permanent[n + 1] = name => Cardinality(Before(name, n + 1)) = Cardinality(Before(name, n)) + 1
           /\ Permanent[n + 1] # name => Cardinality(Before(name, n + 1)) = Cardinality(Before(name, n))
<1>0. Cardinality({}) = 0 /\ Before(name, 0) = {}
  BY FS_EmptySet DEF Before
<1>1. IsFiniteSet(Before(name, n))
  <2>1. IsFiniteSet(1 .. n)
    BY FS_Interval
  <2>2. Before(name, n) \in SUBSET (1 .. n)
    BY DEF Before
  <2> QED BY <2>1, <2>2, FS_Subset
<1>2. Cardinality(Before(name, n)) \in Nat
  BY <1>1, FS_CardinalityType
<1>3. CASE Permanent[n + 1] = name
  <2>1. Before(name, n + 1) = Before(name, n) \cup {n + 1} /\ n + 1 \notin Before(name, n)
    BY <1>3 DEF Before
  <2>2. Cardinality(Before(name, n) \cup {n + 1}) = Cardinality(Before(name, n)) + 1
    BY <1>1, <2>1, FS_AddElement
  <2> QED BY <1>0, <1>2, <1>3, <2>1, <2>2, Zenon
<1>4. CASE Permanent[n + 1] # name
  <2>1. Before(name, n + 1) = Before(name, n)
    BY <1>4 DEF Before
  <2> QED BY <1>0, <1>2, <1>4, <2>1, Zenon
<1> QED BY <1>3, <1>4

LEMMA TakenOneMore ==
    ASSUME NEW n \in Nat, Permanent[n + 1] \in Names
    PROVE  Taken(n + 1) = Counting(Taken(n), Permanent[n + 1], 1)
<1> PICK p \in Names : p = Permanent[n + 1]
  OBVIOUS
<1>1. Taken(n) \in [Names -> Nat] /\ \A name \in Names : Taken(n)[name] = Cardinality(Before(name, n))
  BY BeforeIs DEF Taken
<1>2. DOMAIN Taken(n + 1) = Names /\ Taken(n + 1) = [name \in Names |-> Taken(n + 1)[name]]
      /\ \A name \in Names : Taken(n + 1)[name] = Cardinality(Before(name, n + 1))
  BY DEF Taken
<1> PICK c \in [Names -> Nat] : c = Counting(Taken(n), p, 1)
  <2>1. Taken(n)[p] + 1 \in Nat
    BY <1>1
  <2> QED BY <1>1, <2>1, CountingIs
<1>3. c[p] = Taken(n)[p] + 1 /\ \A m \in Names : m # p => c[m] = Taken(n)[m]
  <2>1. Taken(n)[p] + 1 \in Nat
    BY <1>1
  <2> QED BY <1>1, <2>1, CountingIs
<1>4. ASSUME NEW name \in Names PROVE Taken(n + 1)[name] = c[name]
  <2>1. CASE name = p
    <3>1. Cardinality(Before(name, n + 1)) = Cardinality(Before(name, n)) + 1
      BY <2>1, BeforeIs
    <3> QED BY <1>1, <1>2, <1>3, <2>1, <3>1
  <2>2. CASE name # p
    <3>1. Cardinality(Before(name, n + 1)) = Cardinality(Before(name, n))
      BY <2>2, BeforeIs
    <3> QED BY <1>1, <1>2, <1>3, <2>2, <3>1
  <2> QED BY <2>1, <2>2
<1> QED BY <1>2, <1>4

LEMMA InitHolds == Holds(init_ident, Taken(Len(Permanent)))
<1> PICK n \in Nat : n = Len(Permanent)
  BY IdentsAssumption
<1> DEFINE u == CHOOSE f : f = Getting(n, f)
<1>0. \A i \in 1 .. n : Permanent[i] \in Names
  BY IdentsAssumption
<1>1. u = Getting(n, u)
  BY GettingIsDefined, Zenon
<1>2. init_ident = u[n]
  BY Zenon DEF init_ident, Getting
<1> HIDE DEF u
<1> DEFINE Odd == {k \in 0 .. n : ~Holds(u[k], Taken(k))}
<1> SUFFICES ASSUME Odd # {} PROVE FALSE
  BY <1>2
<1>3. PICK m \in Odd : \A k \in Odd : m <= k
  <2>1. Odd \in SUBSET Nat
    OBVIOUS
  <2> HIDE DEF Odd
  <2> QED BY <2>1, MinOfNaturals, Zenon
<1>4. CASE m = 0
  <2>1. u[0] = Blank(InitTabSize)
    <3>1. Getting(n, u)[0] = Blank(InitTabSize)
      BY DEF Getting
    <3> QED BY <1>1, <3>1, Zenon
  <2> PICK b : b = Blank(InitTabSize)
    OBVIOUS
  <2>2. Tabled(b) /\ \A i \in DOMAIN b.tab : b.tab[i].s = NoName
    BY BlankIs
  <2>3. Taken(0) \in [Names -> Nat] /\ \A name \in Names : Taken(0)[name] = 0
    BY BeforeIs DEF Taken
  <2>4. ASSUME NEW name \in Names PROVE Tells(b, name, Taken(0)[name])
    <3>1. name # NoName
      BY NamesAreNumbers
    <3> QED BY <2>2, <2>3, <3>1 DEF Tells
  <2>5. Holds(b, Taken(0))
    BY <2>2, <2>3, <2>4, Zenon DEF Holds
  <2> QED BY <1>3, <1>4, <2>1, <2>5
<1>5. CASE m # 0
  <2> PICK k : k = m - 1
    OBVIOUS
  <2>1. k \in Nat /\ m = k + 1 /\ k + 1 \in 1 .. n /\ k \in 0 .. n /\ ~(m <= k)
    BY <1>3, <1>5
  <2>2. Holds(u[k], Taken(k))
    BY <1>3, <2>1
  <2>3. u[k + 1] = ident_get(u[k], Permanent[k + 1]).table
    <3>1. Getting(n, u)[k + 1] = ident_get(u[k], Permanent[k + 1]).table
      BY <2>1 DEF Getting
    <3> QED BY <1>1, <3>1, Zenon
  <2>4. Permanent[k + 1] \in Names
    BY <1>0, <2>1
  <2>5. Got(u[k], ident_get(u[k], Permanent[k + 1]), Taken(k), Permanent[k + 1])
    BY <2>2, <2>4, GetIs, Zenon
  <2>6. Holds(u[k + 1], Counting(Taken(k), Permanent[k + 1], 1))
    BY <2>3, <2>5, Zenon DEF Got
  <2>7. Taken(k + 1) = Counting(Taken(k), Permanent[k + 1], 1)
    BY <2>1, <2>4, TakenOneMore, Zenon
  <2> QED BY <1>3, <2>1, <2>6, <2>7
<1> QED BY <1>4, <1>5

-----------------------------------------------------------------------------
(* The inductive invariant.                                                  *)
Owned(t, g, c) ==
    /\ g \in [Names -> Int]
    /\ \A name \in Names : c[name] # 0 => g[name] \in DOMAIN t.tab /\ t.tab[g[name]].s = name

IdInv == Holds(table, held) /\ Owned(table, given, held)

LEMMA EntriesAreNumbers ==
    ASSUME NEW t, Tabled(t) PROVE DOMAIN t.tab \subseteq Int
<1>1. PICK n \in Nat : Sized(t, n)
  BY Zenon DEF Tabled
<1>2. DOMAIN t.tab = 0 .. n - 1
  BY <1>1, SizedIs, Zenon
<1> QED BY <1>2

WithName(t, name) == {i \in DOMAIN t.tab : t.tab[i].s = name}

LEMMA NamedSet ==
    ASSUME NEW t, Tabled(t), NEW name \in Names PROVE Named(t, name) = WithName(t, name)
BY NamedIs DEF WithName

LEMMA InitIdInv == IdentInit => IdInv
<1> SUFFICES ASSUME IdentInit PROVE IdInv
  OBVIOUS
<1> PICK t : t = init_ident
  OBVIOUS
<1>1. /\ table = t /\ held = [n \in Names |-> Cardinality({i \in DOMAIN Permanent : Permanent[i] = n})]
      /\ given = [n \in Names |-> IF Named(t, n) = {} THEN -1 ELSE CHOOSE i \in Named(t, n) : TRUE]
  BY DEF IdentInit
<1>2. held = Taken(Len(Permanent))
  <2>1. DOMAIN Permanent = 1 .. Len(Permanent)
    BY IdentsAssumption
  <2> QED BY <1>1, <2>1, Zenon DEF Taken, Before
<1>3. Holds(t, held)
  BY <1>2, InitHolds
<1>4. Tabled(t)
  BY <1>3, Zenon DEF Holds
<1>5. ASSUME NEW name \in Names
      PROVE  /\ given[name] \in Int
             /\ held[name] # 0 => given[name] \in DOMAIN t.tab /\ t.tab[given[name]].s = name
  <2>1. Named(t, name) = {i \in DOMAIN t.tab : t.tab[i].s = name}
    <3>1. Named(t, name) = WithName(t, name)
      BY <1>4, NamedSet
    <3> QED BY <3>1 DEF WithName
  <2>2. given[name] = IF Named(t, name) = {} THEN -1 ELSE CHOOSE i \in Named(t, name) : TRUE
    BY <1>1
  <2>3. Tells(t, name, held[name])
    BY <1>3, Zenon DEF Holds
  <2>4. DOMAIN t.tab \subseteq Int
    BY <1>4, EntriesAreNumbers
  <2>5. CASE Named(t, name) = {}
    <3>1. held[name] = 0
      BY <2>1, <2>3, <2>5, Zenon DEF Tells
    <3> QED BY <2>2, <2>5, <3>1
  <2>6. CASE Named(t, name) # {}
    <3>1. given[name] \in Named(t, name)
      BY <2>2, <2>6
    <3> QED BY <2>1, <2>4, <3>1
  <2> QED BY <2>5, <2>6
<1>6. given \in [Names -> Int]
  <2>1. given = [n \in Names |-> given[n]]
    BY <1>1
  <2> QED BY <1>5, <2>1
<1> QED BY <1>1, <1>3, <1>5, <1>6, Zenon DEF IdInv, Owned

LEMMA StillOwned ==
    ASSUME NEW t, NEW u, NEW g, NEW c \in [Names -> Nat], NEW e, Owned(t, g, c), Stays(t, u),
           \A m \in Names : e[m] # 0 => c[m] # 0
    PROVE  Owned(u, g, e)
BY Zenon DEF Owned, Stays

LEMMA NextIdInv == IdInv /\ [IdentNext]_identVars => IdInv'
<1> SUFFICES ASSUME IdInv, [IdentNext]_identVars PROVE IdInv'
  OBVIOUS
<1>1. Holds(table, held) /\ Owned(table, given, held) /\ held \in [Names -> Nat] /\ Tabled(table)
      /\ given \in [Names -> Int]
      /\ \A m \in Names : held[m] # 0 => given[m] \in DOMAIN table.tab /\ table.tab[given[m]].s = m
  BY Zenon DEF IdInv, Holds, Owned
<1> SUFFICES Holds(table', held') /\ Owned(table', given', held')
  BY Zenon DEF IdInv
<1>2. ASSUME NEW name \in Names,
             table' = ident_get(table, name).table,
             given' = [given EXCEPT ![name] = ident_get(table, name).id],
             held' = [held EXCEPT ![name] = @ + 1]
      PROVE  Holds(table', held') /\ Owned(table', given', held')
  <2> PICK got : got = ident_get(table, name)
    OBVIOUS
  <2>1. Got(table, got, held, name)
    BY <1>1, GetIs, Zenon
  <2>2. held' = Counting(held, name, 1)
    BY <1>2, Zenon DEF Counting
  <2>3. /\ Holds(table', held') /\ Stays(table, table')
        /\ got.id \in DOMAIN table'.tab /\ table'.tab[got.id].s = name
    BY <1>2, <2>1, <2>2, Zenon DEF Got
  <2>4. got.id \in Int
    <3>1. Tabled(table')
      BY <2>3, Zenon DEF Holds
    <3> QED BY <2>3, <3>1, EntriesAreNumbers
  <2>5. /\ given' \in [Names -> Int] /\ given'[name] = got.id
        /\ \A m \in Names : m # name => given'[m] = given[m] /\ held'[m] = held[m]
    BY <1>1, <1>2, <2>4
  <2>6. ASSUME NEW m \in Names, held'[m] # 0
        PROVE  given'[m] \in DOMAIN table'.tab /\ table'.tab[given'[m]].s = m
    <3>1. CASE m = name
      BY <2>3, <2>5, <3>1, Zenon
    <3>2. CASE m # name
      <4>1. given[m] \in DOMAIN table.tab /\ table.tab[given[m]].s = m
        BY <1>1, <2>5, <2>6, <3>2, Zenon
      <4>2. given'[m] = given[m]
        BY <2>5, <3>2, Zenon
      <4> QED BY <2>3, <4>1, <4>2, Zenon DEF Stays
    <3> QED BY <3>1, <3>2
  <2> QED BY <2>3, <2>5, <2>6, Zenon DEF Owned
<1>3. ASSUME NEW name \in Names, held[name] # 0,
             table' = [table EXCEPT !.tab[given[name]].refs = @ + 1],
             held' = [held EXCEPT ![name] = @ + 1], given' = given
      PROVE  Holds(table', held') /\ Owned(table', given', held')
  <2> PICK i : i = given[name]
    OBVIOUS
  <2>1. i \in DOMAIN table.tab /\ table.tab[i].s = name
    BY <1>1, <1>3
  <2>2. table.tab[i].refs = held[name] /\ held[name] \in Nat
    <3>1. Tells(table, name, held[name])
      BY <1>1, Zenon DEF Holds
    <3> QED BY <1>1, <2>1, <3>1 DEF Tells
  <2>3. table' = Recounted(table, i, held[name] + 1)
    BY <1>3, <2>2, Zenon DEF Recounted
  <2>4. held' = Counting(held, name, 1)
    BY <1>3, Zenon DEF Counting
  <2>5. held[name] + 1 \in Nat \ {0}
    BY <2>2
  <2>6. Holds(table', held') /\ Stays(table, table')
    BY <1>1, <2>1, <2>3, <2>4, <2>5, RecountHolds
  <2>7. \A m \in Names : held'[m] # 0 => held[m] # 0
    BY <1>1, <1>3
  <2>8. Owned(table', given, held')
    BY <1>1, <2>6, <2>7, StillOwned
  <2> QED BY <1>3, <2>6, <2>8
<1>4. ASSUME NEW name \in Names, held[name] # 0,
             table' = ident_discard(table, given[name]),
             held' = [held EXCEPT ![name] = @ - 1],
             given' = [given EXCEPT ![name] = IF held[name] = 1 THEN -1 ELSE @]
      PROVE  Holds(table', held') /\ Owned(table', given', held')
  <2> PICK id : id = given[name]
    OBVIOUS
  <2>1. id \in DOMAIN table.tab /\ table.tab[id].s = name /\ held[name] \in Nat /\ id \in Int
    BY <1>1, <1>4
  <2>2. held' = Counting(held, name, -1)
    <3>1. held[name] + -1 = held[name] - 1
      BY <2>1
    <3> QED BY <1>4, <3>1, Zenon DEF Counting
  <2>3. /\ Holds(ident_discard(table, id), Counting(held, name, -1))
        /\ StayOthers(table, ident_discard(table, id), name)
        /\ held[name] # 1 => Stays(table, ident_discard(table, id))
    BY <1>1, <1>4, <2>1, DiscardIs
  <2>4. /\ Holds(table', held') /\ StayOthers(table, table', name)
        /\ held[name] # 1 => Stays(table, table')
    BY <1>4, <2>2, <2>3, Zenon
  <2>5. /\ given' \in [Names -> Int]
        /\ held[name] # 1 => given'[name] = given[name]
        /\ \A m \in Names : m # name => given'[m] = given[m] /\ held'[m] = held[m]
    BY <1>1, <1>4, <2>1
  <2>6. held[name] = 1 => held'[name] = 0
    BY <1>1, <1>4
  <2>7. ASSUME NEW m \in Names, held'[m] # 0
        PROVE  given'[m] \in DOMAIN table'.tab /\ table'.tab[given'[m]].s = m
    <3>1. CASE m = name
      <4>1. held'[name] # 0
        BY <2>7, <3>1
      <4>2. held[name] # 1
        BY <2>6, <4>1, Zenon
      <4>3. given'[name] = id
        BY <2>5, <4>2
      <4>4. id \in DOMAIN table'.tab /\ table'.tab[id].s = name
        BY <2>1, <2>4, <4>2, Zenon DEF Stays
      <4> QED BY <3>1, <4>3, <4>4
    <3>2. CASE m # name
      <4>1. given[m] \in DOMAIN table.tab /\ table.tab[given[m]].s = m /\ m \in Names \ {name}
        BY <1>1, <2>5, <2>7, <3>2
      <4>2. given'[m] = given[m]
        BY <2>5, <3>2, Zenon
      <4> QED BY <2>4, <4>1, <4>2, Zenon DEF StayOthers
    <3> QED BY <3>1, <3>2
  <2>8. given' \in [Names -> Int]
    BY <2>5
  <2>9. Owned(table', given', held')
    BY <2>7, <2>8, Zenon DEF Owned
  <2> QED BY <2>4, <2>9
<1>5. CASE IdentGet
  BY <1>2, <1>5 DEF IdentGet
<1>6. CASE IdentDup
  <2>1. PICK name \in Names :
            /\ held[name] \in 1 .. MaxHeld - 1
            /\ table' = [table EXCEPT !.tab[given[name]].refs = @ + 1]
            /\ held' = [held EXCEPT ![name] = @ + 1] /\ given' = given
    BY <1>6, Zenon DEF IdentDup
  <2>2. held[name] # 0
    BY <2>1
  <2> QED BY <1>3, <2>1, <2>2
<1>7. CASE IdentDiscard
  <2>1. PICK name \in Names :
            /\ held[name] > Cardinality({i \in DOMAIN Permanent : Permanent[i] = name})
            /\ table' = ident_discard(table, given[name])
            /\ held' = [held EXCEPT ![name] = @ - 1]
            /\ given' = [given EXCEPT ![name] = IF held[name] = 1 THEN -1 ELSE @]
    BY <1>7, Zenon DEF IdentDiscard
  <2>2. held[name] # 0
    <3>1. Cardinality({i \in DOMAIN Permanent : Permanent[i] = name}) \in Nat
      <4>1. DOMAIN Permanent = 1 .. Len(Permanent) /\ Len(Permanent) \in Nat
        BY IdentsAssumption
      <4>2. Cardinality(Before(name, Len(Permanent))) \in Nat
        BY <4>1, BeforeIs
      <4> QED BY <4>1, <4>2, Zenon DEF Before
    <3>2. held[name] \in Nat
      BY <1>1
    <3> QED BY <2>1, <3>1, <3>2
  <2> QED BY <1>4, <2>1, <2>2
<1>8. CASE UNCHANGED identVars
  BY <1>1, <1>8 DEF identVars
<1> QED BY <1>5, <1>6, <1>7, <1>8 DEF IdentNext

LEMMA InvAgrees == IdInv => IdentsAgree
<1> SUFFICES ASSUME IdInv PROVE IdentsAgree
  OBVIOUS
<1>1. Holds(table, held) /\ Owned(table, given, held) /\ Tabled(table)
  BY Zenon DEF IdInv, Holds
<1>2. ASSUME NEW name \in Names
      PROVE  IF held[name] = 0 THEN Named(table, name) = {}
             ELSE /\ Named(table, name) = {given[name]}
                  /\ table.tab[given[name]].refs = held[name]
  <2>1. Named(table, name) = {i \in DOMAIN table.tab : table.tab[i].s = name}
    BY <1>1, NamedIs, Zenon
  <2>2. Tells(table, name, held[name])
    BY <1>1, Zenon DEF Holds
  <2>3. CASE held[name] = 0
    BY <2>1, <2>2, <2>3 DEF Tells
  <2>4. CASE held[name] # 0
    <3>1. given[name] \in DOMAIN table.tab /\ table.tab[given[name]].s = name
      BY <1>1, <2>4, Zenon DEF Owned
    <3>2. ASSUME NEW i \in DOMAIN table.tab, table.tab[i].s = name PROVE i = given[name]
      <4>1. table.tab[i].s = table.tab[given[name]].s /\ table.tab[i].s # NoName
        BY <3>1, <3>2, NamesAreNumbers
      <4> QED BY <1>1, <3>1, <4>1, Zenon DEF Tabled, Single
    <3>3. Named(table, name) = {given[name]}
      BY <2>1, <3>1, <3>2
    <3>4. table.tab[given[name]].refs = held[name]
      BY <2>2, <3>1 DEF Tells
    <3> QED BY <2>4, <3>3, <3>4
  <2> QED BY <2>3, <2>4
<1>3. Follow(table, table.blanks) = Blanks(table)
  BY <1>1, FollowBlanks, Zenon
<1> QED BY <1>2, <1>3 DEF IdentsAgree, Blanks

(* ident_get, ident_dup and ident_discard, whatever names they are given and  *)
(* in whatever order, and however often the table has grown, leave every name *)
(* that is held on the chain of its hash, at the number it was given and with *)
(* as many references as are held, and every other entry on the blanks.       *)
THEOREM IdentifiersAreFound == IdentSpec => []IdentsAgree
  BY InitIdInv, NextIdInv, InvAgrees, PTL DEF IdentSpec

-----------------------------------------------------------------------------
(* Values that are counted: a heap h of records with refs at the addresses   *)
(* R, the address in each place b of S or 0, and what each place means; G    *)
(* says which record may stand for which meaning, and none is a free one.    *)
Holding(b, r) == {s \in DOMAIN b : b[s] = r}
Count(b, r) == Cardinality(Holding(b, r))
Recount(d, k) == [d EXCEPT !.refs = k]
Meaningful(G) ==
    \A x \in G : \A k \in Nat : /\ <<Recount(x[1], k), x[2]>> \in G
                                /\ Recount(x[1], k).refs = k
Setting(R, S, G, none) == IsFiniteSet(S) /\ 0 \notin R /\ none.refs = 0 /\ Meaningful(G)
Placed(b, R, S) == b \in [S -> R \cup {0}]
Counted(h, b, R) == DOMAIN h = R /\ \A r \in R : h[r].refs = Count(b, r)
Stands(h, b, m, S, G) == DOMAIN m = S /\ \A s \in S : b[s] # 0 => <<h[b[s]], m[s]>> \in G
Shares(h, b, m, R, S, G) == Placed(b, R, S) /\ Counted(h, b, R) /\ Stands(h, b, m, S, G)

Dup(h, r) == IF r = 0 THEN h ELSE [h EXCEPT ![r].refs = @ + 1]
Discard(h, r, none) ==
    IF r = 0 THEN h
    ELSE IF h[r].refs = 1 THEN [h EXCEPT ![r] = none]
    ELSE [h EXCEPT ![r].refs = @ - 1]

Counts(b, c, s, x) ==
    /\ \A r : Count(b, r) \in Nat /\ (Count(b, r) = 0 <=> \A t \in DOMAIN b : b[t] # r)
    /\ \A r : r # x /\ r # b[s] => Count(c, r) = Count(b, r)
    /\ x # b[s] => Count(c, x) = Count(b, x) + 1 /\ Count(c, b[s]) = Count(b, b[s]) - 1

LEMMA CountIs ==
    ASSUME NEW S, IsFiniteSet(S), NEW b, DOMAIN b = S, NEW r
    PROVE  /\ IsFiniteSet(Holding(b, r)) /\ Count(b, r) \in Nat
           /\ Count(b, r) = 0 <=> \A t \in DOMAIN b : b[t] # r
<1>1. Holding(b, r) \subseteq S
  BY DEF Holding
<1>2. IsFiniteSet(Holding(b, r))
  BY <1>1, FS_Subset
<1>3. Count(b, r) \in Nat
  BY <1>2, FS_CardinalityType DEF Count
<1>4. Count(b, r) = 0 <=> Holding(b, r) = {}
  BY <1>2, FS_EmptySet DEF Count
<1>5. Holding(b, r) = {} <=> \A t \in DOMAIN b : b[t] # r
  BY DEF Holding
<1> QED BY <1>2, <1>3, <1>4, <1>5

LEMMA CountPut ==
    ASSUME NEW S, IsFiniteSet(S), NEW b, DOMAIN b = S, NEW s \in S, NEW x
    PROVE  Counts(b, PutIn(b, s, x), s, x)
<1> PICK c : c = PutIn(b, s, x)
  OBVIOUS
<1>1. DOMAIN c = S /\ c[s] = x /\ \A t \in S : t # s => c[t] = b[t]
  BY DEF PutIn
<1>2. \A r : /\ IsFiniteSet(Holding(b, r)) /\ Count(b, r) \in Nat
             /\ Count(b, r) = 0 <=> \A t \in DOMAIN b : b[t] # r
  BY CountIs
<1>3. \A r : IsFiniteSet(Holding(c, r))
  BY <1>1, CountIs
<1>4. ASSUME NEW r, r # x, r # b[s] PROVE Count(c, r) = Count(b, r)
  <2>1. Holding(c, r) = Holding(b, r)
    BY <1>1, <1>4 DEF Holding
  <2> QED BY <2>1 DEF Count
<1>5. ASSUME x # b[s] PROVE Count(c, x) = Count(b, x) + 1
  <2>1. Holding(c, x) = Holding(b, x) \cup {s} /\ s \notin Holding(b, x)
    BY <1>1, <1>5 DEF Holding
  <2>2. Cardinality(Holding(b, x) \cup {s}) = Cardinality(Holding(b, x)) + 1
    BY <1>2, <2>1, FS_AddElement
  <2> QED BY <2>1, <2>2 DEF Count
<1>6. ASSUME x # b[s] PROVE Count(c, b[s]) = Count(b, b[s]) - 1
  <2> PICK r : r = b[s]
    OBVIOUS
  <2>1. Holding(b, r) = Holding(c, r) \cup {s} /\ s \notin Holding(c, r)
    BY <1>1, <1>6 DEF Holding
  <2>2. Cardinality(Holding(c, r) \cup {s}) = Cardinality(Holding(c, r)) + 1
    BY <1>3, <2>1, FS_AddElement
  <2>3. Cardinality(Holding(c, r)) \in Nat
    BY <1>3, FS_CardinalityType
  <2> QED BY <2>1, <2>2, <2>3 DEF Count
<1> QED BY <1>2, <1>4, <1>5, <1>6, Zenon DEF Counts

LEMMA ShareFacts ==
    ASSUME NEW R, NEW S, NEW G, NEW none, Setting(R, S, G, none),
           NEW h, NEW b, NEW m, Shares(h, b, m, R, S, G), NEW s \in S
    PROVE  /\ DOMAIN h = R /\ DOMAIN b = S /\ DOMAIN m = S /\ IsFiniteSet(S) /\ 0 \notin R
           /\ \A r \in R : h[r].refs = Count(b, r) /\ Count(b, r) \in Nat
           /\ b[s] \in R \cup {0}
           /\ b[s] # 0 => <<h[b[s]], m[s]>> \in G /\ Count(b, b[s]) # 0
<1>1. DOMAIN h = R /\ b \in [S -> R \cup {0}] /\ DOMAIN m = S /\ IsFiniteSet(S) /\ 0 \notin R
  BY Zenon DEF Setting, Shares, Placed, Counted, Stands
<1>2. DOMAIN b = S /\ b[s] \in R \cup {0}
  BY <1>1
<1>3. \A r : Count(b, r) \in Nat /\ (Count(b, r) = 0 <=> \A t \in DOMAIN b : b[t] # r)
  BY <1>1, <1>2, CountIs
<1>4. \A r \in R : h[r].refs = Count(b, r)
  BY Zenon DEF Shares, Counted
<1>5. b[s] # 0 => <<h[b[s]], m[s]>> \in G
  BY Zenon DEF Shares, Stands
<1> QED BY <1>1, <1>2, <1>3, <1>4, <1>5

(* A place gives up what it holds.                                           *)
LEMMA PutDown ==
    ASSUME NEW R, NEW S, NEW G, NEW none, Setting(R, S, G, none),
           NEW h, NEW b, NEW m, Shares(h, b, m, R, S, G), NEW s \in S, NEW z
    PROVE  Shares(Discard(h, b[s], none), PutIn(b, s, 0), PutIn(m, s, z), R, S, G)
<1> PICK r : r = b[s]
  OBVIOUS
<1> PICK g : g = Discard(h, r, none)
  OBVIOUS
<1> PICK c : c = PutIn(b, s, 0)
  OBVIOUS
<1> PICK w : w = PutIn(m, s, z)
  OBVIOUS
<1>1. /\ DOMAIN h = R /\ DOMAIN b = S /\ DOMAIN m = S /\ IsFiniteSet(S) /\ 0 \notin R
      /\ \A q \in R : h[q].refs = Count(b, q) /\ Count(b, q) \in Nat
      /\ r \in R \cup {0}
      /\ r # 0 => <<h[r], m[s]>> \in G /\ Count(b, r) # 0
  BY ShareFacts
<1>2. /\ b \in [S -> R \cup {0}]
      /\ \A t \in S : b[t] # 0 => <<h[b[t]], m[t]>> \in G
  BY Zenon DEF Shares, Placed, Stands
<1>3. /\ c \in [S -> R \cup {0}] /\ c[s] = 0 /\ \A t \in S : t # s => c[t] = b[t]
      /\ DOMAIN w = S /\ \A t \in S : t # s => w[t] = m[t]
  BY <1>1, <1>2 DEF PutIn
<1>4. Counts(b, c, s, 0) /\ \A q : Count(c, q) = 0 <=> \A t \in S : c[t] # q
  <2>1. Counts(b, c, s, 0)
    BY <1>1, CountPut
  <2>2. DOMAIN c = S
    BY <1>3
  <2>3. ASSUME NEW q PROVE Count(c, q) = 0 <=> \A t \in S : c[t] # q
    <3>1. Count(c, q) = 0 <=> \A t \in DOMAIN c : c[t] # q
      BY <1>1, <2>2, CountIs
    <3> QED BY <2>2, <3>1
  <2> QED BY <2>1, <2>3
<1>5. CASE r = 0
  <2>1. c = b /\ g = h
    <3>1. c \in [S -> R \cup {0}] /\ \A u \in S : c[u] = b[u]
      BY <1>1, <1>3, <1>5
    <3>2. c = b
      BY <1>2, <3>1
    <3> QED BY <1>5, <3>2 DEF Discard
  <2>2. Stands(g, c, w, S, G)
    BY <1>2, <1>3, <2>1 DEF Stands
  <2> QED BY <2>1, <2>2, Zenon DEF Shares
<1>6. CASE r # 0
  <2>1. r \in R /\ <<h[r], m[s]>> \in G /\ h[r].refs = Count(b, r) /\ Count(b, r) \in Nat \ {0}
    BY <1>1, <1>6
  <2>2. Count(c, r) = Count(b, r) - 1 /\ \A q \in R : q # r => Count(c, q) = Count(b, q)
    BY <1>1, <1>4, <1>6, Zenon DEF Counts
  <2>3. DOMAIN g = R /\ \A q \in R : q # r => g[q] = h[q]
    BY <1>1, <1>6 DEF Discard
  <2>4. CASE h[r].refs = 1
    <3>1. g[r] = none /\ none.refs = 0
      BY <1>1, <1>6, <2>1, <2>4 DEF Discard, Setting
    <3>2. g[r].refs = Count(c, r) /\ Count(c, r) = 0
      BY <2>1, <2>2, <2>4, <3>1
    <3>3. \A q \in R : g[q].refs = Count(c, q)
      BY <1>1, <2>2, <2>3, <3>2
    <3>4. \A t \in S : c[t] # r
      BY <1>4, <3>2
    <3>5. \A t \in S : c[t] # 0 => <<g[c[t]], w[t]>> \in G
      <4> TAKE t \in S
      <4> HAVE c[t] # 0
      <4>1. t # s /\ c[t] = b[t] /\ b[t] # r /\ b[t] \in R /\ w[t] = m[t]
        BY <1>2, <1>3, <3>4
      <4> QED BY <1>2, <2>3, <4>1
    <3>6. Placed(c, R, S) /\ Counted(g, c, R) /\ Stands(g, c, w, S, G)
      BY <1>3, <2>3, <3>3, <3>5 DEF Placed, Counted, Stands
    <3> QED BY <3>6, Zenon DEF Shares
  <2>5. CASE h[r].refs # 1
    <3> PICK k \in Nat : k = h[r].refs - 1
      BY <2>1
    <3>1. g[r] = Recount(h[r], k)
      BY <1>1, <1>6, <2>1, <2>5 DEF Discard, Recount
    <3> PICK x : x = <<h[r], m[s]>>
      OBVIOUS
    <3>2. \A y \in G : Recount(y[1], k).refs = k /\ <<Recount(y[1], k), y[2]>> \in G
      BY Zenon DEF Setting, Meaningful
    <3>3. g[r].refs = k
      <4>1. x \in G /\ x[1] = h[r]
        BY <2>1
      <4> QED BY <3>1, <3>2, <4>1
    <3>4. \A q \in R : g[q].refs = Count(c, q)
      BY <1>1, <2>1, <2>2, <2>3, <3>3
    <3>5. \A t \in S : c[t] # 0 => <<g[c[t]], w[t]>> \in G
      <4> TAKE t \in S
      <4> HAVE c[t] # 0
      <4>1. t # s /\ c[t] = b[t] /\ b[t] \in R /\ w[t] = m[t] /\ <<h[b[t]], m[t]>> \in G
        BY <1>2, <1>3
      <4>2. CASE b[t] # r
        BY <2>3, <4>1, <4>2
      <4>3. CASE b[t] = r
        <5> PICK y : y = <<h[r], m[t]>>
          OBVIOUS
        <5>1. y \in G /\ y[1] = h[r] /\ y[2] = m[t]
          BY <4>1, <4>3
        <5>2. <<Recount(h[r], k), m[t]>> \in G
          BY <3>2, <5>1
        <5> QED BY <3>1, <4>1, <4>3, <5>2
      <4> QED BY <4>2, <4>3
    <3>6. Placed(c, R, S) /\ Counted(g, c, R) /\ Stands(g, c, w, S, G)
      BY <1>3, <2>3, <3>4, <3>5 DEF Placed, Counted, Stands
    <3> QED BY <3>6, Zenon DEF Shares
  <2> QED BY <2>4, <2>5
<1> QED BY <1>5, <1>6

(* A place takes what another one holds.                                      *)
LEMMA PickUp ==
    ASSUME NEW R, NEW S, NEW G, NEW none, Setting(R, S, G, none),
           NEW h, NEW b, NEW m, Shares(h, b, m, R, S, G), NEW s \in S, NEW t \in S,
           s # t, b[t] = 0
    PROVE  Shares(Dup(h, b[s]), PutIn(b, t, b[s]), PutIn(m, t, m[s]), R, S, G)
<1> PICK r : r = b[s]
  OBVIOUS
<1> PICK g : g = Dup(h, r)
  OBVIOUS
<1> PICK c : c = PutIn(b, t, r)
  OBVIOUS
<1> PICK w : w = PutIn(m, t, m[s])
  OBVIOUS
<1>1. /\ DOMAIN h = R /\ DOMAIN b = S /\ DOMAIN m = S /\ IsFiniteSet(S) /\ 0 \notin R
      /\ \A q \in R : h[q].refs = Count(b, q) /\ Count(b, q) \in Nat
      /\ r \in R \cup {0}
      /\ r # 0 => <<h[r], m[s]>> \in G /\ Count(b, r) # 0
  BY ShareFacts
<1>2. /\ b \in [S -> R \cup {0}]
      /\ \A u \in S : b[u] # 0 => <<h[b[u]], m[u]>> \in G
  BY Zenon DEF Shares, Placed, Stands
<1>3. /\ c \in [S -> R \cup {0}] /\ c[t] = r /\ \A u \in S : u # t => c[u] = b[u]
      /\ DOMAIN w = S /\ w[t] = m[s] /\ \A u \in S : u # t => w[u] = m[u]
  BY <1>1, <1>2 DEF PutIn
<1>4. Counts(b, c, t, r)
  BY <1>1, CountPut
<1>5. CASE r = 0
  <2>1. c = b /\ g = h
    <3>1. c \in [S -> R \cup {0}] /\ \A u \in S : c[u] = b[u]
      BY <1>1, <1>3, <1>5
    <3>2. c = b
      BY <1>2, <3>1
    <3> QED BY <1>5, <3>2 DEF Dup
  <2>2. Stands(g, c, w, S, G)
    BY <1>2, <1>3, <1>5, <2>1 DEF Stands
  <2> QED BY <2>1, <2>2, Zenon DEF Shares
<1>6. CASE r # 0
  <2>1. r \in R /\ <<h[r], m[s]>> \in G /\ h[r].refs = Count(b, r) /\ Count(b, r) \in Nat
    BY <1>1, <1>6
  <2>2. Count(c, r) = Count(b, r) + 1 /\ \A q \in R : q # r => Count(c, q) = Count(b, q)
    BY <1>1, <1>4, <1>6, Zenon DEF Counts
  <2>3. DOMAIN g = R /\ \A q \in R : q # r => g[q] = h[q]
    BY <1>1, <1>6 DEF Dup
  <2> PICK k \in Nat : k = h[r].refs + 1
    BY <2>1
  <2>4. g[r] = Recount(h[r], k)
    BY <1>1, <1>6, <2>1 DEF Dup, Recount
  <2>5. \A y \in G : Recount(y[1], k).refs = k /\ <<Recount(y[1], k), y[2]>> \in G
    BY Zenon DEF Setting, Meaningful
  <2>6. g[r].refs = k
    <3> PICK x : x = <<h[r], m[s]>>
      OBVIOUS
    <3>1. x \in G /\ x[1] = h[r]
      BY <2>1
    <3> QED BY <2>4, <2>5, <3>1
  <2>7. \A q \in R : g[q].refs = Count(c, q)
    BY <1>1, <2>1, <2>2, <2>3, <2>6
  <2>8. \A u \in S : c[u] # 0 => <<g[c[u]], w[u]>> \in G
    <3> TAKE u \in S
    <3> HAVE c[u] # 0
    <3> PICK v \in S : c[u] = b[v] /\ w[u] = m[v]
      BY <1>3
    <3>1. b[v] # 0 /\ b[v] \in R /\ <<h[b[v]], m[v]>> \in G
      BY <1>2
    <3>2. CASE b[v] # r
      BY <2>3, <3>1, <3>2
    <3>3. CASE b[v] = r
      <4> PICK y : y = <<h[r], m[v]>>
        OBVIOUS
      <4>1. y \in G /\ y[1] = h[r] /\ y[2] = m[v]
        BY <3>1, <3>3
      <4>2. <<Recount(h[r], k), m[v]>> \in G
        BY <2>5, <4>1
      <4> QED BY <2>4, <3>3, <4>2
    <3> QED BY <3>2, <3>3
  <2>9. Placed(c, R, S) /\ Counted(g, c, R) /\ Stands(g, c, w, S, G)
    BY <1>3, <2>3, <2>7, <2>8 DEF Placed, Counted, Stands
  <2> QED BY <2>9, Zenon DEF Shares
<1> QED BY <1>5, <1>6

(* A new value is stored at an unused address and held by an empty place.     *)
LEMMA StoreNew ==
    ASSUME NEW R, NEW S, NEW G, NEW none, Setting(R, S, G, none),
           NEW h, NEW b, NEW m, Shares(h, b, m, R, S, G), NEW t \in S, b[t] = 0,
           NEW n \in R, h[n].refs = 0, NEW d, NEW v, <<d, v>> \in G, d.refs = 1
    PROVE  Shares(PutIn(h, n, d), PutIn(b, t, n), PutIn(m, t, v), R, S, G)
<1> PICK g : g = PutIn(h, n, d)
  OBVIOUS
<1> PICK c : c = PutIn(b, t, n)
  OBVIOUS
<1> PICK w : w = PutIn(m, t, v)
  OBVIOUS
<1>1. /\ DOMAIN h = R /\ DOMAIN b = S /\ DOMAIN m = S /\ IsFiniteSet(S) /\ 0 \notin R
      /\ \A q \in R : h[q].refs = Count(b, q) /\ Count(b, q) \in Nat
      /\ b[t] \in R \cup {0}
      /\ b[t] # 0 => <<h[b[t]], m[t]>> \in G /\ Count(b, b[t]) # 0
  BY ShareFacts
<1>2. /\ b \in [S -> R \cup {0}]
      /\ \A u \in S : b[u] # 0 => <<h[b[u]], m[u]>> \in G
  BY Zenon DEF Shares, Placed, Stands
<1>3. /\ c \in [S -> R \cup {0}] /\ c[t] = n /\ \A u \in S : u # t => c[u] = b[u]
      /\ DOMAIN w = S /\ w[t] = v /\ \A u \in S : u # t => w[u] = m[u]
      /\ DOMAIN g = R /\ g[n] = d /\ \A q \in R : q # n => g[q] = h[q]
  BY <1>1, <1>2 DEF PutIn
<1>4. Counts(b, c, t, n) /\ n # 0
  BY <1>1, CountPut
<1>5. Count(c, n) = 1 /\ \A q \in R : q # n => Count(c, q) = Count(b, q)
  <2>1. Count(c, n) = Count(b, n) + 1 /\ \A q \in R : q # n => Count(c, q) = Count(b, q)
    BY <1>1, <1>4, Zenon DEF Counts
  <2>2. Count(b, n) = 0
    BY <1>1
  <2> QED BY <2>1, <2>2
<1>6. \A u \in S : b[u] # n
  <2>1. Count(b, n) = 0 /\ (Count(b, n) = 0 <=> \A u \in DOMAIN b : b[u] # n)
    BY <1>1, CountIs
  <2> QED BY <1>1, <2>1
<1>7. \A q \in R : g[q].refs = Count(c, q)
  BY <1>1, <1>3, <1>5
<1>8. \A u \in S : c[u] # 0 => <<g[c[u]], w[u]>> \in G
  <2> TAKE u \in S
  <2> HAVE c[u] # 0
  <2>1. CASE u = t
    BY <1>3, <2>1
  <2>2. CASE u # t
    <3>1. c[u] = b[u] /\ b[u] # n /\ b[u] \in R /\ w[u] = m[u] /\ <<h[b[u]], m[u]>> \in G
      BY <1>2, <1>3, <1>6, <2>2
    <3> QED BY <1>3, <3>1
  <2> QED BY <2>1, <2>2
<1>9. Placed(c, R, S) /\ Counted(g, c, R) /\ Stands(g, c, w, S, G)
  BY <1>3, <1>7, <1>8 DEF Placed, Counted, Stands
<1> QED BY <1>9, Zenon DEF Shares

(* What only one place holds may change, if what it means changes with it.    *)
LEMMA Alter ==
    ASSUME NEW R, NEW S, NEW G, NEW none, Setting(R, S, G, none),
           NEW h, NEW b, NEW m, Shares(h, b, m, R, S, G), NEW t \in S, b[t] # 0,
           h[b[t]].refs = 1, NEW d, NEW v, <<d, v>> \in G, d.refs = 1
    PROVE  Shares(PutIn(h, b[t], d), b, PutIn(m, t, v), R, S, G)
<1> PICK r : r = b[t]
  OBVIOUS
<1> PICK g : g = PutIn(h, r, d)
  OBVIOUS
<1> PICK w : w = PutIn(m, t, v)
  OBVIOUS
<1>1. /\ DOMAIN h = R /\ DOMAIN b = S /\ DOMAIN m = S /\ IsFiniteSet(S) /\ 0 \notin R
      /\ \A q \in R : h[q].refs = Count(b, q) /\ Count(b, q) \in Nat
      /\ b[t] \in R \cup {0}
      /\ b[t] # 0 => <<h[b[t]], m[t]>> \in G /\ Count(b, b[t]) # 0
  BY ShareFacts
<1>2. /\ b \in [S -> R \cup {0}]
      /\ \A u \in S : b[u] # 0 => <<h[b[u]], m[u]>> \in G
  BY Zenon DEF Shares, Placed, Stands
<1>3. /\ DOMAIN w = S /\ w[t] = v /\ \A u \in S : u # t => w[u] = m[u]
      /\ DOMAIN g = R /\ g[r] = d /\ r \in R /\ \A q \in R : q # r => g[q] = h[q]
  BY <1>1, <1>2 DEF PutIn
<1>4. \A u \in S : u # t => b[u] # r
  <2> SUFFICES ASSUME NEW u \in S, u # t, b[u] = r PROVE FALSE
    OBVIOUS
  <2>1. Counts(b, PutIn(b, t, 0), t, 0)
    BY <1>1, CountPut
  <2> PICK c : c = PutIn(b, t, 0)
    OBVIOUS
  <2>2. Count(c, r) = Count(b, r) - 1
    BY <1>3, <1>1, <2>1, Zenon DEF Counts
  <2>3. Count(b, r) = 1 /\ DOMAIN c = S /\ c[u] = r
    BY <1>1, <1>3 DEF PutIn
  <2>4. Count(c, r) = 0 <=> \A x \in DOMAIN c : c[x] # r
    BY <1>1, <2>3, CountIs
  <2>5. Count(c, r) = 0
    BY <2>2, <2>3
  <2> QED BY <2>3, <2>4, <2>5
<1>5. \A q \in R : g[q].refs = Count(b, q)
  BY <1>1, <1>3
<1>6. \A u \in S : b[u] # 0 => <<g[b[u]], w[u]>> \in G
  BY <1>2, <1>3, <1>4
<1>7. Placed(b, R, S) /\ Counted(g, b, R) /\ Stands(g, b, w, S, G)
  BY <1>2, <1>3, <1>5, <1>6 DEF Placed, Counted, Stands
<1> QED BY <1>7, Zenon DEF Shares

LEMMA PutTwice ==
    ASSUME NEW f, NEW t, NEW x, NEW y
    PROVE  PutIn(PutIn(f, t, x), t, y) = PutIn(f, t, y)
  BY DEF PutIn

(* What others hold as well is changed in a copy at an unused address.        *)
LEMMA Part ==
    ASSUME NEW R, NEW S, NEW G, NEW none, Setting(R, S, G, none),
           NEW h, NEW b, NEW m, Shares(h, b, m, R, S, G), NEW t \in S, b[t] # 0,
           NEW n \in R, h[n].refs = 0,
           NEW d, NEW v, <<d, v>> \in G, d.refs = 1
    PROVE  Shares(PutIn(Discard(h, b[t], none), n, d), PutIn(b, t, n), PutIn(m, t, v), R, S, G)
<1> PICK g : g = Discard(h, b[t], none)
  OBVIOUS
<1> PICK c : c = PutIn(b, t, 0)
  OBVIOUS
<1> PICK w : w = PutIn(m, t, v)
  OBVIOUS
<1>1. Shares(g, c, w, R, S, G)
  BY PutDown
<1>2. /\ DOMAIN h = R /\ DOMAIN b = S /\ DOMAIN m = S /\ 0 \notin R
      /\ \A q \in R : h[q].refs = Count(b, q) /\ Count(b, q) \in Nat
      /\ b[t] \in R \cup {0}
      /\ b[t] # 0 => <<h[b[t]], m[t]>> \in G /\ Count(b, b[t]) # 0
  BY ShareFacts
<1>3. c[t] = 0
  BY <1>2 DEF PutIn
<1>4. n # b[t]
  BY <1>2
<1>5. g[n].refs = 0
  BY <1>2, <1>4 DEF Discard
<1>6. Shares(PutIn(g, n, d), PutIn(c, t, n), PutIn(w, t, v), R, S, G)
  BY <1>1, <1>3, <1>5, StoreNew
<1>7. PutIn(c, t, n) = PutIn(b, t, n) /\ PutIn(w, t, v) = w
  BY PutTwice
<1> QED BY <1>6, <1>7

(* Nothing is counted at first.                                               *)
LEMMA SharesNothing ==
    ASSUME NEW R, NEW S, NEW G, NEW none, Setting(R, S, G, none), NEW z
    PROVE  Shares([r \in R |-> none], [s \in S |-> 0], [s \in S |-> z], R, S, G)
<1> PICK h, b, m : h = [r \in R |-> none] /\ b = [s \in S |-> 0] /\ m = [s \in S |-> z]
  OBVIOUS
<1>1. IsFiniteSet(S) /\ 0 \notin R /\ none.refs = 0
  BY Zenon DEF Setting
<1>2. DOMAIN b = S
  OBVIOUS
<1>3. ASSUME NEW r \in R PROVE Count(b, r) = 0
  <2>1. Count(b, r) = 0 <=> \A t \in DOMAIN b : b[t] # r
    BY <1>1, <1>2, CountIs
  <2> QED BY <1>1, <2>1
<1>4. Placed(b, R, S) /\ Counted(h, b, R) /\ Stands(h, b, m, S, G)
  BY <1>1, <1>3 DEF Placed, Counted, Stands
<1> QED BY <1>4, Zenon DEF Shares

(* What is known of a value besides what it means may change.                 *)
LEMMA Amend ==
    ASSUME NEW R, NEW S, NEW G, NEW none, Setting(R, S, G, none),
           NEW h, NEW b, NEW m, Shares(h, b, m, R, S, G), NEW r \in R, NEW d, d.refs = h[r].refs,
           \A u \in S : b[u] = r => <<d, m[u]>> \in G
    PROVE  Shares(PutIn(h, r, d), b, m, R, S, G)
<1> PICK g : g = PutIn(h, r, d)
  OBVIOUS
<1>1. /\ DOMAIN h = R /\ \A q \in R : h[q].refs = Count(b, q)
      /\ b \in [S -> R \cup {0}] /\ 0 \notin R /\ DOMAIN m = S
      /\ \A u \in S : b[u] # 0 => <<h[b[u]], m[u]>> \in G
  BY Zenon DEF Shares, Placed, Counted, Stands, Setting
<1>2. DOMAIN g = R /\ g[r] = d /\ \A q \in R : q # r => g[q] = h[q]
  BY <1>1 DEF PutIn
<1>3. Counted(g, b, R)
  BY <1>1, <1>2 DEF Counted
<1>4. Stands(g, b, m, S, G)
  BY <1>1, <1>2 DEF Stands
<1>5. Placed(b, R, S)
  BY <1>1 DEF Placed
<1> QED BY <1>3, <1>4, <1>5, Zenon DEF Shares

(* One more place, for an argument or a value under construction.            *)
Ext(f, a, x) == [s \in DOMAIN f \cup {a} |-> IF s = a THEN x ELSE f[s]]

LEMMA NewPlace ==
    ASSUME NEW S
    PROVE  \E a : a \notin S
<1> PICK a : a = {y \in S : y \notin y}
  OBVIOUS
<1>1. a \in S => (a \in a <=> a \notin a)
  BY Zenon
<1> QED BY <1>1

LEMMA ExtFacts ==
    ASSUME NEW S, NEW f, DOMAIN f = S, NEW a, a \notin S, NEW x
    PROVE  /\ DOMAIN Ext(f, a, x) = S \cup {a} /\ Ext(f, a, x)[a] = x
           /\ \A s \in S : Ext(f, a, x)[s] = f[s]
           /\ \A s \in S : \A y : PutIn(Ext(f, a, x), s, y) = Ext(PutIn(f, s, y), a, x)
           /\ \A y : PutIn(Ext(f, a, x), a, y) = Ext(f, a, y)
BY DEF Ext, PutIn

LEMMA ExtPut ==
    ASSUME NEW f, NEW a, NEW x, NEW y
    PROVE  PutIn(Ext(f, a, x), a, y) = Ext(f, a, y)
BY DEF Ext, PutIn

LEMMA ExtElse ==
    ASSUME NEW S, NEW f, DOMAIN f = S, NEW a, a \notin S, NEW s \in S, NEW x, NEW y
    PROVE  PutIn(Ext(f, a, x), s, y) = Ext(PutIn(f, s, y), a, x)
BY DEF Ext, PutIn

LEMMA SettingMore ==
    ASSUME NEW R, NEW S, NEW G, NEW none, Setting(R, S, G, none), NEW a
    PROVE  Setting(R, S \cup {a}, G, none)
<1>1. IsFiniteSet(S \cup {a})
  BY FS_AddElement DEF Setting
<1> QED BY <1>1 DEF Setting

LEMMA SharesMore ==
    ASSUME NEW R, NEW S, NEW G, NEW none, Setting(R, S, G, none), NEW a, a \notin S,
           NEW X, NEW h, NEW b \in [S -> X], NEW m, DOMAIN m = S, NEW z
    PROVE  Shares(h, Ext(b, a, 0), Ext(m, a, z), R, S \cup {a}, G) <=> Shares(h, b, m, R, S, G)
<1> PICK c, w : c = Ext(b, a, 0) /\ w = Ext(m, a, z)
  OBVIOUS
<1>1. /\ DOMAIN c = S \cup {a} /\ DOMAIN w = S \cup {a} /\ c[a] = 0
      /\ \A s \in S : c[s] = b[s] /\ w[s] = m[s]
  BY DEF Ext
<1>2. 0 \notin R
  BY DEF Setting
<1>3. ASSUME NEW r \in R PROVE Count(c, r) = Count(b, r)
  <2>1. Holding(c, r) = Holding(b, r)
    BY <1>1, <1>2 DEF Holding
  <2> QED BY <2>1 DEF Count
<1>4. Placed(c, R, S \cup {a}) <=> Placed(b, R, S)
  <2>1. ASSUME b \in [S -> R \cup {0}] PROVE c \in [S \cup {a} -> R \cup {0}]
    BY <2>1 DEF Ext
  <2>2. ASSUME c \in [S \cup {a} -> R \cup {0}] PROVE \A s \in S : b[s] \in R \cup {0}
    BY <1>1, <2>2
  <2>3. (\A s \in S : b[s] \in R \cup {0}) => b \in [S -> R \cup {0}]
    OBVIOUS
  <2> QED BY <2>1, <2>2, <2>3 DEF Placed
<1>5. Counted(h, c, R) <=> Counted(h, b, R)
  BY <1>3 DEF Counted
<1>6. Stands(h, c, w, S \cup {a}, G) <=> Stands(h, b, m, S, G)
  BY <1>1 DEF Stands
<1> QED BY <1>4, <1>5, <1>6 DEF Shares

LEMMA SharesSame ==
    ASSUME NEW R, NEW S, NEW G, NEW none, Setting(R, S, G, none),
           NEW h, NEW b, NEW m, Shares(h, b, m, R, S, G), NEW t \in S
    PROVE  Shares(h, PutIn(b, t, b[t]), PutIn(m, t, m[t]), R, S, G)
<1> PICK c, w : c = PutIn(b, t, b[t]) /\ w = PutIn(m, t, m[t])
  OBVIOUS
<1>1. b \in [S -> R \cup {0}] /\ DOMAIN m = S
  BY Zenon DEF Shares, Placed, Stands
<1>2. c = b
  <2>1. c \in [S -> R \cup {0}] /\ \A s \in S : c[s] = b[s]
    BY <1>1 DEF PutIn
  <2> QED BY <1>1, <2>1
<1>3. DOMAIN w = S /\ \A s \in S : w[s] = m[s]
  BY <1>1 DEF PutIn
<1>4. Stands(h, c, w, S, G)
  BY <1>2, <1>3 DEF Shares, Stands
<1> QED BY <1>2, <1>4, Zenon DEF Shares

LEMMA DeepPut ==
  ASSUME NEW f, NEW n, NEW p, p = [heap |-> f, ref |-> n], NEW y
  PROVE  [p EXCEPT !.heap[p.ref].s = y] = [heap |-> PutIn(f, n, [f[n] EXCEPT !.s = y]), ref |-> n]
<1>1. [p EXCEPT !.heap[n].s = y] = [p EXCEPT !.heap = [p.heap EXCEPT ![n] = [p.heap[n] EXCEPT !.s = y]]]
  OBVIOUS
<1>2. p.heap = f /\ p.ref = n
  OBVIOUS
<1> PICK g : g = [p.heap EXCEPT ![n] = [p.heap[n] EXCEPT !.s = y]]
  OBVIOUS
<1>3. g = PutIn(f, n, [f[n] EXCEPT !.s = y])
  BY <1>2, Zenon DEF PutIn
<1>4. [p EXCEPT !.heap = g] = [heap |-> g, ref |-> n]
  OBVIOUS
<1> QED BY <1>1, <1>2, <1>3, <1>4, Zenon

(* An argument is pushed, and given up again.                                *)
LEMMA Borrow ==
    ASSUME NEW R, NEW S, NEW G, NEW none, Setting(R, S, G, none), NEW a, a \notin S,
           NEW h, NEW b, NEW m, Shares(h, b, m, R, S, G), NEW v \in S
    PROVE  Shares(Dup(h, b[v]), Ext(b, a, b[v]), Ext(m, a, m[v]), R, S \cup {a}, G)
<1>1. b \in [S -> R \cup {0}] /\ DOMAIN m = S /\ DOMAIN b = S
  BY Zenon DEF Shares, Placed, Stands
<1> PICK T : T = S \cup {a}
  OBVIOUS
<1> PICK c, w : c = Ext(b, a, 0) /\ w = Ext(m, a, 0)
  OBVIOUS
<1>2. Shares(h, c, w, R, T, G)
  BY <1>1, SharesMore
<1>3. Setting(R, T, G, none)
  BY SettingMore
<1>4. c[a] = 0 /\ c[v] = b[v] /\ w[v] = m[v] /\ v \in T /\ a \in T /\ v # a
  BY <1>1 DEF Ext
<1>5. Shares(Dup(h, c[v]), PutIn(c, a, c[v]), PutIn(w, a, w[v]), R, T, G)
  BY <1>2, <1>3, <1>4, PickUp
<1>6. PutIn(c, a, c[v]) = Ext(b, a, c[v]) /\ PutIn(w, a, w[v]) = Ext(m, a, w[v])
  BY ExtPut
<1> QED BY <1>4, <1>5, <1>6

LEMMA GiveBack ==
    ASSUME NEW R, NEW S, NEW G, NEW none, Setting(R, S, G, none), NEW a, a \notin S,
           NEW X, NEW h, NEW b \in [S -> X], NEW m, DOMAIN m = S, NEW x, NEW y,
           Shares(h, Ext(b, a, x), Ext(m, a, y), R, S \cup {a}, G)
    PROVE  Shares(Discard(h, x, none), b, m, R, S, G)
<1> PICK T : T = S \cup {a}
  OBVIOUS
<1> PICK c, w : c = Ext(b, a, x) /\ w = Ext(m, a, y)
  OBVIOUS
<1>1. Setting(R, T, G, none) /\ a \in T /\ DOMAIN b = S
  BY SettingMore
<1>2. c[a] = x
  <2>1. Ext(b, a, x)[a] = x
    BY DEF Ext
  <2> QED BY <2>1
<1>3. Shares(Discard(h, c[a], none), PutIn(c, a, 0), PutIn(w, a, 0), R, T, G)
  BY <1>1, PutDown
<1>4. PutIn(c, a, 0) = Ext(b, a, 0) /\ PutIn(w, a, 0) = Ext(m, a, 0)
  BY ExtPut
<1>5. Shares(Discard(h, x, none), Ext(b, a, 0), Ext(m, a, 0), R, S \cup {a}, G)
  BY <1>2, <1>3, <1>4
<1> QED BY <1>5, SharesMore

-----------------------------------------------------------------------------
(* The chain of a hash, once every index in it has become another.           *)
Renumbers(f, M, next, new) ==
    /\ f[-1] = -1 /\ -1 \notin DOMAIN new
    /\ \A i \in M : f[i] \in DOMAIN new /\ new[f[i]] = f[next[i]]
    /\ \A i, j \in M \cup {-1} : f[i] = f[j] => i = j

Through(f, M) == {f[i] : i \in M}

LEMMA LineRenumber ==
    ASSUME NEW next, NEW M, NEW h, Line(next, M, h), NEW f, NEW new, Renumbers(f, M, next, new)
    PROVE  Line(new, Through(f, M), f[h])
<1> PICK N : N = Through(f, M)
  OBVIOUS
<1>0. N = {f[i] : i \in M}
  BY DEF Through
<1>1. /\ f[-1] = -1 /\ -1 \notin DOMAIN new
      /\ \A i \in M : f[i] \in DOMAIN new /\ new[f[i]] = f[next[i]]
      /\ \A i, j \in M \cup {-1} : f[i] = f[j] => i = j
  BY Zenon DEF Renumbers
<1>2. /\ h \in M \cup {-1} /\ \A i \in M : next[i] \in M \cup {-1} /\ next[i] # h
      /\ \A i, j \in M : next[i] = next[j] /\ next[i] # -1 => i = j
  BY Zenon DEF Line
<1>3. N \subseteq DOMAIN new /\ f[h] \in N \cup {-1}
  BY <1>0, <1>1, <1>2
<1>4. \A i \in M \cup {-1} : f[i] \in N \cup {-1} /\ (f[i] = -1 <=> i = -1)
  BY <1>0, <1>1
<1>5. ASSUME NEW x \in N PROVE new[x] \in N \cup {-1} /\ new[x] # f[h]
  <2>1. PICK i \in M : x = f[i]
    BY <1>0
  <2>2. new[x] = f[next[i]] /\ next[i] \in M \cup {-1} /\ next[i] # h
    BY <1>1, <1>2, <2>1
  <2> QED BY <1>1, <1>2, <1>4, <2>2
<1>6. ASSUME NEW x \in N, NEW y \in N, new[x] = new[y], new[x] # -1 PROVE x = y
  <2>1. PICK i \in M : x = f[i]
    BY <1>0
  <2>2. PICK j \in M : y = f[j]
    BY <1>0
  <2>3. new[x] = f[next[i]] /\ next[i] \in M \cup {-1} /\ new[y] = f[next[j]] /\ next[j] \in M \cup {-1}
    BY <1>1, <1>2, <2>1, <2>2
  <2>4. next[i] = next[j] /\ next[i] # -1
    BY <1>1, <1>6, <2>3
  <2> QED BY <1>2, <2>1, <2>2, <2>4
<1>7. ASSUME NEW S \in SUBSET N, f[h] \in S \cup {-1}, \A x \in S : new[x] \in S \cup {-1}
      PROVE  S = N
  <2> PICK T : T = {i \in M : f[i] \in S}
    OBVIOUS
  <2>1. \A i \in M \cup {-1} : f[i] \in S \cup {-1} => i \in T \cup {-1}
    BY <1>4
  <2>2. h \in T \cup {-1}
    BY <1>2, <1>7, <2>1
  <2>3. \A i \in T : next[i] \in T \cup {-1}
    <3> TAKE i \in T
    <3>1. new[f[i]] \in S \cup {-1} /\ new[f[i]] = f[next[i]] /\ next[i] \in M \cup {-1}
      BY <1>1, <1>2, <1>7
    <3> QED BY <2>1, <3>1
  <2>4. T = M
    BY <2>2, <2>3, Zenon DEF Line
  <2> QED BY <1>0, <1>7, <2>4
<1> QED BY <1>1, <1>3, <1>5, <1>6, <1>7, Zenon DEF Line

-----------------------------------------------------------------------------
(* The hash table of a dictionary: the entries of each hash are in a chain,  *)
(* and no key has two.                                                       *)
Hash(ks, n, i) == data_hash[ks[i + 1]] % n
Alike(ks, n, h) == {i \in 0 .. Len(ks) - 1 : Hash(ks, n, i) = h}
Distinct(ks) == \A i, j \in 1 .. Len(ks) : ks[i] = ks[j] => i = j

Arrays(ks, ls, ht, n) ==
    /\ n \in Nat \ {0} /\ ks \in Seq(Keys) /\ Len(ks) <= n /\ Distinct(ks)
    /\ ls \in [0 .. n - 1 -> Int] /\ ht \in [0 .. n - 1 -> Int]
Threads(ks, ls, ht, n) == \A h \in 0 .. n - 1 : Line(ls, Alike(ks, n, h), ht[h])
HashTable(ks, ls, ht, n) == Arrays(ks, ls, ht, n) /\ Threads(ks, ls, ht, n)

LEMMA HashIn ==
    ASSUME NEW key \in Keys, NEW n \in Nat \ {0}
    PROVE  data_hash[key] % n \in 0 .. n - 1
<1>1. data_hash[key] \in Nat
  BY DictsAssumption
<1> QED BY <1>1

LEMMA KeysAre ==
    ASSUME NEW ks \in Seq(Keys)
    PROVE  /\ Len(ks) \in Nat /\ DOMAIN ks = 1 .. Len(ks)
           /\ \A i \in 0 .. Len(ks) - 1 : i + 1 \in 1 .. Len(ks) /\ ks[i + 1] \in Keys
           /\ \A i \in 1 .. Len(ks) : ks[i] \in Keys /\ i - 1 \in 0 .. Len(ks) - 1 /\ i = (i - 1) + 1
OBVIOUS

(* search finds the entry of a key, or there is none.                        *)
Found(ks, key, i) ==
    \/ i = -1 /\ \A j \in 1 .. Len(ks) : ks[j] # key
    \/ i \in 0 .. Len(ks) - 1 /\ ks[i + 1] = key

LEMMA SearchIs ==
    ASSUME NEW d, HashTable(d.keys, d.links, d.hashtab, d.size), NEW key \in Keys
    PROVE  Found(d.keys, key, search(d, key))
<1> PICK ks : ks = d.keys
  OBVIOUS
<1> PICK n : n = d.size
  OBVIOUS
<1> PICK h : h = data_hash[key] % n
  OBVIOUS
<1>1. n \in Nat \ {0} /\ ks \in Seq(Keys)
  BY Zenon DEF HashTable, Arrays
<1>2. h \in 0 .. n - 1
  BY <1>1, HashIn
<1>3. Line(d.links, Alike(ks, n, h), d.hashtab[h])
  BY <1>2, Zenon DEF HashTable, Threads
<1>4. Reached(d.links, d.hashtab[h]) = Alike(ks, n, h)
  BY <1>3, LineReached, Zenon
<1>5. Reached(d.links, d.hashtab[Bucket(d, key)]) = Alike(ks, n, h)
  BY <1>4 DEF Bucket
<1> PICK at : at = {i \in Alike(ks, n, h) : ks[i + 1] = key}
  OBVIOUS
<1>6. search(d, key) = IF at = {} THEN -1 ELSE CHOOSE i \in at : TRUE
  BY <1>5 DEF search
<1>7. ASSUME NEW j \in 1 .. Len(ks), ks[j] = key PROVE j - 1 \in at
  <2>1. j - 1 \in 0 .. Len(ks) - 1 /\ ks[(j - 1) + 1] = key
    BY <1>1, <1>7, KeysAre
  <2>2. Hash(ks, n, j - 1) = h
    BY <2>1 DEF Hash
  <2> QED BY <2>1, <2>2 DEF Alike
<1>8. \A i \in at : i \in 0 .. Len(ks) - 1 /\ ks[i + 1] = key
  BY DEF Alike
<1>9. CASE at = {}
  BY <1>6, <1>7, <1>9 DEF Found
<1>10. CASE at # {}
  <2>1. search(d, key) \in at
    BY <1>6, <1>10
  <2> QED BY <1>8, <2>1 DEF Found
<1> QED BY <1>9, <1>10

(* The table without entries.                                                *)
LEMMA EmptyTable ==
    ASSUME NEW n \in Nat \ {0}
    PROVE  HashTable(<<>>, Nil(n), Nil(n), n)
<1>1. Nil(n) \in [0 .. n - 1 -> Int] /\ -1 \notin DOMAIN Nil(n) /\ \A h \in 0 .. n - 1 : Nil(n)[h] = -1
  BY DEF Nil
<1>2. ASSUME NEW h \in 0 .. n - 1 PROVE Alike(<<>>, n, h) = {}
  BY DEF Alike
<1>3. Arrays(<<>>, Nil(n), Nil(n), n)
  BY <1>1 DEF Arrays, Distinct
<1>4. Threads(<<>>, Nil(n), Nil(n), n)
  <2> SUFFICES ASSUME NEW h \in 0 .. n - 1 PROVE Line(Nil(n), Alike(<<>>, n, h), Nil(n)[h])
    BY Zenon DEF Threads
  <2>1. Line(Nil(n), {}, -1)
    BY <1>1, LineEmpty
  <2> QED BY <1>1, <1>2, <2>1
<1> QED BY <1>3, <1>4, Zenon DEF HashTable

-----------------------------------------------------------------------------
(* A new key at the end, and at the head of its chain.                       *)
LEMMA AppendedKeys ==
    ASSUME NEW ks \in Seq(Keys), NEW k \in Keys, NEW more, more = Append(ks, k)
    PROVE  /\ more \in Seq(Keys) /\ Len(more) = Len(ks) + 1
           /\ \A i \in 1 .. Len(ks) : more[i] = ks[i]
           /\ more[Len(ks) + 1] = k
OBVIOUS

LEMMA UpToNext ==
    ASSUME NEW m \in Nat
    PROVE  \A x \in 1 .. m + 1 : x \in 1 .. m \/ x = m + 1
OBVIOUS

IsNew(ks, k) == \A j \in 1 .. Len(ks) : ks[j] # k

LEMMA AlikeMore ==
    ASSUME NEW ks \in Seq(Keys), NEW k \in Keys, NEW n, NEW g
    PROVE  Alike(Append(ks, k), n, g) =
               IF data_hash[k] % n = g THEN Alike(ks, n, g) \cup {Len(ks)} ELSE Alike(ks, n, g)
<1> PICK more : more = Append(ks, k)
  OBVIOUS
<1>1. /\ more \in Seq(Keys) /\ Len(more) = Len(ks) + 1
      /\ \A i \in 1 .. Len(ks) : more[i] = ks[i]
      /\ more[Len(ks) + 1] = k
  BY AppendedKeys
<1>2. \A i \in 0 .. Len(ks) - 1 : Hash(more, n, i) = Hash(ks, n, i)
  BY <1>1 DEF Hash
<1>3. Hash(more, n, Len(ks)) = data_hash[k] % n
  BY <1>1 DEF Hash
<1>4. \A i : i \in 0 .. Len(more) - 1 <=> i \in 0 .. Len(ks) - 1 \/ i = Len(ks)
  BY <1>1
<1> QED BY <1>2, <1>3, <1>4 DEF Alike

Pushes(ks, ls, ht, n, h, more, new, heads) ==
    /\ Arrays(more, new, heads, n)
    /\ DOMAIN new = 0 .. n - 1 /\ -1 \notin DOMAIN new
    /\ new[Len(ks)] = ht[h] /\ \A i \in 0 .. Len(ks) - 1 : i \in DOMAIN new /\ new[i] = ls[i]
    /\ heads[h] = Len(ks) /\ \A g \in 0 .. n - 1 : g # h => heads[g] = ht[g]

LEMMA PushedArrays ==
    ASSUME NEW n \in Nat \ {0}, NEW ks \in Seq(Keys), Len(ks) < n, Distinct(ks),
           NEW ls \in [0 .. n - 1 -> Int], NEW ht \in [0 .. n - 1 -> Int],
           NEW k \in Keys, IsNew(ks, k), NEW h \in 0 .. n - 1,
           NEW more, more = Append(ks, k),
           NEW new, new = [ls EXCEPT ![Len(ks)] = ht[h]],
           NEW heads, heads = [ht EXCEPT ![h] = Len(ks)]
    PROVE  Pushes(ks, ls, ht, n, h, more, new, heads)
<1>1. /\ more \in Seq(Keys) /\ Len(more) = Len(ks) + 1
      /\ \A i \in 1 .. Len(ks) : more[i] = ks[i]
      /\ more[Len(ks) + 1] = k
  BY AppendedKeys
<1>2. Len(ks) \in 0 .. n - 1 /\ ht[h] \in Int
  OBVIOUS
<1>3. new \in [0 .. n - 1 -> Int] /\ heads \in [0 .. n - 1 -> Int]
  BY <1>2
<1>4. Distinct(more)
  <2>1. ASSUME NEW i \in 1 .. Len(more), NEW j \in 1 .. Len(more), more[i] = more[j] PROVE i = j
    <3> PICK m \in Nat : m = Len(ks)
      OBVIOUS
    <3>0. Len(more) = m + 1
      BY <1>1
    <3>1. \A x \in 1 .. Len(more) : x \in 1 .. Len(ks) \/ x = Len(ks) + 1
      BY <3>0, UpToNext, Zenon
    <3>2. CASE i \in 1 .. Len(ks) /\ j \in 1 .. Len(ks)
      <4>1. ks[i] = ks[j]
        BY <1>1, <2>1, <3>2, Zenon
      <4> QED BY <3>2, <4>1, Zenon DEF Distinct
    <3>3. CASE ~(i \in 1 .. Len(ks) /\ j \in 1 .. Len(ks))
      BY <1>1, <2>1, <3>1, <3>3, Zenon DEF IsNew
    <3> QED BY <3>2, <3>3
  <2> QED BY <2>1 DEF Distinct
<1>5. new[Len(ks)] = ht[h] /\ heads[h] = Len(ks)
  BY <1>2
<1>6. \A i \in 0 .. Len(ks) - 1 : i \in DOMAIN new /\ new[i] = ls[i]
  BY <1>2
<1>7. Arrays(more, new, heads, n)
  BY <1>1, <1>3, <1>4 DEF Arrays
<1>8. DOMAIN new = 0 .. n - 1 /\ -1 \notin DOMAIN new /\ \A g \in 0 .. n - 1 : g # h => heads[g] = ht[g]
  BY <1>3
<1> QED BY <1>5, <1>6, <1>7, <1>8, Zenon DEF Pushes

LEMMA TablePush ==
    ASSUME NEW n, NEW ks, NEW ls, NEW ht, HashTable(ks, ls, ht, n), Len(ks) < n,
           NEW k \in Keys, IsNew(ks, k), NEW h, h = data_hash[k] % n
    PROVE  HashTable(Append(ks, k), [ls EXCEPT ![Len(ks)] = ht[h]], [ht EXCEPT ![h] = Len(ks)], n)
<1> PICK more : more = Append(ks, k)
  OBVIOUS
<1> PICK new : new = [ls EXCEPT ![Len(ks)] = ht[h]]
  OBVIOUS
<1> PICK heads : heads = [ht EXCEPT ![h] = Len(ks)]
  OBVIOUS
<1>1. /\ n \in Nat \ {0} /\ ks \in Seq(Keys) /\ Distinct(ks)
      /\ ls \in [0 .. n - 1 -> Int] /\ ht \in [0 .. n - 1 -> Int]
  BY Zenon DEF HashTable, Arrays
<1>2. h \in 0 .. n - 1
  BY <1>1, HashIn
<1>3. /\ Arrays(more, new, heads, n)
      /\ DOMAIN new = 0 .. n - 1 /\ -1 \notin DOMAIN new
      /\ new[Len(ks)] = ht[h] /\ \A i \in 0 .. Len(ks) - 1 : i \in DOMAIN new /\ new[i] = ls[i]
      /\ heads[h] = Len(ks) /\ \A g \in 0 .. n - 1 : g # h => heads[g] = ht[g]
  <2>1. Pushes(ks, ls, ht, n, h, more, new, heads)
    BY <1>1, <1>2, PushedArrays, Zenon
  <2> QED BY <2>1, Zenon DEF Pushes
<1>4. ASSUME NEW g \in 0 .. n - 1 PROVE Line(new, Alike(more, n, g), heads[g])
  <2>1. Line(ls, Alike(ks, n, g), ht[g])
    BY Zenon DEF HashTable, Threads
  <2>2. SameOn(ls, new, Alike(ks, n, g))
    BY <1>3 DEF SameOn, Alike
  <2>3. Alike(more, n, g) = IF h = g THEN Alike(ks, n, g) \cup {Len(ks)} ELSE Alike(ks, n, g)
    <3>1. Alike(Append(ks, k), n, g) =
              IF data_hash[k] % n = g THEN Alike(ks, n, g) \cup {Len(ks)} ELSE Alike(ks, n, g)
      BY <1>1, AlikeMore
    <3> QED BY <3>1
  <2>4. CASE g # h
    <3>1. Line(new, Alike(ks, n, g), ht[g])
      BY <2>1, <2>2, LineSame, Zenon
    <3> QED BY <1>3, <2>3, <2>4, <3>1
  <2>5. CASE g = h
    <3> PICK e : e = Len(ks)
      OBVIOUS
    <3>0. e \in Nat /\ e < n /\ n \in Nat
      BY <1>1
    <3>1. e \notin Alike(ks, n, g) /\ e # -1 /\ e \in DOMAIN new /\ new[e] = ht[g]
      <4>1. e \notin Alike(ks, n, g)
        BY <3>0 DEF Alike
      <4>2. e \in DOMAIN new
        BY <1>3, <3>0
      <4> QED BY <1>3, <2>5, <3>0, <4>1, <4>2
    <3>2. Line(new, Alike(ks, n, g) \cup {e}, e)
      BY <2>1, <2>2, <3>1, LinePush, Zenon
    <3> QED BY <1>3, <2>3, <2>5, <3>2
  <2> QED BY <2>4, <2>5
<1>5. Threads(more, new, heads, n)
  BY <1>4, Zenon DEF Threads
<1> QED BY <1>3, <1>5, Zenon DEF HashTable

-----------------------------------------------------------------------------
(* All keys put in a new table.                                              *)
Slotted(ks, m) == [i \in 0 .. Len(ks) - 1 |-> data_hash[ks[i + 1]] % m]
Linked(slot, m) == [i \in 0 .. m - 1 |-> IF i \in DOMAIN slot THEN Threaded(slot)[i] ELSE -1]

LEMMA TableGrown ==
    ASSUME NEW ks \in Seq(Keys), Distinct(ks), NEW m \in Nat \ {0}, Len(ks) <= m,
           NEW slot, slot = Slotted(ks, m)
    PROVE  HashTable(ks, Linked(slot, m), Heads(slot, m), m)
<1> PICK n \in Nat : n = Len(ks)
  OBVIOUS
<1> PICK new : new = Linked(slot, m)
  OBVIOUS
<1> PICK heads : heads = Heads(slot, m)
  OBVIOUS
<1>1. DOMAIN slot = 0 .. n - 1 /\ \A i \in 0 .. n - 1 : slot[i] = Hash(ks, m, i)
  BY DEF Slotted, Hash
<1>2. \A h : Chained(slot, n, h) = Alike(ks, m, h)
  BY <1>1 DEF Chained, Alike
<1>3. ASSUME NEW i \in 0 .. n - 1
      PROVE  new[i] = Latest(Earlier(slot, n, i)) /\ new[i] \in Int
  <2>1. i \in 0 .. m - 1
    OBVIOUS
  <2>2. Threaded(slot)[i] = Latest(Earlier(slot, n, i))
    BY <1>1 DEF Threaded, Earlier
  <2>3. Earlier(slot, n, i) \in SUBSET (0 .. n - 1)
    BY DEF Earlier
  <2>4. Latest(Earlier(slot, n, i)) \in Int
    BY <2>3, LatestOf
  <2>5. new[i] = Threaded(slot)[i]
    BY <1>1, <2>1 DEF Linked
  <2> QED BY <2>2, <2>4, <2>5
<1>4. ASSUME NEW h \in 0 .. m - 1
      PROVE  heads[h] = Latest(Alike(ks, m, h)) /\ heads[h] \in Int
  <2>1. Heads(slot, m)[h] = Latest(Chained(slot, n, h))
    BY <1>1 DEF Heads, Chained
  <2>2. Chained(slot, n, h) \in SUBSET (0 .. n - 1)
    BY DEF Chained
  <2>3. Latest(Chained(slot, n, h)) \in Int
    BY <2>2, LatestOf
  <2> QED BY <1>2, <2>1, <2>3
<1>5. new \in [0 .. m - 1 -> Int]
  <2>1. new = [i \in 0 .. m - 1 |-> new[i]]
    BY DEF Linked
  <2>2. ASSUME NEW i \in 0 .. m - 1 PROVE new[i] \in Int
    <3>1. CASE i \in 0 .. n - 1
      BY <1>3, <3>1
    <3>2. CASE i \notin 0 .. n - 1
      <4>1. new[i] = -1
        BY <1>1, <3>2 DEF Linked
      <4> QED BY <4>1
    <3> QED BY <3>1, <3>2
  <2> QED BY <2>1, <2>2
<1>6. heads \in [0 .. m - 1 -> Int]
  <2>1. heads = [h \in 0 .. m - 1 |-> heads[h]]
    BY DEF Heads
  <2> QED BY <1>4, <2>1
<1>7. ASSUME NEW h \in 0 .. m - 1 PROVE Line(new, Alike(ks, m, h), heads[h])
  <2> PICK M : M = Alike(ks, m, h)
    OBVIOUS
  <2>1. M \in SUBSET (0 .. n - 1) /\ M \subseteq DOMAIN new /\ -1 \notin DOMAIN new
    BY <1>5 DEF Alike
  <2>2. Follows(new, M)
    <3>1. ASSUME NEW i \in M PROVE IsLatest(new[i], {j \in M : j < i})
      <4>1. Earlier(slot, n, i) = {j \in M : j < i}
        BY <1>1 DEF Earlier, Alike
      <4>2. {j \in M : j < i} \in SUBSET (0 .. n - 1)
        BY <2>1
      <4> PICK S : S = {j \in M : j < i}
        OBVIOUS
      <4>3. IsLatest(Latest(S), S)
        BY <4>2, LatestOf
      <4>4. new[i] = Latest(S)
        BY <1>3, <2>1, <4>1
      <4> QED BY <4>3, <4>4
    <3> QED BY <3>1 DEF Follows
  <2>3. IsLatest(heads[h], M)
    <3>1. IsLatest(Latest(M), M)
      BY <2>1, LatestOf
    <3> QED BY <1>4, <3>1
  <2>4. Line(new, M, heads[h])
    BY <2>1, <2>2, <2>3, LineThreaded, Zenon
  <2> QED BY <2>4
<1>8. Threads(ks, new, heads, m)
  BY <1>7, Zenon DEF Threads
<1>9. Arrays(ks, new, heads, m)
  BY <1>5, <1>6 DEF Arrays
<1> QED BY <1>8, <1>9, Zenon DEF HashTable

-----------------------------------------------------------------------------
(* An entry taken out, from a sequence and from its chain.                   *)
Closes(s, t, i) ==
    /\ Len(t) = Len(s) - 1
    /\ \A j \in 1 .. Len(s) - 1 : t[j] = IF j < i THEN s[j] ELSE s[j + 1]

LEMMA RemovedAt ==
    ASSUME NEW T, NEW s \in Seq(T), NEW i \in 1 .. Len(s), NEW t, t = RemoveAt(s, i)
    PROVE  t \in Seq(T) /\ Closes(s, t, i)
<1> DEFINE a == SubSeq(s, 1, i - 1)
           b == SubSeq(s, i + 1, Len(s))
<1>1. t = a \o b
  BY Zenon DEF RemoveAt
<1>2. a \in Seq(T) /\ b \in Seq(T) /\ Len(a) = i - 1 /\ Len(b) = Len(s) - i
  OBVIOUS
<1>3. \A j \in 1 .. i - 1 : a[j] = s[j]
  OBVIOUS
<1>4. \A j \in 1 .. Len(s) - i : b[j] = s[i + j]
  OBVIOUS
<1>5. i \in Nat \ {0} /\ i <= Len(s) /\ Len(s) \in Nat
  OBVIOUS
<1> HIDE DEF a, b
<1>6. t \in Seq(T) /\ Len(t) = Len(s) - 1
  <2>1. t \in Seq(T) /\ Len(t) = Len(a) + Len(b)
    BY <1>1, <1>2, ConcatProperties, Zenon
  <2> QED BY <1>2, <1>5, <2>1
<1>7. ASSUME NEW j \in 1 .. Len(s) - 1 PROVE t[j] = IF j < i THEN s[j] ELSE s[j + 1]
  <2>1. t[j] = IF j <= Len(a) THEN a[j] ELSE b[j - Len(a)]
    BY <1>1, <1>2, <1>5, <1>6
  <2>2. CASE j < i
    BY <1>2, <1>3, <1>5, <2>1, <2>2
  <2>3. CASE ~(j < i)
    <3>1. j - (i - 1) \in 1 .. Len(s) - i /\ ~(j <= i - 1) /\ i + (j - (i - 1)) = j + 1
      BY <1>5, <2>3
    <3> QED BY <1>2, <1>4, <2>1, <2>3, <3>1
  <2> QED BY <2>2, <2>3
<1> QED BY <1>6, <1>7 DEF Closes

(* The place of an entry after that, and the arrays.                         *)
Nearer(x, i) == IF x > i THEN x - 1 ELSE x
Around(f, i, k) == [x \in DOMAIN f |-> IF f[x] = i THEN k ELSE f[x]]
ShiftedDown(D, f, i, len) ==
    [j \in D |-> IF j = len THEN -1 ELSE IF j \in i .. len - 1 THEN f[j + 1] ELSE f[j]]
Renamed(x, i, len) == IF x > i /\ i < len THEN x - 1 ELSE x
LinksLess(ls, i, len) ==
    LET f == ShiftedDown(DOMAIN ls, Around(ls, i, ls[i]), i, len)
    IN  [j \in DOMAIN ls |-> IF j < len THEN Renamed(f[j], i, len) ELSE f[j]]
HeadsLess(ht, i, k, len) == [h \in DOMAIN ht |-> Renamed(Around(ht, i, k)[h], i, len)]

Place(i, len) == [x \in -1 .. len |-> Nearer(x, i)]

Settles(f, i, len) ==
    /\ f[-1] = -1
    /\ \A x \in -1 .. len : f[x] = Renamed(x, i, len)
    /\ \A x \in -1 .. len : x < i => f[x] = x
    /\ \A x \in -1 .. len : x > i => f[x] = x - 1
    /\ \A x, y \in -1 .. len : x # i /\ y # i /\ f[x] = f[y] => x = y

LEMMA PlaceIs ==
    ASSUME NEW len \in Nat, NEW i \in 0 .. len
    PROVE  Settles(Place(i, len), i, len)
BY DEF Settles, Place, Nearer, Renamed

Lessened(new, un, i, len, n) ==
    /\ new \in [0 .. n - 1 -> Int]
    /\ un \in [0 .. n - 1 -> Int]
    /\ \A j \in 0 .. i - 1 : new[j] = Renamed(un[j], i, len)
    /\ \A j \in i .. len - 1 : new[j] = Renamed(un[j + 1], i, len)

LEMMA LinksLessAre ==
    ASSUME NEW n \in Nat \ {0}, NEW len \in 0 .. n - 1, NEW i \in 0 .. len,
           NEW ls \in [0 .. n - 1 -> Int],
           NEW un, un = Around(ls, i, ls[i]), NEW new, new = LinksLess(ls, i, len)
    PROVE  Lessened(new, un, i, len, n)
<1>1. un \in [0 .. n - 1 -> Int]
  BY DEF Around
<1> PICK f : f = ShiftedDown(DOMAIN ls, un, i, len)
  OBVIOUS
<1>2. f \in [0 .. n - 1 -> Int]
  BY <1>1 DEF ShiftedDown
<1>3. new = [j \in 0 .. n - 1 |-> IF j < len THEN Renamed(f[j], i, len) ELSE f[j]]
  BY DEF LinksLess
<1>4. new \in [0 .. n - 1 -> Int]
  BY <1>2, <1>3 DEF Renamed
<1>5. ASSUME NEW j \in 0 .. i - 1 PROVE new[j] = Renamed(un[j], i, len)
  <2>1. j \in 0 .. n - 1 /\ j < len /\ j # len /\ j \notin i .. len - 1
    OBVIOUS
  <2>2. f[j] = un[j]
    BY <1>1, <2>1 DEF ShiftedDown
  <2> QED BY <1>3, <2>1, <2>2
<1>6. ASSUME NEW j \in i .. len - 1 PROVE new[j] = Renamed(un[j + 1], i, len)
  <2>1. j \in 0 .. n - 1 /\ j < len /\ j # len
    OBVIOUS
  <2>2. f[j] = un[j + 1]
    BY <1>1, <2>1 DEF ShiftedDown
  <2> QED BY <1>3, <2>1, <2>2
<1> QED BY <1>1, <1>4, <1>5, <1>6, Zenon DEF Lessened

(* Each chain without the entry, before the others are renumbered.           *)
LEMMA ChainWithout ==
    ASSUME NEW ls, NEW M, NEW h, Line(ls, M, h), NEW i, i # -1, NEW un, un = Around(ls, i, ls[i])
    PROVE  Line(un, M \ {i}, IF h = i THEN ls[i] ELSE h)
<1>1. /\ M \subseteq DOMAIN un /\ -1 \notin DOMAIN un
      /\ \A x \in M : un[x] = IF ls[x] = i THEN ls[i] ELSE ls[x]
  BY DEF Line, Around
<1>2. CASE i \in M
  <2>1. Skips(ls, un, M, i)
    BY <1>1 DEF Skips
  <2> QED BY <1>2, <2>1, LineUnlink
<1>3. CASE i \notin M
  <2>1. h # i /\ \A x \in M : ls[x] # i
    BY <1>3 DEF Line
  <2>2. SameOn(ls, un, M)
    BY <1>1, <2>1 DEF SameOn
  <2>3. Line(un, M, h)
    BY <2>2, LineSame, Zenon
  <2>4. M \ {i} = M
    BY <1>3
  <2> QED BY <2>1, <2>3, <2>4
<1> QED BY <1>2, <1>3

LEMMA AlikeLess ==
    ASSUME NEW ks \in Seq(Keys), NEW len \in Nat, Len(ks) = len + 1, NEW i \in 0 .. len,
           NEW less \in Seq(Keys), Closes(ks, less, i + 1), NEW n, NEW h
    PROVE  Alike(less, n, h) = Through(Place(i, len), Alike(ks, n, h) \ {i})
<1> PICK f : f = Place(i, len)
  OBVIOUS
<1>1. /\ Len(less) = len
      /\ \A j \in 1 .. len : less[j] = IF j < i + 1 THEN ks[j] ELSE ks[j + 1]
  BY DEF Closes
<1>0. Settles(f, i, len)
  BY PlaceIs, Zenon
<1>2. \A x \in 0 .. i - 1 : f[x] = x /\ x \in 0 .. len - 1 /\ Hash(less, n, x) = Hash(ks, n, x)
  <2> TAKE x \in 0 .. i - 1
  <2>1. x + 1 \in 1 .. len /\ x + 1 < i + 1 /\ x \in -1 .. len /\ x < i
    OBVIOUS
  <2>2. less[x + 1] = ks[x + 1]
    BY <1>1, <2>1
  <2>3. f[x] = x
    BY <1>0, <2>1, Zenon DEF Settles
  <2> QED BY <2>1, <2>2, <2>3 DEF Hash
<1>3. \A x \in i + 1 .. len : f[x] = x - 1 /\ x - 1 \in i .. len - 1 /\ Hash(less, n, x - 1) = Hash(ks, n, x)
  <2> TAKE x \in i + 1 .. len
  <2>1. (x - 1) + 1 = x /\ x \in 1 .. len /\ ~(x < i + 1) /\ x \in -1 .. len /\ x > i
    OBVIOUS
  <2>2. less[x] = ks[x + 1]
    BY <1>1, <2>1
  <2>3. f[x] = x - 1
    BY <1>0, <2>1, Zenon DEF Settles
  <2>4. x - 1 \in i .. len - 1
    OBVIOUS
  <2>5. Hash(less, n, x - 1) = Hash(ks, n, x)
    BY <2>1, <2>2 DEF Hash
  <2> QED BY <2>3, <2>4, <2>5
<1>4. ASSUME NEW x \in Alike(ks, n, h) \ {i} PROVE f[x] \in Alike(less, n, h)
  <2>1. x \in 0 .. len /\ x # i /\ Hash(ks, n, x) = h
    BY DEF Alike
  <2>2. CASE x \in 0 .. i - 1
    BY <1>1, <1>2, <2>1, <2>2 DEF Alike
  <2>3. CASE x \in i + 1 .. len
    <3>1. x - 1 \in 0 .. len - 1
      BY <2>3
    <3>2. f[x] = x - 1 /\ Hash(less, n, x - 1) = h
      BY <1>3, <2>1, <2>3
    <3> QED BY <1>1, <3>1, <3>2 DEF Alike
  <2> QED BY <2>1, <2>2, <2>3
<1>5. ASSUME NEW y \in Alike(less, n, h) PROVE \E x \in Alike(ks, n, h) \ {i} : y = f[x]
  <2>1. y \in 0 .. len - 1 /\ Hash(less, n, y) = h
    BY <1>1 DEF Alike
  <2>2. CASE y < i
    <3>1. y \in 0 .. i - 1 /\ y \in 0 .. len
      BY <2>1, <2>2
    <3>2. f[y] = y /\ Hash(ks, n, y) = h
      BY <1>2, <2>1, <3>1
    <3>3. y \in Alike(ks, n, h) \ {i}
      BY <2>2, <3>1, <3>2 DEF Alike
    <3> QED BY <3>2, <3>3
  <2>3. CASE ~(y < i)
    <3> PICK x : x = y + 1
      OBVIOUS
    <3>1. x \in i + 1 .. len /\ x \in 0 .. len /\ x - 1 = y /\ x # i
      BY <2>1, <2>3
    <3>2. f[x] = y /\ Hash(ks, n, x) = h
      BY <1>3, <2>1, <3>1
    <3>3. x \in Alike(ks, n, h) \ {i}
      BY <3>1, <3>2 DEF Alike
    <3> QED BY <3>2, <3>3
  <2> QED BY <2>2, <2>3
<1> QED BY <1>4, <1>5 DEF Through

Instead(k, i, next) == IF k = i THEN next ELSE k

LEMMA ChainLess ==
    ASSUME NEW n \in Nat \ {0}, NEW len \in 0 .. n - 1, NEW i \in 0 .. len,
           NEW ks \in Seq(Keys), Len(ks) = len + 1,
           NEW less \in Seq(Keys), Closes(ks, less, i + 1),
           NEW ls \in [0 .. n - 1 -> Int], NEW h, NEW k, Line(ls, Alike(ks, n, h), k)
    PROVE  Line(LinksLess(ls, i, len), Alike(less, n, h), Renamed(Instead(k, i, ls[i]), i, len))
<1> PICK new : new = LinksLess(ls, i, len)
  OBVIOUS
<1> PICK un : un = Around(ls, i, ls[i])
  OBVIOUS
<1> PICK M : M = Alike(ks, n, h) \ {i}
  OBVIOUS
<1> PICK f : f = Place(i, len)
  OBVIOUS
<1> PICK top : top = Instead(k, i, ls[i])
  OBVIOUS
<1>1. Line(un, M, top)
  <2>1. i # -1
    OBVIOUS
  <2>2. Line(un, Alike(ks, n, h) \ {i}, IF k = i THEN ls[i] ELSE k)
    BY <2>1, ChainWithout, Zenon
  <2> QED BY <2>2 DEF Instead
<1>0. Settles(f, i, len)
  <2>1. len \in Nat
    OBVIOUS
  <2> QED BY <2>1, PlaceIs, Zenon
<1>2. /\ new \in [0 .. n - 1 -> Int]
      /\ \A j \in 0 .. i - 1 : new[j] = Renamed(un[j], i, len)
      /\ \A j \in i .. len - 1 : new[j] = Renamed(un[j + 1], i, len)
  <2>1. Lessened(new, un, i, len, n)
    BY LinksLessAre, Zenon
  <2> QED BY <2>1, Zenon DEF Lessened
<1>3. M \subseteq 0 .. len /\ i \notin M
  BY DEF Alike
<1>4. \A x \in M \cup {-1} : x \in -1 .. len /\ x # i
  <2>1. \A x \in (0 .. len) \cup {-1} : x \in -1 .. len
    OBVIOUS
  <2>2. i # -1
    OBVIOUS
  <2> QED BY <1>3, <2>1, <2>2
<1>5. \A x \in M \cup {-1} : f[x] = Renamed(x, i, len)
  BY <1>0, <1>4, Zenon DEF Settles
<1>6. top \in M \cup {-1} /\ \A x \in M : un[x] \in M \cup {-1}
  BY <1>1, Zenon DEF Line
<1>7. ASSUME NEW x \in M PROVE f[x] \in DOMAIN new /\ new[f[x]] = f[un[x]]
  <2>1. x \in 0 .. len /\ x # i
    BY <1>3
  <2>2. CASE x < i
    <3>0. f[x] = x
      BY <1>0, <1>4, <2>2, Zenon DEF Settles
    <3>1. f[x] = x /\ x \in 0 .. i - 1 /\ x \in 0 .. n - 1
      BY <2>1, <2>2, <3>0
    <3>2. new[x] = Renamed(un[x], i, len)
      BY <1>2, <3>1
    <3> QED BY <1>2, <1>5, <1>6, <3>1, <3>2
  <2>3. CASE ~(x < i)
    <3>1. x > i
      BY <2>1, <2>3
    <3>2. f[x] = x - 1
      BY <1>0, <1>4, <3>1, Zenon DEF Settles
    <3>3. x - 1 \in i .. len - 1 /\ x - 1 \in 0 .. n - 1 /\ (x - 1) + 1 = x
      BY <2>1, <3>1
    <3>4. new[x - 1] = Renamed(un[x], i, len)
      BY <1>2, <3>3
    <3>5. un[x] \in M \cup {-1}
      BY <1>6
    <3>6. f[un[x]] = Renamed(un[x], i, len)
      BY <1>5, <3>5
    <3> QED BY <1>2, <3>2, <3>3, <3>4, <3>6
  <2> QED BY <2>2, <2>3
<1>8. Renumbers(f, M, un, new)
  <2>1. f[-1] = -1
    BY <1>0, Zenon DEF Settles
  <2>2. \A x, y \in M \cup {-1} : f[x] = f[y] => x = y
    BY <1>0, <1>4, Zenon DEF Settles
  <2>3. -1 \notin DOMAIN new
    BY <1>2
  <2> QED BY <1>7, <2>1, <2>2, <2>3, Zenon DEF Renumbers
<1>9. Alike(less, n, h) = Through(f, M)
  <2>1. len \in Nat
    OBVIOUS
  <2>2. Alike(less, n, h) = Through(Place(i, len), Alike(ks, n, h) \ {i})
    BY <2>1, AlikeLess
  <2> QED BY <2>2
<1>10. Line(new, Through(f, M), f[top])
  BY <1>1, <1>8, LineRenumber, Zenon
<1>11. f[top] = Renamed(top, i, len)
  BY <1>5, <1>6
<1> QED BY <1>9, <1>10, <1>11

LEMMA TableRemove ==
    ASSUME NEW n, NEW ks, NEW ls, NEW ht, HashTable(ks, ls, ht, n),
           NEW i \in 0 .. Len(ks) - 1, NEW len, len = Len(ks) - 1,
           NEW less, less = RemoveAt(ks, i + 1)
    PROVE  HashTable(less, LinksLess(ls, i, len), HeadsLess(ht, i, ls[i], len), n)
<1>1. /\ n \in Nat \ {0} /\ ks \in Seq(Keys) /\ Len(ks) <= n /\ Distinct(ks)
      /\ ls \in [0 .. n - 1 -> Int] /\ ht \in [0 .. n - 1 -> Int]
  BY Zenon DEF HashTable, Arrays
<1>2. len \in 0 .. n - 1 /\ i \in 0 .. len /\ Len(ks) = len + 1 /\ i + 1 \in 1 .. Len(ks)
  BY <1>1
<1>3. less \in Seq(Keys) /\ Closes(ks, less, i + 1)
  BY <1>1, <1>2, RemovedAt
<1> PICK new : new = LinksLess(ls, i, len)
  OBVIOUS
<1> PICK heads : heads = HeadsLess(ht, i, ls[i], len)
  OBVIOUS
<1>4. new \in [0 .. n - 1 -> Int]
  <2> PICK un : un = Around(ls, i, ls[i])
    OBVIOUS
  <2>1. Lessened(new, un, i, len, n)
    BY <1>1, <1>2, LinksLessAre, Zenon
  <2> QED BY <2>1, Zenon DEF Lessened
<1>5. ls[i] \in Int
  BY <1>1, <1>2
<1>6. /\ heads \in [0 .. n - 1 -> Int]
      /\ \A h \in 0 .. n - 1 : heads[h] = Renamed(Instead(ht[h], i, ls[i]), i, len)
  <2> PICK k \in Int : k = ls[i]
    BY <1>5
  <2> PICK un : un = Around(ht, i, k)
    OBVIOUS
  <2>1. un \in [0 .. n - 1 -> Int] /\ \A h \in 0 .. n - 1 : un[h] = Instead(ht[h], i, k)
    BY <1>1 DEF Around, Instead
  <2>2. heads = [h \in 0 .. n - 1 |-> Renamed(un[h], i, len)]
    BY <1>1 DEF HeadsLess
  <2>3. \A x \in Int : Renamed(x, i, len) \in Int
    BY DEF Renamed
  <2> QED BY <2>1, <2>2, <2>3
<1>7. Distinct(less)
  <2>1. /\ Len(less) = len
        /\ \A j \in 1 .. len : less[j] = IF j < i + 1 THEN ks[j] ELSE ks[j + 1]
    BY <1>2, <1>3 DEF Closes
  <2>2. ASSUME NEW x \in 1 .. len, NEW y \in 1 .. len, less[x] = less[y] PROVE x = y
    <3> DEFINE up(z) == IF z < i + 1 THEN z ELSE z + 1
    <3>1. up(x) \in 1 .. Len(ks) /\ up(y) \in 1 .. Len(ks) /\ (up(x) = up(y) => x = y)
      BY <1>2
    <3>2. less[x] = ks[up(x)] /\ less[y] = ks[up(y)]
      BY <2>1
    <3>3. ks[up(x)] = ks[up(y)]
      BY <2>2, <3>2
    <3> HIDE DEF up
    <3> QED BY <1>1, <3>1, <3>3, Zenon DEF Distinct
  <2> QED BY <2>1, <2>2 DEF Distinct
<1>8. ASSUME NEW h \in 0 .. n - 1 PROVE Line(new, Alike(less, n, h), heads[h])
  <2>0. new = LinksLess(ls, i, len) /\ heads[h] = Renamed(Instead(ht[h], i, ls[i]), i, len)
    BY <1>6
  <2>1. Line(ls, Alike(ks, n, h), ht[h])
    BY Zenon DEF HashTable, Threads
  <2>2. Line(LinksLess(ls, i, len), Alike(less, n, h), Renamed(Instead(ht[h], i, ls[i]), i, len))
    BY <1>1, <1>2, <1>3, <2>1, ChainLess
  <2> QED BY <2>0, <2>2
<1>9. Len(less) <= n
  <2>1. Len(less) = len
    BY <1>2, <1>3 DEF Closes
  <2> QED BY <1>1, <1>2, <2>1
<1>10. Arrays(less, new, heads, n)
  BY <1>1, <1>3, <1>4, <1>6, <1>7, <1>9, Zenon DEF Arrays
<1>11. Threads(less, new, heads, n)
  BY <1>8, Zenon DEF Threads
<1> QED BY <1>10, <1>11, Zenon DEF HashTable

-----------------------------------------------------------------------------
(* A dictionary and the mapping that it stands for.                          *)
Tables == UNION {[0 .. n - 1 -> Int] : n \in Nat}
DictRecords == [keys : Seq(Keys), values : Seq(Entries), size : Nat \ {0}, links : Tables,
                hashtab : Tables, refs : Nat]
DictMaps == UNION {[K -> Entries] : K \in SUBSET Keys}
Means(d, m) ==
    /\ DOMAIN m = {d.keys[i] : i \in 1 .. Len(d.keys)}
    /\ \A i \in 1 .. Len(d.keys) : m[d.keys[i]] = d.values[i]
Hashes(d) == HashTable(d.keys, d.links, d.hashtab, d.size)
Good(d, m) ==
    /\ d \in DictRecords /\ m \in DictMaps
    /\ Hashes(d) /\ Len(d.values) = Len(d.keys) /\ Means(d, m)

LEMMA DictFields ==
    ASSUME NEW d \in DictRecords
    PROVE  /\ d.keys \in Seq(Keys) /\ d.values \in Seq(Entries) /\ d.size \in Nat \ {0}
           /\ d.links \in Tables /\ d.hashtab \in Tables /\ d.refs \in Nat
BY DEF DictRecords

Formed(d) == d = [keys |-> d.keys, values |-> d.values, size |-> d.size, links |-> d.links,
                  hashtab |-> d.hashtab, refs |-> d.refs]

LEMMA DictForm ==
    ASSUME NEW d \in DictRecords
    PROVE  Formed(d)
BY DEF DictRecords, Formed

LEMMA TablesAre ==
    ASSUME NEW n \in Nat, NEW f \in [0 .. n - 1 -> Int]
    PROVE  f \in Tables
BY DEF Tables

(* What search finds in it.                                                  *)
Finds(d, m, k, p) ==
    \/ p = -1 /\ k \notin DOMAIN m /\ IsNew(d.keys, k)
    \/ p \in 0 .. Len(d.keys) - 1 /\ p + 1 \in 1 .. Len(d.keys) /\ d.keys[p + 1] = k
       /\ k \in DOMAIN m /\ m[k] = d.values[p + 1]

LEMMA SearchFinds ==
    ASSUME NEW d, NEW m, Good(d, m), NEW k \in Keys
    PROVE  Finds(d, m, k, search(d, k))
<1> PICK p : p = search(d, k)
  OBVIOUS
<1>1. /\ DOMAIN m = {d.keys[i] : i \in 1 .. Len(d.keys)}
      /\ \A i \in 1 .. Len(d.keys) : m[d.keys[i]] = d.values[i]
  BY Zenon DEF Good, Means
<1>2. Found(d.keys, k, p)
  <2>1. HashTable(d.keys, d.links, d.hashtab, d.size)
    BY Zenon DEF Good, Hashes
  <2> QED BY <2>1, SearchIs
<1>3. Len(d.keys) \in Nat
  BY DictFields DEF Good
<1>4. CASE p = -1 /\ \A j \in 1 .. Len(d.keys) : d.keys[j] # k
  BY <1>1, <1>4 DEF Finds, IsNew
<1>5. CASE p \in 0 .. Len(d.keys) - 1 /\ d.keys[p + 1] = k
  <2>1. p + 1 \in 1 .. Len(d.keys)
    BY <1>3, <1>5
  <2> PICK q : q = p + 1
    OBVIOUS
  <2>2. k \in DOMAIN m /\ m[k] = d.values[q]
    BY <1>1, <1>5, <2>1
  <2> QED BY <1>5, <2>1, <2>2 DEF Finds
<1> QED BY <1>2, <1>4, <1>5, Zenon DEF Found

LEMMA FindsAgrees ==
    ASSUME NEW d, NEW m, Good(d, m), NEW k \in Keys
    PROVE  /\ dict_contains(d, k) <=> k \in DOMAIN m
           /\ k \in DOMAIN m => dict_find(d, k) = m[k]
<1>1. Finds(d, m, k, search(d, k))
  BY SearchFinds
<1> PICK p : p = search(d, k)
  OBVIOUS
<1>2. CASE p = -1 /\ k \notin DOMAIN m
  BY <1>2 DEF dict_contains
<1>3. CASE p \in 0 .. Len(d.keys) - 1 /\ k \in DOMAIN m /\ m[k] = d.values[p + 1]
  <2>1. p # -1
    BY <1>3
  <2> QED BY <1>3, <2>1 DEF dict_contains, dict_find
<1> QED BY <1>1, <1>2, <1>3 DEF Finds

(* The mapping with one more pair, and with one less.                        *)
With(m, k, v) == [x \in DOMAIN m \cup {k} |-> IF x = k THEN v ELSE m[x]]
Without(m, k) == [x \in DOMAIN m \ {k} |-> m[x]]

LEMMA MapsStay ==
    ASSUME NEW m \in DictMaps, NEW k \in Keys, NEW v \in Entries
    PROVE  With(m, k, v) \in DictMaps /\ Without(m, k) \in DictMaps
<1>1. PICK K \in SUBSET Keys : m \in [K -> Entries]
  BY DEF DictMaps
<1>2. With(m, k, v) \in [K \cup {k} -> Entries] /\ K \cup {k} \in SUBSET Keys
  BY <1>1 DEF With
<1>3. Without(m, k) \in [K \ {k} -> Entries] /\ K \ {k} \in SUBSET Keys
  BY <1>1 DEF Without
<1> QED BY <1>2, <1>3 DEF DictMaps

(* A key that was there: its value is another.                               *)
Revalued(d, p, v) == [d EXCEPT !.values[p + 1] = v]

LEMMA RevaluedGood ==
    ASSUME NEW d, NEW m, Good(d, m), NEW k \in Keys, NEW v \in Entries, NEW p,
           p \in 0 .. Len(d.keys) - 1, p + 1 \in 1 .. Len(d.keys), d.keys[p + 1] = k
    PROVE  Good(Revalued(d, p, v), With(m, k, v)) /\ Revalued(d, p, v).refs = d.refs
<1> PICK e : e = Revalued(d, p, v)
  OBVIOUS
<1> PICK w : w = With(m, k, v)
  OBVIOUS
<1> PICK q : q = p + 1
  OBVIOUS
<1>1. d \in DictRecords /\ m \in DictMaps /\ Hashes(d) /\ Len(d.values) = Len(d.keys) /\ Means(d, m)
  BY Zenon DEF Good
<1>2. e = [keys |-> d.keys, values |-> [d.values EXCEPT ![q] = v], size |-> d.size,
           links |-> d.links, hashtab |-> d.hashtab, refs |-> d.refs]
  BY <1>1 DEF Revalued, DictRecords
<1>3. /\ [d.values EXCEPT ![q] = v] \in Seq(Entries) /\ Len([d.values EXCEPT ![q] = v]) = Len(d.values)
      /\ \A i \in 1 .. Len(d.keys) : [d.values EXCEPT ![q] = v][i] = IF i = q THEN v ELSE d.values[i]
  BY <1>1, DictFields
<1>4. e \in DictRecords
  BY <1>1, <1>2, <1>3 DEF DictRecords
<1>5. Hashes(e)
  BY <1>1, <1>2 DEF Hashes
<1>6. Means(e, w)
  <2>1. /\ DOMAIN m = {d.keys[i] : i \in 1 .. Len(d.keys)}
        /\ \A i \in 1 .. Len(d.keys) : m[d.keys[i]] = d.values[i]
    BY <1>1, Zenon DEF Means
  <2>2. DOMAIN w = DOMAIN m
    BY <2>1 DEF With
  <2>3. ASSUME NEW i \in 1 .. Len(d.keys) PROVE w[d.keys[i]] = e.values[i]
    <3>1. d.keys[i] \in DOMAIN w
      BY <2>1, <2>2
    <3>2. w[d.keys[i]] = IF d.keys[i] = k THEN v ELSE m[d.keys[i]]
      BY <2>2, <3>1 DEF With
    <3>3. d.keys[i] = k => i = q
      BY <1>1, Zenon DEF Hashes, HashTable, Arrays, Distinct
    <3>4. e.values[i] = IF i = q THEN v ELSE d.values[i]
      BY <1>2, <1>3
    <3> QED BY <2>1, <3>2, <3>3, <3>4
  <2>4. e.keys = d.keys
    BY <1>2
  <2> QED BY <2>1, <2>2, <2>3, <2>4 DEF Means
<1>7. w \in DictMaps
  BY <1>1, MapsStay
<1>8. Len(e.values) = Len(e.keys) /\ e.refs = d.refs
  BY <1>1, <1>2, <1>3
<1> QED BY <1>4, <1>5, <1>6, <1>7, <1>8, Zenon DEF Good

(* A key that was not there.                                                 *)
LEMMA AppendedGood ==
    ASSUME NEW d, NEW m, Good(d, m), NEW k \in Keys, k \notin DOMAIN m, NEW v \in Entries,
           NEW e \in DictRecords, e.keys = Append(d.keys, k), e.values = Append(d.values, v), Hashes(e)
    PROVE  Good(e, With(m, k, v))
<1> PICK w : w = With(m, k, v)
  OBVIOUS
<1>1. d \in DictRecords /\ m \in DictMaps /\ Len(d.values) = Len(d.keys) /\ Means(d, m)
  BY Zenon DEF Good
<1> PICK ks \in Seq(Keys) : ks = d.keys
  BY <1>1, DictFields
<1> PICK vs \in Seq(Entries) : vs = d.values
  BY <1>1, DictFields
<1> PICK n \in Nat : n = Len(ks)
  OBVIOUS
<1>2. /\ Len(e.keys) = n + 1 /\ Len(e.values) = n + 1
      /\ \A i \in 1 .. n : e.keys[i] = ks[i] /\ e.values[i] = vs[i]
      /\ e.keys[n + 1] = k /\ e.values[n + 1] = v
  BY <1>1
<1>3. /\ DOMAIN m = {ks[i] : i \in 1 .. n}
      /\ \A i \in 1 .. n : m[ks[i]] = vs[i]
  BY <1>1, Zenon DEF Means
<1>4. \A i \in 1 .. n + 1 : i \in 1 .. n \/ i = n + 1
  BY UpToNext
<1>5. DOMAIN w = DOMAIN m \cup {k} /\ w[k] = v /\ \A x \in DOMAIN m : w[x] = m[x]
  BY DEF With
<1>6. DOMAIN w = {e.keys[i] : i \in 1 .. n + 1}
  <2>1. ASSUME NEW i \in 1 .. n + 1 PROVE e.keys[i] \in DOMAIN w
    <3>1. CASE i \in 1 .. n
      <4>1. e.keys[i] = ks[i] /\ ks[i] \in DOMAIN m
        BY <1>2, <1>3, <3>1
      <4> QED BY <1>5, <4>1
    <3>2. CASE i = n + 1
      BY <1>2, <1>5, <3>2
    <3> QED BY <1>4, <3>1, <3>2
  <2>2. ASSUME NEW x \in DOMAIN w PROVE \E i \in 1 .. n + 1 : x = e.keys[i]
    <3>1. CASE x = k
      BY <1>2, <3>1
    <3>2. CASE x \in DOMAIN m
      <4>1. PICK i \in 1 .. n : x = ks[i]
        BY <1>3, <3>2
      <4>2. i \in 1 .. n + 1
        OBVIOUS
      <4> QED BY <1>2, <4>1, <4>2
    <3> QED BY <1>5, <3>1, <3>2
  <2> QED BY <2>1, <2>2
<1>7. ASSUME NEW i \in 1 .. n + 1 PROVE w[e.keys[i]] = e.values[i]
  <2>1. CASE i \in 1 .. n
    <3>1. e.keys[i] = ks[i] /\ e.values[i] = vs[i] /\ ks[i] \in DOMAIN m /\ m[ks[i]] = vs[i]
      BY <1>2, <1>3, <2>1
    <3> QED BY <1>5, <3>1
  <2>2. CASE i = n + 1
    BY <1>2, <1>5, <2>2
  <2> QED BY <1>4, <2>1, <2>2
<1>8. Means(e, w)
  BY <1>2, <1>6, <1>7 DEF Means
<1>9. w \in DictMaps
  BY <1>1, MapsStay
<1>10. Len(e.values) = Len(e.keys)
  BY <1>2
<1> QED BY <1>8, <1>9, <1>10, Zenon DEF Good

LEMMA HashedFields ==
    ASSUME NEW d, Hashes(d)
    PROVE  /\ d.keys \in Seq(Keys) /\ d.size \in Nat \ {0} /\ Len(d.keys) <= d.size
           /\ d.links \in [0 .. d.size - 1 -> Int] /\ d.hashtab \in [0 .. d.size - 1 -> Int]
           /\ Distinct(d.keys)
BY Zenon DEF Hashes, HashTable, Arrays

Filled(d, k, v) == [d EXCEPT !.keys = Append(@, k), !.values = Append(@, v)]

LEMMA FilledIs ==
    ASSUME NEW d \in DictRecords, NEW k \in Keys, NEW v \in Entries, NEW e, e = Filled(d, k, v)
    PROVE  /\ e \in DictRecords /\ e.keys = Append(d.keys, k) /\ e.values = Append(d.values, v)
           /\ e.size = d.size /\ e.links = d.links /\ e.hashtab = d.hashtab /\ e.refs = d.refs
<1>0. Append(d.keys, k) \in Seq(Keys) /\ Append(d.values, v) \in Seq(Entries)
  <2>1. d.keys \in Seq(Keys) /\ d.values \in Seq(Entries)
    BY DictFields
  <2> QED BY <2>1
<1> PICK ks \in Seq(Keys) : ks = Append(d.keys, k)
  BY <1>0
<1> PICK vs \in Seq(Entries) : vs = Append(d.values, v)
  BY <1>0
<1>1. e = [keys |-> ks, values |-> vs, size |-> d.size, links |-> d.links, hashtab |-> d.hashtab,
           refs |-> d.refs]
  BY DEF Filled, DictRecords
<1> QED BY <1>1 DEF DictRecords

DictWith(ks, vs, n, ls, ht, r) ==
    [keys |-> ks, values |-> vs, size |-> n, links |-> ls, hashtab |-> ht, refs |-> r]

BothSet(f, i, x, h, y) == [f EXCEPT !.links[i] = x, !.hashtab[h] = y]

LEMMA HeadSet ==
    ASSUME NEW a, NEW b, NEW c, NEW l, NEW t, NEW r, NEW h, NEW y
    PROVE  Headed(DictWith(a, b, c, l, t, r), h, y) = DictWith(a, b, c, l, PutIn(t, h, y), r)
BY DEF DictWith, Headed, PutIn

LEMMA TwoSet ==
    ASSUME NEW a, NEW b, NEW c, NEW l, NEW t, NEW r, NEW i, NEW x, NEW h, NEW y
    PROVE  BothSet(DictWith(a, b, c, l, t, r), i, x, h, y)
               = DictWith(a, b, c, PutIn(l, i, x), PutIn(t, h, y), r)
<1> PICK f : f = DictWith(a, b, c, l, t, r)
  OBVIOUS
<1>1. BothSet(f, i, x, h, y) = [[f EXCEPT !.links[i] = x] EXCEPT !.hashtab[h] = y]
  BY DEF BothSet
<1>2. [f EXCEPT !.links[i] = x] = DictWith(a, b, c, PutIn(l, i, x), t, r)
  BY DEF DictWith, PutIn
<1>3. Headed(DictWith(a, b, c, PutIn(l, i, x), t, r), h, y)
          = DictWith(a, b, c, PutIn(l, i, x), PutIn(t, h, y), r)
  BY HeadSet
<1>4. BothSet(f, i, x, h, y) = Headed(DictWith(a, b, c, PutIn(l, i, x), t, r), h, y)
  BY <1>1, <1>2, Zenon DEF Headed
<1> QED BY <1>3, <1>4

(* insert_key: the table still holds.                                        *)
LEMMA InsertedGood ==
    ASSUME NEW d, NEW m, Good(d, m), NEW k \in Keys, NEW v \in Entries, k \notin DOMAIN m,
           IsNew(d.keys, k), Len(d.keys) < d.size,
           NEW e, e = insert_key(Filled(d, k, v), Len(d.keys))
    PROVE  /\ Good(e, With(m, k, v)) /\ e.refs = d.refs /\ e.size = d.size
           /\ e.keys = Append(d.keys, k)
<1> PICK f : f = Filled(d, k, v)
  OBVIOUS
<1> PICK n : n = d.size
  OBVIOUS
<1>1. d \in DictRecords /\ HashTable(d.keys, d.links, d.hashtab, n) /\ Hashes(d)
  BY Zenon DEF Good, Hashes
<1>2. /\ f \in DictRecords /\ f.keys = Append(d.keys, k) /\ f.values = Append(d.values, v)
      /\ f.size = n /\ f.links = d.links /\ f.hashtab = d.hashtab /\ f.refs = d.refs
  BY <1>1, FilledIs
<1>3. /\ d.keys \in Seq(Keys) /\ n \in Nat \ {0} /\ Len(d.keys) <= n
      /\ d.links \in [0 .. n - 1 -> Int] /\ d.hashtab \in [0 .. n - 1 -> Int]
  BY <1>1, HashedFields
<1> PICK i \in Nat : i = Len(d.keys)
  BY <1>3
<1>4. f.keys[i + 1] = k
  BY <1>2, <1>3
<1> PICK h : h = data_hash[k] % n
  OBVIOUS
<1>5. Bucket(f, f.keys[i + 1]) = h
  BY <1>2, <1>4 DEF Bucket
<1>6. i \in 0 .. n - 1 /\ h \in 0 .. n - 1
  BY <1>3, HashIn
<1> PICK ls : ls = [d.links EXCEPT ![i] = d.hashtab[h]]
  OBVIOUS
<1> PICK ht : ht = [d.hashtab EXCEPT ![h] = i]
  OBVIOUS
<1>7. e = [f EXCEPT !.links[i] = f.hashtab[h], !.hashtab[h] = i]
  BY <1>5 DEF insert_key
<1>8. e = [keys |-> f.keys, values |-> f.values, size |-> n, links |-> ls, hashtab |-> ht,
           refs |-> d.refs]
  <2>1. f = DictWith(f.keys, f.values, f.size, f.links, f.hashtab, f.refs)
    BY <1>2, DictForm, Zenon DEF Formed, DictWith
  <2>2. BothSet(DictWith(f.keys, f.values, f.size, f.links, f.hashtab, f.refs), i, f.hashtab[h], h, i)
        = DictWith(f.keys, f.values, f.size, PutIn(f.links, i, f.hashtab[h]),
                   PutIn(f.hashtab, h, i), f.refs)
    BY TwoSet
  <2>3. e = BothSet(f, i, f.hashtab[h], h, i)
    BY <1>7, Zenon DEF BothSet
  <2>4. PutIn(f.links, i, f.hashtab[h]) = ls /\ PutIn(f.hashtab, h, i) = ht
    BY <1>2 DEF PutIn
  <2>5. e = DictWith(f.keys, f.values, f.size, ls, ht, f.refs)
    BY <2>1, <2>2, <2>3, <2>4, Zenon
  <2> QED BY <1>2, <2>5 DEF DictWith
<1>9. HashTable(f.keys, ls, ht, n)
  <2>1. HashTable(Append(d.keys, k), [d.links EXCEPT ![Len(d.keys)] = d.hashtab[h]],
                  [d.hashtab EXCEPT ![h] = Len(d.keys)], n)
    BY <1>1, TablePush
  <2> QED BY <1>2, <2>1
<1>10. ls \in [0 .. n - 1 -> Int] /\ ht \in [0 .. n - 1 -> Int]
  BY <1>9, Zenon DEF HashTable, Arrays
<1>11. ls \in Tables /\ ht \in Tables
  BY <1>3, <1>10, TablesAre
<1>12. e \in DictRecords
  <2>1. f.keys \in Seq(Keys) /\ f.values \in Seq(Entries) /\ d.refs \in Nat
    BY <1>1, <1>2, DictFields
  <2> QED BY <1>3, <1>8, <1>11, <2>1 DEF DictRecords
<1>13. Hashes(e) /\ e.size = d.size /\ e.keys = Append(d.keys, k) /\ e.values = Append(d.values, v) /\ e.refs = d.refs
  BY <1>2, <1>8, <1>9 DEF Hashes
<1> QED BY <1>12, <1>13, AppendedGood, Zenon

(* double_hashtab_size: it is made anew.                                     *)
LEMMA DoubledGood ==
    ASSUME NEW d, NEW m, Good(d, m), NEW k \in Keys, NEW v \in Entries, k \notin DOMAIN m,
           IsNew(d.keys, k),
           NEW e, e = double_hashtab_size(Filled(d, k, v))
    PROVE  Good(e, With(m, k, v)) /\ e.refs = d.refs
<1> PICK f : f = Filled(d, k, v)
  OBVIOUS
<1>1. d \in DictRecords /\ Hashes(d)
  BY Zenon DEF Good
<1>2. /\ f \in DictRecords /\ f.keys = Append(d.keys, k) /\ f.values = Append(d.values, v)
      /\ f.size = d.size /\ f.refs = d.refs
  BY <1>1, FilledIs
<1>3. d.keys \in Seq(Keys) /\ d.size \in Nat \ {0} /\ Len(d.keys) <= d.size /\ Distinct(d.keys)
  BY <1>1, HashedFields
<1> PICK n : n = f.size * 2 + HashtabDelta
  OBVIOUS
<1> PICK ks \in Seq(Keys) : ks = f.keys
  BY <1>2, DictFields
<1>4. n \in Nat \ {0} /\ Len(ks) <= n /\ Distinct(ks)
  <2>1. HashtabDelta \in Nat \ {0}
    BY DictsAssumption
  <2>2. Len(ks) = Len(d.keys) + 1 /\ \A i \in 1 .. Len(d.keys) : ks[i] = d.keys[i]
    BY <1>2, <1>3
  <2>3. n \in Nat \ {0} /\ Len(ks) <= n
    <3> PICK s \in Nat \ {0} : s = d.size
      BY <1>3
    <3> PICK l \in Nat : l = Len(d.keys)
      BY <1>3
    <3>1. n = s * 2 + HashtabDelta /\ l <= s /\ Len(ks) = l + 1
      BY <1>2, <1>3, <2>2
    <3> QED BY <2>1, <3>1, SMTT(30)
  <2>4. ASSUME NEW i \in 1 .. Len(ks), NEW j \in 1 .. Len(ks), ks[i] = ks[j] PROVE i = j
    <3> PICK l \in Nat : l = Len(d.keys)
      BY <1>3
    <3>1. \A x \in 1 .. Len(ks) : x \in 1 .. l \/ x = l + 1
      BY <2>2, UpToNext, Zenon
    <3>2. ks[l + 1] = k
      BY <1>2, <1>3
    <3>3. CASE i \in 1 .. l /\ j \in 1 .. l
      <4>1. d.keys[i] = d.keys[j]
        BY <2>2, <2>4, <3>3, Zenon
      <4> QED BY <1>3, <3>3, <4>1, Zenon DEF Distinct
    <3>4. CASE ~(i \in 1 .. l /\ j \in 1 .. l)
      BY <2>2, <2>4, <3>1, <3>2, <3>4, Zenon DEF IsNew
    <3> QED BY <3>3, <3>4
  <2> QED BY <2>3, <2>4 DEF Distinct
<1> PICK slot : slot = Slotted(ks, n)
  OBVIOUS
<1> PICK ls : ls = Linked(slot, n)
  OBVIOUS
<1> PICK ht : ht = Heads(slot, n)
  OBVIOUS
<1>5. e = [f EXCEPT !.size = n, !.hashtab = ht, !.links = ls]
  BY DEF double_hashtab_size, Slotted, Linked
<1>6. e = [keys |-> ks, values |-> f.values, size |-> n, links |-> ls, hashtab |-> ht,
           refs |-> d.refs]
  <2>1. f = [keys |-> f.keys, values |-> f.values, size |-> f.size, links |-> f.links,
             hashtab |-> f.hashtab, refs |-> f.refs]
    BY <1>2, DictForm, Zenon DEF Formed
  <2> QED BY <1>2, <1>5, <2>1
<1>7. HashTable(ks, ls, ht, n)
  BY <1>4, TableGrown, Zenon
<1>8. ls \in [0 .. n - 1 -> Int] /\ ht \in [0 .. n - 1 -> Int]
  BY <1>7, Zenon DEF HashTable, Arrays
<1>9. ls \in Tables /\ ht \in Tables
  BY <1>4, <1>8, TablesAre
<1>10. e \in DictRecords
  <2>1. f.values \in Seq(Entries) /\ d.refs \in Nat
    BY <1>1, <1>2, DictFields
  <2> QED BY <1>4, <1>6, <1>9, <2>1 DEF DictRecords
<1>11. Hashes(e) /\ e.keys = Append(d.keys, k) /\ e.values = Append(d.values, v) /\ e.refs = d.refs
  <2>1. /\ e.keys = ks /\ e.size = n /\ e.links = ls /\ e.hashtab = ht
        /\ e.values = f.values /\ e.refs = d.refs
    BY <1>6
  <2> QED BY <1>2, <1>7, <2>1 DEF Hashes
<1> QED BY <1>10, <1>11, AppendedGood, Zenon

LEMMA AddedGood ==
    ASSUME NEW d, NEW m, Good(d, m), NEW k \in Keys, NEW v \in Entries
    PROVE  Good(Added(d, k, v), With(m, k, v)) /\ Added(d, k, v).refs = d.refs
<1> PICK p : p = search(d, k)
  OBVIOUS
<1>1. Finds(d, m, k, p)
  BY SearchFinds
<1>2. Added(d, k, v) = IF p # -1 THEN Revalued(d, p, v)
                       ELSE IF Len(Filled(d, k, v).keys) > d.size THEN double_hashtab_size(Filled(d, k, v))
                       ELSE insert_key(Filled(d, k, v), Len(d.keys))
  BY DEF Added, Revalued, Filled
<1>3. CASE p # -1
  <2>1. p \in 0 .. Len(d.keys) - 1 /\ p + 1 \in 1 .. Len(d.keys) /\ d.keys[p + 1] = k
    BY <1>1, <1>3, Zenon DEF Finds
  <2>2. Good(Revalued(d, p, v), With(m, k, v)) /\ Revalued(d, p, v).refs = d.refs
    BY <2>1, RevaluedGood, ZenonT(40)
  <2> QED BY <1>2, <1>3, <2>2
<1>4. CASE p = -1
  <2>1. k \notin DOMAIN m /\ IsNew(d.keys, k)
    BY <1>1, <1>4 DEF Finds
  <2>2. Len(Filled(d, k, v).keys) = Len(d.keys) + 1 /\ Len(d.keys) \in Nat /\ d.size \in Nat
    <3>1. d \in DictRecords
      BY Zenon DEF Good
    <3> PICK f : f = Filled(d, k, v)
      OBVIOUS
    <3>2. f.keys = Append(d.keys, k) /\ d.keys \in Seq(Keys) /\ d.size \in Nat
      <4>1. f.keys = Append(d.keys, k)
        BY <3>1, FilledIs
      <4> QED BY <3>1, <4>1, DictFields
    <3> QED BY <3>2
  <2>3. CASE Len(Filled(d, k, v).keys) > d.size
    <3>1. Good(double_hashtab_size(Filled(d, k, v)), With(m, k, v))
          /\ double_hashtab_size(Filled(d, k, v)).refs = d.refs
      BY <2>1, DoubledGood
    <3> QED BY <1>2, <1>4, <2>3, <3>1
  <2>4. CASE ~(Len(Filled(d, k, v).keys) > d.size)
    <3>1. Len(d.keys) < d.size
      BY <2>2, <2>4
    <3>2. Good(insert_key(Filled(d, k, v), Len(d.keys)), With(m, k, v))
          /\ insert_key(Filled(d, k, v), Len(d.keys)).refs = d.refs
      BY <2>1, <3>1, InsertedGood
    <3> QED BY <1>2, <1>4, <2>4, <3>2
  <2> QED BY <2>3, <2>4
<1> QED BY <1>3, <1>4

-----------------------------------------------------------------------------
(* A key taken out.                                                          *)
Bypassed(d, i) == [d EXCEPT !.hashtab = Around(d.hashtab, i, d.links[i]),
                            !.links = Around(d.links, i, d.links[i])]
RemovedWith(d, i, len) ==
    [d EXCEPT !.keys = RemoveAt(d.keys, i + 1), !.values = RemoveAt(d.values, i + 1),
        !.links = [j \in DOMAIN d.links |->
            IF j < len THEN Renamed(ShiftedDown(DOMAIN d.links, Bypassed(d, i).links, i, len)[j], i, len)
            ELSE ShiftedDown(DOMAIN d.links, Bypassed(d, i).links, i, len)[j]],
        !.hashtab = [h \in DOMAIN d.hashtab |-> Renamed(Bypassed(d, i).hashtab[h], i, len)]]

LEMMA RemovedIs ==
    ASSUME NEW d, NEW k
    PROVE  Removed(d, k) = RemovedWith(d, search(d, k), Len(d.keys) - 1)
BY Zenon DEF Removed, RemovedWith, Bypassed, Around, ShiftedDown, Renamed

LEMMA RemovedForm ==
    ASSUME NEW d \in DictRecords, NEW i, NEW len
    PROVE  RemovedWith(d, i, len)
               = DictWith(RemoveAt(d.keys, i + 1), RemoveAt(d.values, i + 1), d.size,
                          LinksLess(d.links, i, len), HeadsLess(d.hashtab, i, d.links[i], len), d.refs)
<1> PICK un : un = Bypassed(d, i)
  OBVIOUS
<1> PICK e : e = RemovedWith(d, i, len)
  OBVIOUS
<1>1. un.links = Around(d.links, i, d.links[i]) /\ un.hashtab = Around(d.hashtab, i, d.links[i])
  BY DEF DictRecords, Bypassed
<1> PICK moved : moved = ShiftedDown(DOMAIN d.links, un.links, i, len)
  OBVIOUS
<1>2. moved = ShiftedDown(DOMAIN d.links, Bypassed(d, i).links, i, len)
  OBVIOUS
<1> PICK ls : ls = [j \in DOMAIN d.links |-> IF j < len THEN Renamed(moved[j], i, len) ELSE moved[j]]
  OBVIOUS
<1> PICK ht : ht = [h \in DOMAIN d.hashtab |-> Renamed(un.hashtab[h], i, len)]
  OBVIOUS
<1>3. e = [d EXCEPT !.keys = RemoveAt(d.keys, i + 1), !.values = RemoveAt(d.values, i + 1),
                    !.links = ls, !.hashtab = ht]
  BY <1>2 DEF RemovedWith
<1>4. ls = LinksLess(d.links, i, len)
  BY <1>1 DEF LinksLess
<1>5. ht = HeadsLess(d.hashtab, i, d.links[i], len)
  BY <1>1 DEF HeadsLess
<1>6. e = DictWith(RemoveAt(d.keys, i + 1), RemoveAt(d.values, i + 1), d.size, ls, ht, d.refs)
  BY <1>3 DEF DictRecords, DictWith
<1> QED BY <1>4, <1>5, <1>6, Zenon

LEMMA RemovedGood ==
    ASSUME NEW d, NEW m, Good(d, m), NEW k \in Keys, dict_contains(d, k)
    PROVE  Good(Removed(d, k), Without(m, k)) /\ Removed(d, k).refs = d.refs
<1> PICK i : i = search(d, k)
  OBVIOUS
<1> PICK e : e = Removed(d, k)
  OBVIOUS
<1> PICK w : w = Without(m, k)
  OBVIOUS
<1> PICK n : n = Len(d.keys)
  OBVIOUS
<1> PICK len : len = n - 1
  OBVIOUS
<1>1. d \in DictRecords /\ m \in DictMaps /\ Hashes(d) /\ Len(d.values) = n /\ Means(d, m)
  BY Zenon DEF Good
<1>2. /\ i \in 0 .. n - 1 /\ i + 1 \in 1 .. n /\ d.keys[i + 1] = k
  <2>1. Finds(d, m, k, i)
    BY SearchFinds
  <2>2. i # -1
    BY DEF dict_contains
  <2> QED BY <2>1, <2>2 DEF Finds
<1>3. /\ d.keys \in Seq(Keys) /\ d.values \in Seq(Entries) /\ d.size \in Nat \ {0} /\ d.refs \in Nat
  BY <1>1, DictFields
<1> PICK ks : ks = RemoveAt(d.keys, i + 1)
  OBVIOUS
<1> PICK vs : vs = RemoveAt(d.values, i + 1)
  OBVIOUS
<1>4. ks \in Seq(Keys) /\ Closes(d.keys, ks, i + 1)
  BY <1>2, <1>3, RemovedAt
<1>5. vs \in Seq(Entries) /\ Closes(d.values, vs, i + 1)
  BY <1>1, <1>2, <1>3, RemovedAt
<1> PICK ls : ls = LinksLess(d.links, i, len)
  OBVIOUS
<1> PICK ht : ht = HeadsLess(d.hashtab, i, d.links[i], len)
  OBVIOUS
<1>6. HashTable(ks, ls, ht, d.size)
  <2>1. HashTable(d.keys, d.links, d.hashtab, d.size)
    BY <1>1, Zenon DEF Hashes
  <2>2. HashTable(RemoveAt(d.keys, i + 1), LinksLess(d.links, i, len),
                  HeadsLess(d.hashtab, i, d.links[i], len), d.size)
    BY <1>2, <2>1, TableRemove
  <2> QED BY <2>2
<1>7. e = DictWith(ks, vs, d.size, ls, ht, d.refs)
  <2>1. e = RemovedWith(d, i, len)
    BY RemovedIs
  <2>2. RemovedWith(d, i, len)
            = DictWith(RemoveAt(d.keys, i + 1), RemoveAt(d.values, i + 1), d.size,
                       LinksLess(d.links, i, len), HeadsLess(d.hashtab, i, d.links[i], len), d.refs)
    BY <1>1, RemovedForm
  <2> QED BY <2>1, <2>2, Zenon
<1>8. ls \in Tables /\ ht \in Tables
  <2>1. ls \in [0 .. d.size - 1 -> Int] /\ ht \in [0 .. d.size - 1 -> Int] /\ d.size \in Nat
    BY <1>3, <1>6, Zenon DEF HashTable, Arrays
  <2> QED BY <2>1, TablesAre
<1>9. e.keys = ks /\ e.values = vs /\ e.size = d.size /\ e.links = ls /\ e.hashtab = ht /\ e.refs = d.refs
  BY <1>7 DEF DictWith
<1>10. e \in DictRecords
  BY <1>3, <1>4, <1>5, <1>7, <1>8 DEF DictRecords, DictWith
<1>11. Hashes(e)
  BY <1>6, <1>9 DEF Hashes
<1>12. n \in Nat /\ len \in Nat /\ n = len + 1
  BY <1>2, <1>3
<1>13. /\ Len(ks) = len /\ Len(vs) = len
       /\ \A j \in 1 .. len : ks[j] = IF j < i + 1 THEN d.keys[j] ELSE d.keys[j + 1]
       /\ \A j \in 1 .. len : vs[j] = IF j < i + 1 THEN d.values[j] ELSE d.values[j + 1]
  BY <1>1, <1>4, <1>5, Zenon DEF Closes
<1>14. /\ DOMAIN m = {d.keys[j] : j \in 1 .. n}
       /\ \A j \in 1 .. n : m[d.keys[j]] = d.values[j]
  BY <1>1, Zenon DEF Means
<1>15. DOMAIN w = DOMAIN m \ {k} /\ \A x \in DOMAIN w : w[x] = m[x]
  BY DEF Without
<1>16. \A a, b \in 1 .. n : d.keys[a] = d.keys[b] => a = b
  BY <1>1, Zenon DEF Hashes, HashTable, Arrays, Distinct
<1> DEFINE up(j) == IF j < i + 1 THEN j ELSE j + 1
<1>17. \A j \in 1 .. len : up(j) \in 1 .. n /\ up(j) # i + 1 /\ ks[j] = d.keys[up(j)] /\ vs[j] = d.values[up(j)]
  <2> TAKE j \in 1 .. len
  <2>1. up(j) \in 1 .. n /\ up(j) # i + 1
    BY <1>2, <1>12
  <2>2. CASE j < i + 1
    BY <1>13, <2>1, <2>2
  <2>3. CASE ~(j < i + 1)
    BY <1>13, <2>1, <2>3
  <2> QED BY <2>2, <2>3
<1>18. \A a \in 1 .. n : a # i + 1 => \E j \in 1 .. len : a = up(j)
  <2> TAKE a \in 1 .. n
  <2> HAVE a # i + 1
  <2>1. CASE a < i + 1
    <3>1. a \in 1 .. len /\ a = up(a)
      BY <1>2, <1>12, <2>1
    <3> QED BY <3>1
  <2>2. CASE ~(a < i + 1)
    <3>1. a - 1 \in 1 .. len /\ a = up(a - 1)
      BY <1>2, <1>12, <2>2
    <3> QED BY <3>1
  <2> QED BY <2>1, <2>2
<1> HIDE DEF up
<1>19. ASSUME NEW j \in 1 .. len PROVE ks[j] \in DOMAIN w /\ w[ks[j]] = vs[j]
  <2> PICK a : a = up(j)
    OBVIOUS
  <2>1. a \in 1 .. n /\ a # i + 1 /\ ks[j] = d.keys[a] /\ vs[j] = d.values[a]
    BY <1>17
  <2>2. d.keys[a] # k
    BY <1>2, <1>16, <2>1
  <2>3. d.keys[a] \in DOMAIN w
    BY <1>14, <1>15, <2>1, <2>2
  <2> QED BY <1>14, <1>15, <2>1, <2>3
<1>20. ASSUME NEW x \in DOMAIN w PROVE \E j \in 1 .. len : x = ks[j]
  <2>1. PICK a \in 1 .. n : x = d.keys[a]
    BY <1>14, <1>15
  <2>2. a # i + 1
    BY <1>2, <1>15, <2>1
  <2>3. PICK j \in 1 .. len : a = up(j)
    BY <1>18, <2>2
  <2> QED BY <1>17, <2>1, <2>3
<1>21. DOMAIN w = {ks[j] : j \in 1 .. len}
  <2> PICK K : K = DOMAIN w
    OBVIOUS
  <2>1. \A j \in 1 .. len : ks[j] \in K
    BY <1>19
  <2>2. \A x \in K : \E j \in 1 .. len : x = ks[j]
    BY <1>20
  <2>3. K = {ks[j] : j \in 1 .. len}
    BY <2>1, <2>2, Zenon
  <2> QED BY <2>3
<1>22. Means(e, w)
  <2>1. Len(e.keys) = len /\ e.keys = ks /\ e.values = vs
    BY <1>9, <1>13
  <2>2. DOMAIN w = {e.keys[j] : j \in 1 .. Len(e.keys)}
    BY <1>21, <2>1
  <2>3. \A j \in 1 .. Len(e.keys) : w[e.keys[j]] = e.values[j]
    BY <1>19, <2>1
  <2> QED BY <2>2, <2>3, Zenon DEF Means
<1>23. w \in DictMaps
  <2>1. \A v \in Entries : w \in DictMaps
    BY <1>1, MapsStay
  <2>2. d.values[i + 1] \in Entries
    BY <1>1, <1>2, <1>3
  <2> QED BY <2>1, <2>2
<1> QED BY <1>9, <1>10, <1>11, <1>13, <1>22, <1>23, Zenon DEF Good

-----------------------------------------------------------------------------
(* A dictionary of pairs: dict_new.                                          *)
Widened(x, n) == IF x < n THEN x * 2 + HashtabDelta ELSE x
Widening(n, f) == [k \in 0 .. 3 |-> IF k = 0 THEN HashtabStart ELSE Widened(f[k - 1], n)]

LEMMA InitialSizeIs ==
    ASSUME NEW n \in 0 .. 2
    PROVE  InitialSize(n) \in Nat \ {0} /\ n <= InitialSize(n)
<1> DEFINE u == CHOOSE f : f = Widening(n, f)
<1>1. HashtabStart \in Nat \ {0} /\ HashtabDelta \in Nat \ {0}
  BY DictsAssumption
<1>2. ASSUME NEW x \in Nat \ {0}
      PROVE  Widened(x, n) \in Nat \ {0} /\ n <= Widened(x, n)
  BY <1>1 DEF Widened
<1>3. \E f : f = Widening(n, f)
  <2> PICK a : a = HashtabStart
    OBVIOUS
  <2> PICK b : b = Widened(a, n)
    OBVIOUS
  <2> PICK c : c = Widened(b, n)
    OBVIOUS
  <2> PICK d : d = Widened(c, n)
    OBVIOUS
  <2> PICK f : f = [k \in 0 .. 3 |-> IF k = 0 THEN a ELSE IF k = 1 THEN b ELSE IF k = 2 THEN c ELSE d]
    OBVIOUS
  <2>1. f[0] = a /\ f[1] = b /\ f[2] = c
    OBVIOUS
  <2>2. ASSUME NEW k \in 0 .. 3 PROVE f[k] = Widening(n, f)[k]
    <3>1. k = 0 \/ k = 1 \/ k = 2 \/ k = 3
      OBVIOUS
    <3>2. Widening(n, f)[k] = IF k = 0 THEN a ELSE Widened(f[k - 1], n)
      BY DEF Widening
    <3>3. CASE k = 0
      BY <3>2, <3>3
    <3>4. CASE k # 0
      <4>1. Widened(f[k - 1], n) = IF k = 1 THEN b ELSE IF k = 2 THEN c ELSE d
        BY <2>1, <3>1, <3>4
      <4> QED BY <3>2, <3>4, <4>1
    <3> QED BY <3>3, <3>4
  <2>3. f = Widening(n, f)
    BY <2>2, Zenon DEF Widening
  <2> QED BY <2>3
<1>4. u = Widening(n, u)
  BY <1>3, Zenon
<1>5. InitialSize(n) = u[3]
  BY Zenon DEF InitialSize, Widening, Widened
<1> HIDE DEF u
<1>6. /\ Widening(n, u)[0] = HashtabStart /\ Widening(n, u)[1] = Widened(u[0], n)
      /\ Widening(n, u)[2] = Widened(u[1], n) /\ Widening(n, u)[3] = Widened(u[2], n)
  BY DEF Widening
<1>7. u[0] = HashtabStart /\ u[1] = Widened(u[0], n) /\ u[2] = Widened(u[1], n) /\ u[3] = Widened(u[2], n)
  BY <1>4, <1>6, Zenon
<1>8. u[1] \in Nat \ {0}
  BY <1>1, <1>2, <1>7
<1>9. u[2] \in Nat \ {0}
  BY <1>2, <1>7, <1>8
<1> QED BY <1>2, <1>5, <1>7, <1>9

Enter(d, k, v) ==
    IF search(d, k) # -1 THEN d ELSE insert_key(Filled(d, k, v), Len(d.keys))
WithNew(m, k, v) == IF k \in DOMAIN m THEN m ELSE With(m, k, v)

LEMMA EnterGood ==
    ASSUME NEW d, NEW m, Good(d, m), NEW k \in Keys, NEW v \in Entries,
           Len(d.keys) < d.size, NEW e, e = Enter(d, k, v)
    PROVE  /\ Good(e, WithNew(m, k, v)) /\ e.refs = d.refs /\ e.size = d.size
           /\ Len(e.keys) <= Len(d.keys) + 1
<1>1. Finds(d, m, k, search(d, k))
  BY SearchFinds
<1>0. d.keys \in Seq(Keys) /\ Len(d.keys) \in Nat
  <2>1. d.keys \in Seq(Keys)
    BY DictFields DEF Good
  <2> QED BY <2>1
<1>2. CASE search(d, k) # -1
  <2>1. k \in DOMAIN m /\ e = d
    BY <1>1, <1>2 DEF Finds, Enter
  <2> QED BY <1>0, <2>1 DEF WithNew
<1>3. CASE search(d, k) = -1
  <2>1. k \notin DOMAIN m /\ IsNew(d.keys, k) /\ e = insert_key(Filled(d, k, v), Len(d.keys))
    BY <1>1, <1>3 DEF Finds, Enter
  <2>2. /\ Good(e, With(m, k, v)) /\ e.refs = d.refs /\ e.size = d.size
        /\ e.keys = Append(d.keys, k)
    BY <2>1, InsertedGood, Zenon
  <2>3. Len(e.keys) = Len(d.keys) + 1
    BY <1>0, <2>2
  <2> QED BY <1>0, <2>1, <2>2, <2>3 DEF WithNew
<1> QED BY <1>2, <1>3

(* What it should stand for.                                                 *)
First(pairs, i) == [j \in 1 .. i |-> pairs[j]]
At(pairs, x, i) == {j \in 1 .. i : pairs[j][1] = x}

LEMMA MinIs ==
    ASSUME NEW S \in SUBSET Nat, NEW a \in S, \A y \in S : a <= y
    PROVE  Min(S) = a
<1>1. Min(S) \in S /\ \A y \in S : Min(S) <= y
  BY Zenon DEF Min
<1> PICK m : m = Min(S)
  OBVIOUS
<1>2. m \in Nat /\ a \in Nat /\ m <= a /\ a <= m
  BY <1>1
<1>3. m = a
  BY <1>2
<1> QED BY <1>3

LEMMA FirstsMap ==
    ASSUME NEW i \in Nat, NEW pairs
    PROVE  /\ DOMAIN Mapping(First(pairs, i)) = {pairs[j][1] : j \in 1 .. i}
           /\ \A x \in DOMAIN Mapping(First(pairs, i)) :
                  Mapping(First(pairs, i))[x] = pairs[Min(At(pairs, x, i))][2]
<1> PICK f : f = First(pairs, i)
  OBVIOUS
<1>1. DOMAIN f = 1 .. i /\ \A j \in 1 .. i : f[j] = pairs[j]
  BY DEF First
<1>2. DOMAIN Mapping(f) = {f[j][1] : j \in DOMAIN f}
  BY DEF Mapping
<1>3. {f[j][1] : j \in DOMAIN f} = {pairs[j][1] : j \in 1 .. i}
  BY <1>1
<1>4. ASSUME NEW x \in DOMAIN Mapping(f)
      PROVE  Mapping(f)[x] = pairs[Min(At(pairs, x, i))][2]
  <2>1. Mapping(f)[x] = f[Min({j \in DOMAIN f : f[j][1] = x})][2]
    BY <1>2 DEF Mapping
  <2>2. {j \in DOMAIN f : f[j][1] = x} = At(pairs, x, i)
    BY <1>1 DEF At
  <2>3. PICK j \in 1 .. i : pairs[j][1] = x
    BY <1>2, <1>3
  <2>4. At(pairs, x, i) \in SUBSET Nat /\ At(pairs, x, i) # {}
    BY <2>3 DEF At
  <2> PICK S : S = At(pairs, x, i)
    OBVIOUS
  <2>5. Min(S) \in 1 .. i
    <3>1. PICK a \in S : \A y \in S : a <= y
      BY <2>4, MinOfNaturals, Zenon
    <3>2. Min(S) = a
      BY <2>4, <3>1, MinIs
    <3> QED BY <3>2 DEF At
  <2> QED BY <1>1, <2>1, <2>2, <2>5
<1> QED BY <1>2, <1>3, <1>4

LEMMA OneMorePair ==
    ASSUME NEW n \in Nat, NEW pairs \in [1 .. n -> Keys \X Entries], NEW i \in 0 .. n - 1
    PROVE  Mapping(First(pairs, i + 1))
               = WithNew(Mapping(First(pairs, i)), pairs[i + 1][1], pairs[i + 1][2])
<1> PICK m : m = Mapping(First(pairs, i))
  OBVIOUS
<1> PICK w : w = Mapping(First(pairs, i + 1))
  OBVIOUS
<1> PICK k : k = pairs[i + 1][1]
  OBVIOUS
<1> PICK v : v = pairs[i + 1][2]
  OBVIOUS
<1>0. i \in Nat /\ i + 1 \in Nat /\ i + 1 \in 1 .. i + 1
  OBVIOUS
<1>1. /\ DOMAIN m = {pairs[j][1] : j \in 1 .. i}
      /\ \A x \in DOMAIN m : m[x] = pairs[Min(At(pairs, x, i))][2]
  BY <1>0, FirstsMap, Zenon
<1>2. /\ DOMAIN w = {pairs[j][1] : j \in 1 .. i + 1}
      /\ \A x \in DOMAIN w : w[x] = pairs[Min(At(pairs, x, i + 1))][2]
  BY <1>0, FirstsMap
<1>3. \A j \in 1 .. i + 1 : j \in 1 .. i \/ j = i + 1
  BY <1>0, UpToNext, Zenon
<1>4. \A j \in 1 .. i : j \in 1 .. i + 1 /\ j <= i + 1 /\ j # i + 1 /\ j \in Nat
  OBVIOUS
<1>5. DOMAIN w = DOMAIN m \cup {k}
  BY <1>0, <1>1, <1>2, <1>3, <1>4
<1>6. ASSUME NEW x \in DOMAIN m PROVE w[x] = m[x]
  <2>1. PICK j \in 1 .. i : pairs[j][1] = x
    BY <1>1
  <2> PICK S : S = At(pairs, x, i)
    OBVIOUS
  <2> PICK T : T = At(pairs, x, i + 1)
    OBVIOUS
  <2>2. S \in SUBSET Nat /\ S # {} /\ T \in SUBSET Nat
    BY <2>1, SMTT(30) DEF At
  <2>3. PICK a \in S : \A y \in S : a <= y
    BY <2>2, MinOfNaturals, Zenon
  <2>4. Min(S) = a
    BY <2>2, <2>3, MinIs
  <2>5. a \in 1 .. i /\ a \in T
    BY <1>4, <2>3 DEF At
  <2>6. \A y \in T : a <= y
    <3> TAKE y \in T
    <3>1. y \in S \/ y = i + 1
      BY <1>3 DEF At
    <3> QED BY <1>4, <2>3, <2>5, <3>1
  <2>7. Min(T) = a
    BY <2>2, <2>5, <2>6, MinIs
  <2>8. x \in DOMAIN w
    BY <1>5
  <2> QED BY <1>1, <1>2, <2>4, <2>7, <2>8
<1>7. k \notin DOMAIN m => w[k] = v
  <2> HAVE k \notin DOMAIN m
  <2> PICK T : T = At(pairs, k, i + 1)
    OBVIOUS
  <2>1. T = {i + 1}
    <3>1. \A y \in T : y = i + 1
      BY <1>1, <1>3 DEF At
    <3>2. i + 1 \in T
      BY <1>0 DEF At
    <3> QED BY <3>1, <3>2
  <2>2. Min(T) = i + 1
    <3>1. T \in SUBSET Nat /\ i + 1 \in T /\ \A y \in T : i + 1 <= y
      BY <1>0, <2>1
    <3> QED BY <3>1, MinIs
  <2>3. k \in DOMAIN w
    BY <1>5
  <2> QED BY <1>2, <2>2, <2>3
<1>8. w = [x \in DOMAIN w |-> w[x]] /\ m = [x \in DOMAIN m |-> m[x]]
  BY DEF Mapping
<1>9. CASE k \in DOMAIN m
  <2>1. DOMAIN w = DOMAIN m
    BY <1>5, <1>9
  <2>2. w = m
    BY <1>6, <1>8, <2>1
  <2> QED BY <1>9, <2>2 DEF WithNew
<1>10. CASE k \notin DOMAIN m
  <2> PICK u : u = With(m, k, v)
    OBVIOUS
  <2>1. DOMAIN u = DOMAIN w /\ u = [x \in DOMAIN u |-> u[x]]
    BY <1>5 DEF With
  <2>2. ASSUME NEW x \in DOMAIN w PROVE w[x] = u[x]
    <3>1. u[x] = IF x = k THEN v ELSE m[x]
      BY <1>5 DEF With
    <3> QED BY <1>5, <1>6, <1>7, <1>10, <3>1
  <2>3. w = u
    BY <1>8, <2>1, <2>2
  <2> QED BY <1>10, <2>3 DEF WithNew
<1> QED BY <1>9, <1>10

Bare(size) == [Empty EXCEPT !.size = size, !.links = Nil(size), !.hashtab = Nil(size), !.refs = 1]
Entering(ks, vs, n, d, f) ==
    [i \in 0 .. n |-> IF i = 0 THEN d ELSE Enter(f[i - 1], ks[i], vs[i])]

LEMMA BareGood ==
    ASSUME NEW n \in Nat \ {0}, NEW pairs
    PROVE  /\ Good(Bare(n), Mapping(First(pairs, 0))) /\ Bare(n).refs = 1 /\ Bare(n).size = n
           /\ Len(Bare(n).keys) = 0
<1> PICK d : d = Bare(n)
  OBVIOUS
<1> PICK m : m = Mapping(First(pairs, 0))
  OBVIOUS
<1>1. d = DictWith(<<>>, <<>>, n, Nil(n), Nil(n), 1)
  BY DEF Bare, Empty, DictWith
<1>2. /\ d.keys = <<>> /\ d.values = <<>> /\ d.size = n /\ d.links = Nil(n) /\ d.hashtab = Nil(n)
      /\ d.refs = 1
  BY <1>1 DEF DictWith
<1>3. Hashes(d)
  <2>1. HashTable(<<>>, Nil(n), Nil(n), n)
    BY EmptyTable
  <2> QED BY <1>2, <2>1 DEF Hashes
<1>4. d \in DictRecords
  <2>1. Nil(n) \in [0 .. n - 1 -> Int]
    BY DEF Nil
  <2>2. Nil(n) \in Tables
    BY <2>1, TablesAre
  <2> PICK nil : nil = Nil(n)
    OBVIOUS
  <2>3. <<>> \in Seq(Keys) /\ <<>> \in Seq(Entries)
    OBVIOUS
  <2> QED BY <1>1, <2>2, <2>3 DEF DictRecords, DictWith
<1>5. DOMAIN m = {} /\ m = [x \in DOMAIN m |-> m[x]]
  BY FirstsMap DEF Mapping, First
<1>6. m \in DictMaps
  <2>1. m \in [{} -> Entries]
    BY <1>5
  <2> QED BY <2>1 DEF DictMaps
<1>7. Means(d, m)
  <2>1. Len(d.keys) = 0
    BY <1>2
  <2>2. 1 .. 0 = {}
    OBVIOUS
  <2> QED BY <1>5, <2>1, <2>2 DEF Means
<1> QED BY <1>2, <1>3, <1>4, <1>6, <1>7 DEF Good

LEMMA EnteringIs ==
    ASSUME NEW n \in 0 .. 2, NEW ks, NEW vs, NEW d
    PROVE  \E f : f = Entering(ks, vs, n, d, f)
<1> PICK b : b = Enter(d, ks[1], vs[1])
  OBVIOUS
<1> PICK c : c = Enter(b, ks[2], vs[2])
  OBVIOUS
<1> PICK f : f = [i \in 0 .. n |-> IF i = 0 THEN d ELSE IF i = 1 THEN b ELSE c]
  OBVIOUS
<1>1. ASSUME NEW i \in 0 .. n PROVE f[i] = Entering(ks, vs, n, d, f)[i]
  <2>1. Entering(ks, vs, n, d, f)[i] = IF i = 0 THEN d ELSE Enter(f[i - 1], ks[i], vs[i])
    BY DEF Entering
  <2>2. i = 0 \/ i = 1 \/ i = 2
    OBVIOUS
  <2>3. CASE i = 0
    BY <2>1, <2>3
  <2>4. CASE i = 1
    <3>1. f[0] = d /\ i - 1 = 0 /\ f[1] = b
      BY <2>4
    <3> QED BY <2>1, <2>4, <3>1
  <2>5. CASE i = 2
    <3>1. f[1] = b /\ i - 1 = 1 /\ f[2] = c
      BY <2>5
    <3> QED BY <2>1, <2>5, <3>1
  <2> QED BY <2>2, <2>3, <2>4, <2>5
<1>2. f = Entering(ks, vs, n, d, f)
  BY <1>1, Zenon DEF Entering
<1> QED BY <1>2

LEMMA NewGood ==
    ASSUME NEW n \in 0 .. 2, NEW pairs \in [1 .. n -> Keys \X Entries],
           NEW d, d = dict_new([i \in 1 .. n |-> pairs[i][1]], [i \in 1 .. n |-> pairs[i][2]])
    PROVE  Good(d, Mapping(pairs)) /\ d.refs = 1
<1> PICK ks : ks = [i \in 1 .. n |-> pairs[i][1]]
  OBVIOUS
<1> PICK vs : vs = [i \in 1 .. n |-> pairs[i][2]]
  OBVIOUS
<1>1. Len(ks) = n /\ \A i \in 1 .. n : ks[i] = pairs[i][1] /\ vs[i] = pairs[i][2]
  OBVIOUS
<1> PICK size : size = InitialSize(n)
  OBVIOUS
<1>2. size \in Nat \ {0} /\ n <= size
  BY InitialSizeIs
<1> DEFINE u == CHOOSE f : f = Entering(ks, vs, n, Bare(size), f)
<1>3. u = Entering(ks, vs, n, Bare(size), u)
  <2>1. \E f : f = Entering(ks, vs, n, Bare(size), f)
    BY EnteringIs, Zenon
  <2> QED BY <2>1, Zenon
<1>4. d = u[n]
  <2>1. d = dict_new(ks, vs)
    OBVIOUS
  <2>2. dict_new(ks, vs) = (CHOOSE f : f = Entering(ks, vs, Len(ks), Bare(InitialSize(Len(ks))), f))[Len(ks)]
    BY Zenon DEF dict_new, Entering, Enter, Filled, Bare
  <2> QED BY <1>1, <2>1, <2>2
<1> HIDE DEF u
<1>5. /\ Entering(ks, vs, n, Bare(size), u)[0] = Bare(size)
      /\ \A i \in 1 .. n : Entering(ks, vs, n, Bare(size), u)[i] = Enter(u[i - 1], ks[i], vs[i])
  BY DEF Entering
<1>6. u[0] = Bare(size) /\ \A i \in 1 .. n : u[i] = Enter(u[i - 1], ks[i], vs[i])
  BY <1>3, <1>5, Zenon
<1> DEFINE MeantBy(e, i) == /\ Good(e, Mapping(First(pairs, i))) /\ e.refs = 1 /\ e.size = size
                          /\ Len(e.keys) <= i
<1>7. MeantBy(u[0], 0)
  BY <1>2, <1>6, BareGood
<1>8. ASSUME NEW i \in 0 .. n - 1, NEW e, MeantBy(e, i)
      PROVE  MeantBy(Enter(e, ks[i + 1], vs[i + 1]), i + 1)
  <2> PICK k : k = ks[i + 1]
    OBVIOUS
  <2> PICK v : v = vs[i + 1]
    OBVIOUS
  <2>0. i + 1 \in 1 .. n /\ i \in Nat /\ n \in Nat /\ i < n
    OBVIOUS
  <2>1. k = pairs[i + 1][1] /\ v = pairs[i + 1][2] /\ k \in Keys /\ v \in Entries
    BY <1>1, <2>0
  <2>2. Good(e, Mapping(First(pairs, i))) /\ e.refs = 1 /\ e.size = size /\ Len(e.keys) <= i
    BY <1>8
  <2>3. Len(e.keys) \in Nat
    <3>1. e.keys \in Seq(Keys)
      BY <2>2, DictFields DEF Good
    <3> QED BY <3>1
  <2>4. Len(e.keys) < e.size
    BY <1>2, <2>0, <2>2, <2>3
  <2> PICK m : m = Mapping(First(pairs, i))
    OBVIOUS
  <2> PICK g : g = Enter(e, k, v)
    OBVIOUS
  <2>5. /\ Good(g, WithNew(m, k, v)) /\ g.refs = e.refs /\ g.size = e.size
        /\ Len(g.keys) <= Len(e.keys) + 1
    BY <2>1, <2>2, <2>4, EnterGood
  <2>6. Mapping(First(pairs, i + 1)) = WithNew(Mapping(First(pairs, i)), pairs[i + 1][1], pairs[i + 1][2])
    BY <2>0, OneMorePair
  <2>7. Good(g, Mapping(First(pairs, i + 1)))
    BY <2>1, <2>5, <2>6
  <2>8. Len(g.keys) <= i + 1
    <3>1. Len(g.keys) \in Nat
      <4>1. g.keys \in Seq(Keys)
        BY <2>5, DictFields DEF Good
      <4> QED BY <4>1
    <3> QED BY <2>0, <2>2, <2>3, <2>5, <3>1
  <2> QED BY <2>2, <2>5, <2>7, <2>8
<1> HIDE DEF MeantBy
<1>9. ASSUME NEW i \in 0 .. n - 1, MeantBy(u[i], i) PROVE MeantBy(u[i + 1], i + 1)
  <2>1. u[i + 1] = Enter(u[i], ks[i + 1], vs[i + 1])
    <3>1. i + 1 \in 1 .. n /\ (i + 1) - 1 = i
      OBVIOUS
    <3> QED BY <1>6, <3>1
  <2> QED BY <1>8, <1>9, <2>1
<1>10. MeantBy(u[n], n)
  <2>1. n = 0 \/ n = 1 \/ n = 2
    OBVIOUS
  <2>2. CASE n = 0
    BY <1>7, <2>2
  <2>3. CASE n = 1
    <3>1. MeantBy(u[0 + 1], 0 + 1)
      BY <1>7, <1>9, <2>3
    <3> QED BY <2>3, <3>1
  <2>4. CASE n = 2
    <3>1. MeantBy(u[0 + 1], 0 + 1)
      BY <1>7, <1>9, <2>4
    <3>2. MeantBy(u[1], 1) /\ 1 \in 0 .. n - 1
      BY <2>4, <3>1
    <3>3. MeantBy(u[1 + 1], 1 + 1)
      BY <1>9, <3>2
    <3> QED BY <2>4, <3>3
  <2> QED BY <2>1, <2>2, <2>3, <2>4
<1>11. First(pairs, n) = pairs
  BY DEF First
<1> QED BY <1>4, <1>10, <1>11 DEF MeantBy

-----------------------------------------------------------------------------
(* The dictionaries are counted values whose meanings are the mappings.      *)
GoodDicts == {x \in DictRecords \X DictMaps : Good(x[1], x[2])}
DictShares(h, b, m) == Shares(h, b, m, DictRefs, Spots, GoodDicts)
DictInv == DictShares(dicts, boxes, maps)

LEMMA GoodIn ==
    ASSUME NEW d, NEW m
    PROVE  <<d, m>> \in GoodDicts <=> Good(d, m)
BY DEF GoodDicts, Good

LEMMA DictSetting ==
    Setting(DictRefs, Spots, GoodDicts, Empty)
<1>1. IsFiniteSet(Spots)
  <2>1. IsFiniteSet(DictVars)
    BY DictsAssumption
  <2>2. IsFiniteSet(DictVars \cup {"top"})
    BY <2>1, FS_AddElement
  <2> QED BY <2>2 DEF Spots
<1>2. 0 \notin DictRefs
  BY DictsAssumption DEF DictRefs
<1>3. Empty.refs = 0
  BY DEF Empty
<1>4. ASSUME NEW x \in GoodDicts, NEW k \in Nat
      PROVE  <<Recount(x[1], k), x[2]>> \in GoodDicts /\ Recount(x[1], k).refs = k
  <2> PICK d \in DictRecords, m \in DictMaps : x = <<d, m>> /\ Good(d, m)
    BY DEF GoodDicts
  <2> PICK e : e = Recount(d, k)
    OBVIOUS
  <2>1. /\ e \in DictRecords /\ e.refs = k /\ e.keys = d.keys /\ e.values = d.values
        /\ e.links = d.links /\ e.hashtab = d.hashtab /\ e.size = d.size
    BY DEF Recount, DictRecords
  <2>2. Hashes(d) /\ Len(d.values) = Len(d.keys) /\ Means(d, m)
    BY Zenon DEF Good
  <2>3. Hashes(e) /\ Len(e.values) = Len(e.keys) /\ Means(e, m)
    BY <2>1, <2>2 DEF Hashes, Means
  <2>4. Good(e, m)
    BY <2>1, <2>3, Zenon DEF Good
  <2>5. <<e, m>> \in GoodDicts
    BY <2>4, GoodIn
  <2>6. x[1] = d /\ x[2] = m
    OBVIOUS
  <2> QED BY <2>1, <2>5, <2>6
<1> HIDE DEF GoodDicts, DictRefs, Spots, Empty
<1>5. Meaningful(GoodDicts)
  BY <1>4 DEF Meaningful
<1> QED BY <1>1, <1>2, <1>3, <1>5, Zenon DEF Setting

LEMMA DictFacts ==
    ASSUME NEW h, NEW b, NEW m, DictShares(h, b, m), NEW s \in Spots
    PROVE  /\ DOMAIN h = DictRefs /\ b \in [Spots -> DictRefs \cup {0}] /\ DOMAIN m = Spots
           /\ 0 \notin DictRefs
           /\ b[s] # 0 => b[s] \in DictRefs /\ Good(h[b[s]], m[s]) /\ h[b[s]].refs # 0
<1> HIDE DEF DictRefs, Spots, GoodDicts
<1>1. Shares(h, b, m, DictRefs, Spots, GoodDicts)
  BY Zenon DEF DictShares
<1>2. /\ DOMAIN h = DictRefs /\ DOMAIN b = Spots /\ DOMAIN m = Spots /\ 0 \notin DictRefs
      /\ \A r \in DictRefs : h[r].refs = Count(b, r) /\ Count(b, r) \in Nat
      /\ b[s] \in DictRefs \cup {0}
      /\ b[s] # 0 => <<h[b[s]], m[s]>> \in GoodDicts /\ Count(b, b[s]) # 0
  BY <1>1, DictSetting, ShareFacts
<1>3. b \in [Spots -> DictRefs \cup {0}]
  BY <1>1, Zenon DEF Shares, Placed
<1>4. b[s] # 0 => Good(h[b[s]], m[s])
  BY <1>2, GoodIn
<1> QED BY <1>2, <1>3, <1>4

(* An address for a new dictionary.                                          *)
LEMMA StoredIs ==
    ASSUME NEW h, Vacant(h) # {}
    PROVE  Stored(h) \in DictRefs /\ h[Stored(h)] = Empty
<1>1. Vacant(h) \in SUBSET Nat
  BY DictsAssumption DEF Vacant, DictRefs
<1>2. \E n \in Vacant(h) : \A o \in Vacant(h) : n <= o
  BY <1>1, MinOfNaturals
<1>3. Stored(h) \in Vacant(h)
  BY <1>2 DEF Stored
<1> QED BY <1>3 DEF Vacant

LEMMA GivesUp ==
    ASSUME NEW h, NEW b, NEW m, DictShares(h, b, m), NEW s \in Spots, NEW z
    PROVE  DictShares(dict_discard(h, b[s]), PutIn(b, s, 0), PutIn(m, s, z))
<1> HIDE DEF DictRefs, Spots, GoodDicts, Empty
<1>1. Shares(h, b, m, DictRefs, Spots, GoodDicts)
  BY Zenon DEF DictShares
<1>2. Shares(Discard(h, b[s], Empty), PutIn(b, s, 0), PutIn(m, s, z), DictRefs, Spots, GoodDicts)
  BY <1>1, DictSetting, PutDown
<1>3. dict_discard(h, b[s]) = Discard(h, b[s], Empty)
  BY Zenon DEF dict_discard, Discard
<1> QED BY <1>2, <1>3 DEF DictShares

LEMMA TakesUp ==
    ASSUME NEW h, NEW b, NEW m, DictShares(h, b, m), NEW s \in Spots, NEW t \in Spots,
           s # t, b[t] = 0
    PROVE  DictShares(dict_dup(h, b[s]), PutIn(b, t, b[s]), PutIn(m, t, m[s]))
<1> HIDE DEF DictRefs, Spots, GoodDicts, Empty
<1>1. Shares(h, b, m, DictRefs, Spots, GoodDicts)
  BY Zenon DEF DictShares
<1>2. Shares(Dup(h, b[s]), PutIn(b, t, b[s]), PutIn(m, t, m[s]), DictRefs, Spots, GoodDicts)
  BY <1>1, DictSetting, PickUp
<1>3. dict_dup(h, b[s]) = Dup(h, b[s])
  BY Zenon DEF dict_dup, Dup
<1> QED BY <1>2, <1>3 DEF DictShares

LEMMA Stores ==
    ASSUME NEW h, NEW b, NEW m, DictShares(h, b, m), NEW t \in Spots, b[t] = 0,
           NEW n \in DictRefs, h[n] = Empty, NEW d, NEW v, Good(d, v), d.refs = 1
    PROVE  DictShares(PutIn(h, n, d), PutIn(b, t, n), PutIn(m, t, v))
<1>1. h[n].refs = 0
  BY DEF Empty
<1> HIDE DEF DictRefs, Spots, GoodDicts, Empty
<1>2. Shares(h, b, m, DictRefs, Spots, GoodDicts)
  BY Zenon DEF DictShares
<1>3. <<d, v>> \in GoodDicts
  BY GoodIn
<1>4. Shares(PutIn(h, n, d), PutIn(b, t, n), PutIn(m, t, v), DictRefs, Spots, GoodDicts)
  BY <1>1, <1>2, <1>3, DictSetting, StoreNew
<1> QED BY <1>4 DEF DictShares

(* prepare_dict, with the new dictionary written to the address it gives.     *)
Rewritten(p, d) == PutIn(p.heap, p.ref, d)
Ready(p) == p = [heap |-> p.heap, ref |-> p.ref]
Solely(h, b, m, p) == Ready(p) /\ Good(p.heap[p.ref], m["top"]) /\ p.heap[p.ref].refs = 1

LEMMA PreparedIs ==
    ASSUME NEW h, NEW b, NEW m, DictShares(h, b, m), b["top"] # 0, Vacant(h) # {},
           NEW p, p = prepare_dict(h, b["top"])
    PROVE  /\ Solely(h, b, m, p)
           /\ \A d, v : Good(d, v) /\ d.refs = 1 =>
                DictShares(Rewritten(p, d), PutIn(b, "top", p.ref), PutIn(m, "top", v))
<1> PICK r : r = b["top"]
  OBVIOUS
<1> PICK n : n = Stored(h)
  OBVIOUS
<1>1. "top" \in Spots
  BY DEF Spots
<1>2. n \in DictRefs /\ h[n] = Empty /\ h[n].refs = 0
  BY StoredIs DEF Empty
<1>3. /\ DOMAIN h = DictRefs /\ b \in [Spots -> DictRefs \cup {0}]
      /\ b["top"] # 0 => b["top"] \in DictRefs /\ Good(h[b["top"]], m["top"]) /\ h[b["top"]].refs # 0
  BY <1>1, DictFacts
<1>4. r \in DictRefs /\ Good(h[r], m["top"]) /\ r # n /\ h[r].refs \in Nat \ {0}
  BY <1>2, <1>3, DictFields DEF Good
<1> HIDE DEF DictRefs, Spots, GoodDicts, Empty
<1>5. Shares(h, b, m, DictRefs, Spots, GoodDicts)
  BY Zenon DEF DictShares
<1>6. CASE h[r].refs = 1
  <2>1. p.heap = h /\ p.ref = r /\ Ready(p)
    BY <1>6 DEF prepare_dict, Ready
  <2>2. Solely(h, b, m, p)
    BY <1>4, <1>6, <2>1 DEF Solely
  <2>3. PutIn(b, "top", r) = b
    <3>1. PutIn(b, "top", r) \in [Spots -> DictRefs \cup {0}]
          /\ \A s \in Spots : PutIn(b, "top", r)[s] = b[s]
      BY <1>1, <1>3, <1>4 DEF PutIn
    <3> QED BY <1>3, <3>1
  <2>4. ASSUME NEW d, NEW v, Good(d, v), d.refs = 1
        PROVE  DictShares(Rewritten(p, d), PutIn(b, "top", p.ref), PutIn(m, "top", v))
    <3>1. <<d, v>> \in GoodDicts
      BY <2>4, GoodIn
    <3>2. Shares(PutIn(h, b["top"], d), b, PutIn(m, "top", v), DictRefs, Spots, GoodDicts)
      BY <1>1, <1>5, <1>6, <2>4, <3>1, DictSetting, Alter
    <3>3. Rewritten(p, d) = PutIn(h, b["top"], d)
      BY <2>1 DEF Rewritten
    <3> QED BY <2>1, <2>3, <3>2, <3>3 DEF DictShares
  <2> QED BY <2>2, <2>4
<1>7. CASE h[r].refs # 1
  <2>1. /\ p.heap = [[h EXCEPT ![r].refs = @ - 1] EXCEPT ![n] = [h[r] EXCEPT !.refs = 1]]
        /\ p.ref = n /\ Ready(p)
    BY <1>4, <1>7 DEF prepare_dict, Ready
  <2> PICK x : x = [h[r] EXCEPT !.refs = 1]
    OBVIOUS
  <2>2. p.heap = PutIn(Discard(h, r, Empty), n, x)
    BY <1>3, <1>4, <1>7, <2>1 DEF PutIn, Discard
  <2>3. p.heap[p.ref] = x
    BY <1>2, <1>3, <2>1
  <2>4. Good(x, m["top"]) /\ x.refs = 1
    <3>1. <<h[r], m["top"]>> \in GoodDicts
      BY <1>4, GoodIn
    <3>2. \A y \in GoodDicts : <<Recount(y[1], 1), y[2]>> \in GoodDicts /\ Recount(y[1], 1).refs = 1
      BY DictSetting, Zenon DEF Setting, Meaningful
    <3> PICK y : y = <<h[r], m["top"]>>
      OBVIOUS
    <3>3. y \in GoodDicts /\ y[1] = h[r] /\ y[2] = m["top"]
      BY <3>1
    <3>4. x = Recount(y[1], 1)
      BY <3>3 DEF Recount
    <3>5. <<x, m["top"]>> \in GoodDicts /\ x.refs = 1
      BY <3>2, <3>3, <3>4
    <3> QED BY <3>5, GoodIn
  <2>5. Solely(h, b, m, p)
    BY <2>1, <2>3, <2>4 DEF Solely
  <2>6. ASSUME NEW d, NEW v, Good(d, v), d.refs = 1
        PROVE  DictShares(Rewritten(p, d), PutIn(b, "top", p.ref), PutIn(m, "top", v))
    <3>1. <<d, v>> \in GoodDicts
      BY <2>6, GoodIn
    <3>2. Shares(PutIn(Discard(h, b["top"], Empty), n, d), PutIn(b, "top", n), PutIn(m, "top", v),
                 DictRefs, Spots, GoodDicts)
      BY <1>1, <1>2, <1>5, <1>7, <2>6, <3>1, DictSetting, Part
    <3>3. Rewritten(p, d) = PutIn(Discard(h, b["top"], Empty), n, d)
      BY <2>1, <2>2, PutTwice DEF Rewritten
    <3> QED BY <2>1, <3>2, <3>3 DEF DictShares
  <2> QED BY <2>5, <2>6
<1> QED BY <1>6, <1>7

AddedTo(p, k, v) == [p EXCEPT !.heap[p.ref] = Added(@, k, v)]
RemovedFrom(p, k) == [p EXCEPT !.heap[p.ref] = Removed(@, k)]

LEMMA Writes ==
    ASSUME NEW p, Ready(p), NEW k, NEW v
    PROVE  /\ AddedTo(p, k, v).heap = Rewritten(p, Added(p.heap[p.ref], k, v))
           /\ RemovedFrom(p, k).heap = Rewritten(p, Removed(p.heap[p.ref], k))
           /\ AddedTo(p, k, v).ref = p.ref /\ RemovedFrom(p, k).ref = p.ref
BY DEF Ready, AddedTo, RemovedFrom, Rewritten, PutIn

LEMMA Adds ==
    ASSUME NEW h, NEW b, NEW m, DictShares(h, b, m), b["top"] # 0, Vacant(h) # {},
           NEW k \in Keys, NEW v \in Entries, NEW q, q = dict_add(h, b["top"], k, v)
    PROVE  DictShares(q.heap, PutIn(b, "top", q.ref), PutIn(m, "top", With(m["top"], k, v)))
<1> PICK p : p = prepare_dict(h, b["top"])
  OBVIOUS
<1>1. /\ Solely(h, b, m, p)
      /\ \A d, w : Good(d, w) /\ d.refs = 1 =>
            DictShares(Rewritten(p, d), PutIn(b, "top", p.ref), PutIn(m, "top", w))
  BY PreparedIs
<1>2. Ready(p) /\ Good(p.heap[p.ref], m["top"]) /\ p.heap[p.ref].refs = 1
  BY <1>1, Zenon DEF Solely
<1>3. q = AddedTo(p, k, v)
  BY Zenon DEF dict_add, AddedTo
<1> PICK d : d = Added(p.heap[p.ref], k, v)
  OBVIOUS
<1>4. q.heap = Rewritten(p, d) /\ q.ref = p.ref
  BY <1>2, <1>3, Writes
<1>5. Good(d, With(m["top"], k, v)) /\ d.refs = 1
  BY <1>2, AddedGood
<1>6. DictShares(Rewritten(p, d), PutIn(b, "top", p.ref), PutIn(m, "top", With(m["top"], k, v)))
  BY <1>1, <1>5, Zenon
<1> QED BY <1>4, <1>6

LEMMA Deletes ==
    ASSUME NEW h, NEW b, NEW m, DictShares(h, b, m), b["top"] # 0, Vacant(h) # {},
           NEW k \in Keys, k \in DOMAIN m["top"], NEW q, q = dict_del(h, b["top"], k)
    PROVE  DictShares(q.heap, PutIn(b, "top", q.ref), PutIn(m, "top", Without(m["top"], k)))
<1> PICK p : p = prepare_dict(h, b["top"])
  OBVIOUS
<1>1. /\ Solely(h, b, m, p)
      /\ \A d, w : Good(d, w) /\ d.refs = 1 =>
            DictShares(Rewritten(p, d), PutIn(b, "top", p.ref), PutIn(m, "top", w))
  BY PreparedIs
<1>2. Ready(p) /\ Good(p.heap[p.ref], m["top"]) /\ p.heap[p.ref].refs = 1
  BY <1>1, Zenon DEF Solely
<1>3. q = RemovedFrom(p, k)
  BY Zenon DEF dict_del, RemovedFrom
<1> PICK d : d = Removed(p.heap[p.ref], k)
  OBVIOUS
<1>4. q.heap = Rewritten(p, d) /\ q.ref = p.ref
  BY <1>2, <1>3, Writes
<1>5. dict_contains(p.heap[p.ref], k)
  BY <1>2, FindsAgrees
<1>6. Good(d, Without(m["top"], k)) /\ d.refs = 1
  BY <1>2, <1>5, RemovedGood
<1>7. DictShares(Rewritten(p, d), PutIn(b, "top", p.ref), PutIn(m, "top", Without(m["top"], k)))
  BY <1>1, <1>6, Zenon
<1> QED BY <1>4, <1>7

(* What an operator leaves to work on once the variable that is about to be  *)
(* assigned was zeroed.                                                      *)
Zeroing(w, h, b, m) ==
    h = GivenUp(w) /\ b = Emptied(boxes, w, 0) /\ m = Emptied(maps, w, NoMap)

LEMMA Clears ==
    ASSUME DictInv, NEW w \in DictTargets, NEW h, NEW b, NEW m, Zeroing(w, h, b, m)
    PROVE  /\ DictShares(h, b, m) /\ b["top"] = boxes["top"] /\ m["top"] = maps["top"]
           /\ Vacant(dicts) # {} => Vacant(h) # {}
<1>1. DictShares(dicts, boxes, maps)
  BY Zenon DEF DictInv
<1>2. "top" \in Spots /\ DictVars \subseteq Spots /\ "top" \notin DictVars /\ "none" \notin Spots
      /\ "top" # "none"
  BY DictsAssumption DEF Spots
<1>3. h = GivenUp(w) /\ b = Emptied(boxes, w, 0) /\ m = Emptied(maps, w, NoMap)
  BY Zenon DEF Zeroing
<1>4. boxes \in [Spots -> DictRefs \cup {0}]
  BY <1>1, <1>2, DictFacts
<1>5. CASE w \in DictVars
  <2>1. /\ DOMAIN dicts = DictRefs /\ DOMAIN maps = Spots /\ 0 \notin DictRefs
        /\ boxes[w] # 0 => boxes[w] \in DictRefs /\ dicts[boxes[w]].refs # 0
    BY <1>1, <1>2, <1>5, DictFacts
  <2>2. h = dict_discard(dicts, boxes[w])
    BY <1>3, <1>5 DEF GivenUp
  <2>3. b = PutIn(boxes, w, 0) /\ m = [s \in Spots |-> IF s = w THEN NoMap ELSE maps[s]]
    BY <1>2, <1>3, <1>4, <1>5 DEF Emptied, PutIn
  <2>4. PutIn(maps, w, NoMap) = m
    BY <1>2, <1>5, <2>1, <2>3 DEF PutIn
  <2>5. DictShares(dict_discard(dicts, boxes[w]), PutIn(boxes, w, 0), PutIn(maps, w, NoMap))
    BY <1>1, <1>2, <1>5, GivesUp
  <2>6. DictShares(h, b, m)
    BY <2>2, <2>3, <2>4, <2>5
  <2>7. ASSUME NEW n \in Vacant(dicts) PROVE n \in Vacant(h)
    <3>1. n \in DictRefs /\ dicts[n] = Empty /\ dicts[n].refs = 0
      BY DEF Vacant, Empty
    <3>2. n # boxes[w]
      BY <2>1, <3>1
    <3>3. h[n] = dicts[n]
      BY <2>1, <2>2, <3>1, <3>2 DEF dict_discard
    <3> QED BY <3>1, <3>3 DEF Vacant
  <2>8. b["top"] = boxes["top"] /\ m["top"] = maps["top"]
    BY <1>2, <1>3, <1>5 DEF Emptied
  <2> QED BY <2>6, <2>7, <2>8
<1>6. CASE w \notin DictVars
  <2>1. w = "none" /\ h = dicts
    BY <1>3, <1>6 DEF DictTargets, GivenUp
  <2>2. b = boxes /\ b["top"] = boxes["top"] /\ m["top"] = maps["top"]
    BY <1>2, <1>3, <1>4, <2>1 DEF Emptied
  <2>3. Placed(boxes, DictRefs, Spots) /\ Counted(dicts, boxes, DictRefs)
        /\ Stands(dicts, boxes, maps, Spots, GoodDicts)
    BY <1>1, Zenon DEF DictShares, Shares
  <2>4. DOMAIN m = Spots /\ \A s \in Spots : m[s] = maps[s]
    BY <1>2, <1>3, <2>1 DEF Emptied
  <2>5. Stands(dicts, boxes, m, Spots, GoodDicts)
    BY <2>3, <2>4 DEF Stands
  <2>6. DictShares(h, b, m)
    BY <2>1, <2>2, <2>3, <2>5, Zenon DEF DictShares, Shares
  <2> QED BY <2>1, <2>2, <2>6
<1> QED BY <1>5, <1>6

Resulting(q, b, m, v) ==
    dicts' = q.heap /\ boxes' = PutIn(b, "top", q.ref) /\ maps' = PutIn(m, "top", v)

LEMMA AddKeeps ==
    ASSUME DictInv, NEW w \in DictTargets, OpDictAdd(w)
    PROVE  DictInv'
<1> PICK h, b, m : Zeroing(w, h, b, m)
  BY DEF Zeroing
<1>1. DictShares(h, b, m) /\ b["top"] = boxes["top"] /\ m["top"] = maps["top"] /\ Vacant(h) # {}
  BY Clears DEF OpDictAdd
<1>2. b["top"] # 0
  BY <1>1 DEF OpDictAdd, HasDict
<1>3. PICK k \in Keys, v \in Entries :
        Replace(w, dict_add(GivenUp(w), boxes["top"], k, v), With(maps["top"], k, v))
  BY Zenon DEF OpDictAdd, With
<1> PICK q : q = dict_add(h, b["top"], k, v)
  OBVIOUS
<1>4. q = dict_add(GivenUp(w), boxes["top"], k, v)
  BY <1>1 DEF Zeroing
<1>5. Resulting(q, b, m, With(m["top"], k, v))
  BY <1>1, <1>3, <1>4 DEF Replace, Resulting, PutIn, Zeroing
<1>6. DictShares(q.heap, PutIn(b, "top", q.ref), PutIn(m, "top", With(m["top"], k, v)))
  BY <1>1, <1>2, Adds
<1> QED BY <1>5, <1>6 DEF Resulting, DictInv

LEMMA DelKeeps ==
    ASSUME DictInv, NEW w \in DictTargets, OpDictDel(w)
    PROVE  DictInv'
<1> PICK h, b, m : Zeroing(w, h, b, m)
  BY DEF Zeroing
<1>1. DictShares(h, b, m) /\ b["top"] = boxes["top"] /\ m["top"] = maps["top"] /\ Vacant(h) # {}
  BY Clears DEF OpDictDel
<1>2. b["top"] # 0
  BY <1>1 DEF OpDictDel, HasDict
<1>3. PICK k \in Keys :
        /\ dict_contains(TopDict, k)
        /\ Replace(w, dict_del(GivenUp(w), boxes["top"], k), Without(maps["top"], k))
  BY Zenon DEF OpDictDel, Without
<1> PICK q : q = dict_del(h, b["top"], k)
  OBVIOUS
<1>4. q = dict_del(GivenUp(w), boxes["top"], k)
  BY <1>1 DEF Zeroing
<1>5. Resulting(q, b, m, Without(m["top"], k))
  BY <1>1, <1>3, <1>4 DEF Replace, Resulting, PutIn, Zeroing
<1>6. k \in DOMAIN m["top"]
  <2>1. "top" \in Spots /\ DictShares(dicts, boxes, maps)
    BY DEF Spots, DictInv
  <2>2. Good(dicts[boxes["top"]], maps["top"])
    BY <1>1, <1>2, <2>1, DictFacts
  <2>3. dict_contains(dicts[boxes["top"]], k)
    BY <1>3 DEF TopDict
  <2> QED BY <1>1, <2>2, <2>3, FindsAgrees
<1>7. DictShares(q.heap, PutIn(b, "top", q.ref), PutIn(m, "top", Without(m["top"], k)))
  BY <1>1, <1>2, <1>6, Deletes
<1> QED BY <1>5, <1>7 DEF Resulting, DictInv

LEMMA NewKeeps ==
    ASSUME DictInv, OpDict
    PROVE  DictInv'
<1>1. DictShares(dicts, boxes, maps) /\ "top" \in Spots
  BY DEF Spots, DictInv
<1>2. boxes["top"] = 0 /\ Vacant(dicts) # {}
  BY DEF OpDict, HasDict
<1>3. PICK n \in 0 .. 2 : \E pairs \in [1 .. n -> Keys \X Entries] :
        /\ dicts' = [dicts EXCEPT ![Stored(dicts)] =
                        dict_new([i \in 1 .. n |-> pairs[i][1]], [i \in 1 .. n |-> pairs[i][2]])]
        /\ boxes' = [boxes EXCEPT !["top"] = Stored(dicts)]
        /\ maps' = [maps EXCEPT !["top"] = Mapping(pairs)]
  BY Zenon DEF OpDict
<1>8. PICK pairs \in [1 .. n -> Keys \X Entries] :
        /\ dicts' = [dicts EXCEPT ![Stored(dicts)] =
                        dict_new([i \in 1 .. n |-> pairs[i][1]], [i \in 1 .. n |-> pairs[i][2]])]
        /\ boxes' = [boxes EXCEPT !["top"] = Stored(dicts)]
        /\ maps' = [maps EXCEPT !["top"] = Mapping(pairs)]
  BY <1>3, Zenon
<1> PICK d : d = dict_new([i \in 1 .. n |-> pairs[i][1]], [i \in 1 .. n |-> pairs[i][2]])
  OBVIOUS
<1> PICK a : a = Stored(dicts)
  OBVIOUS
<1> PICK v : v = Mapping(pairs)
  OBVIOUS
<1>4. Good(d, v) /\ d.refs = 1
  BY NewGood
<1>5. a \in DictRefs /\ dicts[a] = Empty
  BY <1>2, StoredIs
<1>6. DictShares(PutIn(dicts, a, d), PutIn(boxes, "top", a), PutIn(maps, "top", v))
  BY <1>1, <1>2, <1>4, <1>5, Stores
<1>7. dicts' = PutIn(dicts, a, d) /\ boxes' = PutIn(boxes, "top", a) /\ maps' = PutIn(maps, "top", v)
  BY <1>8, Zenon DEF PutIn
<1> QED BY <1>6, <1>7 DEF DictInv

LEMMA MoveKeeps ==
    ASSUME DictInv, GetDict \/ SetDict \/ PopDict
    PROVE  DictInv'
<1>1. DictShares(dicts, boxes, maps) /\ "top" \in Spots /\ DictVars \subseteq Spots /\ "top" \notin DictVars
  BY DictsAssumption DEF Spots, DictInv
<1>2. CASE GetDict
  <2>1. PICK v \in DictVars :
            /\ dicts' = dict_dup(dicts, boxes[v])
            /\ boxes' = [boxes EXCEPT !["top"] = boxes[v]]
            /\ maps' = [maps EXCEPT !["top"] = maps[v]]
    BY <1>2, Zenon DEF GetDict
  <2>2. boxes["top"] = 0 /\ v \in Spots /\ v # "top"
    BY <1>1, <1>2 DEF GetDict, HasDict
  <2>3. DictShares(dict_dup(dicts, boxes[v]), PutIn(boxes, "top", boxes[v]), PutIn(maps, "top", maps[v]))
    BY <1>1, <2>2, TakesUp
  <2>4. boxes' = PutIn(boxes, "top", boxes[v]) /\ maps' = PutIn(maps, "top", maps[v])
    BY <2>1, Zenon DEF PutIn
  <2> QED BY <2>1, <2>3, <2>4 DEF DictInv
<1>3. CASE SetDict
  <2>1. PICK v \in DictVars :
            /\ dicts' = dict_dup(dict_discard(dicts, boxes[v]), boxes["top"])
            /\ boxes' = [boxes EXCEPT ![v] = boxes["top"]]
            /\ maps' = [maps EXCEPT ![v] = maps["top"]]
    BY <1>3, Zenon DEF SetDict
  <2> PICK h : h = dict_discard(dicts, boxes[v])
    OBVIOUS
  <2> PICK b : b = PutIn(boxes, v, 0)
    OBVIOUS
  <2> PICK m : m = PutIn(maps, v, NoMap)
    OBVIOUS
  <2>2. v \in Spots /\ v # "top"
    BY <1>1
  <2>3. DictShares(h, b, m)
    BY <1>1, <2>2, GivesUp
  <2>4. boxes \in [Spots -> DictRefs \cup {0}] /\ DOMAIN maps = Spots
    BY <1>1, DictFacts
  <2>5. b["top"] = boxes["top"] /\ m["top"] = maps["top"] /\ b[v] = 0
    BY <1>1, <2>2, <2>4 DEF PutIn
  <2>6. DictShares(dict_dup(h, b["top"]), PutIn(b, v, b["top"]), PutIn(m, v, m["top"]))
    BY <1>1, <2>2, <2>3, <2>5, TakesUp
  <2>7. PutIn(b, v, b["top"]) = PutIn(boxes, v, boxes["top"])
        /\ PutIn(m, v, m["top"]) = PutIn(maps, v, maps["top"])
    BY <2>5, PutTwice
  <2>8. dicts' = dict_dup(h, b["top"]) /\ boxes' = PutIn(boxes, v, boxes["top"])
        /\ maps' = PutIn(maps, v, maps["top"])
    BY <2>1, <2>5 DEF PutIn
  <2> QED BY <2>6, <2>7, <2>8 DEF DictInv
<1>4. CASE PopDict
  <2>1. DictShares(dict_discard(dicts, boxes["top"]), PutIn(boxes, "top", 0), PutIn(maps, "top", NoMap))
    BY <1>1, GivesUp
  <2>2. dicts' = dict_discard(dicts, boxes["top"]) /\ boxes' = PutIn(boxes, "top", 0)
        /\ maps' = PutIn(maps, "top", NoMap)
    BY <1>4, Zenon DEF PopDict, PutIn
  <2> QED BY <2>1, <2>2 DEF DictInv
<1> QED BY <1>2, <1>3, <1>4

LEMMA DictInvInit ==
    ASSUME DictInit
    PROVE  DictInv
<1> HIDE DEF DictRefs, Spots, GoodDicts, Empty, NoMap
<1>1. Shares([r \in DictRefs |-> Empty], [s \in Spots |-> 0], [s \in Spots |-> NoMap],
             DictRefs, Spots, GoodDicts)
  BY DictSetting, SharesNothing
<1> QED BY <1>1 DEF DictInit, DictInv, DictShares

LEMMA DictInvNext ==
    ASSUME DictInv, [DictNext]_dictVars
    PROVE  DictInv'
<1>1. CASE UNCHANGED dictVars
  BY <1>1 DEF dictVars, DictInv, DictShares, Shares, Placed, Counted, Stands, Count, Holding
<1>2. CASE DictNext
  <2>1. CASE \E w \in DictTargets : OpDictAdd(w) \/ OpDictDel(w)
    BY <2>1, AddKeeps, DelKeeps
  <2> QED BY <1>2, <2>1, NewKeeps, MoveKeeps DEF DictNext
<1> QED BY <1>1, <1>2

LEMMA DictInvAgrees ==
    ASSUME DictInv
    PROVE  DictsAgree
<1>1. DictShares(dicts, boxes, maps)
  BY Zenon DEF DictInv
<1>2. ASSUME NEW s \in Spots, boxes[s] # 0, NEW k \in Keys
      PROVE  /\ dict_contains(dicts[boxes[s]], k) <=> k \in DOMAIN maps[s]
             /\ k \in DOMAIN maps[s] => dict_find(dicts[boxes[s]], k) = maps[s][k]
  BY <1>1, <1>2, DictFacts, FindsAgrees
<1>3. ASSUME NEW r \in DictRefs PROVE dicts[r].refs = Cardinality({s \in Spots : boxes[s] = r})
  <2>1. dicts[r].refs = Count(boxes, r)
    BY <1>1, Zenon DEF DictShares, Shares, Counted
  <2>2. DOMAIN boxes = Spots
    BY <1>1 DEF DictShares, Shares, Placed
  <2> QED BY <2>1, <2>2 DEF Count, Holding
<1> QED BY <1>2, <1>3 DEF DictsAgree

(* Every variable's dictionary finds exactly the keys, with the values, that *)
(* were last given to it there, whatever dictionary it shares with others,   *)
(* and whatever collides in the hash table, was moved by dict_del or put     *)
(* into a larger table; and the references of each are counted.              *)
THEOREM DictionariesAgree ==
    DictSpec => []DictsAgree
<1>1. DictInit => DictInv
  BY DictInvInit
<1>2. DictInv /\ [DictNext]_dictVars => DictInv'
  BY DictInvNext
<1>3. DictInv => DictsAgree
  BY DictInvAgrees
<1> QED BY <1>1, <1>2, <1>3, PTL DEF DictSpec

-----------------------------------------------------------------------------
(* Buffers are counted values too: what one means is its octets.             *)
BufferRecords == [refs : Nat, len : Nat, s : Seq(Nat)]
GoodBuffer(buf, o) ==
    /\ o \in Seq(Nat)
    /\ buf \in BufferRecords /\ buf.len = Len(o) /\ buf.s = o
GoodBuffers == {x \in BufferRecords \X Seq(Nat) : GoodBuffer(x[1], x[2])}
BufferShares(h, b, m) == Shares(h, b, m, BufferRefs, Holders, GoodBuffers)
BufferInv == BufferShares(buffers, holders, octets)

LEMMA GoodBufferIn ==
    ASSUME NEW buf, NEW o
    PROVE  <<buf, o>> \in GoodBuffers <=> GoodBuffer(buf, o)
BY DEF GoodBuffers, GoodBuffer

LEMMA BufferIs ==
    ASSUME NEW buf, NEW o, GoodBuffer(buf, o)
    PROVE  /\ o \in Seq(Nat) /\ Len(o) \in Nat /\ buf = [refs |-> buf.refs, len |-> Len(o), s |-> o]
           /\ buf.refs \in Nat /\ buf.s = o /\ buf.len = Len(o)
           /\ Contents(buf) = o
<1>1. o \in Seq(Nat) /\ buf \in BufferRecords /\ buf.len = Len(o) /\ buf.s = o
  BY DEF GoodBuffer
<1>2. buf = [refs |-> buf.refs, len |-> Len(o), s |-> o]
  BY <1>1 DEF BufferRecords
<1>3. SubSeq(o, 1, Len(o)) = o
  BY <1>1
<1> QED BY <1>1, <1>2, <1>3 DEF Contents, BufferRecords

LEMMA NewBufferIs ==
    ASSUME NEW o \in Seq(Nat)
    PROVE  GoodBuffer(buffer_new(o), o) /\ buffer_new(o).refs = 1
BY DEF GoodBuffer, buffer_new, BufferRecords

LEMMA BufferSetting ==
    Setting(BufferRefs, Holders, GoodBuffers, NoBuffer)
<1>1. IsFiniteSet(Holders)
  <2>1. IsFiniteSet(BufferVars)
    BY BuffersAssumption
  <2>2. IsFiniteSet(BufferVars \cup {"top"})
    BY <2>1, FS_AddElement
  <2> QED BY <2>2 DEF Holders
<1>2. 0 \notin BufferRefs
  BY BuffersAssumption DEF BufferRefs
<1>3. NoBuffer.refs = 0
  BY DEF NoBuffer
<1>4. ASSUME NEW x \in GoodBuffers, NEW k \in Nat
      PROVE  <<Recount(x[1], k), x[2]>> \in GoodBuffers /\ Recount(x[1], k).refs = k
  <2> PICK d \in BufferRecords, m \in Seq(Nat) : x = <<d, m>> /\ GoodBuffer(d, m)
    BY DEF GoodBuffers
  <2>1. GoodBuffer(Recount(d, k), m) /\ Recount(d, k).refs = k
    BY DEF GoodBuffer, Recount, BufferRecords
  <2>2. <<Recount(d, k), m>> \in GoodBuffers
    BY <2>1, GoodBufferIn
  <2>3. x[1] = d /\ x[2] = m
    OBVIOUS
  <2> QED BY <2>1, <2>2, <2>3
<1> HIDE DEF GoodBuffers, BufferRefs, Holders, NoBuffer
<1>5. Meaningful(GoodBuffers)
  BY <1>4 DEF Meaningful
<1> QED BY <1>1, <1>2, <1>3, <1>5, Zenon DEF Setting

LEMMA NextBufferIs ==
    ASSUME NEW h, NEW n \in BufferRefs, h[n] = NoBuffer
    PROVE  NextBuffer(h) \in BufferRefs /\ h[NextBuffer(h)] = NoBuffer /\ h[NextBuffer(h)].refs = 0
<1> PICK V : V = {r \in BufferRefs : h[r] = NoBuffer}
  OBVIOUS
<1>1. V \in SUBSET Nat /\ V # {}
  BY BuffersAssumption DEF BufferRefs
<1>2. \E x \in V : \A y \in V : x <= y
  BY <1>1, MinOfNaturals
<1>3. Min(V) \in V
  BY <1>2 DEF Min
<1>4. NextBuffer(h) \in V
  BY <1>3 DEF NextBuffer
<1> QED BY <1>4 DEF NoBuffer

(* What a preparing function has to return: a buffer that nobody else refers *)
(* to, and that may be written.                                              *)
BufferReady(S, h, b, m, p) ==
    /\ p = [heap |-> p.heap, ref |-> p.ref] /\ p.ref \in DOMAIN p.heap
    /\ p.heap[p.ref] = buffer_new(m["top"])
    /\ \A o \in Seq(Nat) :
        Shares(PutIn(p.heap, p.ref, buffer_new(o)), PutIn(b, "top", p.ref), PutIn(m, "top", o),
               BufferRefs, S, GoodBuffers)

LEMMA BufferPrepared ==
    ASSUME NEW S, Setting(BufferRefs, S, GoodBuffers, NoBuffer), "top" \in S,
           NEW h, NEW b, NEW m, Shares(h, b, m, BufferRefs, S, GoodBuffers), b["top"] # 0,
           NEW n, n = NextBuffer(h), n \in BufferRefs, h[n].refs = 0,
           NEW p, p = prepare_buffer(h, b["top"])
    PROVE  BufferReady(S, h, b, m, p)
<1> HIDE DEF GoodBuffers, BufferRefs, NoBuffer
<1> PICK r : r = b["top"]
  OBVIOUS
<1> PICK t : t = "top"
  OBVIOUS
<1>1. /\ DOMAIN h = BufferRefs /\ DOMAIN b = S /\ DOMAIN m = S /\ 0 \notin BufferRefs
      /\ \A q \in BufferRefs : h[q].refs = Count(b, q) /\ Count(b, q) \in Nat
      /\ b[t] \in BufferRefs \cup {0}
      /\ b[t] # 0 => <<h[b[t]], m[t]>> \in GoodBuffers /\ Count(b, b[t]) # 0
  BY ShareFacts
<1>2. b \in [S -> BufferRefs \cup {0}]
  BY Zenon DEF Shares, Placed
<1>3. r \in BufferRefs /\ GoodBuffer(h[r], m[t]) /\ h[r].refs \in Nat \ {0} /\ r # n
  BY <1>1, GoodBufferIn
<1> PICK o : o = m[t]
  OBVIOUS
<1>4. o \in Seq(Nat) /\ h[r] = [refs |-> h[r].refs, len |-> Len(o), s |-> o] /\ Contents(h[r]) = o
  BY <1>3, BufferIs
<1>5. ASSUME NEW c \in Seq(Nat) PROVE <<buffer_new(c), c>> \in GoodBuffers /\ buffer_new(c).refs = 1
  BY NewBufferIs, GoodBufferIn
<1>6. CASE h[r].refs = 1
  <2>1. p = [heap |-> h, ref |-> r]
    BY <1>6 DEF prepare_buffer
  <2>2. h[r] = buffer_new(o)
    BY <1>4, <1>6 DEF buffer_new
  <2>3. PutIn(b, t, r) = b
    <3>1. PutIn(b, t, r) \in [S -> BufferRefs \cup {0}] /\ \A s \in S : PutIn(b, t, r)[s] = b[s]
      BY <1>2, <1>3 DEF PutIn
    <3> QED BY <1>2, <3>1
  <2>4. ASSUME NEW c \in Seq(Nat)
        PROVE  Shares(PutIn(h, r, buffer_new(c)), PutIn(b, t, r), PutIn(m, t, c),
                      BufferRefs, S, GoodBuffers)
    <3>1. Shares(PutIn(h, b[t], buffer_new(c)), b, PutIn(m, t, c), BufferRefs, S, GoodBuffers)
      BY <1>5, <1>6, Alter
    <3> QED BY <2>3, <3>1
  <2> QED BY <1>1, <1>3, <2>1, <2>2, <2>4 DEF BufferReady
<1>7. CASE h[r].refs # 1
  <2>1. p = [ref |-> n, heap |-> [[h EXCEPT ![r].refs = @ - 1] EXCEPT ![n] = buffer_new(o)]]
    BY <1>3, <1>4, <1>7 DEF prepare_buffer, Split
  <2> PICK g : g = [[h EXCEPT ![r].refs = @ - 1] EXCEPT ![n] = buffer_new(o)]
    OBVIOUS
  <2>2. DOMAIN g = BufferRefs /\ g[n] = buffer_new(o) /\ g = PutIn(Discard(h, r, NoBuffer), n, buffer_new(o))
    BY <1>1, <1>3, <1>7 DEF PutIn, Discard
  <2>3. ASSUME NEW c \in Seq(Nat)
        PROVE  Shares(PutIn(g, n, buffer_new(c)), PutIn(b, t, n), PutIn(m, t, c),
                      BufferRefs, S, GoodBuffers)
    <3>1. Shares(PutIn(Discard(h, b[t], NoBuffer), n, buffer_new(c)), PutIn(b, t, n), PutIn(m, t, c),
                 BufferRefs, S, GoodBuffers)
      BY <1>5, <1>7, Part
    <3> PICK f : f = Discard(h, b[t], NoBuffer)
      OBVIOUS
    <3>3. PutIn(PutIn(f, n, buffer_new(o)), n, buffer_new(c)) = PutIn(f, n, buffer_new(c))
      BY PutTwice
    <3>2. PutIn(g, n, buffer_new(c)) = PutIn(f, n, buffer_new(c))
      BY <2>2, <3>3, Zenon
    <3> QED BY <3>1, <3>2
  <2>4. p.heap = g /\ p.ref = n /\ p = [heap |-> p.heap, ref |-> p.ref]
    BY <2>1
  <2>5. p.ref \in DOMAIN p.heap /\ p.heap[p.ref] = buffer_new(m["top"])
    BY <2>2, <2>4
  <2>6. \A c \in Seq(Nat) :
            Shares(PutIn(p.heap, p.ref, buffer_new(c)), PutIn(b, "top", p.ref), PutIn(m, "top", c),
                   BufferRefs, S, GoodBuffers)
    BY <2>3, <2>4
  <2> QED BY <2>4, <2>5, <2>6, Zenon DEF BufferReady
<1> QED BY <1>6, <1>7

BufferDone(S, b, m, q, o) ==
    Shares(q.heap, PutIn(b, "top", q.ref), PutIn(m, "top", o), BufferRefs, S, GoodBuffers)
Octets1(len, s) == [refs |-> 1, len |-> len, s |-> s]
With1(f, n) == [heap |-> f, ref |-> n]
BufferAt(p, f, n, len, s) == p = With1(f, n) /\ n \in DOMAIN f /\ f[n] = Octets1(len, s)
WriteOctet(p, i, c) == [p EXCEPT !.heap[p.ref].s[i] = c]
WriteBuffer(p, s, len) == [p EXCEPT !.heap[p.ref].s = s, !.heap[p.ref].len = len]

(* Two fields of one buffer in a heap.                                       *)
LEMMA BothPut ==
  ASSUME NEW p, NEW f, NEW n, NEW k, NEW x, BufferAt(p, f, n, k, x), NEW y, NEW z
  PROVE  WriteBuffer(p, y, z) = With1(PutIn(f, n, Octets1(z, y)), n)
<1>a. p = [heap |-> f, ref |-> n] /\ n \in DOMAIN f /\ f[n] = [refs |-> 1, len |-> k, s |-> x]
  BY DEF BufferAt, With1, Octets1
<1> USE <1>a
<1> USE DEF With1, Octets1
<1>0. [p EXCEPT !.heap[n].s = y, !.heap[n].len = z] = [[p EXCEPT !.heap[n].s = y] EXCEPT !.heap[n].len = z]
  OBVIOUS
<1>q. PICK q : q = [p EXCEPT !.heap[p.ref].s = y]
  OBVIOUS
<1>1. q = [heap |-> PutIn(f, n, [f[n] EXCEPT !.s = y]), ref |-> n]
  <2>1. [p EXCEPT !.heap[p.ref].s = y] = [heap |-> PutIn(f, n, [f[n] EXCEPT !.s = y]), ref |-> n]
    BY DeepPut
  <2> QED BY <1>q, <2>1, Zenon
<1> PICK g : g = PutIn(f, n, [refs |-> 1, len |-> k, s |-> y])
  OBVIOUS
<1>2. [f[n] EXCEPT !.s = y] = [refs |-> 1, len |-> k, s |-> y]
  OBVIOUS
<1>3. q = [heap |-> g, ref |-> n]
  BY <1>1, <1>2
<1>4. g[n] = [refs |-> 1, len |-> k, s |-> y]
  BY DEF PutIn
<1>5. [q EXCEPT !.heap[n].len = z] = [q EXCEPT !.heap = [q.heap EXCEPT ![n] = [q.heap[n] EXCEPT !.len = z]]]
  OBVIOUS
<1>6. [q.heap[n] EXCEPT !.len = z] = [refs |-> 1, len |-> z, s |-> y]
  BY <1>3, <1>4
<1>7. q.heap = g
  BY <1>3
<1>v. PICK v : v = [q.heap EXCEPT ![n] = [q.heap[n] EXCEPT !.len = z]]
  OBVIOUS
<1>8. v = PutIn(g, n, [refs |-> 1, len |-> z, s |-> y])
  BY <1>6, <1>7, <1>v, Zenon DEF PutIn
<1>9. v = PutIn(f, n, [refs |-> 1, len |-> z, s |-> y])
  BY <1>8, PutTwice
<1>10. [q EXCEPT !.heap = v] = [heap |-> v, ref |-> n]
  BY <1>3
<1>11. WriteBuffer(p, y, z) = [q EXCEPT !.heap[n].len = z]
  <2>1. p.ref = n
    OBVIOUS
  <2> QED BY <1>0, <1>q, <2>1, Zenon DEF WriteBuffer
<1> QED BY <1>5, <1>9, <1>10, <1>11, <1>v, Zenon

LEMMA OctetPut ==
  ASSUME NEW p, NEW f, NEW n, NEW k, NEW x, BufferAt(p, f, n, k, x), NEW c, NEW y
  PROVE  WriteOctet(p, c, y) = With1(PutIn(f, n, Octets1(k, PutIn(x, c, y))), n)
<1>a. p = [heap |-> f, ref |-> n] /\ n \in DOMAIN f /\ f[n] = [refs |-> 1, len |-> k, s |-> x]
  BY DEF BufferAt, With1, Octets1
<1> USE <1>a
<1>w. PICK w : w = [x EXCEPT ![c] = y]
  OBVIOUS
<1>1. [p EXCEPT !.heap[p.ref].s[c] = y] = [p EXCEPT !.heap[p.ref].s = [p.heap[p.ref].s EXCEPT ![c] = y]]
  OBVIOUS
<1>2. p.heap[p.ref].s = x
  OBVIOUS
<1>3. [p EXCEPT !.heap[p.ref].s = w] = [heap |-> PutIn(f, n, [f[n] EXCEPT !.s = w]), ref |-> n]
  BY DeepPut
<1>4. [f[n] EXCEPT !.s = w] = [refs |-> 1, len |-> k, s |-> w]
  OBVIOUS
<1> QED BY <1>1, <1>2, <1>3, <1>4, <1>w, Zenon DEF WriteOctet, PutIn, With1, Octets1

LEMMA BufferWritten ==
    ASSUME NEW S, NEW h, NEW b, NEW m, NEW p, BufferReady(S, h, b, m, p), NEW o \in Seq(Nat)
    PROVE  BufferDone(S, b, m, WriteBuffer(p, o, Len(o)), o)
<1> PICK f, n, o1 : f = p.heap /\ n = p.ref /\ o1 = m["top"]
  OBVIOUS
<1>1. p = [heap |-> f, ref |-> n] /\ n \in DOMAIN f /\ f[n] = buffer_new(o1)
  BY Zenon DEF BufferReady
<1> PICK q : q = WriteBuffer(p, o, Len(o))
  OBVIOUS
<1>2. f[n] = [refs |-> 1, len |-> Len(o1), s |-> o1]
  BY <1>1 DEF buffer_new
<1>7. BufferAt(p, f, n, Len(o1), o1)
  BY <1>1, <1>2, Zenon DEF BufferAt, With1, Octets1
<1>3. q = [heap |-> PutIn(f, n, [refs |-> 1, len |-> Len(o), s |-> o]), ref |-> n]
  <2>1. q = With1(PutIn(f, n, Octets1(Len(o), o)), n)
    BY <1>7, BothPut
  <2> QED BY <2>1, Zenon DEF With1, Octets1
<1>4. q.ref = n /\ q.heap = PutIn(f, n, [refs |-> 1, len |-> Len(o), s |-> o])
  BY <1>3
<1>5. q.heap = PutIn(f, n, buffer_new(o))
  BY <1>4 DEF buffer_new
<1>6. Shares(PutIn(f, n, buffer_new(o)), PutIn(b, "top", n), PutIn(m, "top", o),
             BufferRefs, S, GoodBuffers)
  BY Zenon DEF BufferReady
<1> QED BY <1>4, <1>5, <1>6 DEF BufferDone

(* What the operators rely on.                                               *)
BufferStart(S, h, b, m) ==
    /\ Setting(BufferRefs, S, GoodBuffers, NoBuffer) /\ "top" \in S
    /\ Shares(h, b, m, BufferRefs, S, GoodBuffers) /\ b["top"] # 0
    /\ NextBuffer(h) \in BufferRefs /\ h[NextBuffer(h)].refs = 0

LEMMA BufferStarts ==
    ASSUME NEW S, NEW h, NEW b, NEW m, BufferStart(S, h, b, m)
    PROVE  /\ BufferReady(S, h, b, m, prepare_buffer(h, b["top"]))
           /\ BufferDone(S, b, m, [heap |-> h, ref |-> b["top"]], m["top"])
           /\ GoodBuffer(h[b["top"]], m["top"])
           /\ DOMAIN h = BufferRefs /\ b["top"] \in BufferRefs
<1> HIDE DEF GoodBuffers, BufferRefs, NoBuffer
<1>1. BufferReady(S, h, b, m, prepare_buffer(h, b["top"]))
  BY BufferPrepared DEF BufferStart
<1>2. Shares(h, PutIn(b, "top", b["top"]), PutIn(m, "top", m["top"]), BufferRefs, S, GoodBuffers)
  BY SharesSame DEF BufferStart
<1> PICK t : t = "top"
  OBVIOUS
<1>3. b[t] # 0 => <<h[b[t]], m[t]>> \in GoodBuffers /\ Count(b, b[t]) # 0
  BY ShareFacts DEF BufferStart
<1>4. GoodBuffer(h[b["top"]], m["top"])
  BY <1>3, GoodBufferIn DEF BufferStart
<1>5. DOMAIN h = BufferRefs /\ b[t] \in BufferRefs \cup {0}
  BY Zenon DEF BufferStart, Shares, Placed, Counted
<1>6. b["top"] \in BufferRefs
  BY <1>5 DEF BufferStart
<1> QED BY <1>1, <1>2, <1>4, <1>5, <1>6 DEF BufferDone

LEMMA BufferAdds ==
    ASSUME NEW S, NEW h, NEW b, NEW m, BufferStart(S, h, b, m), NEW c \in Nat
    PROVE  BufferDone(S, b, m, buffer_add(h, b["top"], c), Append(m["top"], c))
<1> PICK p, o : p = prepare_buffer(h, b["top"]) /\ o = m["top"]
  OBVIOUS
<1>1. BufferReady(S, h, b, m, p) /\ GoodBuffer(h[b["top"]], o)
  BY BufferStarts
<1>2. p.heap[p.ref] = buffer_new(o) /\ o \in Seq(Nat) /\ Len(o) \in Nat
  BY <1>1, BufferIs DEF BufferReady
<1>3. Contents(p.heap[p.ref]) = o /\ p.heap[p.ref].len = Len(o)
  BY <1>2 DEF buffer_new, Contents
<1>4. buffer_add(h, b["top"], c) =
        WriteBuffer(p, Append(Contents(p.heap[p.ref]), c), p.heap[p.ref].len + 1)
  BY Zenon DEF buffer_add, WriteBuffer
<1> PICK w : w = Append(o, c)
  OBVIOUS
<1>5. w \in Seq(Nat) /\ Len(w) = Len(o) + 1
  BY <1>2
<1>6. BufferDone(S, b, m, WriteBuffer(p, w, Len(w)), w)
  BY <1>1, <1>5, BufferWritten
<1> QED BY <1>3, <1>4, <1>5, <1>6

LEMMA BufferAppends ==
    ASSUME NEW S, NEW h, NEW b, NEW m, BufferStart(S, h, b, m), NEW r, NEW a \in Seq(Nat),
           Contents(h[r]) = a
    PROVE  /\ BufferDone(S, b, m, buffer_append(h, b["top"], r), m["top"] \o a)
           /\ "heap" \in DOMAIN buffer_append(h, b["top"], r)
<1> PICK p, o : p = prepare_buffer(h, b["top"]) /\ o = m["top"]
  OBVIOUS
<1>1. BufferReady(S, h, b, m, p) /\ GoodBuffer(h[b["top"]], o)
      /\ BufferDone(S, b, m, [heap |-> h, ref |-> b["top"]], o)
  BY BufferStarts
<1>2. p.heap[p.ref] = buffer_new(o) /\ o \in Seq(Nat) /\ Len(o) \in Nat
  BY <1>1, BufferIs DEF BufferReady
<1>3. Contents(p.heap[p.ref]) = o /\ p.heap[p.ref].len = Len(o)
  BY <1>2 DEF buffer_new, Contents
<1>4. buffer_append(h, b["top"], r) =
        IF a = <<>> THEN [heap |-> h, ref |-> b["top"]]
        ELSE WriteBuffer(p, Contents(p.heap[p.ref]) \o a, p.heap[p.ref].len + Len(a))
  BY Zenon DEF buffer_append, WriteBuffer
<1>7. \A x, y : "heap" \in DOMAIN WriteBuffer(p, x, y)
  <2>1. p = [heap |-> p.heap, ref |-> p.ref]
    BY <1>1, Zenon DEF BufferReady
  <2>2. "heap" \in DOMAIN p
    BY <2>1
  <2> QED BY <2>2 DEF WriteBuffer
<1>8. "heap" \in DOMAIN buffer_append(h, b["top"], r)
  BY <1>4, <1>7
<1> PICK w : w = o \o a
  OBVIOUS
<1>5. w \in Seq(Nat) /\ Len(w) = Len(o) + Len(a) /\ (a = <<>> => w = o)
  BY <1>2
<1>6. BufferDone(S, b, m, WriteBuffer(p, w, Len(w)), w)
  BY <1>1, <1>5, BufferWritten
<1> QED BY <1>1, <1>3, <1>4, <1>5, <1>6, <1>8

LEMMA BufferReplaces ==
    ASSUME NEW S, NEW h, NEW b, NEW m, BufferStart(S, h, b, m), NEW c \in DOMAIN m["top"]
    PROVE  BufferDone(S, b, m, buffer_replace(h, b["top"], c - 1, c), [m["top"] EXCEPT ![c] = c])
<1> PICK p, o : p = prepare_buffer(h, b["top"]) /\ o = m["top"]
  OBVIOUS
<1>1. BufferReady(S, h, b, m, p) /\ GoodBuffer(h[b["top"]], o)
      /\ BufferDone(S, b, m, [heap |-> h, ref |-> b["top"]], o)
  BY BufferStarts
<1>2. o \in Seq(Nat) /\ Len(o) \in Nat /\ h[b["top"]].s = o
  BY <1>1, BufferIs
<1>3. c \in Nat /\ c - 1 + 1 = c /\ c \in DOMAIN o
  BY <1>2
<1>4. /\ p = [heap |-> p.heap, ref |-> p.ref] /\ p.ref \in DOMAIN p.heap
      /\ p.heap[p.ref] = [refs |-> 1, len |-> Len(o), s |-> o]
  BY <1>1 DEF BufferReady, buffer_new
<1> PICK w : w = [o EXCEPT ![c] = c]
  OBVIOUS
<1>5. w \in Seq(Nat) /\ Len(w) = Len(o) /\ (o[c] = c => w = o)
  BY <1>2, <1>3
<1>6. BufferDone(S, b, m, WriteBuffer(p, w, Len(w)), w)
  BY <1>1, <1>5, BufferWritten
<1>7. CASE o[c] = c
  BY <1>1, <1>2, <1>3, <1>5, <1>7 DEF buffer_replace
<1>8. CASE o[c] # c
  <2>1. buffer_replace(h, b["top"], c - 1, c) = WriteOctet(p, c, c)
    BY <1>2, <1>3, <1>8 DEF buffer_replace, WriteOctet
  <2>f. PICK f, n : f = p.heap /\ n = p.ref
    OBVIOUS
  <2>5. BufferAt(p, f, n, Len(o), o)
    BY <1>4, <2>f, Zenon DEF BufferAt, With1, Octets1
  <2>6. w = PutIn(o, c, c)
    BY Zenon DEF PutIn
  <2>2. WriteOctet(p, c, c) = With1(PutIn(f, n, Octets1(Len(o), PutIn(o, c, c))), n)
    BY <2>5, OctetPut
  <2>4. WriteBuffer(p, w, Len(w)) = With1(PutIn(f, n, Octets1(Len(w), w)), n)
    BY <2>5, BothPut
  <2> QED BY <1>5, <1>6, <2>1, <2>2, <2>4, <2>6
<1> QED BY <1>7, <1>8

(* The first len octets.                                                     *)
LEMMA ResizedIs ==
    ASSUME NEW o \in Seq(Nat), NEW len \in 0 .. Len(o)
    PROVE  /\ Resized(o, len) = SubSeq(o, 1, len) /\ SubSeq(o, 1, len) \in Seq(Nat)
           /\ Len(SubSeq(o, 1, len)) = len
<1>1. DOMAIN o = 1 .. Len(o) /\ Len(o) \in Nat
  OBVIOUS
<1>2. SubSeq(o, 1, len) = [i \in 1 .. len |-> o[i]]
  BY <1>1
<1>3. \A i \in 1 .. len : i \in DOMAIN o
  BY <1>1
<1> QED BY <1>1, <1>2, <1>3 DEF Resized

LEMMA BufferTruncates ==
    ASSUME NEW S, NEW h, NEW b, NEW m, BufferStart(S, h, b, m), NEW len \in 0 .. Len(m["top"])
    PROVE  BufferDone(S, b, m, buffer_truncate(h, b["top"], len), SubSeq(m["top"], 1, len))
<1> PICK p, o : p = prepare_buffer(h, b["top"]) /\ o = m["top"]
  OBVIOUS
<1>1. BufferReady(S, h, b, m, p) /\ GoodBuffer(h[b["top"]], o)
      /\ BufferDone(S, b, m, [heap |-> h, ref |-> b["top"]], o)
  BY BufferStarts
<1>2. o \in Seq(Nat) /\ Len(o) \in Nat /\ h[b["top"]].len = Len(o) /\ p.heap[p.ref].s = o
  BY <1>1, BufferIs DEF BufferReady, buffer_new
<1> PICK w : w = SubSeq(o, 1, len)
  OBVIOUS
<1>3. Resized(o, len) = w /\ w \in Seq(Nat) /\ Len(w) = len /\ (len = Len(o) => w = o)
  <2>1. Resized(o, len) = w /\ w \in Seq(Nat) /\ Len(w) = len
    BY <1>2, ResizedIs
  <2>2. SubSeq(o, 1, Len(o)) = o
    BY <1>2
  <2> QED BY <2>1, <2>2
<1>4. len >= 0
  BY <1>2
<1>5. buffer_truncate(h, b["top"], len) =
        IF len = h[b["top"]].len THEN [heap |-> h, ref |-> b["top"]]
        ELSE WriteBuffer(p, Resized(p.heap[p.ref].s, len), len)
  BY <1>4, Zenon DEF buffer_truncate, WriteBuffer
<1>6. BufferDone(S, b, m, WriteBuffer(p, w, Len(w)), w)
  BY <1>1, <1>3, BufferWritten
<1> QED BY <1>1, <1>2, <1>3, <1>5, <1>6

LEMMA BufferTrims ==
    ASSUME NEW S, NEW h, NEW b, NEW m, BufferStart(S, h, b, m), NEW k \in 1 .. Len(m["top"]),
           h[b["top"]].refs # 1
    PROVE  BufferDone(S, b, m, buffer_truncate(h, b["top"], -k), SubSeq(m["top"], k + 1, Len(m["top"])))
<1> PICK o, n, r : o = m["top"] /\ n = NextBuffer(h) /\ r = b["top"]
  OBVIOUS
<1>1. GoodBuffer(h[r], o)
  BY BufferStarts
<1>2. o \in Seq(Nat) /\ Len(o) \in Nat /\ h[r].len = Len(o) /\ h[r].s = o
  BY <1>1, BufferIs
<1> PICK w : w = SubSeq(o, k + 1, Len(o))
  OBVIOUS
<1>3. w \in Seq(Nat) /\ ~(-k >= 0) /\ 1 - (-k) = k + 1
  BY <1>2
<1> PICK q : q = buffer_truncate(h, r, -k)
  OBVIOUS
<1>4. q = Split(h, r, w)
  BY <1>2, <1>3 DEF buffer_truncate
<1>5. r # 0 /\ DOMAIN h = BufferRefs /\ r \in BufferRefs
  BY BufferStarts DEF BufferStart
<1>6. q.ref = n /\ q.heap = PutIn(Discard(h, r, NoBuffer), n, buffer_new(w))
  <2>1. q = [ref |-> NextBuffer(h),
             heap |-> [h EXCEPT ![r].refs = @ - 1, ![NextBuffer(h)] = buffer_new(w)]]
    BY <1>4, Zenon DEF Split
  <2>2. h[r].refs # 1
    OBVIOUS
  <2>3. [h EXCEPT ![r].refs = @ - 1, ![n] = buffer_new(w)] = PutIn(Discard(h, r, NoBuffer), n, buffer_new(w))
    <3>1. Discard(h, r, NoBuffer) = [h EXCEPT ![r].refs = @ - 1]
      BY <1>5, <2>2, Zenon DEF Discard
    <3>2. [h EXCEPT ![r].refs = @ - 1, ![n] = buffer_new(w)]
            = [[h EXCEPT ![r].refs = @ - 1] EXCEPT ![n] = buffer_new(w)]
      OBVIOUS
    <3> QED BY <3>1, <3>2, Zenon DEF PutIn
  <2>4. q = [ref |-> n, heap |-> PutIn(Discard(h, r, NoBuffer), n, buffer_new(w))]
    BY <2>1, <2>3, Zenon
  <2>5. ASSUME NEW x, NEW y, q = [ref |-> x, heap |-> y] PROVE q.ref = x /\ q.heap = y
    BY <2>5
  <2> QED BY <2>4, <2>5, Zenon
<1>7. <<buffer_new(w), w>> \in GoodBuffers /\ buffer_new(w).refs = 1
  BY <1>3, NewBufferIs, GoodBufferIn
<1> HIDE DEF GoodBuffers, BufferRefs, NoBuffer
<1>8. Setting(BufferRefs, S, GoodBuffers, NoBuffer) /\ "top" \in S
      /\ Shares(h, b, m, BufferRefs, S, GoodBuffers) /\ n \in BufferRefs /\ h[n].refs = 0
  BY Zenon DEF BufferStart
<1>9. Shares(PutIn(Discard(h, b["top"], NoBuffer), n, buffer_new(w)), PutIn(b, "top", n),
             PutIn(m, "top", w), BufferRefs, S, GoodBuffers)
  BY <1>5, <1>7, <1>8, Part
<1> QED BY <1>6, <1>9 DEF BufferDone

LEMMA BufferFacts ==
    ASSUME BufferInv
    PROVE  /\ Shares(buffers, holders, octets, BufferRefs, Holders, GoodBuffers)
           /\ "top" \in Holders /\ BufferVars \subseteq Holders /\ "top" \notin BufferVars
           /\ DOMAIN buffers = BufferRefs /\ holders \in [Holders -> BufferRefs \cup {0}]
           /\ DOMAIN octets = Holders /\ 0 \notin BufferRefs
           /\ \A v \in Holders : holders[v] # 0 =>
                GoodBuffer(buffers[holders[v]], octets[v]) /\ buffers[holders[v]].refs # 0
<1>1. "top" \in Holders /\ BufferVars \subseteq Holders /\ "top" \notin BufferVars
  BY BuffersAssumption DEF Holders
<1> HIDE DEF GoodBuffers, BufferRefs, Holders, NoBuffer
<1>2. Shares(buffers, holders, octets, BufferRefs, Holders, GoodBuffers)
  BY Zenon DEF BufferInv, BufferShares
<1>3. /\ DOMAIN buffers = BufferRefs /\ holders \in [Holders -> BufferRefs \cup {0}]
      /\ DOMAIN octets = Holders
  BY <1>2, Zenon DEF Shares, Placed, Counted, Stands
<1>4. 0 \notin BufferRefs
  BY BufferSetting DEF Setting
<1>5. ASSUME NEW v \in Holders, holders[v] # 0
      PROVE  GoodBuffer(buffers[holders[v]], octets[v]) /\ buffers[holders[v]].refs # 0
  <2>1. /\ \A q \in BufferRefs : buffers[q].refs = Count(holders, q) /\ Count(holders, q) \in Nat
        /\ holders[v] \in BufferRefs \cup {0}
        /\ holders[v] # 0 => <<buffers[holders[v]], octets[v]>> \in GoodBuffers
                             /\ Count(holders, holders[v]) # 0
    BY <1>2, BufferSetting, ShareFacts
  <2> QED BY <1>5, <2>1, GoodBufferIn
<1> QED BY <1>1, <1>2, <1>3, <1>4, <1>5

Became(q, o) ==
    buffers' = q.heap /\ holders' = PutIn(holders, "top", q.ref) /\ octets' = PutIn(octets, "top", o)

LEMMA BecomesIs ==
    ASSUME NEW q, NEW o, Becomes(q, o)
    PROVE  Became(q, o)
BY DEF Becomes, Became, PutIn

LEMMA BufferDoneKeeps ==
    ASSUME NEW q, NEW o, Becomes(q, o), BufferDone(Holders, holders, octets, q, o)
    PROVE  BufferInv'
BY BecomesIs DEF Became, BufferDone, BufferInv, BufferShares

LEMMA BufferMayStart ==
    ASSUME BufferInv, HasBuffer, Spare
    PROVE  BufferStart(Holders, buffers, holders, octets) /\ octets["top"] \in Seq(Nat)
<1>1. PICK n \in BufferRefs : buffers[n] = NoBuffer
  BY DEF Spare
<1>2. NextBuffer(buffers) \in BufferRefs /\ buffers[NextBuffer(buffers)].refs = 0
  BY <1>1, NextBufferIs
<1>3. holders["top"] # 0
  BY DEF HasBuffer, TopBuffer
<1>4. Shares(buffers, holders, octets, BufferRefs, Holders, GoodBuffers) /\ "top" \in Holders
      /\ GoodBuffer(buffers[holders["top"]], octets["top"])
  BY <1>3, BufferFacts
<1>5. octets["top"] \in Seq(Nat)
  BY <1>4, BufferIs
<1> QED BY <1>2, <1>3, <1>4, <1>5, BufferSetting, Zenon DEF BufferStart

LEMMA NewBufferKeeps ==
    ASSUME BufferInv, OpBuffer
    PROVE  BufferInv'
<1>1. PICK s : Becomes([ref |-> NextBuffer(buffers),
                        heap |-> [buffers EXCEPT ![NextBuffer(buffers)] = buffer_new(s)]], s)
                /\ s \in Seq(Nat)
  <2>1. PICK n \in 0 .. 1 : \E s \in [1 .. n -> Octets] :
            Becomes([ref |-> NextBuffer(buffers),
                     heap |-> [buffers EXCEPT ![NextBuffer(buffers)] = buffer_new(s)]], s)
    BY DEF OpBuffer
  <2>2. PICK s \in [1 .. n -> Octets] :
            Becomes([ref |-> NextBuffer(buffers),
                     heap |-> [buffers EXCEPT ![NextBuffer(buffers)] = buffer_new(s)]], s)
    BY <2>1
  <2>3. Octets \subseteq Nat
    BY BuffersAssumption
  <2>4. s \in Seq(Nat)
    <3>1. s \in [1 .. n -> Nat]
      BY <2>3, Zenon
    <3>2. n \in Nat
      OBVIOUS
    <3> QED BY <3>1, <3>2
  <2> QED BY <2>2, <2>4
<1> PICK n : n = NextBuffer(buffers)
  OBVIOUS
<1>2. n \in BufferRefs /\ buffers[n].refs = 0 /\ holders["top"] = 0
  BY NextBufferIs DEF OpBuffer, Spare, HasBuffer, TopBuffer
<1>3. Shares(buffers, holders, octets, BufferRefs, Holders, GoodBuffers) /\ "top" \in Holders
  BY BufferFacts
<1>4. <<buffer_new(s), s>> \in GoodBuffers /\ buffer_new(s).refs = 1
  BY <1>1, NewBufferIs, GoodBufferIn
<1> HIDE DEF GoodBuffers, BufferRefs, Holders, NoBuffer
<1>5. Shares(PutIn(buffers, n, buffer_new(s)), PutIn(holders, "top", n), PutIn(octets, "top", s),
             BufferRefs, Holders, GoodBuffers)
  BY <1>2, <1>3, <1>4, BufferSetting, StoreNew
<1>6. Became([ref |-> n, heap |-> PutIn(buffers, n, buffer_new(s))], s)
  BY <1>1, BecomesIs DEF PutIn
<1> QED BY <1>5, <1>6 DEF Became, BufferInv, BufferShares

LEMMA MoveBufferKeeps ==
    ASSUME BufferInv, GetBuffer \/ SetBuffer \/ PopBuffer
    PROVE  BufferInv'
<1>1. Shares(buffers, holders, octets, BufferRefs, Holders, GoodBuffers)
      /\ "top" \in Holders /\ BufferVars \subseteq Holders /\ "top" \notin BufferVars
      /\ holders \in [Holders -> BufferRefs \cup {0}] /\ DOMAIN octets = Holders
  BY BufferFacts
<1> HIDE DEF GoodBuffers, BufferRefs, Holders, NoBuffer
<1>2. CASE GetBuffer
  <2>1. PICK v \in BufferVars :
            Becomes([ref |-> holders[v], heap |-> buffer_dup(buffers, holders[v])], octets[v])
    BY <1>2 DEF GetBuffer
  <2>2. holders["top"] = 0 /\ v \in Holders /\ v # "top"
    BY <1>1, <1>2 DEF GetBuffer, HasBuffer, TopBuffer
  <2>3. Shares(Dup(buffers, holders[v]), PutIn(holders, "top", holders[v]),
               PutIn(octets, "top", octets[v]), BufferRefs, Holders, GoodBuffers)
    BY <1>1, <2>2, BufferSetting, PickUp
  <2>4. buffer_dup(buffers, holders[v]) = Dup(buffers, holders[v])
    BY Zenon DEF buffer_dup, Dup
  <2>5. Became([ref |-> holders[v], heap |-> buffer_dup(buffers, holders[v])], octets[v])
    BY <2>1, BecomesIs
  <2> QED BY <2>3, <2>4, <2>5 DEF Became, BufferInv, BufferShares
<1>3. CASE SetBuffer
  <2>1. PICK v \in BufferVars :
            /\ buffers' = buffer_dup(buffer_discard(buffers, holders[v]), TopBuffer)
            /\ holders' = [holders EXCEPT ![v] = TopBuffer]
            /\ octets' = [octets EXCEPT ![v] = Bytes]
    BY <1>3, Zenon DEF SetBuffer
  <2> PICK h : h = Discard(buffers, holders[v], NoBuffer)
    OBVIOUS
  <2> PICK b : b = PutIn(holders, v, 0)
    OBVIOUS
  <2> PICK m : m = PutIn(octets, v, 0)
    OBVIOUS
  <2>2. v \in Holders /\ v # "top"
    BY <1>1
  <2>3. Shares(h, b, m, BufferRefs, Holders, GoodBuffers)
    BY <1>1, <2>2, BufferSetting, PutDown
  <2>5. b["top"] = holders["top"] /\ m["top"] = octets["top"] /\ b[v] = 0
    BY <1>1, <2>2 DEF PutIn
  <2>6. Shares(Dup(h, b["top"]), PutIn(b, v, b["top"]), PutIn(m, v, m["top"]),
               BufferRefs, Holders, GoodBuffers)
    BY <1>1, <2>2, <2>3, <2>5, BufferSetting, PickUp
  <2>7. PutIn(b, v, b["top"]) = PutIn(holders, v, holders["top"])
        /\ PutIn(m, v, m["top"]) = PutIn(octets, v, octets["top"])
    BY <2>5, PutTwice
  <2>8. buffer_discard(buffers, holders[v]) = h
    BY Zenon DEF buffer_discard, Discard
  <2>9. buffers' = Dup(h, b["top"]) /\ holders' = PutIn(holders, v, holders["top"])
        /\ octets' = PutIn(octets, v, octets["top"])
    BY <2>1, <2>5, <2>8, Zenon DEF PutIn, TopBuffer, Bytes, buffer_dup, Dup
  <2> QED BY <2>6, <2>7, <2>9 DEF BufferInv, BufferShares
<1>4. CASE PopBuffer
  <2>1. Shares(Discard(buffers, holders["top"], NoBuffer), PutIn(holders, "top", 0),
               PutIn(octets, "top", <<>>), BufferRefs, Holders, GoodBuffers)
    BY <1>1, BufferSetting, PutDown
  <2>2. buffer_discard(buffers, holders["top"]) = Discard(buffers, holders["top"], NoBuffer)
    BY Zenon DEF buffer_discard, Discard
  <2>3. Became([ref |-> 0, heap |-> buffer_discard(buffers, holders["top"])], <<>>)
    BY <1>4, BecomesIs DEF PopBuffer, TopBuffer
  <2> QED BY <2>1, <2>2, <2>3 DEF Became, BufferInv, BufferShares
<1> QED BY <1>2, <1>3, <1>4

LEMMA ChangeBufferKeeps ==
    ASSUME ~WrongBuffers, BufferInv, OpBufferAdd \/ OpBufferReplace \/ OpBufferTruncate
    PROVE  BufferInv'
<1>1. HasBuffer /\ Spare
  BY DEF OpBufferAdd, OpBufferReplace, OpBufferTruncate
<1>2. BufferStart(Holders, buffers, holders, octets) /\ octets["top"] \in Seq(Nat)
  BY <1>1, BufferMayStart
<1> PICK b, o : b = holders["top"] /\ o = octets["top"]
  OBVIOUS
<1>3. Len(o) \in Nat /\ DOMAIN o = 1 .. Len(o)
  BY <1>2
<1>4. CASE OpBufferAdd
  <2>1. PICK c \in Octets : Becomes(buffer_add(buffers, b, c), Append(o, c))
    BY <1>4 DEF OpBufferAdd, TopBuffer, Bytes
  <2>2. c \in Nat
    BY BuffersAssumption
  <2>3. BufferDone(Holders, holders, octets, buffer_add(buffers, b, c), Append(o, c))
    BY <1>2, <2>2, BufferAdds
  <2> QED BY <2>1, <2>3, BufferDoneKeeps
<1>5. CASE OpBufferReplace
  <2>1. PICK pos \in DOMAIN o, c \in Octets :
            c = pos /\ Becomes(buffer_replace(buffers, b, pos - 1, pos), [o EXCEPT ![pos] = c])
    BY <1>5 DEF OpBufferReplace, TopBuffer, Bytes
  <2>2. Becomes(buffer_replace(buffers, b, pos - 1, pos), [o EXCEPT ![pos] = pos])
    BY <2>1
  <2>3. BufferDone(Holders, holders, octets, buffer_replace(buffers, b, pos - 1, pos),
                   [o EXCEPT ![pos] = pos])
    BY <1>2, BufferReplaces
  <2> QED BY <2>2, <2>3, BufferDoneKeeps
<1>6. CASE OpBufferTruncate
  <2>1. PICK pos \in 1 - Len(o) .. Len(o) - 1 :
            /\ pos >= 0 \/ buffers[b].refs > 1
            /\ Becomes(buffer_truncate(buffers, b, pos),
                       IF pos >= 0 THEN SubSeq(o, 1, pos) ELSE SubSeq(o, 1 - pos, Len(o)))
    BY <1>6 DEF OpBufferTruncate, TopBuffer, Bytes
  <2>2. CASE pos >= 0
    <3>1. pos \in 0 .. Len(o)
      BY <1>3, <2>2
    <3>2. BufferDone(Holders, holders, octets, buffer_truncate(buffers, b, pos), SubSeq(o, 1, pos))
      BY <1>2, <3>1, BufferTruncates
    <3>3. Becomes(buffer_truncate(buffers, b, pos), SubSeq(o, 1, pos))
      BY <2>1, <2>2
    <3> QED BY <3>2, <3>3, BufferDoneKeeps
  <2>3. CASE ~(pos >= 0)
    <3> PICK k \in 1 .. Len(o) : pos = -k
      <4>1. -pos \in 1 .. Len(o) /\ pos = -(-pos)
        BY <1>3, <2>3
      <4> QED BY <4>1
    <3>1. buffers[b].refs # 1 /\ 1 - pos = k + 1
      BY <2>1, <2>3
    <3>2. BufferDone(Holders, holders, octets, buffer_truncate(buffers, b, -k),
                     SubSeq(o, k + 1, Len(o)))
      BY <1>2, <3>1, BufferTrims
    <3>3. Becomes(buffer_truncate(buffers, b, -k), SubSeq(o, k + 1, Len(o)))
      BY <2>1, <2>3, <3>1
    <3> QED BY <3>2, <3>3, BufferDoneKeeps
  <2> QED BY <2>2, <2>3
<1> QED BY <1>4, <1>5, <1>6

LEMMA AppendBufferKeeps ==
    ASSUME BufferInv, OpBufferAppend
    PROVE  BufferInv'
<1>1. PICK v \in BufferVars :
        /\ holders[v] # 0
        /\ LET p == buffer_append(buffer_dup(buffers, holders[v]), TopBuffer, holders[v])
           IN  Becomes([p EXCEPT !.heap = buffer_discard(@, holders[v])], Bytes \o octets[v])
  BY Zenon DEF OpBufferAppend
<1>2. /\ Shares(buffers, holders, octets, BufferRefs, Holders, GoodBuffers)
      /\ "top" \in Holders /\ v \in Holders /\ DOMAIN octets = Holders
      /\ holders \in [Holders -> BufferRefs \cup {0}] /\ DOMAIN buffers = BufferRefs
      /\ \A u \in Holders : holders[u] # 0 =>
            GoodBuffer(buffers[holders[u]], octets[u]) /\ buffers[holders[u]].refs # 0
  BY BufferFacts
<1>3. PICK a : a \notin Holders
  BY NewPlace
<1> PICK S : S = Holders \cup {a}
  OBVIOUS
<1> PICK r, x, h : r = holders[v] /\ x = octets[v] /\ h = buffer_dup(buffers, r)
  OBVIOUS
<1> PICK b, m : b = Ext(holders, a, r) /\ m = Ext(octets, a, x)
  OBVIOUS
<1>4. b["top"] = holders["top"] /\ m["top"] = octets["top"] /\ b[a] = r /\ m[a] = x
  BY <1>2, <1>3 DEF Ext
<1>5. r \in BufferRefs /\ r # 0
  BY <1>1, <1>2
<1>6. NextBuffer(h) \in BufferRefs /\ h[NextBuffer(h)].refs = 0
  <2>1. PICK n \in BufferRefs : buffers[n] = NoBuffer
    BY DEF OpBufferAppend, Spare
  <2>2. n # r
    BY <1>1, <1>2, <2>1 DEF NoBuffer
  <2>3. h[n] = NoBuffer
    BY <1>2, <2>1, <2>2 DEF buffer_dup
  <2> QED BY <2>3, NextBufferIs
<1> HIDE DEF GoodBuffers, BufferRefs, Holders, NoBuffer
<1>7. Shares(h, b, m, BufferRefs, S, GoodBuffers)
  <2>1. Shares(Dup(buffers, holders[v]), Ext(holders, a, holders[v]), Ext(octets, a, octets[v]),
               BufferRefs, Holders \cup {a}, GoodBuffers)
    BY <1>2, <1>3, BufferSetting, Borrow
  <2>2. h = Dup(buffers, r)
    BY Zenon DEF buffer_dup, Dup
  <2> QED BY <2>1, <2>2
<1>8. Setting(BufferRefs, S, GoodBuffers, NoBuffer)
  BY BufferSetting, SettingMore
<1>9. BufferStart(S, h, b, m)
  <2>1. b["top"] # 0 /\ "top" \in S
    BY <1>2, <1>4 DEF OpBufferAppend, HasBuffer, TopBuffer
  <2> QED BY <1>6, <1>7, <1>8, <2>1, Zenon DEF BufferStart
<1>10. Contents(h[r]) = x /\ x \in Seq(Nat)
  <2>1. <<h[b[a]], m[a]>> \in GoodBuffers
    BY <1>4, <1>5, <1>7 DEF Shares, Stands
  <2>2. GoodBuffer(h[r], x)
    BY <1>4, <2>1, GoodBufferIn
  <2> QED BY <2>2, BufferIs
<1> PICK q : q = buffer_append(h, holders["top"], r)
  OBVIOUS
<1> PICK o : o = octets["top"] \o x
  OBVIOUS
<1>11. BufferDone(S, b, m, q, o) /\ "heap" \in DOMAIN q
  <2>1. /\ BufferDone(S, b, m, buffer_append(h, b["top"], r), m["top"] \o x)
        /\ "heap" \in DOMAIN buffer_append(h, b["top"], r)
    BY <1>9, <1>10, BufferAppends
  <2> QED BY <1>4, <2>1
<1> PICK b2, m2 : b2 = PutIn(holders, "top", q.ref) /\ m2 = PutIn(octets, "top", o)
  OBVIOUS
<1>12. Shares(q.heap, Ext(b2, a, r), Ext(m2, a, x), BufferRefs, Holders \cup {a}, GoodBuffers)
  <2>1. DOMAIN holders = Holders
    BY <1>2
  <2>2. PutIn(b, "top", q.ref) = Ext(b2, a, r)
    BY <1>2, <1>3, <2>1, ExtElse
  <2>3. PutIn(m, "top", o) = Ext(m2, a, x)
    BY <1>2, <1>3, ExtElse
  <2> QED BY <1>11, <2>2, <2>3 DEF BufferDone
<1>13. Shares(Discard(q.heap, r, NoBuffer), b2, m2, BufferRefs, Holders, GoodBuffers)
  <2>1. b2 \in [Holders -> BufferRefs \cup {0, q.ref}] /\ DOMAIN m2 = Holders
    BY <1>2 DEF PutIn
  <2> QED BY <1>3, <1>12, <2>1, BufferSetting, GiveBack
<1>14. Becomes([q EXCEPT !.heap = buffer_discard(@, r)], o)
  BY <1>1 DEF TopBuffer, Bytes
<1>15. [q EXCEPT !.heap = buffer_discard(@, r)].heap = Discard(q.heap, r, NoBuffer)
       /\ [q EXCEPT !.heap = buffer_discard(@, r)].ref = q.ref
  <2> PICK g : g = buffer_discard(q.heap, r)
    OBVIOUS
  <2>1. g = Discard(q.heap, r, NoBuffer)
    BY Zenon DEF buffer_discard, Discard
  <2>2. [q EXCEPT !.heap = g].heap = g /\ [q EXCEPT !.heap = g].ref = q.ref
    BY <1>11
  <2> QED BY <2>1, <2>2
<1>16. Became([q EXCEPT !.heap = buffer_discard(@, r)], o)
  BY <1>14, BecomesIs
<1> QED BY <1>13, <1>15, <1>16 DEF Became, BufferInv, BufferShares

LEMMA BufferInvInit ==
    ASSUME BufferInit
    PROVE  BufferInv
<1> HIDE DEF BufferRefs, Holders, GoodBuffers, NoBuffer
<1>1. Shares([r \in BufferRefs |-> NoBuffer], [s \in Holders |-> 0], [s \in Holders |-> <<>>],
             BufferRefs, Holders, GoodBuffers)
  BY BufferSetting, SharesNothing
<1> QED BY <1>1 DEF BufferInit, BufferInv, BufferShares

LEMMA BufferInvNext ==
    ASSUME ~WrongBuffers, BufferInv, [BufferNext]_bufferVars
    PROVE  BufferInv'
<1>1. CASE UNCHANGED bufferVars
  BY <1>1 DEF bufferVars, BufferInv, BufferShares, Shares, Placed, Counted, Stands, Count, Holding
<1>2. CASE BufferNext
  BY <1>2, NewBufferKeeps, MoveBufferKeeps, ChangeBufferKeeps, AppendBufferKeeps DEF BufferNext
<1> QED BY <1>1, <1>2

LEMMA BufferInvKept ==
    ASSUME BufferInv
    PROVE  BuffersKept
<1>1. Shares(buffers, holders, octets, BufferRefs, Holders, GoodBuffers)
      /\ holders \in [Holders -> BufferRefs \cup {0}]
      /\ \A v \in Holders : holders[v] # 0 =>
            GoodBuffer(buffers[holders[v]], octets[v]) /\ buffers[holders[v]].refs # 0
  BY BufferFacts
<1>2. ASSUME NEW h \in Holders, holders[h] # 0 PROVE Contents(buffers[holders[h]]) = octets[h]
  BY <1>1, <1>2, BufferIs
<1>3. ASSUME NEW r \in BufferRefs
      PROVE  buffers[r].refs = Cardinality({h \in Holders : holders[h] = r})
  <2>1. buffers[r].refs = Count(holders, r)
    BY <1>1, Zenon DEF Shares, Counted
  <2>2. DOMAIN holders = Holders
    BY <1>1
  <2> QED BY <2>1, <2>2 DEF Count, Holding
<1> QED BY <1>2, <1>3 DEF BuffersKept

(* Whatever buffers share, every variable holds the octets it would hold if  *)
(* buffers were copied whenever they are assigned or passed, and the         *)
(* references are counted, as long as op_buffer_replace is given what it     *)
(* writes and a buffer that nobody else holds is not trimmed at the front.   *)
THEOREM BuffersAreKept ==
    ASSUME ~WrongBuffers PROVE BufferSpec => []BuffersKept
<1>1. BufferInit => BufferInv
  BY BufferInvInit
<1>2. BufferInv /\ [BufferNext]_bufferVars => BufferInv'
  BY BufferInvNext
<1>3. BufferInv => BuffersKept
  BY BufferInvKept
<1> QED BY <1>1, <1>2, <1>3, PTL DEF BufferSpec

-----------------------------------------------------------------------------
(* A string as a block of characters, and the text it begins with.           *)
TextArrays == UNION {[0 .. n -> Nat] : n \in Nat}
TextRecords == [start : Nat, len : Nat, size : Nat, refs : Nat, s : TextArrays, reg : Seq(Nat)]
Block(d) ==
    /\ d \in TextRecords /\ d.s \in [0 .. d.size -> Nat] /\ d.start + d.len <= d.size
Begins(d, o) == Len(o) <= d.len /\ \A i \in 1 .. Len(o) : d.s[d.start + i - 1] = o[i]
Closed(d) == d.s[d.start + d.len] = NUL
TextOf(o) == o \in Seq({Lower, Upper})

LEMMA BlockFields ==
    ASSUME NEW d, Block(d)
    PROVE  /\ d.start \in Nat /\ d.len \in Nat /\ d.size \in Nat /\ d.refs \in Nat
           /\ d.s \in [0 .. d.size -> Nat] /\ d.start + d.len <= d.size /\ d.reg \in Seq(Nat)
           /\ d = [start |-> d.start, len |-> d.len, size |-> d.size, refs |-> d.refs,
                   s |-> d.s, reg |-> d.reg]
BY DEF Block, TextRecords

LEMMA BlockMade ==
    ASSUME NEW a \in Nat, NEW n \in Nat, NEW z \in Nat, NEW k \in Nat, NEW s \in [0 .. z -> Nat],
           NEW r \in Seq(Nat), a + n <= z,
           NEW d, d = [start |-> a, len |-> n, size |-> z, refs |-> k, s |-> s, reg |-> r]
    PROVE  Block(d)
<1>1. s \in TextArrays
  BY DEF TextArrays
<1> QED BY <1>1 DEF Block, TextRecords

(* The sizes of strings.                                                     *)
TextGrowing(f) == [k \in 0 .. 3 |-> IF k = 0 THEN StringStart ELSE 2 * f[k - 1] + StringDelta]

LEMMA TextSizesAre ==
    TextSizes \in SUBSET Nat
<1> DEFINE u == CHOOSE f : f = TextGrowing(f)
<1>1. StringStart \in Nat /\ StringDelta \in Nat
  BY StringsAssumption
<1>3. \E f : f = TextGrowing(f)
  <2> PICK a : a = StringStart
    OBVIOUS
  <2> PICK b : b = 2 * a + StringDelta
    OBVIOUS
  <2> PICK c : c = 2 * b + StringDelta
    OBVIOUS
  <2> PICK d : d = 2 * c + StringDelta
    OBVIOUS
  <2> PICK f : f = [k \in 0 .. 3 |-> IF k = 0 THEN a ELSE IF k = 1 THEN b ELSE IF k = 2 THEN c ELSE d]
    OBVIOUS
  <2>1. f[0] = a /\ f[1] = b /\ f[2] = c
    OBVIOUS
  <2>2. ASSUME NEW k \in 0 .. 3 PROVE f[k] = TextGrowing(f)[k]
    <3>1. k = 0 \/ k = 1 \/ k = 2 \/ k = 3
      OBVIOUS
    <3>2. TextGrowing(f)[k] = IF k = 0 THEN a ELSE 2 * f[k - 1] + StringDelta
      BY DEF TextGrowing
    <3>3. CASE k = 0
      BY <3>2, <3>3
    <3>4. CASE k # 0
      <4>1. 2 * f[k - 1] + StringDelta = IF k = 1 THEN b ELSE IF k = 2 THEN c ELSE d
        BY <2>1, <3>1, <3>4
      <4> QED BY <3>2, <3>4, <4>1
    <3> QED BY <3>3, <3>4
  <2>3. f = TextGrowing(f)
    BY <2>2, Zenon DEF TextGrowing
  <2> QED BY <2>3
<1>4. u = TextGrowing(u)
  BY <1>3, Zenon
<1>5. TextSizes = {u[k] : k \in 0 .. 3}
  BY Zenon DEF TextSizes, TextGrowing
<1> HIDE DEF u
<1>6. /\ TextGrowing(u)[0] = StringStart /\ TextGrowing(u)[1] = 2 * u[0] + StringDelta
      /\ TextGrowing(u)[2] = 2 * u[1] + StringDelta /\ TextGrowing(u)[3] = 2 * u[2] + StringDelta
  BY DEF TextGrowing
<1>7. u[0] = StringStart /\ u[1] = 2 * u[0] + StringDelta /\ u[2] = 2 * u[1] + StringDelta
      /\ u[3] = 2 * u[2] + StringDelta
  BY <1>4, <1>6, Zenon
<1>8. u[0] \in Nat /\ u[1] \in Nat /\ u[2] \in Nat /\ u[3] \in Nat
  BY <1>1, <1>7
<1>9. \A k \in 0 .. 3 : u[k] \in Nat
  BY <1>8
<1> QED BY <1>5, <1>9

LEMMA TextSizeIs ==
    ASSUME NEW n \in 0 .. MaxText
    PROVE  TextSize(n) \in Nat /\ n <= TextSize(n)
<1> PICK T : T = {t \in TextSizes : t >= n}
  OBVIOUS
<1>1. TextSizes \in SUBSET Nat
  BY TextSizesAre
<1>2. MaxText \in Nat /\ \E t \in TextSizes : MaxText <= t
  BY StringsAssumption
<1>3. T \in SUBSET Nat /\ T # {}
  <2>1. PICK t \in TextSizes : MaxText <= t
    BY <1>2
  <2>2. t \in Nat /\ n <= MaxText /\ n \in Nat
    BY <1>1, <1>2
  <2>3. t \in T
    BY <2>1, <2>2, <1>2
  <2> QED BY <1>1, <2>3
<1>4. \E x \in T : \A y \in T : x <= y
  BY <1>3, MinOfNaturals
<1>5. \E s \in TextSizes : s >= n /\ \A t \in TextSizes : t >= n => s <= t
  BY <1>4
<1>6. TextSize(n) \in TextSizes /\ TextSize(n) >= n
  BY <1>5 DEF TextSize
<1> QED BY <1>1, <1>6

(* string_new: all NULs.                                                     *)
AllNul(d) ==
    /\ Block(d) /\ d.start = 0 /\ d.refs = 1 /\ d.reg = NoRegexp
    /\ \A i \in 0 .. d.size : d.s[i] = NUL

LEMMA StringNewIs ==
    ASSUME NEW n \in 0 .. MaxText, NEW d, d = string_new(n)
    PROVE  AllNul(d) /\ d.len = 0 /\ d.size = TextSize(n) /\ d.size \in Nat /\ n <= d.size
<1> PICK z : z = TextSize(n)
  OBVIOUS
<1>1. z \in Nat /\ n <= z
  BY TextSizeIs
<1>s. PICK s : s = [i \in 0 .. z |-> NUL]
  OBVIOUS
<1>2. d = [start |-> 0, len |-> 0, size |-> z, refs |-> 1, s |-> s, reg |-> NoRegexp]
  BY <1>s, Zenon DEF string_new
<1>3. NoRegexp \in Seq(Nat) /\ s \in [0 .. z -> Nat] /\ \A i \in 0 .. z : s[i] = NUL
  BY <1>s DEF NoRegexp, Junk, NUL
<1>4. Block(d)
  <2>1. s \in TextArrays
    BY <1>1, <1>3 DEF TextArrays
  <2>2. d \in TextRecords
    BY <1>1, <1>2, <1>3, <2>1 DEF TextRecords
  <2> QED BY <1>1, <1>2, <1>3, <2>2 DEF Block
<1>5. d.start = 0 /\ d.refs = 1 /\ d.reg = NoRegexp /\ d.len = 0 /\ d.size = z /\ d.s = s
  BY <1>2
<1>6. AllNul(d)
  BY <1>3, <1>4, <1>5 DEF AllNul
<1> QED BY <1>1, <1>5, <1>6

(* What memcpy leaves of the characters s of an array of size z.              *)
Wrote(p, s, z, a, o) ==
    /\ p \in [0 .. z -> Nat]
    /\ \A i \in 0 .. z : i < a \/ i >= a + Len(o) => p[i] = s[i]
    /\ \A j \in 1 .. Len(o) : p[a + j - 1] = o[j]

LEMMA PutText ==
    ASSUME NEW z \in Nat, NEW s \in [0 .. z -> Nat], NEW a \in Nat, NEW o \in Seq(Nat), a + Len(o) <= z + 1
    PROVE  Wrote(Put(s, a, o), s, z, a, o)
<1> PICK p : p = Put(s, a, o)
  OBVIOUS
<1> PICK l \in Nat : l = Len(o)
  OBVIOUS
<1>1. DOMAIN o = 1 .. l /\ \A i \in 1 .. l : o[i] \in Nat
  OBVIOUS
<1>2. p = [i \in 0 .. z |-> IF i - a + 1 \in 1 .. l THEN o[i - a + 1] ELSE s[i]]
  BY <1>1 DEF Put
<1>3. p \in [0 .. z -> Nat]
  BY <1>1, <1>2
<1>4. ASSUME NEW i \in 0 .. z, i < a \/ i >= a + l PROVE p[i] = s[i]
  <2>1. i - a + 1 \notin 1 .. l
    BY <1>4
  <2> QED BY <1>2, <2>1
<1>5. ASSUME NEW j \in 1 .. l PROVE p[a + j - 1] = o[j]
  <2>1. a + j - 1 \in 0 .. z /\ (a + j - 1) - a + 1 = j
    BY <1>5
  <2> QED BY <1>2, <2>1
<1> QED BY <1>3, <1>4, <1>5 DEF Wrote

(* A string that stands for a text: the text begins its window, a NUL ends   *)
(* it, and a regular expression was compiled from all of it.                 *)
GoodText(d, o) ==
    /\ TextOf(o) /\ Len(o) <= MaxText
    /\ Block(d) /\ d.len = Len(o) /\ Begins(d, o) /\ Closed(d) /\ d.reg \in {NoRegexp, o}

(* A string that nobody else refers to, about to become one of len           *)
(* characters: those of o from st on, as far as there are any.               *)
Prep(e, o, st, len) ==
    /\ Block(e) /\ e.refs = 1 /\ e.len = len /\ e.reg = NoRegexp
    /\ \A i \in 1 .. len : st + i <= Len(o) => e.s[e.start + i - 1] = o[st + i]

LEMMA TextFacts ==
    ASSUME NEW o, TextOf(o)
    PROVE  /\ o \in Seq(Nat) /\ Len(o) \in Nat /\ DOMAIN o = 1 .. Len(o)
           /\ \A i \in 1 .. Len(o) : o[i] \in Nat /\ o[i] # NUL
BY DEF TextOf, Lower, Upper, NUL

LEMMA GoodTextIs ==
    ASSUME NEW d, NEW o, GoodText(d, o)
    PROVE  Chars(d) = o /\ CString(d) = o
<1>1. /\ TextOf(o) /\ Block(d) /\ d.len = Len(o) /\ Begins(d, o) /\ Closed(d)
  BY DEF GoodText
<1>2. /\ o \in Seq(Nat) /\ Len(o) \in Nat /\ DOMAIN o = 1 .. Len(o)
      /\ \A i \in 1 .. Len(o) : o[i] \in Nat /\ o[i] # NUL
  BY <1>1, TextFacts
<1>3. /\ d.start \in Nat /\ d.size \in Nat /\ d.s \in [0 .. d.size -> Nat]
      /\ d.start + d.len <= d.size
  BY <1>1, BlockFields
<1> PICK a, l, z, s : a = d.start /\ l = Len(o) /\ z = d.size /\ s = d.s
  OBVIOUS
<1>4. a \in Nat /\ l \in Nat /\ z \in Nat /\ a + l <= z /\ s \in [0 .. z -> Nat]
  BY <1>1, <1>2, <1>3
<1>5. \A i \in 1 .. l : s[a + i - 1] = o[i] /\ a + i - 1 \in 0 .. z
  BY <1>1, <1>4 DEF Begins
<1>6. s[a + l] = NUL /\ a + l \in 0 .. z
  BY <1>1, <1>4 DEF Closed
<1>7. o = [i \in 1 .. l |-> o[i]]
  BY <1>2
<1>8. Chars(d) = o
  <2>1. \A i \in 1 .. l : Char(d, a + i - 1) = o[i]
    BY <1>4, <1>5 DEF Char
  <2>2. Chars(d) = [i \in 1 .. l |-> Char(d, a + i - 1)]
    BY <1>1, Zenon DEF Chars
  <2> QED BY <1>7, <2>1, <2>2
<1>9. CString(d) = o
  <2> PICK E : E = {i \in DOMAIN s : i >= a /\ s[i] = NUL}
    OBVIOUS
  <2>1. E \in SUBSET Nat /\ a + l \in E
    BY <1>4, <1>6
  <2>2. \A i \in E : a + l <= i
    <3> SUFFICES ASSUME NEW i \in E, i < a + l PROVE FALSE
      BY <1>4, <2>1
    <3>1. i \in Nat /\ i >= a /\ s[i] = NUL
      BY <2>1
    <3>2. i - a + 1 \in 1 .. l /\ a + (i - a + 1) - 1 = i
      BY <1>4, <3>1
    <3> QED BY <1>2, <1>5, <3>1, <3>2
  <2>3. Min(E) = a + l
    <3>1. \E x \in E : \A y \in E : x <= y
      BY <2>1, <2>2
    <3>2. Min(E) \in E /\ \A y \in E : Min(E) <= y
      BY <3>1 DEF Min
    <3>3. Min(E) \in Nat /\ Min(E) <= a + l /\ a + l <= Min(E)
      BY <2>1, <2>2, <3>2
    <3> QED BY <1>4, <3>3
  <2>4. CString(d) = [i \in 1 .. (Min(E) - 1) - a + 1 |-> s[a + i - 1]]
    <3>1. E # {}
      BY <2>1
    <3> QED BY <3>1, Zenon DEF CString
  <2>5. (Min(E) - 1) - a + 1 = l
    BY <1>4, <2>3
  <2> QED BY <1>5, <1>7, <2>4, <2>5
<1> QED BY <1>8, <1>9

(* What memcpy writes, seen in the string.                                   *)
WriteAt(e, a, t) == [e EXCEPT !.s = Put(@, a, t)]
WroteIn(c, e, a, t) ==
    /\ Block(c) /\ c.start = e.start /\ c.len = e.len /\ c.refs = e.refs /\ c.reg = e.reg
    /\ c.size = e.size /\ Wrote(c.s, e.s, e.size, a, t)

LEMMA NewCharacters ==
    ASSUME NEW e, NEW a, NEW l, NEW z, NEW k, NEW s, NEW r,
           e = [start |-> a, len |-> l, size |-> z, refs |-> k, s |-> s, reg |-> r], NEW p
    PROVE  [e EXCEPT !.s = p] = [start |-> a, len |-> l, size |-> z, refs |-> k, s |-> p, reg |-> r]
OBVIOUS

LEMMA Written ==
    ASSUME NEW e, Block(e), NEW a \in Nat, NEW t \in Seq(Nat), a + Len(t) <= e.size + 1
    PROVE  WroteIn(WriteAt(e, a, t), e, a, t)
<1>1. /\ e.start \in Nat /\ e.len \in Nat /\ e.size \in Nat /\ e.refs \in Nat
      /\ e.s \in [0 .. e.size -> Nat] /\ e.start + e.len <= e.size /\ e.reg \in Seq(Nat)
      /\ e = [start |-> e.start, len |-> e.len, size |-> e.size, refs |-> e.refs,
              s |-> e.s, reg |-> e.reg]
  BY BlockFields
<1>p. PICK p : p = Put(e.s, a, t)
  OBVIOUS
<1>2. Wrote(p, e.s, e.size, a, t)
  BY <1>1, <1>p, PutText, Zenon
<1>c. PICK c : c = WriteAt(e, a, t)
  OBVIOUS
<1>3. c = [start |-> e.start, len |-> e.len, size |-> e.size, refs |-> e.refs,
           s |-> p, reg |-> e.reg]
  <2>1. [e EXCEPT !.s = p] = [start |-> e.start, len |-> e.len, size |-> e.size, refs |-> e.refs,
                              s |-> p, reg |-> e.reg]
    BY <1>1, NewCharacters
  <2>2. c = [e EXCEPT !.s = p]
    BY <1>p, <1>c DEF WriteAt
  <2> QED BY <2>1, <2>2
<1>4. p \in [0 .. e.size -> Nat]
  BY <1>2, Zenon DEF Wrote
<1>5. Block(c)
  BY <1>1, <1>3, <1>4, BlockMade
<1>6. /\ c.start = e.start /\ c.len = e.len /\ c.refs = e.refs /\ c.reg = e.reg
      /\ c.size = e.size /\ c.s = p
  BY <1>3
<1>7. WroteIn(c, e, a, t)
  BY <1>2, <1>5, <1>6 DEF WroteIn
<1> QED BY <1>7, <1>c

LEMMA PrepGood ==
    ASSUME NEW e, NEW o, TextOf(o), Len(o) <= MaxText, Prep(e, o, 0, Len(o)), Closed(e)
    PROVE  GoodText(e, o) /\ e.refs = 1
<1>1. Len(o) \in Nat
  BY TextFacts
<1>2. Block(e) /\ e.refs = 1 /\ e.len = Len(o) /\ e.reg = NoRegexp
  BY DEF Prep
<1>3. \A i \in 1 .. Len(o) : e.s[e.start + i - 1] = o[i]
  <2> TAKE i \in 1 .. Len(o)
  <2>1. 0 + i = i /\ i <= Len(o)
    BY <1>1
  <2> QED BY <2>1 DEF Prep
<1>4. Begins(e, o)
  BY <1>1, <1>2, <1>3 DEF Begins
<1> QED BY <1>2, <1>4 DEF GoodText

LEMMA PrepEnded ==
    ASSUME NEW e, NEW o, NEW st, NEW len, Prep(e, o, st, len),
           NEW c, c = WriteAt(e, e.start + e.len, <<NUL>>)
    PROVE  Prep(c, o, st, len) /\ Closed(c)
<1>1. Block(e) /\ e.refs = 1 /\ e.len = len /\ e.reg = NoRegexp
  BY DEF Prep
<1>2. e.start \in Nat /\ len \in Nat /\ e.size \in Nat /\ e.start + len <= e.size
  BY <1>1, BlockFields
<1> PICK a, t : a = e.start + e.len /\ t = <<NUL>>
  OBVIOUS
<1>3. t \in Seq(Nat) /\ Len(t) = 1 /\ t[1] = NUL
  BY DEF NUL
<1>4. a \in Nat /\ a + Len(t) <= e.size + 1 /\ a = e.start + len
  BY <1>1, <1>2, <1>3
<1>5. WroteIn(WriteAt(e, a, t), e, a, t)
  BY <1>1, <1>3, <1>4, Written
<1>6. /\ Block(c) /\ c.start = e.start /\ c.len = e.len /\ c.refs = e.refs /\ c.reg = e.reg
      /\ c.size = e.size
      /\ \A i \in 0 .. e.size : i < a \/ i >= a + Len(t) => c.s[i] = e.s[i]
      /\ \A j \in 1 .. Len(t) : c.s[a + j - 1] = t[j]
  BY <1>5 DEF WroteIn, Wrote
<1>7. c.s[a] = NUL
  <2>1. c.s[a + 1 - 1] = t[1] /\ a + 1 - 1 = a
    BY <1>3, <1>4, <1>6
  <2> QED BY <1>3, <2>1
<1>8. \A i \in 1 .. len : c.s[e.start + i - 1] = e.s[e.start + i - 1]
  <2> TAKE i \in 1 .. len
  <2> PICK x : x = e.start + i - 1
    OBVIOUS
  <2>1. x \in 0 .. e.size /\ x < a
    BY <1>2, <1>4
  <2> QED BY <1>6, <2>1
<1>9. Prep(c, o, st, len)
  <2>1. \A i \in 1 .. len : st + i <= Len(o) => c.s[c.start + i - 1] = o[st + i]
    BY <1>6, <1>8 DEF Prep
  <2> QED BY <1>1, <1>6, <2>1 DEF Prep
<1> QED BY <1>1, <1>4, <1>6, <1>7, <1>9 DEF Closed

(* What was cut, and what was written at the end.                            *)
CutPrepared(e, o, st, len, w) ==
    w = SubSeq(o, st + 1, st + len) => Prep(e, w, 0, len) /\ TextOf(w) /\ Len(w) = len
CopyPrepared(e, o, t, c, w) ==
    c = WriteAt(e, e.start + e.len - Len(t), t) /\ w = o \o t =>
        /\ Prep(c, w, 0, Len(o) + Len(t)) /\ TextOf(w) /\ Len(w) = Len(o) + Len(t)
        /\ Closed(e) => Closed(c)

LEMMA PrepCut ==
    ASSUME NEW e, NEW o, TextOf(o), NEW st \in Nat, NEW len \in Nat, st + len <= Len(o),
           Prep(e, o, st, len), NEW w
    PROVE  CutPrepared(e, o, st, len, w)
<1> SUFFICES ASSUME w = SubSeq(o, st + 1, st + len)
             PROVE  Prep(e, w, 0, len) /\ TextOf(w) /\ Len(w) = len
  BY Zenon DEF CutPrepared
<1>1. o \in Seq({Lower, Upper}) /\ Len(o) \in Nat
  BY DEF TextOf
<1>2. w \in Seq({Lower, Upper}) /\ Len(w) = len /\ \A i \in 1 .. len : w[i] = o[st + i]
  BY <1>1
<1>3. \A i \in 1 .. len : 0 + i <= Len(w) => e.s[e.start + i - 1] = w[0 + i]
  <2> TAKE i \in 1 .. len
  <2>1. 0 + i = i /\ st + i <= Len(o)
    BY <1>1
  <2> QED BY <1>2, <2>1 DEF Prep
<1> QED BY <1>2, <1>3 DEF Prep, TextOf

LEMMA PrepCopied ==
    ASSUME NEW e, NEW o, TextOf(o), NEW t, TextOf(t), Prep(e, o, 0, Len(o) + Len(t)), NEW c, NEW w
    PROVE  CopyPrepared(e, o, t, c, w)
<1>l. PICK len : len = Len(o) + Len(t)
  OBVIOUS
<1>0. SUFFICES ASSUME c = WriteAt(e, e.start + e.len - Len(t), t), w = o \o t
             PROVE  /\ Prep(c, w, 0, len) /\ TextOf(w) /\ Len(w) = len
                    /\ Closed(e) => Closed(c)
  BY <1>l, Zenon DEF CopyPrepared
<1>1. /\ o \in Seq({Lower, Upper}) /\ Len(o) \in Nat
      /\ t \in Seq({Lower, Upper}) /\ Len(t) \in Nat /\ t \in Seq(Nat)
  BY TextFacts DEF TextOf
<1>2. /\ w \in Seq({Lower, Upper}) /\ Len(w) = len
      /\ \A i \in 1 .. len : w[i] = IF i <= Len(o) THEN o[i] ELSE t[i - Len(o)]
  BY <1>0, <1>l, <1>1
<1>3. Block(e) /\ e.refs = 1 /\ e.len = len /\ e.reg = NoRegexp
  BY <1>l DEF Prep
<1>4. e.start \in Nat /\ len \in Nat /\ e.size \in Nat /\ e.start + len <= e.size
  BY <1>3, BlockFields
<1>a. PICK a : a = e.start + Len(o)
  OBVIOUS
<1>5. a \in Nat /\ a = e.start + e.len - Len(t) /\ a + Len(t) = e.start + len
      /\ a + Len(t) <= e.size + 1
  <2>1. a \in Nat /\ a + Len(t) = e.start + len
    BY <1>1, <1>4, <1>l, <1>a
  <2>2. e.len = len
    BY <1>3
  <2>5. a = e.start + len - Len(t)
    <3>k. PICK k : k = Len(t)
      OBVIOUS
    <3>1. k \in Nat /\ a + k = e.start + len
      BY <1>1, <2>1, <3>k
    <3>2. a = e.start + len - k
      BY <1>4, <2>1, <3>1
    <3> QED BY <3>2, <3>k
  <2>3. a = e.start + e.len - Len(t)
    BY <2>2, <2>5
  <2>4. a + Len(t) <= e.size + 1
    BY <1>4, <2>1
  <2> QED BY <2>1, <2>3, <2>4
<1>10. WroteIn(WriteAt(e, a, t), e, a, t)
  BY <1>1, <1>3, <1>5, Written
<1>6. /\ Block(c) /\ c.start = e.start /\ c.len = e.len /\ c.refs = e.refs /\ c.reg = e.reg
      /\ c.size = e.size
      /\ \A i \in 0 .. e.size : i < a \/ i >= a + Len(t) => c.s[i] = e.s[i]
      /\ \A j \in 1 .. Len(t) : c.s[a + j - 1] = t[j]
  BY <1>0, <1>5, <1>10 DEF WroteIn, Wrote
<1>7. \A i \in 1 .. len : c.s[c.start + i - 1] = w[i]
  <2> TAKE i \in 1 .. len
  <2>x. PICK x : x = e.start + i - 1
    OBVIOUS
  <2>1. CASE i <= Len(o)
    <3>4. i \in Nat /\ 1 <= i /\ i <= len
      BY <1>4
    <3>5. x \in Nat /\ x < a
      BY <1>1, <1>4, <1>a, <2>1, <2>x, <3>4, SMTT(30)
    <3>6. x <= e.size
      BY <1>1, <1>4, <1>5, <1>a, <1>l, <3>5, SMTT(30)
    <3>1. x \in 0 .. e.size /\ x < a /\ 0 + i = i
      BY <1>4, <3>4, <3>5, <3>6
    <3>2. c.s[x] = e.s[x]
      BY <1>6, <3>1
    <3>3. e.s[x] = o[i]
      BY <2>1, <3>1, <2>x, <1>1, <1>l DEF Prep
    <3> QED BY <1>2, <1>6, <2>1, <2>x, <3>2, <3>3
  <2>2. CASE ~(i <= Len(o))
    <3> PICK j : j = i - Len(o)
      OBVIOUS
    <3>1. j \in 1 .. Len(t) /\ x = a + j - 1
      BY <1>1, <1>4, <1>a, <1>l, <2>2, <2>x, SMTT(30)
    <3>2. c.s[a + j - 1] = t[j]
      BY <1>6, <3>1
    <3>3. w[i] = t[j]
      BY <1>2, <2>2
    <3>4. c.s[x] = t[j]
      BY <3>1, <3>2
    <3> QED BY <1>6, <2>x, <3>3, <3>4
  <2> QED BY <2>1, <2>2
<1>8. Prep(c, w, 0, len)
  <2>1. \A i \in 1 .. len : 0 + i <= Len(w) => c.s[c.start + i - 1] = w[0 + i]
    <3> TAKE i \in 1 .. len
    <3>1. 0 + i = i
      BY <1>4
    <3> QED BY <1>7, <3>1
  <2> QED BY <1>3, <1>6, <2>1 DEF Prep
<1>9. Closed(e) => Closed(c)
  <2>x. PICK x : x = e.start + len
    OBVIOUS
  <2>1. x \in 0 .. e.size /\ x >= a + Len(t)
    BY <1>4, <1>5, <2>x
  <2>2. c.s[x] = e.s[x]
    BY <1>6, <2>1
  <2> QED BY <1>3, <1>6, <2>x, <2>2 DEF Closed
<1> QED BY <1>2, <1>8, <1>9 DEF TextOf

(* prepare_text on the string itself: it is moved, resized in place or cut.   *)
Off(o, st, len) == st \in Nat /\ len \in 0 .. MaxText /\ (st = 0 \/ st + len <= Len(o))
Stay(d, start, len) ==
    [i \in 1 .. (IF len > d.len THEN d.len ELSE len) |-> Char(d, start + i - 1)]
Moved1(d, start, len) == [string_new(len) EXCEPT !.len = len, !.s = Put(@, 0, Stay(d, start, len))]
Resized1(d, len) == [d EXCEPT !.len = len, !.size = TextSize(len),
                              !.s = [i \in 0 .. TextSize(len) |-> Char(d, i)]]
Cut1(d, start, len) == [d EXCEPT !.start = start, !.len = len, !.reg = NoRegexp]
Grown1(d, start, len) ==
    IF ResizeNeeded(d, start, len) THEN Resized1(d, len) ELSE Cut1(d, start, len)
HandledAt(d, start, len) ==
    /\ len > d.len => d.start = 0
    /\ ResizeNeeded(d, start, len) => d.reg = NoRegexp

LEMMA TextParts ==
    ASSUME NEW d, NEW o, GoodText(d, o)
    PROVE  /\ o \in Seq(Nat) /\ Len(o) \in Nat /\ \A i \in 1 .. Len(o) : o[i] \in Nat
           /\ d.start \in Nat /\ d.len \in Nat /\ d.size \in Nat /\ d.refs \in Nat
           /\ d.s \in [0 .. d.size -> Nat] /\ d.start + d.len <= d.size /\ d.reg \in Seq(Nat)
           /\ d = [start |-> d.start, len |-> d.len, size |-> d.size, refs |-> d.refs,
                   s |-> d.s, reg |-> d.reg]
           /\ d.len = Len(o) /\ d.s[d.start + d.len] = NUL
           /\ \A i \in 1 .. Len(o) : d.s[d.start + i - 1] = o[i]
<1>1. TextOf(o) /\ Block(d) /\ d.len = Len(o) /\ Begins(d, o) /\ Closed(d)
  BY DEF GoodText
<1>2. o \in Seq(Nat) /\ Len(o) \in Nat /\ \A i \in 1 .. Len(o) : o[i] \in Nat
  BY <1>1, TextFacts
<1>3. d.s[d.start + d.len] = NUL /\ \A i \in 1 .. Len(o) : d.s[d.start + i - 1] = o[i]
  BY <1>1 DEF Begins, Closed
<1> QED BY <1>1, <1>2, <1>3, BlockFields

(* The characters from st on, of a string.                                   *)
LEMMA CharIs ==
    ASSUME NEW d, NEW o, GoodText(d, o), NEW st \in Nat, NEW i \in Nat \ {0}, st + i <= Len(o)
    PROVE  d.start + st + i - 1 \in 0 .. d.size /\ Char(d, d.start + st + i - 1) = o[st + i]
<1>1. /\ Len(o) \in Nat /\ d.start \in Nat /\ d.len \in Nat /\ d.size \in Nat
      /\ d.s \in [0 .. d.size -> Nat] /\ d.start + d.len <= d.size /\ d.len = Len(o)
      /\ \A j \in 1 .. Len(o) : d.s[d.start + j - 1] = o[j]
  BY TextParts
<1> PICK j : j = st + i
  OBVIOUS
<1>2. j \in 1 .. Len(o) /\ d.start + st + i - 1 = d.start + j - 1
  BY <1>1
<1> PICK x : x = d.start + j - 1
  OBVIOUS
<1>3. x \in 0 .. d.size /\ d.s[x] = o[j]
  <2>1. x \in 0 .. d.size
    BY <1>1, <1>2, SMTT(30)
  <2>2. d.s[d.start + j - 1] = o[j]
    BY <1>1, <1>2
  <2> QED BY <2>1, <2>2
<1>4. Char(d, x) = o[j]
  BY <1>1, <1>3 DEF Char
<1> QED BY <1>2, <1>3, <1>4

LEMMA StayIs ==
    ASSUME NEW d, NEW o, GoodText(d, o), NEW st, NEW len, Off(o, st, len),
           NEW t, t = Stay(d, d.start + st, len)
    PROVE  /\ t \in Seq(Nat) /\ Len(t) <= len
           /\ \A i \in 1 .. len : st + i <= Len(o) => i <= Len(t) /\ t[i] = o[st + i]
<1>1. /\ Len(o) \in Nat /\ d.start \in Nat /\ d.len \in Nat /\ d.len = Len(o)
      /\ \A i \in 1 .. Len(o) : o[i] \in Nat
  BY TextParts
<1>2. st \in Nat /\ len \in Nat /\ (st = 0 \/ st + len <= Len(o))
  BY StringsAssumption DEF Off
<1> PICK k : k = IF len > Len(o) THEN Len(o) ELSE len
  OBVIOUS
<1>3. k \in Nat /\ k <= len /\ st + k <= Len(o)
  BY <1>1, <1>2
<1>4. t = [i \in 1 .. k |-> Char(d, (d.start + st) + i - 1)]
  BY <1>1 DEF Stay
<1>5. ASSUME NEW i \in 1 .. k
      PROVE  Char(d, (d.start + st) + i - 1) = o[st + i] /\ o[st + i] \in Nat
  <2>1. i \in Nat \ {0} /\ st + i <= Len(o) /\ st + i \in 1 .. Len(o)
    BY <1>1, <1>2, <1>3
  <2>2. Char(d, d.start + st + i - 1) = o[st + i]
    BY <1>2, <2>1, CharIs
  <2> QED BY <1>1, <2>1, <2>2
<1>6. t \in [1 .. k -> Nat] /\ \A i \in 1 .. k : t[i] = o[st + i]
  BY <1>4, <1>5
<1>7. t \in Seq(Nat) /\ Len(t) = k
  BY <1>3, <1>6
<1>8. \A i \in 1 .. len : st + i <= Len(o) => i \in 1 .. k
  BY <1>1, <1>2
<1> QED BY <1>3, <1>6, <1>7, <1>8

LEMMA MovedIs ==
    ASSUME NEW d, NEW o, GoodText(d, o), NEW st, NEW len, Off(o, st, len),
           NEW e, e = Moved1(d, d.start + st, len)
    PROVE  Prep(e, o, st, len) /\ Closed(e)
<1>n. PICK n : n = string_new(len)
  OBVIOUS
<1>1. AllNul(n) /\ n.len = 0 /\ len <= n.size /\ len \in Nat
  <2>1. len \in 0 .. MaxText /\ len \in Nat
    BY StringsAssumption DEF Off
  <2> QED BY <2>1, <1>n, StringNewIs
<1>2. /\ n.size \in Nat /\ n.s \in [0 .. n.size -> Nat] /\ NoRegexp \in Seq(Nat)
      /\ n = [start |-> 0, len |-> 0, size |-> n.size, refs |-> 1, s |-> n.s, reg |-> NoRegexp]
      /\ \A i \in 0 .. n.size : n.s[i] = NUL
  <2>1. Block(n) /\ n.start = 0 /\ n.refs = 1 /\ n.reg = NoRegexp /\ n.len = 0
        /\ \A i \in 0 .. n.size : n.s[i] = NUL
    BY <1>1 DEF AllNul
  <2>2. /\ n.size \in Nat /\ n.s \in [0 .. n.size -> Nat] /\ n.reg \in Seq(Nat)
        /\ n = [start |-> n.start, len |-> n.len, size |-> n.size, refs |-> n.refs,
                s |-> n.s, reg |-> n.reg]
    BY <2>1, BlockFields
  <2> QED BY <2>1, <2>2
<1>f. PICK f : f = [n EXCEPT !.len = len]
  OBVIOUS
<1>3. f = [start |-> 0, len |-> len, size |-> n.size, refs |-> 1, s |-> n.s, reg |-> NoRegexp]
  BY <1>2, <1>f
<1>4. Block(f)
  <2>1. 0 \in Nat /\ 1 \in Nat /\ 0 + len <= n.size
    BY <1>1
  <2> QED BY <1>1, <1>2, <1>3, <2>1, BlockMade
<1>5. f.start = 0 /\ f.len = len /\ f.size = n.size /\ f.refs = 1 /\ f.s = n.s /\ f.reg = NoRegexp
  BY <1>3
<1>t. PICK t : t = Stay(d, d.start + st, len)
  OBVIOUS
<1>6. /\ t \in Seq(Nat) /\ Len(t) <= len /\ Len(t) \in Nat
      /\ \A i \in 1 .. len : st + i <= Len(o) => i <= Len(t) /\ t[i] = o[st + i]
  BY <1>t, StayIs
<1>7. e = WriteAt(f, 0, t)
  <2>1. [n EXCEPT !.len = len, !.s = Put(@, 0, t)] = [[n EXCEPT !.len = len] EXCEPT !.s = Put(@, 0, t)]
    OBVIOUS
  <2> QED BY <2>1, <1>n, <1>f, <1>t, Zenon DEF Moved1, WriteAt
<1> PICK a : a = 0
  OBVIOUS
<1>8. WroteIn(WriteAt(f, a, t), f, a, t)
  <2>1. a \in Nat /\ a + Len(t) <= f.size + 1
    BY <1>1, <1>2, <1>5, <1>6
  <2> QED BY <1>4, <1>6, <2>1, Written
<1>9. /\ Block(e) /\ e.start = 0 /\ e.len = len /\ e.refs = 1 /\ e.reg = NoRegexp
      /\ \A i \in 0 .. n.size : i >= Len(t) => e.s[i] = NUL
      /\ \A j \in 1 .. Len(t) : e.s[j - 1] = t[j]
  <2>1. WroteIn(e, f, 0, t)
    BY <1>7, <1>8
  <2>2. /\ \A i \in 0 .. n.size : i >= 0 + Len(t) => e.s[i] = n.s[i]
        /\ \A j \in 1 .. Len(t) : e.s[0 + j - 1] = t[j]
    BY <1>5, <2>1 DEF WroteIn, Wrote
  <2>3. \A j \in 1 .. Len(t) : 0 + j - 1 = j - 1
    OBVIOUS
  <2>4. 0 + Len(t) = Len(t)
    BY <1>6
  <2> QED BY <1>2, <1>5, <2>1, <2>2, <2>3, <2>4 DEF WroteIn
<1>10. Closed(e)
  <2>1. len \in 0 .. n.size /\ len >= Len(t) /\ 0 + len = len
    BY <1>1, <1>2, <1>6
  <2> QED BY <1>9, <2>1 DEF Closed
<1>11. \A i \in 1 .. len : st + i <= Len(o) => e.s[e.start + i - 1] = o[st + i]
  <2> SUFFICES ASSUME NEW i \in 1 .. len, st + i <= Len(o) PROVE e.s[e.start + i - 1] = o[st + i]
    OBVIOUS
  <2>1. i \in 1 .. Len(t) /\ t[i] = o[st + i] /\ 0 + i - 1 = i - 1
    BY <1>6
  <2> QED BY <1>9, <2>1
<1> QED BY <1>9, <1>10, <1>11 DEF Prep

LEMMA GrownTextIs ==
    ASSUME NEW d, NEW o, GoodText(d, o), d.refs = 1, NEW st, NEW len, Off(o, st, len),
           NEW a, a = d.start + st, HandledAt(d, a, len), ~MoveNeeded(d, a, len),
           NEW e, e = Grown1(d, a, len)
    PROVE  /\ Prep(e, o, st, len)
           /\ a + len <= d.size /\ d.s[a + len] = NUL => Closed(e)
<1>1. /\ Len(o) \in Nat /\ \A i \in 1 .. Len(o) : o[i] \in Nat
      /\ d.start \in Nat /\ d.len \in Nat /\ d.size \in Nat
      /\ d.s \in [0 .. d.size -> Nat] /\ d.start + d.len <= d.size /\ d.reg \in Seq(Nat)
      /\ d = [start |-> d.start, len |-> d.len, size |-> d.size, refs |-> d.refs,
              s |-> d.s, reg |-> d.reg]
      /\ d.len = Len(o)
  BY TextParts
<1>2. st \in Nat /\ len \in 0 .. MaxText /\ len \in Nat /\ (st = 0 \/ st + len <= Len(o))
  BY StringsAssumption DEF Off
<1>3. a \in Nat
  BY <1>1, <1>2
<1>4. NoRegexp \in Seq(Nat) /\ Junk \in Nat
  BY DEF NoRegexp, Junk
<1>5. ASSUME ResizeNeeded(d, a, len)
      PROVE  /\ Prep(e, o, st, len)
             /\ a + len <= d.size /\ d.s[a + len] = NUL => Closed(e)
  <2>1. a = 0 /\ d.start = 0 /\ st = 0
    BY <1>1, <1>2, <1>3, <1>5 DEF MoveNeeded
  <2>2. d.reg = NoRegexp
    BY <1>5 DEF HandledAt
  <2>z. PICK z : z = TextSize(len)
    OBVIOUS
  <2>3. z \in Nat /\ len <= z
    BY <1>2, <2>z, TextSizeIs
  <2>s. PICK s : s = [i \in 0 .. z |-> Char(d, i)]
    OBVIOUS
  <2>4. ASSUME NEW i \in 0 .. z PROVE Char(d, i) \in Nat
    BY <1>1, <1>4 DEF Char
  <2>5. s \in [0 .. z -> Nat] /\ \A i \in 0 .. z : s[i] = Char(d, i)
    BY <2>4, <2>s
  <2>6. e = [start |-> 0, len |-> len, size |-> z, refs |-> 1, s |-> s, reg |-> NoRegexp]
    <3>1. e = [d EXCEPT !.len = len, !.size = z, !.s = s]
      BY <1>5, <2>z, <2>s, Zenon DEF Grown1, Resized1
    <3> QED BY <1>1, <2>1, <2>2, <3>1
  <2>7. Block(e)
    <3>1. 0 \in Nat /\ 1 \in Nat /\ 0 + len <= z
      BY <1>2, <2>3
    <3> QED BY <1>2, <1>4, <2>3, <2>5, <2>6, <3>1, BlockMade
  <2>8. e.start = 0 /\ e.len = len /\ e.refs = 1 /\ e.s = s /\ e.reg = NoRegexp
    BY <2>6
  <2>9. \A i \in 1 .. len : st + i <= Len(o) => e.s[e.start + i - 1] = o[st + i]
    <3> SUFFICES ASSUME NEW i \in 1 .. len, st + i <= Len(o) PROVE e.s[e.start + i - 1] = o[st + i]
      OBVIOUS
    <3>1. i \in Nat \ {0} /\ 0 + i - 1 = i - 1 /\ d.start + st + i - 1 = i - 1 /\ i - 1 \in 0 .. z
      BY <2>1, <2>3, <1>2
    <3>2. Char(d, d.start + st + i - 1) = o[st + i]
      BY <1>2, <3>1, CharIs
    <3> QED BY <2>5, <2>8, <3>1, <3>2
  <2>10. ASSUME a + len <= d.size, d.s[a + len] = NUL PROVE Closed(e)
    <3>1. a + len = len /\ 0 + len = len /\ len \in 0 .. d.size /\ len \in 0 .. z
      BY <1>2, <2>1, <2>3, <2>10
    <3>2. Char(d, len) = NUL
      BY <1>1, <2>10, <3>1 DEF Char
    <3> QED BY <2>5, <2>8, <3>1, <3>2 DEF Closed
  <2> QED BY <2>7, <2>8, <2>9, <2>10 DEF Prep
<1>6. ASSUME ~ResizeNeeded(d, a, len)
      PROVE  /\ Prep(e, o, st, len)
             /\ a + len <= d.size /\ d.s[a + len] = NUL => Closed(e)
  <2>1. len <= d.size
    BY <1>1, <1>2, <1>6 DEF ResizeNeeded
  <2>2. a + len <= d.size
    <3>1. CASE len > d.len
      <4>1. d.start = 0
        BY <3>1 DEF HandledAt
      <4>2. st = 0
        BY <1>1, <1>2, <3>1
      <4> QED BY <1>1, <1>2, <2>1, <4>1, <4>2
    <3>2. CASE ~(len > d.len)
      BY <1>1, <1>2, <3>2
    <3> QED BY <3>1, <3>2
  <2>3. e = [start |-> a, len |-> len, size |-> d.size, refs |-> 1, s |-> d.s, reg |-> NoRegexp]
    <3>1. e = [d EXCEPT !.start = a, !.len = len, !.reg = NoRegexp]
      BY <1>6, Zenon DEF Grown1, Cut1
    <3> QED BY <1>1, <3>1
  <2>4. Block(e)
    <3>1. 1 \in Nat
      OBVIOUS
    <3> QED BY <1>1, <1>2, <1>3, <1>4, <2>2, <2>3, <3>1, BlockMade
  <2>5. e.start = a /\ e.len = len /\ e.refs = 1 /\ e.s = d.s /\ e.reg = NoRegexp
    BY <2>3
  <2>6. \A i \in 1 .. len : st + i <= Len(o) => e.s[e.start + i - 1] = o[st + i]
    <3> SUFFICES ASSUME NEW i \in 1 .. len, st + i <= Len(o) PROVE e.s[e.start + i - 1] = o[st + i]
      OBVIOUS
    <3>1. i \in Nat \ {0} /\ d.start + st + i - 1 = a + i - 1
      BY <1>2
    <3>2. d.start + st + i - 1 \in 0 .. d.size /\ Char(d, d.start + st + i - 1) = o[st + i]
      BY <1>2, <3>1, CharIs
    <3>3. d.s[a + i - 1] = o[st + i]
      BY <1>1, <3>1, <3>2 DEF Char
    <3> QED BY <2>5, <3>3
  <2>7. ASSUME d.s[a + len] = NUL PROVE Closed(e)
    BY <2>5, <2>7 DEF Closed
  <2> QED BY <2>4, <2>5, <2>6, <2>7 DEF Prep
<1> QED BY <1>5, <1>6

(* Strings are counted values: what one means is its text.                   *)
GoodTexts == {x \in TextRecords \X Seq(Nat) : GoodText(x[1], x[2])}
TextShares(h, b, m, S) == Shares(h, b, m, Addresses, S, GoodTexts)
TextSetting(S) == Setting(Addresses, S, GoodTexts, Unused)
TextInv == TextShares(strings, texts, meanings, Places)

LEMMA GoodTextIn ==
    ASSUME NEW d, NEW o
    PROVE  <<d, o>> \in GoodTexts <=> GoodText(d, o)
<1>1. GoodText(d, o) => d \in TextRecords /\ o \in Seq(Nat)
  BY TextFacts DEF GoodText, Block
<1> QED BY <1>1 DEF GoodTexts

LEMMA TextRecount ==
    ASSUME NEW d, NEW o, GoodText(d, o), NEW k \in Nat
    PROVE  GoodText(Recount(d, k), o) /\ Recount(d, k).refs = k
<1>1. /\ d.start \in Nat /\ d.len \in Nat /\ d.size \in Nat /\ d.refs \in Nat
      /\ d.s \in [0 .. d.size -> Nat] /\ d.start + d.len <= d.size /\ d.reg \in Seq(Nat)
      /\ d = [start |-> d.start, len |-> d.len, size |-> d.size, refs |-> d.refs,
              s |-> d.s, reg |-> d.reg]
  BY TextParts
<1>c. PICK c : c = Recount(d, k)
  OBVIOUS
<1>2. c = [start |-> d.start, len |-> d.len, size |-> d.size, refs |-> k, s |-> d.s, reg |-> d.reg]
  BY <1>1, <1>c DEF Recount
<1>3. /\ c.start = d.start /\ c.len = d.len /\ c.size = d.size /\ c.refs = k /\ c.s = d.s
      /\ c.reg = d.reg
  BY <1>2
<1>4. Block(c)
  BY <1>1, <1>2, BlockMade
<1>5. GoodText(c, o)
  BY <1>3, <1>4 DEF GoodText, Begins, Closed
<1> QED BY <1>3, <1>5, <1>c

LEMMA TextSettingIs ==
    TextSetting(Places) /\ "top" \in Places /\ "code" \in Places /\ TextVars \subseteq Places
    /\ "top" \notin TextVars /\ "code" \notin TextVars /\ "none" \notin TextVars
<1>1. IsFiniteSet(Places)
  <2>1. IsFiniteSet(TextVars)
    BY StringsAssumption
  <2>2. IsFiniteSet(TextVars \cup {"top"})
    BY <2>1, FS_AddElement
  <2>3. IsFiniteSet((TextVars \cup {"top"}) \cup {"code"})
    BY <2>2, FS_AddElement
  <2>4. Places = (TextVars \cup {"top"}) \cup {"code"}
    BY DEF Places
  <2> QED BY <2>3, <2>4
<1>2. 0 \notin Addresses
  BY StringsAssumption DEF Addresses
<1>3. Unused.refs = 0
  BY DEF Unused
<1>4. ASSUME NEW x \in GoodTexts, NEW k \in Nat
      PROVE  <<Recount(x[1], k), x[2]>> \in GoodTexts /\ Recount(x[1], k).refs = k
  <2> PICK d \in TextRecords, o \in Seq(Nat) : x = <<d, o>> /\ GoodText(d, o)
    BY DEF GoodTexts
  <2>1. GoodText(Recount(d, k), o) /\ Recount(d, k).refs = k
    BY TextRecount
  <2>2. <<Recount(d, k), o>> \in GoodTexts
    BY <2>1, GoodTextIn
  <2>3. x[1] = d /\ x[2] = o
    OBVIOUS
  <2> QED BY <2>1, <2>2, <2>3
<1>6. /\ "top" \in Places /\ "code" \in Places /\ TextVars \subseteq Places
      /\ "top" \notin TextVars /\ "code" \notin TextVars /\ "none" \notin TextVars
  BY StringsAssumption DEF Places
<1> HIDE DEF GoodTexts, Addresses, Places, Unused
<1>5. Meaningful(GoodTexts)
  BY <1>4 DEF Meaningful
<1>7. TextSetting(Places)
  BY <1>1, <1>2, <1>3, <1>5, Zenon DEF Setting, TextSetting
<1> QED BY <1>6, <1>7

(* What prepare_text has to return: a string that nobody else refers to, at  *)
(* an address where any text may now be put.                                 *)
TextReady(S, b, m, p, e) ==
    /\ p = [heap |-> p.heap, ref |-> p.ref]
    /\ p.heap[p.ref] = e /\ PutIn(p.heap, p.ref, e) = p.heap
    /\ \A d, o : GoodText(d, o) /\ d.refs = 1 =>
        TextShares(PutIn(p.heap, p.ref, d), PutIn(b, "top", p.ref), PutIn(m, "top", o), S)
TextDone(S, b, m, q, o) ==
    TextShares(q.heap, PutIn(b, "top", q.ref), PutIn(m, "top", o), S)

LEMMA ReadyDone ==
    ASSUME NEW S, NEW b, NEW m, NEW p, NEW e, TextReady(S, b, m, p, e),
           NEW o, GoodText(e, o), e.refs = 1
    PROVE  TextDone(S, b, m, p, o)
<1>1. TextShares(PutIn(p.heap, p.ref, e), PutIn(b, "top", p.ref), PutIn(m, "top", o), S)
  BY Zenon DEF TextReady
<1>2. PutIn(p.heap, p.ref, e) = p.heap
  BY Zenon DEF TextReady
<1> QED BY <1>1, <1>2 DEF TextDone

LEMMA ReadyPut ==
    ASSUME NEW S, NEW b, NEW m, NEW p, NEW e, TextReady(S, b, m, p, e), NEW y,
           p.ref \in DOMAIN p.heap
    PROVE  /\ TextReady(S, b, m, [p EXCEPT !.heap[p.ref].s = y], [e EXCEPT !.s = y])
           /\ [p EXCEPT !.heap[p.ref].s = y].ref \in DOMAIN [p EXCEPT !.heap[p.ref].s = y].heap
<1>f. PICK f, n : f = p.heap /\ n = p.ref
  OBVIOUS
<1>1. p = [heap |-> f, ref |-> n] /\ f[n] = e /\ n \in DOMAIN f
  BY <1>f, Zenon DEF TextReady
<1>c. PICK c : c = [e EXCEPT !.s = y]
  OBVIOUS
<1>q. PICK q : q = [p EXCEPT !.heap[p.ref].s = y]
  OBVIOUS
<1>g. PICK g : g = PutIn(f, n, c)
  OBVIOUS
<1>2. q = [heap |-> g, ref |-> n]
  <2>1. [p EXCEPT !.heap[p.ref].s = y] = [heap |-> PutIn(f, n, [f[n] EXCEPT !.s = y]), ref |-> n]
    BY <1>1, DeepPut
  <2>2. [f[n] EXCEPT !.s = y] = c
    BY <1>1, <1>c
  <2> QED BY <1>q, <1>g, <2>1, <2>2
<1>3. q.heap = g /\ q.ref = n /\ q = [heap |-> q.heap, ref |-> q.ref]
  BY <1>2
<1>4. g[n] = c /\ n \in DOMAIN g
  BY <1>1, <1>g DEF PutIn
<1>5. \A x : PutIn(g, n, x) = PutIn(f, n, x)
  BY <1>g, PutTwice
<1>6. ASSUME NEW d, NEW o, GoodText(d, o), d.refs = 1
      PROVE  TextShares(PutIn(g, n, d), PutIn(b, "top", n), PutIn(m, "top", o), S)
  <2>1. TextShares(PutIn(p.heap, p.ref, d), PutIn(b, "top", p.ref), PutIn(m, "top", o), S)
    BY <1>6, Zenon DEF TextReady
  <2>2. PutIn(g, n, d) = PutIn(f, n, d)
    BY <1>5
  <2> QED BY <1>f, <2>1, <2>2
<1>7. PutIn(g, n, c) = g
  BY <1>5, <1>g
<1>8. TextReady(S, b, m, q, c)
  BY <1>3, <1>4, <1>6, <1>7 DEF TextReady
<1> QED BY <1>3, <1>4, <1>8, <1>q, <1>c

LEMMA PutAside ==
    ASSUME NEW h, NEW n, NEW r, n # r, r = 0 \/ r \in DOMAIN h, NEW e, NEW none
    PROVE  Discard(PutIn(h, n, e), r, none) = PutIn(Discard(h, r, none), n, e)
<1>1. CASE r = 0
  BY <1>1 DEF Discard
<1>2. CASE r # 0
  <2>1. PutIn(h, n, e)[r] = h[r]
    BY <1>2 DEF PutIn
  <2>2. CASE h[r].refs = 1
    BY <1>2, <2>1, <2>2 DEF Discard, PutIn
  <2>3. CASE h[r].refs # 1
    <3> PICK c : c = [h[r] EXCEPT !.refs = @ - 1]
      OBVIOUS
    <3>1. [h EXCEPT ![r].refs = @ - 1] = PutIn(h, r, c)
      BY DEF PutIn
    <3>2. [PutIn(h, n, e) EXCEPT ![r].refs = @ - 1] = PutIn(PutIn(h, n, e), r, c)
      BY <2>1 DEF PutIn
    <3>3. PutIn(PutIn(h, n, e), r, c) = PutIn(PutIn(h, r, c), n, e)
      BY DEF PutIn
    <3> QED BY <1>2, <2>1, <2>3, <3>1, <3>2, <3>3 DEF Discard
  <2> QED BY <2>2, <2>3
<1> QED BY <1>1, <1>2

(* What the operators rely on.                                               *)
TextStart(S, h, b, m) ==
    /\ TextSetting(S) /\ "top" \in S
    /\ TextShares(h, b, m, S) /\ b["top"] # 0
    /\ \E n \in Addresses : h[n] = Unused

LEMMA StartFacts ==
    ASSUME NEW S, NEW h, NEW b, NEW m, TextStart(S, h, b, m),
           NEW r, r = b["top"], NEW d, d = h[r], NEW o, o = m["top"]
    PROVE  /\ GoodText(d, o) /\ d.refs \in Nat \ {0} /\ r \in Addresses /\ r # 0
           /\ DOMAIN h = Addresses /\ DOMAIN b = S /\ DOMAIN m = S /\ 0 \notin Addresses
           /\ b \in [S -> Addresses \cup {0}]
<1> HIDE DEF GoodTexts, Addresses, Places, Unused
<1>t. PICK t : t = "top"
  OBVIOUS
<1>1. t \in S /\ b[t] = r /\ m[t] = o /\ r # 0
  BY <1>t, Zenon DEF TextStart
<1>2. Setting(Addresses, S, GoodTexts, Unused) /\ Shares(h, b, m, Addresses, S, GoodTexts)
  BY Zenon DEF TextStart, TextSetting, TextShares
<1>3. /\ DOMAIN h = Addresses /\ DOMAIN b = S /\ DOMAIN m = S /\ 0 \notin Addresses
      /\ \A q \in Addresses : h[q].refs = Count(b, q) /\ Count(b, q) \in Nat
      /\ b[t] \in Addresses \cup {0}
      /\ b[t] # 0 => <<h[b[t]], m[t]>> \in GoodTexts /\ Count(b, b[t]) # 0
  BY <1>1, <1>2, ShareFacts
<1>4. b \in [S -> Addresses \cup {0}]
  BY <1>2, Zenon DEF Shares, Placed
<1>5. r \in Addresses /\ <<d, o>> \in GoodTexts /\ d.refs \in Nat \ {0}
  BY <1>1, <1>3
<1>6. GoodText(d, o)
  BY <1>5, GoodTextIn
<1> QED BY <1>1, <1>3, <1>4, <1>5, <1>6

(* prepare_text: a copy, or the string itself where nobody else has it.      *)
MovedAt(h, r, start, len) == [ref |-> CHOOSE n \in Addresses : h[n] = Unused,
    heap |-> string_discard([h EXCEPT ![CHOOSE n \in Addresses : h[n] = Unused] =
                                Moved1(h[r], start, len)], r)]
GrownAt(h, r, start, len) == [ref |-> r, heap |-> PutIn(h, r, Grown1(h[r], start, len))]

LEMMA PrepareIs ==
    ASSUME NEW h, NEW r, NEW start, NEW len
    PROVE  prepare_text(h, r, start, len) =
             IF MoveNeeded(h[r], start, len) THEN MovedAt(h, r, start, len)
             ELSE GrownAt(h, r, start, len)
<1>1. MovedText(h, r, start, len) = MovedAt(h, r, start, len)
  BY Zenon DEF MovedText, MovedAt, Moved1, Stay
<1>2. ResizeNeeded(h[r], start, len) => ResizedText(h, r, len) = GrownAt(h, r, start, len)
  BY Zenon DEF ResizedText, GrownAt, Grown1, Resized1, PutIn
<1>3. ~ResizeNeeded(h[r], start, len) =>
        [ref |-> r, heap |-> [h EXCEPT ![r] =
            [@ EXCEPT !.start = start, !.len = len, !.reg = NoRegexp]]] = GrownAt(h, r, start, len)
  BY Zenon DEF GrownAt, Grown1, Cut1, PutIn
<1> QED BY <1>1, <1>2, <1>3 DEF prepare_text

LEMMA TextPrepared ==
    ASSUME NEW S, NEW h, NEW b, NEW m, TextStart(S, h, b, m),
           NEW d, d = h[b["top"]], NEW o, o = m["top"],
           NEW st, NEW len, Off(o, st, len), NEW a, a = d.start + st,
           MoveNeeded(d, a, len) \/ HandledAt(d, a, len),
           NEW p, p = prepare_text(h, b["top"], a, len)
    PROVE  \E e : /\ TextReady(S, b, m, p, e) /\ p.ref \in DOMAIN p.heap /\ Prep(e, o, st, len)
                  /\ \/ MoveNeeded(d, a, len)
                     \/ a + len <= d.size /\ d.s[a + len] = NUL
                     => Closed(e)
<1> HIDE DEF GoodTexts, Addresses, Places, Unused
<1>r. PICK r : r = b["top"]
  OBVIOUS
<1>t. PICK t : t = "top"
  OBVIOUS
<1>1. /\ GoodText(d, o) /\ d.refs \in Nat \ {0} /\ r \in Addresses /\ r # 0
      /\ DOMAIN h = Addresses /\ DOMAIN b = S /\ DOMAIN m = S /\ 0 \notin Addresses
      /\ b \in [S -> Addresses \cup {0}]
  BY <1>r, StartFacts
<1>2. Setting(Addresses, S, GoodTexts, Unused) /\ Shares(h, b, m, Addresses, S, GoodTexts)
  BY Zenon DEF TextStart, TextSetting, TextShares
<1>3. t \in S /\ b[t] = r /\ m[t] = o /\ d = h[r]
  BY <1>r, <1>t DEF TextStart
<1>4. CASE MoveNeeded(d, a, len)
  <2>n. PICK n : n = CHOOSE q \in Addresses : h[q] = Unused
    OBVIOUS
  <2>1. n \in Addresses /\ h[n] = Unused
    BY <2>n, Zenon DEF TextStart
  <2>2. h[n].refs = 0 /\ n # r
    <3>1. Unused.refs = 0
      BY DEF Unused
    <3> QED BY <1>1, <1>3, <2>1, <3>1
  <2>e. PICK e : e = Moved1(d, a, len)
    OBVIOUS
  <2>3. Prep(e, o, st, len) /\ Closed(e)
    BY <1>1, <2>e, MovedIs
  <2>f. PICK f : f = Discard(h, r, Unused)
    OBVIOUS
  <2>4. p = [ref |-> n, heap |-> PutIn(f, n, e)]
    <3>1. p = MovedAt(h, r, a, len)
      BY <1>3, <1>4, <1>r, PrepareIs
    <3>2. MovedAt(h, r, a, len) = [ref |-> n, heap |-> string_discard(PutIn(h, n, e), r)]
      BY <1>3, <2>n, <2>e, Zenon DEF MovedAt, PutIn
    <3>3. string_discard(PutIn(h, n, e), r) = Discard(PutIn(h, n, e), r, Unused)
      BY Zenon DEF string_discard, Discard
    <3>4. Discard(PutIn(h, n, e), r, Unused) = PutIn(Discard(h, r, Unused), n, e)
      BY <1>1, <2>2, PutAside
    <3> QED BY <2>f, <3>1, <3>2, <3>3, <3>4
  <2>5. DOMAIN f = Addresses
    BY <1>1, <2>f DEF Discard
  <2>g. PICK g : g = PutIn(f, n, e)
    OBVIOUS
  <2>6. n \in DOMAIN g /\ g[n] = e
    BY <2>1, <2>5, <2>g DEF PutIn
  <2>7. \A x : PutIn(g, n, x) = PutIn(f, n, x)
    BY <2>g, PutTwice
  <2>8. p.heap = g /\ p.ref = n /\ p = [heap |-> p.heap, ref |-> p.ref]
    BY <2>4, <2>g
  <2>9. ASSUME NEW c, NEW w, GoodText(c, w), c.refs = 1
        PROVE  TextShares(PutIn(g, n, c), PutIn(b, "top", n), PutIn(m, "top", w), S)
    <3>1. <<c, w>> \in GoodTexts
      BY <2>9, GoodTextIn
    <3>2. b[t] # 0
      BY <1>1, <1>3
    <3>3. Shares(PutIn(Discard(h, b[t], Unused), n, c), PutIn(b, t, n), PutIn(m, t, w),
                 Addresses, S, GoodTexts)
      BY <1>2, <1>3, <2>1, <2>2, <2>9, <3>1, <3>2, Part
    <3>4. PutIn(g, n, c) = PutIn(f, n, c)
      BY <2>7
    <3> QED BY <1>3, <1>t, <2>f, <3>3, <3>4 DEF TextShares
  <2>10. TextReady(S, b, m, p, e)
    <3>1. PutIn(g, n, e) = g
      BY <2>7, <2>g
    <3> QED BY <2>6, <2>8, <2>9, <3>1 DEF TextReady
  <2> QED BY <2>3, <2>6, <2>8, <2>10
<1>5. CASE ~MoveNeeded(d, a, len)
  <2>e. PICK e : e = Grown1(d, a, len)
    OBVIOUS
  <2>1. d.refs = 1
    BY <1>1, <1>5 DEF MoveNeeded
  <2>2. /\ Prep(e, o, st, len)
        /\ a + len <= d.size /\ d.s[a + len] = NUL => Closed(e)
    BY <1>1, <1>5, <2>1, <2>e, GrownTextIs
  <2>g. PICK g : g = PutIn(h, r, e)
    OBVIOUS
  <2>3. p = [ref |-> r, heap |-> g]
    BY <1>3, <1>5, <1>r, <2>e, <2>g, PrepareIs DEF GrownAt
  <2>4. p.heap = g /\ p.ref = r /\ p = [heap |-> p.heap, ref |-> p.ref]
    BY <2>3
  <2>5. r \in DOMAIN g /\ g[r] = e
    BY <1>1, <2>g DEF PutIn
  <2>6. \A x : PutIn(g, r, x) = PutIn(h, r, x)
    BY <2>g, PutTwice
  <2>7. PutIn(b, t, r) = b
    <3>1. PutIn(b, t, r) \in [S -> Addresses \cup {0}] /\ \A s \in S : PutIn(b, t, r)[s] = b[s]
      BY <1>1, <1>3 DEF PutIn
    <3> QED BY <1>1, <3>1
  <2>8. ASSUME NEW c, NEW w, GoodText(c, w), c.refs = 1
        PROVE  TextShares(PutIn(g, r, c), PutIn(b, "top", r), PutIn(m, "top", w), S)
    <3>1. <<c, w>> \in GoodTexts
      BY <2>8, GoodTextIn
    <3>2. b[t] # 0 /\ h[b[t]].refs = 1
      BY <1>1, <1>3, <2>1
    <3>3. Shares(PutIn(h, b[t], c), b, PutIn(m, t, w), Addresses, S, GoodTexts)
      BY <1>2, <1>3, <2>8, <3>1, <3>2, Alter
    <3>4. PutIn(g, r, c) = PutIn(h, r, c)
      BY <2>6
    <3> QED BY <1>3, <1>t, <2>7, <3>3, <3>4 DEF TextShares
  <2>9. TextReady(S, b, m, p, e)
    <3>1. PutIn(g, r, e) = g
      BY <2>6, <2>g
    <3> QED BY <2>4, <2>5, <2>8, <3>1 DEF TextReady
  <2> QED BY <1>5, <2>2, <2>4, <2>5, <2>9
<1> QED BY <1>4, <1>5

(* The string made ready is written to.                                      *)
LEMMA CopyReady ==
    ASSUME NEW S, NEW b, NEW m, NEW p, NEW e, TextReady(S, b, m, p, e), p.ref \in DOMAIN p.heap, NEW t
    PROVE  /\ TextReady(S, b, m, Copied(p, t), WriteAt(e, e.start + e.len - Len(t), t))
           /\ Copied(p, t).ref \in DOMAIN Copied(p, t).heap
<1>y. PICK y : y = Put(p.heap[p.ref].s, p.heap[p.ref].start + p.heap[p.ref].len - Len(t), t)
  OBVIOUS
<1>1. Copied(p, t) = [p EXCEPT !.heap[p.ref].s = y]
  BY <1>y, Zenon DEF Copied
<1>2. p.heap[p.ref] = e
  BY Zenon DEF TextReady
<1>3. WriteAt(e, e.start + e.len - Len(t), t) = [e EXCEPT !.s = y]
  BY <1>y, <1>2, Zenon DEF WriteAt
<1>4. /\ TextReady(S, b, m, [p EXCEPT !.heap[p.ref].s = y], [e EXCEPT !.s = y])
      /\ [p EXCEPT !.heap[p.ref].s = y].ref \in DOMAIN [p EXCEPT !.heap[p.ref].s = y].heap
  BY ReadyPut
<1> QED BY <1>1, <1>3, <1>4, Zenon

LEMMA EndReady ==
    ASSUME NEW S, NEW b, NEW m, NEW p, NEW e, TextReady(S, b, m, p, e), p.ref \in DOMAIN p.heap
    PROVE  TextReady(S, b, m, Ended(p), WriteAt(e, e.start + e.len, <<NUL>>))
<1>y. PICK y : y = Put(p.heap[p.ref].s, p.heap[p.ref].start + p.heap[p.ref].len, <<NUL>>)
  OBVIOUS
<1>1. Ended(p) = [p EXCEPT !.heap[p.ref].s = y]
  BY <1>y, Zenon DEF Ended
<1>2. p.heap[p.ref] = e
  BY Zenon DEF TextReady
<1>3. WriteAt(e, e.start + e.len, <<NUL>>) = [e EXCEPT !.s = y]
  BY <1>y, <1>2, Zenon DEF WriteAt
<1>4. TextReady(S, b, m, [p EXCEPT !.heap[p.ref].s = y], [e EXCEPT !.s = y])
  BY ReadyPut
<1> QED BY <1>1, <1>3, <1>4, Zenon

(* prepare_text for the string on top leaves it at least as long.            *)
MayGrow(d, start, len) == MoveNeeded(d, start, len) \/ HandledAt(d, start, len)

LEMMA TextLonger ==
    ASSUME NEW S, NEW h, NEW b, NEW m, TextStart(S, h, b, m),
           NEW d, d = h[b["top"]], NEW o, o = m["top"], NEW n \in Nat, Len(o) + n <= MaxText,
           MayGrow(d, d.start, d.len + n), NEW p, p = Longer(h, b["top"], n)
    PROVE  \E e : /\ TextReady(S, b, m, p, e) /\ p.ref \in DOMAIN p.heap /\ Prep(e, o, 0, Len(o) + n)
                  /\ MoveNeeded(d, d.start, d.len + n) \/ n = 0 => Closed(e)
<1>r. PICK r : r = b["top"]
  OBVIOUS
<1>1. GoodText(d, o)
  BY <1>r, StartFacts
<1>2. /\ Len(o) \in Nat /\ d.start \in Nat /\ d.len \in Nat /\ d.size \in Nat
      /\ d.start + d.len <= d.size /\ d.len = Len(o) /\ d.s[d.start + d.len] = NUL
  BY <1>1, TextParts
<1>l. PICK l, a, st : l = Len(o) + n /\ a = d.start /\ st = 0
  OBVIOUS
<1>3. l \in 0 .. MaxText /\ l = d.len + n /\ a = d.start + st /\ a = d.start
  BY <1>2, <1>l, StringsAssumption
<1>4. Off(o, st, l)
  BY <1>3, <1>l DEF Off
<1>5. p = prepare_text(h, b["top"], a, l)
  BY <1>3, Zenon DEF Longer
<1>6. MoveNeeded(d, a, l) \/ HandledAt(d, a, l)
  BY <1>3 DEF MayGrow
<1>7. PICK e : /\ TextReady(S, b, m, p, e) /\ p.ref \in DOMAIN p.heap /\ Prep(e, o, st, l)
               /\ \/ MoveNeeded(d, a, l)
                  \/ a + l <= d.size /\ d.s[a + l] = NUL
                  => Closed(e)
  BY <1>3, <1>4, <1>5, <1>6, TextPrepared, Zenon
<1>8. n = 0 => a + l <= d.size /\ d.s[a + l] = NUL
  BY <1>2, <1>3
<1>9. MoveNeeded(d, d.start, d.len + n) \/ n = 0 => Closed(e)
  BY <1>3, <1>7, <1>8
<1> QED BY <1>7, <1>9, <1>l

LEMMA TextAdds ==
    ASSUME NEW S, NEW h, NEW b, NEW m, TextStart(S, h, b, m),
           NEW d, d = h[b["top"]], NEW o, o = m["top"], NEW v, NEW t, TextOf(t), Chars(h[v]) = t,
           Len(o) + Len(t) <= MaxText, MayGrow(d, d.start, d.len + Len(t))
    PROVE  TextDone(S, b, m, string_add(h, b["top"], v), o \o t)
<1>r. PICK r : r = b["top"]
  OBVIOUS
<1>1. GoodText(d, o)
  BY <1>r, StartFacts
<1>2. TextOf(o) /\ Len(o) \in Nat /\ Len(t) \in Nat
  BY <1>1, TextFacts DEF GoodText
<1>p. PICK p : p = Longer(h, b["top"], Len(t))
  OBVIOUS
<1>3. PICK e : TextReady(S, b, m, p, e) /\ p.ref \in DOMAIN p.heap /\ Prep(e, o, 0, Len(o) + Len(t))
  BY <1>2, <1>p, TextLonger
<1>q. PICK q : q = Copied(p, t)
  OBVIOUS
<1>c. PICK c : c = WriteAt(e, e.start + e.len - Len(t), t)
  OBVIOUS
<1>4. TextReady(S, b, m, q, c) /\ q.ref \in DOMAIN q.heap
  BY <1>3, <1>q, <1>c, CopyReady
<1>w. PICK w : w = o \o t
  OBVIOUS
<1>5. Prep(c, w, 0, Len(o) + Len(t)) /\ TextOf(w) /\ Len(w) = Len(o) + Len(t)
  <2>1. CopyPrepared(e, o, t, c, w)
    BY <1>2, <1>3, PrepCopied, Zenon
  <2> QED BY <1>c, <1>w, <2>1, Zenon DEF CopyPrepared
<1>u. PICK u : u = WriteAt(c, c.start + c.len, <<NUL>>)
  OBVIOUS
<1>6. TextReady(S, b, m, Ended(q), u)
  BY <1>4, <1>u, EndReady
<1>7. Prep(u, w, 0, Len(w)) /\ Closed(u)
  BY <1>5, <1>u, PrepEnded
<1>8. GoodText(u, w) /\ u.refs = 1
  BY <1>5, <1>7, PrepGood
<1>9. TextDone(S, b, m, Ended(q), w)
  BY <1>6, <1>8, ReadyDone
<1>10. string_add(h, b["top"], v) = Ended(q)
  BY <1>p, <1>q, Zenon DEF string_add
<1> QED BY <1>9, <1>10, <1>w

LEMMA TextCuts ==
    ASSUME NEW S, NEW h, NEW b, NEW m, TextStart(S, h, b, m),
           NEW d, d = h[b["top"]], NEW o, o = m["top"],
           NEW st \in Nat, NEW len \in Nat, st + len <= Len(o), MayGrow(d, d.start + st, len)
    PROVE  TextDone(S, b, m, Ended(prepare_text(h, b["top"], d.start + st, len)),
                    SubSeq(o, st + 1, st + len))
<1>r. PICK r : r = b["top"]
  OBVIOUS
<1>1. GoodText(d, o)
  BY <1>r, StartFacts
<1>2. TextOf(o) /\ Len(o) \in Nat /\ Len(o) <= MaxText
  BY <1>1, TextFacts DEF GoodText
<1>a. PICK a : a = d.start + st
  OBVIOUS
<1>p. PICK p : p = prepare_text(h, b["top"], a, len)
  OBVIOUS
<1>3. Off(o, st, len)
  BY <1>2, StringsAssumption DEF Off
<1>4. PICK e : TextReady(S, b, m, p, e) /\ p.ref \in DOMAIN p.heap /\ Prep(e, o, st, len)
  <2>1. MoveNeeded(d, a, len) \/ HandledAt(d, a, len)
    BY <1>a DEF MayGrow
  <2> QED BY <1>3, <1>a, <1>p, <2>1, TextPrepared
<1>w. PICK w : w = SubSeq(o, st + 1, st + len)
  OBVIOUS
<1>5. Prep(e, w, 0, len) /\ TextOf(w) /\ Len(w) = len
  <2>1. CutPrepared(e, o, st, len, w)
    BY <1>2, <1>4, PrepCut, Zenon
  <2> QED BY <1>w, <2>1, Zenon DEF CutPrepared
<1>u. PICK u : u = WriteAt(e, e.start + e.len, <<NUL>>)
  OBVIOUS
<1>6. TextReady(S, b, m, Ended(p), u)
  BY <1>4, <1>u, EndReady
<1>7. Prep(u, w, 0, Len(w)) /\ Closed(u)
  BY <1>5, <1>u, PrepEnded
<1>8. Len(w) <= MaxText
  BY <1>2, <1>5, StringsAssumption
<1>9. GoodText(u, w) /\ u.refs = 1
  BY <1>5, <1>7, <1>8, PrepGood
<1>10. TextDone(S, b, m, Ended(p), w)
  BY <1>6, <1>9, ReadyDone
<1> QED BY <1>10, <1>w, <1>p, <1>a

(* Padding of a string that is moved anyway: nothing else ends it.            *)
LEMMA TextPads ==
    ASSUME NEW S, NEW h, NEW b, NEW m, TextStart(S, h, b, m),
           NEW d, d = h[b["top"]], NEW o, o = m["top"], NEW n \in Nat, Len(o) + n <= MaxText,
           d.refs > 1, NEW t, t = [i \in 1 .. n |-> Lower]
    PROVE  TextDone(S, b, m, string_add_padding(h, b["top"], n), o \o t)
<1>r. PICK r : r = b["top"]
  OBVIOUS
<1>1. GoodText(d, o)
  BY <1>r, StartFacts
<1>2. TextOf(o) /\ Len(o) \in Nat
  BY <1>1, TextFacts DEF GoodText
<1>3. TextOf(t) /\ Len(t) = n
  BY DEF TextOf
<1>4. MoveNeeded(d, d.start, d.len + n)
  BY DEF MoveNeeded
<1>p. PICK p : p = Longer(h, b["top"], n)
  OBVIOUS
<1>5. PICK e : TextReady(S, b, m, p, e) /\ p.ref \in DOMAIN p.heap /\ Prep(e, o, 0, Len(o) + n)
               /\ Closed(e)
  BY <1>2, <1>4, <1>p, TextLonger DEF MayGrow
<1>c. PICK c : c = WriteAt(e, e.start + e.len - Len(t), t)
  OBVIOUS
<1>6. TextReady(S, b, m, Copied(p, t), c)
  BY <1>5, <1>c, CopyReady
<1>w. PICK w : w = o \o t
  OBVIOUS
<1>7. Prep(c, w, 0, Len(w)) /\ TextOf(w) /\ Len(w) = Len(o) + n /\ Closed(c)
  <2>1. Prep(e, o, 0, Len(o) + Len(t))
    BY <1>3, <1>5
  <2>2. CopyPrepared(e, o, t, c, w)
    BY <1>2, <1>3, <2>1, PrepCopied, Zenon
  <2>3. /\ Prep(c, w, 0, Len(o) + Len(t)) /\ TextOf(w) /\ Len(w) = Len(o) + Len(t)
        /\ Closed(e) => Closed(c)
    BY <1>c, <1>w, <2>2, Zenon DEF CopyPrepared
  <2> QED BY <1>3, <1>5, <2>3
<1>8. GoodText(c, w) /\ c.refs = 1
  BY <1>7, PrepGood
<1>9. TextDone(S, b, m, Copied(p, t), w)
  BY <1>6, <1>8, ReadyDone
<1>10. string_add_padding(h, b["top"], n) = Copied(p, t)
  BY <1>p, Zenon DEF string_add_padding
<1> QED BY <1>9, <1>10, <1>w

(* All of a string in one case.                                              *)
InCase(e, case) ==
    [i \in DOMAIN e.s |-> IF i \in e.start .. e.start + e.len - 1 THEN case ELSE e.s[i]]

LEMMA PrepInCase ==
    ASSUME NEW e, NEW o, TextOf(o), Len(o) <= MaxText, Prep(e, o, 0, Len(o)), Closed(e),
           NEW case \in {Lower, Upper}
    PROVE  /\ GoodText([e EXCEPT !.s = InCase(e, case)], [i \in DOMAIN o |-> case])
           /\ [e EXCEPT !.s = InCase(e, case)].refs = 1
<1>1. Len(o) \in Nat /\ DOMAIN o = 1 .. Len(o)
  BY TextFacts
<1>2. Block(e) /\ e.refs = 1 /\ e.len = Len(o) /\ e.reg = NoRegexp
  BY DEF Prep
<1>3. /\ e.start \in Nat /\ e.len \in Nat /\ e.size \in Nat /\ e.refs \in Nat
      /\ e.s \in [0 .. e.size -> Nat] /\ e.start + e.len <= e.size /\ e.reg \in Seq(Nat)
      /\ e = [start |-> e.start, len |-> e.len, size |-> e.size, refs |-> e.refs,
              s |-> e.s, reg |-> e.reg]
  BY <1>2, BlockFields
<1>y. PICK y : y = InCase(e, case)
  OBVIOUS
<1>4. y = [i \in 0 .. e.size |-> IF i \in e.start .. e.start + e.len - 1 THEN case ELSE e.s[i]]
  BY <1>3, <1>y DEF InCase
<1>5. case \in Nat
  BY DEF Lower, Upper
<1>6. y \in [0 .. e.size -> Nat]
  BY <1>3, <1>4, <1>5
<1>c. PICK c : c = [e EXCEPT !.s = y]
  OBVIOUS
<1>7. c = [start |-> e.start, len |-> e.len, size |-> e.size, refs |-> e.refs,
           s |-> y, reg |-> e.reg]
  BY <1>3, <1>c, NewCharacters
<1>8. Block(c)
  BY <1>3, <1>6, <1>7, BlockMade
<1>9. c.start = e.start /\ c.len = e.len /\ c.refs = 1 /\ c.s = y /\ c.reg = NoRegexp
  BY <1>2, <1>7
<1>w. PICK w : w = [i \in DOMAIN o |-> case]
  OBVIOUS
<1>10. w \in Seq({Lower, Upper}) /\ Len(w) = Len(o) /\ \A i \in 1 .. Len(o) : w[i] = case
  BY <1>1, <1>w
<1>11. \A i \in 1 .. Len(w) : c.s[c.start + i - 1] = w[i]
  <2> TAKE i \in 1 .. Len(w)
  <2>x. PICK x : x = e.start + i - 1
    OBVIOUS
  <2>1. i \in Nat /\ 1 <= i /\ i <= e.len
    BY <1>2, <1>3, <1>10
  <2>2. x \in 0 .. e.size /\ x \in e.start .. e.start + e.len - 1
    BY <1>3, <2>1, <2>x
  <2>3. y[x] = case
    BY <1>4, <2>2
  <2> QED BY <1>9, <1>10, <2>3, <2>x
<1>12. Closed(c)
  <2>x. PICK x : x = e.start + e.len
    OBVIOUS
  <2>1. x \in 0 .. e.size /\ ~(x \in e.start .. e.start + e.len - 1)
    BY <1>3, <2>x
  <2>2. y[x] = e.s[x]
    BY <1>4, <2>1
  <2> QED BY <1>9, <2>2, <2>x DEF Closed
<1>13. Begins(c, w)
  BY <1>2, <1>3, <1>9, <1>10, <1>11 DEF Begins
<1>14. GoodText(c, w)
  BY <1>2, <1>8, <1>9, <1>10, <1>12, <1>13 DEF GoodText, TextOf
<1> QED BY <1>9, <1>14, <1>c, <1>w, <1>y

Cased(o, case) == [i \in DOMAIN o |-> case]

LEMMA TextInCase ==
    ASSUME NEW S, NEW h, NEW b, NEW m, TextStart(S, h, b, m),
           NEW d, d = h[b["top"]], NEW o, o = m["top"], MayGrow(d, d.start, d.len),
           NEW case \in {Lower, Upper}
    PROVE  TextDone(S, b, m, string_case(h, b["top"], case), Cased(o, case))
<1>r. PICK r : r = b["top"]
  OBVIOUS
<1>1. GoodText(d, o)
  BY <1>r, StartFacts
<1>2. TextOf(o) /\ Len(o) \in Nat /\ Len(o) <= MaxText
  BY <1>1, TextFacts DEF GoodText
<1>3. d.len + 0 = d.len /\ Len(o) + 0 = Len(o)
  BY <1>1, <1>2, TextParts
<1>p. PICK p : p = Longer(h, b["top"], 0)
  OBVIOUS
<1>4. PICK e : TextReady(S, b, m, p, e) /\ p.ref \in DOMAIN p.heap /\ Prep(e, o, 0, Len(o)) /\ Closed(e)
  <2>n. PICK n : n = 0
    OBVIOUS
  <2>1. n \in Nat /\ Len(o) + n <= MaxText /\ MayGrow(d, d.start, d.len + n)
    BY <1>2, <1>3, <2>n
  <2>2. p = Longer(h, b["top"], n)
    BY <1>p, <2>n
  <2>3. PICK e : /\ TextReady(S, b, m, p, e) /\ p.ref \in DOMAIN p.heap /\ Prep(e, o, 0, Len(o) + n)
                 /\ MoveNeeded(d, d.start, d.len + n) \/ n = 0 => Closed(e)
    BY <2>1, <2>2, TextLonger
  <2> QED BY <1>3, <2>3, <2>n
<1>y. PICK y : y = InCase(e, case)
  OBVIOUS
<1>c. PICK c : c = [e EXCEPT !.s = y]
  OBVIOUS
<1>w. PICK w : w = [i \in DOMAIN o |-> case]
  OBVIOUS
<1>5. GoodText(c, w) /\ c.refs = 1
  BY <1>2, <1>4, <1>y, <1>c, <1>w, PrepInCase
<1>6. p.heap[p.ref] = e
  BY <1>4, Zenon DEF TextReady
<1>7. string_case(h, b["top"], case) = [p EXCEPT !.heap[p.ref].s = y]
  <2>1. string_case(h, b["top"], case) = [p EXCEPT !.heap[p.ref].s = InCase(p.heap[p.ref], case)]
    BY <1>p, Zenon DEF string_case, InCase
  <2> QED BY <1>6, <1>y, <2>1
<1>8. TextReady(S, b, m, [p EXCEPT !.heap[p.ref].s = y], c)
  BY <1>4, <1>c, ReadyPut
<1>9. TextDone(S, b, m, [p EXCEPT !.heap[p.ref].s = y], w)
  BY <1>5, <1>8, ReadyDone
<1>10. w = Cased(o, case)
  BY <1>w, Zenon DEF Cased
<1> QED BY <1>7, <1>9, <1>10

(* A string that is being made at an unused address n.                       *)
BeingMade(q, h, n, c) == q = [heap |-> PutIn(h, n, c), ref |-> n] /\ n \in DOMAIN h

LEMMA MadePut ==
    ASSUME NEW q, NEW h, NEW n, NEW c, BeingMade(q, h, n, c), NEW y
    PROVE  BeingMade([q EXCEPT !.heap[q.ref].s = y], h, n, [c EXCEPT !.s = y])
<1>f. PICK f : f = PutIn(h, n, c)
  OBVIOUS
<1>1. q = [heap |-> f, ref |-> n] /\ n \in DOMAIN h
  BY <1>f, Zenon DEF BeingMade
<1>2. f[n] = c
  BY <1>1, <1>f DEF PutIn
<1>u. PICK u : u = [c EXCEPT !.s = y]
  OBVIOUS
<1>3. [q EXCEPT !.heap[q.ref].s = y] = [heap |-> PutIn(f, n, [f[n] EXCEPT !.s = y]), ref |-> n]
  BY <1>1, DeepPut
<1>4. [f[n] EXCEPT !.s = y] = u
  BY <1>2, <1>u
<1>5. PutIn(f, n, u) = PutIn(h, n, u)
  BY <1>f, PutTwice
<1>6. [q EXCEPT !.heap[q.ref].s = y] = [heap |-> PutIn(h, n, u), ref |-> n]
  BY <1>3, <1>4, <1>5
<1> QED BY <1>1, <1>6, <1>u, Zenon DEF BeingMade

LEMMA MadeHeap ==
    ASSUME NEW q, NEW h, NEW n, NEW c, BeingMade(q, h, n, c)
    PROVE  /\ q.ref = n /\ q.heap[n] = c /\ q.heap = PutIn(h, n, c)
           /\ \A r \in DOMAIN h : r # n => q.heap[r] = h[r]
<1>1. q = [heap |-> PutIn(h, n, c), ref |-> n] /\ n \in DOMAIN h
  BY Zenon DEF BeingMade
<1>2. q.ref = n /\ q.heap = PutIn(h, n, c)
  BY <1>1
<1> QED BY <1>1, <1>2 DEF PutIn

LEMMA MadeCopy ==
    ASSUME NEW q, NEW h, NEW n, NEW e, BeingMade(q, h, n, e), NEW t
    PROVE  BeingMade(Copied(q, t), h, n, WriteAt(e, e.start + e.len - Len(t), t))
<1>y. PICK y : y = Put(q.heap[q.ref].s, q.heap[q.ref].start + q.heap[q.ref].len - Len(t), t)
  OBVIOUS
<1>1. Copied(q, t) = [q EXCEPT !.heap[q.ref].s = y]
  BY <1>y, Zenon DEF Copied
<1>2. q.heap[q.ref] = e
  BY MadeHeap
<1>3. WriteAt(e, e.start + e.len - Len(t), t) = [e EXCEPT !.s = y]
  BY <1>y, <1>2, Zenon DEF WriteAt
<1>4. BeingMade([q EXCEPT !.heap[q.ref].s = y], h, n, [e EXCEPT !.s = y])
  BY MadePut
<1> QED BY <1>1, <1>3, <1>4, Zenon

LEMMA MadeEnd ==
    ASSUME NEW q, NEW h, NEW n, NEW e, BeingMade(q, h, n, e)
    PROVE  BeingMade(Ended(q), h, n, WriteAt(e, e.start + e.len, <<NUL>>))
<1>y. PICK y : y = Put(q.heap[q.ref].s, q.heap[q.ref].start + q.heap[q.ref].len, <<NUL>>)
  OBVIOUS
<1>1. Ended(q) = [q EXCEPT !.heap[q.ref].s = y]
  BY <1>y, Zenon DEF Ended
<1>2. q.heap[q.ref] = e
  BY MadeHeap
<1>3. WriteAt(e, e.start + e.len, <<NUL>>) = [e EXCEPT !.s = y]
  BY <1>y, <1>2, Zenon DEF WriteAt
<1>4. BeingMade([q EXCEPT !.heap[q.ref].s = y], h, n, [e EXCEPT !.s = y])
  BY MadePut
<1> QED BY <1>1, <1>3, <1>4, Zenon

(* It grows where it is: nobody else has it, and it begins its array.         *)
LEMMA MadeLonger ==
    ASSUME NEW q, NEW h, NEW n, NEW d, BeingMade(q, h, n, d),
           NEW o, GoodText(d, o), d.refs = 1, d.start = 0, d.reg = NoRegexp,
           NEW k \in Nat, NEW l, l = Len(o) + k, l <= MaxText,
           NEW p, p = Longer(q.heap, q.ref, k)
    PROVE  \E e : /\ BeingMade(p, h, n, e) /\ Prep(e, o, 0, l) /\ e.start = 0
                  /\ l <= d.size /\ d.s[l] = NUL => Closed(e)
<1>1. /\ q.ref = n /\ q.heap[n] = d /\ q.heap = PutIn(h, n, d)
  BY MadeHeap
<1>2. /\ Len(o) \in Nat /\ d.start \in Nat /\ d.len \in Nat /\ d.size \in Nat /\ d.len = Len(o)
      /\ d = [start |-> d.start, len |-> d.len, size |-> d.size, refs |-> d.refs,
              s |-> d.s, reg |-> d.reg]
  BY TextParts
<1>a. PICK a, st : a = 0 /\ st = 0
  OBVIOUS
<1>3. l \in Nat /\ l \in 0 .. MaxText /\ d.start + st = a /\ st \in Nat /\ d.start = a /\ l = d.len + k
  BY <1>2, <1>a, StringsAssumption
<1>4. Off(o, st, l)
  BY <1>3, <1>a DEF Off
<1>5. HandledAt(d, a, l)
  BY DEF HandledAt
<1>6. ~MoveNeeded(d, a, l)
  BY <1>a DEF MoveNeeded
<1>e. PICK e : e = Grown1(d, a, l)
  OBVIOUS
<1>7. /\ Prep(e, o, st, l)
      /\ a + l <= d.size /\ d.s[a + l] = NUL => Closed(e)
  BY <1>3, <1>4, <1>5, <1>6, <1>e, GrownTextIs
<1>8. e.start = 0
  <2>1. Resized1(d, l).start = d.start
    BY <1>2 DEF Resized1
  <2>2. Cut1(d, a, l).start = a
    BY <1>2 DEF Cut1
  <2> QED BY <1>3, <1>a, <1>e, <2>1, <2>2 DEF Grown1
<1>9. p = [heap |-> PutIn(h, n, e), ref |-> n]
  <2>f. PICK f : f = q.heap
    OBVIOUS
  <2>1. p = prepare_text(f, n, a, l)
    <3>1. p = prepare_text(f, n, f[n].start, f[n].len + k)
      BY <1>1, <2>f DEF Longer
    <3> QED BY <1>1, <1>3, <2>f, <3>1
  <2>2. prepare_text(f, n, a, l) = GrownAt(f, n, a, l)
    BY <1>1, <1>6, <2>f, PrepareIs
  <2>3. GrownAt(f, n, a, l) = [ref |-> n, heap |-> PutIn(f, n, e)]
    BY <1>1, <1>e, <2>f, Zenon DEF GrownAt
  <2>4. PutIn(f, n, e) = PutIn(h, n, e)
    BY <1>1, <2>f, PutTwice
  <2> QED BY <2>1, <2>2, <2>3, <2>4
<1>10. BeingMade(p, h, n, e)
  BY <1>9, Zenon DEF BeingMade
<1>11. a + l = l
  BY <1>3, <1>a
<1> QED BY <1>7, <1>8, <1>10, <1>11, <1>a

LEMMA WriteStart ==
    ASSUME NEW e, Block(e), NEW a, NEW t
    PROVE  WriteAt(e, a, t).start = e.start
<1>1. e = [start |-> e.start, len |-> e.len, size |-> e.size, refs |-> e.refs,
           s |-> e.s, reg |-> e.reg]
  BY BlockFields
<1>y. PICK y : y = Put(e.s, a, t)
  OBVIOUS
<1>2. [e EXCEPT !.s = y] = [start |-> e.start, len |-> e.len, size |-> e.size, refs |-> e.refs,
                            s |-> y, reg |-> e.reg]
  BY <1>1, NewCharacters
<1>3. WriteAt(e, a, t) = [e EXCEPT !.s = y]
  BY <1>y, Zenon DEF WriteAt
<1> QED BY <1>2, <1>3

LEMMA NewTextIs ==
    ASSUME NEW z \in 0 .. MaxText, NEW d, d = string_new(z)
    PROVE  /\ GoodText(d, <<>>) /\ d.refs = 1 /\ d.start = 0 /\ d.reg = NoRegexp
           /\ \A i \in 0 .. z : i <= d.size /\ d.s[i] = NUL
<1>1. AllNul(d) /\ d.len = 0 /\ d.size \in Nat /\ z <= d.size
  BY StringNewIs
<1>2. /\ Block(d) /\ d.start = 0 /\ d.refs = 1 /\ d.reg = NoRegexp
      /\ \A i \in 0 .. d.size : d.s[i] = NUL
  BY <1>1 DEF AllNul
<1>o. PICK o : o = <<>>
  OBVIOUS
<1>3. TextOf(o) /\ Len(o) = 0
  BY <1>o DEF TextOf
<1>4. Begins(d, o)
  BY <1>1, <1>3 DEF Begins
<1>5. Closed(d)
  <2>1. 0 \in 0 .. d.size /\ 0 + 0 = 0
    BY <1>1
  <2> QED BY <1>1, <1>2, <2>1 DEF Closed
<1>6. Len(o) <= MaxText
  BY <1>3, StringsAssumption
<1>7. GoodText(d, o)
  BY <1>1, <1>2, <1>3, <1>4, <1>5, <1>6 DEF GoodText
<1>8. \A i \in 0 .. z : i \in 0 .. d.size
  BY <1>1, StringsAssumption
<1> QED BY <1>1, <1>2, <1>7, <1>8, <1>o

(* padded_left without the discard of the string that was copied from.        *)
PaddedAt(h, r, n, k) ==
    LET p == string_add_padding([h EXCEPT ![n] = string_new(k + h[r].len)], n, k)
    IN  string_add(p.heap, p.ref, r)

LEMMA TextPadded ==
    ASSUME NEW h, NEW n \in DOMAIN h, NEW r \in DOMAIN h, r # n,
           NEW o, GoodText(h[r], o), NEW k \in Nat, Len(o) + k <= MaxText,
           NEW t, t = [i \in 1 .. k |-> Lower], NEW x, x = PaddedAt(h, r, n, k)
    PROVE  \E u : BeingMade(x, h, n, u) /\ GoodText(u, t \o o) /\ u.refs = 1
<1>1. TextOf(o) /\ Len(o) \in Nat /\ h[r].len = Len(o) /\ Chars(h[r]) = o
  BY TextFacts, TextParts, GoodTextIs DEF GoodText
<1>2. TextOf(t) /\ Len(t) = k
  BY DEF TextOf
<1>z. PICK z : z = k + h[r].len
  OBVIOUS
<1>3. z \in 0 .. MaxText /\ k \in 0 .. z /\ k + Len(o) = z
  BY <1>1, <1>z, StringsAssumption
<1>d. PICK d : d = string_new(z)
  OBVIOUS
<1>v. PICK v : v = <<>>
  OBVIOUS
<1>4. GoodText(d, v) /\ d.refs = 1 /\ d.start = 0 /\ d.reg = NoRegexp /\ k <= d.size /\ d.s[k] = NUL
  BY <1>3, <1>d, <1>v, NewTextIs
<1>g. PICK g : g = PutIn(h, n, d)
  OBVIOUS
<1>q. PICK q : q = [heap |-> g, ref |-> n]
  OBVIOUS
<1>5. BeingMade(q, h, n, d) /\ q.heap = g /\ q.ref = n
  <2>1. q.heap = g /\ q.ref = n
    BY <1>q
  <2> QED BY <1>g, <1>q, <2>1, Zenon DEF BeingMade
<1>p. PICK p : p = Longer(q.heap, q.ref, k)
  OBVIOUS
<1>6. PICK e : BeingMade(p, h, n, e) /\ Prep(e, v, 0, k) /\ e.start = 0 /\ Closed(e)
  <2>1. Len(v) = 0 /\ k = Len(v) + k /\ k <= MaxText
    BY <1>1, <1>v, StringsAssumption
  <2> QED BY <1>4, <1>5, <1>p, <2>1, MadeLonger
<1>c. PICK c : c = WriteAt(e, e.start + e.len - Len(t), t)
  OBVIOUS
<1>7. BeingMade(Copied(p, t), h, n, c)
  BY <1>6, <1>c, MadeCopy
<1>8. Prep(c, t, 0, k) /\ Closed(c) /\ c.start = 0
  <2>w. PICK w : w = v \o t
    OBVIOUS
  <2>1. w = t
    <3>1. t \in Seq({Lower, Upper})
      BY <1>2 DEF TextOf
    <3> QED BY <1>v, <2>w, <3>1
  <2>2. Len(v) + Len(t) = k /\ TextOf(v)
    BY <1>2, <1>v DEF TextOf
  <2>3. Prep(e, v, 0, Len(v) + Len(t))
    BY <1>6, <2>2
  <2>4. CopyPrepared(e, v, t, c, w)
    BY <1>2, <2>2, <2>3, PrepCopied, Zenon
  <2>5. Prep(c, w, 0, Len(v) + Len(t)) /\ Closed(c)
    BY <1>6, <1>c, <2>w, <2>4, Zenon DEF CopyPrepared
  <2>6. Block(e)
    BY <1>6 DEF Prep
  <2>7. c.start = e.start
    BY <1>c, <2>6, WriteStart
  <2> QED BY <1>6, <2>1, <2>2, <2>5, <2>7
<1>9. GoodText(c, t) /\ c.refs = 1 /\ c.reg = NoRegexp
  <2>1. Len(t) <= MaxText
    BY <1>1, <1>2, StringsAssumption
  <2> QED BY <1>2, <1>8, <2>1, PrepGood DEF Prep
<1>y. PICK y : y = Copied(p, t)
  OBVIOUS
<1>10. y = string_add_padding(g, n, k)
  BY <1>p, <1>5, <1>y, Zenon DEF string_add_padding
<1>11. y.heap[r] = h[r] /\ BeingMade(y, h, n, c)
  BY <1>7, <1>y, MadeHeap
<1>f. PICK f : f = Longer(y.heap, y.ref, Len(o))
  OBVIOUS
<1>12. PICK e2 : BeingMade(f, h, n, e2) /\ Prep(e2, t, 0, Len(t) + Len(o))
  <2>l. PICK l : l = Len(t) + Len(o)
    OBVIOUS
  <2>1. l <= MaxText
    BY <1>1, <1>2, <2>l
  <2>2. PICK e2 : BeingMade(f, h, n, e2) /\ Prep(e2, t, 0, l)
    BY <1>1, <1>8, <1>9, <1>11, <1>f, <2>1, <2>l, MadeLonger
  <2> QED BY <2>2, <2>l
<1>w. PICK w : w = t \o o
  OBVIOUS
<1>c2. PICK c2 : c2 = WriteAt(e2, e2.start + e2.len - Len(o), o)
  OBVIOUS
<1>13. BeingMade(Copied(f, o), h, n, c2)
  BY <1>12, <1>c2, MadeCopy
<1>14. Prep(c2, w, 0, Len(t) + Len(o)) /\ TextOf(w) /\ Len(w) = Len(t) + Len(o)
  <2>1. CopyPrepared(e2, t, o, c2, w)
    BY <1>1, <1>2, <1>12, PrepCopied, Zenon
  <2> QED BY <1>c2, <1>w, <2>1, Zenon DEF CopyPrepared
<1>u. PICK u : u = WriteAt(c2, c2.start + c2.len, <<NUL>>)
  OBVIOUS
<1>15. BeingMade(Ended(Copied(f, o)), h, n, u)
  BY <1>13, <1>u, MadeEnd
<1>16. Prep(u, w, 0, Len(w)) /\ Closed(u) /\ Len(w) <= MaxText
  <2>1. Prep(u, w, 0, Len(t) + Len(o)) /\ Closed(u)
    BY <1>14, <1>u, PrepEnded
  <2>2. Len(w) <= MaxText
    BY <1>1, <1>2, <1>14
  <2> QED BY <1>14, <2>1, <2>2
<1>17. GoodText(u, w) /\ u.refs = 1
  BY <1>14, <1>16, PrepGood
<1>18. x = Ended(Copied(f, o))
  <2>1. x = string_add(y.heap, y.ref, r)
    <3>1. g = [h EXCEPT ![n] = string_new(k + h[r].len)]
      BY <1>d, <1>g, <1>z, Zenon DEF PutIn
    <3> QED BY <1>10, <3>1, Zenon DEF PaddedAt
  <2>2. Chars(y.heap[r]) = o
    BY <1>1, <1>11
  <2> QED BY <1>f, <2>1, <2>2, Zenon DEF string_add
<1> QED BY <1>15, <1>17, <1>18, <1>w

PadReady(h, r, n, k, o, t, x, w) ==
    /\ n \in DOMAIN h /\ r \in DOMAIN h /\ r # n /\ GoodText(h[r], o)
    /\ k \in Nat /\ Len(o) + k <= MaxText
    /\ t = [i \in 1 .. k |-> Lower] /\ x = PaddedAt(h, r, n, k) /\ w = t \o o
PadMade(x, h, n, w, u) == BeingMade(x, h, n, u) /\ GoodText(u, w) /\ u.refs = 1

LEMMA TextPaddedAt ==
    ASSUME NEW h, NEW r, NEW n, NEW k, NEW o, NEW t, NEW x, NEW w, PadReady(h, r, n, k, o, t, x, w)
    PROVE  \E u : PadMade(x, h, n, w, u)
<1>1. /\ n \in DOMAIN h /\ r \in DOMAIN h /\ r # n /\ GoodText(h[r], o)
      /\ k \in Nat /\ Len(o) + k <= MaxText
      /\ t = [i \in 1 .. k |-> Lower] /\ x = PaddedAt(h, r, n, k)
  BY Zenon DEF PadReady
<1>2. w = t \o o
  BY Zenon DEF PadReady
<1>3. PICK u : BeingMade(x, h, n, u) /\ GoodText(u, t \o o) /\ u.refs = 1
  BY <1>1, TextPadded
<1>4. PadMade(x, h, n, w, u)
  BY <1>2, <1>3, Zenon DEF PadMade
<1> QED BY <1>4

LEMMA TextPadsLeft ==
    ASSUME NEW S, NEW h, NEW b, NEW m, TextStart(S, h, b, m),
           NEW o, o = m["top"], NEW k \in Nat, Len(o) + k <= MaxText,
           NEW t, t = [i \in 1 .. k |-> Lower]
    PROVE  TextDone(S, b, m, padded_left(h, b["top"], k), t \o o)
<1> HIDE DEF GoodTexts, Addresses, Places, Unused
<1>r. PICK r, d : r = b["top"] /\ d = h[r]
  OBVIOUS
<1>t. PICK top : top = "top"
  OBVIOUS
<1>1. /\ GoodText(d, o) /\ r \in Addresses /\ r # 0 /\ d.refs \in Nat \ {0}
      /\ DOMAIN h = Addresses /\ DOMAIN b = S /\ DOMAIN m = S
  BY <1>r, StartFacts
<1>2. Setting(Addresses, S, GoodTexts, Unused) /\ Shares(h, b, m, Addresses, S, GoodTexts)
  BY Zenon DEF TextStart, TextSetting, TextShares
<1>n. PICK n : n = CHOOSE a \in Addresses : h[a] = Unused
  OBVIOUS
<1>3. n \in Addresses /\ h[n] = Unused
  BY <1>n, Zenon DEF TextStart
<1>4. h[n].refs = 0 /\ r # n
  <2>1. Unused.refs = 0
    BY DEF Unused
  <2> QED BY <1>1, <1>3, <1>r, <2>1
<1>x. PICK x : x = PaddedAt(h, r, n, k)
  OBVIOUS
<1>w. PICK w : w = t \o o
  OBVIOUS
<1>5. PICK u : BeingMade(x, h, n, u) /\ GoodText(u, w) /\ u.refs = 1
  <2>1. PadReady(h, r, n, k, o, t, x, w)
    <3>1. n \in DOMAIN h /\ r \in DOMAIN h /\ r # n /\ GoodText(h[r], o)
      BY <1>1, <1>3, <1>4, <1>r
    <3> QED BY <3>1, <1>x, <1>w, Zenon DEF PadReady
  <2>2. \E u : PadMade(x, h, n, w, u)
    BY <2>1, TextPaddedAt
  <2> QED BY <2>2, Zenon DEF PadMade
<1>y. PICK y : y = padded_left(h, b["top"], k)
  OBVIOUS
<1>6. y = [x EXCEPT !.heap = string_discard(x.heap, r)]
  BY <1>n, <1>r, <1>x, <1>y, Zenon DEF padded_left, PaddedAt
<1>7. y = [heap |-> PutIn(Discard(h, r, Unused), n, u), ref |-> n]
  <2>1. x.heap = PutIn(h, n, u) /\ x = [heap |-> PutIn(h, n, u), ref |-> n]
    BY <1>5, MadeHeap, Zenon DEF BeingMade
  <2>2. string_discard(x.heap, r) = Discard(x.heap, r, Unused)
    BY Zenon DEF string_discard, Discard
  <2>3. Discard(PutIn(h, n, u), r, Unused) = PutIn(Discard(h, r, Unused), n, u)
    BY <1>1, <1>4, PutAside
  <2>g. PICK g : g = string_discard(x.heap, r)
    OBVIOUS
  <2>4. g = PutIn(Discard(h, r, Unused), n, u)
    BY <2>1, <2>2, <2>3, <2>g
  <2>5. [x EXCEPT !.heap = g] = [heap |-> g, ref |-> n]
    BY <2>1
  <2> QED BY <1>6, <2>4, <2>5, <2>g
<1>8. y.heap = PutIn(Discard(h, r, Unused), n, u) /\ y.ref = n
  BY <1>7
<1>9. <<u, w>> \in GoodTexts
  BY <1>5, GoodTextIn
<1>10. Shares(PutIn(Discard(h, b[top], Unused), n, u), PutIn(b, top, n), PutIn(m, top, w),
              Addresses, S, GoodTexts)
  <2>1. top \in S /\ b[top] # 0
    BY <1>t DEF TextStart
  <2> QED BY <1>2, <1>3, <1>4, <1>5, <1>9, <2>1, Part
<1>11. TextDone(S, b, m, y, w)
  BY <1>8, <1>10, <1>r, <1>t DEF TextDone, TextShares
<1> QED BY <1>11, <1>w, <1>y

LEMMA TextInvFacts ==
    ASSUME TextInv
    PROVE  /\ TextSetting(Places) /\ TextShares(strings, texts, meanings, Places)
           /\ "top" \in Places /\ TextVars \subseteq Places /\ "top" \notin TextVars
           /\ texts \in [Places -> Addresses \cup {0}] /\ DOMAIN texts = Places
           /\ DOMAIN meanings = Places /\ DOMAIN strings = Addresses /\ 0 \notin Addresses
           /\ \A p \in Places : texts[p] # 0 =>
                /\ GoodText(strings[texts[p]], meanings[p])
                /\ strings[texts[p]].refs \in Nat \ {0}
           /\ \A r \in Addresses : strings[r].refs = Count(texts, r) /\ Count(texts, r) \in Nat
<1> HIDE DEF GoodTexts, Addresses, Places, Unused
<1>1. TextShares(strings, texts, meanings, Places)
  BY Zenon DEF TextInv
<1>2. TextSetting(Places) /\ "top" \in Places /\ TextVars \subseteq Places /\ "top" \notin TextVars
  BY TextSettingIs
<1>3. /\ Setting(Addresses, Places, GoodTexts, Unused)
      /\ Shares(strings, texts, meanings, Addresses, Places, GoodTexts)
  BY <1>1, <1>2, Zenon DEF TextSetting, TextShares
<1>4. texts \in [Places -> Addresses \cup {0}]
  BY <1>3, Zenon DEF Shares, Placed
<1>5. \A p \in Places :
        /\ DOMAIN strings = Addresses /\ DOMAIN texts = Places /\ DOMAIN meanings = Places
        /\ 0 \notin Addresses
        /\ \A q \in Addresses : strings[q].refs = Count(texts, q) /\ Count(texts, q) \in Nat
        /\ texts[p] \in Addresses \cup {0}
        /\ texts[p] # 0 =>
            <<strings[texts[p]], meanings[p]>> \in GoodTexts /\ Count(texts, texts[p]) # 0
  BY <1>3, ShareFacts
<1>6. ASSUME NEW p \in Places, texts[p] # 0
      PROVE  GoodText(strings[texts[p]], meanings[p]) /\ strings[texts[p]].refs \in Nat \ {0}
  <2>1. /\ texts[p] \in Addresses /\ strings[texts[p]].refs = Count(texts, texts[p])
        /\ Count(texts, texts[p]) \in Nat /\ Count(texts, texts[p]) # 0
        /\ <<strings[texts[p]], meanings[p]>> \in GoodTexts
    BY <1>5, <1>6
  <2> QED BY <2>1, GoodTextIn
<1> QED BY <1>1, <1>2, <1>4, <1>5, <1>6

LEMMA TextDiscardIs ==
    ASSUME NEW h, NEW r
    PROVE  string_dup(h, r) = Dup(h, r) /\ string_discard(h, r) = Discard(h, r, Unused)
<1>1. string_dup(h, r) = Dup(h, r)
  BY Zenon DEF string_dup, Dup
<1>2. string_discard(h, r) = Discard(h, r, Unused)
  BY Zenon DEF string_discard, Discard
<1> QED BY <1>1, <1>2

LEMMA MoveTextKeeps ==
    ASSUME TextInv, PushText \/ AssignText \/ PopText
    PROVE  TextInv'
<1> HIDE DEF GoodTexts, Addresses, Places, Unused
<1>1. /\ Setting(Addresses, Places, GoodTexts, Unused)
      /\ Shares(strings, texts, meanings, Addresses, Places, GoodTexts)
      /\ "top" \in Places /\ TextVars \subseteq Places /\ "top" \notin TextVars
      /\ DOMAIN texts = Places /\ DOMAIN meanings = Places
  BY TextInvFacts, Zenon DEF TextSetting, TextShares
<1>t. PICK top : top = "top"
  OBVIOUS
<1>2. CASE PushText
  <2>1. PICK p \in Places : /\ texts[p] # 0 /\ strings' = string_dup(strings, texts[p])
                            /\ texts' = [texts EXCEPT !["top"] = texts[p]]
                            /\ meanings' = [meanings EXCEPT !["top"] = meanings[p]]
    BY <1>2 DEF PushText
  <2>2. texts[top] = 0 /\ p # top /\ top \in Places
    BY <1>1, <1>2, <1>t, <2>1 DEF PushText, HasText
  <2>3. Shares(Dup(strings, texts[p]), PutIn(texts, top, texts[p]), PutIn(meanings, top, meanings[p]),
               Addresses, Places, GoodTexts)
    BY <1>1, <2>2, PickUp
  <2>4. strings' = Dup(strings, texts[p]) /\ texts' = PutIn(texts, top, texts[p])
        /\ meanings' = PutIn(meanings, top, meanings[p])
    BY <1>t, <2>1, Zenon DEF string_dup, Dup, PutIn
  <2> QED BY <2>3, <2>4 DEF TextInv, TextShares
<1>3. CASE AssignText
  <2>1. PICK v \in TextVars :
            /\ strings' = string_dup(string_discard(strings, texts[v]), texts["top"])
            /\ texts' = [texts EXCEPT ![v] = texts["top"]]
            /\ meanings' = [meanings EXCEPT ![v] = meanings["top"]]
    BY <1>3, Zenon DEF AssignText, Text
  <2>h. PICK h : h = Discard(strings, texts[v], Unused)
    OBVIOUS
  <2>b. PICK b : b = PutIn(texts, v, 0)
    OBVIOUS
  <2>m. PICK m : m = PutIn(meanings, v, 0)
    OBVIOUS
  <2>2. v \in Places /\ v # top /\ top \in Places
    BY <1>1, <1>t
  <2>3. Shares(h, b, m, Addresses, Places, GoodTexts)
    BY <1>1, <2>2, <2>h, <2>b, <2>m, PutDown
  <2>5. b[top] = texts[top] /\ m[top] = meanings[top] /\ b[v] = 0
    BY <1>1, <2>2, <2>b, <2>m DEF PutIn
  <2>6. Shares(Dup(h, b[top]), PutIn(b, v, b[top]), PutIn(m, v, m[top]),
               Addresses, Places, GoodTexts)
    BY <1>1, <2>2, <2>3, <2>5, PickUp
  <2>7. PutIn(b, v, b[top]) = PutIn(texts, v, texts[top])
        /\ PutIn(m, v, m[top]) = PutIn(meanings, v, meanings[top])
    BY <2>5, <2>b, <2>m, PutTwice
  <2>8. string_discard(strings, texts[v]) = h
    BY <2>h, Zenon DEF string_discard, Discard
  <2>9. strings' = Dup(h, b[top]) /\ texts' = PutIn(texts, v, texts[top])
        /\ meanings' = PutIn(meanings, v, meanings[top])
    BY <1>t, <2>1, <2>5, <2>8, Zenon DEF PutIn, string_dup, Dup
  <2> QED BY <2>6, <2>7, <2>9 DEF TextInv, TextShares
<1>4. CASE PopText
  <2>1. Shares(Discard(strings, texts[top], Unused), PutIn(texts, top, 0),
               PutIn(meanings, top, <<>>), Addresses, Places, GoodTexts)
    BY <1>1, <1>t, PutDown
  <2>2. strings' = Discard(strings, texts[top], Unused) /\ texts' = PutIn(texts, top, 0)
        /\ meanings' = PutIn(meanings, top, <<>>)
    BY <1>4, <1>t, Zenon DEF PopText, string_discard, Discard, PutIn
  <2> QED BY <2>1, <2>2 DEF TextInv, TextShares
<1> QED BY <1>2, <1>3, <1>4

(* While an operator runs, its second operand is on the stack as well, in a  *)
(* place of its own, and the variable about to be assigned holds nothing.    *)
OpenTexts(w, a, x) == Ext(Zeroed(texts, w, 0), a, x)
OpenMeanings(w, a, y) == Ext(Zeroed(meanings, w, <<>>), a, y)
More(a) == Places \cup {a}
Opened(w, a, x, y) ==
    /\ a \notin Places
    /\ TextStart(More(a), Pushed(w, x), OpenTexts(w, a, x), OpenMeanings(w, a, y))
    /\ OpenTexts(w, a, x)["top"] = texts["top"] /\ OpenMeanings(w, a, y)["top"] = Text
    /\ OpenTexts(w, a, x)[a] = x /\ OpenMeanings(w, a, y)[a] = y

LEMMA SharesLike ==
    ASSUME NEW R, NEW S, NEW G, NEW h, NEW b, NEW m, Shares(h, b, m, R, S, G),
           NEW w, DOMAIN w = S, \A s \in S : w[s] = m[s]
    PROVE  Shares(h, b, w, R, S, G)
<1>1. Placed(b, R, S) /\ Counted(h, b, R) /\ Stands(h, b, m, S, G)
  BY Zenon DEF Shares
<1>2. Stands(h, b, w, S, G)
  BY <1>1 DEF Stands
<1> QED BY <1>1, <1>2, Zenon DEF Shares

LEMMA ZeroedIs ==
    ASSUME NEW f, DOMAIN f = Places, NEW w, NEW z
    PROVE  /\ DOMAIN Zeroed(f, w, z) = Places
           /\ w \in Places => Zeroed(f, w, z) = PutIn(f, w, z)
           /\ \A p \in Places : p # w => Zeroed(f, w, z)[p] = f[p]
<1> HIDE DEF Places
<1> QED BY DEF Zeroed, PutIn

LEMMA TextsBorrowed ==
    ASSUME TextInv, NEW a, a \notin Places, NEW x, NEW y,
           \/ x = 0
           \/ \E p \in Places : x = texts[p] /\ y = meanings[p]
    PROVE  Shares(Dup(strings, x), Ext(texts, a, x), Ext(meanings, a, y),
                  Addresses, More(a), GoodTexts)
<1> HIDE DEF GoodTexts, Addresses, Places, Unused
<1>1. /\ Setting(Addresses, Places, GoodTexts, Unused)
      /\ Shares(strings, texts, meanings, Addresses, Places, GoodTexts)
      /\ texts \in [Places -> Addresses \cup {0}]
      /\ DOMAIN texts = Places /\ DOMAIN meanings = Places
  BY TextInvFacts, Zenon DEF TextSetting, TextShares
<1>2. CASE x = 0
  <2>1. Shares(strings, Ext(texts, a, 0), Ext(meanings, a, y), Addresses, Places \cup {a}, GoodTexts)
    BY <1>1, SharesMore
  <2>2. Dup(strings, x) = strings
    BY <1>2, Zenon DEF Dup
  <2> QED BY <1>2, <2>1, <2>2 DEF More
<1>3. ASSUME NEW p \in Places, x = texts[p] /\ y = meanings[p]
      PROVE  Shares(Dup(strings, x), Ext(texts, a, x), Ext(meanings, a, y),
                    Addresses, More(a), GoodTexts)
  <2>1. Shares(Dup(strings, texts[p]), Ext(texts, a, texts[p]), Ext(meanings, a, meanings[p]),
               Addresses, Places \cup {a}, GoodTexts)
    BY <1>1, Borrow
  <2> QED BY <1>3, <2>1 DEF More
<1> QED BY <1>2, <1>3

LEMMA TextsOpened ==
    ASSUME TextInv, NEW w \in TextTargets, NEW a, a \notin Places, NEW x, NEW y,
           Shares(Dup(strings, x), Ext(texts, a, x), Ext(meanings, a, y),
                  Addresses, More(a), GoodTexts)
    PROVE  Shares(Pushed(w, x), OpenTexts(w, a, x), OpenMeanings(w, a, y),
                  Addresses, More(a), GoodTexts)
<1>0. w \in Places <=> w \in TextVars
  BY StringsAssumption DEF TextTargets, Places
<1> HIDE DEF GoodTexts, Addresses, Places, Unused
<1>1. /\ Setting(Addresses, Places, GoodTexts, Unused)
      /\ texts \in [Places -> Addresses \cup {0}]
      /\ DOMAIN texts = Places /\ DOMAIN meanings = Places
  BY TextInvFacts, Zenon DEF TextSetting
<1>2. Setting(Addresses, More(a), GoodTexts, Unused)
  BY <1>1, SettingMore DEF More
<1>h. PICK h : h = Dup(strings, x)
  OBVIOUS
<1>b. PICK b : b = Ext(texts, a, x)
  OBVIOUS
<1>m. PICK m : m = Ext(meanings, a, y)
  OBVIOUS
<1>3. Shares(h, b, m, Addresses, More(a), GoodTexts)
  BY <1>h, <1>b, <1>m
<1>4. CASE w \in TextVars
  <2>1. w \in Places /\ w \in More(a)
    BY <1>0, <1>4 DEF More
  <2>2. b[w] = texts[w]
    <3>1. DOMAIN texts = Places
      BY <1>1
    <3> QED BY <3>1, <1>b, <2>1 DEF Ext
  <2>3. Shares(Discard(h, b[w], Unused), PutIn(b, w, 0), PutIn(m, w, <<>>),
               Addresses, More(a), GoodTexts)
    BY <1>2, <1>3, <2>1, PutDown
  <2>4. PutIn(b, w, 0) = Ext(PutIn(texts, w, 0), a, x)
    BY <1>1, <1>b, <2>1, ExtElse
  <2>5. PutIn(m, w, <<>>) = Ext(PutIn(meanings, w, <<>>), a, y)
    BY <1>1, <1>m, <2>1, ExtElse
  <2>6. Zeroed(texts, w, 0) = PutIn(texts, w, 0) /\ Zeroed(meanings, w, <<>>) = PutIn(meanings, w, <<>>)
    BY <1>1, <2>1, ZeroedIs
  <2>7. PutIn(b, w, 0) = OpenTexts(w, a, x) /\ PutIn(m, w, <<>>) = OpenMeanings(w, a, y)
    BY <2>4, <2>5, <2>6, Zenon DEF OpenTexts, OpenMeanings
  <2>8. Pushed(w, x) = Discard(h, b[w], Unused)
    <3>1. Pushed(w, x) = string_discard(string_dup(strings, x), texts[w])
      BY <1>4, Zenon DEF Pushed
    <3> QED BY <1>h, <2>2, <3>1, TextDiscardIs, Zenon
  <2> QED BY <2>3, <2>7, <2>8, Zenon
<1>5. CASE w \notin TextVars
  <2>1. \A p \in Places : Zeroed(texts, w, 0)[p] = texts[p] /\ Zeroed(meanings, w, <<>>)[p] = meanings[p]
    BY <1>0, <1>1, <1>5, ZeroedIs
  <2>2. DOMAIN Zeroed(texts, w, 0) = Places /\ DOMAIN Zeroed(meanings, w, <<>>) = Places
    BY <1>1, ZeroedIs
  <2>3. Zeroed(texts, w, 0) = texts
    <3>1. Zeroed(texts, w, 0) = [p \in Places |-> texts[p]]
      BY <1>0, <1>5 DEF Zeroed
    <3> QED BY <1>1, <3>1
  <2>z. PICK z : z = OpenMeanings(w, a, y)
    OBVIOUS
  <2>4. DOMAIN z = More(a) /\ \A s \in More(a) : z[s] = m[s]
    <3>1. /\ DOMAIN z = Places \cup {a} /\ z[a] = y
          /\ \A s \in Places : z[s] = Zeroed(meanings, w, <<>>)[s]
      <4>k. PICK k : k = Zeroed(meanings, w, <<>>)
        OBVIOUS
      <4>1. z = Ext(k, a, y) /\ DOMAIN k = Places
        BY <2>2, <2>z, <4>k, Zenon DEF OpenMeanings
      <4>2. DOMAIN z = Places \cup {a} /\ z[a] = y /\ \A s \in Places : z[s] = k[s]
        BY <4>1 DEF Ext
      <4> QED BY <4>2, <4>k
    <3>2. m[a] = y /\ \A s \in Places : m[s] = meanings[s]
      BY <1>1, <1>m DEF Ext
    <3> QED BY <2>1, <3>1, <3>2 DEF More
  <2>5. Shares(h, b, z, Addresses, More(a), GoodTexts)
    BY <1>3, <2>4, SharesLike
  <2>6. OpenTexts(w, a, x) = b
    BY <1>b, <2>3, Zenon DEF OpenTexts
  <2>7. Pushed(w, x) = h
    <3>1. Pushed(w, x) = string_discard(string_dup(strings, x), 0)
      BY <1>5, Zenon DEF Pushed
    <3>2. string_discard(string_dup(strings, x), 0) = string_dup(strings, x)
      BY Zenon DEF string_discard
    <3> QED BY <1>h, <3>1, <3>2, TextDiscardIs, Zenon
  <2> QED BY <2>5, <2>6, <2>7, <2>z, Zenon
<1> QED BY <1>4, <1>5

LEMMA StillUnused ==
    ASSUME NEW h, NEW n, n \in DOMAIN h, h[n] = Unused, NEW r, r # n
    PROVE  Dup(h, r)[n] = Unused /\ Discard(h, r, Unused)[n] = Unused
           /\ DOMAIN Dup(h, r) = DOMAIN h
<1> HIDE DEF Unused
<1>1. Dup(h, r)[n] = Unused /\ DOMAIN Dup(h, r) = DOMAIN h
  BY DEF Dup
<1>2. Discard(h, r, Unused)[n] = Unused
  BY DEF Discard
<1> QED BY <1>1, <1>2

LEMMA SpareStill ==
    ASSUME TextInv, SpareString, NEW w \in TextTargets, NEW x,
           \/ x = 0
           \/ \E p \in Places : x = texts[p]
    PROVE  \E n \in Addresses : Pushed(w, x)[n] = Unused
<1>1. PICK n \in Addresses : strings[n] = Unused
  <2>v. PICK V : V = {a \in Addresses : strings[a] = Unused}
    OBVIOUS
  <2>1. Cardinality(V) >= 1
    BY <2>v DEF SpareString
  <2>2. V # {}
    BY <2>1, FS_EmptySet
  <2> QED BY <2>2, <2>v
<1>2. Unused.refs = 0
  BY DEF Unused
<1>0. w \in TextVars => w \in Places
  BY DEF Places
<1> HIDE DEF GoodTexts, Addresses, Places, Unused
<1>3. /\ DOMAIN strings = Addresses /\ 0 \notin Addresses
      /\ \A p \in Places : texts[p] # 0 => strings[texts[p]].refs \in Nat \ {0}
  BY TextInvFacts
<1>4. \A p \in Places : texts[p] # n
  BY <1>1, <1>2, <1>3
<1>5. x # n
  BY <1>1, <1>3, <1>4
<1>y. PICK y : y = IF w \in TextVars THEN texts[w] ELSE 0
  OBVIOUS
<1>6. y # n
  BY <1>0, <1>1, <1>3, <1>4, <1>y
<1>h. PICK h : h = Dup(strings, x)
  OBVIOUS
<1>7. h[n] = Unused /\ DOMAIN h = Addresses
  BY <1>1, <1>3, <1>5, <1>h, StillUnused
<1>8. Discard(h, y, Unused)[n] = Unused
  BY <1>1, <1>6, <1>7, StillUnused
<1>9. Pushed(w, x) = Discard(h, y, Unused)
  <2>1. Pushed(w, x) = string_discard(string_dup(strings, x), y)
    BY <1>y, Zenon DEF Pushed
  <2> QED BY <1>h, <2>1, TextDiscardIs, Zenon
<1> QED BY <1>1, <1>8, <1>9

LEMMA TextOpened ==
    ASSUME TextInv, HasText, SpareString, NEW w \in TextTargets, NEW a, a \notin Places,
           NEW x, NEW y,
           \/ x = 0
           \/ \E p \in Places : x = texts[p] /\ y = meanings[p]
    PROVE  Opened(w, a, x, y)
<1>0. w # "top"
  BY StringsAssumption DEF TextTargets
<1> HIDE DEF GoodTexts, Addresses, Places, Unused
<1>1. Shares(Dup(strings, x), Ext(texts, a, x), Ext(meanings, a, y), Addresses, More(a), GoodTexts)
  BY TextsBorrowed
<1>2. Shares(Pushed(w, x), OpenTexts(w, a, x), OpenMeanings(w, a, y), Addresses, More(a), GoodTexts)
  BY <1>1, TextsOpened
<1>3. \E n \in Addresses : Pushed(w, x)[n] = Unused
  BY SpareStill
<1>4. /\ Setting(Addresses, Places, GoodTexts, Unused) /\ "top" \in Places
      /\ DOMAIN texts = Places /\ DOMAIN meanings = Places
  BY TextInvFacts, Zenon DEF TextSetting
<1>5. Setting(Addresses, More(a), GoodTexts, Unused) /\ "top" \in More(a)
  BY <1>4, SettingMore DEF More
<1>t. PICK top : top = "top"
  OBVIOUS
<1>6. OpenTexts(w, a, x)[top] = texts[top] /\ OpenTexts(w, a, x)[a] = x
  <2>f. PICK f : f = Zeroed(texts, w, 0)
    OBVIOUS
  <2>1. DOMAIN f = Places /\ top \in Places /\ top # w
    BY <1>0, <1>4, <1>t, <2>f, ZeroedIs
  <2>2. f[top] = texts[top]
    BY <1>t, <2>1, <2>f DEF Zeroed
  <2>3. Ext(f, a, x)[top] = f[top] /\ Ext(f, a, x)[a] = x
    BY <2>1 DEF Ext
  <2> QED BY <2>2, <2>3, <2>f, Zenon DEF OpenTexts
<1>7. OpenMeanings(w, a, y)[top] = meanings[top] /\ OpenMeanings(w, a, y)[a] = y
  <2>f. PICK f : f = Zeroed(meanings, w, <<>>)
    OBVIOUS
  <2>1. DOMAIN f = Places /\ top \in Places /\ top # w
    BY <1>0, <1>4, <1>t, <2>f, ZeroedIs
  <2>2. f[top] = meanings[top]
    BY <1>t, <2>1, <2>f DEF Zeroed
  <2>3. Ext(f, a, y)[top] = f[top] /\ Ext(f, a, y)[a] = y
    BY <2>1 DEF Ext
  <2> QED BY <2>2, <2>3, <2>f, Zenon DEF OpenMeanings
<1>8. OpenTexts(w, a, x)["top"] # 0
  BY <1>6, <1>t DEF HasText
<1>9. TextStart(More(a), Pushed(w, x), OpenTexts(w, a, x), OpenMeanings(w, a, y))
  BY <1>2, <1>3, <1>5, <1>8, Zenon DEF TextStart, TextSetting, TextShares
<1> QED BY <1>6, <1>7, <1>9, <1>t, Zenon DEF Opened, Text

LEMMA ResultKeeps ==
    ASSUME NEW w \in TextTargets, NEW a, NEW x, NEW y, NEW p, NEW o,
           TextInv, Opened(w, a, x, y),
           TextDone(More(a), OpenTexts(w, a, x), OpenMeanings(w, a, y), p, o),
           Result(w, x, p, o)
    PROVE  TextInv'
<1> HIDE DEF GoodTexts, Addresses, Places, Unused
<1>1. /\ Setting(Addresses, Places, GoodTexts, Unused) /\ "top" \in Places
      /\ DOMAIN texts = Places /\ DOMAIN meanings = Places
  BY TextInvFacts, Zenon DEF TextSetting
<1>2. a \notin Places
  BY Zenon DEF Opened
<1>f. PICK f : f = Zeroed(texts, w, 0)
  OBVIOUS
<1>g. PICK g : g = Zeroed(meanings, w, <<>>)
  OBVIOUS
<1>t. PICK top : top = "top"
  OBVIOUS
<1>3. DOMAIN f = Places /\ DOMAIN g = Places /\ top \in Places
  BY <1>1, <1>f, <1>g, <1>t, ZeroedIs
<1>b. PICK b : b = PutIn(f, top, p.ref)
  OBVIOUS
<1>m. PICK m : m = PutIn(g, top, o)
  OBVIOUS
<1>4. PutIn(Ext(f, a, x), top, p.ref) = Ext(b, a, x)
  BY <1>2, <1>3, <1>b, ExtElse
<1>5. PutIn(Ext(g, a, y), top, o) = Ext(m, a, y)
  BY <1>2, <1>3, <1>m, ExtElse
<1>6. OpenTexts(w, a, x) = Ext(f, a, x) /\ OpenMeanings(w, a, y) = Ext(g, a, y)
  BY <1>f, <1>g, Zenon DEF OpenTexts, OpenMeanings
<1>7. Shares(p.heap, Ext(b, a, x), Ext(m, a, y), Addresses, Places \cup {a}, GoodTexts)
  <2>1. Shares(p.heap, PutIn(Ext(f, a, x), top, p.ref), PutIn(Ext(g, a, y), top, o), Addresses,
               More(a), GoodTexts)
    BY <1>6, <1>t, Zenon DEF TextDone, TextShares
  <2> QED BY <1>4, <1>5, <2>1, Zenon DEF More
<1>8. \E X : b \in [Places -> X]
  <2>1. b \in [Places -> {b[q] : q \in Places}]
    BY <1>3, <1>b DEF PutIn
  <2> QED BY <2>1
<1>9. DOMAIN m = Places
  BY <1>3, <1>m DEF PutIn
<1>10. Shares(Discard(p.heap, x, Unused), b, m, Addresses, Places, GoodTexts)
  <2>1. PICK X : b \in [Places -> X]
    BY <1>8
  <2> QED BY <1>1, <1>2, <1>7, <1>9, <2>1, GiveBack
<1>11. strings' = Discard(p.heap, x, Unused) /\ texts' = b /\ meanings' = m
  <2>1. /\ strings' = string_discard(p.heap, x)
        /\ texts' = PutIn(f, top, p.ref) /\ meanings' = PutIn(g, top, o)
    BY <1>f, <1>g, <1>t, Zenon DEF Result, PutIn
  <2> QED BY <2>1, <1>b, <1>m, TextDiscardIs, Zenon
<1> QED BY <1>10, <1>11 DEF TextInv, TextShares

LEMMA HandledGrows ==
    ASSUME ~Mishandled, NEW h, NEW d, d = h[texts["top"]], NEW start, NEW len,
           Handled(h, start, len)
    PROVE  MayGrow(d, start, len)
BY DEF Handled, MayGrow, HandledAt

LEMMA AddStringsKeeps ==
    ASSUME ~Mishandled, TextInv, NEW w \in TextTargets, AddStrings(w)
    PROVE  TextInv'
<1> HIDE DEF GoodTexts, Addresses, Places, Unused
<1>0. HasText /\ SpareString
  BY DEF AddStrings
<1>1. PICK p \in Places : \E h \in {Pushed(w, texts[p])} :
        /\ texts[p] # 0 /\ Len(Text) + Len(meanings[p]) <= MaxText
        /\ Handled(h, Here(h).start, Here(h).len + Len(meanings[p]))
        /\ Result(w, texts[p], string_add(h, texts["top"], texts[p]), Text \o meanings[p])
  BY DEF AddStrings
<1>x. PICK x : x = texts[p]
  OBVIOUS
<1>y. PICK y : y = meanings[p]
  OBVIOUS
<1>h. PICK h : h = Pushed(w, x)
  OBVIOUS
<1>o. PICK o : o = Text
  OBVIOUS
<1>r. PICK r : r = texts["top"]
  OBVIOUS
<1>d. PICK d : d = h[r]
  OBVIOUS
<1>v. PICK v : v = o \o y
  OBVIOUS
<1>2. /\ x # 0 /\ Len(o) + Len(y) <= MaxText
      /\ Handled(h, d.start, d.len + Len(y)) /\ Result(w, x, string_add(h, r, x), v)
  BY <1>1, <1>x, <1>y, <1>h, <1>o, <1>r, <1>d, <1>v DEF Here
<1>3. PICK a : a \notin Places
  BY NewPlace
<1>4. Opened(w, a, x, y)
  BY <1>0, <1>3, <1>x, <1>y, TextOpened
<1>b. PICK b : b = OpenTexts(w, a, x)
  OBVIOUS
<1>m. PICK m : m = OpenMeanings(w, a, y)
  OBVIOUS
<1>5. TextStart(More(a), h, b, m) /\ b["top"] = r /\ m["top"] = o /\ b[a] = x /\ m[a] = y
  BY <1>4, <1>h, <1>b, <1>m, <1>r, <1>o, Zenon DEF Opened
<1>6. TextOf(y) /\ Chars(h[x]) = y
  <2>1. a \in More(a)
    BY DEF More
  <2>2. Stands(h, b, m, More(a), GoodTexts)
    BY <1>5, Zenon DEF TextStart, TextShares, Shares
  <2>3. <<h[x], y>> \in GoodTexts
    BY <1>2, <1>5, <2>1, <2>2 DEF Stands
  <2>4. GoodText(h[x], y)
    BY <2>3, GoodTextIn
  <2> QED BY <2>4, GoodTextIs DEF GoodText
<1>7. MayGrow(d, d.start, d.len + Len(y))
  BY <1>2, <1>d, <1>r, HandledGrows
<1>8. TextDone(More(a), b, m, string_add(h, r, x), o \o y)
  BY <1>2, <1>5, <1>6, <1>7, <1>d, TextAdds
<1>9. TextDone(More(a), OpenTexts(w, a, x), OpenMeanings(w, a, y), string_add(h, r, x), v)
  BY <1>8, <1>b, <1>m, <1>v
<1> QED BY <1>2, <1>4, <1>9, ResultKeeps

LEMMA OpSubstrKeeps ==
    ASSUME ~Mishandled, TextInv, NEW w \in TextTargets, OpSubstr(w)
    PROVE  TextInv'
<1> HIDE DEF GoodTexts, Addresses, Places, Unused
<1>0. HasText /\ SpareString
  BY DEF OpSubstr
<1>1. PICK start \in 0 .. Len(Text) - 1 : \E len \in 0 .. Len(Text) - start :
       \E h \in {Pushed(w, 0)} :
        /\ Handled(h, Here(h).start + start, len)
        /\ Result(w, 0, string_substring(h, texts["top"], start, len),
                  SubSeq(Text, start + 1, start + len))
  BY DEF OpSubstr
<1>l. PICK len \in 0 .. Len(Text) - start : \E h \in {Pushed(w, 0)} :
        /\ Handled(h, Here(h).start + start, len)
        /\ Result(w, 0, string_substring(h, texts["top"], start, len),
                  SubSeq(Text, start + 1, start + len))
  BY <1>1
<1>h. PICK h : h = Pushed(w, 0)
  OBVIOUS
<1>o. PICK o : o = Text
  OBVIOUS
<1>r. PICK r : r = texts["top"]
  OBVIOUS
<1>d. PICK d : d = h[r]
  OBVIOUS
<1>v. PICK v : v = SubSeq(o, start + 1, start + len)
  OBVIOUS
<1>2. Handled(h, d.start + start, len) /\ Result(w, 0, string_substring(h, r, start, len), v)
  BY <1>l, <1>h, <1>o, <1>r, <1>d, <1>v DEF Here
<1>3. PICK a : a \notin Places
  BY NewPlace
<1>4. Opened(w, a, 0, 0)
  BY <1>0, <1>3, TextOpened
<1>b. PICK b : b = OpenTexts(w, a, 0)
  OBVIOUS
<1>m. PICK m : m = OpenMeanings(w, a, 0)
  OBVIOUS
<1>5. TextStart(More(a), h, b, m) /\ b["top"] = r /\ m["top"] = o
  BY <1>4, <1>h, <1>b, <1>m, <1>r, <1>o, Zenon DEF Opened
<1>6. start \in Nat /\ len \in Nat /\ start + len <= Len(o)
  <2>1. TextOf(o)
    BY <1>5, StartFacts DEF GoodText
  <2>2. Len(o) \in Nat
    BY <2>1, TextFacts
  <2> QED BY <1>o, <2>2
<1>7. MayGrow(d, d.start + start, len)
  BY <1>2, <1>d, <1>r, HandledGrows
<1>8. TextDone(More(a), b, m, Ended(prepare_text(h, r, d.start + start, len)),
               SubSeq(o, start + 1, start + len))
  BY <1>5, <1>6, <1>7, <1>d, TextCuts
<1>9. string_substring(h, r, start, len) = Ended(prepare_text(h, r, d.start + start, len))
  BY <1>d, Zenon DEF string_substring
<1>10. TextDone(More(a), OpenTexts(w, a, 0), OpenMeanings(w, a, 0),
                string_substring(h, r, start, len), v)
  BY <1>8, <1>9, <1>b, <1>m, <1>v
<1> QED BY <1>2, <1>4, <1>10, ResultKeeps

(* An operator without a second operand.                                     *)
Alone(w, a, h, b, m) ==
    /\ a \notin Places
    /\ h = Pushed(w, 0) /\ b = OpenTexts(w, a, 0) /\ m = OpenMeanings(w, a, 0)
    /\ Opened(w, a, 0, 0)
    /\ TextStart(More(a), h, b, m) /\ b["top"] = texts["top"] /\ m["top"] = Text

LEMMA TextAlone ==
    ASSUME TextInv, HasText, SpareString, NEW w \in TextTargets
    PROVE  \E a, h, b, m : Alone(w, a, h, b, m)
<1>1. PICK a : a \notin Places
  BY NewPlace
<1>2. Opened(w, a, 0, 0)
  BY <1>1, TextOpened
<1>h. PICK h : h = Pushed(w, 0)
  OBVIOUS
<1>b. PICK b : b = OpenTexts(w, a, 0)
  OBVIOUS
<1>m. PICK m : m = OpenMeanings(w, a, 0)
  OBVIOUS
<1>3. Alone(w, a, h, b, m)
  BY <1>1, <1>2, <1>h, <1>b, <1>m, Zenon DEF Alone, Opened
<1> QED BY <1>3

LEMMA AloneKeeps ==
    ASSUME TextInv, NEW w \in TextTargets, NEW a, NEW h, NEW b, NEW m, Alone(w, a, h, b, m),
           NEW p, NEW o, TextDone(More(a), b, m, p, o), Result(w, 0, p, o)
    PROVE  TextInv'
<1>1. Opened(w, a, 0, 0) /\ TextDone(More(a), OpenTexts(w, a, 0), OpenMeanings(w, a, 0), p, o)
  BY Zenon DEF Alone
<1> QED BY <1>1, ResultKeeps

LEMMA AloneFacts ==
    ASSUME NEW w, NEW a, NEW h, NEW b, NEW m, Alone(w, a, h, b, m), NEW o, o = Text,
           NEW r, r = texts["top"], NEW d, d = h[r]
    PROVE  /\ TextStart(More(a), h, b, m) /\ b["top"] = r /\ m["top"] = o
           /\ TextOf(o) /\ Len(o) \in Nat /\ Len(o) <= MaxText /\ d.len = Len(o) /\ d.start \in Nat
<1>1. TextStart(More(a), h, b, m) /\ b["top"] = r /\ m["top"] = o
  BY Zenon DEF Alone
<1>2. GoodText(d, o)
  BY <1>1, StartFacts
<1> QED BY <1>1, <1>2, TextParts DEF GoodText

LEMMA OpPadKeeps ==
    ASSUME ~Mishandled, TextInv, NEW w \in TextTargets, OpPad(w)
    PROVE  TextInv'
<1> HIDE DEF GoodTexts, Addresses, Places, Unused
<1>0. HasText /\ SpareString
  BY DEF OpPad
<1>1. PICK a, h, b, m : Alone(w, a, h, b, m)
  BY <1>0, TextAlone
<1>o. PICK o : o = Text
  OBVIOUS
<1>r. PICK r : r = texts["top"]
  OBVIOUS
<1>d. PICK d : d = h[r]
  OBVIOUS
<1>2. /\ TextStart(More(a), h, b, m) /\ b["top"] = r /\ m["top"] = o
      /\ TextOf(o) /\ Len(o) \in Nat /\ Len(o) <= MaxText /\ d.len = Len(o) /\ d.start \in Nat
  BY <1>1, <1>o, <1>r, <1>d, AloneFacts
<1>3. h = Pushed(w, 0)
  BY <1>1, Zenon DEF Alone
<1>4. PICK len \in 0 .. MaxText, right \in BOOLEAN :
        LET padding == len - Len(Text)
            fill == [i \in 1 .. padding |-> Lower]
        IN  \/ /\ padding < 0 /\ Handled(h, Here(h).start, len)
               /\ Result(w, 0, string_truncate(h, texts["top"], len), SubSeq(Text, 1, len))
            \/ /\ padding > 0 /\ right
               /\ Mishandled \/ Here(h).refs > 1
               /\ Result(w, 0, string_add_padding(h, texts["top"], padding), Text \o fill)
            \/ /\ padding > 0 /\ ~right
               /\ Result(w, 0, padded_left(h, texts["top"], padding), fill \o Text)
            \/ /\ padding = 0
               /\ Result(w, 0, [heap |-> h, ref |-> texts["top"]], Text)
  BY <1>3 DEF OpPad
<1>k. PICK k : k = len - Len(o)
  OBVIOUS
<1>f. PICK f : f = [i \in 1 .. k |-> Lower]
  OBVIOUS
<1>5. \/ /\ k < 0 /\ Handled(h, d.start, len)
         /\ Result(w, 0, string_truncate(h, r, len), SubSeq(o, 1, len))
      \/ k > 0 /\ d.refs > 1 /\ Result(w, 0, string_add_padding(h, r, k), o \o f)
      \/ k > 0 /\ Result(w, 0, padded_left(h, r, k), f \o o)
      \/ k = 0 /\ Result(w, 0, [heap |-> h, ref |-> r], o)
  BY <1>4, <1>o, <1>r, <1>d, <1>k, <1>f DEF Here
<1>6. k \in Int /\ len \in Nat /\ len = Len(o) + k /\ len <= MaxText
  <2>1. MaxText \in Nat
    BY StringsAssumption
  <2> QED BY <1>2, <1>k, <2>1
<1>7. ASSUME NEW p, NEW v, TextDone(More(a), b, m, p, v), Result(w, 0, p, v) PROVE TextInv'
  BY <1>1, <1>7, AloneKeeps
<1>8. CASE k < 0 /\ Handled(h, d.start, len)
           /\ Result(w, 0, string_truncate(h, r, len), SubSeq(o, 1, len))
  <2>1. MayGrow(d, d.start + 0, len)
    <3>1. MayGrow(d, d.start, len)
      BY <1>8, <1>d, <1>r, HandledGrows
    <3>2. d.start + 0 = d.start
      BY <1>2
    <3> QED BY <3>1, <3>2
  <2>2. 0 + len <= Len(o)
    BY <1>2, <1>6, <1>8
  <2>3. TextDone(More(a), b, m, Ended(prepare_text(h, r, d.start + 0, len)),
                 SubSeq(o, 0 + 1, 0 + len))
    BY <1>2, <1>6, <2>1, <2>2, <1>d, TextCuts
  <2>4. string_truncate(h, r, len) = Ended(prepare_text(h, r, d.start + 0, len))
    <3>1. string_truncate(h, r, len) = Ended(prepare_text(h, r, d.start, len))
      BY <1>d, Zenon DEF string_truncate
    <3>2. d.start + 0 = d.start
      BY <1>2
    <3> QED BY <3>1, <3>2
  <2>5. 0 + 1 = 1 /\ 0 + len = len
    BY <1>6
  <2>6. TextDone(More(a), b, m, string_truncate(h, r, len), SubSeq(o, 1, len))
    BY <2>3, <2>4, <2>5
  <2> QED BY <1>7, <1>8, <2>6
<1>9. CASE k > 0 /\ d.refs > 1 /\ Result(w, 0, string_add_padding(h, r, k), o \o f)
  <2>1. k \in Nat /\ Len(o) + k <= MaxText
    BY <1>6, <1>9
  <2>2. TextDone(More(a), b, m, string_add_padding(h, r, k), o \o f)
    BY <1>2, <1>9, <2>1, <1>d, <1>f, TextPads
  <2> QED BY <1>7, <1>9, <2>2
<1>10. CASE k > 0 /\ Result(w, 0, padded_left(h, r, k), f \o o)
  <2>1. k \in Nat /\ Len(o) + k <= MaxText
    BY <1>6, <1>10
  <2>2. TextDone(More(a), b, m, padded_left(h, r, k), f \o o)
    BY <1>2, <2>1, <1>f, TextPadsLeft
  <2> QED BY <1>7, <1>10, <2>2
<1>11. CASE k = 0 /\ Result(w, 0, [heap |-> h, ref |-> r], o)
  <2>t. PICK top : top = "top"
    OBVIOUS
  <2>1. /\ Setting(Addresses, More(a), GoodTexts, Unused) /\ top \in More(a)
        /\ Shares(h, b, m, Addresses, More(a), GoodTexts)
    BY <1>2, <2>t, Zenon DEF TextStart, TextSetting, TextShares
  <2>2. Shares(h, PutIn(b, top, b[top]), PutIn(m, top, m[top]), Addresses, More(a), GoodTexts)
    BY <2>1, SharesSame
  <2>3. Shares(h, PutIn(b, "top", r), PutIn(m, "top", o), Addresses, More(a), GoodTexts)
    BY <1>2, <2>2, <2>t, Zenon
  <2>p. PICK p : p = [heap |-> h, ref |-> r]
    OBVIOUS
  <2>4. p.heap = h /\ p.ref = r
    BY <2>p
  <2>5. TextDone(More(a), b, m, p, o)
    BY <2>3, <2>4, Zenon DEF TextDone, TextShares
  <2> QED BY <1>7, <1>11, <2>5, <2>p
<1> QED BY <1>5, <1>8, <1>9, <1>10, <1>11

LEMMA OpCaseKeeps ==
    ASSUME ~Mishandled, TextInv, OpCase
    PROVE  TextInv'
<1> HIDE DEF GoodTexts, Addresses, Places, Unused
<1>w. PICK w : w = "none"
  OBVIOUS
<1>0. HasText /\ SpareString /\ w \in TextTargets /\ w \notin TextVars
  BY <1>w, TextSettingIs DEF OpCase, TextTargets
<1>1. PICK a, h, b, m : Alone(w, a, h, b, m)
  BY <1>0, TextAlone
<1>o. PICK o : o = Text
  OBVIOUS
<1>r. PICK r : r = texts["top"]
  OBVIOUS
<1>d. PICK d : d = h[r]
  OBVIOUS
<1>2. /\ TextStart(More(a), h, b, m) /\ b["top"] = r /\ m["top"] = o
      /\ TextOf(o) /\ Len(o) \in Nat /\ Len(o) <= MaxText /\ d.len = Len(o) /\ d.start \in Nat
  BY <1>1, <1>o, <1>r, <1>d, AloneFacts
<1>3. h = strings
  <2>1. h = Pushed(w, 0)
    BY <1>1, Zenon DEF Alone
  <2>2. Pushed(w, 0) = strings
    BY <1>0, Zenon DEF Pushed, string_dup, string_discard
  <2> QED BY <2>1, <2>2
<1>4. PICK case \in {Lower, Upper} :
        /\ Handled(strings, Here(strings).start, Here(strings).len)
        /\ Result("none", 0, string_case(strings, texts["top"], case), [i \in DOMAIN Text |-> case])
  BY DEF OpCase
<1>v. PICK v : v = Cased(o, case)
  OBVIOUS
<1>5. Handled(h, d.start, d.len) /\ Result(w, 0, string_case(h, r, case), v)
  BY <1>3, <1>4, <1>o, <1>r, <1>d, <1>v, <1>w, Zenon DEF Here, Cased
<1>6. MayGrow(d, d.start, d.len)
  BY <1>5, <1>d, <1>r, HandledGrows
<1>7. TextDone(More(a), b, m, string_case(h, r, case), Cased(o, case))
  <2>1. case \in {Lower, Upper}
    OBVIOUS
  <2> QED BY <1>2, <1>6, <1>d, <2>1, TextInCase
<1>8. TextDone(More(a), b, m, string_case(h, r, case), v)
  BY <1>7, <1>v
<1> QED BY <1>0, <1>1, <1>5, <1>8, AloneKeeps

Compiled(d) == [d EXCEPT !.reg = IF @ = NoRegexp THEN CString(d) ELSE @]

LEMMA CompiledIs ==
    ASSUME NEW a, NEW l, NEW z, NEW k, NEW s, NEW r, NEW g, NEW d,
           d = [start |-> a, len |-> l, size |-> z, refs |-> k, s |-> s, reg |-> r],
           g = IF r = NoRegexp THEN CString(d) ELSE r
    PROVE  Compiled(d) = [start |-> a, len |-> l, size |-> z, refs |-> k, s |-> s, reg |-> g]
BY DEF Compiled

LEMMA RegexpIs ==
    ASSUME NEW d, NEW o, GoodText(d, o), NEW e, e = Compiled(d)
    PROVE  GoodText(e, o) /\ e.refs = d.refs
<1>1. /\ d.start \in Nat /\ d.len \in Nat /\ d.size \in Nat /\ d.refs \in Nat
      /\ d.s \in [0 .. d.size -> Nat] /\ d.start + d.len <= d.size /\ d.reg \in Seq(Nat)
      /\ d = [start |-> d.start, len |-> d.len, size |-> d.size, refs |-> d.refs,
              s |-> d.s, reg |-> d.reg]
      /\ o \in Seq(Nat)
  BY TextParts
<1>2. CString(d) = o /\ d.reg \in {NoRegexp, o}
  BY GoodTextIs DEF GoodText
<1>3. o = IF d.reg = NoRegexp THEN CString(d) ELSE d.reg
  BY <1>2
<1>4. e = [start |-> d.start, len |-> d.len, size |-> d.size, refs |-> d.refs, s |-> d.s, reg |-> o]
  BY <1>1, <1>3, CompiledIs
<1>5. /\ e.start = d.start /\ e.len = d.len /\ e.size = d.size /\ e.refs = d.refs /\ e.s = d.s
      /\ e.reg = o
  BY <1>4
<1>6. Block(e)
  BY <1>1, <1>4, BlockMade
<1>7. GoodText(e, o)
  BY <1>5, <1>6 DEF GoodText, Begins, Closed
<1> QED BY <1>5, <1>7

LEMMA OpMatchRegexpKeeps ==
    ASSUME TextInv, OpMatchRegexp
    PROVE  TextInv'
<1> HIDE DEF GoodTexts, Addresses, Places, Unused
<1>1. /\ Setting(Addresses, Places, GoodTexts, Unused)
      /\ Shares(strings, texts, meanings, Addresses, Places, GoodTexts)
      /\ "top" \in Places /\ DOMAIN strings = Addresses
      /\ texts \in [Places -> Addresses \cup {0}]
      /\ \A p \in Places : texts[p] # 0 => GoodText(strings[texts[p]], meanings[p])
  BY TextInvFacts, Zenon DEF TextSetting, TextShares
<1>r. PICK r : r = texts["top"]
  OBVIOUS
<1>d. PICK d : d = strings[r]
  OBVIOUS
<1>e. PICK e : e = Compiled(d)
  OBVIOUS
<1>2. r \in Addresses /\ r # 0
  BY <1>1, <1>r DEF OpMatchRegexp, HasText
<1>3. ASSUME NEW u \in Places, texts[u] = r
      PROVE  <<e, meanings[u]>> \in GoodTexts /\ e.refs = d.refs
  <2>1. GoodText(d, meanings[u])
    BY <1>1, <1>2, <1>3, <1>d
  <2>2. GoodText(e, meanings[u]) /\ e.refs = d.refs
    BY <2>1, <1>e, RegexpIs
  <2> QED BY <2>2, GoodTextIn
<1>4. e.refs = strings[r].refs
  BY <1>1, <1>3, <1>d, <1>r
<1>5. Shares(PutIn(strings, r, e), texts, meanings, Addresses, Places, GoodTexts)
  <2>1. \A u \in Places : texts[u] = r => <<e, meanings[u]>> \in GoodTexts
    BY <1>3
  <2> QED BY <1>1, <1>2, <1>4, <2>1, Amend
<1>6. strings' = PutIn(strings, r, e) /\ texts' = texts /\ meanings' = meanings
  <2>1. strings' = string_regexp(strings, r) /\ texts' = texts /\ meanings' = meanings
    BY <1>r DEF OpMatchRegexp
  <2>2. string_regexp(strings, r) = PutIn(strings, r, Compiled(strings[r]))
    BY Zenon DEF string_regexp, Compiled, PutIn
  <2> QED BY <2>1, <2>2, <1>d, <1>e
<1> QED BY <1>5, <1>6 DEF TextInv, TextShares

WithFirst(e) == [e EXCEPT !.len = 1, !.s[0] = Lower]
FirstText == WithFirst(string_new(1))

LEMMA FirstCharacter ==
    ASSUME NEW a, NEW l, NEW z, NEW k, NEW s, NEW r, NEW e,
           e = [start |-> a, len |-> l, size |-> z, refs |-> k, s |-> s, reg |-> r]
    PROVE  WithFirst(e) =
           [start |-> a, len |-> 1, size |-> z, refs |-> k, s |-> [s EXCEPT ![0] = Lower], reg |-> r]
<1>1. WithFirst(e) = [e EXCEPT !.len = 1, !.s = [s EXCEPT ![0] = Lower]]
  BY DEF WithFirst
<1>p. PICK p : p = [s EXCEPT ![0] = Lower]
  OBVIOUS
<1>2. [e EXCEPT !.len = 1, !.s = p] =
      [start |-> a, len |-> 1, size |-> z, refs |-> k, s |-> p, reg |-> r]
  <2>1. [e EXCEPT !.len = 1] = [start |-> a, len |-> 1, size |-> z, refs |-> k, s |-> s, reg |-> r]
    OBVIOUS
  <2>f. PICK f : f = [e EXCEPT !.len = 1]
    OBVIOUS
  <2>2. [f EXCEPT !.s = p] = [start |-> a, len |-> 1, size |-> z, refs |-> k, s |-> p, reg |-> r]
    <3>1. f = [start |-> a, len |-> 1, size |-> z, refs |-> k, s |-> s, reg |-> r]
      BY <2>1, <2>f
    <3> QED BY <3>1, NewCharacters
  <2>3. [e EXCEPT !.len = 1, !.s = p] = [f EXCEPT !.s = p]
    BY <2>f
  <2> QED BY <2>2, <2>3
<1> QED BY <1>1, <1>2, <1>p

LEMMA FirstTextIs ==
    ASSUME NEW d, d = FirstText
    PROVE  GoodText(d, <<Lower>>) /\ d.refs = 1
<1>e. PICK e : e = string_new(1)
  OBVIOUS
<1>1. 1 \in 0 .. MaxText
  BY StringsAssumption
<1>2. AllNul(e) /\ e.len = 0 /\ e.size \in Nat /\ 1 <= e.size
  BY <1>1, <1>e, StringNewIs
<1>3. /\ e.start = 0 /\ e.refs = 1 /\ e.reg = NoRegexp /\ e.s \in [0 .. e.size -> Nat]
      /\ \A i \in 0 .. e.size : e.s[i] = NUL
      /\ e = [start |-> e.start, len |-> e.len, size |-> e.size, refs |-> e.refs,
              s |-> e.s, reg |-> e.reg]
  BY <1>2, BlockFields DEF AllNul
<1>s. PICK s : s = [e.s EXCEPT ![0] = Lower]
  OBVIOUS
<1>4. s \in [0 .. e.size -> Nat] /\ s[0] = Lower /\ s[1] = NUL
  BY <1>2, <1>3, <1>s DEF Lower
<1>5. d = [start |-> 0, len |-> 1, size |-> e.size, refs |-> 1, s |-> s, reg |-> NoRegexp]
  <2>1. WithFirst(e) =
        [start |-> e.start, len |-> 1, size |-> e.size, refs |-> e.refs,
         s |-> [e.s EXCEPT ![0] = Lower], reg |-> e.reg]
    BY <1>3, FirstCharacter
  <2>2. d = WithFirst(e)
    BY <1>e, Zenon DEF FirstText
  <2>3. /\ e.start = 0 /\ e.refs = 1 /\ e.reg = NoRegexp
    BY <1>3
  <2> QED BY <1>s, <2>1, <2>2, <2>3
<1>6. /\ d.start = 0 /\ d.len = 1 /\ d.size = e.size /\ d.refs = 1 /\ d.s = s /\ d.reg = NoRegexp
  BY <1>5
<1>7. NoRegexp \in Seq(Nat) /\ 0 + 1 <= e.size
  BY <1>2 DEF NoRegexp, Junk
<1>8. Block(d)
  BY <1>2, <1>4, <1>5, <1>7, BlockMade, SMTT(30)
<1>o. PICK o : o = <<Lower>>
  OBVIOUS
<1>9. TextOf(o) /\ Len(o) = 1 /\ o[1] = Lower
  BY <1>o DEF TextOf
<1>10. Begins(d, o) /\ Closed(d)
  BY <1>4, <1>6, <1>9 DEF Begins, Closed
<1>11. GoodText(d, o)
  BY <1>1, <1>6, <1>8, <1>9, <1>10 DEF GoodText
<1> QED BY <1>6, <1>11, <1>o

LEMMA TextInvInit ==
    ASSUME StringInit
    PROVE  TextInv
<1>d. PICK d : d = FirstText
  OBVIOUS
<1>o. PICK o : o = <<Lower>>
  OBVIOUS
<1>1. GoodText(d, o) /\ d.refs = 1
  BY <1>d, <1>o, FirstTextIs
<1>2. 1 \in Addresses
  BY StringsAssumption DEF Addresses
<1>c. PICK c : c = "code"
  OBVIOUS
<1>3. c \in Places /\ Unused.refs = 0
  BY <1>c DEF Places, Unused
<1>s. strings = [a \in Addresses |-> IF a = 1 THEN d ELSE Unused]
  BY <1>d, Zenon DEF StringInit, FirstText, WithFirst
<1>p. /\ texts = [p \in Places |-> IF p = c THEN 1 ELSE 0]
      /\ meanings = [p \in Places |-> IF p = c THEN o ELSE <<>>]
  BY <1>c, <1>o DEF StringInit
<1> HIDE DEF GoodTexts, Addresses, Places, Unused
<1>h. PICK h : h = [r \in Addresses |-> Unused]
  OBVIOUS
<1>b. PICK b : b = [s \in Places |-> 0]
  OBVIOUS
<1>m. PICK m : m = [s \in Places |-> <<>>]
  OBVIOUS
<1>4. Setting(Addresses, Places, GoodTexts, Unused)
  BY TextSettingIs, Zenon DEF TextSetting
<1>5. Shares(h, b, m, Addresses, Places, GoodTexts)
  <2>1. Shares([r \in Addresses |-> Unused], [s \in Places |-> 0], [s \in Places |-> <<>>],
               Addresses, Places, GoodTexts)
    BY <1>4, SharesNothing
  <2> QED BY <1>h, <1>b, <1>m, <2>1
<1>6. <<d, o>> \in GoodTexts
  BY <1>1, GoodTextIn
<1>7. h[1].refs = 0 /\ b[c] = 0
  BY <1>2, <1>3, <1>h, <1>b
<1>n. PICK n : n = 1
  OBVIOUS
<1>8. Shares(PutIn(h, n, d), PutIn(b, c, n), PutIn(m, c, o), Addresses, Places, GoodTexts)
  BY <1>1, <1>2, <1>3, <1>4, <1>5, <1>6, <1>7, <1>n, StoreNew
<1>9. strings = PutIn(h, n, d)
  BY <1>h, <1>n, <1>s, <1>2 DEF PutIn
<1>10. texts = PutIn(b, c, n) /\ meanings = PutIn(m, c, o)
  BY <1>b, <1>m, <1>n, <1>p DEF PutIn
<1> QED BY <1>8, <1>9, <1>10 DEF TextInv, TextShares

LEMMA TextInvNext ==
    ASSUME ~Mishandled, TextInv, [StringNext]_stringVars
    PROVE  TextInv'
<1>1. CASE UNCHANGED stringVars
  BY <1>1 DEF stringVars, TextInv, TextShares, Shares, Placed, Counted, Stands, Count, Holding
<1>2. CASE StringNext
  BY <1>2, MoveTextKeeps, AddStringsKeeps, OpSubstrKeeps, OpPadKeeps, OpCaseKeeps,
     OpMatchRegexpKeeps DEF StringNext
<1> QED BY <1>1, <1>2

LEMMA TextInvKept ==
    ASSUME TextInv
    PROVE  StringsKept
<1>1. ASSUME NEW p \in Places, texts[p] # 0, NEW d, d = strings[texts[p]]
      PROVE  /\ CString(d) = meanings[p] /\ Chars(d) = meanings[p]
             /\ d.reg \in {NoRegexp, meanings[p]}
             /\ d.refs = Cardinality({q \in Places : texts[q] = texts[p]})
  <2>1. /\ GoodText(d, meanings[p])
        /\ texts \in [Places -> Addresses \cup {0}] /\ DOMAIN texts = Places
        /\ \A r \in Addresses : strings[r].refs = Count(texts, r)
    BY <1>1, TextInvFacts
  <2>2. CString(d) = meanings[p] /\ Chars(d) = meanings[p]
    BY <2>1, GoodTextIs
  <2>3. d.reg \in {NoRegexp, meanings[p]}
    BY <2>1 DEF GoodText
  <2>4. d.refs = Count(texts, texts[p])
    BY <1>1, <2>1
  <2>5. Count(texts, texts[p]) = Cardinality({q \in Places : texts[q] = texts[p]})
    BY <2>1, Zenon DEF Count, Holding
  <2> QED BY <2>2, <2>3, <2>4, <2>5
<1> QED BY <1>1 DEF StringsKept

(* Whatever strings share, every variable holds the text it would hold if    *)
(* strings were copied whenever they are assigned or passed, ended by a NUL  *)
(* (stringop.c:88), with the regular expression of that text or none         *)
(* (string.c:235), and the references are counted: as long as a window that  *)
(* grows in place begins its array, a string that is resized in place has no *)
(* regular expression yet, and one that nobody else holds is not padded on   *)
(* the right.                                                                *)
THEOREM StringsAreKept ==
    ASSUME ~Mishandled PROVE StringSpec => []StringsKept
<1>1. StringInit => TextInv
  BY TextInvInit
<1>2. TextInv /\ [StringNext]_stringVars => TextInv'
  BY TextInvNext
<1>3. TextInv => StringsKept
  BY TextInvKept
<1> QED BY <1>1, <1>2, <1>3, PTL DEF StringSpec
==============================================================================
