------------------------------ MODULE Hierarchy ------------------------------
(* The inheritance graph (object.c): every object lists its parents, in the *)
(* order in which methods are looked for, and its children.  The two lists  *)
(* are kept by different functions on different objects; op_create,         *)
(* op_chparents, op_destroy and the text dump change them.  All of them mark *)
(* the objects they change dirty, but for op_chparents, which leaves the    *)
(* mark of the object it moves as it is.                                    *)
EXTENDS Integers, Sequences, FiniteSets, SequencesExt

CONSTANTS Dbrefs,
          ParentLists,  \* bound: the lists of parents that are asked for
          Holdable,     \* bound: objects that frames hold on to
          Clean         \* bound: objects that may be clean when they are moved

SYSTEM_DBREF == 0
ROOT_DBREF == 1

ASSUME HierarchyAssumption ==
    /\ {SYSTEM_DBREF, ROOT_DBREF} \subseteq Dbrefs /\ Dbrefs \subseteq Nat
    /\ ParentLists \subseteq Seq(Dbrefs) /\ {Holdable, Clean} \subseteq SUBSET Dbrefs

VARIABLES loading,      \* the text dump is being read
          objects,      \* that exist, the dead ones that are held included
          parents,      \* dbref -> list
          children,     \* dbref -> how often each object is in its list; the
                        \* order of children makes no difference
          former,       \* dbref -> the list of parents its image on disk has,
                        \* where that is not the object's and will stay: it was
                        \* clean when it was moved, and nothing marked it since
          dead, held,
          db_top,
          reverted,     \* history: the objects that were read back with it
          own           \* history: those loaded as parents of themselves

graph == <<objects, parents, children, former>>
hvars == <<loading, graph, dead, held, db_top, reverted, own>>

Times(x, s) == Cardinality({i \in DOMAIN s : s[i] = x})
NoChildren == [c \in Dbrefs |-> 0]

(* Definitions named Bug_... are plausible mistakes, each in the place of    *)
(* the definition that follows it; the properties have to notice them.      *)

(* The members of s that are in S, in their order (SelectSeq, written so    *)
(* that it can be reasoned about).                                          *)
Kept(s, S) ==
    LET upto[i \in 0 .. Len(s)] ==
            IF i = 0 THEN <<>>
            ELSE IF s[i] \in S THEN Append(upto[i - 1], s[i]) ELSE upto[i - 1]
    IN  upto[Len(s)]

(* object_update_parents, of each of cs: it enters the children list of     *)
(* each of its parents ps, once for each time it has that parent.           *)
Added(ch, ps, cs) ==
    [p \in Dbrefs |-> [c \in Dbrefs |-> ch[p][c] + IF c \in cs THEN Times(p, ps) ELSE 0]]

Bug_Left(ch, ps, c) == ch       \* never leaves
Left(ch, ps, c) ==              \* c leaves those of its parents
    [p \in Dbrefs |-> [ch[p] EXCEPT ![c] = @ - Times(p, ps)]]

(* Objects that are marked dirty will be written as they are.               *)
Marked(fs, ds) == [d \in Dbrefs |-> IF d \in ds THEN {} ELSE fs[d]]

(* The ancestors of d and d itself, in the order in which a reverse         *)
(* depth-first search, parents from the right, leaves them; no object is    *)
(* searched twice (cur_search).  The graph has no cycle.                     *)
PostOrder(par, d) ==
    LET visit[x \in Dbrefs, done \in Seq(Dbrefs)] ==
            IF Contains(done, x) THEN done
            ELSE Append(FoldRight(LAMBDA p, seen : visit[p, seen], par[x], done), x)
    IN  visit[d, <<>>]

(* object_has_ancestor: a search from d through parents, that takes no       *)
(* object twice, comes to a.  In whatever order it goes, what it searches    *)
(* are the objects of every set that has d and the parents of its members.   *)
(* It marks them.                                                            *)
Searched(par, d) ==
    LET closed == {S \in SUBSET Dbrefs : d \in S /\ \A y \in S : Range(par[y]) \subseteq S}
    IN  {x \in Dbrefs : \A S \in closed : x \in S}
HasAncestor(d, a) == d = a \/ a \in Searched(parents, d)

-----------------------------------------------------------------------------
(* initialize, with no database: root, and the system object below it.      *)
Init ==
    /\ loading = TRUE
    /\ objects = {ROOT_DBREF, SYSTEM_DBREF}
    /\ parents = [d \in Dbrefs |-> IF d = SYSTEM_DBREF THEN <<ROOT_DBREF>> ELSE <<>>]
    /\ children = [d \in Dbrefs |->
                     IF d = ROOT_DBREF THEN [NoChildren EXCEPT ![SYSTEM_DBREF] = 1]
                     ELSE NoChildren]
    /\ former = [d \in Dbrefs |-> {}] /\ reverted = {} /\ own = {}
    /\ dead = {} /\ held = {} /\ db_top = 2

Graph == [objects |-> objects, parents |-> parents, children |-> children, former |-> former]
Become(g) == /\ objects' = g.objects /\ parents' = g.parents
             /\ children' = g.children /\ former' = g.former

(* object_new, as far as it is about kin.                                   *)
Created(g, d, ps) ==
    [objects |-> g.objects \cup {d},
     parents |-> [g.parents EXCEPT ![d] = ps],
     children |-> Added([g.children EXCEPT ![d] = NoChildren], ps, {d}),
     former |-> Marked(g.former, Range(ps))]

Bug_Adopted(g, kids, d) == {}   \* leaves kids without parents
Adopted(g, kids, d) == {k \in kids : Times(d, g.parents[k]) = Len(g.parents[k])}

(* object_destroy: parents lose the object, and so do its children; a child *)
(* that has no other parent gets those of the object.                       *)
Destroyed(g, d) ==
    LET kids == {k \in Dbrefs : g.children[d][k] > 0}
        adopted == Adopted(g, kids, d)
        left == Left(g.children, g.parents[d], d)
    IN  [objects |-> g.objects \ {d},
         parents |-> [k \in Dbrefs |->
                        IF k = d THEN <<>>
                        ELSE IF k \in adopted THEN g.parents[d]
                        ELSE IF k \in kids THEN Kept(g.parents[k], Dbrefs \ {d})
                        ELSE g.parents[k]],
         children |-> [Added(left, g.parents[d], adopted) EXCEPT ![d] = NoChildren],
         former |-> Marked(g.former, kids \cup Range(g.parents[d]) \cup {d})]

(* It asks the object's kin to delete it from their lists.  Where they do    *)
(* not have it, list_delete_element asserts; the parent of itself is gone    *)
(* when it is asked.  The server stops there, and the model goes no further. *)
KinKnow(d) == d \notin reverted
Destroyable(d) == /\ KinKnow(d) /\ ~Contains(parents[d], d)
                  /\ \A k \in reverted : children[d][k] = 0

(* op_create: every parent must exist (a dead one that is held does); the   *)
(* list may be empty, and may name a parent twice.                          *)
OpCreate(ps) ==
    /\ ~loading /\ db_top \in Dbrefs
    /\ Range(ps) \subseteq objects
    /\ Become(Created(Graph, db_top, ps))
    /\ db_top' = db_top + 1
    /\ UNCHANGED <<loading, dead, held, reverted, own>>

Bug_ParentsOk(d, ps) == Range(ps) \subseteq objects     \* no look for cycles

(* object_change_parents refuses parents that are not there or descend from *)
(* the object; the calls it refuses change nothing here.                    *)
ParentsOk(d, ps) ==
    Range(ps) \subseteq objects /\ \A p \in Range(ps) : ~HasAncestor(p, d)

Bug_Visited(d, ps) == Range(parents[d]) \cup Range(ps)     \* not what is searched

Visited(d, ps) == Range(parents[d]) \cup UNION {Searched(parents, p) : p \in Range(ps)}

(* It marks the parents the object had and gets and what it searches, but   *)
(* not the object.                                                          *)
OpChparents(d, ps) ==
    /\ ~loading /\ d \in objects \ {ROOT_DBREF} /\ ps # <<>>
    /\ ParentsOk(d, ps) /\ KinKnow(d) /\ Visited(d, ps) \subseteq objects
    /\ parents' = [parents EXCEPT ![d] = ps]
    /\ children' = Added(Left(children, parents[d], d), ps, {d})
    /\ \E onDisk \in {{}} \cup {{parents[x]} : x \in {d} \cap Clean} :
          former' = Marked([former EXCEPT ![d] = IF onDisk = {} \/ @ = {} THEN onDisk ELSE @],
                           Visited(d, ps))
    /\ UNCHANGED <<loading, objects, dead, held, db_top, reverted, own>>

(* An object that is clean is recycled without being written, and read back *)
(* as it was (cache_get_holder, cache_retrieve): when no one holds it, or    *)
(* after a restart.                                                         *)
Reread(d) ==
    /\ d \notin held
    /\ \E ps \in former[d] : parents' = [parents EXCEPT ![d] = ps]
    /\ former' = [former EXCEPT ![d] = {}]
    /\ reverted' = reverted \cup {d}
    /\ UNCHANGED <<loading, objects, children, dead, held, db_top, own>>

(* op_destroy: the object goes with the last reference to it.               *)
OpDestroy(d) ==
    /\ ~loading /\ d \in objects \ {ROOT_DBREF, SYSTEM_DBREF}
    /\ IF d \in held
       THEN dead' = dead \cup {d} /\ UNCHANGED graph
       ELSE Destroyable(d) /\ Become(Destroyed(Graph, d)) /\ UNCHANGED dead
    /\ UNCHANGED <<loading, held, db_top, reverted, own>>

Hold(d) ==
    /\ ~loading /\ d \in (objects \cap Holdable) \ held
    /\ held' = held \cup {d}
    /\ UNCHANGED <<loading, graph, dead, db_top, reverted, own>>

Release(d) ==
    /\ d \in held /\ held' = held \ {d}
    /\ IF d \in dead THEN Destroyable(d) /\ Become(Destroyed(Graph, d))
                     ELSE UNCHANGED graph
    /\ dead' = dead \ {d}
    /\ UNCHANGED <<loading, db_top, reverted, own>>

(* text_dump_read at an "object" line.  Parent lines that name objects that *)
(* do not exist are dropped, an object left without any is parented to      *)
(* root, and an object of that dbref that exists is destroyed first, though *)
(* it may be one of the parents.                                            *)
LoadObject(d, ps) ==
    LET known == Kept(ps, objects)
        list == IF known = <<>> /\ d # ROOT_DBREF THEN <<ROOT_DBREF>> ELSE known
        g == IF d \in objects THEN Destroyed(Graph, d) ELSE Graph
    IN  /\ loading /\ (d \in objects => Destroyable(d))
        /\ Become(Created(g, d, list))
        /\ own' = own \cup {x \in {d} : Contains(list, x)}
        /\ db_top' = IF d >= db_top THEN d + 1 ELSE db_top
        /\ UNCHANGED <<loading, dead, held, reverted>>

LoadDone ==
    /\ loading /\ loading' = FALSE
    /\ UNCHANGED <<graph, dead, held, db_top, reverted, own>>

Next ==
    \/ \E ps \in ParentLists : OpCreate(ps)
    \/ \E d \in Dbrefs : OpDestroy(d) \/ Hold(d) \/ Release(d) \/ Reread(d)
    \/ \E d \in Dbrefs, ps \in ParentLists : OpChparents(d, ps) \/ LoadObject(d, ps)
    \/ LoadDone

Spec == Init /\ [][Next]_hvars

-----------------------------------------------------------------------------
TypeOK ==
    /\ loading \in BOOLEAN
    /\ {ROOT_DBREF, SYSTEM_DBREF} \subseteq objects /\ objects \subseteq Dbrefs
    /\ parents \in [Dbrefs -> Seq(Dbrefs)]
    /\ children \in [Dbrefs -> [Dbrefs -> Nat]]
    /\ \A d \in Dbrefs : \A ps \in former[d] : ps \in Seq(Dbrefs) /\ former[d] = {ps}
    /\ dead \subseteq held /\ held \subseteq objects \cap Holdable
    /\ db_top \in Nat /\ \A d \in objects : d < db_top
    /\ reverted \subseteq Dbrefs /\ own \subseteq Dbrefs

(* The two lists say the same: c has the parent p as often as p has the     *)
(* child c, and neither names an object that is gone, whatever objects are  *)
(* created, moved, redefined or destroyed around them.  list_delete_element *)
(* asserts on it, and cache_retrieve of kin is used without a check.  What   *)
(* op_chparents did to an object that was clean is lost with its cache       *)
(* entry, and the parents it got and had are not told; of no other object    *)
(* the lists disagree.                                                       *)
KinAgree ==
    /\ \A p, c \in Dbrefs : c \notin reverted => children[p][c] = Times(p, parents[c])
    /\ \A d \in Dbrefs \ objects : parents[d] = <<>> /\ children[d] = NoChildren

(* No object is its own ancestor, so that searches end: of any objects,     *)
(* one has no parent among them, or none but itself if it was loaded so.    *)
(* That moves may be lost does not change it, as the searches that look for *)
(* cycles mark the objects whose moves they rely on.  (TLC sees a cycle      *)
(* before any search runs into it: the parents of a new or moved object.)   *)
Acyclic ==
    \A S \in SUBSET objects : S # {} =>
        \E d \in S : Range(parents[d]) \cap S \subseteq {d} \cap own

(* An object that had parents is only left without any if it hung on one    *)
(* that had none itself: destroying an object never cuts its descendants    *)
(* off from what it inherited from.                                         *)
NobodyCutOff ==
    [][\A d \in objects \cap objects' :
          parents[d] # <<>> /\ parents'[d] = <<>>
            => \/ d \in reverted' \cup {ROOT_DBREF}
               \/ \E p \in Range(parents[d]) : parents[p] = <<>>]_hvars
=============================================================================
