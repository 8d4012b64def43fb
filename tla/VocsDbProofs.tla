---------------------------- MODULE VocsDbProofs ----------------------------
(***************************************************************************)
(* Proofs about VocsDbSystem for any sets of ids, with files, crashes and  *)
(* loads.  They are about requests that give projects no ids which are in  *)
(* use elsewhere, and create a role admin only where there is none.        *)
(***************************************************************************)
EXTENDS VocsDbSystem, TLAPS

UsedWithCare == ~ForeignIds /\ ~RepeatAdmin

-----------------------------------------------------------------------------
(* The inductive invariant.  What is below a node of a tree is below nodes *)
(* of the tree, and an id other than admin is used once per kind.          *)
Closed(t) ==
    \A n \in t : DomainNode(n.domain) \in t /\ (n.project # None => ProjectNode(n.domain, n.project) \in t)

Unique(t) == \A m, n \in t : Entity(m) = Entity(n) => m = n \/ IsAdmin(m)

(* A database of tree t and index x.                                       *)
Dangling(t, x, e) == x[e] # None /\ ~(x[e] \in t /\ Entity(x[e]) = e)

Indexed(t, x, n) == IsAdmin(n) \/ x[Entity(n)] = n

Sound(d) ==
    /\ d = [tree |-> d.tree, index |-> d.index]
    /\ d.tree \subseteq Nodes /\ Closed(d.tree)
    /\ d.index \in [Entities -> Nodes \cup {None, Freed}]
    /\ \A e \in Entities : ~Dangling(d.tree, d.index, e)
    /\ \A n \in d.tree : Indexed(d.tree, d.index, n)

(* What is saved was such a tree; the files are part of one such copy, and *)
(* a member is in the file of its project.  While a save removes files,    *)
(* the file of a domain may be gone before those of its projects.          *)
FilesSound ==
    /\ toSave \subseteq Nodes /\ Unique(toSave) /\ Closed(toSave)
    /\ version \subseteq Nodes /\ Unique(version) /\ Closed(version)
    /\ disk \subseteq version
    /\ \A m \in disk : m.project # None => ProjectNode(m.domain, m.project) \in disk
    /\ \A m \in disk : m.domain \in dirs
    /\ \A d \in dirs : DomainNode(d) \in version
    /\ process = "saving" => version = toSave

IndInv == Sound(db) /\ FilesSound

-----------------------------------------------------------------------------
(* Nodes.                                                                  *)

(* What the kind of a node says about its path.                            *)
LEMMA NodeKinds ==
    ASSUME NEW n \in Nodes
    PROVE  /\ n.domain \in Domains /\ n.project \in Projects \cup {None}
           /\ n.kind \in {"domain", "project", "user", "role", "loop"}
           /\ n.kind = "domain" => n = DomainNode(n.domain) /\ n.id = n.domain /\ n.project = None
           /\ n.kind = "project" => n = ProjectNode(n.domain, n.project) /\ n.id = n.project
                                    /\ n.project \in Projects /\ n.project # None
           /\ n.kind \in LeafKinds => n = Node(n.kind, n.id, n.domain, n.project)
<1>1. CASE \E d \in Domains : n = DomainNode(d)
    BY <1>1 DEF DomainNode, Node, LeafKinds
<1>2. CASE \E d \in Domains, p \in Projects : n = ProjectNode(d, p)
    BY <1>2, IdsAssumption DEF ProjectNode, Node, LeafKinds
<1>3. CASE \E k \in LeafKinds : \E i \in IdsOf(k), d \in Domains, p \in Projects \cup {None} : n = Node(k, i, d, p)
    BY <1>3 DEF Node, LeafKinds
<1> QED
    BY <1>1, <1>2, <1>3 DEF Nodes

(* The nodes of the tree's shape are nodes.                                *)
LEMMA NodesMade ==
    ASSUME NEW d \in Domains
    PROVE  /\ DomainNode(d) \in Nodes
           /\ \A p \in Projects : ProjectNode(d, p) \in Nodes
           /\ \A k \in LeafKinds, p \in Projects \cup {None} : \A i \in IdsOf(k) : Node(k, i, d, p) \in Nodes
<1>1. \A k \in LeafKinds, p \in Projects \cup {None} : \A i \in IdsOf(k) : Node(k, i, d, p) \in Nodes
  <2> SUFFICES ASSUME NEW k \in LeafKinds, NEW p \in Projects \cup {None}, NEW i \in IdsOf(k)
               PROVE  Node(k, i, d, p) \in Nodes
    OBVIOUS
  <2> DEFINE S == {Node(k, j, c, q) : j \in IdsOf(k), c \in Domains, q \in Projects \cup {None}}
  <2>1. Node(k, i, d, p) \in S
    OBVIOUS
  <2> QED
    BY <2>1 DEF Nodes
<1> QED
    BY <1>1 DEF Nodes

(* The fields of the nodes made by the model.                              *)
LEMMA NodeFields ==
    ASSUME NEW k, NEW i, NEW d, NEW p
    PROVE  /\ Node(k, i, d, p).kind = k /\ Node(k, i, d, p).id = i
           /\ Node(k, i, d, p).domain = d /\ Node(k, i, d, p).project = p
           /\ Entity(Node(k, i, d, p)) = <<k, i>>
    BY DEF Node, Entity

(* Nodes found under the same entry have the same kind and id.             *)
LEMMA EntityFields ==
    ASSUME NEW m, NEW k, NEW i
    PROVE  Entity(m) = <<k, i>> <=> m.kind = k /\ m.id = i
    BY DEF Entity

(* An entry of the index belongs to a node.                                *)
LEMMA EntityOfNode ==
    ASSUME NEW n \in Nodes
    PROVE  Entity(n) \in Entities /\ n # None /\ n # Freed
    BY PointersAssumption DEF Entities

(* A leaf's subtree is the leaf.                                           *)
LEMMA Subtrees ==
    ASSUME NEW t, NEW n
    PROVE  /\ Subtree(t, n) \subseteq t
           /\ n \in t => n \in Subtree(t, n)
           /\ n.kind = "domain" => \A m \in t : m.domain = n.domain => m \in Subtree(t, n)
           /\ n.kind = "project" => \A m \in t : m.domain = n.domain /\ m.project = n.project => m \in Subtree(t, n)
           /\ \A m \in Subtree(t, n) : m = n \/ (n.kind \in {"domain", "project"} /\ m.domain = n.domain)
           /\ \A m \in Subtree(t, n) : n.kind = "project" => m = n \/ m.project = n.project
    BY DEF Subtree

-----------------------------------------------------------------------------
(* Exchanging nodes.  Every request takes the nodes gone out of the tree   *)
(* and the entries out of the index, and brings in and indexes the nodes   *)
(* new.                                                                    *)
NotOf(new, e) == \A n \in new : Entity(n) # e

Exchanged(d, f, gone, out, new) ==
    /\ f = [tree |-> f.tree, index |-> f.index]
    /\ f.tree = (d.tree \ gone) \cup new
    /\ f.index \in [Entities -> Nodes \cup {None, Freed}]
    /\ \A e \in Entities :
        \/ f.index[e] \in new /\ Entity(f.index[e]) = e
        \/ NotOf(new, e) /\ e \in out /\ f.index[e] = None
        \/ NotOf(new, e) /\ e \notin out /\ f.index[e] = d.index[e]

(* What goes is unindexed, nothing else is, and what comes shares its ids  *)
(* with nothing; the roles admin apart.                                    *)
Allowed(d, gone, out, new) ==
    /\ gone \subseteq d.tree /\ new \subseteq Nodes /\ Unique(new)
    /\ \A m \in gone : Entity(m) \in out
    /\ \A m \in d.tree \ gone : Entity(m) \in out => IsAdmin(m)
    /\ \A m \in d.tree \ gone, n \in new : Entity(m) = Entity(n) => IsAdmin(m)

(* No such exchange leaves a dangling entry or loses a node.               *)
LEMMA ExchangeSound ==
    ASSUME NEW d, NEW f, NEW gone, NEW out, NEW new,
           Sound(d), Allowed(d, gone, out, new), Exchanged(d, f, gone, out, new), Closed(f.tree)
    PROVE  Sound(f)
<1>1. /\ d.tree \subseteq Nodes /\ \A e \in Entities : ~Dangling(d.tree, d.index, e)
      /\ \A n \in d.tree : Indexed(d.tree, d.index, n)
    BY DEF Sound
<1>2. /\ gone \subseteq d.tree /\ new \subseteq Nodes /\ Unique(new)
      /\ \A m \in gone : Entity(m) \in out
      /\ \A m \in d.tree \ gone : Entity(m) \in out => IsAdmin(m)
      /\ \A m \in d.tree \ gone, n \in new : Entity(m) = Entity(n) => IsAdmin(m)
    BY DEF Allowed
<1>3. /\ f = [tree |-> f.tree, index |-> f.index]
      /\ f.tree = (d.tree \ gone) \cup new
      /\ f.index \in [Entities -> Nodes \cup {None, Freed}]
      /\ \A e \in Entities :
          \/ f.index[e] \in new /\ Entity(f.index[e]) = e
          \/ NotOf(new, e) /\ e \in out /\ f.index[e] = None
          \/ NotOf(new, e) /\ e \notin out /\ f.index[e] = d.index[e]
    BY DEF Exchanged
<1>4. f.tree \subseteq Nodes
    BY <1>1, <1>2, <1>3
<1>5. ASSUME NEW e \in Entities PROVE ~Dangling(f.tree, f.index, e)
  <2>1. CASE f.index[e] \in new /\ Entity(f.index[e]) = e
    BY <1>3, <2>1 DEF Dangling
  <2>2. CASE f.index[e] = None
    BY <2>2 DEF Dangling
  <2>3. CASE e \notin out /\ f.index[e] = d.index[e] /\ f.index[e] # None
    <3>1. d.index[e] \in d.tree /\ Entity(d.index[e]) = e
        BY <1>1, <2>3 DEF Dangling
    <3>2. d.index[e] \notin gone
        BY <1>2, <2>3, <3>1
    <3> QED
        BY <1>3, <2>3, <3>1, <3>2 DEF Dangling
  <2> QED
    BY <1>3, <2>1, <2>2, <2>3
<1>6. ASSUME NEW n \in f.tree PROVE Indexed(f.tree, f.index, n)
  <2> SUFFICES ASSUME ~IsAdmin(n) PROVE f.index[Entity(n)] = n
    BY DEF Indexed
  <2> DEFINE e == Entity(n)
  <2>1. e \in Entities
    BY <1>4, EntityOfNode
  <2>2. CASE n \in new
    <3>1. f.index[e] \in new /\ Entity(f.index[e]) = e
        BY <1>3, <2>1, <2>2 DEF NotOf
    <3> QED
        BY <1>2, <2>2, <3>1 DEF Unique
  <2>3. CASE n \notin new
    <3>1. n \in d.tree \ gone
        BY <1>3, <2>3
    <3>2. e \notin out /\ NotOf(new, e) /\ d.index[e] = n
        BY <1>1, <1>2, <3>1 DEF NotOf, Indexed
    <3> QED
        BY <1>3, <2>1, <3>2 DEF NotOf
  <2> QED
    BY <2>2, <2>3
<1> QED
    BY <1>3, <1>4, <1>5, <1>6 DEF Sound

(* Taking entries out of the index.                                        *)
LEMMA UnindexForm ==
    ASSUME NEW d, d = [tree |-> d.tree, index |-> d.index], NEW A, NEW u, u = Unindex(d, A)
    PROVE  /\ u = [tree |-> d.tree, index |-> [e \in Entities |-> IF e \in A THEN None ELSE d.index[e]]]
           /\ u = [tree |-> u.tree, index |-> u.index]
           /\ u.tree = d.tree /\ u.index = [e \in Entities |-> IF e \in A THEN None ELSE d.index[e]]
    BY DEF Unindex

(* Taking them out twice.                                                  *)
LEMMA UnindexTwice ==
    ASSUME NEW d, d = [tree |-> d.tree, index |-> d.index], NEW A, NEW B
    PROVE  Unindex(Unindex(d, A), B) = Unindex(d, A \cup B)
<1> DEFINE u == Unindex(d, A)
           w == Unindex(u, B)
<1>1. /\ u = [tree |-> u.tree, index |-> u.index]
      /\ u.tree = d.tree /\ u.index = [e \in Entities |-> IF e \in A THEN None ELSE d.index[e]]
    BY UnindexForm
<1>0. w = Unindex(u, B)
    OBVIOUS
<1> HIDE DEF u, w
<1>2. w = [tree |-> u.tree, index |-> [e \in Entities |-> IF e \in B THEN None ELSE u.index[e]]]
  <2>1. u = [tree |-> u.tree, index |-> u.index]
    BY <1>1
  <2> QED
    BY <1>0, <2>1 DEF Unindex
<1>3. Unindex(d, A \cup B)
        = [tree |-> d.tree, index |-> [e \in Entities |-> IF e \in A \cup B THEN None ELSE d.index[e]]]
    BY UnindexForm
<1>4. [e \in Entities |-> IF e \in B THEN None ELSE u.index[e]]
        = [e \in Entities |-> IF e \in A \cup B THEN None ELSE d.index[e]]
    BY <1>1
<1>5. w = Unindex(d, A \cup B)
    BY <1>1, <1>2, <1>3, <1>4
<1> QED
    BY <1>5 DEF u, w

(* Nodes are freed after they have been taken out of the index.            *)
LEMMA Freeing ==
    ASSUME NEW d, Sound(d), NEW gone, gone \subseteq d.tree, NEW out, \A m \in gone : Entity(m) \in out
    PROVE  Exchanged(d, Free(Unindex(d, out), gone), gone, out, {})
<1> DEFINE x == [e \in Entities |-> IF e \in out THEN None ELSE d.index[e]]
           u == Unindex(d, out)
           f == Free(u, gone)
<1>1. /\ d = [tree |-> d.tree, index |-> d.index] /\ d.tree \subseteq Nodes
      /\ d.index \in [Entities -> Nodes \cup {None, Freed}]
      /\ \A e \in Entities : ~Dangling(d.tree, d.index, e)
    BY DEF Sound
<1>2. u = [tree |-> d.tree, index |-> x]
    BY <1>1 DEF Unindex
<1>3. f = [tree |-> u.tree \ gone, index |-> [e \in Entities |-> IF u.index[e] \in gone THEN Freed ELSE u.index[e]]]
    BY DEF Free
<1>4. u.tree = d.tree /\ u.index = x
    BY <1>2
<1> HIDE DEF u
<1>5. \A e \in Entities : x[e] \notin gone
  <2> SUFFICES ASSUME NEW e \in Entities, x[e] \in gone PROVE FALSE
    OBVIOUS
  <2>1. x[e] \in Nodes /\ x[e] # None
    BY <1>1, PointersAssumption
  <2>2. e \notin out /\ x[e] = d.index[e]
    BY <2>1
  <2>3. Entity(x[e]) = e
    BY <1>1, <2>1, <2>2 DEF Dangling
  <2> QED
    BY <2>2, <2>3
<1> DEFINE y == [e \in Entities |-> IF u.index[e] \in gone THEN Freed ELSE u.index[e]]
<1>6. y = x
    BY <1>4, <1>5
<1>7. f = [tree |-> d.tree \ gone, index |-> x]
    BY <1>3, <1>4, <1>6
<1>8. x \in [Entities -> Nodes \cup {None, Freed}]
    BY <1>1
<1>9. f = [tree |-> f.tree, index |-> f.index] /\ f.tree = (d.tree \ gone) \cup {} /\ f.index = x
    BY <1>7
<1> HIDE DEF f
<1>10. Exchanged(d, f, gone, out, {})
    BY <1>8, <1>9 DEF Exchanged, NotOf
<1> QED
    BY <1>10 DEF f, u

(* New nodes are indexed.                                                  *)
LEMMA Reindexing ==
    ASSUME NEW d, NEW g, NEW gone, NEW out, Exchanged(d, g, gone, out, {}),
           NEW new, new \subseteq Nodes, NEW last
    PROVE  Exchanged(d, Reindex([g EXCEPT !.tree = @ \cup new], new, last), gone, out, new)
<1> DEFINE a == [g EXCEPT !.tree = @ \cup new]
           y == [e \in Entities |->
                    IF \E n \in new : Entity(n) = e
                    THEN IF last \in new /\ Entity(last) = e THEN last
                         ELSE CHOOSE n \in new : Entity(n) = e
                    ELSE a.index[e]]
           f == Reindex(a, new, last)
<1>1. /\ g = [tree |-> g.tree, index |-> g.index] /\ g.tree = d.tree \ gone
      /\ g.index \in [Entities -> Nodes \cup {None, Freed}]
      /\ \A e \in Entities : \/ e \in out /\ g.index[e] = None
                             \/ e \notin out /\ g.index[e] = d.index[e]
    BY DEF Exchanged
<1>2. a = [tree |-> g.tree \cup new, index |-> g.index] /\ a.tree = g.tree \cup new /\ a.index = g.index
    BY <1>1
<1>3. f = [a EXCEPT !.index = y]
    BY DEF Reindex
<1> HIDE DEF a
<1>4. f = [tree |-> a.tree, index |-> y] /\ f.tree = (d.tree \ gone) \cup new /\ f.index = y
    BY <1>1, <1>2, <1>3
<1>5. \A e \in Entities : \/ y[e] \in new /\ Entity(y[e]) = e
                          \/ NotOf(new, e) /\ y[e] = g.index[e]
    BY <1>2 DEF NotOf
<1>6. y \in [Entities -> Nodes \cup {None, Freed}]
  <2>1. \A e \in Entities : y[e] \in Nodes \cup {None, Freed}
    BY <1>1, <1>5
  <2> QED
    BY <2>1
<1>7. f = [tree |-> f.tree, index |-> f.index]
    BY <1>4
<1> HIDE DEF f, y
<1>8. Exchanged(d, f, gone, out, new)
    BY <1>1, <1>4, <1>5, <1>6, <1>7 DEF Exchanged
<1> QED
    BY <1>8 DEF f, a

(* A role admin that is not indexed.                                       *)
LEMMA AdminAdded ==
    ASSUME NEW d, Sound(d), NEW a \in Nodes, IsAdmin(a), Closed(d.tree \cup {a})
    PROVE  Sound([d EXCEPT !.tree = @ \cup {a}])
<1> DEFINE f == [d EXCEPT !.tree = @ \cup {a}]
<1>1. /\ d = [tree |-> d.tree, index |-> d.index] /\ d.tree \subseteq Nodes
      /\ d.index \in [Entities -> Nodes \cup {None, Freed}]
      /\ \A e \in Entities : ~Dangling(d.tree, d.index, e)
      /\ \A n \in d.tree : Indexed(d.tree, d.index, n)
    BY DEF Sound
<1>2. f = [tree |-> d.tree \cup {a}, index |-> d.index] /\ f.tree = d.tree \cup {a} /\ f.index = d.index
    BY <1>1
<1> HIDE DEF f
<1>3. \A e \in Entities : ~Dangling(f.tree, f.index, e)
    BY <1>1, <1>2 DEF Dangling
<1>4. \A n \in f.tree : Indexed(f.tree, f.index, n)
    BY <1>1, <1>2 DEF Indexed
<1>5. Sound(f)
    BY <1>1, <1>2, <1>3, <1>4 DEF Sound
<1> QED
    BY <1>5 DEF f

-----------------------------------------------------------------------------
(* Subtrees.                                                               *)

(* The nodes gone with everything below them.                              *)
WithSubtrees(t, gone) == gone \subseteq t /\ \A g \in gone : Subtree(t, g) \subseteq gone

(* What is taken out with everything below it leaves a closed tree.        *)
LEMMA ClosedWithout ==
    ASSUME NEW t, t \subseteq Nodes, Closed(t), NEW gone, WithSubtrees(t, gone)
    PROVE  Closed(t \ gone)
<1> SUFFICES ASSUME NEW m \in t \ gone
             PROVE  /\ DomainNode(m.domain) \notin gone
                    /\ m.project # None => ProjectNode(m.domain, m.project) \notin gone
    BY DEF Closed
<1>1. ASSUME DomainNode(m.domain) \in gone PROVE FALSE
  <2>1. DomainNode(m.domain).kind = "domain" /\ DomainNode(m.domain).domain = m.domain
    BY NodeFields DEF DomainNode
  <2>2. m \in Subtree(t, DomainNode(m.domain))
    BY <2>1, Subtrees
  <2> QED
    BY <1>1, <2>2 DEF WithSubtrees
<1>2. ASSUME ProjectNode(m.domain, m.project) \in gone PROVE FALSE
  <2> DEFINE q == ProjectNode(m.domain, m.project)
  <2>1. q.kind = "project" /\ q.domain = m.domain /\ q.project = m.project
    BY NodeFields DEF ProjectNode
  <2> HIDE DEF q
  <2>2. m \in Subtree(t, q)
    BY <2>1, Subtrees
  <2>3. q \in gone
    BY <1>2 DEF q
  <2> QED
    BY <2>2, <2>3 DEF WithSubtrees
<1> QED
    BY <1>1, <1>2

(* What is below a node below n is below n.                                *)
LEMMA SubtreeBelow ==
    ASSUME NEW t, t \subseteq Nodes, NEW n \in t, NEW g \in Subtree(t, n)
    PROVE  Subtree(t, g) \subseteq Subtree(t, n)
<1> SUFFICES ASSUME NEW m \in Subtree(t, g) PROVE m \in Subtree(t, n)
    OBVIOUS
<1>1. g \in t /\ m \in t /\ g \in Nodes /\ n \in Nodes
    BY Subtrees
<1>2. CASE g = n
    BY <1>2
<1>3. CASE m = g
    BY <1>3
<1>4. CASE g # n /\ m # g
  <2>1. n.kind \in {"domain", "project"} /\ g.domain = n.domain
    BY <1>4, Subtrees
  <2>2. g.kind \in {"domain", "project"} /\ m.domain = g.domain
    BY <1>4, Subtrees
  <2>3. CASE n.kind = "domain"
    BY <1>1, <2>1, <2>2, <2>3, Subtrees
  <2>4. CASE n.kind = "project"
    <3>1. g.project = n.project /\ n.project # None
        BY <1>1, <1>4, <2>4, Subtrees, NodeKinds
    <3>2. g.kind = "project"
        BY <1>1, <2>2, <3>1, NodeKinds
    <3>3. g = ProjectNode(g.domain, g.project) /\ n = ProjectNode(n.domain, n.project)
        BY <1>1, <2>4, <3>2, NodeKinds
    <3> QED
        BY <1>4, <2>1, <3>1, <3>3
  <2> QED
    BY <2>1, <2>3, <2>4
<1> QED
    BY <1>2, <1>3, <1>4

(* The nodes ns and all nodes below them.                                  *)
Below(t, ns) == UNION {Subtree(t, n) : n \in ns}

(* Nodes with all nodes below them.                                        *)
LEMMA BelowFacts ==
    ASSUME NEW t, t \subseteq Nodes, NEW ns, ns \subseteq t
    PROVE  WithSubtrees(t, Below(t, ns)) /\ ns \subseteq Below(t, ns)
<1>1. Below(t, ns) \subseteq t
    BY Subtrees DEF Below
<1>2. ASSUME NEW g \in Below(t, ns) PROVE Subtree(t, g) \subseteq Below(t, ns)
  <2>1. PICK n \in ns : g \in Subtree(t, n)
    BY DEF Below
  <2>2. Subtree(t, g) \subseteq Subtree(t, n)
    BY <2>1, SubtreeBelow
  <2> QED
    BY <2>2 DEF Below
<1>3. ns \subseteq Below(t, ns)
    BY Subtrees DEF Below
<1> QED
    BY <1>1, <1>2, <1>3 DEF WithSubtrees

(* A leaf is all there is below it.                                        *)
LEMMA LeafSubtree ==
    ASSUME NEW t, NEW n \in t, n.kind \notin {"domain", "project"}
    PROVE  Subtree(t, n) = {n}
    BY DEF Subtree

(* The entries of nodes.                                                   *)
EntitiesOf(ns) == {Entity(n) : n \in ns}

(* Projects that are looked up by their ids are found.                     *)
LEMMA ProjectsOut ==
    ASSUME NEW d, Sound(d), NEW ps, ps \subseteq d.tree, \A n \in ps : n.kind = "project"
    PROVE  UnindexProjects(d, {n.id : n \in ps}) = Unindex(d, EntitiesOf(Below(d.tree, ps)))
<1> DEFINE found == {d.index[<<"project", p>>] : p \in {n.id : n \in ps}} \cap d.tree
<1>1. /\ d.tree \subseteq Nodes /\ \A e \in Entities : ~Dangling(d.tree, d.index, e)
      /\ \A n \in d.tree : Indexed(d.tree, d.index, n)
    BY DEF Sound
<1>2. ASSUME NEW n \in ps PROVE d.index[<<"project", n.id>>] = n
  <2>1. Entity(n) = <<"project", n.id>> /\ ~IsAdmin(n)
    BY DEF Entity, IsAdmin
  <2> QED
    BY <1>1, <2>1 DEF Indexed
<1>3. {d.index[<<"project", p>>] : p \in {n.id : n \in ps}} = ps
    BY <1>2, ZenonT(60)
<1>4. found = ps
    BY <1>3
<1>5. UnindexProjects(d, {n.id : n \in ps})
        = Unindex(d, {Entity(m) : m \in UNION {Subtree(d.tree, n) : n \in found}})
    BY DEF UnindexProjects
<1> QED
    BY <1>4, <1>5 DEF EntitiesOf, Below

-----------------------------------------------------------------------------
(* Creating.                                                               *)

(* Freeing nothing changes nothing.                                        *)
LEMMA FreeNothing ==
    ASSUME NEW d, Sound(d)
    PROVE  Free(d, {}) = d /\ Exchanged(d, d, {}, {}, {})
<1>1. d = [tree |-> d.tree, index |-> d.index] /\ d.index \in [Entities -> Nodes \cup {None, Freed}]
    BY DEF Sound
<1>2. [e \in Entities |-> IF d.index[e] \in {} THEN Freed ELSE d.index[e]] = d.index
    BY <1>1
<1>3. d.tree \ {} = d.tree
    OBVIOUS
<1>4. Free(d, {}) = d
    BY <1>1, <1>2, <1>3 DEF Free
<1> QED
    BY <1>1, <1>3, <1>4 DEF Exchanged, NotOf

(* The parents of n are in t or n itself.                                  *)
Placed(t, n) ==
    /\ DomainNode(n.domain) \in t \cup {n}
    /\ n.project # None => ProjectNode(n.domain, n.project) \in t \cup {n}

(* An id that is not in use may be used in a domain or project that is     *)
(* there.                                                                  *)
LEMMA CreateSound ==
    ASSUME NEW d, Sound(d), NEW n \in Nodes, MayCreate(d, n), IsAdmin(n) => n \notin d.tree, Placed(d.tree, n)
    PROVE  Sound(CreateEntity(d, n))
<1>1. /\ d.tree \subseteq Nodes /\ Closed(d.tree) /\ \A m \in d.tree : Indexed(d.tree, d.index, m)
    BY DEF Sound
<1>2. ASSUME NEW m \in d.tree, Entity(m) = Entity(n), ~IsAdmin(m) PROVE FALSE
  <2>1. d.index[Entity(n)] = m /\ m # None
    BY <1>1, <1>2, EntityOfNode DEF Indexed
  <2>2. ~IsAdmin(n)
    BY <1>2 DEF Entity, IsAdmin
  <2> QED
    BY <2>1, <2>2 DEF MayCreate
<1>3. n \notin d.tree
    BY <1>2
<1>4. Subtree(d.tree, n) = {}
  <2> SUFFICES ASSUME NEW m \in Subtree(d.tree, n) PROVE FALSE
    OBVIOUS
  <2>1. m \in d.tree /\ m \in Nodes /\ m # n
    BY <1>1, <1>3, Subtrees
  <2>2. n.kind \in {"domain", "project"} /\ m.domain = n.domain
    BY <2>1, Subtrees
  <2>3. CASE n.kind = "domain"
    <3>1. n = DomainNode(m.domain)
        BY <2>2, <2>3, NodeKinds
    <3> QED
        BY <1>1, <1>3, <2>1, <3>1 DEF Closed
  <2>4. CASE n.kind = "project"
    <3>1. n = ProjectNode(m.domain, m.project) /\ m.project # None
        BY <2>1, <2>2, <2>4, Subtrees, NodeKinds
    <3> QED
        BY <1>1, <1>3, <2>1, <3>1 DEF Closed
  <2> QED
    BY <2>2, <2>3, <2>4
<1> DEFINE added == [d EXCEPT !.tree = @ \cup {n}]
<1>5. CreateEntity(d, n) = IF IsAdmin(n) THEN added ELSE Reindex(added, {n}, n)
    BY <1>4, FreeNothing DEF CreateEntity
<1>6. Closed(d.tree \cup {n})
    BY <1>1 DEF Closed, Placed
<1>7. CASE IsAdmin(n)
    BY <1>5, <1>6, <1>7, AdminAdded
<1>8. CASE ~IsAdmin(n)
  <2> DEFINE f == Reindex(added, {n}, n)
             one == {n}
  <2>1. one \subseteq Nodes /\ one = {n}
    OBVIOUS
  <2>2. f = Reindex([d EXCEPT !.tree = @ \cup one], one, n)
    OBVIOUS
  <2> HIDE DEF f, one
  <2>3. Exchanged(d, f, {}, {}, one)
    BY <2>1, <2>2, FreeNothing, Reindexing
  <2>4. Allowed(d, {}, {}, one)
    BY <1>2, <2>1 DEF Allowed, Unique
  <2>5. f.tree = d.tree \cup {n}
    BY <2>1, <2>3 DEF Exchanged
  <2>6. Sound(f)
    BY <1>6, <2>3, <2>4, <2>5, ExchangeSound
  <2> QED
    BY <1>5, <1>8, <2>6 DEF f
<1> QED
    BY <1>7, <1>8

-----------------------------------------------------------------------------
(* Deleting.                                                               *)

(* db_delete unindexes exactly what it frees.                              *)
LEMMA FoundDeleted ==
    ASSUME NEW d, Sound(d), NEW n \in d.tree
    PROVE  DeleteFound(d, n) = Free(Unindex(d, EntitiesOf(Subtree(d.tree, n))), Subtree(d.tree, n))
<1> DEFINE t == d.tree
           out == EntitiesOf(Subtree(t, n))
<1>1. d = [tree |-> d.tree, index |-> d.index] /\ t \subseteq Nodes /\ Closed(t) /\ n \in Nodes
    BY DEF Sound
<1>2. CASE n.kind = "domain"
  <2> DEFINE ps == Members(t, n, "project")
             A == EntitiesOf(Below(t, ps))
             B == {Entity(n)} \cup {Entity(m) : m \in UNION {Members(t, n, k) : k \in LeafKinds}}
  <2>1. ps \subseteq d.tree /\ \A m \in ps : m.kind = "project" /\ m.domain = n.domain
    BY DEF Members
  <2>2. UnindexMembers(d, n, "project") = UnindexProjects(d, {m.id : m \in ps})
    BY DEF UnindexMembers
  <2> HIDE DEF ps
  <2>3. UnindexMembers(d, n, "project") = Unindex(d, A)
    BY <2>1, <2>2, ProjectsOut
  <2>4. UnindexDomain(d, n) = Unindex(d, A \cup B)
    BY <1>1, <2>3, UnindexTwice DEF UnindexDomain
  <2>5. ASSUME NEW m \in Subtree(t, n) PROVE Entity(m) \in A \cup B
    <3>1. m \in t /\ m \in Nodes /\ m.domain = n.domain
        BY <1>1, Subtrees
    <3>2. CASE m.kind = "domain"
        BY <1>1, <1>2, <3>1, <3>2, NodeKinds
    <3>3. CASE m.kind # "domain" /\ m.project = None
      <4>1. m.kind \in LeafKinds /\ n.project = None
        BY <1>1, <1>2, <3>1, <3>3, NodeKinds DEF LeafKinds
      <4>2. m \in Members(t, n, m.kind)
        BY <3>1, <3>3, <4>1 DEF Members
      <4> QED
        BY <4>1, <4>2
    <3>4. CASE m.project # None
      <4> DEFINE q == ProjectNode(m.domain, m.project)
      <4>1. q \in t /\ q.kind = "project" /\ q.domain = m.domain /\ q.project = m.project
        BY <1>1, <3>1, <3>4, NodeFields DEF Closed, ProjectNode
      <4> HIDE DEF q
      <4>2. q \in ps
        BY <3>1, <4>1 DEF ps, Members
      <4>3. m \in Subtree(t, q)
        BY <3>1, <4>1, Subtrees
      <4>4. m \in Below(t, ps)
        BY <4>2, <4>3 DEF Below
      <4> QED
        BY <4>4 DEF EntitiesOf
    <3> QED
        BY <3>2, <3>3, <3>4
  <2>6. ASSUME NEW m \in Below(t, ps) PROVE m \in Subtree(t, n)
    <3>1. PICK q \in ps : m \in Subtree(t, q)
        BY DEF Below
    <3>2. m \in t /\ m.domain = n.domain
        BY <2>1, <3>1, Subtrees
    <3> QED
        BY <1>2, <3>2, Subtrees
  <2>7. ASSUME NEW m \in {n} \cup UNION {Members(t, n, k) : k \in LeafKinds} PROVE m \in Subtree(t, n)
    <3>1. m \in t /\ m.domain = n.domain
        BY DEF Members
    <3> QED
        BY <1>2, <3>1, Subtrees
  <2>8. A \cup B = out
    BY <2>5, <2>6, <2>7 DEF EntitiesOf
  <2> QED
    BY <1>2, <2>4, <2>8 DEF DeleteFound
<1>3. CASE n.kind = "project"
  <2> DEFINE one == {n}
  <2>1. one \subseteq d.tree /\ \A m \in one : m.kind = "project"
    BY <1>3
  <2>2. {m.id : m \in one} = {n.id} /\ Below(t, one) = Subtree(t, n)
    BY DEF Below
  <2> HIDE DEF one
  <2>3. UnindexProjects(d, {n.id}) = Unindex(d, out)
    BY <2>1, <2>2, ProjectsOut
  <2> QED
    BY <1>3, <2>3 DEF DeleteFound
<1>4. CASE n.kind \notin {"domain", "project"}
  <2>1. Subtree(t, n) = {n}
    BY <1>4, LeafSubtree
  <2>2. out = {Entity(n)}
    BY <2>1 DEF EntitiesOf
  <2> QED
    BY <1>4, <2>2 DEF DeleteFound
<1> QED
    BY <1>2, <1>3, <1>4

(* In a sound database no id but admin is used twice for a kind.           *)
LEMMA SoundUnique ==
    ASSUME NEW d, Sound(d)
    PROVE  Unique(d.tree)
<1> SUFFICES ASSUME NEW m \in d.tree, NEW n \in d.tree, Entity(m) = Entity(n), ~IsAdmin(m) PROVE m = n
    BY DEF Unique
<1>1. ~IsAdmin(n)
    BY DEF Entity, IsAdmin
<1> QED
    BY <1>1 DEF Sound, Indexed

(* Whole subtrees that are unindexed and freed leave a sound database.     *)
LEMMA RemovedSound ==
    ASSUME NEW d, Sound(d), NEW gone, WithSubtrees(d.tree, gone),
           NEW f, f = Free(Unindex(d, EntitiesOf(gone)), gone)
    PROVE  /\ Sound(f) /\ f.tree = d.tree \ gone
           /\ Exchanged(d, f, gone, EntitiesOf(gone), {})
<1>1. gone \subseteq d.tree /\ d.tree \subseteq Nodes /\ Closed(d.tree) /\ Unique(d.tree)
    BY SoundUnique DEF WithSubtrees, Sound
<1>2. \A m \in gone : Entity(m) \in EntitiesOf(gone)
    BY DEF EntitiesOf
<1>3. Exchanged(d, f, gone, EntitiesOf(gone), {})
    BY <1>1, <1>2, Freeing
<1>4. Allowed(d, gone, EntitiesOf(gone), {})
    BY <1>1, <1>2 DEF Allowed, Unique, EntitiesOf
<1>5. f.tree = d.tree \ gone
    BY <1>3 DEF Exchanged
<1>6. Closed(f.tree)
    BY <1>1, <1>5, ClosedWithout
<1> QED
    BY <1>3, <1>4, <1>5, <1>6, ExchangeSound

(* Freeing roles admin that the index does not know.                       *)
LEMMA AdminsFreed ==
    ASSUME NEW d, Sound(d), NEW gone, gone \subseteq d.tree, \A m \in gone : IsAdmin(m),
           d.index[<<"role", Admin>>] = None
    PROVE  Sound(Free(d, gone))
<1> DEFINE f == Free(d, gone)
           x == [e \in Entities |-> IF d.index[e] \in gone THEN Freed ELSE d.index[e]]
<1>1. /\ d.tree \subseteq Nodes /\ Closed(d.tree) /\ d.index \in [Entities -> Nodes \cup {None, Freed}]
      /\ \A e \in Entities : ~Dangling(d.tree, d.index, e)
      /\ \A n \in d.tree : Indexed(d.tree, d.index, n)
    BY DEF Sound
<1>2. ASSUME NEW e \in Entities, d.index[e] \in gone PROVE FALSE
  <2> DEFINE n == d.index[e]
  <2>1. n # None /\ IsAdmin(n)
    BY <1>1, <1>2, EntityOfNode
  <2>2. Entity(n) = e
    BY <1>1, <2>1 DEF Dangling
  <2>3. e = <<"role", Admin>>
    BY <2>1, <2>2 DEF Entity, IsAdmin
  <2> QED
    BY <2>1, <2>3
<1>3. x = d.index
    BY <1>1, <1>2
<1>4. f = [tree |-> d.tree \ gone, index |-> x] /\ f.tree = d.tree \ gone /\ f.index = x
    BY DEF Free
<1> HIDE DEF f, x
<1>5. WithSubtrees(d.tree, gone)
  <2>1. \A g \in gone : g.kind \notin {"domain", "project"} /\ g \in d.tree
    BY DEF IsAdmin
  <2> QED
    BY <2>1, LeafSubtree DEF WithSubtrees
<1>6. Closed(f.tree)
    BY <1>1, <1>4, <1>5, ClosedWithout
<1>7. \A e \in Entities : ~Dangling(f.tree, f.index, e)
    BY <1>1, <1>2, <1>3, <1>4 DEF Dangling
<1>8. \A n \in f.tree : Indexed(f.tree, f.index, n)
    BY <1>1, <1>3, <1>4 DEF Indexed
<1>9. f = [tree |-> f.tree, index |-> f.index] /\ f.tree \subseteq Nodes
      /\ f.index \in [Entities -> Nodes \cup {None, Freed}]
    BY <1>1, <1>3, <1>4
<1>10. Sound(f)
    BY <1>6, <1>7, <1>8, <1>9 DEF Sound
<1> QED
    BY <1>10 DEF f

(* Deleting an id: what the index finds goes with its entries, and then    *)
(* nothing of that kind and id is left to be freed but roles admin.        *)
LEMMA SweepSound ==
    ASSUME NEW d, Sound(d), NEW kind, NEW id,
           \A m \in d.tree : Entity(m) = <<kind, id>> => IsAdmin(m) /\ d.index[Entity(m)] = None
    PROVE  Sound(Sweep(d, kind, id))
<1> DEFINE domains == {d.index[<<"domain", c>>] : c \in Domains} \cap d.tree
           projects == {d.index[<<"project", p>>] : p \in Projects} \cap d.tree
           parents == CASE kind = "project" -> domains
                        [] kind \in {"loop", "role"} -> domains \cup projects
                        [] OTHER -> {}
           hit == {m \in UNION {Members(d.tree, n, kind) : n \in parents} : m.id = id}
           gone == UNION {Subtree(d.tree, m) : m \in hit}
<1>1. d.tree \subseteq Nodes
    BY DEF Sound
<1>2. ~(kind = "domain" /\ DomainNode(id) \in d.tree)
  <2> SUFFICES ASSUME kind = "domain", DomainNode(id) \in d.tree PROVE FALSE
    OBVIOUS
  <2>1. Entity(DomainNode(id)) = <<kind, id>> /\ DomainNode(id).kind = "domain"
    BY NodeFields DEF DomainNode
  <2> QED
    BY <2>1 DEF IsAdmin
<1>3. Sweep(d, kind, id) = Free(d, gone)
    BY <1>2 DEF Sweep
<1>4. \A m \in hit : m \in d.tree /\ m.kind = kind /\ m.id = id
    BY DEF Members
<1> HIDE DEF hit
<1>5. \A m \in hit : IsAdmin(m) /\ d.index[<<"role", Admin>>] = None /\ m \in d.tree
  <2> SUFFICES ASSUME NEW m \in hit PROVE IsAdmin(m) /\ d.index[<<"role", Admin>>] = None /\ m \in d.tree
    OBVIOUS
  <2>1. Entity(m) = <<kind, id>> /\ m \in d.tree
    BY <1>4 DEF Entity
  <2>2. IsAdmin(m) /\ d.index[Entity(m)] = None
    BY <2>1
  <2>3. Entity(m) = <<"role", Admin>>
    BY <2>2 DEF Entity, IsAdmin
  <2> QED
    BY <2>1, <2>2, <2>3
<1>6. \A m \in hit : Subtree(d.tree, m) = {m}
  <2>1. \A m \in hit : m.kind \notin {"domain", "project"}
    BY <1>5 DEF IsAdmin
  <2> QED
    BY <1>5, <2>1, LeafSubtree
<1>7. gone = hit
    BY <1>6
<1>8. CASE gone = {}
    BY <1>3, <1>8, FreeNothing
<1>9. CASE gone # {}
  <2>1. gone \subseteq d.tree /\ (\A m \in gone : IsAdmin(m)) /\ d.index[<<"role", Admin>>] = None
    BY <1>5, <1>7, <1>9
  <2> HIDE DEF gone
  <2> QED
    BY <1>3, <2>1, AdminsFreed
<1> QED
    BY <1>8, <1>9

(* ov_vocs_db_delete_entity.                                               *)
LEMMA DeleteSound ==
    ASSUME NEW d, Sound(d), NEW kind, NEW id
    PROVE  Sound(DeleteEntity(d, kind, id))
<1> DEFINE found == d.index[<<kind, id>>]
<1>1. /\ d.tree \subseteq Nodes /\ \A n \in d.tree : Indexed(d.tree, d.index, n)
      /\ \A e \in Entities : ~Dangling(d.tree, d.index, e)
    BY DEF Sound
<1>2. CASE found \notin d.tree
  <2>1. ASSUME NEW m \in d.tree, Entity(m) = <<kind, id>> PROVE IsAdmin(m) /\ d.index[Entity(m)] = None
    <3>1. IsAdmin(m)
        BY <1>1, <1>2, <2>1 DEF Indexed
    <3>2. Entity(m) \in Entities
        BY <1>1, EntityOfNode
    <3>3. d.index[Entity(m)] = None
        BY <1>1, <1>2, <2>1, <3>2 DEF Dangling
    <3> QED
        BY <3>1, <3>3
  <2>2. Sound(Sweep(d, kind, id))
    BY <2>1, SweepSound
  <2> QED
    BY <1>2, <2>2 DEF DeleteEntity
<1>3. CASE found \in d.tree
  <2> DEFINE gone == Subtree(d.tree, found)
             f == DeleteFound(d, found)
  <2>1. f = Free(Unindex(d, EntitiesOf(gone)), gone)
    BY <1>3, FoundDeleted
  <2>2. WithSubtrees(d.tree, gone) /\ found \in gone
    BY <1>1, <1>3, Subtrees, SubtreeBelow DEF WithSubtrees
  <2>3. DeleteEntity(d, kind, id) = Sweep(f, kind, id)
    BY <1>3 DEF DeleteEntity
  <2> HIDE DEF gone, f
  <2>4. Sound(f) /\ f.tree = d.tree \ gone /\ Exchanged(d, f, gone, EntitiesOf(gone), {})
    BY <2>1, <2>2, RemovedSound
  <2>5. ASSUME NEW m \in f.tree, Entity(m) = <<kind, id>> PROVE IsAdmin(m) /\ f.index[Entity(m)] = None
    <3>1. m \in d.tree /\ m \notin gone /\ m \in Nodes
        BY <1>1, <2>4
    <3>2. IsAdmin(m)
        BY <1>1, <2>2, <2>5, <3>1 DEF Indexed
    <3>3. Entity(m) \in Entities
        BY <3>1, EntityOfNode
    <3>4. Entity(found) = Entity(m)
      <4>1. found # None
        BY <1>1, <1>3, EntityOfNode
      <4> QED
        BY <1>1, <2>5, <3>3, <4>1 DEF Dangling
    <3>5. Entity(m) \in EntitiesOf(gone)
        BY <2>2, <3>4 DEF EntitiesOf
    <3> HIDE DEF found
    <3>6. f.index[Entity(m)] = None
        BY <2>4, <3>3, <3>5 DEF Exchanged
    <3> QED
        BY <3>2, <3>6
  <2>6. Sound(Sweep(f, kind, id))
    BY <2>4, <2>5, SweepSound
  <2> QED
    BY <2>3, <2>6
<1> QED
    BY <1>2, <1>3

-----------------------------------------------------------------------------
(* Updating.                                                               *)

(* The members of a key are unindexed with everything below them.          *)
LEMMA MembersOut ==
    ASSUME NEW d, Sound(d), NEW n, NEW key \in LeafKinds \cup {"project"}
    PROVE  UnindexMembers(d, n, key) = Unindex(d, EntitiesOf(Below(d.tree, Members(d.tree, n, key))))
<1> DEFINE ms == Members(d.tree, n, key)
<1>1. ms \subseteq d.tree /\ \A m \in ms : m.kind = key
    BY DEF Members
<1>2. UnindexMembers(d, n, key) = IF key = "project" THEN UnindexProjects(d, {m.id : m \in ms})
                                  ELSE Unindex(d, {Entity(m) : m \in ms})
    BY DEF UnindexMembers
<1> HIDE DEF ms
<1>3. CASE key = "project"
    BY <1>1, <1>2, <1>3, ProjectsOut DEF ms
<1>4. CASE key # "project"
  <2>1. \A m \in ms : m \in d.tree /\ m.kind \notin {"domain", "project"}
    BY <1>1, <1>4 DEF LeafKinds
  <2>2. \A m \in ms : Subtree(d.tree, m) = {m}
    BY <2>1, LeafSubtree
  <2>3. Below(d.tree, ms) = ms
    BY <2>2 DEF Below
  <2> QED
    BY <1>2, <1>4, <2>3 DEF EntitiesOf, ms
<1> QED
    BY <1>3, <1>4

(* The nodes of the key of n.                                              *)
OldOf(t, n, key) == Below(t, Members(t, n, key))

(* What a key holds.                                                       *)
LEMMA OldLeaves ==
    ASSUME NEW t, NEW n, NEW key \in LeafKinds
    PROVE  OldOf(t, n, key) = Members(t, n, key)
<1>1. \A m \in Members(t, n, key) : m \in t /\ m.kind \notin {"domain", "project"}
    BY DEF Members, LeafKinds
<1>2. \A m \in Members(t, n, key) : Subtree(t, m) = {m}
    BY <1>1, LeafSubtree
<1> QED
    BY <1>2 DEF OldOf, Below

(* The projects of a domain are all of it that is in a project.            *)
LEMMA OldProjects ==
    ASSUME NEW t, t \subseteq Nodes, Closed(t), NEW n, n.kind = "domain"
    PROVE  OldOf(t, n, "project") = {m \in t : m.domain = n.domain /\ m.project # None}
<1> DEFINE ps == Members(t, n, "project")
<1>1. ps = {m \in t : m.kind = "project" /\ m.domain = n.domain}
    BY DEF Members
<1> HIDE DEF ps
<1>2. ASSUME NEW m \in Below(t, ps) PROVE m \in t /\ m.domain = n.domain /\ m.project # None
  <2>1. PICK q \in ps : m \in Subtree(t, q)
    BY DEF Below
  <2>2. q \in Nodes /\ q.kind = "project" /\ q.domain = n.domain /\ q.project # None
    BY <1>1, <2>1, NodeKinds
  <2> QED
    BY <2>1, <2>2, Subtrees
<1>3. ASSUME NEW m \in t, m.domain = n.domain, m.project # None PROVE m \in Below(t, ps)
  <2> DEFINE q == ProjectNode(m.domain, m.project)
  <2>1. q \in t /\ q.kind = "project" /\ q.domain = m.domain /\ q.project = m.project
    BY <1>3, NodeFields DEF Closed, ProjectNode
  <2> HIDE DEF q
  <2>2. q \in ps
    BY <1>1, <1>3, <2>1
  <2>3. m \in Subtree(t, q)
    BY <2>1, Subtrees
  <2> QED
    BY <2>2, <2>3 DEF Below
<1> QED
    BY <1>2, <1>3 DEF OldOf, ps

(* A value for the key of n: its nodes have their parents, and ids that    *)
(* nothing outside the key has.                                            *)
Proper(t, n, key, new) ==
    /\ new \subseteq Nodes /\ Unique(new)
    /\ \A m \in t \ OldOf(t, n, key), x \in new : Entity(m) = Entity(x) => IsAdmin(m)
    /\ Closed((t \ OldOf(t, n, key)) \cup new)

(* The members of a key are deleted, or replaced.                          *)
LEMMA UpdateSound ==
    ASSUME NEW d, Sound(d), NEW n \in d.tree, NEW key \in LeafKinds \cup {"project"}
    PROVE  /\ Sound(DeleteKey(d, n, key))
           /\ \A new, last : Proper(d.tree, n, key, new) => Sound(UpdateKey(d, n, key, new, last))
<1> DEFINE gone == OldOf(d.tree, n, key)
           out == EntitiesOf(gone)
           g == Free(Unindex(d, out), gone)
<1>1. d.tree \subseteq Nodes /\ Unique(d.tree) /\ Members(d.tree, n, key) \subseteq d.tree
    BY SoundUnique DEF Sound, Members
<1>2. WithSubtrees(d.tree, gone)
    BY <1>1, BelowFacts DEF OldOf
<1>3. /\ DeleteKey(d, n, key) = g
      /\ \A new, last : UpdateKey(d, n, key, new, last) = Reindex([g EXCEPT !.tree = @ \cup new], new, last)
    BY MembersOut DEF DeleteKey, UpdateKey, OldOf, Below
<1>4. g = Free(Unindex(d, EntitiesOf(gone)), gone)
    OBVIOUS
<1> HIDE DEF gone, g
<1>5. Sound(g) /\ Exchanged(d, g, gone, out, {})
    BY <1>2, <1>4, RemovedSound
<1>6. ASSUME NEW new, NEW last, Proper(d.tree, n, key, new) PROVE Sound(UpdateKey(d, n, key, new, last))
  <2> DEFINE f == UpdateKey(d, n, key, new, last)
  <2>1. /\ new \subseteq Nodes /\ Unique(new)
        /\ \A m \in d.tree \ gone, x \in new : Entity(m) = Entity(x) => IsAdmin(m)
        /\ Closed((d.tree \ gone) \cup new)
    BY <1>6 DEF Proper, gone
  <2>2. f = Reindex([g EXCEPT !.tree = @ \cup new], new, last)
    BY <1>3
  <2> HIDE DEF f
  <2>3. Exchanged(d, f, gone, out, new)
    BY <1>5, <2>1, <2>2, Reindexing
  <2>4. Allowed(d, gone, out, new)
    <3>1. gone \subseteq d.tree /\ \A m \in gone : Entity(m) \in out
        BY <1>2 DEF WithSubtrees, EntitiesOf
    <3>2. \A m \in d.tree \ gone : Entity(m) \in out => IsAdmin(m)
        BY <1>1, <3>1 DEF Unique, EntitiesOf
    <3> HIDE DEF out
    <3> QED
        BY <2>1, <3>1, <3>2 DEF Allowed
  <2>5. Closed(f.tree)
    BY <2>1, <2>3 DEF Exchanged
  <2> QED
    BY <2>3, <2>4, <2>5, ExchangeSound DEF f
<1> QED
    BY <1>3, <1>5, <1>6

(* What the index finds under an id has that id.                           *)
LEMMA FoundIs ==
    ASSUME NEW d, Sound(d), NEW kind \in {"domain", "project"}, NEW id \in IdsOf(kind),
           NEW n, n = d.index[<<kind, id>>], n \in d.tree
    PROVE  n \in Nodes /\ n.kind = kind
<1>1. n \in Nodes /\ n.domain \in Domains /\ n # None
    BY NodeKinds, EntityOfNode DEF Sound
<1>2. <<kind, id>> \in Entities
  <2>1. CASE kind = "domain"
    <3>1. id \in Domains
        BY <2>1 DEF IdsOf
    <3>2. DomainNode(id) \in Nodes /\ Entity(DomainNode(id)) = <<kind, id>>
        BY <2>1, <3>1, NodesMade, NodeFields DEF DomainNode
    <3> QED
        BY <3>2 DEF Entities
  <2>2. CASE kind = "project"
    <3>1. id \in Projects
        BY <2>2 DEF IdsOf
    <3>2. ProjectNode(n.domain, id) \in Nodes /\ Entity(ProjectNode(n.domain, id)) = <<kind, id>>
        BY <1>1, <2>2, <3>1, NodesMade, NodeFields DEF ProjectNode
    <3> QED
        BY <3>2 DEF Entities
  <2> QED
    BY <2>1, <2>2
<1>3. Entity(n) = <<kind, id>>
    BY <1>1, <1>2 DEF Sound, Dangling
<1> QED
    BY <1>1, <1>3, EntityFields

(* The values that requests may give to a key are proper.                  *)
LEMMA ValuesProper ==
    ASSUME UsedWithCare, Sound(db), NEW n \in db.tree, n.kind \in {"domain", "project"},
           NEW key \in Keys(n.kind), NEW new \in Values(n, key), MayUpdateKey(db, key, new)
    PROVE  Proper(db.tree, n, key, new)
<1> DEFINE t == db.tree
           old == OldOf(t, n, key)
<1>1. t \subseteq Nodes /\ Closed(t) /\ Unique(t) /\ \A m \in t : Indexed(t, db.index, m)
    BY SoundUnique DEF Sound
<1>2. n \in Nodes /\ n.domain \in Domains /\ n.project \in Projects \cup {None}
    BY <1>1, NodeKinds
<1>3. DomainNode(n.domain) \in t /\ (n.project # None => ProjectNode(n.domain, n.project) \in t)
    BY <1>1 DEF Closed
<1>4. Closed(t \ old)
  <2>1. Members(t, n, key) \subseteq t
    BY DEF Members
  <2>2. WithSubtrees(t, old)
    BY <1>1, <2>1, BelowFacts DEF OldOf
  <2> HIDE DEF old
  <2> QED
    BY <1>1, <2>2, ClosedWithout
<1>5. DomainNode(n.domain).kind = "domain" /\ DomainNode(n.domain).project = None
      /\ ProjectNode(n.domain, n.project).kind = "project"
    BY NodeFields DEF DomainNode, ProjectNode
<1>6. CASE key # "project"
  <2>1. key \in LeafKinds /\ new \subseteq {Node(key, i, n.domain, n.project) : i \in IdsOf(key)}
        /\ AlreadySet(db, new)
    BY <1>6 DEF Keys, Values, MayUpdateKey
  <2>2. old = Members(t, n, key)
    BY <2>1, OldLeaves
  <2>3. \A x \in new : x.kind = key /\ x.domain = n.domain /\ x.project = n.project /\ x \in Nodes
                       /\ x = Node(key, x.id, n.domain, n.project)
    <3> SUFFICES ASSUME NEW x \in new
                 PROVE  x.kind = key /\ x.domain = n.domain /\ x.project = n.project /\ x \in Nodes
                        /\ x = Node(key, x.id, n.domain, n.project)
        OBVIOUS
    <3>1. PICK i \in IdsOf(key) : x = Node(key, i, n.domain, n.project)
        BY <2>1
    <3>2. x.kind = key /\ x.domain = n.domain /\ x.project = n.project /\ x.id = i
        BY <3>1, NodeFields
    <3>3. Node(key, i, n.domain, n.project) \in Nodes
        BY <1>2, <2>1, NodesMade
    <3> QED
        BY <3>1, <3>2, <3>3
  <2>4. Unique(new)
    BY <2>3 DEF Unique, Entity
  <2>5. ASSUME NEW m \in t \ old, NEW x \in new, Entity(m) = Entity(x), ~IsAdmin(m) PROVE FALSE
    <3>1. ~IsAdmin(x)
        BY <2>5 DEF Entity, IsAdmin
    <3>2. db.index[Entity(x)] = m /\ m # None
        BY <1>1, <2>5, EntityOfNode DEF Indexed
    <3>3. x \in t
        BY <2>1, <3>1, <3>2 DEF AlreadySet
    <3>4. x \in old
        BY <2>2, <2>3, <3>3 DEF Members
    <3> QED
        BY <1>1, <2>5, <3>3, <3>4 DEF Unique
  <2>6. DomainNode(n.domain) \notin old /\ ProjectNode(n.domain, n.project) \notin old
    BY <1>5, <2>1, <2>2 DEF Members, LeafKinds
  <2>7. Closed((t \ old) \cup new)
    BY <1>3, <1>4, <2>3, <2>6 DEF Closed
  <2> HIDE DEF old
  <2>8. new \subseteq Nodes
    BY <2>3
  <2> QED
    BY <2>4, <2>5, <2>7, <2>8 DEF Proper, old
<1>7. CASE key = "project"
  <2>1. n.kind = "domain" /\ n.project = None
    BY <1>2, <1>7, NodeKinds DEF Keys, LeafKinds
  <2>2. old = {m \in t : m.domain = n.domain /\ m.project # None}
    BY <1>1, <1>7, <2>1, OldProjects
  <2>3. /\ new \subseteq {m \in Nodes : m.domain = n.domain /\ m.project # None}
        /\ \A m \in new : ProjectNode(m.domain, m.project) \in new
        /\ \A m1, m2 \in new : Entity(m1) = Entity(m2) => m1 = m2 \/ IsAdmin(m1)
        /\ \A m1 \in new, m2 \in t : Entity(m1) = Entity(m2) =>
                IsAdmin(m1) \/ (m2.domain = n.domain /\ m2.project # None)
    BY <1>7 DEF Values, UsedWithCare
  <2>4. Unique(new) /\ new \subseteq Nodes
    BY <2>3 DEF Unique
  <2>5. ASSUME NEW m \in t \ old, NEW x \in new, Entity(m) = Entity(x) PROVE IsAdmin(m)
    <3>1. IsAdmin(x)
        BY <2>2, <2>3, <2>5
    <3> QED
        BY <2>5, <3>1 DEF Entity, IsAdmin
  <2>6. DomainNode(n.domain) \notin old
    BY <1>5, <2>2
  <2>7. Closed((t \ old) \cup new)
    BY <1>3, <1>4, <2>3, <2>6 DEF Closed
  <2> HIDE DEF old
  <2> QED
    BY <2>4, <2>5, <2>7 DEF Proper, old
<1> QED
    BY <1>6, <1>7

-----------------------------------------------------------------------------
(* The steps in memory.                                                    *)

(* A new node has its parent.                                              *)
LEMMA CreateStep ==
    ASSUME UsedWithCare, Sound(db), NEW kind \in {"domain", "project"} \cup LeafKinds, NEW id \in IdsOf(kind),
           NEW d \in Domains, NEW p \in Projects \cup {None}, Create(kind, id, d, p)
    PROVE  Sound(db')
<1> DEFINE parent == CreateParent(db, d, p)
           n == CASE kind = "domain" -> DomainNode(id)
                  [] kind = "project" -> ProjectNode(parent.domain, id)
                  [] OTHER -> Node(kind, id, parent.domain, parent.project)
<1>1. /\ kind \in {"domain", "project"} => p = None
      /\ kind = "domain" \/ parent \in db.tree
      /\ IsAdmin(n) => n \notin db.tree
      /\ MayCreate(db, n) /\ db' = CreateEntity(db, n)
    BY DEF Create, UsedWithCare
<1>2. db.tree \subseteq Nodes /\ Closed(db.tree) /\ \A e \in Entities : ~Dangling(db.tree, db.index, e)
    BY DEF Sound
<1>3. CASE kind = "domain"
  <2>1. n = DomainNode(id) /\ id \in Domains
    BY <1>3 DEF IdsOf
  <2>2. n \in Nodes /\ n.domain = id /\ n.project = None
    BY <2>1, NodesMade, NodeFields DEF DomainNode
  <2> HIDE DEF n
  <2>3. Placed(db.tree, n)
    BY <2>1, <2>2 DEF Placed
  <2> QED
    BY <1>1, <2>2, <2>3, CreateSound
<1>4. CASE kind # "domain"
  <2>1. /\ parent \in Nodes /\ parent.domain \in Domains /\ parent.project \in Projects \cup {None}
        /\ DomainNode(parent.domain) \in db.tree
        /\ parent.project # None => ProjectNode(parent.domain, parent.project) \in db.tree
    BY <1>1, <1>2, <1>4, NodeKinds DEF Closed
  <2>2. CASE kind = "project"
    <3>1. n = ProjectNode(parent.domain, id) /\ id \in Projects
        BY <2>2 DEF IdsOf
    <3>2. n \in Nodes /\ n.domain = parent.domain /\ n.project = id
        BY <2>1, <3>1, NodesMade, NodeFields DEF ProjectNode
    <3> HIDE DEF n
    <3>3. Placed(db.tree, n)
        BY <2>1, <3>1, <3>2 DEF Placed
    <3> QED
        BY <1>1, <3>2, <3>3, CreateSound
  <2>3. CASE kind \in LeafKinds
    <3>1. n = Node(kind, id, parent.domain, parent.project)
        BY <2>3 DEF LeafKinds
    <3>2. n \in Nodes /\ n.domain = parent.domain /\ n.project = parent.project
        BY <2>1, <2>3, <3>1, NodesMade, NodeFields
    <3> HIDE DEF n, parent
    <3>3. Placed(db.tree, n)
        BY <2>1, <3>2 DEF Placed
    <3> QED
        BY <1>1, <3>2, <3>3, CreateSound
  <2> QED
    BY <1>4, <2>2, <2>3
<1> QED
    BY <1>3, <1>4

(* The requests about a domain or project that is there.                   *)
LEMMA EntityStep ==
    ASSUME UsedWithCare, Sound(db), NEW kind \in {"domain", "project"}, NEW id \in IdsOf(kind),
           \/ AddDomainOrProjectAdmin(kind, id)
           \/ \E key \in Keys(kind) : \/ UpdateEntityKey(kind, id, key)
                                      \/ UpdateEntityItem(kind, id, key)
                                      \/ DeleteEntityKey(kind, id, key)
    PROVE  Sound(db')
<1> DEFINE n == db.index[<<kind, id>>]
<1>1. n \in db.tree
    BY DEF AddDomainOrProjectAdmin, UpdateEntityKey, UpdateEntityItem, DeleteEntityKey, Found
<1>2. n \in Nodes /\ n.kind = kind
    BY <1>1, FoundIs
<1>3. n.domain \in Domains /\ n.project \in Projects \cup {None}
    BY <1>2, NodeKinds
<1>4. CASE AddDomainOrProjectAdmin(kind, id)
  <2> DEFINE a == Node("role", Admin, n.domain, n.project)
  <2>1. db' = [db EXCEPT !.tree = @ \cup {a}]
    BY <1>4 DEF AddDomainOrProjectAdmin, AddAdmin, Found
  <2>2. a \in Nodes
    <3>1. "role" \in LeafKinds /\ Admin \in IdsOf("role")
        BY IdsAssumption DEF LeafKinds, IdsOf
    <3> QED
        BY <1>3, <3>1, NodesMade
  <2>3. IsAdmin(a) /\ a.domain = n.domain /\ a.project = n.project
    BY NodeFields DEF IsAdmin
  <2> HIDE DEF a
  <2>4. Closed(db.tree \cup {a})
    BY <1>1, <2>3 DEF Sound, Closed
  <2> QED
    BY <2>1, <2>2, <2>3, <2>4, AdminAdded
<1> HIDE DEF n
<1>5. ASSUME NEW key \in Keys(kind) PROVE key \in LeafKinds \cup {"project"}
    BY DEF Keys
<1>6. ASSUME NEW key \in Keys(kind), UpdateEntityKey(kind, id, key) \/ UpdateEntityItem(kind, id, key)
      PROVE  Sound(db')
  <2>1. PICK new \in Values(n, key) : Update(n, key, new)
    BY <1>6 DEF UpdateEntityKey, UpdateEntityItem, Found, n
  <2>2. MayUpdateKey(db, key, new) /\ \E last : db' = UpdateKey(db, n, key, new, last)
    BY <2>1 DEF Update
  <2>3. Proper(db.tree, n, key, new)
    BY <1>1, <1>2, <2>2, ValuesProper
  <2> QED
    BY <1>1, <1>5, <2>2, <2>3, UpdateSound
<1>7. ASSUME NEW key \in Keys(kind), DeleteEntityKey(kind, id, key) PROVE Sound(db')
  <2>1. db' = DeleteKey(db, n, key)
    BY <1>7 DEF DeleteEntityKey, Found, n
  <2> QED
    BY <1>1, <1>5, <2>1, UpdateSound
<1> QED
    BY <1>4, <1>6, <1>7

-----------------------------------------------------------------------------
(* Files.                                                                  *)

(* A database without nodes.                                               *)
LEMMA EmptySound ==
    Sound(EmptyDb) /\ EmptyDb.tree = {}
<1>1. EmptyDb.tree = {} /\ EmptyDb.index = [e \in Entities |-> None]
    BY DEF EmptyDb
<1>2. EmptyDb = [tree |-> EmptyDb.tree, index |-> EmptyDb.index]
    BY DEF EmptyDb
<1> QED
    BY <1>1, <1>2 DEF Sound, Closed, Dangling, Indexed

(* inject_auth: any tree with parents and unique ids can be indexed.       *)
LEMMA InjectSound ==
    ASSUME NEW nodes, nodes \subseteq Nodes, Unique(nodes), Closed(nodes), NEW last
    PROVE  Sound(InjectAuth(nodes, last)) /\ InjectAuth(nodes, last).tree = nodes
<1> DEFINE f == InjectAuth(nodes, last)
           d == EmptyDb
<1>1. Sound(d) /\ d.tree = {}
    BY EmptySound
<1>2. [d EXCEPT !.tree = nodes] = [d EXCEPT !.tree = @ \cup nodes]
    BY <1>1
<1>3. f = Reindex([d EXCEPT !.tree = @ \cup nodes], nodes, last)
    BY <1>2 DEF InjectAuth
<1> HIDE DEF d, f
<1>4. Exchanged(d, f, {}, {}, nodes)
    BY <1>1, <1>3, FreeNothing, Reindexing
<1>5. Allowed(d, {}, {}, nodes)
    BY <1>1 DEF Allowed
<1>6. f.tree = nodes
    BY <1>1, <1>4 DEF Exchanged
<1>7. Sound(f)
    BY <1>1, <1>4, <1>5, <1>6, ExchangeSound
<1> QED
    BY <1>6, <1>7 DEF f

(* What a load finds in the files.                                         *)
LEMMA LoadedNodes ==
    ASSUME FilesSound, NEW nodes \in Loadable
    PROVE  /\ nodes \subseteq Nodes /\ Unique(nodes) /\ Closed(nodes) /\ nodes \subseteq version
           /\ disk = version => nodes = version
<1> DEFINE whole == {d \in dirs : DomainNode(d) \in disk}
<1>1. PICK ds \in SUBSET whole : (whole = dirs => ds = dirs) /\ nodes = {m \in disk : m.domain \in ds}
    BY DEF Loadable
<1>2. /\ version \subseteq Nodes /\ Unique(version) /\ disk \subseteq version
      /\ \A m \in disk : m.project # None => ProjectNode(m.domain, m.project) \in disk
      /\ \A m \in disk : m.domain \in dirs
      /\ \A d \in dirs : DomainNode(d) \in version
    BY DEF FilesSound
<1>3. nodes \subseteq version /\ Unique(nodes)
    BY <1>1, <1>2 DEF Unique
<1>4. Closed(nodes)
  <2> SUFFICES ASSUME NEW m \in nodes
               PROVE  DomainNode(m.domain) \in nodes
                      /\ (m.project # None => ProjectNode(m.domain, m.project) \in nodes)
    BY DEF Closed
  <2>1. /\ DomainNode(m.domain) \in disk /\ DomainNode(m.domain).domain = m.domain
        /\ m.project # None => ProjectNode(m.domain, m.project) \in disk
        /\ ProjectNode(m.domain, m.project).domain = m.domain
    BY <1>1, <1>2, NodeFields DEF DomainNode, ProjectNode
  <2> QED
    BY <1>1, <2>1
<1>5. ASSUME disk = version PROVE nodes = version
  <2>1. whole = dirs
    BY <1>2, <1>5
  <2> QED
    BY <1>1, <1>2, <1>5, <2>1
<1> QED
    BY <1>2, <1>3, <1>4, <1>5

(* auth_prepare_dir removes a file with all that is in it.                 *)
LEMMA RemoveStep ==
    ASSUME FilesSound, NEW n \in disk, SaveRemoves(n)
    PROVE  FilesSound'
<1>1. /\ process = "clearing" /\ process' = process /\ disk' = disk \ InFileOf(disk, n)
      /\ toSave' = toSave /\ dirs' = dirs /\ version' = version
    BY DEF SaveRemoves
<1>2. ASSUME NEW m \in disk', m.project # None
      PROVE  ProjectNode(m.domain, m.project) \in disk'
  <2>1. m \in disk /\ ~(m.domain = n.domain /\ m.project = n.project)
    BY <1>1, <1>2 DEF InFileOf
  <2>2. ProjectNode(m.domain, m.project) \in disk
    BY <1>2, <2>1 DEF FilesSound
  <2>3. /\ ProjectNode(m.domain, m.project).domain = m.domain
        /\ ProjectNode(m.domain, m.project).project = m.project
    BY NodeFields DEF ProjectNode
  <2> QED
    BY <1>1, <2>1, <2>2, <2>3 DEF InFileOf
<1>3. disk' \subseteq disk
    BY <1>1
<1> QED
    BY <1>1, <1>2, <1>3 DEF FilesSound

(* A file holds a domain or project with its members.                      *)
LEMMA WriteStep ==
    ASSUME FilesSound, NEW n \in toSave, SaveWrites(n)
    PROVE  FilesSound'
<1> DEFINE F == InFileOf(toSave, n)
<1>1. /\ n.kind \in {"domain", "project"} /\ n.domain \in dirs
      /\ process = "saving" /\ process' = process /\ version' = version
      /\ disk' = disk \cup F /\ toSave' = toSave /\ dirs' = dirs
    BY DEF SaveWrites
<1>2. /\ toSave \subseteq Nodes /\ disk \subseteq version /\ version = toSave
      /\ \A m \in disk : m.project # None => ProjectNode(m.domain, m.project) \in disk
      /\ \A m \in disk : m.domain \in dirs
    BY <1>1 DEF FilesSound
<1>3. F = {m \in toSave : m.domain = n.domain /\ m.project = n.project} /\ n \in F
    BY DEF InFileOf
<1> HIDE DEF F
<1>4. ASSUME NEW m \in F, m.project # None
      PROVE  ProjectNode(m.domain, m.project) \in disk'
  <2>1. n.kind = "project"
    BY <1>1, <1>2, <1>3, <1>4, NodeKinds
  <2>2. n = ProjectNode(n.domain, n.project)
    BY <1>2, <2>1, NodeKinds
  <2> QED
    BY <1>1, <1>3, <2>2
<1>5. /\ disk' \subseteq version' /\ \A m \in disk' : m.domain \in dirs'
      /\ \A m \in disk' : m.project # None => ProjectNode(m.domain, m.project) \in disk'
    BY <1>1, <1>2, <1>3, <1>4
<1> QED
    BY <1>1, <1>5 DEF FilesSound

-----------------------------------------------------------------------------
(* The theorems.                                                           *)

(* The invariant in the beginning.                                         *)
LEMMA InitIndInv ==
    Init => IndInv
    BY EmptySound DEF Init, IndInv, FilesSound, Unique, Closed

(* Every request, save, crash and load keeps it.                           *)
LEMMA NextIndInv ==
    ASSUME UsedWithCare, IndInv, [Next]_vars
    PROVE  IndInv'
<1>1. Sound(db) /\ FilesSound
    BY DEF IndInv
<1>2. ASSUME UNCHANGED <<process, toSave, dirs, disk, version>> PROVE FilesSound'
    BY <1>1, <1>2 DEF FilesSound
<1>3. ASSUME db' = db PROVE Sound(db')
    BY <1>1, <1>3
<1>4. ASSUME NEW kind \in {"domain", "project"} \cup LeafKinds, NEW id \in IdsOf(kind),
             NEW d \in Domains, NEW p \in Projects \cup {None}, Create(kind, id, d, p)
      PROVE  Sound(db') /\ FilesSound'
  <2>1. UNCHANGED <<process, toSave, dirs, disk, version>>
    BY <1>4 DEF Create, InMemory
  <2> QED
    BY <1>1, <1>2, <1>4, <2>1, CreateStep
<1>5. ASSUME NEW kind \in {"domain", "project"} \cup LeafKinds, NEW id \in IdsOf(kind), Delete(kind, id)
      PROVE  Sound(db') /\ FilesSound'
    BY <1>1, <1>2, <1>5, DeleteSound DEF Delete, InMemory
<1>6. ASSUME NEW kind \in {"domain", "project"}, NEW id \in IdsOf(kind),
             \/ AddDomainOrProjectAdmin(kind, id)
             \/ \E key \in Keys(kind) : \/ UpdateEntityKey(kind, id, key)
                                        \/ UpdateEntityItem(kind, id, key)
                                        \/ DeleteEntityKey(kind, id, key)
      PROVE  Sound(db') /\ FilesSound'
  <2>1. UNCHANGED <<process, toSave, dirs, disk, version>>
    BY <1>6 DEF AddDomainOrProjectAdmin, UpdateEntityKey, UpdateEntityItem, DeleteEntityKey, Update, InMemory
  <2> QED
    BY <1>1, <1>2, <1>6, <2>1, EntityStep
<1>7. CASE SaveBegins
  <2>1. Unique(db.tree)
    BY <1>1, SoundUnique
  <2> QED
    BY <1>1, <1>7, <2>1 DEF SaveBegins, Sound, FilesSound, IndInv
<1>8. CASE SaveCleared
  <2>1. disk = {} /\ dirs = {}
    BY <1>1, <1>8 DEF SaveCleared, FilesSound
  <2> QED
    BY <1>1, <1>3, <1>8, <2>1 DEF SaveCleared, FilesSound, IndInv
<1>9. CASE SaveEnds
  <2>1. Unique({}) /\ Closed({})
    BY DEF Unique, Closed
  <2> QED
    BY <1>1, <1>3, <1>9, <2>1 DEF SaveEnds, FilesSound, IndInv
<1>10. CASE Crash
    BY <1>1, <1>10, EmptySound DEF Crash, FilesSound, IndInv
<1>11. CASE Load
  <2>1. PICK nodes \in Loadable : \E last : db' = InjectAuth(nodes, last)
    BY <1>11 DEF Load
  <2>2. Sound(db')
    BY <1>1, <2>1, LoadedNodes, InjectSound
  <2>3. Unique({}) /\ Closed({})
    BY DEF Unique, Closed
  <2> QED
    BY <1>1, <1>11, <2>2, <2>3 DEF Load, FilesSound, IndInv
<1>12. ASSUME NEW n \in disk, SaveRemoves(n) PROVE Sound(db') /\ FilesSound'
  <2>1. db' = db
    BY <1>12 DEF SaveRemoves
  <2> QED
    BY <1>1, <1>3, <1>12, <2>1, RemoveStep
<1>13. ASSUME NEW d \in dirs, SaveRemovesDir(d) PROVE Sound(db') /\ FilesSound'
    BY <1>1, <1>3, <1>13 DEF SaveRemovesDir, FilesSound
<1>14. ASSUME NEW d \in Domains, SaveMakesDir(d) PROVE Sound(db') /\ FilesSound'
    BY <1>1, <1>3, <1>14 DEF SaveMakesDir, FilesSound
<1>15. ASSUME NEW n \in toSave, SaveWrites(n) PROVE Sound(db') /\ FilesSound'
  <2>1. db' = db
    BY <1>15 DEF SaveWrites
  <2> QED
    BY <1>1, <1>3, <1>15, <2>1, WriteStep
<1>16. CASE UNCHANGED vars
    BY <1>2, <1>3, <1>16 DEF vars, IndInv
<1> QED
    BY <1>4, <1>5, <1>6, <1>7, <1>8, <1>9, <1>10, <1>11, <1>12, <1>13, <1>14, <1>15, <1>16 DEF Next, IndInv

(* Tree and index of the database and its files fit together in every      *)
(* reachable state, whatever is created, replaced, deleted, saved, cut     *)
(* short by a crash and loaded.                                            *)
THEOREM IndInvHolds ==
    ASSUME UsedWithCare
    PROVE  Spec => []IndInv
<1>1. UsedWithCare
    OBVIOUS
<1>2. IndInv /\ [Next]_vars => IndInv'
    BY <1>1, NextIndInv
<1> QED
    BY <1>2, InitIndInv, PTL DEF Spec

(* No entry of the index points to freed memory or to a node with another  *)
(* id: a request never follows a dangling pointer.                         *)
THEOREM EntriesNotDangling ==
    ASSUME UsedWithCare
    PROVE  Spec => []NoDanglingEntry
<1>1. IndInv => NoDanglingEntry
    BY DEF IndInv, Sound, Dangling, NoDanglingEntry
<1> QED
    BY <1>1, IndInvHolds, PTL

(* Everything in the tree but the roles admin is found by the index.       *)
THEOREM EverythingFound ==
    ASSUME UsedWithCare
    PROVE  Spec => []TreeIndexed
<1>1. IndInv => TreeIndexed
    BY DEF IndInv, Sound, Indexed, TreeIndexed
<1> QED
    BY <1>1, IndInvHolds, PTL

(* Used with care, no id but admin is used twice for the same kind.        *)
THEOREM IdsUsedOnce ==
    ASSUME UsedWithCare
    PROVE  Spec => []IdsUnique
<1>1. IndInv => IdsUnique
    BY SoundUnique DEF IndInv, Unique, IdsUnique
<1> QED
    BY <1>1, IndInvHolds, PTL

(* Whatever step of a save a crash cuts short, load_auth_from_path finds   *)
(* nodes of one copy only, and the whole copy if all its files are there.  *)
THEOREM FilesOfOneVersion ==
    ASSUME UsedWithCare
    PROVE  Spec => []OneVersion
<1>1. IndInv => OneVersion
    BY LoadedNodes DEF IndInv, OneVersion
<1> QED
    BY <1>1, IndInvHolds, PTL
=============================================================================
