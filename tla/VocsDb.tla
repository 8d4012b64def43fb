------------------------------- MODULE VocsDb -------------------------------
(***************************************************************************)
(* The database of users, roles and loops in projects and domains          *)
(* (ov_vocs_db.c), as operators on a record:                               *)
(*                                                                         *)
(*   tree    the JSON tree, as the set of its nodes.  A node is known by   *)
(*           its path: kind, id, domain and project (None for what belongs *)
(*           to the domain itself).                                        *)
(*   index   one dictionary per kind from ids to pointers into the tree.   *)
(*           They are plain pointers: when a node is freed an entry that   *)
(*           still points to it becomes Freed.                             *)
(*                                                                         *)
(* What nodes contain besides other nodes is left out.  Deleting a key     *)
(* that is not there succeeds, in objects and in dictionaries.             *)
(***************************************************************************)
EXTENDS FiniteSets

CONSTANTS Domains, Projects, Users, Roles, Loops,   \* ids
          Admin,       \* the role every domain and project may have
          None,        \* no project; not in the index
          Freed        \* a pointer to memory that has been freed

ASSUME IdsAssumption ==
    /\ None \notin Projects /\ Admin \in Roles

LeafKinds == {"user", "role", "loop"}
IdsOf(kind) == CASE kind = "domain" -> Domains
                 [] kind = "project" -> Projects
                 [] kind = "user" -> Users
                 [] kind = "role" -> Roles
                 [] kind = "loop" -> Loops

Node(kind, id, d, p) == [kind |-> kind, id |-> id, domain |-> d, project |-> p]

DomainNode(d) == Node("domain", d, d, None)
ProjectNode(d, p) == Node("project", p, d, p)

Nodes ==
    {DomainNode(d) : d \in Domains}
    \cup {ProjectNode(d, p) : d \in Domains, p \in Projects}
    \cup UNION {{Node(k, i, d, p) : i \in IdsOf(k), d \in Domains, p \in Projects \cup {None}}
                    : k \in LeafKinds}

ASSUME PointersAssumption == None \notin Nodes /\ Freed \notin Nodes /\ None # Freed

\* The entry of the index that a node is looked up by.
Entity(n) == <<n.kind, n.id>>
Entities == {Entity(n) : n \in Nodes}

\* A node with everything below it.
Subtree(tree, n) ==
    {m \in tree :
        \/ m = n
        \/ n.kind = "domain" /\ m.domain = n.domain
        \/ n.kind = "project" /\ m.domain = n.domain /\ m.project = n.project}

\* The members of the object at the given key ("user" for "users" ...) of n.
Members(tree, n, key) ==
    {m \in tree : m.kind = key /\ m.domain = n.domain
                  /\ (key = "project" \/ m.project = n.project)}

IsAdmin(n) == n.kind = "role" /\ n.id = Admin

EmptyDb == [tree |-> {}, index |-> [e \in Entities |-> None]]

-----------------------------------------------------------------------------
(* Memory and index *)

Free(db, nodes) ==
    [tree  |-> db.tree \ nodes,
     index |-> [e \in Entities |-> IF db.index[e] \in nodes THEN Freed ELSE db.index[e]]]

Unindex(db, entities) ==
    [db EXCEPT !.index = [e \in Entities |-> IF e \in entities THEN None ELSE db.index[e]]]

\* Nodes are entered under their ids, one after the other; of several roles
\* admin the last one stays.  No other id is twice among the nodes.
Reindex(db, nodes, last) ==
    [db EXCEPT !.index = [e \in Entities |->
        IF \E n \in nodes : Entity(n) = e
        THEN IF last \in nodes /\ Entity(last) = e THEN last
             ELSE CHOOSE n \in nodes : Entity(n) = e
        ELSE db.index[e]]]

LastAdmins(nodes) ==
    LET admins == {n \in nodes : IsAdmin(n)} IN IF admins = {} THEN nodes ELSE admins

\* A project is unindexed by its id: what goes is what the index finds.
UnindexProjects(db, ids) ==
    LET found == {db.index[<<"project", p>>] : p \in ids} \cap db.tree
    IN  Unindex(db, {Entity(m) : m \in UNION {Subtree(db.tree, n) : n \in found}})

UnindexMembers(db, n, key) ==
    LET old == Members(db.tree, n, key)
    IN  IF key = "project" THEN UnindexProjects(db, {m.id : m \in old})
        ELSE Unindex(db, {Entity(m) : m \in old})

UnindexDomain(db, n) ==
    LET projects == UnindexMembers(db, n, "project")
    IN  Unindex(projects, {Entity(n)} \cup {Entity(m) : m \in
                    UNION {Members(db.tree, n, k) : k \in LeafKinds}})

-----------------------------------------------------------------------------
(* ov_vocs_db_create_entity: the id must not be in the index, except for   *)
(* the role admin, which is never looked up, replaces one that is there,   *)
(* and is not entered into the index.                                      *)

\* The parent of a new node: a project is found by the index, a domain by the
\* tree; None if there is none.
CreateParent(db, d, p) ==
    IF p = None
    THEN IF DomainNode(d) \in db.tree THEN DomainNode(d) ELSE None
    ELSE db.index[<<"project", p>>]

\* Mutant: an id is only looked for where the node is to be created.
MayCreateHere(db, n) == IsAdmin(n) \/ n \notin db.tree

MayCreate(db, n) == IsAdmin(n) \/ db.index[Entity(n)] = None

CreateEntity(db, n) ==
    LET freed == Free(db, Subtree(db.tree, n))
        added == [freed EXCEPT !.tree = @ \cup {n}]
    IN  IF IsAdmin(n) THEN added ELSE Reindex(added, {n}, n)

-----------------------------------------------------------------------------
(* ov_vocs_db_delete_entity *)

\* Mutant: the contents of a deleted project stay in the index.
DeleteFoundOnly(db, n) == Free(Unindex(db, {Entity(n)}), Subtree(db.tree, n))

\* db_delete: the node the index finds, with its contents.
DeleteFound(db, n) ==
    LET unindexed == CASE n.kind = "domain" -> UnindexDomain(db, n)
                       [] n.kind = "project" -> UnindexProjects(db, {n.id})
                       [] OTHER -> Unindex(db, {Entity(n)})
    IN  Free(unindexed, Subtree(db.tree, n))

\* Afterwards the id is deleted in every domain (and project) of the index,
\* without unindexing what is below; for a user only the lists of the roles
\* are cleaned, and for a domain the index.
Sweep(db, kind, id) ==
    LET domains == {db.index[<<"domain", d>>] : d \in Domains} \cap db.tree
        projects == {db.index[<<"project", p>>] : p \in Projects} \cap db.tree
        parents == CASE kind = "project" -> domains
                     [] kind \in {"loop", "role"} -> domains \cup projects
                     [] OTHER -> {}
        hit == {m \in UNION {Members(db.tree, n, kind) : n \in parents} : m.id = id}
    IN  IF kind = "domain" /\ DomainNode(id) \in db.tree
        THEN UnindexDomain(db, DomainNode(id))
        ELSE Free(db, UNION {Subtree(db.tree, m) : m \in hit})

DeleteEntity(db, kind, id) ==
    LET found == db.index[<<kind, id>>]
    IN  Sweep(IF found \in db.tree THEN DeleteFound(db, found) ELSE db, kind, id)

-----------------------------------------------------------------------------
(* Updates.  The new value of a key is the set of nodes it consists of.    *)

\* user_already_set, role_already_set, loop_already_set: an id that is in use
\* must be in use here.  Projects are not looked at.
AlreadySet(db, new) ==
    \A n \in new :
        IsAdmin(n) \/ db.index[Entity(n)] = None \/ n \in db.tree

\* update_users, update_roles, update_loops, update_domain_projects: old ids
\* out of the index, old members replaced by the new ones, those indexed.
UpdateKey(db, n, key, new, last) ==
    LET old == UNION {Subtree(db.tree, m) : m \in Members(db.tree, n, key)}
        freed == Free(UnindexMembers(db, n, key), old)
    IN  Reindex([freed EXCEPT !.tree = @ \cup new], new, last)

MayUpdateKey(db, key, new) == key = "project" \/ AlreadySet(db, new)

DeleteKey(db, n, key) ==
    Free(UnindexMembers(db, n, key),
         UNION {Subtree(db.tree, m) : m \in Members(db.tree, n, key)})

(* ov_vocs_db_verify_entity_item *)

\* verify_id: an id is free or owned by the object that is updated.
VerifyId(db, owned, entity) ==
    entity \in {Entity(m) : m \in owned} \/ db.index[entity] = None

\* verify_project: the contents are compared with the project of that id
\* which the index finds, wherever that is.
VerifyProject(db, p, new) ==
    LET found == db.index[<<"project", p>>]
        owned == IF found \in db.tree THEN Subtree(db.tree, found) ELSE {}
    IN  \A m \in new : m.kind \in LeafKinds => VerifyId(db, owned, Entity(m))

\* verify_domain and verify_project_id: the id of a project is looked for in
\* the index of loops.
VerifyItem(db, n, key, new) ==
    IF key = "project"
    THEN \A m \in new : m.kind = "project" =>
            /\ VerifyProject(db, m.id, {x \in new : x.project = m.id})
            /\ m \notin db.tree /\ m.id \in Loops => db.index[<<"loop", m.id>>] = None
    ELSE \A m \in new : VerifyId(db, Members(db.tree, n, key), Entity(m))

-----------------------------------------------------------------------------
(* ov_vocs_db_add_domain_admin, ov_vocs_db_add_project_admin: the role is  *)
(* made if it is not there, and not entered into the index.                *)

AddAdmin(db, n) ==
    [db EXCEPT !.tree = @ \cup {Node("role", Admin, n.domain, n.project)}]

\* inject_auth: everything is replaced and indexed anew.
InjectAuth(nodes, last) == Reindex([EmptyDb EXCEPT !.tree = nodes], nodes, last)
=============================================================================
