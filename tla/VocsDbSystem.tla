---------------------------- MODULE VocsDbSystem ----------------------------
(***************************************************************************)
(* The database of VocsDb under the requests of its API                    *)
(* (ov_vocs_db_app.c; whoever asks is an administrator), with its files    *)
(* (ov_vocs_db_persistance.c).  A save deletes the old files one by one    *)
(* and then writes the new ones one by one, so a crash may come between    *)
(* any two; a load reads what is there.                                    *)
(* A request that fails leaves everything as it is and is not a step.      *)
(***************************************************************************)
EXTENDS VocsDb

CONSTANTS ForeignIds,    \* switch: projects with ids that are used elsewhere
          RepeatAdmin,   \* switch: a role admin is created where there is one
          Files          \* switch: the database is saved and loaded

VARIABLES db,            \* the database in memory
          process,       \* "up", "clearing" or "saving" files, or "down"
          toSave,        \* the copy of the tree that is being saved
          removing,      \* the domain whose directory is being removed
          dirs,          \* domains that have a directory
          disk,          \* nodes in files: a domain or project with its members
          version,       \* history: the copy that the files are of
          before         \* history: what a load could find before the steps of a
                         \* save that remove files, or those that write them

vars == <<db, process, toSave, removing, dirs, disk, version, before>>

Init ==
    /\ db = EmptyDb
    /\ process = "up"
    /\ toSave = {} /\ removing = None
    /\ dirs = {} /\ disk = {}
    /\ version = {} /\ before = {{}}

InMemory == UNCHANGED <<process, toSave, removing, dirs, disk, version, before>>

-----------------------------------------------------------------------------
(* Requests *)

\* The domain or project a request is about, found in the index.
Found(kind, id) == db.index[<<kind, id>>]

Create(kind, id, d, p) ==
    LET parent == CreateParent(db, d, p)
        n == CASE kind = "domain" -> DomainNode(id)
               [] kind = "project" -> ProjectNode(parent.domain, id)
               [] OTHER -> Node(kind, id, parent.domain, parent.project)
    IN  /\ process = "up"
        /\ kind \in {"domain", "project"} => p = None
        /\ kind = "domain" \/ parent \in db.tree
        /\ RepeatAdmin \/ ~IsAdmin(n) \/ n \notin db.tree
        /\ MayCreate(db, n)
        /\ db' = CreateEntity(db, n)
        /\ InMemory

Delete(kind, id) ==
    /\ process = "up"
    /\ \A e \in Entities : db.index[e] # Freed
    /\ db' = DeleteEntity(db, kind, id)
    /\ InMemory

\* The values that key of n may be given.  Projects that use an id twice among
\* themselves are left out: they would be accepted, too, and which of the two
\* the index finds would depend on the order of the JSON object.
Values(n, key) ==
    IF key = "project"
    THEN {v \in SUBSET {m \in Nodes : m.domain = n.domain /\ m.project # None} :
            /\ \A m \in v : ProjectNode(m.domain, m.project) \in v
            /\ \A m1, m2 \in v : Entity(m1) = Entity(m2) => m1 = m2 \/ IsAdmin(m1)
            /\ ForeignIds \/ \A m1 \in v, m2 \in db.tree : Entity(m1) = Entity(m2) =>
                    IsAdmin(m1) \/ (m2.domain = n.domain /\ m2.project # None)}
    ELSE SUBSET {Node(key, i, n.domain, n.project) : i \in IdsOf(key)}

Update(n, key, new) ==
    /\ MayUpdateKey(db, key, new)
    /\ \E last \in LastAdmins(new) \cup {None} :
        /\ last = None => new = {}
        /\ db' = UpdateKey(db, n, key, new, last)
    /\ InMemory

\* cb_event_update_key
UpdateEntityKey(kind, id, key) ==
    LET n == Found(kind, id) IN
    /\ process = "up" /\ n \in db.tree
    /\ \E new \in Values(n, key) : Update(n, key, new)

\* cb_event_update, for a value with one key
UpdateEntityItem(kind, id, key) ==
    LET n == Found(kind, id) IN
    /\ process = "up" /\ n \in db.tree
    /\ \E new \in Values(n, key) : VerifyItem(db, n, key, new) /\ Update(n, key, new)

DeleteEntityKey(kind, id, key) ==
    LET n == Found(kind, id) IN
    /\ process = "up" /\ n \in db.tree
    /\ db' = DeleteKey(db, n, key)
    /\ InMemory

AddDomainOrProjectAdmin(kind, id) ==
    LET n == Found(kind, id) IN
    /\ process = "up" /\ n \in db.tree
    /\ db' = AddAdmin(db, n)
    /\ InMemory

Keys(kind) == IF kind = "domain" THEN LeafKinds \cup {"project"} ELSE LeafKinds

-----------------------------------------------------------------------------
(* Files: one directory per domain with a file for it, one in a directory  *)
(* below for each project.  A file that is cut short and a directory of a  *)
(* project without a file are read as if they were not there.              *)

\* The contents of the file of domain or project n.
InFileOf(nodes, n) == {m \in nodes : m.domain = n.domain /\ m.project = n.project}

\* What load_auth_from_path may find.  It ends at a directory without the file
\* of its domain; which domains it has read by then depends on the order of
\* the directory.
Loadable ==
    LET whole == {d \in dirs : DomainNode(d) \in disk}
    IN  {{m \in disk : m.domain \in ds} : ds \in IF whole = dirs THEN {dirs} ELSE SUBSET whole}

\* Mutant: auth_prepare_dir leaves the files of the save before in place.
SaveBeginsKeepsFiles ==
    /\ Files /\ process = "up"
    /\ process' = "saving"
    /\ toSave' = db.tree /\ version' = db.tree
    /\ before' = Loadable
    /\ UNCHANGED <<db, removing, dirs, disk>>

\* persist_auth takes a copy.
SaveBegins ==
    /\ Files /\ process = "up"
    /\ process' = "clearing"
    /\ toSave' = db.tree
    /\ before' = Loadable
    /\ UNCHANGED <<db, removing, dirs, disk, version>>

\* auth_prepare_dir removes one directory after the other, each with its files
\* in any order (ov_dir_tree_remove), itself at last.
SaveRemoves(n) ==
    /\ process = "clearing" /\ removing \in {None, n.domain}
    /\ n.kind \in {"domain", "project"}
    /\ removing' = n.domain
    /\ disk' = disk \ InFileOf(disk, n)
    /\ UNCHANGED <<db, process, toSave, dirs, version, before>>

SaveRemovesDir(d) ==
    /\ process = "clearing" /\ removing \in {None, d}
    /\ \A m \in disk : m.domain # d
    /\ removing' = None
    /\ dirs' = dirs \ {d}
    /\ UNCHANGED <<db, process, toSave, disk, version, before>>

SaveCleared ==
    /\ process = "clearing" /\ dirs = {}
    /\ process' = "saving"
    /\ version' = toSave
    /\ before' = Loadable
    /\ UNCHANGED <<db, toSave, removing, dirs, disk>>

\* A domain is begun when the one before it is complete.
SaveMakesDir(d) ==
    /\ process = "saving" /\ DomainNode(d) \in toSave /\ d \notin dirs
    /\ \A m \in toSave : m.domain \in dirs => m \in disk
    /\ dirs' = dirs \cup {d}
    /\ UNCHANGED <<db, process, toSave, removing, disk, version, before>>

SaveWrites(n) ==
    /\ process = "saving" /\ n \in toSave \ disk
    /\ n.kind \in {"domain", "project"} /\ n.domain \in dirs
    /\ n.kind = "project" => DomainNode(n.domain) \in disk
    /\ disk' = disk \cup InFileOf(toSave, n)
    /\ UNCHANGED <<db, process, toSave, removing, dirs, version, before>>

SaveEnds ==
    /\ process = "saving" /\ disk = toSave
    /\ process' = "up"
    /\ toSave' = {}
    /\ before' = Loadable
    /\ UNCHANGED <<db, removing, dirs, disk, version>>

\* toSave keeps what was being saved.
Crash ==
    /\ Files /\ process # "down"
    /\ process' = "down"
    /\ db' = EmptyDb
    /\ removing' = None
    /\ UNCHANGED <<toSave, dirs, disk, version, before>>

Load ==
    /\ Files /\ process \in {"up", "down"}
    /\ \E nodes \in Loadable :
        \E last \in LastAdmins(nodes) \cup {None} :
            /\ last = None => nodes = {}
            /\ db' = InjectAuth(nodes, last)
    /\ process' = "up"
    /\ toSave' = {}
    /\ before' = Loadable
    /\ UNCHANGED <<removing, dirs, disk, version>>

-----------------------------------------------------------------------------
Next ==
    \/ \E kind \in {"domain", "project"} \cup LeafKinds :
        \E id \in IdsOf(kind) :
            \/ \E d \in Domains, p \in Projects \cup {None} : Create(kind, id, d, p)
            \/ Delete(kind, id)
    \/ \E kind \in {"domain", "project"} : \E id \in IdsOf(kind) :
        \/ AddDomainOrProjectAdmin(kind, id)
        \/ \E key \in Keys(kind) :
            \/ UpdateEntityKey(kind, id, key)
            \/ UpdateEntityItem(kind, id, key)
            \/ DeleteEntityKey(kind, id, key)
    \/ SaveBegins \/ SaveCleared \/ SaveEnds \/ Crash \/ Load
    \/ \E n \in disk : SaveRemoves(n)
    \/ \E d \in dirs : SaveRemovesDir(d)
    \/ \E d \in Domains : SaveMakesDir(d)
    \/ \E n \in toSave : SaveWrites(n)

Spec == Init /\ [][Next]_vars

-----------------------------------------------------------------------------
(* Properties *)

\* An entry of the index points to a node of the tree with that id: no
\* sequence of creating, replacing and deleting whole subtrees leaves a
\* pointer to freed memory behind.
NoDanglingEntry ==
    \A e \in Entities : db.index[e] # None =>
        db.index[e] \in db.tree /\ Entity(db.index[e]) = e

\* Everything in the tree, except a role admin, is found by the index: what
\* a request creates it can also find, change and delete again.
TreeIndexed == \A n \in db.tree : IsAdmin(n) \/ db.index[Entity(n)] = n

\* No id is used twice for the same kind, except for the role admin.
IdsUnique ==
    \A n1, n2 \in db.tree : Entity(n1) = Entity(n2) => n1 = n2 \/ IsAdmin(n1)

\* Whenever the process dies, a load brings back a part of one copy that a
\* save has taken, never nodes of two (auth_prepare_dir is done before the
\* first file is written); and the whole copy, if all its files are there.
OneVersion ==
    \A nodes \in Loadable : nodes \subseteq version /\ (disk = version => nodes = version)

\* What is loaded after a crash is a snapshot, as README_VOCSDB.md:58 has it:
\* what the save before left there, or what the save that was cut short had
\* stored of its own copy by then, and nothing between the two.
SnapshotRestored ==
    process = "down" => \A nodes \in Loadable : nodes \subseteq toSave \/ nodes \in before
=============================================================================
