--------------------------- MODULE ReferenceData ----------------------------
(***************************************************************************)
(* One curriculum reference dataset: loading it from configurations,       *)
(* publishing it, and copying it into syllabus versions                    *)
(* (modules/curriculum/config), under the triggers of migrations 018, 019. *)
(*                                                                         *)
(* A load, a copy and a publication are one transaction or statement each, *)
(* after a read of their own; the row of the dataset and the unique        *)
(* indexes put them one after the other.  A configuration is the sequence  *)
(* of its nodes; structures, elements and knowledge items follow theirs.   *)
(***************************************************************************)
EXTENDS Naturals, Sequences

CONSTANTS
    Key,        \* node keys
    Config,     \* configurations: sequences of [key, parent, seq]
    Version,    \* syllabus versions of the dataset's board
    Handler,    \* requests under way
    MaxCopies,  \* bound on the copies into one version
    None        \* null

ConfigsValid ==      \* validateConfiguration
    \A c \in Config :
      /\ \A i, j \in DOMAIN c : c[i].key = c[j].key => i = j
      /\ \A i \in DOMAIN c : /\ c[i].key \in Key /\ c[i].seq \in Nat
                             /\ c[i].parent # c[i].key
                             /\ c[i].parent = None \/ \E j \in DOMAIN c : c[j].key = c[i].parent
CopyBound == MaxCopies \in Nat \ {0}
NoneIsNoOp == None \notin {"load", "publish"}

VARIABLES
    status,     \* curriculum_reference_datasets.status, None before the first load
    checksum,   \* the configuration the dataset says it was loaded from
    node,       \* its curriculum_nodes, None if there is none; late: loaded after the parent
    copies,     \* copies[v]: the structures of version v, each a parent for its nodes
    source,     \* syllabus_versions.source_reference_dataset_id is set
    call        \* the requests past their reads

vars == <<status, checksum, node, copies, source, call>>

Keys == {k \in Key : node[k] # None}
DatasetStatus == {None, "VALIDATED", "PUBLISHED"}
NodeRow == [parent : Key \cup {None}, seq : Nat, late : BOOLEAN]
Idle == [op |-> None, config |-> None, publish |-> FALSE]

TypeOK ==
    /\ status \in DatasetStatus /\ checksum \in Config \cup {None}
    /\ \A k \in Keys : node[k] \in NodeRow
    /\ \A v \in Version : Len(copies[v]) <= MaxCopies
    /\ source \subseteq Version
    /\ call \in [Handler -> [op : {None, "load", "publish"}, config : Config \cup {None},
                             publish : BOOLEAN]]

Init ==
    /\ status = None /\ checksum = None /\ node = [k \in Key |-> None]
    /\ copies = [v \in Version |-> <<>>] /\ source = {} /\ call = [h \in Handler |-> Idle]

-----------------------------------------------------------------------------
(* loadConfiguration *)

\* The parent a node is inserted with: null unless it comes earlier in the configuration.
ParentAt(c, i) ==
    IF \E j \in 1..(i - 1) : c[j].key = c[i].parent THEN c[i].parent ELSE None

\* ON CONFLICT DO UPDATE: a node that is there keeps its parent, and none is removed.
Merged(c) ==
    [k \in Key |->
       IF \E i \in DOMAIN c : c[i].key = k
       THEN LET i == CHOOSE j \in DOMAIN c : c[j].key = k
                p == ParentAt(c, i)
            IN IF node[k] # None THEN [node[k] EXCEPT !.seq = c[i].seq]
               ELSE [parent |-> p, seq |-> c[i].seq, late |-> p \in Keys]
       ELSE node[k]]

\* reject_published_curriculum_content refuses every write below such a dataset.
Immutable == status = "PUBLISHED"

\* A dry run, a published dataset with this checksum and one with another end here.
BeginLoad(h, c, publish) ==
    /\ call[h] = Idle /\ ~Immutable
    /\ call' = [call EXCEPT ![h] = [op |-> "load", config |-> c, publish |-> publish]]
    /\ UNCHANGED <<status, checksum, node, copies, source>>

LoadAny(h) ==           \* mutant: no triggers on what is published
    /\ call[h].op = "load"
    /\ checksum' = call[h].config /\ node' = Merged(call[h].config)
    /\ status' = IF call[h].publish THEN "PUBLISHED" ELSE "VALIDATED"
    /\ call' = [call EXCEPT ![h] = Idle] /\ UNCHANGED <<copies, source>>

\* Of a dataset published since the read, the triggers refuse a new checksum, and the
\* nodes of the old one.  The checksum is compared with the row just written.
Load(h) ==
    /\ call[h].op = "load" /\ ~Immutable
    /\ checksum' = call[h].config /\ node' = Merged(call[h].config)
    /\ status' = IF call[h].publish THEN "PUBLISHED" ELSE "VALIDATED"
    /\ call' = [call EXCEPT ![h] = Idle] /\ UNCHANGED <<copies, source>>

-----------------------------------------------------------------------------
(* publish *)

BeginPublish(h) ==
    /\ call[h] = Idle /\ status = "VALIDATED"
    /\ call' = [call EXCEPT ![h].op = "publish"]
    /\ UNCHANGED <<status, checksum, node, copies, source>>

\* Of a dataset that was loaded again since the read, what it holds by now is published.
Publish(h) ==
    /\ call[h].op = "publish" /\ status' = "PUBLISHED"
    /\ call' = [call EXCEPT ![h] = Idle] /\ UNCHANGED <<checksum, node, copies, source>>

Fail(h) ==
    /\ call[h] # Idle /\ call' = [call EXCEPT ![h] = Idle]
    /\ UNCHANGED <<status, checksum, node, copies, source>>

-----------------------------------------------------------------------------
(* materialize *)

\* ORDER BY sequence_number, created_at: a parent not copied before its child is not found,
\* and the child is copied without one.  The nodes of one load have the same created_at.
CopiedParents(k) ==
    LET p == node[k].parent IN
    CASE p = None -> {None}
      [] p # None /\ node[p].seq # node[k].seq ->
           {IF node[p].seq < node[k].seq THEN p ELSE None}
      [] OTHER -> IF node[k].late THEN {p} ELSE {p, None}

Copied == {f \in [Keys -> Key \cup {None}] : \A k \in Keys : f[k] \in CopiedParents(k)}

\* Every call adds a copy, the same dataset twice included.
MaterializeDraft(v) ==  \* mutant: the dataset need not be published
    /\ status # None /\ Len(copies[v]) < MaxCopies
    /\ \E f \in Copied : copies' = [copies EXCEPT ![v] = Append(@, f)]
    /\ source' = source \cup {v} /\ UNCHANGED <<status, checksum, node, call>>

Materialize(v) ==
    /\ status = "PUBLISHED" /\ Len(copies[v]) < MaxCopies
    /\ \E f \in Copied : copies' = [copies EXCEPT ![v] = Append(@, f)]
    /\ source' = source \cup {v} /\ UNCHANGED <<status, checksum, node, call>>

Next ==
    \/ \E h \in Handler :
         \/ \E c \in Config, p \in BOOLEAN : BeginLoad(h, c, p)
         \/ Load(h) \/ BeginPublish(h) \/ Publish(h) \/ Fail(h)
    \/ \E v \in Version : Materialize(v)

Spec == Init /\ [][Next]_vars

-----------------------------------------------------------------------------
\* What is published stays as it is, a load that read the dataset before its publication
\* included ("Published or retired reference dataset content is immutable").
PublishedKept ==
    status = "PUBLISHED" => <<status', checksum', node'>> = <<status, checksum, node>>

\* The copies in a version that names the dataset are of its published nodes, all of them:
\* no load may come between a copy and the content it is attributed to.
CopiesOfPublished ==
    \A v \in Version :
      /\ v \in source <=> copies[v] # <<>>
      /\ \A i \in DOMAIN copies[v] : copies[v][i] \in Copied
=============================================================================
