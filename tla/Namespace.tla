----------------------------- MODULE Namespace -----------------------------
(***************************************************************************)
(* What the metadata service promises its clients when its store does not  *)
(* fail: a durable tree of directories and files on which every request    *)
(* acts at one instant.  A restart is invisible but for the answers it     *)
(* swallows.  One thing is left open, because the code answers it either   *)
(* way depending on whether the process was restarted: listing, or         *)
(* unlinking from, a directory with nothing in it may say NotFound.        *)
(***************************************************************************)
EXTENDS Integers

CONSTANTS
    Names, IllegalNames,   \* entry names, and those the service refuses
    NoName,                \* the missing name
    Root, NoId,            \* the root directory, the missing inode id
    Ids                    \* the ids of all inodes other than the root

VARIABLES
    tree,    \* inode id -> [parent, name, isDir], without the root
    used,    \* the ids that were ever given out
    reply    \* the last answer, with its request

vars == <<tree, used, reply>>

Nodes           == DOMAIN tree \cup {Root}
IsDir(p)        == p = Root \/ (p \in DOMAIN tree /\ tree[p].isDir)
Children(p)     == {i \in DOMAIN tree : tree[i].parent = p}
Named(p, n)     == {i \in Children(p) : tree[i].name = n}

Says(op, arg, code, ids) ==
    reply' = [op |-> op, arg |-> arg, code |-> code, ids |-> ids]

\* The answer is lost with the process.
Lost == reply' = [op |-> "none", arg |-> <<>>, code |-> "Unavailable", ids |-> {}]

Init ==
    /\ tree = [i \in {} |-> 0]
    /\ used = {}
    /\ reply = [op |-> "none", arg |-> <<>>, code |-> "Unavailable", ids |-> {}]

Restart == Lost /\ UNCHANGED <<tree, used>>

Create(p, n, d) ==
    /\ IsDir(p) /\ n \in Names \ IllegalNames /\ Named(p, n) = {}
    /\ \E id \in Ids \ used :
           /\ Says("Create", <<p, n, d>>, "OK", {id}) \/ Lost
           /\ tree' = [i \in DOMAIN tree \cup {id} |->
                         IF i = id THEN [parent |-> p, name |-> n, isDir |-> d]
                                   ELSE tree[i]]
           /\ used' = used \cup {id}

CreateRefused(p, n, d) ==
    /\ \E code \in {"InvalidArgument", "NotFound", "FailedPrecondition",
                    "AlreadyExists"} :
           /\ Says("Create", <<p, n, d>>, code, {})
           /\ CASE code = "InvalidArgument"    -> \/ p = NoId
                                                  \/ n \in IllegalNames \cup {NoName}
                [] code = "NotFound"           -> p \notin Nodes
                [] code = "FailedPrecondition" -> p \in Nodes /\ ~IsDir(p)
                [] code = "AlreadyExists"      -> Named(p, n) # {}
    /\ UNCHANGED <<tree, used>>

Unlink(p, n) ==
    /\ \E id \in Named(p, n) :
           /\ Says("Unlink", <<p, n>>, "Deleted", {id}) \/ Lost
           /\ Children(id) = {}
           /\ tree' = [i \in DOMAIN tree \ {id} |-> tree[i]]
    /\ UNCHANGED used

UnlinkRefused(p, n) ==
    /\ \/ /\ Says("Unlink", <<p, n>>, "NotFound", {})
          /\ Children(p) = {}
       \/ /\ Says("Unlink", <<p, n>>, "NotDeleted", {})
          /\ IsDir(p) /\ Named(p, n) = {}
       \/ /\ Says("Unlink", <<p, n>>, "FailedPrecondition", {})
          /\ \E id \in Named(p, n) : Children(id) # {}
    /\ UNCHANGED <<tree, used>>

Lookup(p, n) ==
    /\ \/ /\ Says("Lookup", <<p, n>>, "OK", Named(p, n))
          /\ Named(p, n) # {}
       \/ /\ Says("Lookup", <<p, n>>, "NotFound", {})
          /\ Named(p, n) = {}
    /\ UNCHANGED <<tree, used>>

Stat(i) ==
    /\ Says("Stat", <<i>>, IF i \in Nodes THEN "OK" ELSE "NotFound",
            {i} \cap Nodes)
    /\ UNCHANGED <<tree, used>>

ListDir(i) ==
    /\ \/ Says("ListDir", <<i>>, "OK", Children(i)) /\ IsDir(i)
       \/ Says("ListDir", <<i>>, "NotFound", {}) /\ Children(i) = {}
    /\ UNCHANGED <<tree, used>>

AskedIds   == Ids \cup {Root, NoId}
AskedNames == Names \cup {NoName}

Next ==
    \/ Restart
    \/ \E p \in AskedIds, n \in AskedNames :
           \/ \E d \in BOOLEAN : Create(p, n, d) \/ CreateRefused(p, n, d)
           \/ Unlink(p, n) \/ UnlinkRefused(p, n) \/ Lookup(p, n)
    \/ \E i \in AskedIds : Stat(i) \/ ListDir(i)

Spec == Init /\ [][Next]_vars
=============================================================================
