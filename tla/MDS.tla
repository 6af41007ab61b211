-------------------------------- MODULE MDS --------------------------------
(***************************************************************************)
(* The metadata service of kube-pfs (pkg/mds/service.go): an in-memory     *)
(* namespace in front of two BoltDB buckets.                               *)
(*                                                                         *)
(* Every handler runs under s.mu for its whole length (Lock for Create and *)
(* Unlink, RLock for Lookup, Stat and ListDir), so a handler is one action *)
(* and concurrent RPCs are an interleaving of such actions.  What happens  *)
(* INSIDE a writing handler still shows: memory is changed before the      *)
(* BoltDB transaction, the transaction may fail, and the process may die   *)
(* after the commit and before the answer; each is a disjunct.  A process  *)
(* that dies before the commit is indistinguishable from one that died     *)
(* before the request (memory is lost, BoltDB is unchanged): Crash.        *)
(***************************************************************************)
EXTENDS Integers, Sequences, FiniteSets, Functions

CONSTANTS
    Names,            \* the entry names that clients send
    SlashNames,       \* those of them that contain a '/'
    RootName,         \* the name of the root inode, "/"
    NoName,           \* the empty name
    OstIds,           \* the sequence MDS_OST_IDS
    MaxClock,         \* bound: the last wall-clock reading used as an inode id
    PersistMayFail    \* may a BoltDB transaction fail (disk full, I/O error)?

ASSUME NamesAssumption ==
    /\ SlashNames \subseteq Names
    /\ RootName \in SlashNames
    /\ NoName \notin Names
ASSUME OstIdsAssumption == OstIds \in Seq(Range(OstIds)) /\ OstIds # <<>>
ASSUME ClockAssumption == MaxClock \in Nat
ASSUME SwitchAssumption == PersistMayFail \in BOOLEAN

Root == 0                   \* the inode id "root"
NoId == -1                  \* the empty inode id
InodeIds == 0..MaxClock     \* "root" and the ids "inode-<clock reading>"

VARIABLES
    up,           \* is the process serving?
    inodes,       \* s.inodes: inode id -> inode
    dirents,      \* the entries of s.dirents: <<parent, name>> -> inode id
    dirMaps,      \* the keys of the outer map s.dirents
    rr,           \* s.rr modulo the number of OSTs
    boltInodes,   \* bucket "inodes"
    boltDirents,  \* bucket "dirents"
    clock,        \* the wall-clock reading the next Create will see
    reply,        \* the last request answered, with its answer
    acked,        \* history: entries whose Create was answered OK and for
                  \* which no Unlink was accepted or failed since
    removed       \* history: inodes whose Unlink was answered Deleted

memory  == <<inodes, dirents, dirMaps, rr>>
disk    == <<boltInodes, boltDirents>>
history == <<acked, removed>>
vars    == <<up, memory, disk, clock, reply, history>>

-----------------------------------------------------------------------------
(* Maps and layouts.                                                       *)

With(f, k, v)  == [x \in DOMAIN f \cup {k} |-> IF x = k THEN v ELSE f[x]]
Without(f, K)  == Restrict(f, DOMAIN f \ K)
Under(f, d)    == {k \in DOMAIN f : k[1] = d}
Empty          == [x \in {} |-> x]

NumOsts   == Len(OstIds)
Layout(s) == [i \in 1..NumOsts |-> OstIds[((s + i - 1) % NumOsts) + 1]]

RootInode == [parent |-> NoId, name |-> RootName, isDir |-> TRUE,
              layout |-> Layout(0)]

\* mutant: the round-robin index is not wrapped.
NextStartUnwrapped == rr + 1

\* The index nextStripeLayout leaves behind.
NextStart == (rr + 1) % NumOsts

\* A directory gets the configured order, but nextStripeLayout has already
\* advanced rr by then.
NewInode(p, n, d) == [parent |-> p, name |-> n, isDir |-> d,
                      layout |-> IF d THEN Layout(0) ELSE Layout(rr)]

Answer(op, arg, code, ids) ==
    reply' = [op |-> op, arg |-> arg, code |-> code, ids |-> ids]

Down == [op |-> "none", arg |-> <<>>, code |-> "Unavailable", ids |-> {}]

-----------------------------------------------------------------------------
(* Start-up and crash.                                                     *)

Init ==
    /\ up = FALSE
    /\ inodes = Empty /\ dirents = Empty /\ dirMaps = {} /\ rr = 0
    /\ boltInodes = Empty /\ boltDirents = Empty
    /\ clock = 1
    /\ reply = Down
    /\ acked = Empty /\ removed = {}

\* mutant: the loader forgets the entries stored directly under the root.
LoadExistingSkipsRoot ==
    /\ Root \in DOMAIN boltInodes
    /\ inodes' = boltInodes
    /\ dirents' = Without(boltDirents, Under(boltDirents, Root))
    /\ dirMaps' = {k[1] : k \in DOMAIN boltDirents} \cup {Root}
    /\ UNCHANGED disk

\* mutant: the root gets no entry map of its own.
LoadExistingNoRootMap ==
    /\ Root \in DOMAIN boltInodes
    /\ inodes' = boltInodes
    /\ dirents' = boltDirents
    /\ dirMaps' = {k[1] : k \in DOMAIN boltDirents}
    /\ UNCHANGED disk

\* loadOrInitRoot on a store that already has a root.  The outer map of
\* s.dirents is rebuilt from the entries alone.
LoadExisting ==
    /\ Root \in DOMAIN boltInodes
    /\ inodes' = boltInodes
    /\ dirents' = boltDirents
    /\ dirMaps' = {k[1] : k \in DOMAIN boltDirents} \cup {Root}
    /\ UNCHANGED disk

\* loadOrInitRoot on a store without a root.
InitRoot ==
    /\ Root \notin DOMAIN boltInodes
    /\ inodes' = With(boltInodes, Root, RootInode)
    /\ dirents' = Without(boltDirents, Under(boltDirents, Root))
    /\ dirMaps' = {k[1] : k \in DOMAIN boltDirents} \cup {Root}
    /\ boltInodes' = inodes'
    /\ UNCHANGED boltDirents

\* NewService.  A start whose transaction fails ends the process (log.Fatalf
\* in cmd/mds/main.go) and changes nothing, so it is a stuttering step.
Start ==
    /\ ~up
    /\ LoadExisting \/ InitRoot
    /\ up' = TRUE
    /\ rr' = 0
    /\ UNCHANGED <<clock, reply, history>>

LoseMemory ==
    /\ up' = FALSE
    /\ inodes' = Empty /\ dirents' = Empty /\ dirMaps' = {} /\ rr' = 0
    /\ reply' = Down

Crash ==
    /\ up
    /\ LoseMemory
    /\ UNCHANGED <<disk, clock, history>>

-----------------------------------------------------------------------------
(* Create.                                                                 *)

\* mutant: the handler does not look for an existing entry.
CreateCheckNoExists(p, n) ==
    IF p = NoId \/ n = NoName THEN "InvalidArgument"
    ELSE IF p \notin DOMAIN inodes THEN "NotFound"
    ELSE IF ~inodes[p].isDir THEN "FailedPrecondition"
    ELSE IF n \in SlashNames THEN "InvalidArgument"
    ELSE "OK"

\* mutant: the handler accepts a file as the parent.
CreateCheckAnyParent(p, n) ==
    IF p = NoId \/ n = NoName THEN "InvalidArgument"
    ELSE IF p \notin DOMAIN inodes THEN "NotFound"
    ELSE IF n \in SlashNames THEN "InvalidArgument"
    ELSE IF <<p, n>> \in DOMAIN dirents THEN "AlreadyExists"
    ELSE "OK"

\* The checks of the handler, in its order.
CreateCheck(p, n) ==
    IF p = NoId \/ n = NoName THEN "InvalidArgument"
    ELSE IF p \notin DOMAIN inodes THEN "NotFound"
    ELSE IF ~inodes[p].isDir THEN "FailedPrecondition"
    ELSE IF n \in SlashNames THEN "InvalidArgument"
    ELSE IF <<p, n>> \in DOMAIN dirents THEN "AlreadyExists"
    ELSE "OK"

\* mutant: ids are numbered by the size of the inode table.
CountedInodeId == Cardinality(DOMAIN inodes)

\* "inode-<UnixNano>"
NewInodeId == clock

CreateInMemory(id, inode) ==
    LET entered == With(dirents, <<inode.parent, inode.name>>, id)
    IN  /\ inodes' = With(inodes, id, inode)
        /\ dirents' = IF inode.isDir THEN Without(entered, Under(entered, id))
                                     ELSE entered
        /\ dirMaps' = dirMaps \cup {inode.parent}
                              \cup (IF inode.isDir THEN {id} ELSE {})
        /\ rr' = NextStart

\* mutant: only the inode is stored, its directory entry is forgotten.
PersistCreateInodeOnly(id, inode) ==
    /\ boltInodes' = With(boltInodes, id, inode)
    /\ UNCHANGED boltDirents

PersistCreate(id, inode) ==
    /\ boltInodes' = With(boltInodes, id, inode)
    /\ boltDirents' = With(boltDirents, <<inode.parent, inode.name>>, id)

Create(p, n, d) ==
    LET id == NewInodeId
        inode == NewInode(p, n, d)
    IN  /\ up
        /\ CreateCheck(p, n) = "OK"
        /\ clock <= MaxClock
        /\ clock' = clock + 1
        /\ CreateInMemory(id, inode)
        /\ PersistCreate(id, inode)
        /\ Answer("Create", <<p, n, d>>, "OK", {id})
        /\ acked' = With(acked, <<p, n>>, id)
        /\ UNCHANGED <<up, removed>>

\* The transaction fails: memory keeps the new inode, BoltDB does not have it.
CreateNotPersisted(p, n, d) ==
    /\ up /\ PersistMayFail
    /\ CreateCheck(p, n) = "OK"
    /\ clock <= MaxClock
    /\ clock' = clock + 1
    /\ CreateInMemory(NewInodeId, NewInode(p, n, d))
    /\ Answer("Create", <<p, n, d>>, "Internal", {})
    /\ UNCHANGED <<up, disk, history>>

\* The process dies between the commit and the answer.
CreateThenCrash(p, n, d) ==
    /\ up
    /\ CreateCheck(p, n) = "OK"
    /\ clock <= MaxClock
    /\ clock' = clock + 1
    /\ PersistCreate(NewInodeId, NewInode(p, n, d))
    /\ LoseMemory
    /\ UNCHANGED history

CreateRefused(p, n, d) ==
    /\ up
    /\ CreateCheck(p, n) # "OK"
    /\ Answer("Create", <<p, n, d>>, CreateCheck(p, n), {})
    /\ UNCHANGED <<up, memory, disk, clock, history>>

-----------------------------------------------------------------------------
(* Unlink.                                                                 *)

\* mutant: a directory is removed with what is in it.
UnlinkCheckAllowsFull(p, n) ==
    IF p \notin dirMaps THEN "NotFound"
    ELSE IF \/ <<p, n>> \notin DOMAIN dirents
            \/ dirents[<<p, n>>] \notin DOMAIN inodes THEN "NotDeleted"
    ELSE "Deleted"

\* The checks of the handler, in its order; Deleted is the answer to come.
UnlinkCheck(p, n) ==
    IF p \notin dirMaps THEN "NotFound"
    ELSE IF \/ <<p, n>> \notin DOMAIN dirents
            \/ dirents[<<p, n>>] \notin DOMAIN inodes THEN "NotDeleted"
    ELSE LET id == dirents[<<p, n>>]
         IN  IF inodes[id].isDir /\ Under(dirents, id) # {}
             THEN "FailedPrecondition" ELSE "Deleted"

UnlinkInMemory(p, n, id) ==
    /\ dirents' = Without(dirents, {<<p, n>>} \cup Under(dirents, id))
    /\ inodes' = Without(inodes, {id})
    /\ dirMaps' = dirMaps \ {id}
    /\ UNCHANGED rr

\* mutant: the inode goes, its directory entry stays.
PersistUnlinkInodeOnly(p, n, id) ==
    /\ boltInodes' = Without(boltInodes, {id})
    /\ UNCHANGED boltDirents

\* mutant: the directory entry goes, the inode stays.
PersistUnlinkEntryOnly(p, n, id) ==
    /\ boltDirents' = Without(boltDirents, {<<p, n>>})
    /\ UNCHANGED boltInodes

PersistUnlink(p, n, id) ==
    /\ boltInodes' = Without(boltInodes, {id})
    /\ boltDirents' = Without(boltDirents, {<<p, n>>})

Unlink(p, n) ==
    /\ up
    /\ UnlinkCheck(p, n) = "Deleted"
    /\ LET id == dirents[<<p, n>>]
       IN  /\ UnlinkInMemory(p, n, id)
           /\ PersistUnlink(p, n, id)
           /\ Answer("Unlink", <<p, n>>, "Deleted", {id})
           /\ removed' = removed \cup {id}
    /\ acked' = Without(acked, {<<p, n>>})
    /\ UNCHANGED <<up, clock>>

\* The transaction fails: memory has forgotten the inode, BoltDB has not.
UnlinkNotPersisted(p, n) ==
    /\ up /\ PersistMayFail
    /\ UnlinkCheck(p, n) = "Deleted"
    /\ UnlinkInMemory(p, n, dirents[<<p, n>>])
    /\ Answer("Unlink", <<p, n>>, "Internal", {})
    /\ acked' = Without(acked, {<<p, n>>})
    /\ UNCHANGED <<up, disk, clock, removed>>

\* The process dies between the commit and the answer.
UnlinkThenCrash(p, n) ==
    /\ up
    /\ UnlinkCheck(p, n) = "Deleted"
    /\ PersistUnlink(p, n, dirents[<<p, n>>])
    /\ LoseMemory
    /\ acked' = Without(acked, {<<p, n>>})
    /\ UNCHANGED <<clock, removed>>

UnlinkRefused(p, n) ==
    /\ up
    /\ UnlinkCheck(p, n) # "Deleted"
    /\ Answer("Unlink", <<p, n>>, UnlinkCheck(p, n), {})
    /\ UNCHANGED <<up, memory, disk, clock, history>>

-----------------------------------------------------------------------------
(* The reading handlers.                                                   *)

\* An entry whose inode is missing is answered OK with no inode: ids = {}.
Lookup(p, n) ==
    /\ up
    /\ IF p \in dirMaps /\ <<p, n>> \in DOMAIN dirents
       THEN Answer("Lookup", <<p, n>>, "OK",
                   {dirents[<<p, n>>]} \cap DOMAIN inodes)
       ELSE Answer("Lookup", <<p, n>>, "NotFound", {})
    /\ UNCHANGED <<up, memory, disk, clock, history>>

Stat(i) ==
    /\ up
    /\ IF i \in DOMAIN inodes THEN Answer("Stat", <<i>>, "OK", {i})
                              ELSE Answer("Stat", <<i>>, "NotFound", {})
    /\ UNCHANGED <<up, memory, disk, clock, history>>

\* The code sorts the entries by name; here they are a set.
ListDir(i) ==
    /\ up
    /\ IF i \in dirMaps
       THEN Answer("ListDir", <<i>>, "OK",
                   {dirents[k] : k \in Under(dirents, i)} \cap DOMAIN inodes)
       ELSE Answer("ListDir", <<i>>, "NotFound", {})
    /\ UNCHANGED <<up, memory, disk, clock, history>>

-----------------------------------------------------------------------------
(* Clients may ask for any id and any name, the empty ones included.       *)

AskedIds   == InodeIds \cup {NoId}
AskedNames == Names \cup {NoName}

CreateStep ==
    \E p \in AskedIds, n \in AskedNames, d \in BOOLEAN :
        \/ Create(p, n, d)
        \/ CreateNotPersisted(p, n, d)
        \/ CreateThenCrash(p, n, d)
        \/ CreateRefused(p, n, d)

UnlinkStep ==
    \E p \in AskedIds, n \in AskedNames :
        \/ Unlink(p, n)
        \/ UnlinkNotPersisted(p, n)
        \/ UnlinkThenCrash(p, n)
        \/ UnlinkRefused(p, n)

ReadStep ==
    \/ \E p \in AskedIds, n \in AskedNames : Lookup(p, n)
    \/ \E i \in AskedIds : Stat(i) \/ ListDir(i)

Next == Start \/ Crash \/ CreateStep \/ UnlinkStep \/ ReadStep

Spec == Init /\ [][Next]_vars

-----------------------------------------------------------------------------
(* Types.                                                                  *)

Inode == [parent : InodeIds \cup {NoId}, name : Names, isDir : BOOLEAN,
          layout : Seq(Range(OstIds))]
Entry == InodeIds \X Names

PartialFun(f, D, R) == DOMAIN f \subseteq D /\ f \in [DOMAIN f -> R]

Codes == {"OK", "Deleted", "NotDeleted", "NotFound", "AlreadyExists",
          "InvalidArgument", "FailedPrecondition", "Internal", "Unavailable"}

\* Type invariant of the service, its store and the history.
TypeOK ==
    /\ up \in BOOLEAN
    /\ PartialFun(inodes, InodeIds, Inode)
    /\ PartialFun(dirents, Entry, InodeIds)
    /\ dirMaps \subseteq InodeIds
    /\ rr \in 0..(NumOsts - 1)
    /\ PartialFun(boltInodes, InodeIds, Inode)
    /\ PartialFun(boltDirents, Entry, InodeIds)
    /\ clock \in 1..(MaxClock + 1)
    /\ reply.code \in Codes /\ reply.ids \subseteq InodeIds
    /\ PartialFun(acked, Entry, InodeIds)
    /\ removed \subseteq InodeIds

-----------------------------------------------------------------------------
(* Safety.                                                                 *)

Leads(entries, table) ==
    \A k \in DOMAIN entries :
        /\ entries[k] \in DOMAIN table
        /\ table[entries[k]].parent = k[1]
        /\ table[entries[k]].name = k[2]

\* Every directory entry, in memory and in BoltDB, leads to an inode that
\* knows itself by that parent and name: Lookup (service.go:219) never answers
\* OK with no inode, even after failed transactions and restarts.
NoDangling == Leads(dirents, inodes) /\ Leads(boltDirents, boltInodes)

\* A Create that was answered OK stays: its entry and inode are in BoltDB
\* and, while the process serves, in memory, whatever transactions failed
\* around it (the parent's own Create included) and however often the process
\* was restarted, until a client asks for its removal.
AckedDurable ==
    \A k \in DOMAIN acked :
        /\ k \in DOMAIN boltDirents /\ boltDirents[k] = acked[k]
        /\ acked[k] \in DOMAIN boltInodes
        /\ up => /\ k \in DOMAIN dirents /\ dirents[k] = acked[k]
                 /\ acked[k] \in DOMAIN inodes

\* README.md:10, "Metadata service (`Create`, `Lookup`, ...) with BoltDB persistence": a
\* Create that was answered OK can be looked up from the root on, for its directory is
\* the root or has an entry.  The code does not keep it: a directory whose own Create was
\* answered Internal is served from memory until the next restart (service.go:192-200),
\* and what was created in it is then stored under nothing.
Entered(d)     == d = Root \/ \E k \in DOMAIN dirents : dirents[k] = d
AckedReachable == up => \A k \in DOMAIN acked : Entered(k[1])

\* An inode whose Unlink was answered Deleted never comes back, neither
\* served from memory nor out of BoltDB after a restart.
RemovedStaysGone ==
    \A id \in removed :
        /\ id \notin DOMAIN inodes \cup DOMAIN boltInodes
        /\ \A k \in DOMAIN dirents : dirents[k] # id
        /\ \A k \in DOMAIN boltDirents : boltDirents[k] # id

\* A stored inode is never overwritten by another one: what an inode id
\* stands for (the file_id of the OST calls) does not change.
InodesNotOverwritten ==
    [][\A id \in DOMAIN boltInodes \cap DOMAIN boltInodes' :
           boltInodes'[id] = boltInodes[id]]_vars

\* With a store that never fails, memory and BoltDB hold the same namespace
\* between any two requests, so a restart changes no inode and no entry.
Mirror == up => inodes = boltInodes /\ dirents = boltDirents

\* With a store that never fails, the stored namespace is one tree: every inode
\* but the root is entered in its parent under its name, and the parent is an
\* older directory, so that every parent chain ends at the root.
Rooted ==
    \A id \in DOMAIN boltInodes \ {Root} :
        LET inode == boltInodes[id]
            key == <<inode.parent, inode.name>>
        IN  /\ inode.parent \in DOMAIN boltInodes
            /\ boltInodes[inode.parent].isDir
            /\ inode.parent < id
            /\ key \in DOMAIN boltDirents /\ boltDirents[key] = id

\* The root is always there to be used: its inode is never removed nor
\* overwritten, and it can be listed even when it is empty at a restart
\* (service.go:119-124).
RootServed == up => inodes[Root] = RootInode /\ Root \in dirMaps

\* docs/api-contracts.md:10, "ListDir: list entries under a directory inode":
\* every directory inode that is served can be listed.  The code does not keep
\* it: a directory other than the root that is empty when the process restarts
\* has lost its entry map (service.go:104-117).
DirectoriesListable ==
    \A id \in DOMAIN inodes : inodes[id].isDir => id \in dirMaps
=============================================================================
