----------------------------- MODULE MDSProofs -----------------------------
(***************************************************************************)
(* Proofs about the metadata service, for every set of names, every list   *)
(* of OSTs and every number of Create calls: what BoltDB and memory hold   *)
(* whatever fails; and, with a store that never fails, that both hold the  *)
(* same tree and the service implements Namespace.                         *)
(***************************************************************************)
EXTENDS MDSClock, MDSNamespace, SequenceTheorems, TLAPS

-----------------------------------------------------------------------------
(* Partial functions.                                                      *)

\* With stays within its types and changes the map at one place.
LEMMA WithFacts ==
    ASSUME NEW D, NEW R, NEW f, PartialFun(f, D, R), NEW k \in D, NEW v \in R
    PROVE  /\ PartialFun(With(f, k, v), D, R)
           /\ DOMAIN With(f, k, v) = DOMAIN f \cup {k}
           /\ With(f, k, v)[k] = v
           /\ \A x \in DOMAIN f : x # k => With(f, k, v)[x] = f[x]
  BY DEF PartialFun, With

\* Without stays within its types and keeps what it does not drop.
LEMMA WithoutFacts ==
    ASSUME NEW D, NEW R, NEW f, PartialFun(f, D, R), NEW K
    PROVE  /\ PartialFun(Without(f, K), D, R)
           /\ DOMAIN Without(f, K) = DOMAIN f \ K
           /\ \A x \in DOMAIN f \ K : Without(f, K)[x] = f[x]
  BY DEF PartialFun, Without, Restrict

LEMMA EmptyFacts ==
    ASSUME NEW D, NEW R
    PROVE  PartialFun(Empty, D, R) /\ DOMAIN Empty = {}
  BY DEF PartialFun, Empty

-----------------------------------------------------------------------------
(* Layouts.                                                                *)

LEMMA NumOstsFacts == NumOsts \in Nat /\ NumOsts > 0
  BY OstIdsAssumption DEF NumOsts

LEMMA LayoutType ==
    ASSUME NEW s \in Nat
    PROVE  Layout(s) \in Seq(Range(OstIds))
  <1> DEFINE pos(i) == ((s + i - 1) % NumOsts) + 1
  <1>1. OstIds \in [1..NumOsts -> Range(OstIds)]
    BY OstIdsAssumption DEF NumOsts
  <1>2. \A i \in 1..NumOsts : pos(i) \in 1..NumOsts
    <2> TAKE i \in 1..NumOsts
    <2>1. s + i - 1 \in Nat
      BY NumOstsFacts
    <2>2. (s + i - 1) % NumOsts \in 0..(NumOsts - 1)
      BY <2>1, NumOstsFacts
    <2> QED
      BY <2>2, NumOstsFacts
  <1>3. \A i \in 1..NumOsts : OstIds[pos(i)] \in Range(OstIds)
    BY <1>1, <1>2
  <1>4. [i \in 1..NumOsts |-> OstIds[pos(i)]] \in [1..NumOsts -> Range(OstIds)]
    BY <1>3
  <1> QED
    BY <1>4, NumOstsFacts, SeqDef DEF Layout

LEMMA InodeTypes ==
    /\ RootInode \in Inode
    /\ \A p \in InodeIds, n \in Names, d \in BOOLEAN :
           rr \in 0..(NumOsts - 1) => NewInode(p, n, d) \in Inode
  <1>1. Layout(0) \in Seq(Range(OstIds))
    BY LayoutType
  <1>2. RootInode \in Inode
    BY <1>1, NamesAssumption DEF RootInode, Inode, NoId, InodeIds
  <1>3. ASSUME NEW p \in InodeIds, NEW n \in Names, NEW d \in BOOLEAN,
               rr \in 0..(NumOsts - 1)
        PROVE  NewInode(p, n, d) \in Inode
    <2>1. Layout(rr) \in Seq(Range(OstIds))
      BY <1>3, LayoutType, NumOstsFacts
    <2> QED
      BY <1>1, <2>1 DEF NewInode, Inode
  <1> QED
    BY <1>2, <1>3

-----------------------------------------------------------------------------
(* Type correctness.                                                       *)

\* Any request that passes the checks names an inode id and a legal name.
LEMMA AcceptedCreate ==
    ASSUME TypeOK, NEW p, NEW n \in AskedNames, CreateCheck(p, n) = "OK"
    PROVE  /\ p \in DOMAIN inodes /\ p \in InodeIds /\ inodes[p].isDir
           /\ n \in Names /\ <<p, n>> \in Entry
           /\ <<p, n>> \notin DOMAIN dirents
  BY DEF TypeOK, CreateCheck, AskedNames, PartialFun, Entry

LEMMA AcceptedUnlink ==
    ASSUME TypeOK, NEW p, NEW n, UnlinkCheck(p, n) = "Deleted"
    PROVE  /\ <<p, n>> \in DOMAIN dirents
           /\ dirents[<<p, n>>] \in DOMAIN inodes
           /\ dirents[<<p, n>>] \in InodeIds
           /\ \/ ~inodes[dirents[<<p, n>>]].isDir
              \/ Under(dirents, dirents[<<p, n>>]) = {}
  BY DEF TypeOK, UnlinkCheck, PartialFun

LEMMA AnswerType ==
    ASSUME NEW op, NEW arg, NEW code \in Codes, NEW ids \in SUBSET InodeIds,
           Answer(op, arg, code, ids)
    PROVE  reply'.code \in Codes /\ reply'.ids \subseteq InodeIds
  BY DEF Answer

LEMMA ClockIsId == clock \in 1..(MaxClock + 1) /\ clock <= MaxClock => NewInodeId \in InodeIds
  BY ClockAssumption DEF NewInodeId, InodeIds

LEMMA CreateInMemoryType ==
    ASSUME TypeOK, NEW id \in InodeIds, NEW inode \in Inode,
           inode.parent \in InodeIds, CreateInMemory(id, inode)
    PROVE  /\ PartialFun(inodes, InodeIds, Inode)'
           /\ PartialFun(dirents, Entry, InodeIds)'
           /\ (dirMaps \subseteq InodeIds)'
           /\ (rr \in 0..(NumOsts - 1))'
  <1> DEFINE entered == With(dirents, <<inode.parent, inode.name>>, id)
  <1>1. PartialFun(inodes', InodeIds, Inode)
    BY WithFacts DEF TypeOK, CreateInMemory
  <1>2. <<inode.parent, inode.name>> \in Entry
    BY DEF Entry, Inode
  <1>3. PartialFun(entered, Entry, InodeIds)
    <2>1. PartialFun(dirents, Entry, InodeIds)
      BY DEF TypeOK
    <2> QED
      BY <2>1, <1>2, WithFacts
  <1>4. PartialFun(Without(entered, Under(entered, id)), Entry, InodeIds)
    <2> HIDE DEF entered
    <2> QED
      BY <1>3, WithoutFacts
  <1>5. PartialFun(dirents', Entry, InodeIds)
    BY <1>3, <1>4 DEF CreateInMemory
  <1>6. dirMaps' \subseteq InodeIds
    BY DEF TypeOK, CreateInMemory
  <1>7. rr' \in 0..(NumOsts - 1)
    BY NumOstsFacts DEF TypeOK, CreateInMemory, NextStart
  <1> QED
    BY <1>1, <1>5, <1>6, <1>7 DEF PartialFun

LEMMA PersistCreateType ==
    ASSUME TypeOK, NEW id \in InodeIds, NEW inode \in Inode,
           inode.parent \in InodeIds, PersistCreate(id, inode)
    PROVE  /\ PartialFun(boltInodes, InodeIds, Inode)'
           /\ PartialFun(boltDirents, Entry, InodeIds)'
  <1>1. <<inode.parent, inode.name>> \in Entry
    BY DEF Entry, Inode
  <1>2. PartialFun(boltInodes', InodeIds, Inode)
    BY WithFacts DEF TypeOK, PersistCreate
  <1>3. PartialFun(boltDirents', Entry, InodeIds)
    BY <1>1, WithFacts DEF TypeOK, PersistCreate
  <1> QED
    BY <1>2, <1>3 DEF PartialFun

LEMMA UnlinkInMemoryType ==
    ASSUME TypeOK, NEW p, NEW n, NEW id, UnlinkInMemory(p, n, id)
    PROVE  /\ PartialFun(inodes, InodeIds, Inode)'
           /\ PartialFun(dirents, Entry, InodeIds)'
           /\ (dirMaps \subseteq InodeIds)'
           /\ (rr \in 0..(NumOsts - 1))'
  <1>1. PartialFun(inodes', InodeIds, Inode)
    BY WithoutFacts DEF TypeOK, UnlinkInMemory
  <1>2. PartialFun(dirents', Entry, InodeIds)
    BY WithoutFacts DEF TypeOK, UnlinkInMemory
  <1> QED
    BY <1>1, <1>2 DEF TypeOK, UnlinkInMemory, PartialFun

LEMMA PersistUnlinkType ==
    ASSUME TypeOK, NEW p, NEW n, NEW id, PersistUnlink(p, n, id)
    PROVE  /\ PartialFun(boltInodes, InodeIds, Inode)'
           /\ PartialFun(boltDirents, Entry, InodeIds)'
  <1>1. PartialFun(boltInodes', InodeIds, Inode)
    BY WithoutFacts DEF TypeOK, PersistUnlink
  <1>2. PartialFun(boltDirents', Entry, InodeIds)
    BY WithoutFacts DEF TypeOK, PersistUnlink
  <1> QED
    BY <1>1, <1>2 DEF PartialFun

LEMMA LoseMemoryType ==
    ASSUME LoseMemory
    PROVE  /\ (up \in BOOLEAN)'
           /\ PartialFun(inodes, InodeIds, Inode)'
           /\ PartialFun(dirents, Entry, InodeIds)'
           /\ (dirMaps \subseteq InodeIds)'
           /\ (rr \in 0..(NumOsts - 1))'
           /\ (reply.code \in Codes /\ reply.ids \subseteq InodeIds)'
  <1>1. up' \in BOOLEAN
    BY DEF LoseMemory
  <1>2. PartialFun(inodes', InodeIds, Inode) /\ PartialFun(dirents', Entry, InodeIds)
    BY EmptyFacts DEF LoseMemory
  <1>3. dirMaps' \subseteq InodeIds /\ rr' \in 0..(NumOsts - 1)
    BY NumOstsFacts DEF LoseMemory
  <1>4. reply'.code \in Codes /\ reply'.ids \subseteq InodeIds
    BY DEF LoseMemory, Down, Codes
  <1> QED
    BY <1>1, <1>2, <1>3, <1>4 DEF PartialFun

LEMMA StartType == TypeOK /\ Start => TypeOK'
  <1> SUFFICES ASSUME TypeOK, Start PROVE TypeOK'
    OBVIOUS
  <1>1. Root \in InodeIds
    BY ClockAssumption DEF Root, InodeIds
  <1>2. {k[1] : k \in DOMAIN boltDirents} \cup {Root} \subseteq InodeIds
    BY <1>1 DEF TypeOK, PartialFun, Entry
  <1>3. /\ PartialFun(inodes, InodeIds, Inode)'
        /\ PartialFun(boltInodes, InodeIds, Inode)'
    <2>1. CASE LoadExisting
      BY <2>1 DEF LoadExisting, disk, TypeOK, PartialFun
    <2>2. CASE InitRoot
      <3>1. PartialFun(With(boltInodes, Root, RootInode), InodeIds, Inode)
        BY <1>1, InodeTypes, WithFacts DEF TypeOK
      <3> QED
        BY <2>2, <3>1 DEF InitRoot, PartialFun
    <2> QED
      BY <2>1, <2>2 DEF Start
  <1>4. /\ PartialFun(dirents, Entry, InodeIds)'
        /\ PartialFun(boltDirents, Entry, InodeIds)'
        /\ (dirMaps \subseteq InodeIds)'
    <2>1. CASE LoadExisting
      BY <1>2, <2>1 DEF LoadExisting, disk, TypeOK, PartialFun
    <2>2. CASE InitRoot
      <3>1. PartialFun(Without(boltDirents, Under(boltDirents, Root)), Entry, InodeIds)
        BY WithoutFacts DEF TypeOK
      <3> QED
        BY <1>2, <2>2, <3>1 DEF InitRoot, TypeOK, PartialFun
    <2> QED
      BY <2>1, <2>2 DEF Start
  <1>5. /\ (up \in BOOLEAN)'
        /\ (rr \in 0..(NumOsts - 1))'
        /\ (clock \in 1..(MaxClock + 1))'
        /\ (reply.code \in Codes /\ reply.ids \subseteq InodeIds)'
        /\ PartialFun(acked, Entry, InodeIds)'
        /\ (removed \subseteq InodeIds)'
    BY NumOstsFacts DEF TypeOK, Start, history, PartialFun
  <1> QED
    BY <1>3, <1>4, <1>5 DEF TypeOK

LEMMA CreateType ==
    ASSUME TypeOK, NEW p, NEW n \in AskedNames, NEW d \in BOOLEAN,
           \/ Create(p, n, d)
           \/ CreateNotPersisted(p, n, d)
           \/ CreateThenCrash(p, n, d)
           \/ CreateRefused(p, n, d)
    PROVE  TypeOK'
  <1> DEFINE id == NewInodeId
             inode == NewInode(p, n, d)
  <1>1. CASE CreateCheck(p, n) = "OK" /\ clock <= MaxClock
    <2>1. p \in InodeIds /\ n \in Names /\ <<p, n>> \in Entry
      BY <1>1, AcceptedCreate
    <2>2. id \in InodeIds
      BY <1>1, ClockIsId DEF TypeOK
    <2>3. inode \in Inode /\ inode.parent \in InodeIds
      BY <2>1, InodeTypes DEF TypeOK, NewInode
    <2>4. clock + 1 \in 1..(MaxClock + 1)
      BY <1>1, ClockAssumption DEF TypeOK
    <2> HIDE DEF id, inode
    <2>5. CASE Create(p, n, d)
      <3>1. CreateInMemory(id, inode) /\ PersistCreate(id, inode)
        BY <2>5 DEF Create, id, inode
      <3>2. /\ PartialFun(inodes, InodeIds, Inode)'
            /\ PartialFun(dirents, Entry, InodeIds)'
            /\ (dirMaps \subseteq InodeIds)'
            /\ (rr \in 0..(NumOsts - 1))'
        BY <2>2, <2>3, <3>1, CreateInMemoryType
      <3>3. /\ PartialFun(boltInodes, InodeIds, Inode)'
            /\ PartialFun(boltDirents, Entry, InodeIds)'
        BY <2>2, <2>3, <3>1, PersistCreateType
      <3>4. reply'.code \in Codes /\ reply'.ids \subseteq InodeIds
        <4>1. Answer("Create", <<p, n, d>>, "OK", {id}) /\ "OK" \in Codes
          BY <2>5 DEF Create, id, Codes
        <4> QED
          BY <2>2, <4>1 DEF Answer
      <3>5. PartialFun(acked', Entry, InodeIds)
        <4>1. acked' = With(acked, <<p, n>>, id)
          BY <2>5 DEF Create, id
        <4> QED
          BY <2>1, <2>2, <4>1, WithFacts DEF TypeOK
      <3>6. up' \in BOOLEAN /\ clock' \in 1..(MaxClock + 1) /\ removed' \subseteq InodeIds
        BY <2>4, <2>5 DEF Create, TypeOK
      <3> QED
        BY <3>2, <3>3, <3>4, <3>5, <3>6 DEF TypeOK, PartialFun
    <2>6. CASE CreateNotPersisted(p, n, d)
      <3>1. CreateInMemory(id, inode)
        BY <2>6 DEF CreateNotPersisted, id, inode
      <3>2. /\ PartialFun(inodes, InodeIds, Inode)'
            /\ PartialFun(dirents, Entry, InodeIds)'
            /\ (dirMaps \subseteq InodeIds)'
            /\ (rr \in 0..(NumOsts - 1))'
        BY <2>2, <2>3, <3>1, CreateInMemoryType
      <3>3. reply'.code \in Codes /\ reply'.ids \subseteq InodeIds
        BY <2>6 DEF CreateNotPersisted, Answer, Codes
      <3> QED
        BY <2>4, <2>6, <3>2, <3>3
        DEF CreateNotPersisted, TypeOK, PartialFun, disk, history
    <2>7. CASE CreateThenCrash(p, n, d)
      <3>1. PersistCreate(id, inode) /\ LoseMemory
        BY <2>7 DEF CreateThenCrash, id, inode
      <3>2. /\ PartialFun(boltInodes, InodeIds, Inode)'
            /\ PartialFun(boltDirents, Entry, InodeIds)'
        BY <2>2, <2>3, <3>1, PersistCreateType
      <3> QED
        BY <2>4, <2>7, <3>1, <3>2, LoseMemoryType
        DEF CreateThenCrash, TypeOK, PartialFun, history
    <2>8. CASE CreateRefused(p, n, d)
      BY <1>1, <2>8 DEF CreateRefused
    <2> QED
      BY <2>5, <2>6, <2>7, <2>8
  <1>2. CASE CreateRefused(p, n, d)
    <2>1. CreateCheck(p, n) \in Codes
      BY DEF CreateCheck, Codes
    <2>2. reply'.code \in Codes /\ reply'.ids \subseteq InodeIds
      BY <1>2, <2>1 DEF CreateRefused, Answer
    <2> QED
      BY <1>2, <2>2
      DEF CreateRefused, TypeOK, PartialFun, memory, disk, history
  <1> QED
    BY <1>1, <1>2 DEF Create, CreateNotPersisted, CreateThenCrash

LEMMA UnlinkType ==
    ASSUME TypeOK, NEW p, NEW n,
           \/ Unlink(p, n)
           \/ UnlinkNotPersisted(p, n)
           \/ UnlinkThenCrash(p, n)
           \/ UnlinkRefused(p, n)
    PROVE  TypeOK'
  <1> DEFINE id == dirents[<<p, n>>]
  <1>1. PartialFun(Without(acked, {<<p, n>>}), Entry, InodeIds)
    BY WithoutFacts DEF TypeOK
  <1>2. CASE Unlink(p, n)
    <2>1. UnlinkInMemory(p, n, id) /\ PersistUnlink(p, n, id) /\ id \in InodeIds
      BY <1>2, AcceptedUnlink DEF Unlink
    <2>2. reply'.code \in Codes /\ reply'.ids \subseteq InodeIds
      BY <1>2, <2>1 DEF Unlink, Answer, Codes
    <2>3. removed' \subseteq InodeIds
      BY <1>2, <2>1 DEF Unlink, TypeOK
    <2>4. PartialFun(acked', Entry, InodeIds)
      BY <1>1, <1>2 DEF Unlink
    <2> HIDE DEF id
    <2>5. /\ PartialFun(inodes, InodeIds, Inode)'
          /\ PartialFun(dirents, Entry, InodeIds)'
          /\ (dirMaps \subseteq InodeIds)'
          /\ (rr \in 0..(NumOsts - 1))'
      BY <2>1, UnlinkInMemoryType
    <2>6. /\ PartialFun(boltInodes, InodeIds, Inode)'
          /\ PartialFun(boltDirents, Entry, InodeIds)'
      BY <2>1, PersistUnlinkType
    <2> QED
      BY <1>2, <2>2, <2>3, <2>4, <2>5, <2>6 DEF Unlink, TypeOK, PartialFun
  <1>3. CASE UnlinkNotPersisted(p, n)
    <2>1. UnlinkInMemory(p, n, id)
      BY <1>3 DEF UnlinkNotPersisted
    <2>2. reply'.code \in Codes /\ reply'.ids \subseteq InodeIds
      BY <1>3 DEF UnlinkNotPersisted, Answer, Codes
    <2>3. PartialFun(acked', Entry, InodeIds)
      BY <1>1, <1>3 DEF UnlinkNotPersisted
    <2> HIDE DEF id
    <2>4. /\ PartialFun(inodes, InodeIds, Inode)'
          /\ PartialFun(dirents, Entry, InodeIds)'
          /\ (dirMaps \subseteq InodeIds)'
          /\ (rr \in 0..(NumOsts - 1))'
      BY <2>1, UnlinkInMemoryType
    <2> QED
      BY <1>3, <2>2, <2>3, <2>4 DEF UnlinkNotPersisted, TypeOK, PartialFun, disk
  <1>4. CASE UnlinkThenCrash(p, n)
    <2>1. PersistUnlink(p, n, id) /\ LoseMemory
      BY <1>4 DEF UnlinkThenCrash
    <2>2. PartialFun(acked', Entry, InodeIds)
      BY <1>1, <1>4 DEF UnlinkThenCrash
    <2> HIDE DEF id
    <2>3. /\ PartialFun(boltInodes, InodeIds, Inode)'
          /\ PartialFun(boltDirents, Entry, InodeIds)'
      BY <2>1, PersistUnlinkType
    <2> QED
      BY <1>4, <2>1, <2>2, <2>3, LoseMemoryType DEF UnlinkThenCrash, TypeOK, PartialFun
  <1>5. CASE UnlinkRefused(p, n)
    <2>1. UnlinkCheck(p, n) \in Codes
      BY DEF UnlinkCheck, Codes
    <2>2. reply'.code \in Codes /\ reply'.ids \subseteq InodeIds
      BY <1>5, <2>1 DEF UnlinkRefused, Answer
    <2> QED
      BY <1>5, <2>2 DEF UnlinkRefused, TypeOK, PartialFun, memory, disk, history
  <1> QED
    BY <1>2, <1>3, <1>4, <1>5

LEMMA ReadType == TypeOK /\ ReadStep => TypeOK'
  <1> SUFFICES ASSUME TypeOK, ReadStep PROVE TypeOK'
    OBVIOUS
  <1>1. reply'.code \in Codes /\ reply'.ids \subseteq InodeIds
    <2>1. DOMAIN inodes \subseteq InodeIds
      BY DEF TypeOK, PartialFun
    <2>2. ASSUME NEW p, NEW n, Lookup(p, n)
          PROVE  reply'.code \in Codes /\ reply'.ids \subseteq InodeIds
      BY <2>1, <2>2 DEF Lookup, Answer, Codes
    <2>3. ASSUME NEW i, Stat(i) \/ ListDir(i)
          PROVE  reply'.code \in Codes /\ reply'.ids \subseteq InodeIds
      BY <2>1, <2>3 DEF Stat, ListDir, Answer, Codes
    <2> QED
      BY <2>2, <2>3 DEF ReadStep
  <1>2. UNCHANGED <<up, memory, disk, clock, history>>
    BY DEF ReadStep, Lookup, Stat, ListDir
  <1> QED
    BY <1>1, <1>2 DEF TypeOK, PartialFun, memory, disk, history

LEMMA InitTypes == Init => TypeOK
  <1> SUFFICES ASSUME Init PROVE TypeOK
    OBVIOUS
  <1>1. /\ PartialFun(inodes, InodeIds, Inode)
        /\ PartialFun(dirents, Entry, InodeIds)
        /\ PartialFun(boltInodes, InodeIds, Inode)
        /\ PartialFun(boltDirents, Entry, InodeIds)
        /\ PartialFun(acked, Entry, InodeIds)
    BY EmptyFacts DEF Init
  <1>2. up \in BOOLEAN /\ dirMaps \subseteq InodeIds /\ removed \subseteq InodeIds
    BY DEF Init
  <1>3. rr \in 0..(NumOsts - 1) /\ clock \in 1..(MaxClock + 1)
    <2>1. rr = 0 /\ clock = 1
      BY DEF Init
    <2> QED
      BY <2>1, NumOstsFacts, ClockAssumption
  <1>4. reply.code \in Codes /\ reply.ids \subseteq InodeIds
    BY DEF Init, Down, Codes
  <1> QED
    BY <1>1, <1>2, <1>3, <1>4 DEF TypeOK

LEMMA StepTypes == TypeOK /\ [SteppedNext]_vars => TypeOK'
  <1> SUFFICES ASSUME TypeOK, [SteppedNext]_vars PROVE TypeOK'
    OBVIOUS
  <1>1. CASE Start
    BY <1>1, StartType
  <1>2. CASE Crash
    BY <1>2, LoseMemoryType DEF Crash, TypeOK, PartialFun, disk, history
  <1>3. CASE SetClockBack
    BY <1>3, ClockAssumption
    DEF SetClockBack, TypeOK, PartialFun, memory, disk, history
  <1>4. CASE CreateStep
    BY <1>4, CreateType DEF CreateStep
  <1>5. CASE UnlinkStep
    BY <1>5, UnlinkType DEF UnlinkStep
  <1>6. CASE ReadStep
    BY <1>6, ReadType
  <1>7. CASE UNCHANGED vars
    BY <1>7 DEF vars, TypeOK, PartialFun, memory, disk, history
  <1> QED
    BY <1>1, <1>2, <1>3, <1>4, <1>5, <1>6, <1>7 DEF SteppedNext, Next

\* The memory of the service, its two buckets and the history keep their types
\* (the state of service.go:34-44 and of the buckets of service.go:22-24).
THEOREM TypeCorrect == Spec => []TypeOK
  <1>1. TypeOK /\ [Next]_vars => TypeOK'
    BY StepTypes DEF SteppedNext
  <1> QED
    BY <1>1, InitTypes, PTL DEF Spec

LEMMA SteppedTypes == SteppedSpec => []TypeOK
  BY InitTypes, StepTypes, PTL DEF SteppedSpec

-----------------------------------------------------------------------------
(* The root.                                                               *)

\* Why the root survives: no entry ever leads to it, so no Unlink can take it,
\* and Create never draws its id, so nothing overwrites it.  A store without a
\* root has no entries at all.
RootInv ==
    /\ Root \in DOMAIN boltInodes => boltInodes[Root] = RootInode
    /\ Root \notin DOMAIN boltInodes => DOMAIN boltDirents = {}
    /\ up => /\ Root \in DOMAIN boltInodes
             /\ Root \in DOMAIN inodes /\ inodes[Root] = RootInode
             /\ Root \in dirMaps
    /\ \A k \in DOMAIN dirents : dirents[k] # Root
    /\ \A k \in DOMAIN boltDirents : boltDirents[k] # Root

LEMMA NewIdIsNotRoot == TypeOK => NewInodeId # Root
  BY DEF TypeOK, NewInodeId, Root

LEMMA CreateInMemoryKeepsRoot ==
    ASSUME RootInv, up, NEW id, id # Root,
           NEW inode, CreateInMemory(id, inode)
    PROVE  /\ Root \in DOMAIN inodes' /\ inodes'[Root] = RootInode
           /\ Root \in dirMaps'
           /\ \A k \in DOMAIN dirents' : dirents'[k] # Root
  <1> DEFINE key == <<inode.parent, inode.name>>
             entered == With(dirents, key, id)
  <1>1. \A k \in DOMAIN entered : entered[k] # Root
    BY DEF RootInv, With
  <1> HIDE DEF entered
  <1>2. \A k \in DOMAIN dirents' : dirents'[k] # Root
    <2>1. CASE dirents' = entered
      BY <1>1, <2>1
    <2>2. CASE dirents' = Without(entered, Under(entered, id))
      BY <1>1, <2>2 DEF Without, Restrict
    <2> QED
      BY <2>1, <2>2 DEF CreateInMemory, entered
  <1>3. Root \in DOMAIN inodes' /\ inodes'[Root] = RootInode
    BY DEF CreateInMemory, RootInv, With
  <1> QED
    BY <1>2, <1>3 DEF CreateInMemory, RootInv

LEMMA PersistCreateKeepsRoot ==
    ASSUME RootInv, up, NEW id, id # Root,
           NEW inode, PersistCreate(id, inode)
    PROVE  /\ Root \in DOMAIN boltInodes' /\ boltInodes'[Root] = RootInode
           /\ \A k \in DOMAIN boltDirents' : boltDirents'[k] # Root
  <1> DEFINE key == <<inode.parent, inode.name>>
  <1>1. /\ boltInodes' = With(boltInodes, id, inode)
        /\ boltDirents' = With(boltDirents, key, id)
    BY DEF PersistCreate
  <1> HIDE DEF key
  <1>2. Root \in DOMAIN boltInodes' /\ boltInodes'[Root] = RootInode
    BY <1>1 DEF RootInv, With
  <1>3. \A k \in DOMAIN boltDirents' : boltDirents'[k] # Root
    BY <1>1 DEF RootInv, With
  <1> QED
    BY <1>2, <1>3

LEMMA UnlinkInMemoryKeepsRoot ==
    ASSUME RootInv, up, NEW p, NEW n, NEW id, id # Root,
           UnlinkInMemory(p, n, id)
    PROVE  /\ Root \in DOMAIN inodes' /\ inodes'[Root] = RootInode
           /\ Root \in dirMaps'
           /\ \A k \in DOMAIN dirents' : dirents'[k] # Root
  <1>1. Root \in DOMAIN inodes' /\ inodes'[Root] = RootInode
    BY DEF RootInv, UnlinkInMemory, Without, Restrict
  <1>2. \A k \in DOMAIN dirents' : dirents'[k] # Root
    BY DEF RootInv, UnlinkInMemory, Without, Restrict
  <1> QED
    BY <1>1, <1>2 DEF RootInv, UnlinkInMemory

LEMMA PersistUnlinkKeepsRoot ==
    ASSUME RootInv, up, NEW p, NEW n, NEW id, id # Root,
           PersistUnlink(p, n, id)
    PROVE  /\ Root \in DOMAIN boltInodes' /\ boltInodes'[Root] = RootInode
           /\ \A k \in DOMAIN boltDirents' : boltDirents'[k] # Root
  <1>1. Root \in DOMAIN boltInodes' /\ boltInodes'[Root] = RootInode
    BY DEF RootInv, PersistUnlink, Without, Restrict
  <1>2. \A k \in DOMAIN boltDirents' : boltDirents'[k] # Root
    BY DEF RootInv, PersistUnlink, Without, Restrict
  <1> QED
    BY <1>1, <1>2

LEMMA StartKeepsRoot == TypeOK /\ RootInv /\ Start => RootInv'
  <1> SUFFICES ASSUME TypeOK, RootInv, Start PROVE RootInv'
    OBVIOUS
  <1>1. CASE LoadExisting
    BY <1>1 DEF LoadExisting, Start, RootInv, disk
  <1>2. CASE InitRoot
    <2>1. /\ Root \in DOMAIN inodes' /\ inodes'[Root] = RootInode
          /\ boltInodes' = inodes'
      BY <1>2 DEF InitRoot, With
    <2>2. /\ DOMAIN boltDirents' = {}
          /\ DOMAIN dirents' = {}
      BY <1>2 DEF InitRoot, RootInv, Without, Restrict
    <2>3. Root \in dirMaps'
      BY <1>2 DEF InitRoot
    <2> QED
      BY <2>1, <2>2, <2>3 DEF RootInv
  <1> QED
    BY <1>1, <1>2 DEF Start

LEMMA CreateKeepsRoot ==
    ASSUME TypeOK, RootInv, NEW p, NEW n \in AskedNames, NEW d \in BOOLEAN,
           \/ Create(p, n, d)
           \/ CreateNotPersisted(p, n, d)
           \/ CreateThenCrash(p, n, d)
           \/ CreateRefused(p, n, d)
    PROVE  RootInv'
  <1> DEFINE id == NewInodeId
             inode == NewInode(p, n, d)
  <1>1. CASE up /\ CreateCheck(p, n) = "OK" /\ clock <= MaxClock
    <2>1. id # Root
      BY NewIdIsNotRoot
    <2> HIDE DEF id, inode
    <2>2. CASE Create(p, n, d)
      <3>1. CreateInMemory(id, inode) /\ PersistCreate(id, inode)
        BY <2>2 DEF Create, id, inode
      <3> QED
        BY <1>1, <2>1, <3>1, CreateInMemoryKeepsRoot, PersistCreateKeepsRoot
        DEF RootInv
    <2>3. CASE CreateNotPersisted(p, n, d)
      <3>1. CreateInMemory(id, inode) /\ UNCHANGED disk
        BY <2>3 DEF CreateNotPersisted, id, inode
      <3> QED
        BY <1>1, <2>1, <3>1, CreateInMemoryKeepsRoot DEF RootInv, disk
    <2>4. CASE CreateThenCrash(p, n, d)
      <3>1. PersistCreate(id, inode) /\ LoseMemory
        BY <2>4 DEF CreateThenCrash, id, inode
      <3> QED
        BY <1>1, <2>1, <3>1, PersistCreateKeepsRoot
        DEF RootInv, LoseMemory, Empty
    <2>5. CASE CreateRefused(p, n, d)
      BY <1>1, <2>5 DEF CreateRefused
    <2> QED
      BY <2>2, <2>3, <2>4, <2>5
  <1>2. CASE CreateRefused(p, n, d)
    BY <1>2 DEF CreateRefused, RootInv, memory, disk
  <1> QED
    BY <1>1, <1>2 DEF Create, CreateNotPersisted, CreateThenCrash

LEMMA UnlinkKeepsRoot ==
    ASSUME TypeOK, RootInv, NEW p, NEW n,
           \/ Unlink(p, n)
           \/ UnlinkNotPersisted(p, n)
           \/ UnlinkThenCrash(p, n)
           \/ UnlinkRefused(p, n)
    PROVE  RootInv'
  <1> DEFINE id == dirents[<<p, n>>]
  <1>1. CASE up /\ UnlinkCheck(p, n) = "Deleted"
    <2>1. id # Root
      BY <1>1, AcceptedUnlink DEF RootInv
    <2> HIDE DEF id
    <2>2. CASE Unlink(p, n)
      <3>1. UnlinkInMemory(p, n, id) /\ PersistUnlink(p, n, id)
        BY <2>2 DEF Unlink, id
      <3> QED
        BY <1>1, <2>1, <3>1, UnlinkInMemoryKeepsRoot, PersistUnlinkKeepsRoot
        DEF RootInv
    <2>3. CASE UnlinkNotPersisted(p, n)
      <3>1. UnlinkInMemory(p, n, id) /\ UNCHANGED disk
        BY <2>3 DEF UnlinkNotPersisted, id
      <3> QED
        BY <1>1, <2>1, <3>1, UnlinkInMemoryKeepsRoot DEF RootInv, disk
    <2>4. CASE UnlinkThenCrash(p, n)
      <3>1. PersistUnlink(p, n, id) /\ LoseMemory
        BY <2>4 DEF UnlinkThenCrash, id
      <3> QED
        BY <1>1, <2>1, <3>1, PersistUnlinkKeepsRoot DEF RootInv, LoseMemory, Empty
    <2>5. CASE UnlinkRefused(p, n)
      BY <1>1, <2>5 DEF UnlinkRefused
    <2> QED
      BY <2>2, <2>3, <2>4, <2>5
  <1>2. CASE UnlinkRefused(p, n)
    BY <1>2 DEF UnlinkRefused, RootInv, memory, disk
  <1> QED
    BY <1>1, <1>2 DEF Unlink, UnlinkNotPersisted, UnlinkThenCrash

LEMMA NextKeepsRoot == TypeOK /\ RootInv /\ [SteppedNext]_vars => RootInv'
  <1> SUFFICES ASSUME TypeOK, RootInv, [SteppedNext]_vars PROVE RootInv'
    OBVIOUS
  <1>1. CASE Start
    BY <1>1, StartKeepsRoot
  <1>2. CASE Crash
    BY <1>2 DEF Crash, LoseMemory, Empty, RootInv, disk
  <1>3. CASE SetClockBack
    BY <1>3 DEF SetClockBack, RootInv, memory, disk
  <1>4. CASE CreateStep
    BY <1>4, CreateKeepsRoot DEF CreateStep
  <1>5. CASE UnlinkStep
    BY <1>5, UnlinkKeepsRoot DEF UnlinkStep
  <1>6. CASE ReadStep
    BY <1>6 DEF ReadStep, Lookup, Stat, ListDir, RootInv, memory, disk
  <1>7. CASE UNCHANGED vars
    BY <1>7 DEF vars, RootInv, memory, disk
  <1> QED
    BY <1>1, <1>2, <1>3, <1>4, <1>5, <1>6, <1>7 DEF SteppedNext, Next

LEMMA InitRootInv == Init => RootInv
  BY DEF Init, RootInv, Empty

LEMMA RootInvariant == Spec => []RootInv
  <1>1. TypeOK /\ RootInv /\ [Next]_vars => RootInv'
    BY NextKeepsRoot DEF SteppedNext
  <1> QED
    BY <1>1, InitRootInv, TypeCorrect, PTL DEF Spec

\* Whatever transactions fail, and even when the clock is set back, the root of
\* a serving process is its own inode and can be listed (service.go:119-142).
THEOREM RootAlwaysServed == SteppedSpec => []RootServed
  <1>1. RootInv => RootServed
    BY DEF RootInv, RootServed
  <1> QED
    BY <1>1, InitRootInv, NextKeepsRoot, SteppedTypes, PTL DEF SteppedSpec

-----------------------------------------------------------------------------
(* A store that may fail and a process that may die, the wall clock not    *)
(* set back (see MDSClock): acknowledged creations and removals last.      *)

\* A table of inodes and its directory entries, all drawn before reading c:
\* every entry leads to an inode that knows itself by it, and whatever has an
\* entry under it and is in the table is a directory.
Sound(entries, table, c) ==
    /\ Leads(entries, table)
    /\ \A id \in DOMAIN table : id < c
    /\ \A k \in DOMAIN entries :
           /\ k[1] < c
           /\ k[1] \in DOMAIN table => table[k[1]].isDir

\* Memory and store need not hold the same inodes after a failed transaction,
\* but what both hold is the same.
Agree == \A id \in DOMAIN inodes \cap DOMAIN boltInodes : inodes[id] = boltInodes[id]

RemovedUsed == \A id \in removed : id # Root /\ id < clock

AsleepEmpty == ~up => DOMAIN inodes = {} /\ DOMAIN dirents = {}

\* The inductive invariant: AckedDurable and RemovedStaysGone alone say nothing
\* of the order of the ids, on which the freshness of the next one rests.
DurableInv ==
    /\ Sound(dirents, inodes, clock)
    /\ Sound(boltDirents, boltInodes, clock)
    /\ Agree
    /\ RemovedUsed
    /\ RemovedStaysGone
    /\ AckedDurable
    /\ AsleepEmpty

-----------------------------------------------------------------------------
(* What adding and removing an inode does to a sound table.                *)

LEMMA SoundAdd ==
    ASSUME NEW e, NEW t, NEW c \in Nat, c > 0, Sound(e, t, c),
           PartialFun(e, Entry, InodeIds), PartialFun(t, InodeIds, Inode),
           NEW inode \in Inode, inode.parent \in InodeIds, inode.parent < c,
           inode.parent \in DOMAIN t => t[inode.parent].isDir
    PROVE  Sound(With(e, <<inode.parent, inode.name>>, c), With(t, c, inode), c + 1)
  <1> DEFINE key == <<inode.parent, inode.name>>
             e2 == With(e, key, c)
             t2 == With(t, c, inode)
  <1>1. /\ DOMAIN e2 = DOMAIN e \cup {key}
        /\ e2[key] = c
        /\ \A k \in DOMAIN e : k # key => e2[k] = e[k]
    BY DEF With
  <1>2. /\ DOMAIN t2 = DOMAIN t \cup {c}
        /\ t2[c] = inode
        /\ \A id \in DOMAIN t : id # c => t2[id] = t[id]
    BY DEF With
  <1>3. c \notin DOMAIN t
    BY DEF Sound
  <1>4. key[1] = inode.parent /\ key[2] = inode.name
    OBVIOUS
  <1>5. DOMAIN t \subseteq Int /\ inode.parent \in Int /\ \A k \in DOMAIN e : k[1] \in Int
    BY ClockAssumption DEF PartialFun, InodeIds, Entry
  <1> HIDE DEF e2, t2, key
  <1>6. Leads(e2, t2)
    <2> SUFFICES ASSUME NEW k \in DOMAIN e2
                 PROVE  /\ e2[k] \in DOMAIN t2
                        /\ t2[e2[k]].parent = k[1]
                        /\ t2[e2[k]].name = k[2]
      BY DEF Leads
    <2>1. CASE k = key
      BY <1>1, <1>2, <1>4, <2>1
    <2>2. CASE k # key
      <3>1. k \in DOMAIN e /\ e2[k] = e[k]
        BY <1>1, <2>2
      <3>2. e[k] \in DOMAIN t /\ t[e[k]].parent = k[1] /\ t[e[k]].name = k[2]
        BY <3>1 DEF Sound, Leads
      <3> QED
        BY <1>2, <1>3, <3>1, <3>2
    <2> QED
      BY <2>1, <2>2
  <1>7. \A id \in DOMAIN t2 : id < c + 1
    BY <1>2, <1>5 DEF Sound
  <1>8. ASSUME NEW k \in DOMAIN e2
        PROVE  k[1] < c + 1 /\ (k[1] \in DOMAIN t2 => t2[k[1]].isDir)
    <2>1. k[1] \in Int /\ k[1] < c /\ (k[1] \in DOMAIN t => t[k[1]].isDir)
      BY <1>1, <1>4, <1>5 DEF Sound
    <2>2. k[1] # c
      BY <2>1
    <2> QED
      BY <1>2, <2>1, <2>2
  <1> QED
    BY <1>6, <1>7, <1>8 DEF Sound, e2, t2, key

LEMMA SoundRemove ==
    ASSUME NEW e, NEW t, NEW c, Sound(e, t, c), PartialFun(e, Entry, InodeIds),
           NEW id, NEW key \in Entry, NEW K, key \in K,
           id \in DOMAIN t => t[id].parent = key[1] /\ t[id].name = key[2]
    PROVE  Sound(Without(e, K), Without(t, {id}), c)
  <1> DEFINE e2 == Without(e, K)
             t2 == Without(t, {id})
  <1>1. DOMAIN e2 = DOMAIN e \ K /\ \A k \in DOMAIN e2 : e2[k] = e[k]
    BY DEF Without, Restrict
  <1>2. DOMAIN t2 = DOMAIN t \ {id} /\ \A i \in DOMAIN t2 : t2[i] = t[i]
    BY DEF Without, Restrict
  <1> HIDE DEF e2, t2
  <1>3. ASSUME NEW k \in DOMAIN e2
        PROVE  e2[k] \in DOMAIN t2 /\ t2[e2[k]].parent = k[1] /\ t2[e2[k]].name = k[2]
    <2>1. k \in DOMAIN e /\ k # key /\ e2[k] = e[k]
      BY <1>1
    <2>2. e[k] \in DOMAIN t /\ t[e[k]].parent = k[1] /\ t[e[k]].name = k[2]
      BY <2>1 DEF Sound, Leads
    <2>3. k \in Entry
      BY <2>1 DEF PartialFun
    <2>4. e[k] # id
      <3> SUFFICES ASSUME e[k] = id PROVE FALSE
        OBVIOUS
      <3>1. k[1] = key[1] /\ k[2] = key[2]
        BY <2>2
      <3> QED
        BY <2>1, <2>3, <3>1 DEF Entry
    <2> QED
      BY <1>2, <2>1, <2>2, <2>4
  <1>4. \A i \in DOMAIN t2 : i < c
    BY <1>2 DEF Sound
  <1>5. \A k \in DOMAIN e2 : k[1] < c /\ (k[1] \in DOMAIN t2 => t2[k[1]].isDir)
    BY <1>1, <1>2 DEF Sound
  <1> QED
    BY <1>3, <1>4, <1>5 DEF Sound, Leads, e2, t2

LEMMA SoundEmpty ==
    ASSUME NEW e, NEW t, NEW c, DOMAIN e = {}, DOMAIN t = {}
    PROVE  Sound(e, t, c)
  BY DEF Sound, Leads

LEMMA LoseMemoryFacts ==
    ASSUME LoseMemory
    PROVE  ~up' /\ DOMAIN inodes' = {} /\ DOMAIN dirents' = {}
  BY DEF LoseMemory, Empty

-----------------------------------------------------------------------------
(* Create.                                                                 *)

\* What an accepted Create may rely on.
LEMMA AcceptedCreateFacts ==
    ASSUME TypeOK, DurableInv, NEW p, NEW n \in AskedNames, NEW d \in BOOLEAN,
           CreateCheck(p, n) = "OK"
    PROVE  LET inode == NewInode(p, n, d)
           IN  /\ inode \in Inode
               /\ inode.parent = p /\ inode.name = n
               /\ p \in InodeIds /\ p < clock
               /\ p \in DOMAIN inodes => inodes[p].isDir
               /\ p \in DOMAIN boltInodes => boltInodes[p].isDir
               /\ <<p, n>> \notin DOMAIN dirents
               /\ clock \in Nat /\ clock > 0
  <1>1. p \in DOMAIN inodes /\ inodes[p].isDir /\ p \in InodeIds /\ n \in Names
        /\ <<p, n>> \notin DOMAIN dirents
    BY AcceptedCreate
  <1>2. NewInode(p, n, d) \in Inode
    BY <1>1, InodeTypes DEF TypeOK
  <1>3. p < clock
    BY <1>1 DEF DurableInv, Sound
  <1>4. p \in DOMAIN boltInodes => boltInodes[p].isDir
    BY <1>1 DEF DurableInv, Agree
  <1>5. clock \in Nat /\ clock > 0
    BY ClockAssumption DEF TypeOK
  <1> QED
    BY <1>1, <1>2, <1>3, <1>4, <1>5 DEF NewInode

\* A new id has no entries under it, so a new directory drops none.
LEMMA CreateMemoryEffect ==
    ASSUME TypeOK, DurableInv, NEW p, NEW n \in AskedNames, NEW d \in BOOLEAN,
           CreateCheck(p, n) = "OK",
           CreateInMemory(NewInodeId, NewInode(p, n, d))
    PROVE  /\ inodes' = With(inodes, clock, NewInode(p, n, d))
           /\ dirents' = With(dirents, <<p, n>>, clock)
  <1> DEFINE inode == NewInode(p, n, d)
             entered == With(dirents, <<p, n>>, clock)
  <1>1. /\ inode.parent = p /\ inode.name = n
        /\ p < clock /\ p \in InodeIds /\ clock \in Nat
    BY AcceptedCreateFacts DEF NewInode
  <1>2. \A k \in DOMAIN dirents : k[1] \in Int /\ k[1] < clock
    BY ClockAssumption DEF TypeOK, PartialFun, Entry, InodeIds, DurableInv, Sound
  <1>3. DOMAIN entered = DOMAIN dirents \cup {<<p, n>>}
    BY DEF With
  <1>4. entered = [k \in DOMAIN entered |-> entered[k]]
    BY DEF With
  <1> HIDE DEF inode, entered
  <1>5. Under(entered, clock) = {}
    BY <1>1, <1>2, <1>3, ClockAssumption DEF Under, InodeIds
  <1>6. Without(entered, Under(entered, clock)) = entered
    BY <1>4, <1>5 DEF Without, Restrict
  <1> QED
    BY <1>1, <1>6 DEF CreateInMemory, NewInodeId, inode, entered

LEMMA CreateDurable ==
    ASSUME TypeOK, DurableInv, NEW p, NEW n \in AskedNames, NEW d \in BOOLEAN,
           Create(p, n, d)
    PROVE  DurableInv'
  <1> DEFINE inode == NewInode(p, n, d)
             key == <<p, n>>
  <1>1. /\ up /\ up' /\ CreateCheck(p, n) = "OK"
        /\ clock' = clock + 1
        /\ acked' = With(acked, key, clock) /\ removed' = removed
        /\ boltInodes' = With(boltInodes, clock, inode)
        /\ boltDirents' = With(boltDirents, key, clock)
    BY DEF Create, PersistCreate, NewInodeId, NewInode
  <1>2. /\ inodes' = With(inodes, clock, inode)
        /\ dirents' = With(dirents, key, clock)
    BY <1>1, CreateMemoryEffect DEF Create
  <1>3. /\ inode \in Inode /\ inode.parent = p /\ inode.name = n
        /\ p \in InodeIds /\ p < clock
        /\ p \in DOMAIN inodes => inodes[p].isDir
        /\ p \in DOMAIN boltInodes => boltInodes[p].isDir
        /\ clock \in Nat /\ clock > 0
    BY <1>1, AcceptedCreateFacts
  <1> HIDE DEF inode
  <1>4. Sound(dirents', inodes', clock') /\ Sound(boltDirents', boltInodes', clock')
    BY <1>1, <1>2, <1>3, SoundAdd DEF TypeOK, DurableInv
  <1> HIDE DEF key
  <1>5. \A i \in DOMAIN inodes \cup DOMAIN boltInodes \cup removed : i # clock
    BY <1>3 DEF DurableInv, Sound, RemovedUsed
  <1>6. Agree'
    BY <1>1, <1>2 DEF DurableInv, Agree, With
  <1>7. RemovedUsed'
    BY <1>1, <1>3, ClockAssumption DEF TypeOK, InodeIds, DurableInv, RemovedUsed
  <1>8. RemovedStaysGone'
    <2>1. \A i \in removed' : i \notin DOMAIN inodes' \cup DOMAIN boltInodes'
      BY <1>1, <1>2, <1>5 DEF DurableInv, RemovedStaysGone, With
    <2> QED
      BY <1>4, <2>1 DEF Sound, Leads, RemovedStaysGone
  <1>9. AckedDurable'
    <2> SUFFICES ASSUME NEW k \in DOMAIN acked'
                 PROVE  /\ k \in DOMAIN boltDirents' /\ boltDirents'[k] = acked'[k]
                        /\ acked'[k] \in DOMAIN boltInodes'
                        /\ k \in DOMAIN dirents' /\ dirents'[k] = acked'[k]
                        /\ acked'[k] \in DOMAIN inodes'
      BY DEF AckedDurable
    <2>1. CASE k = key
      BY <1>1, <1>2, <2>1 DEF With
    <2>2. CASE k # key
      BY <1>1, <1>2, <2>2 DEF DurableInv, AckedDurable, With
    <2> QED
      BY <2>1, <2>2
  <1> QED
    BY <1>1, <1>4, <1>6, <1>7, <1>8, <1>9 DEF DurableInv, AsleepEmpty

LEMMA CreateNotPersistedDurable ==
    ASSUME TypeOK, DurableInv, NEW p, NEW n \in AskedNames, NEW d \in BOOLEAN,
           CreateNotPersisted(p, n, d)
    PROVE  DurableInv'
  <1> DEFINE inode == NewInode(p, n, d)
             key == <<p, n>>
  <1>1. /\ up /\ up' /\ CreateCheck(p, n) = "OK"
        /\ clock' = clock + 1
        /\ acked' = acked /\ removed' = removed
        /\ boltInodes' = boltInodes /\ boltDirents' = boltDirents
    BY DEF CreateNotPersisted, disk, history
  <1>2. /\ inodes' = With(inodes, clock, inode)
        /\ dirents' = With(dirents, key, clock)
    BY <1>1, CreateMemoryEffect DEF CreateNotPersisted
  <1>3. /\ inode \in Inode /\ inode.parent = p /\ inode.name = n
        /\ p \in InodeIds /\ p < clock
        /\ p \in DOMAIN inodes => inodes[p].isDir
        /\ key \notin DOMAIN dirents
        /\ clock \in Nat /\ clock > 0
    BY <1>1, AcceptedCreateFacts
  <1> HIDE DEF inode
  <1>4. Sound(dirents', inodes', clock')
    BY <1>1, <1>2, <1>3, SoundAdd DEF TypeOK, DurableInv
  <1> HIDE DEF key
  <1>5. \A i \in DOMAIN inodes \cup DOMAIN boltInodes \cup removed : i # clock
    BY <1>3 DEF DurableInv, Sound, RemovedUsed
  <1>6. Sound(boltDirents', boltInodes', clock')
    BY <1>1, <1>3, ClockAssumption
    DEF DurableInv, Sound, TypeOK, PartialFun, InodeIds, Entry
  <1>7. Agree'
    BY <1>1, <1>2, <1>5 DEF DurableInv, Agree, With
  <1>8. RemovedUsed'
    BY <1>1, <1>3, ClockAssumption DEF TypeOK, InodeIds, DurableInv, RemovedUsed
  <1>9. RemovedStaysGone'
    <2>1. \A i \in removed' : i \notin DOMAIN inodes' \cup DOMAIN boltInodes'
      BY <1>1, <1>2, <1>5 DEF DurableInv, RemovedStaysGone, With
    <2> QED
      BY <1>4, <1>6, <2>1 DEF Sound, Leads, RemovedStaysGone
  <1>10. AckedDurable'
    BY <1>1, <1>2, <1>3 DEF DurableInv, AckedDurable, With
  <1> QED
    BY <1>1, <1>4, <1>6, <1>7, <1>8, <1>9, <1>10 DEF DurableInv, AsleepEmpty

LEMMA CreateThenCrashDurable ==
    ASSUME TypeOK, DurableInv, NEW p, NEW n \in AskedNames, NEW d \in BOOLEAN,
           CreateThenCrash(p, n, d)
    PROVE  DurableInv'
  <1> DEFINE inode == NewInode(p, n, d)
             key == <<p, n>>
  <1>1. /\ up /\ CreateCheck(p, n) = "OK"
        /\ clock' = clock + 1
        /\ acked' = acked /\ removed' = removed
        /\ boltInodes' = With(boltInodes, clock, inode)
        /\ boltDirents' = With(boltDirents, key, clock)
    BY DEF CreateThenCrash, PersistCreate, NewInodeId, NewInode, history
  <1>2. ~up' /\ DOMAIN inodes' = {} /\ DOMAIN dirents' = {}
    BY LoseMemoryFacts DEF CreateThenCrash
  <1>3. /\ inode \in Inode /\ inode.parent = p /\ inode.name = n
        /\ p \in InodeIds /\ p < clock
        /\ p \in DOMAIN boltInodes => boltInodes[p].isDir
        /\ key \notin DOMAIN dirents
        /\ clock \in Nat /\ clock > 0
    BY <1>1, AcceptedCreateFacts
  <1> HIDE DEF inode
  <1>4. Sound(dirents', inodes', clock') /\ Sound(boltDirents', boltInodes', clock')
    BY <1>1, <1>2, <1>3, SoundAdd, SoundEmpty DEF TypeOK, DurableInv
  <1> HIDE DEF key
  <1>5. \A i \in removed : i # clock
    BY <1>3 DEF DurableInv, RemovedUsed
  <1>6. RemovedUsed'
    BY <1>1, <1>3, ClockAssumption DEF TypeOK, InodeIds, DurableInv, RemovedUsed
  <1>7. RemovedStaysGone'
    <2>1. \A i \in removed' : i \notin DOMAIN inodes' \cup DOMAIN boltInodes'
      BY <1>1, <1>2, <1>5 DEF DurableInv, RemovedStaysGone, With
    <2> QED
      BY <1>4, <2>1 DEF Sound, Leads, RemovedStaysGone
  <1>8. AckedDurable'
    BY <1>1, <1>2, <1>3 DEF DurableInv, AckedDurable, With
  <1> QED
    BY <1>2, <1>4, <1>6, <1>7, <1>8 DEF DurableInv, AsleepEmpty, Agree

-----------------------------------------------------------------------------
(* Unlink.                                                                 *)

\* An accepted Unlink takes an inode with nothing under it, a file as well as
\* an empty directory, whose only entry is the one it is called with.
LEMMA AcceptedUnlinkFacts ==
    ASSUME TypeOK, RootInv, DurableInv, NEW p, NEW n,
           UnlinkCheck(p, n) = "Deleted"
    PROVE  LET id == dirents[<<p, n>>]
           IN  /\ <<p, n>> \in Entry /\ <<p, n>> \in DOMAIN dirents
               /\ id # Root /\ id < clock
               /\ id \in DOMAIN inodes
               /\ inodes[id].parent = p /\ inodes[id].name = n
               /\ id \in DOMAIN boltInodes =>
                      boltInodes[id].parent = p /\ boltInodes[id].name = n
               /\ Under(dirents, id) = {}
  <1> DEFINE id == dirents[<<p, n>>]
  <1>1. <<p, n>> \in DOMAIN dirents /\ id \in DOMAIN inodes
        /\ (~inodes[id].isDir \/ Under(dirents, id) = {})
    BY AcceptedUnlink
  <1>2. <<p, n>> \in Entry
    BY <1>1 DEF TypeOK, PartialFun
  <1>3. inodes[id].parent = p /\ inodes[id].name = n
    <2>1. inodes[id].parent = <<p, n>>[1] /\ inodes[id].name = <<p, n>>[2]
      BY <1>1 DEF DurableInv, Sound, Leads
    <2> QED
      BY <2>1
  <1>4. id # Root
    BY <1>1 DEF RootInv
  <1>5. id < clock
    BY <1>1 DEF DurableInv, Sound
  <1>6. id \in DOMAIN boltInodes => boltInodes[id].parent = p /\ boltInodes[id].name = n
    BY <1>1, <1>3 DEF DurableInv, Agree
  <1>7. Under(dirents, id) = {}
    BY <1>1 DEF DurableInv, Sound, Under
  <1> QED
    BY <1>1, <1>2, <1>3, <1>4, <1>5, <1>6, <1>7

LEMMA UnlinkDurable ==
    ASSUME TypeOK, RootInv, DurableInv, NEW p, NEW n, Unlink(p, n)
    PROVE  DurableInv'
  <1> DEFINE id == dirents[<<p, n>>]
             key == <<p, n>>
  <1>1. /\ up /\ up' /\ UnlinkCheck(p, n) = "Deleted"
        /\ clock' = clock
        /\ acked' = Without(acked, {key}) /\ removed' = removed \cup {id}
        /\ boltInodes' = Without(boltInodes, {id})
        /\ boltDirents' = Without(boltDirents, {key})
        /\ inodes' = Without(inodes, {id})
        /\ dirents' = Without(dirents, {key} \cup Under(dirents, id))
    BY DEF Unlink, PersistUnlink, UnlinkInMemory
  <1>2. /\ key \in Entry /\ key \in DOMAIN dirents
        /\ key[1] = p /\ key[2] = n
        /\ id # Root /\ id < clock
        /\ id \in DOMAIN inodes
        /\ inodes[id].parent = p /\ inodes[id].name = n
        /\ id \in DOMAIN boltInodes =>
               boltInodes[id].parent = p /\ boltInodes[id].name = n
        /\ Under(dirents, id) = {}
    BY <1>1, AcceptedUnlinkFacts
  <1>3. dirents[key] = id
    OBVIOUS
  <1> HIDE DEF id, key
  <1>4. dirents' = Without(dirents, {key})
    BY <1>1, <1>2
  <1>5. Sound(dirents', inodes', clock') /\ Sound(boltDirents', boltInodes', clock')
    BY <1>1, <1>2, <1>4, SoundRemove DEF TypeOK, DurableInv
  <1>6. Agree'
    BY <1>1 DEF DurableInv, Agree, Without, Restrict
  <1>7. RemovedUsed'
    BY <1>1, <1>2 DEF DurableInv, RemovedUsed
  <1>8. RemovedStaysGone'
    <2>1. \A i \in removed' : i \notin DOMAIN inodes' \cup DOMAIN boltInodes'
      BY <1>1 DEF DurableInv, RemovedStaysGone, Without, Restrict
    <2> QED
      BY <1>5, <2>1 DEF Sound, Leads, RemovedStaysGone
  <1>9. AckedDurable'
    <2> SUFFICES ASSUME NEW k \in DOMAIN acked'
                 PROVE  /\ k \in DOMAIN boltDirents' /\ boltDirents'[k] = acked'[k]
                        /\ acked'[k] \in DOMAIN boltInodes'
                        /\ k \in DOMAIN dirents' /\ dirents'[k] = acked'[k]
                        /\ acked'[k] \in DOMAIN inodes'
      BY DEF AckedDurable
    <2>1. k \in DOMAIN acked /\ k # key /\ acked'[k] = acked[k]
      BY <1>1 DEF Without, Restrict
    <2>2. /\ k \in DOMAIN boltDirents /\ boltDirents[k] = acked[k]
          /\ acked[k] \in DOMAIN boltInodes
          /\ k \in DOMAIN dirents /\ dirents[k] = acked[k]
          /\ acked[k] \in DOMAIN inodes
      BY <1>1, <2>1 DEF DurableInv, AckedDurable
    <2>3. acked[k] # id
      <3> SUFFICES ASSUME acked[k] = id PROVE FALSE
        OBVIOUS
      <3>1. inodes[id].parent = k[1] /\ inodes[id].name = k[2] /\ k \in Entry
        BY <2>2 DEF DurableInv, Sound, Leads, TypeOK, PartialFun
      <3> QED
        BY <1>2, <2>1, <3>1 DEF Entry
    <2> QED
      BY <1>1, <1>4, <2>1, <2>2, <2>3 DEF Without, Restrict
  <1> QED
    BY <1>1, <1>5, <1>6, <1>7, <1>8, <1>9 DEF DurableInv, AsleepEmpty

LEMMA UnlinkNotPersistedDurable ==
    ASSUME TypeOK, RootInv, DurableInv, NEW p, NEW n, UnlinkNotPersisted(p, n)
    PROVE  DurableInv'
  <1> DEFINE id == dirents[<<p, n>>]
             key == <<p, n>>
  <1>1. /\ up /\ up' /\ UnlinkCheck(p, n) = "Deleted"
        /\ clock' = clock
        /\ acked' = Without(acked, {key}) /\ removed' = removed
        /\ boltInodes' = boltInodes /\ boltDirents' = boltDirents
        /\ inodes' = Without(inodes, {id})
        /\ dirents' = Without(dirents, {key} \cup Under(dirents, id))
    BY DEF UnlinkNotPersisted, UnlinkInMemory, disk
  <1>2. /\ key \in Entry /\ key \in DOMAIN dirents
        /\ key[1] = p /\ key[2] = n
        /\ id \in DOMAIN inodes
        /\ inodes[id].parent = p /\ inodes[id].name = n
        /\ Under(dirents, id) = {}
    BY <1>1, AcceptedUnlinkFacts
  <1>3. dirents[key] = id
    OBVIOUS
  <1> HIDE DEF id, key
  <1>4. dirents' = Without(dirents, {key})
    BY <1>1, <1>2
  <1>5. Sound(dirents', inodes', clock')
    BY <1>1, <1>2, <1>4, SoundRemove DEF TypeOK, DurableInv
  <1>6. Agree'
    BY <1>1 DEF DurableInv, Agree, Without, Restrict
  <1>7. RemovedStaysGone'
    BY <1>1, <1>4 DEF DurableInv, RemovedStaysGone, Without, Restrict
  <1>8. AckedDurable'
    <2> SUFFICES ASSUME NEW k \in DOMAIN acked'
                 PROVE  /\ k \in DOMAIN boltDirents' /\ boltDirents'[k] = acked'[k]
                        /\ acked'[k] \in DOMAIN boltInodes'
                        /\ k \in DOMAIN dirents' /\ dirents'[k] = acked'[k]
                        /\ acked'[k] \in DOMAIN inodes'
      BY DEF AckedDurable
    <2>1. k \in DOMAIN acked /\ k # key /\ acked'[k] = acked[k]
      BY <1>1 DEF Without, Restrict
    <2>2. /\ k \in DOMAIN boltDirents /\ boltDirents[k] = acked[k]
          /\ acked[k] \in DOMAIN boltInodes
          /\ k \in DOMAIN dirents /\ dirents[k] = acked[k]
          /\ acked[k] \in DOMAIN inodes
      BY <1>1, <2>1 DEF DurableInv, AckedDurable
    <2>3. acked[k] # id
      <3> SUFFICES ASSUME acked[k] = id PROVE FALSE
        OBVIOUS
      <3>1. inodes[id].parent = k[1] /\ inodes[id].name = k[2] /\ k \in Entry
        BY <2>2 DEF DurableInv, Sound, Leads, TypeOK, PartialFun
      <3> QED
        BY <1>2, <2>1, <3>1 DEF Entry
    <2> QED
      BY <1>1, <1>4, <2>1, <2>2, <2>3 DEF Without, Restrict
  <1> QED
    BY <1>1, <1>5, <1>6, <1>7, <1>8 DEF DurableInv, RemovedUsed, AsleepEmpty

LEMMA UnlinkThenCrashDurable ==
    ASSUME TypeOK, RootInv, DurableInv, NEW p, NEW n, UnlinkThenCrash(p, n)
    PROVE  DurableInv'
  <1> DEFINE id == dirents[<<p, n>>]
             key == <<p, n>>
  <1>1. /\ up /\ UnlinkCheck(p, n) = "Deleted"
        /\ clock' = clock
        /\ acked' = Without(acked, {key}) /\ removed' = removed
        /\ boltInodes' = Without(boltInodes, {id})
        /\ boltDirents' = Without(boltDirents, {key})
    BY DEF UnlinkThenCrash, PersistUnlink
  <1>2. ~up' /\ DOMAIN inodes' = {} /\ DOMAIN dirents' = {}
    BY LoseMemoryFacts DEF UnlinkThenCrash
  <1>3. /\ key \in Entry
        /\ key[1] = p /\ key[2] = n
        /\ id \in DOMAIN boltInodes =>
               boltInodes[id].parent = p /\ boltInodes[id].name = n
    BY <1>1, AcceptedUnlinkFacts
  <1> HIDE DEF id, key
  <1>4. Sound(dirents', inodes', clock') /\ Sound(boltDirents', boltInodes', clock')
    BY <1>1, <1>2, <1>3, SoundRemove, SoundEmpty DEF TypeOK, DurableInv
  <1>5. RemovedStaysGone'
    BY <1>1, <1>2 DEF DurableInv, RemovedStaysGone, Without, Restrict
  <1>6. AckedDurable'
    <2> SUFFICES ASSUME NEW k \in DOMAIN acked'
                 PROVE  /\ k \in DOMAIN boltDirents' /\ boltDirents'[k] = acked'[k]
                        /\ acked'[k] \in DOMAIN boltInodes'
      BY <1>2 DEF AckedDurable
    <2>1. k \in DOMAIN acked /\ k # key /\ acked'[k] = acked[k]
      BY <1>1 DEF Without, Restrict
    <2>2. k \in DOMAIN boltDirents /\ boltDirents[k] = acked[k]
      BY <2>1 DEF DurableInv, AckedDurable
    <2>3. k \in DOMAIN boltDirents' /\ boltDirents'[k] = acked'[k]
      BY <1>1, <2>1, <2>2 DEF Without, Restrict
    <2> QED
      BY <1>4, <2>3 DEF Sound, Leads
  <1> QED
    BY <1>1, <1>2, <1>4, <1>5, <1>6 DEF DurableInv, RemovedUsed, AsleepEmpty, Agree

-----------------------------------------------------------------------------
(* Start-up.                                                               *)

LEMMA StartDurable == TypeOK /\ RootInv /\ DurableInv /\ Start => DurableInv'
  <1> SUFFICES ASSUME TypeOK, RootInv, DurableInv, Start PROVE DurableInv'
    OBVIOUS
  <1>1. up' /\ clock' = clock /\ acked' = acked /\ removed' = removed
        /\ boltDirents' = boltDirents
    BY DEF Start, LoadExisting, InitRoot, history, disk
  <1>2. CASE LoadExisting
    <2>1. inodes' = boltInodes /\ dirents' = boltDirents /\ boltInodes' = boltInodes
      BY <1>2 DEF LoadExisting, disk
    <2>2. AckedDurable'
      BY <1>1, <2>1 DEF DurableInv, AckedDurable
    <2>3. RemovedStaysGone'
      BY <1>1, <2>1 DEF DurableInv, RemovedStaysGone
    <2> QED
      BY <1>1, <2>1, <2>2, <2>3 DEF DurableInv, Agree, RemovedUsed, AsleepEmpty
  <1>3. CASE InitRoot
    <2>1. DOMAIN boltDirents = {}
      BY <1>3 DEF InitRoot, RootInv
    <2>2. /\ DOMAIN boltInodes' = DOMAIN boltInodes \cup {Root}
          /\ inodes' = boltInodes' /\ DOMAIN dirents' = {}
      BY <1>3, <2>1 DEF InitRoot, With, Without, Restrict
    <2>3. Sound(dirents', inodes', clock') /\ Sound(boltDirents', boltInodes', clock')
      BY <1>1, <2>1, <2>2 DEF DurableInv, Sound, Leads, TypeOK, Root
    <2>4. AckedDurable'
      BY <1>1, <2>1 DEF DurableInv, AckedDurable
    <2>5. RemovedStaysGone'
      BY <1>1, <2>1, <2>2 DEF DurableInv, RemovedStaysGone, RemovedUsed
    <2> QED
      BY <1>1, <2>2, <2>3, <2>4, <2>5 DEF DurableInv, Agree, RemovedUsed, AsleepEmpty
  <1> QED
    BY <1>2, <1>3 DEF Start

-----------------------------------------------------------------------------
(* The theorems.                                                           *)

LEMMA NextDurable == TypeOK /\ RootInv /\ DurableInv /\ [Next]_vars => DurableInv'
  <1> SUFFICES ASSUME TypeOK, RootInv, DurableInv, [Next]_vars PROVE DurableInv'
    OBVIOUS
  <1>1. CASE Start
    BY <1>1, StartDurable
  <1>2. CASE Crash
    <2>1. ~up' /\ DOMAIN inodes' = {} /\ DOMAIN dirents' = {}
      BY <1>2, LoseMemoryFacts DEF Crash
    <2>2. UNCHANGED <<disk, clock, history>>
      BY <1>2 DEF Crash
    <2> QED
      BY <2>1, <2>2, SoundEmpty
      DEF DurableInv, Agree, RemovedUsed, RemovedStaysGone, AckedDurable,
          AsleepEmpty, disk, history
  <1>4. CASE CreateStep
    <2>1. PICK p \in AskedIds, n \in AskedNames, d \in BOOLEAN :
              \/ Create(p, n, d) \/ CreateNotPersisted(p, n, d)
              \/ CreateThenCrash(p, n, d) \/ CreateRefused(p, n, d)
      BY <1>4 DEF CreateStep
    <2>2. CASE CreateRefused(p, n, d)
      BY <2>2 DEF CreateRefused, memory, disk, history, DurableInv, Agree,
          RemovedUsed, RemovedStaysGone, AckedDurable, AsleepEmpty
    <2> QED
      BY <2>1, <2>2, CreateDurable, CreateNotPersistedDurable, CreateThenCrashDurable
  <1>5. CASE UnlinkStep
    <2>1. PICK p \in AskedIds, n \in AskedNames :
              \/ Unlink(p, n) \/ UnlinkNotPersisted(p, n)
              \/ UnlinkThenCrash(p, n) \/ UnlinkRefused(p, n)
      BY <1>5 DEF UnlinkStep
    <2>2. CASE UnlinkRefused(p, n)
      BY <2>2 DEF UnlinkRefused, memory, disk, history, DurableInv, Agree,
          RemovedUsed, RemovedStaysGone, AckedDurable, AsleepEmpty
    <2> QED
      BY <2>1, <2>2, UnlinkDurable, UnlinkNotPersistedDurable, UnlinkThenCrashDurable
  <1>6. CASE ReadStep
    BY <1>6 DEF ReadStep, Lookup, Stat, ListDir, memory, disk, history, DurableInv,
        Agree, RemovedUsed, RemovedStaysGone, AckedDurable, AsleepEmpty
  <1>7. CASE UNCHANGED vars
    BY <1>7 DEF vars, memory, disk, history, DurableInv, Agree, RemovedUsed,
        RemovedStaysGone, AckedDurable, AsleepEmpty
  <1> QED
    BY <1>1, <1>2, <1>4, <1>5, <1>6, <1>7 DEF Next

LEMMA InitDurable == Init => DurableInv
  <1> SUFFICES ASSUME Init PROVE DurableInv
    OBVIOUS
  <1>1. /\ DOMAIN inodes = {} /\ DOMAIN dirents = {}
        /\ DOMAIN boltInodes = {} /\ DOMAIN boltDirents = {}
        /\ DOMAIN acked = {} /\ removed = {}
    BY DEF Init, Empty
  <1> QED
    BY <1>1, SoundEmpty
    DEF DurableInv, Agree, RemovedUsed, RemovedStaysGone, AckedDurable, AsleepEmpty

LEMMA DurableInvariant == Spec => []DurableInv
  BY InitDurable, NextDurable, TypeCorrect, RootInvariant, PTL DEF Spec

\* No entry, served or stored, is left without its inode (service.go:219),
\* whatever transactions fail.
THEOREM NothingDangles == Spec => []NoDangling
  <1>1. DurableInv => NoDangling
    BY DEF DurableInv, Sound, NoDangling
  <1> QED
    BY <1>1, DurableInvariant, PTL

\* What Create has acknowledged (service.go:202) is stored and served until a
\* client asks for its removal, through failed transactions and restarts.
THEOREM AcknowledgedCreatesLast == Spec => []AckedDurable
  <1>1. DurableInv => AckedDurable
    BY DEF DurableInv
  <1> QED
    BY <1>1, DurableInvariant, PTL

\* What Unlink has acknowledged (service.go:292) never comes back.
THEOREM AcknowledgedUnlinksLast == Spec => []RemovedStaysGone
  <1>1. DurableInv => RemovedStaysGone
    BY DEF DurableInv
  <1> QED
    BY <1>1, DurableInvariant, PTL

\* An inode id keeps the meaning it was stored with (service.go:171, 347).
THEOREM InodesKeepTheirMeaning == Spec => InodesNotOverwritten
  <1> DEFINE Kept == \A id \in DOMAIN boltInodes \cap DOMAIN boltInodes' :
                         boltInodes'[id] = boltInodes[id]
  <1>1. TypeOK /\ DurableInv /\ [Next]_vars => [Kept]_vars
    <2> SUFFICES ASSUME TypeOK, DurableInv, [Next]_vars PROVE Kept
      OBVIOUS
    <2>1. \/ boltInodes' = boltInodes
          \/ boltInodes' = With(boltInodes, Root, RootInode) /\ Root \notin DOMAIN boltInodes
          \/ \E inode : boltInodes' = With(boltInodes, clock, inode)
          \/ \E id : boltInodes' = Without(boltInodes, {id})
      <3>1. CASE Start
        BY <3>1 DEF Start, LoadExisting, InitRoot, disk
      <3>2. CASE CreateStep
        BY <3>2 DEF CreateStep, Create, CreateNotPersisted, CreateThenCrash,
            CreateRefused, PersistCreate, NewInodeId, disk
      <3>3. CASE UnlinkStep
        BY <3>3 DEF UnlinkStep, Unlink, UnlinkNotPersisted, UnlinkThenCrash,
            UnlinkRefused, PersistUnlink, disk
      <3>4. CASE Crash \/ ReadStep \/ UNCHANGED vars
        BY <3>4 DEF Crash, ReadStep, Lookup, Stat, ListDir, vars, disk
      <3> QED
        BY <3>1, <3>2, <3>3, <3>4 DEF Next
    <2>2. clock \notin DOMAIN boltInodes
      BY ClockAssumption DEF DurableInv, Sound, TypeOK
    <2> QED
      BY <2>1, <2>2 DEF With, Without, Restrict
  <1> QED
    BY <1>1, TypeCorrect, DurableInvariant, PTL DEF Spec, InodesNotOverwritten

-----------------------------------------------------------------------------
(* A store that never fails: one tree, and the abstract namespace.         *)

\* What a step may do to the store, seen from a state in which memory mirrors
\* it: an accepted Create enters a fresh inode in a directory, an accepted
\* Unlink removes an inode with nothing under it.
StoreAdds(p, n, d) ==
    /\ p \in DOMAIN boltInodes /\ boltInodes[p].isDir /\ p < clock
    /\ <<p, n>> \notin DOMAIN boltDirents
    /\ boltInodes' = With(boltInodes, clock, NewInode(p, n, d))
    /\ boltDirents' = With(boltDirents, <<p, n>>, clock)

StoreRemoves(p, n) ==
    LET id == boltDirents[<<p, n>>]
    IN  /\ <<p, n>> \in DOMAIN boltDirents /\ id \in DOMAIN boltInodes
        /\ Under(boltDirents, id) = {}
        /\ boltInodes' = Without(boltInodes, {id})
        /\ boltDirents' = Without(boltDirents, {<<p, n>>})

LEMMA CreateStore ==
    ASSUME TypeOK, DurableInv, Mirror, NEW p, NEW n \in AskedNames,
           NEW d \in BOOLEAN, Create(p, n, d) \/ CreateThenCrash(p, n, d)
    PROVE  StoreAdds(p, n, d) /\ Mirror'
  <1>1. up /\ CreateCheck(p, n) = "OK" /\ PersistCreate(NewInodeId, NewInode(p, n, d))
    BY DEF Create, CreateThenCrash
  <1>2. /\ p \in DOMAIN inodes /\ inodes[p].isDir /\ p < clock
        /\ <<p, n>> \notin DOMAIN dirents
        /\ NewInode(p, n, d).parent = p /\ NewInode(p, n, d).name = n
    BY <1>1, AcceptedCreate, AcceptedCreateFacts
  <1>3. /\ boltInodes' = With(boltInodes, clock, NewInode(p, n, d))
        /\ boltDirents' = With(boltDirents, <<p, n>>, clock)
    BY <1>1, <1>2 DEF PersistCreate, NewInodeId
  <1>4. StoreAdds(p, n, d)
    BY <1>1, <1>2, <1>3 DEF StoreAdds, Mirror
  <1>5. CASE Create(p, n, d)
    <2>1. /\ inodes' = With(inodes, clock, NewInode(p, n, d))
          /\ dirents' = With(dirents, <<p, n>>, clock)
      BY <1>1, <1>5, CreateMemoryEffect DEF Create
    <2> QED
      BY <1>1, <1>3, <1>4, <2>1 DEF Mirror
  <1>6. CASE CreateThenCrash(p, n, d)
    BY <1>4, <1>6, LoseMemoryFacts DEF CreateThenCrash, Mirror
  <1> QED
    BY <1>5, <1>6

LEMMA UnlinkStore ==
    ASSUME TypeOK, RootInv, DurableInv, Mirror, NEW p, NEW n,
           Unlink(p, n) \/ UnlinkThenCrash(p, n)
    PROVE  StoreRemoves(p, n) /\ Mirror'
  <1> DEFINE id == dirents[<<p, n>>]
  <1>1. up /\ UnlinkCheck(p, n) = "Deleted" /\ PersistUnlink(p, n, id)
    BY DEF Unlink, UnlinkThenCrash
  <1>2. /\ <<p, n>> \in DOMAIN dirents /\ id \in DOMAIN inodes
        /\ Under(dirents, id) = {}
    BY <1>1, AcceptedUnlinkFacts
  <1>3. inodes = boltInodes /\ dirents = boltDirents
    BY <1>1 DEF Mirror
  <1>4. StoreRemoves(p, n)
    BY <1>1, <1>2, <1>3 DEF StoreRemoves, PersistUnlink
  <1>5. CASE Unlink(p, n)
    BY <1>1, <1>2, <1>3, <1>4, <1>5 DEF Unlink, UnlinkInMemory, PersistUnlink, Mirror
  <1>6. CASE UnlinkThenCrash(p, n)
    BY <1>4, <1>6, LoseMemoryFacts DEF UnlinkThenCrash, Mirror
  <1> QED
    BY <1>5, <1>6

LEMMA StartStore ==
    ASSUME TypeOK, RootInv, Start
    PROVE  /\ Mirror'
           /\ boltDirents' = boltDirents
           /\ \/ boltInodes' = boltInodes
              \/ boltInodes' = With(boltInodes, Root, RootInode)
  <1>1. CASE LoadExisting
    BY <1>1 DEF LoadExisting, Mirror, disk
  <1>2. CASE InitRoot
    <2>1. DOMAIN boltDirents = {}
      BY <1>2 DEF InitRoot, RootInv
    <2>2. Without(boltDirents, Under(boltDirents, Root)) = boltDirents
      <3>1. boltDirents = [k \in DOMAIN boltDirents |-> boltDirents[k]]
        BY DEF TypeOK, PartialFun
      <3>2. DOMAIN boltDirents \ Under(boltDirents, Root) = DOMAIN boltDirents
        BY <2>1
      <3> QED
        BY <3>1, <3>2 DEF Without, Restrict
    <2> QED
      BY <1>2, <2>2 DEF InitRoot, Mirror
  <1> QED
    BY <1>1, <1>2 DEF Start

-----------------------------------------------------------------------------
(* The tree survives both kinds of steps.                                  *)

LEMMA AddKeepsRooted ==
    ASSUME TypeOK, DurableInv, Rooted, NEW p, NEW n, NEW d \in BOOLEAN,
           StoreAdds(p, n, d)
    PROVE  Rooted'
  <1> DEFINE inode == NewInode(p, n, d)
             key == <<p, n>>
  <1>1. /\ p \in DOMAIN boltInodes /\ boltInodes[p].isDir /\ p < clock
        /\ key \notin DOMAIN boltDirents
        /\ boltInodes' = With(boltInodes, clock, inode)
        /\ boltDirents' = With(boltDirents, key, clock)
    BY DEF StoreAdds
  <1>2. inode.parent = p /\ inode.name = n /\ <<inode.parent, inode.name>> = key
    BY DEF NewInode
  <1>3. clock \notin DOMAIN boltInodes
    BY ClockAssumption DEF DurableInv, Sound, TypeOK
  <1> HIDE DEF inode, key
  <1> SUFFICES ASSUME NEW id \in DOMAIN boltInodes' \ {Root}
               PROVE  /\ boltInodes'[id].parent \in DOMAIN boltInodes'
                      /\ boltInodes'[boltInodes'[id].parent].isDir
                      /\ boltInodes'[id].parent < id
                      /\ LET k == <<boltInodes'[id].parent, boltInodes'[id].name>>
                         IN  k \in DOMAIN boltDirents' /\ boltDirents'[k] = id
    BY DEF Rooted
  <1>4. CASE id = clock
    BY <1>1, <1>2, <1>3, <1>4 DEF With
  <1>5. CASE id # clock
    <2>1. id \in DOMAIN boltInodes \ {Root} /\ boltInodes'[id] = boltInodes[id]
      BY <1>1, <1>5 DEF With
    <2> DEFINE k == <<boltInodes[id].parent, boltInodes[id].name>>
    <2>2. /\ boltInodes[id].parent \in DOMAIN boltInodes
          /\ boltInodes[boltInodes[id].parent].isDir
          /\ boltInodes[id].parent < id
          /\ k \in DOMAIN boltDirents /\ boltDirents[k] = id
      BY <2>1 DEF Rooted
    <2>3. k # key
      BY <1>1, <2>2
    <2> QED
      BY <1>1, <1>3, <2>1, <2>2, <2>3 DEF With
  <1> QED
    BY <1>4, <1>5

LEMMA RemoveKeepsRooted ==
    ASSUME TypeOK, RootInv, Rooted, NEW p, NEW n, StoreRemoves(p, n)
    PROVE  Rooted'
  <1> DEFINE gone == boltDirents[<<p, n>>]
             key == <<p, n>>
  <1>1. /\ key \in DOMAIN boltDirents /\ gone \in DOMAIN boltInodes
        /\ boltDirents[key] = gone
        /\ \A k \in DOMAIN boltDirents : k[1] # gone
        /\ boltInodes' = Without(boltInodes, {gone})
        /\ boltDirents' = Without(boltDirents, {key})
    BY DEF StoreRemoves, Under
  <1> HIDE DEF gone, key
  <1> SUFFICES ASSUME NEW id \in DOMAIN boltInodes' \ {Root}
               PROVE  /\ boltInodes'[id].parent \in DOMAIN boltInodes'
                      /\ boltInodes'[boltInodes'[id].parent].isDir
                      /\ boltInodes'[id].parent < id
                      /\ LET k == <<boltInodes'[id].parent, boltInodes'[id].name>>
                         IN  k \in DOMAIN boltDirents' /\ boltDirents'[k] = id
    BY DEF Rooted
  <1>2. id \in DOMAIN boltInodes \ {Root} /\ id # gone /\ boltInodes'[id] = boltInodes[id]
    BY <1>1 DEF Without, Restrict
  <1> DEFINE k == <<boltInodes[id].parent, boltInodes[id].name>>
  <1>3. /\ boltInodes[id].parent \in DOMAIN boltInodes
        /\ boltInodes[boltInodes[id].parent].isDir
        /\ boltInodes[id].parent < id
        /\ k \in DOMAIN boltDirents /\ boltDirents[k] = id
    BY <1>2 DEF Rooted
  <1>4. k[1] = boltInodes[id].parent /\ k # key /\ k[1] # gone
    BY <1>1, <1>2, <1>3
  <1> QED
    BY <1>1, <1>2, <1>3, <1>4 DEF Without, Restrict

LEMMA NextTree ==
    ASSUME ~PersistMayFail
    PROVE  TypeOK /\ RootInv /\ DurableInv /\ Mirror /\ Rooted /\ [Next]_vars
               => Mirror' /\ Rooted'
  <1> SUFFICES ASSUME TypeOK, RootInv, DurableInv, Mirror, Rooted, [Next]_vars
               PROVE  Mirror' /\ Rooted'
    OBVIOUS
  <1>1. CASE Start
    <2>1. /\ Mirror' /\ boltDirents' = boltDirents
          /\ boltInodes' = boltInodes \/ boltInodes' = With(boltInodes, Root, RootInode)
      BY <1>1, StartStore
    <2>2. Rooted'
      <3>1. CASE boltInodes' = boltInodes
        BY <2>1, <3>1 DEF Rooted
      <3>2. CASE boltInodes' = With(boltInodes, Root, RootInode)
        BY <2>1, <3>2 DEF Rooted, With, RootInode
      <3> QED
        BY <2>1, <3>1, <3>2
    <2> QED
      BY <2>1, <2>2
  <1>2. CASE Crash
    BY <1>2, LoseMemoryFacts DEF Crash, Mirror, Rooted, disk
  <1>4. CASE CreateStep
    <2>1. PICK p \in AskedIds, n \in AskedNames, d \in BOOLEAN :
              \/ Create(p, n, d) \/ CreateThenCrash(p, n, d)
              \/ CreateRefused(p, n, d)
      BY <1>4 DEF CreateStep, CreateNotPersisted
    <2>2. CASE CreateRefused(p, n, d)
      BY <2>2 DEF CreateRefused, Mirror, Rooted, memory, disk
    <2>3. CASE Create(p, n, d) \/ CreateThenCrash(p, n, d)
      BY <2>3, CreateStore, AddKeepsRooted
    <2> QED
      BY <2>1, <2>2, <2>3
  <1>5. CASE UnlinkStep
    <2>1. PICK p \in AskedIds, n \in AskedNames :
              \/ Unlink(p, n) \/ UnlinkThenCrash(p, n) \/ UnlinkRefused(p, n)
      BY <1>5 DEF UnlinkStep, UnlinkNotPersisted
    <2>2. CASE UnlinkRefused(p, n)
      BY <2>2 DEF UnlinkRefused, Mirror, Rooted, memory, disk
    <2>3. CASE Unlink(p, n) \/ UnlinkThenCrash(p, n)
      BY <2>3, UnlinkStore, RemoveKeepsRooted
    <2> QED
      BY <2>1, <2>2, <2>3
  <1>6. CASE ReadStep
    BY <1>6 DEF ReadStep, Lookup, Stat, ListDir, Mirror, Rooted, memory, disk
  <1>7. CASE UNCHANGED vars
    BY <1>7 DEF vars, Mirror, Rooted, memory, disk
  <1> QED
    BY <1>1, <1>2, <1>4, <1>5, <1>6, <1>7 DEF Next

LEMMA TreeInvariant ==
    ASSUME ~PersistMayFail
    PROVE  Spec => [](Mirror /\ Rooted)
  <1>1. Init => Mirror /\ Rooted
    BY DEF Init, Mirror, Rooted, Empty
  <1>2. TypeOK /\ RootInv /\ DurableInv /\ (Mirror /\ Rooted) /\ [Next]_vars
            => (Mirror /\ Rooted)'
    BY NextTree
  <1> QED
    BY <1>1, <1>2, TypeCorrect, RootInvariant, DurableInvariant, PTL DEF Spec

\* Between any two requests memory and BoltDB agree, so a restart forgets and
\* invents nothing (service.go:93-117 against 307-340).
THEOREM MemoryMirrorsStore ==
    ASSUME ~PersistMayFail
    PROVE  Spec => []Mirror
  BY TreeInvariant, PTL

\* Every stored inode is entered in an older directory, and so, parent by
\* parent, in the root.
THEOREM NamespaceIsATree ==
    ASSUME ~PersistMayFail
    PROVE  Spec => []Rooted
  BY TreeInvariant, PTL

-----------------------------------------------------------------------------
(* The service implements Namespace.                                       *)

\* The entry maps of s.dirents belong to directories, and no entry is without
\* one: ListDir and Unlink look for the map first (service.go:240, 275).
MapsInv ==
    up => /\ \A k \in DOMAIN dirents : k[1] \in dirMaps
          /\ \A i \in dirMaps : i \in DOMAIN inodes /\ inodes[i].isDir

LEMMA NextMaps ==
    ASSUME ~PersistMayFail
    PROVE  TypeOK /\ RootInv /\ DurableInv /\ Mirror /\ Rooted /\ MapsInv /\ [Next]_vars
               => MapsInv'
  <1> SUFFICES ASSUME TypeOK, RootInv, DurableInv, Mirror, Rooted, MapsInv, [Next]_vars
               PROVE  MapsInv'
    OBVIOUS
  <1>1. CASE Start
    <2> SUFFICES ASSUME up' PROVE MapsInv'
      BY DEF MapsInv
    <2>1. CASE LoadExisting
      <3>1. /\ inodes' = boltInodes /\ dirents' = boltDirents
            /\ dirMaps' = {k[1] : k \in DOMAIN boltDirents} \cup {Root}
            /\ boltInodes[Root].isDir /\ Root \in DOMAIN boltInodes
        BY <2>1 DEF LoadExisting, RootInv, RootInode
      <3>2. ASSUME NEW k \in DOMAIN boltDirents
            PROVE  k[1] \in DOMAIN boltInodes /\ boltInodes[k[1]].isDir
        <4>1. /\ boltDirents[k] \in DOMAIN boltInodes /\ boltDirents[k] # Root
              /\ boltInodes[boltDirents[k]].parent = k[1]
          BY DEF DurableInv, Sound, Leads, RootInv
        <4> QED
          BY <4>1 DEF Rooted
      <3> QED
        BY <3>1, <3>2 DEF MapsInv
    <2>2. CASE InitRoot
      <3>1. DOMAIN boltDirents = {}
        BY <2>2 DEF InitRoot, RootInv
      <3>2. /\ DOMAIN dirents' = {} /\ dirMaps' = {Root}
            /\ Root \in DOMAIN inodes' /\ inodes'[Root].isDir
        BY <2>2, <3>1 DEF InitRoot, Without, Restrict, With, RootInode
      <3> QED
        BY <3>2 DEF MapsInv
    <2> QED
      BY <1>1, <2>1, <2>2 DEF Start
  <1>2. CASE Crash
    BY <1>2, LoseMemoryFacts DEF Crash, MapsInv
  <1>3. CASE CreateStep
    <2>1. PICK p \in AskedIds, n \in AskedNames, d \in BOOLEAN :
              \/ Create(p, n, d) \/ CreateThenCrash(p, n, d)
              \/ CreateRefused(p, n, d)
      BY <1>3 DEF CreateStep, CreateNotPersisted
    <2>2. CASE CreateRefused(p, n, d)
      BY <2>2 DEF CreateRefused, MapsInv, memory
    <2>3. CASE CreateThenCrash(p, n, d)
      BY <2>3, LoseMemoryFacts DEF CreateThenCrash, MapsInv
    <2>4. CASE Create(p, n, d)
      <3> DEFINE inode == NewInode(p, n, d)
      <3>1. /\ up /\ CreateCheck(p, n) = "OK" /\ CreateInMemory(NewInodeId, inode)
        BY <2>4 DEF Create
      <3>2. /\ inodes' = With(inodes, clock, inode)
            /\ dirents' = With(dirents, <<p, n>>, clock)
        BY <3>1, CreateMemoryEffect
      <3>3. /\ p \in DOMAIN inodes /\ inodes[p].isDir
            /\ inode.parent = p /\ inode.isDir = d
            /\ clock \notin DOMAIN inodes
        <4>1. p \in DOMAIN inodes /\ inodes[p].isDir
          BY <3>1, AcceptedCreate
        <4>2. clock \notin DOMAIN inodes
          BY ClockAssumption DEF DurableInv, Sound, TypeOK
        <4> QED
          BY <4>1, <4>2 DEF NewInode
      <3>4. dirMaps' = dirMaps \cup {p} \cup (IF d THEN {clock} ELSE {})
        BY <3>1, <3>3 DEF CreateInMemory, NewInodeId
      <3>5. ASSUME NEW k \in DOMAIN dirents' PROVE k[1] \in dirMaps'
        <4>1. k \in DOMAIN dirents \/ k = <<p, n>>
          BY <3>2 DEF With
        <4>2. CASE k \in DOMAIN dirents
          BY <3>1, <3>4, <4>2 DEF MapsInv
        <4>3. CASE k = <<p, n>>
          BY <3>4, <4>3
        <4> QED
          BY <4>1, <4>2, <4>3
      <3>6. ASSUME NEW i \in dirMaps' PROVE i \in DOMAIN inodes' /\ inodes'[i].isDir
        BY <3>1, <3>2, <3>3, <3>4 DEF MapsInv, With
      <3> QED
        BY <3>5, <3>6 DEF MapsInv
    <2> QED
      BY <2>1, <2>2, <2>3, <2>4
  <1>4. CASE UnlinkStep
    <2>1. PICK p \in AskedIds, n \in AskedNames :
              \/ Unlink(p, n) \/ UnlinkThenCrash(p, n) \/ UnlinkRefused(p, n)
      BY <1>4 DEF UnlinkStep, UnlinkNotPersisted
    <2>2. CASE UnlinkRefused(p, n)
      BY <2>2 DEF UnlinkRefused, MapsInv, memory
    <2>3. CASE UnlinkThenCrash(p, n)
      BY <2>3, LoseMemoryFacts DEF UnlinkThenCrash, MapsInv
    <2>4. CASE Unlink(p, n)
      BY <2>4 DEF Unlink, UnlinkInMemory, MapsInv, Without, Restrict, Under
    <2> QED
      BY <2>1, <2>2, <2>3, <2>4
  <1>5. CASE ReadStep
    BY <1>5 DEF ReadStep, Lookup, Stat, ListDir, MapsInv, memory
  <1>6. CASE UNCHANGED vars
    BY <1>6 DEF vars, MapsInv, memory
  <1> QED
    BY <1>1, <1>2, <1>3, <1>4, <1>5, <1>6 DEF Next

LEMMA MapsInvariant ==
    ASSUME ~PersistMayFail
    PROVE  Spec => []MapsInv
  <1>1. Init => MapsInv
    BY DEF Init, MapsInv
  <1>2. (TypeOK /\ RootInv /\ DurableInv /\ Mirror /\ Rooted) /\ MapsInv /\ [Next]_vars
            => MapsInv'
    BY NextMaps
  <1> QED
    BY <1>1, <1>2, TypeCorrect, RootInvariant, DurableInvariant, TreeInvariant, PTL DEF Spec

\* All that the answers rest on, at an instant at which the process serves.
Serving ==
    /\ up /\ TypeOK /\ RootInv /\ DurableInv /\ Mirror /\ Rooted /\ MapsInv

\* The abstract tree, read off the tables of the service.
LEMMA TreeFacts ==
    ASSUME Serving
    PROVE  /\ inodes = boltInodes /\ dirents = boltDirents
           /\ NS!Nodes = DOMAIN inodes
           /\ \A p : NS!IsDir(p) <=> p \in DOMAIN inodes /\ inodes[p].isDir
           /\ \A p : NS!Children(p) = {dirents[k] : k \in Under(dirents, p)}
           /\ \A p, n : NS!Named(p, n) = IF <<p, n>> \in DOMAIN dirents
                                         THEN {dirents[<<p, n>>]} ELSE {}
  <1>1. inodes = boltInodes /\ dirents = boltDirents
    BY DEF Serving, Mirror
  <1>2. Root \in DOMAIN inodes /\ inodes[Root].isDir
    BY DEF Serving, RootInv, RootInode
  <1>3. DOMAIN StoredTree = DOMAIN inodes \ {Root}
        /\ \A i \in DOMAIN inodes \ {Root} :
               /\ StoredTree[i].parent = inodes[i].parent
               /\ StoredTree[i].name = inodes[i].name
               /\ StoredTree[i].isDir = inodes[i].isDir
    BY <1>1 DEF StoredTree
  <1>4. \A k \in DOMAIN dirents :
            /\ dirents[k] \in DOMAIN inodes \ {Root}
            /\ inodes[dirents[k]].parent = k[1] /\ inodes[dirents[k]].name = k[2]
            /\ k = <<k[1], k[2]>>
    BY DEF Serving, TypeOK, PartialFun, Entry, DurableInv, Sound, Leads, RootInv
  <1>5. \A i \in DOMAIN inodes \ {Root} :
            /\ <<inodes[i].parent, inodes[i].name>> \in DOMAIN dirents
            /\ dirents[<<inodes[i].parent, inodes[i].name>>] = i
    BY <1>1 DEF Serving, Rooted
  <1>6. NS!Nodes = DOMAIN inodes
    BY <1>2, <1>3 DEF NS!Nodes
  <1>7. ASSUME NEW p PROVE NS!IsDir(p) <=> p \in DOMAIN inodes /\ inodes[p].isDir
    BY <1>2, <1>3 DEF NS!IsDir
  <1>8. ASSUME NEW p PROVE NS!Children(p) = {dirents[k] : k \in Under(dirents, p)}
    <2>1. NS!Children(p) = {i \in DOMAIN inodes \ {Root} : inodes[i].parent = p}
      BY <1>3 DEF NS!Children
    <2>2. ASSUME NEW i \in DOMAIN inodes \ {Root}, inodes[i].parent = p
          PROVE  \E k \in Under(dirents, p) : dirents[k] = i
      <3>1. <<p, inodes[i].name>> \in Under(dirents, p)
        BY <1>5, <2>2 DEF Under
      <3> QED
        BY <1>5, <2>2, <3>1
    <2>3. ASSUME NEW k \in Under(dirents, p)
          PROVE  dirents[k] \in DOMAIN inodes \ {Root} /\ inodes[dirents[k]].parent = p
      BY <1>4 DEF Under
    <2> QED
      BY <2>1, <2>2, <2>3
  <1>9. ASSUME NEW p, NEW n
        PROVE  NS!Named(p, n) = IF <<p, n>> \in DOMAIN dirents
                                THEN {dirents[<<p, n>>]} ELSE {}
    <2>1. NS!Named(p, n) = {i \in DOMAIN inodes \ {Root} :
                                inodes[i].parent = p /\ inodes[i].name = n}
      BY <1>3 DEF NS!Named, NS!Children
    <2>2. ASSUME NEW i \in DOMAIN inodes \ {Root}, inodes[i].parent = p, inodes[i].name = n
          PROVE  <<p, n>> \in DOMAIN dirents /\ dirents[<<p, n>>] = i
      BY <1>5, <2>2
    <2>3. ASSUME <<p, n>> \in DOMAIN dirents
          PROVE  /\ dirents[<<p, n>>] \in DOMAIN inodes \ {Root}
                 /\ inodes[dirents[<<p, n>>]].parent = p
                 /\ inodes[dirents[<<p, n>>]].name = n
      BY <1>4, <2>3
    <2> QED
      BY <2>1, <2>2, <2>3
  <1> QED
    BY <1>1, <1>6, <1>7, <1>8, <1>9

\* What is asked of the service may be asked of the namespace.
LEMMA SameRequests ==
    /\ NS!AskedIds = AskedIds /\ NS!AskedNames = AskedNames
  BY ClockAssumption DEF NS!AskedIds, NS!AskedNames, AskedIds, AskedNames, InodeIds, Root, NoId

\* An accepted Create, its answer heard or lost.
LEMMA CreateImplements ==
    ASSUME Serving, NEW p \in AskedIds, NEW n \in AskedNames, NEW d \in BOOLEAN,
           Create(p, n, d) \/ CreateThenCrash(p, n, d)
    PROVE  NS!Create(p, n, d)
  <1> DEFINE inode == NewInode(p, n, d)
  <1>1. /\ CreateCheck(p, n) = "OK" /\ clock <= MaxClock /\ clock' = clock + 1
        /\ clock \in Nat \ {0}
    <2>1. clock \in Nat \ {0}
      BY ClockAssumption DEF Serving, TypeOK
    <2>2. CreateCheck(p, n) = "OK" /\ clock <= MaxClock /\ clock' = clock + 1
      BY DEF Create, CreateThenCrash
    <2> QED
      BY <2>1, <2>2
  <1>2. boltInodes' = With(boltInodes, clock, inode)
    BY CreateStore DEF Serving, StoreAdds
  <1>3. NS!IsDir(p) /\ n \in Names \ SlashNames /\ NS!Named(p, n) = {}
    <2>1. /\ p \in DOMAIN inodes /\ inodes[p].isDir /\ n \in Names
          /\ <<p, n>> \notin DOMAIN dirents
      BY <1>1, AcceptedCreate DEF Serving
    <2>2. n \notin SlashNames
      BY <1>1 DEF CreateCheck
    <2> QED
      BY <2>1, <2>2, TreeFacts
  <1>4. /\ clock \in 1..MaxClock /\ clock \notin 1..(clock - 1)
        /\ 1..(clock' - 1) = 1..(clock - 1) \cup {clock}
    BY <1>1, ClockAssumption
  <1>5. StoredTree' = [i \in DOMAIN StoredTree \cup {clock} |->
                         IF i = clock THEN [parent |-> p, name |-> n, isDir |-> d]
                                      ELSE StoredTree[i]]
    <2>1. inode.parent = p /\ inode.name = n /\ inode.isDir = d
      BY DEF NewInode
    <2> HIDE DEF inode
    <2>2. clock # Root
      BY <1>1 DEF Root
    <2>3. DOMAIN boltInodes' \ {Root} = (DOMAIN boltInodes \ {Root}) \cup {clock}
      BY <1>2, <2>2 DEF With
    <2>4. \A i \in DOMAIN boltInodes' :
              boltInodes'[i] = IF i = clock THEN inode ELSE boltInodes[i]
      BY <1>2 DEF With
    <2> QED
      BY <2>1, <2>3, <2>4 DEF StoredTree
  <1>6. NS!Says("Create", <<p, n, d>>, "OK", {clock}) \/ NS!Lost
    BY DEF Create, CreateThenCrash, Answer, NewInodeId, LoseMemory, Down, NS!Says, NS!Lost
  <1> QED
    BY <1>3, <1>4, <1>5, <1>6 DEF NS!Create

LEMMA CreateRefusedImplements ==
    ASSUME Serving, NEW p \in AskedIds, NEW n \in AskedNames, NEW d \in BOOLEAN,
           CreateRefused(p, n, d)
    PROVE  NS!CreateRefused(p, n, d)
  <1> DEFINE code == CreateCheck(p, n)
  <1>1. /\ CreateCheck(p, n) # "OK"
        /\ NS!Says("Create", <<p, n, d>>, CreateCheck(p, n), {})
        /\ UNCHANGED <<StoredTree, 1..(clock - 1)>>
    BY DEF CreateRefused, Answer, NS!Says, StoredTree, disk
  <1>2. /\ NS!Nodes = DOMAIN inodes
        /\ NS!IsDir(p) <=> p \in DOMAIN inodes /\ inodes[p].isDir
        /\ <<p, n>> \in DOMAIN dirents => NS!Named(p, n) # {}
    BY TreeFacts
  <1>3. \/ code = "InvalidArgument" /\ (p = NoId \/ n \in SlashNames \cup {NoName})
        \/ code = "NotFound" /\ p \notin NS!Nodes
        \/ code = "FailedPrecondition" /\ p \in NS!Nodes /\ ~NS!IsDir(p)
        \/ code = "AlreadyExists" /\ NS!Named(p, n) # {}
    BY <1>1, <1>2 DEF CreateCheck
  <1> HIDE DEF code
  <1> QED
    BY <1>1, <1>3 DEF NS!CreateRefused, code

\* An accepted Unlink, its answer heard or lost.
LEMMA UnlinkImplements ==
    ASSUME Serving, NEW p \in AskedIds, NEW n \in AskedNames,
           Unlink(p, n) \/ UnlinkThenCrash(p, n)
    PROVE  NS!Unlink(p, n)
  <1> DEFINE id == dirents[<<p, n>>]
  <1>1. UnlinkCheck(p, n) = "Deleted" /\ clock' = clock
    BY DEF Unlink, UnlinkThenCrash
  <1>2. <<p, n>> \in DOMAIN dirents /\ id # Root /\ Under(dirents, id) = {}
    BY <1>1, AcceptedUnlinkFacts DEF Serving
  <1>3. boltInodes' = Without(boltInodes, {id})
    BY UnlinkStore, TreeFacts DEF Serving, StoreRemoves
  <1>4. id \in NS!Named(p, n) /\ NS!Children(id) = {}
    BY <1>2, TreeFacts
  <1>5. StoredTree' = [i \in DOMAIN StoredTree \ {id} |-> StoredTree[i]]
    <2> HIDE DEF id
    <2> QED
      BY <1>3 DEF StoredTree, Without, Restrict
  <1>6. NS!Says("Unlink", <<p, n>>, "Deleted", {id}) \/ NS!Lost
    BY DEF Unlink, UnlinkThenCrash, Answer, LoseMemory, Down, NS!Says, NS!Lost
  <1> HIDE DEF id
  <1> QED
    BY <1>1, <1>4, <1>5, <1>6 DEF NS!Unlink

LEMMA UnlinkRefusedImplements ==
    ASSUME Serving, NEW p \in AskedIds, NEW n \in AskedNames, UnlinkRefused(p, n)
    PROVE  NS!UnlinkRefused(p, n)
  <1> DEFINE code == UnlinkCheck(p, n)
             id == dirents[<<p, n>>]
  <1>1. /\ code # "Deleted" /\ NS!Says("Unlink", <<p, n>>, code, {})
        /\ UNCHANGED <<StoredTree, 1..(clock - 1)>>
    BY DEF UnlinkRefused, Answer, NS!Says, StoredTree, disk
  <1>2. CASE p \notin dirMaps
    <2>1. Under(dirents, p) = {}
      BY <1>2 DEF Serving, MapsInv, Under
    <2>2. NS!Children(p) = {} /\ code = "NotFound"
      BY <1>2, <2>1, TreeFacts DEF UnlinkCheck
    <2> QED
      BY <1>1, <2>2 DEF NS!UnlinkRefused
  <1>3. CASE p \in dirMaps /\ <<p, n>> \notin DOMAIN dirents
    <2>1. NS!IsDir(p) /\ NS!Named(p, n) = {}
      BY <1>3, TreeFacts DEF Serving, MapsInv
    <2>2. code = "NotDeleted"
      BY <1>3 DEF UnlinkCheck
    <2> QED
      BY <1>1, <2>1, <2>2 DEF NS!UnlinkRefused
  <1>4. CASE p \in dirMaps /\ <<p, n>> \in DOMAIN dirents
    <2>1. id \in DOMAIN inodes
      BY <1>4 DEF Serving, DurableInv, Sound, Leads
    <2>2. code = "FailedPrecondition" /\ Under(dirents, id) # {}
      BY <1>1, <1>4, <2>1 DEF UnlinkCheck
    <2>3. id \in NS!Named(p, n)
      BY <1>4, TreeFacts
    <2> HIDE DEF code, id
    <2>4. NS!Children(id) # {}
      <3>1. NS!Children(id) = {dirents[k] : k \in Under(dirents, id)}
        BY TreeFacts
      <3> QED
        BY <2>2, <3>1
    <2> QED
      BY <1>1, <2>2, <2>3, <2>4 DEF NS!UnlinkRefused
  <1> QED
    BY <1>2, <1>3, <1>4

LEMMA ReadImplements ==
    ASSUME Serving
    PROVE  /\ \A p \in AskedIds, n \in AskedNames : Lookup(p, n) => NS!Lookup(p, n)
           /\ \A i \in AskedIds : (Stat(i) => NS!Stat(i)) /\ (ListDir(i) => NS!ListDir(i))
  <1>same. ASSUME UNCHANGED <<up, memory, disk, clock, history>>
           PROVE  UNCHANGED <<StoredTree, 1..(clock - 1)>>
    BY <1>same DEF StoredTree, disk
  <1>1. ASSUME NEW p \in AskedIds, NEW n \in AskedNames, Lookup(p, n)
        PROVE  NS!Lookup(p, n)
    <2>1. CASE <<p, n>> \in DOMAIN dirents
      <3>1. p \in dirMaps /\ dirents[<<p, n>>] \in DOMAIN inodes
        <4>1. <<p, n>>[1] \in dirMaps
          BY <2>1 DEF Serving, MapsInv
        <4>2. dirents[<<p, n>>] \in DOMAIN inodes
          BY <2>1 DEF Serving, DurableInv, Sound, Leads
        <4> QED
          BY <4>1, <4>2
      <3>2. NS!Named(p, n) = {dirents[<<p, n>>]}
        BY <2>1, TreeFacts
      <3>3. reply' = [op |-> "Lookup", arg |-> <<p, n>>, code |-> "OK",
                      ids |-> NS!Named(p, n)]
        <4>1. {dirents[<<p, n>>]} \cap DOMAIN inodes = {dirents[<<p, n>>]}
          BY <3>1
        <4> QED
          BY <1>1, <2>1, <3>1, <3>2, <4>1 DEF Lookup, Answer
      <3> QED
        BY <1>1, <1>same, <3>2, <3>3 DEF Lookup, NS!Lookup, NS!Says
    <2>2. CASE <<p, n>> \notin DOMAIN dirents
      <3>1. NS!Named(p, n) = {}
        BY <2>2, TreeFacts
      <3> QED
        BY <1>1, <1>same, <2>2, <3>1 DEF Lookup, Answer, NS!Lookup, NS!Says
    <2> QED
      BY <2>1, <2>2
  <1>2. ASSUME NEW i \in AskedIds, Stat(i) PROVE NS!Stat(i)
    <2>1. NS!Nodes = DOMAIN inodes
      BY TreeFacts
    <2>2. CASE i \in DOMAIN inodes
      <3>1. {i} \cap NS!Nodes = {i}
        BY <2>1, <2>2
      <3> QED
        BY <1>2, <1>same, <2>1, <2>2, <3>1 DEF Stat, Answer, NS!Stat, NS!Says
    <2>3. CASE i \notin DOMAIN inodes
      <3>1. {i} \cap NS!Nodes = {}
        BY <2>1, <2>3
      <3> QED
        BY <1>2, <1>same, <2>1, <2>3, <3>1 DEF Stat, Answer, NS!Stat, NS!Says
    <2> QED
      BY <2>2, <2>3
  <1>3. ASSUME NEW i \in AskedIds, ListDir(i) PROVE NS!ListDir(i)
    <2>1. NS!Children(i) = {dirents[k] : k \in Under(dirents, i)}
      BY TreeFacts
    <2>2. CASE i \in dirMaps
      <3>1. NS!IsDir(i)
        BY <2>2, TreeFacts DEF Serving, MapsInv
      <3>2. NS!Children(i) \cap DOMAIN inodes = NS!Children(i)
        <4>1. \A k \in Under(dirents, i) : dirents[k] \in DOMAIN inodes
          BY DEF Serving, DurableInv, Sound, Leads, Under
        <4> QED
          BY <2>1, <4>1
      <3> QED
        BY <1>3, <1>same, <2>1, <2>2, <3>1, <3>2 DEF ListDir, Answer, NS!ListDir, NS!Says
    <2>3. CASE i \notin dirMaps
      <3>1. Under(dirents, i) = {}
        BY <2>3 DEF Serving, MapsInv, Under
      <3>2. NS!Children(i) = {}
        BY <2>1, <3>1
      <3> QED
        BY <1>3, <1>same, <2>3, <3>2 DEF ListDir, Answer, NS!ListDir, NS!Says
    <2> QED
      BY <2>2, <2>3
  <1> QED
    BY <1>1, <1>2, <1>3

\* A step that shows nothing of itself.
LEMMA Unseen ==
    ASSUME UNCHANGED <<StoredTree, clock, reply>>
    PROVE  UNCHANGED NS!vars
  BY DEF NS!vars

\* Every step of the service is one of the namespace, or shows nothing.
LEMMA StepImplements ==
    ASSUME ~PersistMayFail
    PROVE  (TypeOK /\ RootInv /\ DurableInv /\ Mirror /\ Rooted /\ MapsInv) /\ [Next]_vars
               => [NS!Next]_(NS!vars)
  <1> SUFFICES ASSUME TypeOK, RootInv, DurableInv, Mirror, Rooted, MapsInv, [Next]_vars
               PROVE  NS!Next \/ UNCHANGED NS!vars
    OBVIOUS
  <1>asked. NS!AskedIds = AskedIds /\ NS!AskedNames = AskedNames
    BY SameRequests
  <1>1. CASE Start
    <2>1. /\ UNCHANGED <<clock, reply>>
          /\ boltInodes' = boltInodes \/ boltInodes' = With(boltInodes, Root, RootInode)
      BY <1>1, StartStore DEF Start
    <2>2. UNCHANGED StoredTree
      <3>1. CASE boltInodes' = boltInodes
        BY <3>1 DEF StoredTree
      <3>2. CASE boltInodes' = With(boltInodes, Root, RootInode)
        <4>1. /\ DOMAIN boltInodes' \ {Root} = DOMAIN boltInodes \ {Root}
              /\ \A i \in DOMAIN boltInodes \ {Root} : boltInodes'[i] = boltInodes[i]
          BY <3>2 DEF With
        <4> QED
          BY <4>1 DEF StoredTree
      <3> QED
        BY <2>1, <3>1, <3>2
    <2> QED
      BY <2>1, <2>2, Unseen
  <1>2. CASE Crash
    <2>1. NS!Lost /\ UNCHANGED <<StoredTree, 1..(clock - 1)>>
      BY <1>2 DEF Crash, LoseMemory, Down, NS!Lost, StoredTree, disk
    <2> QED
      BY <2>1 DEF NS!Restart, NS!Next
  <1>3. CASE CreateStep
    <2>1. PICK p \in AskedIds, n \in AskedNames, d \in BOOLEAN :
              \/ Create(p, n, d) \/ CreateThenCrash(p, n, d)
              \/ CreateRefused(p, n, d)
      BY <1>3 DEF CreateStep, CreateNotPersisted
    <2>2. Serving
      BY <2>1 DEF Serving, Create, CreateThenCrash, CreateRefused
    <2>3. NS!Create(p, n, d) \/ NS!CreateRefused(p, n, d)
      BY <2>1, <2>2, CreateImplements, CreateRefusedImplements
    <2> QED
      BY <2>3, <1>asked DEF NS!Next
  <1>4. CASE UnlinkStep
    <2>1. PICK p \in AskedIds, n \in AskedNames :
              \/ Unlink(p, n) \/ UnlinkThenCrash(p, n) \/ UnlinkRefused(p, n)
      BY <1>4 DEF UnlinkStep, UnlinkNotPersisted
    <2>2. Serving
      BY <2>1 DEF Serving, Unlink, UnlinkThenCrash, UnlinkRefused
    <2>3. NS!Unlink(p, n) \/ NS!UnlinkRefused(p, n)
      BY <2>1, <2>2, UnlinkImplements, UnlinkRefusedImplements
    <2> QED
      BY <2>3, <1>asked DEF NS!Next
  <1>5. CASE ReadStep
    <2>1. Serving
      BY <1>5 DEF Serving, ReadStep, Lookup, Stat, ListDir
    <2>2. CASE \E p \in AskedIds, n \in AskedNames : Lookup(p, n)
      BY <2>1, <2>2, <1>asked, ReadImplements DEF NS!Next
    <2>3. CASE \E i \in AskedIds : Stat(i) \/ ListDir(i)
      BY <2>1, <2>3, <1>asked, ReadImplements DEF NS!Next
    <2> QED
      BY <1>5, <2>2, <2>3 DEF ReadStep
  <1>6. CASE UNCHANGED vars
    BY <1>6, Unseen DEF vars, disk, StoredTree
  <1> QED
    BY <1>1, <1>2, <1>3, <1>4, <1>5, <1>6 DEF Next

\* With a store that does not fail the service is a durable tree on which every
\* request acts at one instant: for any names, ids and number of requests, and
\* in spite of handlers that read memory and crashes that swallow answers.
THEOREM ServiceImplementsNamespace ==
    ASSUME ~PersistMayFail
    PROVE  Spec => NamespaceImplemented
  <1>1. Init => NS!Init
    <2> SUFFICES ASSUME Init PROVE NS!Init
      OBVIOUS
    <2>1. DOMAIN boltInodes = {} /\ clock = 1 /\ reply = Down
      BY DEF Init, Empty
    <2>2. StoredTree = [i \in {} |-> 0]
      BY <2>1 DEF StoredTree
    <2>3. 1..(clock - 1) = {}
      BY <2>1
    <2> QED
      BY <2>1, <2>2, <2>3 DEF NS!Init, Down
  <1>2. (TypeOK /\ RootInv /\ DurableInv /\ Mirror /\ Rooted /\ MapsInv) /\ [Next]_vars
            => [NS!Next]_(NS!vars)
    BY StepImplements
  <1> QED
    BY <1>1, <1>2, TypeCorrect, RootInvariant, DurableInvariant, TreeInvariant,
       MapsInvariant, PTL DEF Spec, NamespaceImplemented, NS!Spec
=============================================================================
