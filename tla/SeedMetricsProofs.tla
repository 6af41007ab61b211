--------------------------- MODULE SeedMetricsProofs ---------------------------
(***************************************************************************)
(* The seed-metrics clients over a metadata service that fails, dies and   *)
(* comes back: the service keeps the invariants proved of it alone, and    *)
(* they keep the clients apart.                                            *)
(***************************************************************************)
EXTENDS SeedMetrics, MDSProofs

-----------------------------------------------------------------------------
(* The invariant.                                                          *)

ClientPcs ==
    {"dial", "create", "browse", "write", "read", "delete", "unlink", "ok", "fatal"}

\* Between CreateFile and UnlinkFile.
Holding(c) == client[c].pc \in {"browse", "write", "read", "delete", "unlink"}

Gots == {<<>>} \cup (Clients \X Nat)

ClientRecord ==
    [pc : ClientPcs, i : Nat, file : InodeIds \cup {NoId}, got : Gots,
     mine : SUBSET InodeIds, clean : BOOLEAN]

BlockTypes ==
    /\ DOMAIN blocks \subseteq InodeIds
    /\ blocks \in [DOMAIN blocks -> {Torn} \cup (Clients \X Nat)]
    /\ abandoned \subseteq InodeIds

ClientTypes ==
    /\ client \in [Clients -> ClientRecord]
    /\ \A c \in Clients : client[c].i \in 1..Iterations[c]

\* The file of a client is the one it was told it has created, under a name that
\* only it uses.
OwnFile(c) ==
    /\ client[c].file # NoId <=> Holding(c)
    /\ Holding(c) => /\ client[c].file \in client[c].mine
                     /\ <<Root, Name(c)>> \in DOMAIN acked
                     /\ acked[<<Root, Name(c)>>] = client[c].file
    /\ \A id \in client[c].mine : id < clock

\* Ids are given out once.
IdsDiffer ==
    \A c, d \in Clients : c # d => client[c].mine \cap client[d].mine = {}

\* A client's block holds its own data while it is to be read, and is not there
\* once DeleteBlock is over and went well.
OwnBlock(c) ==
    /\ client[c].got # <<>> => client[c].pc = "delete" /\ client[c].got = Payload(c)
    /\ client[c].pc = "read" /\ client[c].file \in DOMAIN blocks =>
           blocks[client[c].file] = Payload(c)
    /\ client[c].pc = "unlink" /\ client[c].file \in DOMAIN blocks =>
           client[c].file \in abandoned /\ ~client[c].clean

\* Of the files a client is done with nothing is left, if all went well.
Finished(c) ==
    client[c].pc # "fatal" /\ client[c].clean =>
        \A id \in client[c].mine \ {client[c].file} :
            id \in removed /\ id \notin DOMAIN blocks

SeedInv ==
    /\ BlockTypes /\ ClientTypes
    /\ \A c \in Clients : OwnFile(c) /\ OwnBlock(c) /\ Finished(c)
    /\ IdsDiffer
    /\ OrphansWereAbandoned

-----------------------------------------------------------------------------
(* The service below.                                                      *)

ServiceInv == TypeOK /\ RootInv /\ DurableInv

\* A client asks for names and ids that any client may ask for.
LEMMA ClientFacts ==
    ASSUME ClientTypes, NEW c \in Clients
    PROVE  /\ client[c] \in ClientRecord /\ client[c].i \in 1..Iterations[c]
           /\ Name(c) \in Names \ SlashNames
           /\ Payload(c) \in Clients \X Nat /\ Payload(c) # <<>>
  <1>1. client[c] \in ClientRecord /\ client[c].i \in 1..Iterations[c]
    BY DEF ClientTypes
  <1>2. client[c].i \in Nat
    BY <1>1 DEF ClientRecord
  <1>3. <<c, client[c].i>> \in UNION {{d} \X (1..Iterations[d]) : d \in Clients}
    BY <1>1
  <1>4. Name(c) \in Names \ SlashNames
    BY <1>3, FileNameAssumption DEF Name
  <1> QED
    BY <1>1, <1>2, <1>4 DEF Payload

LEMMA NamesDiffer ==
    ASSUME ClientTypes, NEW c \in Clients, NEW d \in Clients, c # d
    PROVE  <<Root, Name(c)>> # <<Root, Name(d)>>
  <1>1. /\ client[c].i \in 1..Iterations[c] /\ client[d].i \in 1..Iterations[d]
    BY DEF ClientTypes
  <1>2. /\ <<c, client[c].i>> \in UNION {{e} \X (1..Iterations[e]) : e \in Clients}
        /\ <<d, client[d].i>> \in UNION {{e} \X (1..Iterations[e]) : e \in Clients}
    BY <1>1
  <1>3. /\ <<c, client[c].i>> \in DOMAIN FileName /\ <<d, client[d].i>> \in DOMAIN FileName
        /\ <<c, client[c].i>> # <<d, client[d].i>>
    BY <1>2, FileNameAssumption
  <1>4. Name(c) # Name(d)
    BY <1>3, FileNameAssumption DEF Name
  <1> QED
    BY <1>4

\* What the clients and the failures do to the service is what any client may do.
LEMMA StepIsService == ClientTypes /\ [SNext]_all => [Next]_vars
  <1> SUFFICES ASSUME ClientTypes, [SNext]_all PROVE [Next]_vars
    OBVIOUS
  <1>1. CASE UNCHANGED all
    BY <1>1 DEF all, mds
  <1>2. CASE (Start \/ Crash) /\ UNCHANGED <<blocks, client, expired, abandoned>>
    BY <1>2 DEF Next
  <1>3. ASSUME NEW c \in Clients, Step(c) \/ Expire(c) \/ KillClient(c)
        PROVE  [Next]_vars
    <2>1. Root \in AskedIds /\ Name(c) \in AskedNames /\ FALSE \in BOOLEAN
      BY ClientFacts, ClockAssumption DEF AskedIds, AskedNames, InodeIds, Root
    <2>2. CASE CreateFile(c)
      <3>1. \/ UNCHANGED mds
            \/ Create(Root, Name(c), FALSE) \/ CreateNotPersisted(Root, Name(c), FALSE)
            \/ CreateThenCrash(Root, Name(c), FALSE) \/ CreateRefused(Root, Name(c), FALSE)
        BY <2>2 DEF CreateFile
      <3> QED
        BY <2>1, <3>1 DEF Next, CreateStep, mds
    <2>3. CASE UnlinkFile(c)
      <3>1. \/ UNCHANGED mds
            \/ Unlink(Root, Name(c)) \/ UnlinkNotPersisted(Root, Name(c))
            \/ UnlinkThenCrash(Root, Name(c)) \/ UnlinkRefused(Root, Name(c))
        BY <2>3 DEF UnlinkFile
      <3> QED
        BY <2>1, <3>1 DEF Next, UnlinkStep, mds
    <2>4. CASE ~CreateFile(c) /\ ~UnlinkFile(c)
      BY <1>3, <2>4 DEF Step, Dial, Browse, WriteBlock, ReadBlock, DeleteBlock,
         Expire, KillClient, mds
    <2> QED
      BY <2>2, <2>3, <2>4
  <1> QED
    BY <1>1, <1>2, <1>3 DEF SNext

LEMMA ServiceKept ==
    ASSUME ServiceInv, [Next]_vars
    PROVE  ServiceInv'
  <1>1. [SteppedNext]_vars
    BY DEF SteppedNext
  <1> QED
    BY <1>1, StepTypes, NextKeepsRoot, NextDurable DEF ServiceInv

\* A file that a client holds is stored, and is neither the root nor removed.
LEMMA HeldFile ==
    ASSUME ServiceInv, SeedInv, NEW c \in Clients, Holding(c)
    PROVE  /\ client[c].file \in InodeIds /\ client[c].file \in DOMAIN boltInodes
           /\ <<Root, Name(c)>> \in DOMAIN boltDirents
           /\ boltDirents[<<Root, Name(c)>>] = client[c].file
           /\ up => /\ <<Root, Name(c)>> \in DOMAIN dirents
                    /\ dirents[<<Root, Name(c)>>] = client[c].file
  <1>1. /\ <<Root, Name(c)>> \in DOMAIN acked
        /\ acked[<<Root, Name(c)>>] = client[c].file
        /\ client[c].file # NoId
    BY DEF SeedInv, OwnFile
  <1>2. client[c].file \in InodeIds
    BY <1>1, ClientFacts DEF SeedInv, ClientRecord
  <1> QED
    BY <1>1, <1>2 DEF ServiceInv, DurableInv, AckedDurable

-----------------------------------------------------------------------------
(* What a step of one client leaves to the others.                         *)

Becomes(c, r) == client' = [client EXCEPT ![c] = r]

\* The step of a client ends at its own entry and its own block.
Beside(c) ==
    /\ \A k \in DOMAIN acked : k # <<Root, Name(c)>> =>
           k \in DOMAIN acked' /\ acked'[k] = acked[k]
    /\ \A id \in InodeIds : id # client[c].file =>
           /\ id \in DOMAIN blocks' <=> id \in DOMAIN blocks
           /\ id \in DOMAIN blocks => blocks'[id] = blocks[id]
    /\ removed \subseteq removed' /\ abandoned \subseteq abandoned'
    /\ clock <= clock'

LEMMA BecomesFacts ==
    ASSUME ClientTypes, NEW c \in Clients, NEW r \in ClientRecord,
           r.i \in 1..Iterations[c], Becomes(c, r)
    PROVE  /\ ClientTypes' /\ client'[c] = r
           /\ \A d \in Clients \ {c} : client'[d] = client[d]
  <1>1. client' = [client EXCEPT ![c] = r] /\ client \in [Clients -> ClientRecord]
    BY DEF Becomes, ClientTypes
  <1>2. /\ client' \in [Clients -> ClientRecord] /\ client'[c] = r
        /\ \A d \in Clients \ {c} : client'[d] = client[d]
    BY <1>1
  <1>3. \A d \in Clients : client'[d].i \in 1..Iterations[d]
    BY <1>2 DEF ClientTypes
  <1> QED
    BY <1>2, <1>3 DEF ClientTypes

\* The fields of a client.
LEMMA FieldFacts ==
    ASSUME ClientTypes, NEW c \in Clients
    PROVE  /\ client[c].pc \in ClientPcs /\ client[c].i \in 1..Iterations[c]
           /\ client[c].file \in InodeIds \cup {NoId} /\ client[c].got \in Gots
           /\ client[c].mine \in SUBSET InodeIds /\ client[c].clean \in BOOLEAN
  BY DEF ClientTypes, ClientRecord

\* The four ways in which main goes on.
Goes(r, pc) == [r EXCEPT !.pc = pc]
Ends(r)     == [r EXCEPT !.pc = "fatal", !.file = NoId, !.got = <<>>]
Shrugs(r, pc) == [r EXCEPT !.pc = pc, !.got = <<>>, !.clean = FALSE]
Loops(r, n, ok) ==
    [r EXCEPT !.pc = IF r.i < n THEN "create" ELSE "ok",
              !.i = IF r.i < n THEN r.i + 1 ELSE r.i,
              !.file = NoId, !.got = <<>>, !.clean = r.clean /\ ok]

LEMMA StepForms ==
    ASSUME ClientTypes, NEW c \in Clients
    PROVE  /\ \A pc \in ClientPcs : Goto(c, pc) => Becomes(c, Goes(client[c], pc))
           /\ Fatal(c) => Becomes(c, Ends(client[c]))
           /\ \A pc \in ClientPcs : Ignore(c, pc) => Becomes(c, Shrugs(client[c], pc))
           /\ Unlinked(c, TRUE) => Becomes(c, Loops(client[c], Iterations[c], TRUE))
           /\ Unlinked(c, FALSE) => Becomes(c, Loops(client[c], Iterations[c], FALSE))
  <1>1. client \in [Clients -> ClientRecord] /\ client[c] \in ClientRecord
    BY DEF ClientTypes
  <1>2. \A pc \in ClientPcs : Goto(c, pc) => Becomes(c, Goes(client[c], pc))
    BY <1>1 DEF Goto, Becomes, Goes
  <1>3. Fatal(c) => Becomes(c, Ends(client[c]))
    BY <1>1 DEF Fatal, Becomes, Ends, ClientRecord
  <1>4. \A pc \in ClientPcs : Ignore(c, pc) => Becomes(c, Shrugs(client[c], pc))
    BY <1>1 DEF Ignore, Becomes, Shrugs, ClientRecord
  <1>5. /\ Unlinked(c, TRUE) => Becomes(c, Loops(client[c], Iterations[c], TRUE))
        /\ Unlinked(c, FALSE) => Becomes(c, Loops(client[c], Iterations[c], FALSE))
    BY <1>1 DEF Unlinked, Becomes, Loops, ClientRecord
  <1> QED
    BY <1>2, <1>3, <1>4, <1>5

LEMMA MineBelow ==
    ASSUME ServiceInv, ServiceInv', SeedInv, NEW c \in Clients, clock <= clock'
    PROVE  /\ clock \in Nat /\ clock' \in Nat
           /\ \A id \in client[c].mine : id \in Int /\ id < clock /\ id # clock /\ id < clock'
  <1>1. clock \in Nat /\ clock' \in Nat
    BY ClockAssumption DEF ServiceInv, TypeOK
  <1>2. client[c].mine \subseteq InodeIds /\ \A id \in client[c].mine : id < clock
    BY FieldFacts DEF SeedInv, OwnFile
  <1>3. \A id \in InodeIds : id \in Int
    BY ClockAssumption DEF InodeIds
  <1> QED
    BY <1>1, <1>2, <1>3

\* Ids of one client are not the file of another.
LEMMA OthersKeep ==
    ASSUME ServiceInv, ServiceInv', SeedInv, NEW c \in Clients, NEW d \in Clients, c # d,
           client'[d] = client[d], Beside(c)
    PROVE  (OwnFile(d) /\ OwnBlock(d) /\ Finished(d))'
  <1>1. /\ OwnFile(c) /\ OwnFile(d) /\ OwnBlock(d) /\ Finished(d)
        /\ client[c].mine \cap client[d].mine = {}
        /\ client[d].mine \subseteq InodeIds /\ client[c].file \in InodeIds \cup {NoId}
    BY FieldFacts DEF SeedInv, IdsDiffer
  <1>2. <<Root, Name(d)>> # <<Root, Name(c)>>
    BY NamesDiffer DEF SeedInv
  <1>3. Name(d)' = Name(d) /\ Payload(d)' = Payload(d) /\ (Holding(d)' <=> Holding(d))
    BY DEF Name, Payload, Holding
  <1>4. \A id \in client[d].mine : id \in InodeIds /\ id # client[c].file
    BY <1>1 DEF OwnFile, InodeIds, NoId
  <1>5. OwnFile(d)'
    <2>1. \A id \in client[d].mine : id < clock'
      BY MineBelow DEF SeedInv, Beside
    <2> QED
      BY <1>1, <1>2, <1>3, <2>1 DEF OwnFile, Beside
  <1>6. OwnBlock(d)'
    <2>1. client[d].pc \in {"read", "unlink"} => client[d].file \in client[d].mine
      BY <1>1 DEF OwnFile, Holding
    <2> QED
      BY <1>1, <1>3, <1>4, <2>1 DEF OwnBlock, Beside
  <1>7. Finished(d)'
    BY <1>1, <1>4 DEF Finished, Beside
  <1> QED
    BY <1>5, <1>6, <1>7

LEMMA StepKeeps ==
    ASSUME ServiceInv, ServiceInv', SeedInv, NEW c \in Clients, NEW r \in ClientRecord,
           r.i \in 1..Iterations[c], Becomes(c, r), Beside(c), BlockTypes',
           r.mine \subseteq client[c].mine \cup {clock},
           (OwnFile(c) /\ OwnBlock(c) /\ Finished(c))', OrphansWereAbandoned'
    PROVE  SeedInv'
  <1>0. clock <= clock' /\ ClientTypes
    BY DEF Beside, SeedInv
  <1>1. /\ ClientTypes' /\ client'[c] = r
        /\ \A d \in Clients \ {c} : client'[d] = client[d]
    BY <1>0, BecomesFacts
  <1>2. \A d \in Clients : (OwnFile(d) /\ OwnBlock(d) /\ Finished(d))'
    BY <1>1, OthersKeep
  <1>3. \A d \in Clients : \A id \in client[d].mine : id # clock
    BY <1>0, MineBelow
  <1>4. IdsDiffer'
    BY <1>1, <1>3 DEF SeedInv, IdsDiffer
  <1> QED
    BY <1>1, <1>2, <1>4 DEF SeedInv

\* What happens to the service alone, or to no client.
LEMMA ServiceStepKeeps ==
    ASSUME ServiceInv, ServiceInv', SeedInv,
           client' = client, blocks' = blocks, abandoned' = abandoned,
           acked' = acked, removed' = removed, clock <= clock',
           DOMAIN boltInodes \subseteq DOMAIN boltInodes'
    PROVE  SeedInv'
  <1>1. ASSUME NEW d \in Clients
        PROVE  (OwnFile(d) /\ OwnBlock(d) /\ Finished(d))'
    <2>1. Name(d)' = Name(d) /\ Payload(d)' = Payload(d) /\ (Holding(d)' <=> Holding(d))
      BY DEF Name, Payload, Holding
    <2>2. \A id \in client[d].mine : id < clock'
      BY MineBelow DEF SeedInv
    <2> QED
      BY <2>1, <2>2 DEF SeedInv, OwnFile, OwnBlock, Finished
  <1> QED
    BY <1>1 DEF SeedInv, BlockTypes, ClientTypes, IdsDiffer, OrphansWereAbandoned

-----------------------------------------------------------------------------
(* What each step does.                                                    *)

LEMMA FormFacts ==
    ASSUME ClientTypes, NEW c \in Clients
    PROVE  LET r == client[c]
           IN  /\ \A pc \in ClientPcs :
                      LET s == Goes(r, pc)
                      IN  /\ s \in ClientRecord /\ s.pc = pc /\ s.i = r.i
                          /\ s.file = r.file /\ s.got = r.got
                          /\ s.mine = r.mine /\ s.clean = r.clean
               /\ LET s == Ends(r)
                  IN  /\ s \in ClientRecord /\ s.pc = "fatal" /\ s.i = r.i
                      /\ s.file = NoId /\ s.got = <<>>
                      /\ s.mine = r.mine /\ s.clean = r.clean
               /\ \A pc \in ClientPcs :
                      LET s == Shrugs(r, pc)
                      IN  /\ s \in ClientRecord /\ s.pc = pc /\ s.i = r.i
                          /\ s.file = r.file /\ s.got = <<>>
                          /\ s.mine = r.mine /\ ~s.clean
               /\ \A ok \in BOOLEAN :
                      LET s == Loops(r, Iterations[c], ok)
                      IN  /\ s \in ClientRecord /\ s.pc \in {"create", "ok"}
                          /\ s.i \in 1..Iterations[c]
                          /\ s.file = NoId /\ s.got = <<>>
                          /\ s.mine = r.mine /\ s.clean = (r.clean /\ ok)
  <1> DEFINE r == client[c]
  <1>1. r \in ClientRecord /\ r.i \in 1..Iterations[c] /\ Iterations[c] \in Nat /\ r.i \in Nat
    BY ClientFacts, IterationsAssumption DEF ClientRecord
  <1>2. <<>> \in Gots /\ NoId \in InodeIds \cup {NoId}
    BY DEF Gots
  <1> HIDE DEF r
  <1>3. ASSUME NEW pc \in ClientPcs
        PROVE  /\ Goes(r, pc) \in ClientRecord /\ Goes(r, pc).pc = pc
               /\ Goes(r, pc).i = r.i /\ Goes(r, pc).file = r.file
               /\ Goes(r, pc).got = r.got /\ Goes(r, pc).mine = r.mine
               /\ Goes(r, pc).clean = r.clean
    BY <1>1 DEF Goes, ClientRecord
  <1>4. /\ Ends(r) \in ClientRecord /\ Ends(r).pc = "fatal" /\ Ends(r).i = r.i
        /\ Ends(r).file = NoId /\ Ends(r).got = <<>> /\ Ends(r).mine = r.mine
        /\ Ends(r).clean = r.clean
    BY <1>1, <1>2 DEF Ends, ClientRecord, ClientPcs
  <1>5. ASSUME NEW pc \in ClientPcs
        PROVE  /\ Shrugs(r, pc) \in ClientRecord /\ Shrugs(r, pc).pc = pc
               /\ Shrugs(r, pc).i = r.i /\ Shrugs(r, pc).file = r.file
               /\ Shrugs(r, pc).got = <<>> /\ Shrugs(r, pc).mine = r.mine
               /\ ~Shrugs(r, pc).clean
    BY <1>1, <1>2 DEF Shrugs, ClientRecord
  <1>6. ASSUME NEW ok \in BOOLEAN
        PROVE  LET s == Loops(r, Iterations[c], ok)
               IN  /\ s \in ClientRecord /\ s.pc \in {"create", "ok"}
                   /\ s.i \in 1..Iterations[c]
                   /\ s.file = NoId /\ s.got = <<>>
                   /\ s.mine = r.mine /\ s.clean = (r.clean /\ ok)
    <2>1. /\ (IF r.i < Iterations[c] THEN r.i + 1 ELSE r.i) \in 1..Iterations[c]
          /\ (IF r.i < Iterations[c] THEN r.i + 1 ELSE r.i) \in Nat
      BY <1>1
    <2>2. (IF r.i < Iterations[c] THEN "create" ELSE "ok") \in {"create", "ok"}
      OBVIOUS
    <2> QED
      BY <1>1, <1>2, <2>1, <2>2 DEF Loops, ClientRecord, ClientPcs
  <1> QED
    BY <1>3, <1>4, <1>5, <1>6 DEF r

\* What any CreateFile of a client leaves of the service's store and history.
LEMMA CreateEffect ==
    ASSUME ServiceInv, NEW n \in Names, Root \in AskedIds,
           \/ Create(Root, n, FALSE) \/ CreateNotPersisted(Root, n, FALSE)
           \/ CreateThenCrash(Root, n, FALSE) \/ CreateRefused(Root, n, FALSE)
           \/ UNCHANGED mds
    PROVE  /\ DOMAIN boltInodes \subseteq DOMAIN boltInodes'
           /\ removed' = removed /\ clock <= clock'
           /\ \/ acked' = acked
              \/ /\ acked' = With(acked, <<Root, n>>, clock) /\ clock < clock'
                 /\ clock <= MaxClock /\ Create(Root, n, FALSE)
  <1>1. clock \in Nat
    BY ClockAssumption DEF ServiceInv, TypeOK
  <1>3. CASE Create(Root, n, FALSE)
    BY <1>1, <1>3 DEF Create, NewInodeId, NewInode, PersistCreate, With
  <1>4. CASE CreateNotPersisted(Root, n, FALSE)
    BY <1>1, <1>4 DEF CreateNotPersisted, disk, history
  <1>5. CASE CreateThenCrash(Root, n, FALSE)
    BY <1>1, <1>5 DEF CreateThenCrash, PersistCreate, With, history
  <1>6. CASE CreateRefused(Root, n, FALSE)
    BY <1>1, <1>6 DEF CreateRefused, disk, history
  <1>7. CASE UNCHANGED mds
    BY <1>1, <1>7 DEF mds, vars, disk, history
  <1> QED
    BY <1>3, <1>4, <1>5, <1>6, <1>7

\* What any UnlinkFile of a client that holds a file leaves of them.
LEMMA UnlinkEffect ==
    ASSUME ServiceInv, SeedInv, NEW c \in Clients, Holding(c),
           \/ Unlink(Root, Name(c)) \/ UnlinkNotPersisted(Root, Name(c))
           \/ UnlinkThenCrash(Root, Name(c)) \/ UnlinkRefused(Root, Name(c))
           \/ UNCHANGED mds
    PROVE  /\ DOMAIN boltInodes \ {client[c].file} \subseteq DOMAIN boltInodes'
           /\ removed \subseteq removed' /\ clock' = clock
           /\ acked' = acked \/ acked' = Without(acked, {<<Root, Name(c)>>})
           /\ Unlink(Root, Name(c)) => client[c].file \in removed'
  <1>1. up => dirents[<<Root, Name(c)>>] = client[c].file
    BY HeldFile
  <1>2. ASSUME NEW id, PersistUnlink(Root, Name(c), id)
        PROVE  DOMAIN boltInodes \ {id} \subseteq DOMAIN boltInodes'
    BY <1>2 DEF PersistUnlink, Without, Restrict
  <1>3. CASE Unlink(Root, Name(c))
    <2>1. /\ up /\ PersistUnlink(Root, Name(c), dirents[<<Root, Name(c)>>])
          /\ removed' = removed \cup {dirents[<<Root, Name(c)>>]}
          /\ acked' = Without(acked, {<<Root, Name(c)>>}) /\ clock' = clock
      BY <1>3 DEF Unlink
    <2> QED
      BY <1>1, <1>2, <2>1
  <1>4. CASE UnlinkNotPersisted(Root, Name(c)) /\ ~Unlink(Root, Name(c))
    BY <1>4 DEF UnlinkNotPersisted, disk
  <1>5. CASE UnlinkThenCrash(Root, Name(c)) /\ ~Unlink(Root, Name(c))
    <2>1. /\ up /\ PersistUnlink(Root, Name(c), dirents[<<Root, Name(c)>>])
          /\ removed' = removed
          /\ acked' = Without(acked, {<<Root, Name(c)>>}) /\ clock' = clock
      BY <1>5 DEF UnlinkThenCrash
    <2> QED
      BY <1>1, <1>2, <1>5, <2>1
  <1>6. CASE UnlinkRefused(Root, Name(c)) /\ ~Unlink(Root, Name(c))
    BY <1>6 DEF UnlinkRefused, disk, history
  <1>7. CASE UNCHANGED mds /\ ~Unlink(Root, Name(c))
    BY <1>7 DEF mds, vars, disk, history
  <1> QED
    BY <1>3, <1>4, <1>5, <1>6, <1>7

LEMMA IdleService ==
    ASSUME UNCHANGED mds
    PROVE  /\ boltInodes' = boltInodes /\ acked' = acked /\ removed' = removed
           /\ clock' = clock
  BY DEF mds, vars, disk, history

\* The forms of ReadBlock, DeleteBlock and CreateFile.
Moves(r, pc, got) == [r EXCEPT !.pc = pc, !.got = got]
Opens(r, id)      == [r EXCEPT !.pc = "browse", !.file = id, !.mine = r.mine \cup {id}]

LEMMA MoveForm ==
    ASSUME ClientTypes, NEW c \in Clients, NEW pc \in ClientPcs, NEW got \in Gots
    PROVE  /\ client' = [client EXCEPT ![c].pc = pc, ![c].got = got] =>
                  Becomes(c, Moves(client[c], pc, got))
           /\ LET s == Moves(client[c], pc, got)
              IN  /\ s \in ClientRecord /\ s.pc = pc /\ s.i = client[c].i
                  /\ s.file = client[c].file /\ s.got = got
                  /\ s.mine = client[c].mine /\ s.clean = client[c].clean
  <1>1. client \in [Clients -> ClientRecord] /\ client[c] \in ClientRecord
    BY DEF ClientTypes
  <1> QED
    BY <1>1 DEF Moves, Becomes, ClientRecord

LEMMA OpenForm ==
    ASSUME ClientTypes, NEW c \in Clients, NEW id \in InodeIds
    PROVE  /\ client' = [client EXCEPT ![c].pc = "browse", ![c].file = id,
                                       ![c].mine = @ \cup {id}] =>
                  Becomes(c, Opens(client[c], id))
           /\ LET s == Opens(client[c], id)
              IN  /\ s \in ClientRecord /\ s.pc = "browse" /\ s.i = client[c].i
                  /\ s.file = id /\ s.got = client[c].got
                  /\ s.mine = client[c].mine \cup {id} /\ s.clean = client[c].clean
  <1>1. client \in [Clients -> ClientRecord] /\ client[c] \in ClientRecord
    BY DEF ClientTypes
  <1> QED
    BY <1>1 DEF Opens, Becomes, ClientRecord, ClientPcs

-----------------------------------------------------------------------------
(* One lemma per step.                                                     *)

\* A client that ends leaves whatever its last call has done.
LEMMA FatalKeeps ==
    ASSUME ServiceInv, ServiceInv', SeedInv, NEW c \in Clients, Fatal(c), Beside(c),
           BlockTypes', OrphansWereAbandoned'
    PROVE  SeedInv'
  <1> DEFINE r == Ends(client[c])
  <1>1. /\ ClientTypes /\ r \in ClientRecord /\ r.pc = "fatal" /\ r.i = client[c].i
        /\ r.file = NoId /\ r.got = <<>> /\ r.mine = client[c].mine
        /\ r.i \in 1..Iterations[c]
    BY FormFacts, FieldFacts DEF SeedInv
  <1>2. Becomes(c, r)
    BY <1>1, StepForms
  <1> HIDE DEF r
  <1>3. client'[c] = r
    BY <1>1, <1>2, BecomesFacts
  <1>4. \A id \in client[c].mine : id < clock'
    BY MineBelow DEF Beside
  <1>5. (OwnFile(c) /\ OwnBlock(c) /\ Finished(c))'
    BY <1>1, <1>3, <1>4 DEF OwnFile, OwnBlock, Finished, Holding
  <1> QED
    BY <1>1, <1>2, <1>5, StepKeeps

\* A step that touches neither the service's history nor the blocks.
LEMMA Untouched ==
    ASSUME ServiceInv, SeedInv, NEW c \in Clients,
           acked' = acked, removed' = removed, clock <= clock',
           DOMAIN boltInodes \subseteq DOMAIN boltInodes',
           blocks' = blocks, abandoned' = abandoned
    PROVE  Beside(c) /\ BlockTypes' /\ OrphansWereAbandoned'
  BY DEF Beside, SeedInv, BlockTypes, OrphansWereAbandoned

LEMMA ClockKept ==
    ASSUME ServiceInv, clock' = clock
    PROVE  clock <= clock'
  BY ClockAssumption DEF ServiceInv, TypeOK

\* Dial and Browse: nothing happens but that the client goes on.
LEMMA GotoKeeps ==
    ASSUME ServiceInv, ServiceInv', SeedInv, NEW c \in Clients,
           NEW from \in {"dial", "browse"}, NEW to \in {"create", "write"},
           from = "dial" <=> to = "create",
           At(c, from), Goto(c, to), UNCHANGED <<mds, blocks, abandoned>>
    PROVE  SeedInv'
  <1> DEFINE r == Goes(client[c], to)
  <1>1. to \in ClientPcs
    BY DEF ClientPcs
  <1>2. /\ ClientTypes /\ r \in ClientRecord /\ r.pc = to /\ r.i = client[c].i
        /\ r.file = client[c].file /\ r.got = client[c].got
        /\ r.mine = client[c].mine /\ r.clean = client[c].clean
        /\ r.i \in 1..Iterations[c]
    BY <1>1, FormFacts, FieldFacts DEF SeedInv
  <1>3. Becomes(c, r)
    BY <1>1, <1>2, StepForms
  <1> HIDE DEF r
  <1>4. client'[c] = r
    BY <1>2, <1>3, BecomesFacts
  <1>5. /\ acked' = acked /\ removed' = removed /\ clock' = clock
        /\ boltInodes' = boltInodes
        /\ blocks' = blocks /\ abandoned' = abandoned
    BY IdleService
  <1>6. Beside(c) /\ BlockTypes' /\ OrphansWereAbandoned'
    BY <1>5, ClockKept, Untouched
  <1>7. client[c].pc = from /\ client[c].got = <<>>
    BY DEF At, SeedInv, OwnBlock
  <1>8. OwnFile(c)'
    BY <1>2, <1>4, <1>5, <1>7 DEF SeedInv, OwnFile, Holding, Name
  <1>9. OwnBlock(c)' /\ Finished(c)'
    BY <1>2, <1>4, <1>5, <1>7 DEF SeedInv, OwnBlock, Finished
  <1> QED
    BY <1>2, <1>3, <1>6, <1>8, <1>9, StepKeeps

LEMMA CreateFileKeeps ==
    ASSUME ServiceInv, ServiceInv', SeedInv, NEW c \in Clients, CreateFile(c)
    PROVE  SeedInv'
  <1> DEFINE n == Name(c)
  <1>1. /\ ClientTypes /\ n \in Names /\ Root \in AskedIds
        /\ client[c].pc = "create" /\ blocks' = blocks /\ abandoned' = abandoned
    BY ClientFacts, ClockAssumption
    DEF SeedInv, CreateFile, At, AskedIds, InodeIds, Root
  <1>2. \/ Create(Root, n, FALSE) \/ CreateNotPersisted(Root, n, FALSE)
        \/ CreateThenCrash(Root, n, FALSE) \/ CreateRefused(Root, n, FALSE)
        \/ UNCHANGED mds
    BY DEF CreateFile
  <1>3. /\ DOMAIN boltInodes \subseteq DOMAIN boltInodes'
        /\ removed' = removed /\ clock <= clock'
        /\ \/ acked' = acked
           \/ /\ acked' = With(acked, <<Root, n>>, clock) /\ clock < clock'
              /\ clock <= MaxClock /\ Create(Root, n, FALSE)
    BY <1>1, <1>2, CreateEffect
  <1>4. Beside(c) /\ BlockTypes' /\ OrphansWereAbandoned'
    BY <1>1, <1>3 DEF Beside, With, SeedInv, BlockTypes, OrphansWereAbandoned
  <1>5. CASE Fatal(c)
    BY <1>4, <1>5, FatalKeeps
  <1>6. CASE ~Fatal(c)
    <2>1. /\ Create(Root, n, FALSE)
          /\ client' = [client EXCEPT ![c].pc = "browse", ![c].file = clock,
                                      ![c].mine = @ \cup {clock}]
      BY <1>6 DEF CreateFile, NewInodeId
    <2>2. acked' = With(acked, <<Root, n>>, clock) /\ clock' = clock + 1 /\ clock <= MaxClock
      BY <2>1 DEF Create, NewInodeId
    <2>3. clock \in InodeIds /\ clock \in Nat /\ clock # NoId /\ clock < clock'
      BY <2>2, ClockAssumption DEF ServiceInv, TypeOK, InodeIds, NoId
    <2> DEFINE r == Opens(client[c], clock)
    <2>4. /\ Becomes(c, r) /\ r \in ClientRecord /\ r.pc = "browse" /\ r.i = client[c].i
          /\ r.file = clock /\ r.got = client[c].got
          /\ r.mine = client[c].mine \cup {clock} /\ r.clean = client[c].clean
          /\ r.i \in 1..Iterations[c]
      BY <1>1, <2>1, <2>3, OpenForm, FieldFacts
    <2> HIDE DEF r
    <2>5. client'[c] = r
      BY <1>1, <2>4, BecomesFacts
    <2>6. \A id \in client[c].mine : id < clock' /\ id # clock
      BY <1>3, MineBelow
    <2>7. client[c].got = <<>> /\ client[c].file = NoId /\ NoId \notin client[c].mine
      <3>1. NoId \notin InodeIds
        BY DEF InodeIds, NoId
      <3>2. client[c].got = <<>> /\ client[c].file = NoId
        BY <1>1 DEF SeedInv, OwnBlock, OwnFile, Holding
      <3> QED
        BY <1>1, <3>1, <3>2, FieldFacts
    <2>8. OwnFile(c)'
      BY <1>1, <2>2, <2>3, <2>4, <2>5, <2>6 DEF OwnFile, Holding, Name, With
    <2>9. OwnBlock(c)' /\ Finished(c)'
      BY <1>1, <1>3, <2>4, <2>5, <2>6, <2>7 DEF SeedInv, OwnBlock, Finished
    <2> QED
      BY <1>4, <2>4, <2>8, <2>9, StepKeeps
  <1> QED
    BY <1>5, <1>6

\* Whatever a client does to a block it does to that of its own file.
LEMMA OwnBlockOnly ==
    ASSUME ServiceInv, SeedInv, NEW c \in Clients, Holding(c), UNCHANGED mds,
           \/ blocks' = blocks
           \/ \E v \in {Torn, Payload(c)} : blocks' = With(blocks, client[c].file, v)
           \/ blocks' = Without(blocks, {client[c].file}),
           abandoned' = abandoned \/ abandoned' = abandoned \cup {client[c].file}
    PROVE  Beside(c) /\ BlockTypes' /\ OrphansWereAbandoned'
  <1> DEFINE f == client[c].file
  <1>1. f \in InodeIds /\ f \in DOMAIN boltInodes
    BY HeldFile
  <1>2. Payload(c) \in Clients \X Nat
    BY ClientFacts DEF SeedInv
  <1>3. boltInodes' = boltInodes /\ acked' = acked /\ removed' = removed /\ clock' = clock
    BY IdleService
  <1>4. clock <= clock'
    BY <1>3, ClockKept
  <1>5. BlockTypes
    BY DEF SeedInv
  <1> HIDE DEF f
  <1>6. CASE blocks' = blocks
    BY <1>1, <1>3, <1>4, <1>5, <1>6
    DEF Beside, BlockTypes, SeedInv, OrphansWereAbandoned, f
  <1>7. ASSUME NEW v \in {Torn, Payload(c)}, blocks' = With(blocks, f, v)
        PROVE  Beside(c) /\ BlockTypes' /\ OrphansWereAbandoned'
    <2>1. /\ DOMAIN blocks' = DOMAIN blocks \cup {f}
          /\ \A id \in DOMAIN blocks : id # f => blocks'[id] = blocks[id]
          /\ blocks' \in [DOMAIN blocks \cup {f} -> {Torn} \cup (Clients \X Nat)]
      BY <1>2, <1>5, <1>7 DEF With, BlockTypes
    <2>2. Beside(c)
      BY <1>3, <1>4, <2>1 DEF Beside, f
    <2>3. BlockTypes'
      BY <1>1, <1>5, <2>1 DEF BlockTypes, f
    <2>4. OrphansWereAbandoned'
      BY <1>1, <1>3, <2>1 DEF SeedInv, OrphansWereAbandoned
    <2> QED
      BY <2>2, <2>3, <2>4
  <1>8. CASE blocks' = Without(blocks, {f})
    <2>1. /\ DOMAIN blocks' = DOMAIN blocks \ {f}
          /\ \A id \in DOMAIN blocks \ {f} : blocks'[id] = blocks[id]
          /\ blocks' \in [DOMAIN blocks \ {f} -> {Torn} \cup (Clients \X Nat)]
      BY <1>5, <1>8 DEF Without, Restrict, BlockTypes
    <2>2. Beside(c)
      BY <1>3, <1>4, <2>1 DEF Beside, f
    <2>3. BlockTypes'
      BY <1>1, <1>5, <2>1 DEF BlockTypes, f
    <2>4. OrphansWereAbandoned'
      BY <1>1, <1>3, <2>1 DEF SeedInv, OrphansWereAbandoned
    <2> QED
      BY <2>2, <2>3, <2>4
  <1> QED
    BY <1>6, <1>7, <1>8 DEF f

LEMMA WriteBlockKeeps ==
    ASSUME ServiceInv, ServiceInv', SeedInv, NEW c \in Clients, WriteBlock(c)
    PROVE  SeedInv'
  <1> DEFINE f == client[c].file
  <1>1. /\ ClientTypes /\ client[c].pc = "write" /\ Holding(c)
        /\ UNCHANGED <<mds, abandoned>>
    BY DEF SeedInv, WriteBlock, At, Holding
  <1>2. \/ blocks' = blocks
        \/ \E v \in {Torn, Payload(c)} : blocks' = With(blocks, f, v)
    BY DEF WriteBlock
  <1>3. Beside(c) /\ BlockTypes' /\ OrphansWereAbandoned'
    BY <1>1, <1>2, OwnBlockOnly
  <1>4. CASE Fatal(c)
    BY <1>3, <1>4, FatalKeeps
  <1>5. CASE ~Fatal(c)
    <2> DEFINE r == Goes(client[c], "read")
    <2>1. blocks' = With(blocks, f, Payload(c)) /\ Goto(c, "read") /\ "read" \in ClientPcs
      BY <1>5 DEF WriteBlock, ClientPcs
    <2>2. /\ Becomes(c, r) /\ r \in ClientRecord /\ r.pc = "read" /\ r.i = client[c].i
          /\ r.file = f /\ r.got = client[c].got
          /\ r.mine = client[c].mine /\ r.clean = client[c].clean
          /\ r.i \in 1..Iterations[c]
      BY <1>1, <2>1, StepForms, FormFacts, FieldFacts
    <2> HIDE DEF r
    <2>3. client'[c] = r
      BY <1>1, <2>2, BecomesFacts
    <2>4. acked' = acked /\ removed' = removed /\ clock' = clock
      BY <1>1, IdleService
    <2>5. OwnFile(c)'
      BY <1>1, <2>2, <2>3, <2>4 DEF SeedInv, OwnFile, Holding, Name
    <2>6. blocks'[f] = Payload(c) /\ Payload(c)' = Payload(c) /\ client[c].got = <<>>
      BY <1>1, <2>1, <2>2, <2>3 DEF SeedInv, OwnBlock, With, Payload
    <2>7. OwnBlock(c)'
      BY <2>2, <2>3, <2>6 DEF OwnBlock
    <2>8. Finished(c)'
      BY <1>1, <2>1, <2>2, <2>3, <2>4 DEF SeedInv, Finished, With
    <2> QED
      BY <1>3, <2>2, <2>5, <2>7, <2>8, StepKeeps
  <1> QED
    BY <1>4, <1>5

LEMMA ReadBlockKeeps ==
    ASSUME ServiceInv, ServiceInv', SeedInv, NEW c \in Clients, ReadBlock(c)
    PROVE  SeedInv'
  <1> DEFINE f == client[c].file
  <1>1. /\ ClientTypes /\ client[c].pc = "read" /\ Holding(c)
        /\ UNCHANGED mds /\ blocks' = blocks /\ abandoned' = abandoned
    BY DEF SeedInv, ReadBlock, At, Holding
  <1>2. Beside(c) /\ BlockTypes' /\ OrphansWereAbandoned'
    BY <1>1, OwnBlockOnly
  <1>3. CASE Fatal(c)
    BY <1>2, <1>3, FatalKeeps
  <1>4. CASE ~Fatal(c)
    <2> DEFINE r == Moves(client[c], "delete", Payload(c))
    <2>1. /\ f \in DOMAIN blocks
          /\ client' = [client EXCEPT ![c].pc = "delete", ![c].got = blocks[f]]
      BY <1>4 DEF ReadBlock, AfterRead
    <2>2. client' = [client EXCEPT ![c].pc = "delete", ![c].got = Payload(c)]
      BY <1>1, <2>1 DEF SeedInv, OwnBlock
    <2>3. Payload(c) \in Gots /\ "delete" \in ClientPcs
      BY <1>1, ClientFacts DEF Gots, ClientPcs
    <2>4. /\ Becomes(c, r) /\ r \in ClientRecord /\ r.pc = "delete" /\ r.i = client[c].i
          /\ r.file = f /\ r.got = Payload(c)
          /\ r.mine = client[c].mine /\ r.clean = client[c].clean
          /\ r.i \in 1..Iterations[c]
      <3>1. PICK got \in Gots : got = Payload(c)
        BY <2>3
      <3>2. client' = [client EXCEPT ![c].pc = "delete", ![c].got = got]
        BY <2>2, <3>1
      <3>3. Becomes(c, Moves(client[c], "delete", got))
        BY <1>1, <2>3, <3>2, MoveForm
      <3>4. LET s == Moves(client[c], "delete", got)
            IN  /\ s \in ClientRecord /\ s.pc = "delete" /\ s.i = client[c].i
                /\ s.file = f /\ s.got = got
                /\ s.mine = client[c].mine /\ s.clean = client[c].clean
        <4>1. client[c] \in ClientRecord
          BY <1>1 DEF ClientTypes
        <4> QED
          BY <2>3, <4>1 DEF Moves, ClientRecord
      <3> QED
        BY <1>1, <3>1, <3>3, <3>4, FieldFacts
    <2> HIDE DEF r
    <2>5. client'[c] = r
      BY <1>1, <2>4, BecomesFacts
    <2>6. acked' = acked /\ removed' = removed /\ clock' = clock
      BY <1>1, IdleService
    <2>7. OwnFile(c)'
      BY <1>1, <2>4, <2>5, <2>6 DEF SeedInv, OwnFile, Holding, Name
    <2>8. Payload(c)' = Payload(c)
      BY <2>4, <2>5 DEF Payload
    <2>9. OwnBlock(c)' /\ Finished(c)'
      BY <1>1, <2>4, <2>5, <2>6, <2>8 DEF SeedInv, OwnBlock, Finished
    <2> QED
      BY <1>2, <2>4, <2>7, <2>9, StepKeeps
  <1> QED
    BY <1>3, <1>4

LEMMA DeleteBlockKeeps ==
    ASSUME ServiceInv, ServiceInv', SeedInv, NEW c \in Clients, DeleteBlock(c)
    PROVE  SeedInv'
  <1> DEFINE f == client[c].file
  <1>1. /\ ClientTypes /\ client[c].pc = "delete" /\ Holding(c) /\ UNCHANGED mds
    BY DEF SeedInv, DeleteBlock, At, Holding
  <1>2. \/ /\ Ignore(c, "unlink") /\ abandoned' = abandoned \cup {f} /\ blocks' = blocks
        \/ /\ blocks' = Without(blocks, {f}) /\ abandoned' = abandoned
           /\ \/ Ignore(c, "unlink")
              \/ client' = [client EXCEPT ![c].pc = "unlink", ![c].got = <<>>]
    BY DEF DeleteBlock
  <1>3. Beside(c) /\ BlockTypes' /\ OrphansWereAbandoned'
    BY <1>1, <1>2, OwnBlockOnly
  <1>4. \E r \in ClientRecord :
            /\ Becomes(c, r) /\ r.pc = "unlink" /\ r.i = client[c].i /\ r.file = f
            /\ r.got = <<>> /\ r.mine = client[c].mine
            /\ r.clean = client[c].clean \/ ~r.clean
            /\ blocks' = Without(blocks, {f})
               \/ (blocks' = blocks /\ abandoned' = abandoned \cup {f} /\ ~r.clean)
    <2>1. "unlink" \in ClientPcs /\ <<>> \in Gots
      BY DEF ClientPcs, Gots
    <2>2. CASE Ignore(c, "unlink")
      BY <1>1, <1>2, <2>1, <2>2, StepForms, FormFacts
    <2>3. CASE ~Ignore(c, "unlink")
      BY <1>1, <1>2, <2>1, <2>3, MoveForm
    <2> QED
      BY <2>2, <2>3
  <1>5. PICK r \in ClientRecord :
            /\ Becomes(c, r) /\ r.pc = "unlink" /\ r.i = client[c].i /\ r.file = f
            /\ r.got = <<>> /\ r.mine = client[c].mine
            /\ r.clean = client[c].clean \/ ~r.clean
            /\ blocks' = Without(blocks, {f})
               \/ (blocks' = blocks /\ abandoned' = abandoned \cup {f} /\ ~r.clean)
    BY <1>4
  <1>6. r.i \in 1..Iterations[c] /\ client'[c] = r
    BY <1>1, <1>5, FieldFacts, BecomesFacts
  <1>7. acked' = acked /\ removed' = removed /\ clock' = clock
    BY <1>1, IdleService
  <1>8. OwnFile(c)'
    BY <1>1, <1>5, <1>6, <1>7 DEF SeedInv, OwnFile, Holding, Name
  <1>9. /\ DOMAIN blocks' \subseteq DOMAIN blocks
        /\ f \in DOMAIN blocks' => f \in abandoned' /\ ~r.clean
    BY <1>5 DEF Without, Restrict
  <1>10. OwnBlock(c)'
    BY <1>5, <1>6, <1>9 DEF OwnBlock
  <1>11. Finished(c)'
    BY <1>1, <1>5, <1>6, <1>7, <1>9 DEF SeedInv, Finished
  <1> QED
    BY <1>3, <1>5, <1>6, <1>8, <1>10, <1>11, StepKeeps

LEMMA UnlinkFileKeeps ==
    ASSUME ServiceInv, ServiceInv', SeedInv, NEW c \in Clients, UnlinkFile(c)
    PROVE  SeedInv'
  <1> DEFINE f == client[c].file
  <1>1. /\ ClientTypes /\ client[c].pc = "unlink" /\ Holding(c)
        /\ blocks' = blocks /\ abandoned' = abandoned
    BY DEF SeedInv, UnlinkFile, At, Holding
  <1>2. /\ \/ Unlink(Root, Name(c)) \/ UnlinkNotPersisted(Root, Name(c))
           \/ UnlinkThenCrash(Root, Name(c)) \/ UnlinkRefused(Root, Name(c))
           \/ UNCHANGED mds
        /\ \/ Unlinked(c, FALSE)
           \/ Unlinked(c, TRUE) /\ Unlink(Root, Name(c))
    BY DEF UnlinkFile
  <1>3. /\ DOMAIN boltInodes \ {f} \subseteq DOMAIN boltInodes'
        /\ removed \subseteq removed' /\ clock' = clock
        /\ acked' = acked \/ acked' = Without(acked, {<<Root, Name(c)>>})
        /\ Unlink(Root, Name(c)) => f \in removed'
    BY <1>1, <1>2, UnlinkEffect
  <1>4. clock <= clock'
    BY <1>3, ClockKept
  <1>5. Beside(c) /\ BlockTypes'
    BY <1>1, <1>3, <1>4 DEF Beside, Without, Restrict, SeedInv, BlockTypes
  <1>6. f \in DOMAIN blocks => f \in abandoned /\ ~client[c].clean
    BY <1>1 DEF SeedInv, OwnBlock
  <1>7. OrphansWereAbandoned'
    BY <1>1, <1>3, <1>6 DEF SeedInv, OrphansWereAbandoned
  <1>8. \E r \in ClientRecord :
            /\ Becomes(c, r) /\ r.pc \in {"create", "ok"} /\ r.i \in 1..Iterations[c]
            /\ r.file = NoId /\ r.got = <<>> /\ r.mine = client[c].mine
            /\ r.clean => client[c].clean /\ Unlink(Root, Name(c))
    <2>1. CASE Unlinked(c, FALSE)
      BY <1>1, <2>1, StepForms, FormFacts
    <2>2. CASE Unlinked(c, TRUE) /\ Unlink(Root, Name(c))
      BY <1>1, <2>2, StepForms, FormFacts
    <2> QED
      BY <1>2, <2>1, <2>2
  <1>9. PICK r \in ClientRecord :
            /\ Becomes(c, r) /\ r.pc \in {"create", "ok"} /\ r.i \in 1..Iterations[c]
            /\ r.file = NoId /\ r.got = <<>> /\ r.mine = client[c].mine
            /\ r.clean => client[c].clean /\ Unlink(Root, Name(c))
    BY <1>8
  <1>10. client'[c] = r
    BY <1>1, <1>9, BecomesFacts
  <1>11. \A id \in client[c].mine : id < clock'
    BY <1>4, MineBelow
  <1>12. OwnFile(c)' /\ OwnBlock(c)'
    BY <1>9, <1>10, <1>11 DEF OwnFile, OwnBlock, Holding
  <1>13. Finished(c)'
    BY <1>1, <1>3, <1>6, <1>9, <1>10 DEF SeedInv, Finished
  <1> QED
    BY <1>5, <1>7, <1>9, <1>12, <1>13, StepKeeps

-----------------------------------------------------------------------------
(* The theorems.                                                           *)

LEMMA SeedStep ==
    ASSUME ServiceInv, ServiceInv', SeedInv, [SNext]_all
    PROVE  SeedInv'
  <1>1. CASE UNCHANGED all
    <2>1. client' = client /\ blocks' = blocks /\ abandoned' = abandoned /\ UNCHANGED mds
      BY <1>1 DEF all
    <2> QED
      BY <2>1, IdleService, ClockKept, ServiceStepKeeps
  <1>2. CASE (Start \/ Crash) /\ UNCHANGED <<blocks, client, expired, abandoned>>
    <2>1. acked' = acked /\ removed' = removed /\ clock' = clock
      BY <1>2 DEF Start, Crash, history
    <2>2. DOMAIN boltInodes \subseteq DOMAIN boltInodes'
      BY <1>2 DEF Start, LoadExisting, InitRoot, Crash, With, disk
    <2> QED
      BY <1>2, <2>1, <2>2, ClockKept, ServiceStepKeeps
  <1>3. ASSUME NEW c \in Clients, Step(c) \/ Expire(c) \/ KillClient(c)
        PROVE  SeedInv'
    <2>1. CASE Dial(c)
      <3>1. CASE Fatal(c)
        <4>1. blocks' = blocks /\ abandoned' = abandoned /\ UNCHANGED mds
          BY <2>1 DEF Dial
        <4> QED
          BY <3>1, <4>1, IdleService, ClockKept, Untouched, FatalKeeps
      <3>2. CASE ~Fatal(c)
        BY <2>1, <3>2, GotoKeeps DEF Dial
      <3> QED
        BY <3>1, <3>2
    <2>2. CASE Browse(c)
      BY <2>2, GotoKeeps DEF Browse
    <2>3. CASE Expire(c)
      <3>1. client' = client /\ blocks' = blocks /\ abandoned' = abandoned /\ UNCHANGED mds
        BY <2>3 DEF Expire
      <3> QED
        BY <3>1, IdleService, ClockKept, ServiceStepKeeps
    <2>4. CASE KillClient(c)
      <3>1. blocks' = blocks /\ abandoned' = abandoned /\ UNCHANGED mds /\ Fatal(c)
        BY <2>4 DEF KillClient
      <3> QED
        BY <3>1, IdleService, ClockKept, Untouched, FatalKeeps
    <2> QED
      BY <1>3, <2>1, <2>2, <2>3, <2>4, CreateFileKeeps, WriteBlockKeeps, ReadBlockKeeps,
         DeleteBlockKeeps, UnlinkFileKeeps DEF Step
  <1> QED
    BY <1>1, <1>2, <1>3 DEF SNext

LEMMA SeedInit == SInit => ServiceInv /\ SeedInv
  <1> SUFFICES ASSUME SInit PROVE ServiceInv /\ SeedInv
    OBVIOUS
  <1>1. ServiceInv
    BY InitTypes, InitRootInv, InitDurable DEF SInit, ServiceInv
  <1>2. DOMAIN blocks = {} /\ blocks \in [{} -> {Torn} \cup (Clients \X Nat)]
    BY DEF SInit, Empty
  <1>3. ASSUME NEW c \in Clients
        PROVE  /\ Started \in ClientRecord /\ client[c] = Started
               /\ 1 \in 1..Iterations[c]
    BY IterationsAssumption DEF SInit, Started, ClientRecord, ClientPcs, Gots
  <1>4. ClientTypes
    BY <1>3 DEF SInit, ClientTypes, Started
  <1>5. \A c \in Clients : OwnFile(c) /\ OwnBlock(c) /\ Finished(c)
    BY <1>3 DEF OwnFile, OwnBlock, Finished, Holding, Started
  <1>6. IdsDiffer
    BY <1>3 DEF IdsDiffer, Started
  <1> QED
    BY <1>1, <1>2, <1>4, <1>5, <1>6 DEF SeedInv, BlockTypes, OrphansWereAbandoned, SInit

LEMMA SeedInvariant == SSpec => [](ServiceInv /\ SeedInv)
  <1>1. ServiceInv /\ SeedInv /\ [SNext]_all => (ServiceInv /\ SeedInv)'
    <2> SUFFICES ASSUME ServiceInv, SeedInv, [SNext]_all PROVE (ServiceInv /\ SeedInv)'
      OBVIOUS
    <2>1. ServiceInv'
      BY StepIsService, ServiceKept DEF SeedInv
    <2> QED
      BY <2>1, SeedStep
  <1> QED
    BY <1>1, SeedInit, PTL DEF SSpec

\* A client reads back its own data and nobody else's (main.go:84-88), for any
\* number of clients and iterations and whatever fails or dies: MDS ids keep
\* their files apart.
THEOREM ReadsAreOwn == SSpec => []ReadsOwnWrite
  <1>1. SeedInv => ReadsOwnWrite
    BY DEF SeedInv, OwnBlock, ReadsOwnWrite
  <1> QED
    BY <1>1, SeedInvariant, PTL

\* A block outlives its file only when its DeleteBlock was not carried out
\* (main.go:89-90).
THEOREM BlocksHaveFiles == SSpec => []OrphansWereAbandoned
  <1>1. SeedInv => OrphansWereAbandoned
    BY DEF SeedInv
  <1> QED
    BY <1>1, SeedInvariant, PTL

\* A client whose calls were all answered OK leaves neither block nor file nor
\* entry behind, and no restart of the service brings one back.
THEOREM CleanRunsLeaveNothing == SSpec => []CleanRunLeavesNothing
  <1>1. ServiceInv /\ SeedInv => CleanRunLeavesNothing
    <2> SUFFICES ASSUME ServiceInv, SeedInv, NEW c \in Clients,
                        client[c].pc = "ok", client[c].clean
                 PROVE  /\ client[c].mine \cap (DOMAIN boltInodes \cup DOMAIN blocks) = {}
                        /\ \A k \in DOMAIN boltDirents : boltDirents[k] \notin client[c].mine
      BY DEF CleanRunLeavesNothing
    <2>1. client[c].file = NoId /\ client[c].mine \subseteq InodeIds /\ NoId \notin InodeIds
      <3>1. NoId \notin InodeIds
        BY DEF InodeIds, NoId
      <3>2. client[c].file = NoId
        BY DEF SeedInv, OwnFile, Holding
      <3> QED
        BY <3>1, <3>2, FieldFacts DEF SeedInv
    <2>2. \A id \in client[c].mine : id \in removed /\ id \notin DOMAIN blocks
      BY <2>1 DEF SeedInv, Finished
    <2> QED
      BY <2>2 DEF ServiceInv, DurableInv, RemovedStaysGone
  <1> QED
    BY <1>1, SeedInvariant, PTL
=============================================================================
