---------------------------- MODULE MDSNamespace ----------------------------
(***************************************************************************)
(* MDS implements Namespace as long as no BoltDB transaction fails and the *)
(* wall clock is not set back.                                             *)
(***************************************************************************)
EXTENDS MDS

\* The promised tree is what BoltDB holds, without the root and the layouts.
StoredTree ==
    [id \in DOMAIN boltInodes \ {Root} |->
        [parent |-> boltInodes[id].parent,
         name   |-> boltInodes[id].name,
         isDir  |-> boltInodes[id].isDir]]

NS == INSTANCE Namespace WITH
        IllegalNames <- SlashNames,
        Ids          <- 1..MaxClock,
        tree         <- StoredTree,
        used         <- 1..(clock - 1)

\* Every step of the service is a step of the abstract namespace or leaves it
\* alone: each answer (service.go:147-293) is the one the tree in BoltDB
\* calls for, in spite of the handlers reading memory, of restarts and of
\* answers lost in a crash.
NamespaceImplemented == NS!Spec
=============================================================================
