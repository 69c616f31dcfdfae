------------------------ MODULE ProviderOperations ------------------------
(***************************************************************************)
(* What the provider's state promises its callers, whatever happens to the *)
(* files: operations are prepared once and committed once, one at a time   *)
(* per storage, each commit by a legal transition of its storage.          *)
(***************************************************************************)
EXTENDS ProviderState

VARIABLES ops,      \* ops[o]: the durable record of operation o
          storages  \* storages[s]: the durable state of storage s

absVars == <<ops, storages>>

AbsInit == /\ ops = [o \in Ops |-> NoRecord]
           /\ storages = [s \in Storages |-> NoStorage]

AbsPrepare(o, kind, s) ==
    /\ ops[o] = NoRecord
    /\ \A q \in Ops : ~(ops[q].phase = "prepared" /\ ops[q].storage = s)
    /\ assertPreparePrecondition(storages[s], kind)
    /\ ops' = [ops EXCEPT ![o] = PreparedRecord(kind, s, storages[s])]
    /\ UNCHANGED storages

AbsCommit(o) ==
    /\ ops[o].phase = "prepared"
    /\ \E image \in Proposals(ops[o].before) :
         /\ assertStorageTransition(storages[ops[o].storage], image, ops[o].kind)
         /\ ops' = [ops EXCEPT ![o] = CommittedRecord(@, image)]
         /\ storages' = [storages EXCEPT ![ops[o].storage] = image]

AbsNext == \E o \in Ops : \/ AbsCommit(o)
                          \/ \E kind \in Kinds, s \in Storages :
                               AbsPrepare(o, kind, s)

AbsSpec == AbsInit /\ [][AbsNext]_absVars
============================================================================
