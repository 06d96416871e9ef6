---------------------------- MODULE ResourceSync ----------------------------
(***************************************************************************)
(* Bringing a resource of a commercetools project up to its draft: a       *)
(* custom type, or the API extension that points to the extension module.  *)
(* Both modules' setups fetch the resource by its key and then create it,  *)
(* or update the version they fetched.                                     *)
(*                                                                         *)
(* The content of a resource stands for all that the update actions are    *)
(* built from: field definitions of a type in any order, destination and   *)
(* triggers of the extension.                                              *)
(***************************************************************************)
EXTENDS Integers

CONSTANTS
    Setups,     \* runs of the setup command that can overlap
    Resources,  \* keys of the resources
    Contents    \* what resources and drafts can contain

VARIABLES
    resources,  \* commercetools: version and content; version 0 is absent
    syncs       \* for each setup its work on each resource

syncVars == <<resources, syncs>>

Resource == [version: Nat, content: Contents]

Sync ==
    [pc: {"idle"}]
        \cup [pc: {"fetch", "done", "failed"}, draft: Contents]
        \cup [pc: {"write"}, draft: Contents, version: Nat]

SyncTypeOK ==
    /\ resources \in [Resources -> Resource]
    /\ syncs \in [Setups -> [Resources -> Sync]]

SetSync(s, r, sync) == syncs' = [syncs EXCEPT ![s][r] = sync]

End(s, r, pc) == SetSync(s, r, [pc |-> pc, draft |-> syncs[s][r].draft])

IsInSync(r, draft) == resources[r].version > 0 /\ resources[r].content = draft

\* fetchByKey, and the comparison with what is there
FetchResource(s, r) ==
    /\ syncs[s][r].pc = "fetch"
    /\ IF IsInSync(r, syncs[s][r].draft)
       THEN End(s, r, "done")
       ELSE SetSync(s, r, [pc |-> "write", draft |-> syncs[s][r].draft,
                           version |-> resources[r].version])
    /\ UNCHANGED resources

Store(s, r) ==
    resources' = [resources EXCEPT ![r] =
        [version |-> @.version + 1, content |-> syncs[s][r].draft]]

\* create, or update with the version fetched.  A key that exists by now and
\* a version that is no longer the current one are errors.
WriteResource(s, r) ==
    /\ syncs[s][r].pc = "write"
    /\ IF resources[r].version = syncs[s][r].version
       THEN Store(s, r) /\ End(s, r, "done")
       ELSE UNCHANGED resources /\ End(s, r, "failed")

\* commercetools cannot be reached or refuses, or its answer is lost.
SyncFails(s, r) ==
    /\ syncs[s][r].pc \in {"fetch", "write"}
    /\ End(s, r, "failed")
    /\ \/ UNCHANGED resources
       \/ /\ syncs[s][r].pc = "write"
          /\ resources[r].version = syncs[s][r].version
          /\ Store(s, r)

SyncStep(s, r) == FetchResource(s, r) \/ WriteResource(s, r)
============================================================================
