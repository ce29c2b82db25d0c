---------------------------- MODULE ExclusivePool ----------------------------
(***************************************************************************)
(* What a caller of RpcClient.rpc is promised about connections, with no   *)
(* lock, no list and no socket in sight: a connection is used by one       *)
(* caller at a time, at most Limit of them exist, and one that was given   *)
(* back may be handed out again.  A pool that is shut forgets its idle     *)
(* connections; the callers that still hold one finish as best they can,   *)
(* and the limit is no longer promised.                                    *)
(***************************************************************************)
EXTENDS Naturals, FiniteSets

CONSTANTS Users, Items, Nothing, Limit

VARIABLES
    idle,   \* the items nobody uses
    uses,   \* uses[u] is the item u is using, or Nothing
    shut    \* the pool has been shut

poolVars == <<idle, uses, shut>>

InUse == { uses[u] : u \in Users } \ {Nothing}

Init ==
    /\ \E i \in Items : idle = {i}
    /\ uses = [u \in Users |-> Nothing]
    /\ shut = FALSE

TakeIdle(u, i) ==
    /\ uses[u] = Nothing
    /\ i \in idle
    /\ idle' = idle \ {i}
    /\ uses' = [uses EXCEPT ![u] = i]
    /\ UNCHANGED shut

TakeNew(u, i) ==
    /\ uses[u] = Nothing
    /\ i \in Items \ (idle \cup InUse)
    /\ shut \/ Cardinality(idle \cup InUse) < Limit
    /\ uses' = [uses EXCEPT ![u] = i]
    /\ UNCHANGED <<idle, shut>>

GiveBack(u) ==
    /\ uses[u] # Nothing
    /\ idle' = idle \cup {uses[u]}
    /\ uses' = [uses EXCEPT ![u] = Nothing]
    /\ UNCHANGED shut

Discard(u) ==
    /\ uses[u] # Nothing
    /\ uses' = [uses EXCEPT ![u] = Nothing]
    /\ UNCHANGED <<idle, shut>>

Shut ==
    /\ idle' = {}
    /\ shut' = TRUE
    /\ UNCHANGED uses

Next ==
    \/ \E u \in Users :
         \/ \E i \in Items : TakeIdle(u, i) \/ TakeNew(u, i)
         \/ GiveBack(u)
         \/ Discard(u)
    \/ Shut

Spec == Init /\ [][Next]_poolVars
==============================================================================
