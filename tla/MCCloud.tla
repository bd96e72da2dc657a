------------------------------ MODULE MCCloud ------------------------------
(***************************************************************************)
(* The two halves of the cloud control plane, side by side: a behaviour is *)
(* one of the shard's or one of the entry's.  They meet only in that a     *)
(* request the entry accepts reaches the shard with the tenant it          *)
(* resolved, and the shard takes any request at any time.                  *)
(***************************************************************************)
EXTENDS Supervisor, Gate

CONSTANT Halves     \* the halves of this instance

VARIABLE which

MCTenantOf == [f \in Facets |-> IF f = 1 THEN "t1" ELSE "t2"]
MCKindOf == [c \in Creds |-> IF c \in {"sk1", "sk2"} THEN "sk" ELSE c]
MCPermsOf == [c \in Creds |-> IF c = "sk1" THEN {"usage:read", "account:admin"} ELSE {}]
MCKeySets == {{"k1", "k2"}, {"k2"}}
MCCredSets == {{"sk1", "md"}, {"jwt"}}
MCKidOf == [c \in Creds |-> "k1"]

vars == <<which, supVars, gateVars>>

Init ==
    /\ which \in Halves
    /\ SupInit
    /\ GateInit
    /\ which = "shard" =>     \* the entry stays as it is: one initial state of it
          /\ since = [c \in Workos |-> Long]
          /\ presented = CHOOSE cs \in CredSets : TRUE
          /\ published = CHOOSE ks \in KeySets : TRUE

Shard(A) == which = "shard" /\ A /\ UNCHANGED <<which, gateVars>>
Door(A) == which = "gate" /\ A /\ UNCHANGED <<which, supVars>>

Next == Shard(SupNext) \/ Door(GateNext)
Spec == Init /\ [][Next]_vars

(* The runtime fires an alarm that is due, pings return, requests proceed, *)
(* time passes.                                                            *)
FairSpec ==
    /\ Spec
    /\ WF_vars(Shard(AlarmFires)) /\ WF_vars(Shard(SweepPinged)) /\ WF_vars(Shard(SupTick))
    /\ \A r \in Entries : WF_vars(Door(Proceed(r)))
    /\ WF_vars(Door(GateTick))
=============================================================================
