------------------------- MODULE MCPermissionBroker -------------------------
(***************************************************************************)
(* Small instances of PermissionBroker: two contexts, one capability for   *)
(* each default policy, and the policy files an operator may have left     *)
(* (agent.relay is denied by default and can be allowed in no other way).  *)
(***************************************************************************)
EXTENDS PermissionBroker, TLC

CONSTANTS c1, c2

MCContexts == {c1, c2}
MCOneContext == {c1}

MCCapabilities == {"agent.relay", "files.write", "process.list"}
MCGuardedCapabilities == {"agent.relay", "files.write"}

DefaultOf(cap) ==
    CASE cap = "agent.relay" -> "deny"
      [] cap = "files.write" -> "ask"
      [] OTHER -> "allow"

MCDefaultPolicy == [cap \in Capabilities |-> DefaultOf(cap)]

Allowed(cap, scope) == [capability |-> cap, scope |-> scope, decision |-> "allow"]

(* Every smaller table is reached from this one by revoking. *)
MCStoredPolicies == {{Allowed("agent.relay", Global), Allowed("files.write", c1)}}

CallSymmetry == Permutations(Calls) \union Permutations(RequestIds)
=============================================================================
