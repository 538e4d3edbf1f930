--------------------------- MODULE MCApprovalRelay ---------------------------
(***************************************************************************)
(* Small instances of ApprovalRelay: one context, a capability for each    *)
(* default policy, and a policy file that allows the two it can.           *)
(***************************************************************************)
EXTENDS ApprovalRelay

CONSTANT c1

MCContexts == {c1}

MCCapabilities == {"agent.relay", "files.write", "process.list"}
MCNeverRelay == {"agent.relay"}

DefaultOf(cap) ==
    CASE cap = "agent.relay" -> "deny"
      [] cap = "files.write" -> "ask"
      [] OTHER -> "allow"

MCDefaultPolicy == [cap \in Capabilities |-> DefaultOf(cap)]

Allowed(cap, scope) == [capability |-> cap, scope |-> scope, decision |-> "allow"]

MCStoredPolicies == {{Allowed("agent.relay", Global), Allowed("files.write", c1)}}
=============================================================================
