----------------------------- MODULE PolicyRules -----------------------------
(***************************************************************************)
(* The policy of the permission broker as pure operators:                  *)
(* services/permission-broker/src/policy.ts.                               *)
(*                                                                         *)
(* A remembered answer (RememberedDecision) is a record with the           *)
(* capability, the scope it was given for and the decision.  The source's  *)
(* pair (scope, contextId) is one value here: a context, or Global, which  *)
(* is scope "global" with a null contextId.  The list `remembered` is a    *)
(* set: no reader depends on its order while it holds at most one entry    *)
(* for a capability and a scope (OneAnswerPerScope).                       *)
(***************************************************************************)

CONSTANTS
    Capabilities,   \* CAPABILITIES of packages/context-schema
    Contexts,       \* context ids
    Global,         \* the scope of an answer given for every context
    DefaultPolicy   \* DEFAULT_POLICIES: capability -> "allow" | "ask" | "deny"

Decisions == {"allow", "deny"}
Policies == {"allow", "ask", "deny"}
Scopes == Contexts \union {Global}

ASSUME GlobalAssumption == Global \notin Contexts
ASSUME DefaultPolicyAssumption == DefaultPolicy \in [Capabilities -> Policies]

Answer == [capability : Capabilities, scope : Scopes, decision : Decisions]

(* The entries that answer for `cap` at exactly `scope`. *)
AnswersAt(table, cap, scope) ==
    {e \in table : e.capability = cap /\ e.scope = scope}

(* resolvePolicy: the context's own answer, then the global one, then the  *)
(* default.                                                                *)
ResolvePolicy(table, cap, c) ==
    IF AnswersAt(table, cap, c) # {}
    THEN [decision |-> (CHOOSE e \in AnswersAt(table, cap, c) : TRUE).decision,
          source |-> "context-memory"]
    ELSE IF AnswersAt(table, cap, Global) # {}
    THEN [decision |-> (CHOOSE e \in AnswersAt(table, cap, Global) : TRUE).decision,
          source |-> "global-memory"]
    ELSE [decision |-> DefaultPolicy[cap], source |-> "default"]

(* The table after `e` is remembered: it replaces what was remembered for  *)
(* the same capability at the same scope.                                  *)
Remember(table, e) == (table \ AnswersAt(table, e.capability, e.scope)) \union {e}

(* At most one answer for a capability and a scope. *)
OneAnswerPerScope(table) ==
    \A d, e \in table :
        d.capability = e.capability /\ d.scope = e.scope => d = e
=============================================================================
