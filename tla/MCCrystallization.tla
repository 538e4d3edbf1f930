-------------------------- MODULE MCCrystallization --------------------------
(***************************************************************************)
(* Small instances of Crystallization: the stored contexts are a run with  *)
(* every kind of memory, a grant, files and a full interface, and the demo *)
(* template with inputs and stages of its own.                             *)
(***************************************************************************)
EXTENDS Crystallization, TLC

CONSTANTS s1, s2, c1, c2, c3

Region(type, props) == [type |-> type, props |-> props]

(* Every component with every prop it may have ... *)
FullDocument ==
    LET types == <<"text", "markdown", "source-list", "key-value-list", "editor", "table",
                   "checklist", "timeline", "progress", "status-panel", "permission-request",
                   "action-button", "terminal-output", "file-list", "context-metadata",
                   "activity-log">>
    IN  [i \in DOMAIN types |-> Region(types[i], Allowed(types[i]))]

(* ... the least of some, none that survives, and two that do not validate. *)
LeastDocument ==
    <<Region("table", Required("table")), Region("checklist", Required("checklist")),
      Region("progress", Required("progress"))>>
PromptDocument == <<Region("permission-request", Required("permission-request"))>>
UnknownDocument == <<Region("video", {"source"})>>
LackingDocument == <<Region("editor", {"title"})>>

MCDocuments == {FullDocument, LeastDocument, PromptDocument, UnknownDocument, LackingDocument}

StoredRun ==
    [type |-> "ephemeral", status |-> "active", objective |-> s1,
     memory |-> MemoryEntry, artifacts |-> TRUE,
     permissions |-> <<[capability |-> "files.read", decision |-> "deny", scope |-> "context"],
                       [capability |-> "files.read", decision |-> "allow", scope |-> "context"],
                       [capability |-> "files.write", decision |-> "allow", scope |-> "once"]>>,
     events |-> <<"ui.specification-updated", "permission.decided", "action.executed">>,
     ui |-> Written(FullDocument, s1), session |-> TRUE, source |-> NoContext,
     template |-> NotATemplate]

StoredTemplate ==
    [type |-> "crystallized", status |-> "active", objective |-> s2,
     memory |-> {[secretName |-> FALSE, sensitive |-> FALSE, scope |-> "durable"]},
     artifacts |-> FALSE, permissions |-> <<>>, events |-> <<"other">>,
     ui |-> Written(LeastDocument, s2), session |-> FALSE, source |-> NoContext,
     template |-> [instructions |-> s2,
                   inputs |-> {[name |-> "week", required |-> TRUE, hasDefault |-> FALSE,
                                default |-> Empty],
                               [name |-> "objective", required |-> FALSE, hasDefault |-> TRUE,
                                default |-> s2]},
                   stages |-> <<"prepare", "approval">>,
                   defaults |-> {[capability |-> "files.write", decision |-> "ask"]}]]

MCStored == s1 :> StoredRun @@ s2 :> StoredTemplate

NewIds == Permutations({c1, c2, c3})
=============================================================================
