------------------------------- MODULE SairiUI -------------------------------
(***************************************************************************)
(* packages/adaptive-ui-schema: the declarative interface an agent may     *)
(* describe.  A document is a function from the regions of its layout to   *)
(* the components there; what matters of a prop is its name and the        *)
(* context its text was written in.  A checklist's `items` are two props   *)
(* here: the steps (`items`), and what one run ticked off and noted        *)
(* (`ticks`).                                                              *)
(***************************************************************************)

(* COMPONENT_CATALOG: where the content of a component comes from. *)
ModelSupplied == {"text", "markdown", "source-list", "key-value-list", "editor", "table",
                  "checklist", "timeline", "progress", "status-panel", "action-button",
                  "terminal-output", "file-list"}
BrokerChecked == {"permission-request"}
HostRendered == {"context-metadata", "activity-log"}

ComponentTypes == ModelSupplied \union BrokerChecked \union HostRendered

(* The props each component must have, and those it may have. *)
Required(type) ==
    CASE type = "text" -> {"body"}
      [] type = "markdown" -> {"source"}
      [] type = "source-list" -> {"sources"}
      [] type \in {"key-value-list", "status-panel"} -> {"items"}
      [] type = "editor" -> {"value"}
      [] type = "table" -> {"columns", "rows"}
      [] type = "checklist" -> {"items", "ticks"}
      [] type = "timeline" -> {"entries"}
      [] type = "progress" -> {"value"}
      [] type = "permission-request" -> {"capability", "reason", "risk", "requestId"}
      [] type = "action-button" -> {"label", "actionId"}
      [] type = "terminal-output" -> {"lines"}
      [] type = "file-list" -> {"files"}
      [] OTHER -> {}

Allowed(type) == Required(type) \union
    CASE type = "action-button" -> {"description", "capability", "variant"}
      [] type = "text" -> {"title", "tone"}
      [] type = "editor" -> {"title", "placeholder", "readOnly"}
      [] type = "table" -> {"title", "caption"}
      [] type = "progress" -> {"title", "label", "indeterminate"}
      [] type = "terminal-output" -> {"title", "exitCode"}
      [] type = "context-metadata" -> {"title", "showObjective"}
      [] type = "activity-log" -> {"title", "limit"}
      [] OTHER -> {"title"}

(* validateSairiUI(): no unknown component, and props of exactly the shape *)
(* the schema gives them; "a rejected document never partially renders".   *)
Valid(document) ==
    /\ DOMAIN document # {}
    /\ \A i \in DOMAIN document :
        /\ document[i].type \in ComponentTypes
        /\ Required(document[i].type) \subseteq DOMAIN document[i].props
        /\ DOMAIN document[i].props \subseteq Allowed(document[i].type)
=============================================================================
