--------------------------- MODULE Crystallization ---------------------------
(***************************************************************************)
(* What travels when a context becomes a template, and the template a run: *)
(* crystallize.ts (packages/context-schema) as service.ts                  *)
(* (services/context-service) calls it, over chains of contexts, templates *)
(* and runs.                                                               *)
(*                                                                         *)
(* A text is the id of the context it was written in.  How calls overlap   *)
(* and how the store writes is ContextService; an operation is one step    *)
(* here.  Names and tasks are left out (a template has its own of both),   *)
(* and so is a tick of the clock.                                          *)
(***************************************************************************)
EXTENDS Lifecycle, SairiUI, SequencesExt

CONSTANTS
    ContextIds,   \* ids newId('ctx') can issue, and those of the stored contexts
    NoContext,    \* an id the store does not hold
    Empty,        \* the text ''
    Capabilities, \* those users are asked about
    Stored,       \* the contexts the store holds at the start
    Documents,    \* what agents offer as an interface
    MaxEvents,    \* MAX_EVENTS
    MaxChanges    \* changes explored (bound)

VARIABLES
    contexts,  \* the store, by id
    issued,    \* history: the ids issued
    decided,   \* history: the decisions users made in the broker, by context
    changes    \* history: the changes so far

vars == <<contexts, issued, decided, changes>>

(* EVENT_KINDS, as far as crystallization tells them apart. *)
StageEvents == {"permission.decided", "action.executed", "ui.specification-updated"}
Conversation == {"agent.message", "intention.submitted"}
EventKinds == StageEvents \union Conversation \union {"other"}

UserDecision ==
    [capability : Capabilities, decision : {"allow", "deny"}, scope : {"once", "context"}]

NoInterface == [region \in {} |-> Empty]
NotATemplate == [instructions |-> Empty, inputs |-> {}, stages |-> <<>>, defaults |-> {}]

Holds(c) == contexts[c] # NoContext
Fresh(c) == c \in ContextIds \ issued /\ ~Holds(c)
IsTemplate(context) == context.template # NotATemplate

-----------------------------------------------------------------------------
(* Life cycle of a document (factory.ts, service.ts). *)

(* appendEvent() *)
Appended(events, kind) ==
    LET all == Append(events, kind)
    IN  SubSeq(all, IF Len(all) > MaxEvents THEN Len(all) - MaxEvents + 1 ELSE 1, Len(all))
Logged(context, kind) == [context EXCEPT !.events = Appended(@, kind)]

(* createContext() *)
NewContext(type, objective) ==
    [type |-> type, status |-> "draft", objective |-> objective,
     memory |-> {}, artifacts |-> FALSE, permissions |-> <<>>, events |-> <<"other">>,
     ui |-> NoInterface, session |-> FALSE, source |-> NoContext, template |-> NotATemplate]

Change == changes < MaxChanges /\ changes' = changes + 1
Put(c, context) == contexts' = [contexts EXCEPT ![c] = context]
Saves(c, context) == Change /\ Put(c, context) /\ UNCHANGED <<issued, decided>>
SavesNew(c, context) ==
    /\ Change
    /\ Put(c, context)
    /\ issued' = issued \union {c}
    /\ UNCHANGED decided

(* A context of type crystallized has no template yet: it does not validate. *)
Create(c, type) ==
    /\ Fresh(c)
    /\ type # "crystallized"
    /\ \E objective \in {c, Empty} : SavesNew(c, NewContext(type, objective))

(* The first intention is the objective of a context that has none. *)
SubmitIntention(c) ==
    /\ Holds(c)
    /\ \E status \in IF contexts[c].status = "draft"
                     THEN Transition("draft", "active", contexts[c].type)
                     ELSE {contexts[c].status} :
        LET told == Logged([contexts[c] EXCEPT !.objective = IF @ = Empty THEN c ELSE @],
                           "intention.submitted")
        IN  Saves(c, IF status = told.status THEN told
                     ELSE Logged([told EXCEPT !.status = status], "other"))

SetStatus(c, next) ==
    /\ Holds(c)
    /\ next # contexts[c].status
    /\ \E status \in Transition(contexts[c].status, next, contexts[c].type) :
        Saves(c, Logged([contexts[c] EXCEPT !.status = status], "other"))

(* What the bridge reports of a run. *)
AppendEventTo(c, kind) ==
    /\ Holds(c)
    /\ Saves(c, Logged(contexts[c], kind))

(* The document as the agent in context c wrote it. *)
Written(document, c) ==
    [i \in DOMAIN document |->
        [type |-> document[i].type, props |-> [p \in document[i].props |-> c]]]

SetUiSpecification(c, document) ==
    /\ Holds(c)
    /\ Saves(c, IF Valid(Written(document, c))
                THEN Logged([contexts[c] EXCEPT !.ui = Written(document, c)],
                            "ui.specification-updated")
                ELSE Logged(contexts[c], "other"))

Delete(c) ==
    /\ Holds(c)
    /\ Saves(c, NoContext)

(* A user decides a request of context c, for once or for the whole        *)
(* context: PermissionBroker.decide(), which tells the context service     *)
(* nothing.                                                                *)
Decide(c, grant) ==
    /\ Holds(c)
    /\ Change
    /\ decided' = [decided EXCEPT ![c] = @ \union {grant}]
    /\ UNCHANGED <<contexts, issued>>

-----------------------------------------------------------------------------
(* The sanitizer (crystallize.ts). *)

(* Mutant: the timeline was added to the catalog without a policy. *)
HasPolicyButTimeline(type) == type \in ComponentTypes \ (BrokerChecked \union {"timeline"})

(* PROP_POLICY has an entry for the type; "a component type absent from    *)
(* this table has its region dropped entirely".                            *)
HasPolicy(type) == type \in ComponentTypes \ BrokerChecked

(* Mutant: what is not reset is kept. *)
KeepUnlessReset(type) == Allowed(type)

(* PROP_POLICY's `keep`; the steps are what sanitizeChecklistItems keeps.  *)
Keep(type) ==
    CASE type = "text" -> {"title", "tone"}
      [] type = "editor" -> {"title", "placeholder", "readOnly"}
      [] type = "table" -> {"title", "caption", "columns"}
      [] type = "checklist" -> {"title", "items"}
      [] type = "progress" -> {"title", "label", "indeterminate"}
      [] type = "action-button" -> {"label", "actionId", "description", "capability", "variant"}
      [] type = "context-metadata" -> {"title", "showObjective"}
      [] type = "activity-log" -> {"title", "limit"}
      [] OTHER -> {"title"}

(* Mutant: the editor's text is not reset. *)
ResetButEditor(type) ==
    CASE type = "text" -> {"body"}
      [] type = "markdown" -> {"source"}
      [] type = "source-list" -> {"sources"}
      [] type \in {"key-value-list", "status-panel"} -> {"items"}
      [] type = "progress" -> {"value"}
      [] type = "table" -> {"rows"}
      [] type = "checklist" -> {"ticks"}
      [] type = "timeline" -> {"entries"}
      [] type = "terminal-output" -> {"lines"}
      [] type = "file-list" -> {"files"}
      [] OTHER -> {}

(* PROP_POLICY's `reset`: "the empty value for each content prop, so the   *)
(* sanitized document still satisfies the SairiUI schema".                 *)
Reset(type) ==
    CASE type = "text" -> {"body"}
      [] type = "markdown" -> {"source"}
      [] type = "source-list" -> {"sources"}
      [] type \in {"key-value-list", "status-panel"} -> {"items"}
      [] type \in {"editor", "progress"} -> {"value"}
      [] type = "table" -> {"rows"}
      [] type = "checklist" -> {"ticks"}
      [] type = "timeline" -> {"entries"}
      [] type = "terminal-output" -> {"lines"}
      [] type = "file-list" -> {"files"}
      [] OTHER -> {}

(* One region's component: the structure, and the content emptied. *)
Sanitized(component) ==
    [type |-> component.type,
     props |-> [p \in (Keep(component.type) \intersect DOMAIN component.props)
                        \union Reset(component.type) |->
                    IF p \in Reset(component.type) THEN Empty ELSE component.props[p]]]

(* sanitizeUiSpecification(): no region left is no interface. *)
SanitizedUi(ui) ==
    [i \in {region \in DOMAIN ui : HasPolicy(ui[region].type)} |-> Sanitized(ui[i])]

(* deriveStages(): the kinds of step, in the order they first happened. *)
NewStage(stages, kind) ==
    IF kind \in StageEvents /\ ~Contains(stages, kind) THEN Append(stages, kind) ELSE stages
Stages(context) ==
    IF context.template.stages # <<>> THEN context.template.stages
    ELSE LET stages == FoldLeft(NewStage, <<>>, context.events)
         IN  IF stages = <<>> THEN <<"run">> ELSE stages

(* Mutant: a remembered allow is carried as it was decided. *)
CarriedDecision(decision) == decision

(* "a template must never silently pre-authorize a capability" *)
Downgraded(decision) == IF decision = "allow" THEN "ask" ELSE decision

(* derivePermissionDefaults(): of the decisions for the whole context, the *)
(* last one on each capability.                                            *)
PermissionDefaults(context) ==
    IF IsTemplate(context) THEN context.template.defaults
    ELSE LET grants == context.permissions
             whole == {i \in DOMAIN grants : grants[i].scope = "context"}
             last == {i \in whole : \A j \in whole :
                        grants[j].capability = grants[i].capability => j <= i}
         IN  {[capability |-> grants[i].capability, decision |-> Downgraded(grants[i].decision)] :
                i \in last}

(* deriveInputs() *)
Inputs(context) ==
    IF context.template.inputs # {} THEN context.template.inputs
    ELSE {[name |-> "objective", required |-> TRUE, hasDefault |-> TRUE,
           default |-> context.objective]}

(* previewCrystallization(): what the user is told is kept, and removed. *)
Preview(context) ==
    LET shown == {context.ui[i].type : i \in DOMAIN context.ui}
    IN  [components |-> shown \ {"permission-request"},
         stages |-> Stages(context),
         permissions |-> PermissionDefaults(context),
         inputs |-> Inputs(context),
         removesPrompt |-> "permission-request" \in shown,
         removesContents |-> context.ui # NoInterface,
         removesConversation |-> \E i \in DOMAIN context.events : context.events[i] \in Conversation,
         removesMemory |-> {entry \in context.memory : Dropped(entry)},
         removesFiles |-> context.artifacts,
         removesLog |-> \E i \in DOMAIN context.events : context.events[i] \notin Conversation,
         removesSession |-> context.session]

KeptMemory(memory) == {entry \in memory : ~Dropped(entry)}

(* crystallize(): instructions are the caller's or the objective. *)
CrystallizedFrom(c, instructions) ==
    LET context == contexts[c]
    IN  [type |-> "crystallized", status |-> "active", objective |-> instructions,
         memory |-> KeptMemory(context.memory), artifacts |-> FALSE, permissions |-> <<>>,
         events |-> <<"other">>, ui |-> SanitizedUi(context.ui), session |-> FALSE, source |-> c,
         template |-> [instructions |-> instructions, inputs |-> Inputs(context),
                       stages |-> Stages(context), defaults |-> PermissionDefaults(context)]]

(* ContextService.crystallize(): the template, and an event on the source. *)
Crystallize(c, t) ==
    /\ Holds(c)
    /\ Crystallizable(contexts[c].type, contexts[c].status)
    /\ Fresh(t)
    /\ Change
    /\ \E instructions \in {contexts[c].objective, t} :
        contexts' = [contexts EXCEPT ![t] = CrystallizedFrom(c, instructions),
                                     ![c] = Logged(contexts[c], "other")]
    /\ issued' = issued \union {t}
    /\ UNCHANGED decided

-----------------------------------------------------------------------------
(* What was typed for the objective, else its default, else the template's *)
(* instructions.                                                           *)
RunObjective(template, typed, c) ==
    LET defaults == {input.default : input \in
                        {i \in template.template.inputs : i.name = "objective" /\ i.hasDefault}}
    IN  IF "objective" \in typed THEN c
        ELSE IF defaults # {} THEN CHOOSE text \in defaults : TRUE
        ELSE template.template.instructions

(* ContextService.instantiate(), with values, none of them '', typed for   *)
(* some of the inputs: "No grants are copied", nor the template's          *)
(* defaults.                                                               *)
Instantiate(t, c, type, typed) ==
    /\ Holds(t)
    /\ contexts[t].type = "crystallized" /\ IsTemplate(contexts[t])
    /\ Fresh(c)
    /\ \A input \in contexts[t].template.inputs :
        input.required => input.name \in typed \/ (input.hasDefault /\ input.default # Empty)
    /\ SavesNew(c, Logged([NewContext(type, RunObjective(contexts[t], typed, c)) EXCEPT
                              !.ui = contexts[t].ui,
                              !.memory = contexts[t].memory,
                              !.source = t], "other"))

-----------------------------------------------------------------------------
Init ==
    /\ contexts = [c \in ContextIds |-> IF c \in DOMAIN Stored THEN Stored[c] ELSE NoContext]
    /\ issued = DOMAIN Stored
    /\ decided = [c \in ContextIds |-> {}]
    /\ changes = 0

Next ==
    \E c \in ContextIds :
        \/ \E type \in ContextTypes : Create(c, type)
        \/ SubmitIntention(c)
        \/ \E next \in ContextStatuses : SetStatus(c, next)
        \/ \E kind \in {"agent.message", "other"} : AppendEventTo(c, kind)
        \/ \E document \in Documents : SetUiSpecification(c, document)
        \/ Delete(c)
        \/ \E grant \in UserDecision : Decide(c, grant)
        \/ \E t \in ContextIds : Crystallize(c, t)
        \/ \E t \in ContextIds, type \in {"ephemeral", "persistent"}, typed \in SUBSET {"objective", "week"} :
            Instantiate(t, c, type, typed)

Spec == Init /\ [][Next]_vars

-----------------------------------------------------------------------------
(* Properties. *)

New(c) == Holds(c) /\ c \notin DOMAIN Stored

(* The props the comment on PROP_POLICY calls content: "the rows, the      *)
(* notes, the fetched sources", and all of what the broker vouches for.    *)
ContentProps(type) ==
    IF type \in BrokerChecked THEN Allowed(type)
    ELSE {"body", "source", "sources", "value", "rows", "ticks", "entries", "lines", "files",
          "exitCode"} \union (IF type = "checklist" THEN {} ELSE {"items"})

ContentFrom(ui, texts) ==
    \A i \in DOMAIN ui :
        \A p \in ContentProps(ui[i].type) \intersect DOMAIN ui[i].props :
            ui[i].props[p] \in texts

(* Whose texts context c may show as its content. *)
Own(c, context) ==
    {c, Empty} \union IF context.type = "crystallized" THEN {} ELSE {context.source}

(* "The template keeps the layout and starts empty" (crystallize.ts): on   *)
(* no chain of contexts, templates and runs does a context the service     *)
(* made show content written in another, but for what was written in the   *)
(* very template it is a run of; nor does it have memory that is secret,   *)
(* sensitive or of one run, or files, or a session.                        *)
NothingPrivateTravels ==
    \A c \in ContextIds : New(c) =>
        /\ ContentFrom(contexts[c].ui, Own(c, contexts[c]))
        /\ \A entry \in contexts[c].memory : ~Dropped(entry)
        /\ ~contexts[c].artifacts
        /\ ~contexts[c].session

(* "a template must never silently pre-authorize a capability in a new     *)
(* context with new data" (crystallize.ts): no template's defaults allow,  *)
(* and no context made from another starts with a grant.                   *)
NothingIsPreauthorized ==
    \A c \in ContextIds : New(c) =>
        /\ contexts[c].permissions = <<>>
        /\ \A default \in contexts[c].template.defaults : default.decision # "allow"

(* "an invalid document can never be persisted and replayed into the       *)
(* renderer later" (service.ts), though neither a sanitized interface nor  *)
(* a run's copy of one is validated before it is stored.                   *)
InterfacesAreValid ==
    \A c \in ContextIds : Holds(c) /\ contexts[c].ui # NoInterface => Valid(contexts[c].ui)

(* What the user is told agrees with what is done: the components listed   *)
(* as kept are the template's, and so are stages, permission defaults and  *)
(* inputs; the memory listed as removed is what is missing.                *)
Agrees(preview, source, template) ==
    /\ preview.components = {template.ui[i].type : i \in DOMAIN template.ui}
    /\ preview.stages = template.template.stages
    /\ preview.permissions = template.template.defaults
    /\ preview.inputs = template.template.inputs
    /\ preview.removesMemory = source.memory \ template.memory

CrystallizedNow(c, t) ==
    t \in issued' \ issued /\ contexts'[t].type = "crystallized" /\ contexts'[t].source = c

PreviewAgrees ==
    [][\A c, t \in ContextIds : CrystallizedNow(c, t) =>
        Agrees(Preview(contexts[c]), contexts[c], contexts'[t])]_vars

(* "A template keeps [...] the permission defaults" (README), "decisions   *)
(* the user actually made for the whole context" (crystallize.ts): the     *)
(* template of a context has a default for every capability its user       *)
(* decided for that context.                                               *)
DecisionsReachTheTemplate ==
    [][\A c, t \in ContextIds : CrystallizedNow(c, t) =>
        \A grant \in decided[c] : grant.scope = "context" =>
            \E default \in contexts'[t].template.defaults :
                default.capability = grant.capability]_vars

(* What the invariants above need to be inductive. *)

IsContext(context) ==
    /\ context = [type |-> context.type, status |-> context.status,
                  objective |-> context.objective, memory |-> context.memory,
                  artifacts |-> context.artifacts, permissions |-> context.permissions,
                  events |-> context.events, ui |-> context.ui, session |-> context.session,
                  source |-> context.source, template |-> context.template]
    /\ context.type \in ContextTypes
    /\ context.status \in ContextStatuses

(* Any context of the store, found there or made by the service: what is   *)
(* instantiated has passed the sanitizer.                                  *)
Sound(c, context) ==
    /\ IsContext(context)
    /\ context.ui = NoInterface \/ Valid(context.ui)
    /\ \A default \in context.template.defaults : default.decision # "allow"
    /\ context.type = "crystallized" =>
        /\ ContentFrom(context.ui, {c, Empty})
        /\ \A entry \in context.memory : ~Dropped(entry)

(* One the service made. *)
SoundNew(c, context) ==
    /\ ContentFrom(context.ui, Own(c, context))
    /\ \A entry \in context.memory : ~Dropped(entry)
    /\ ~context.artifacts
    /\ ~context.session
    /\ context.permissions = <<>>

(* What is found at the start was made by the service, or ships with it. *)
ASSUME StoredAssumption ==
    /\ DOMAIN Stored \subseteq ContextIds
    /\ \A c \in DOMAIN Stored : Sound(c, Stored[c])

(* An id is issued once, and those of the stored contexts are not issued.  *)
IdsAccounted ==
    /\ DOMAIN Stored \subseteq issued
    /\ \A c \in ContextIds : Holds(c) => c \in issued

ContextsSound ==
    \A c \in ContextIds : Holds(c) =>
        /\ Sound(c, contexts[c])
        /\ New(c) => SoundNew(c, contexts[c])

CrystallizationInv ==
    /\ contexts = [c \in ContextIds |-> contexts[c]]
    /\ IdsAccounted
    /\ ContextsSound
=============================================================================
