------------------------ MODULE CrystallizationProofs ------------------------
(***************************************************************************)
(* Proofs about Crystallization, for every set of ids, every set of stored *)
(* contexts and of documents agents offer, and chains of any length.  What *)
(* the sequence operators return is not needed: the proofs look at what a  *)
(* context shows, remembers and allows, not at its events and stages.      *)
(***************************************************************************)
EXTENDS Crystallization, TLAPS

-----------------------------------------------------------------------------
(* The sanitizer. *)

(* PROP_POLICY fits the catalog: what is kept is no content, what is       *)
(* required is kept or reset, and neither is unknown to the schema.        *)
LEMMA PolicyFitsCatalog ==
    ASSUME NEW type, HasPolicy(type)
    PROVE  /\ Keep(type) \intersect ContentProps(type) \subseteq Reset(type)
           /\ Required(type) \subseteq Keep(type) \union Reset(type)
           /\ Reset(type) \subseteq Required(type)
<1> USE DEF Keep, Reset, Required, ContentProps, BrokerChecked
<1>1. type \in {"text", "markdown", "source-list", "key-value-list", "editor", "table",
                "checklist", "timeline", "progress", "status-panel", "action-button",
                "terminal-output", "file-list", "context-metadata", "activity-log"}
  BY DEF HasPolicy, ComponentTypes, ModelSupplied, HostRendered
<1>2. CASE type \in {"text", "markdown", "source-list"}
  BY <1>2
<1>3. CASE type \in {"key-value-list", "status-panel", "editor"}
  BY <1>3
<1>4. CASE type \in {"table", "checklist", "timeline"}
  BY <1>4
<1>5. CASE type \in {"progress", "action-button", "terminal-output"}
  BY <1>5
<1>6. CASE type \in {"file-list", "context-metadata", "activity-log"}
  BY <1>6
<1>7. QED
  BY <1>1, <1>2, <1>3, <1>4, <1>5, <1>6

(* A component that was valid is valid when sanitized, and what is left of *)
(* its content is empty.                                                   *)
LEMMA SanitizedComponent ==
    ASSUME NEW component, HasPolicy(component.type),
           Required(component.type) \subseteq DOMAIN component.props,
           DOMAIN component.props \subseteq Allowed(component.type)
    PROVE  LET after == Sanitized(component)
           IN  /\ after.type = component.type
               /\ Required(after.type) \subseteq DOMAIN after.props
               /\ DOMAIN after.props \subseteq Allowed(after.type)
               /\ \A p \in ContentProps(after.type) \intersect DOMAIN after.props :
                    after.props[p] = Empty
<1> DEFINE type == component.type
           names == (Keep(type) \intersect DOMAIN component.props) \union Reset(type)
           props == [p \in names |-> IF p \in Reset(type) THEN Empty ELSE component.props[p]]
<1>1. Sanitized(component) = [type |-> type, props |-> props]
  BY DEF Sanitized
<1>2. /\ Keep(type) \intersect ContentProps(type) \subseteq Reset(type)
      /\ Required(type) \subseteq Keep(type) \union Reset(type)
      /\ Reset(type) \subseteq Required(type)
  BY PolicyFitsCatalog
<1>3. Required(type) \subseteq names /\ names \subseteq Allowed(type)
  BY <1>2
<1>4. \A p \in ContentProps(type) \intersect names : props[p] = Empty
  BY <1>2
<1>5. DOMAIN props = names
  OBVIOUS
<1> HIDE DEF names, props
<1>6. QED
  BY <1>1, <1>3, <1>4, <1>5

(* The sanitized interface has the regions whose component has a policy,   *)
(* each of its type; it validates or is none, and its content is empty.    *)
LEMMA SanitizedInterface ==
    ASSUME NEW ui, ui = NoInterface \/ Valid(ui)
    PROVE  /\ DOMAIN SanitizedUi(ui) = {i \in DOMAIN ui : HasPolicy(ui[i].type)}
           /\ \A i \in DOMAIN SanitizedUi(ui) : SanitizedUi(ui)[i].type = ui[i].type
           /\ SanitizedUi(ui) = NoInterface \/ Valid(SanitizedUi(ui))
           /\ ContentFrom(SanitizedUi(ui), {Empty})
<1> DEFINE kept == {region \in DOMAIN ui : HasPolicy(ui[region].type)}
           after == SanitizedUi(ui)
<1>1. DOMAIN after = kept /\ \A i \in kept : after[i] = Sanitized(ui[i])
  BY DEF SanitizedUi
<1>2. ASSUME NEW i \in kept
      PROVE  /\ after[i].type = ui[i].type
             /\ after[i].type \in ComponentTypes
             /\ Required(after[i].type) \subseteq DOMAIN after[i].props
             /\ DOMAIN after[i].props \subseteq Allowed(after[i].type)
             /\ \A p \in ContentProps(after[i].type) \intersect DOMAIN after[i].props :
                    after[i].props[p] = Empty
  <2>1. Valid(ui)
    BY DEF NoInterface
  <2>2. /\ ui[i].type \in ComponentTypes
        /\ Required(ui[i].type) \subseteq DOMAIN ui[i].props
        /\ DOMAIN ui[i].props \subseteq Allowed(ui[i].type)
        /\ HasPolicy(ui[i].type)
    BY <2>1 DEF Valid
  <2>3. QED
    BY <1>1, <2>2, SanitizedComponent
<1>3. kept = {} => after = NoInterface
  BY DEF SanitizedUi, NoInterface
<1>4. kept # {} => Valid(after)
  BY <1>1, <1>2 DEF Valid
<1>5. ContentFrom(after, {Empty})
  BY <1>1, <1>2 DEF ContentFrom
<1>6. QED
  BY <1>1, <1>2, <1>3, <1>4, <1>5

(* Content from some texts is content from more. *)
LEMMA ContentFromMore ==
    ASSUME NEW ui, NEW texts, NEW more, texts \subseteq more, ContentFrom(ui, texts)
    PROVE  ContentFrom(ui, more)
BY DEF ContentFrom

LEMMA NoContent == ASSUME NEW texts PROVE ContentFrom(NoInterface, texts)
BY DEF ContentFrom, NoInterface

(* What the agent of a context writes there is that context's. *)
LEMMA WrittenContent ==
    ASSUME NEW document, NEW c
    PROVE  ContentFrom(Written(document, c), {c})
<1> DEFINE after == Written(document, c)
<1>1. DOMAIN after = DOMAIN document
  BY DEF Written
<1>2. ASSUME NEW i \in DOMAIN document, NEW p \in DOMAIN after[i].props
      PROVE  after[i].props[p] = c
  <2>1. after[i].props = [q \in document[i].props |-> c]
    BY DEF Written
  <2>2. QED
    BY <2>1
<1>3. QED
  BY <1>1, <1>2 DEF ContentFrom

(* "a template must never silently pre-authorize a capability".            *)
LEMMA DefaultsNeverAllow ==
    ASSUME NEW context, \A default \in context.template.defaults : default.decision # "allow"
    PROVE  \A default \in PermissionDefaults(context) : default.decision # "allow"
<1>1. \A decision : Downgraded(decision) # "allow"
  BY DEF Downgraded
<1>2. CASE IsTemplate(context)
  BY <1>2 DEF PermissionDefaults
<1>3. CASE ~IsTemplate(context)
  <2> DEFINE grants == context.permissions
             whole == {i \in DOMAIN grants : grants[i].scope = "context"}
             last == {i \in whole : \A j \in whole :
                        grants[j].capability = grants[i].capability => j <= i}
             carried(i) == [capability |-> grants[i].capability,
                            decision |-> Downgraded(grants[i].decision)]
  <2>1. PermissionDefaults(context) = {carried(i) : i \in last}
    BY <1>3 DEF PermissionDefaults
  <2>2. \A i : carried(i).decision = Downgraded(grants[i].decision)
    OBVIOUS
  <2>3. \A i : carried(i).decision # "allow"
    BY <1>1, <2>2
  <2> HIDE DEF last, carried
  <2>4. QED
    BY <2>1, <2>3
<1>4. QED
  BY <1>2, <1>3

-----------------------------------------------------------------------------
(* One context and its change. *)

(* The two have the same but for status, objective and events. *)
SameMatter(before, after) ==
    /\ IsContext(after)
    /\ after.type = before.type
    /\ after.memory = before.memory
    /\ after.artifacts = before.artifacts
    /\ after.permissions = before.permissions
    /\ after.ui = before.ui
    /\ after.session = before.session
    /\ after.source = before.source
    /\ after.template = before.template

LEMMA SameMatterIsSound ==
    ASSUME NEW c, NEW before, NEW after, SameMatter(before, after), Sound(c, before)
    PROVE  /\ Sound(c, after)
           /\ SoundNew(c, before) => SoundNew(c, after)
BY DEF SameMatter, Sound, SoundNew, Own

(* appendEvent() touches nothing but the log. *)
LEMMA LoggedMatter ==
    ASSUME NEW context, IsContext(context), NEW kind
    PROVE  SameMatter(context, Logged(context, kind))
<1> DEFINE events == Appended(context.events, kind)
<1>1. Logged(context, kind) = [context EXCEPT !.events = events]
  BY DEF Logged
<1> HIDE DEF events
<1>2. QED
  BY <1>1 DEF SameMatter, IsContext

LEMMA StatusMatter ==
    ASSUME NEW context, IsContext(context), NEW status \in ContextStatuses, NEW kind
    PROVE  SameMatter(context, Logged([context EXCEPT !.status = status], kind))
<1> DEFINE moved == [context EXCEPT !.status = status]
<1>1. SameMatter(context, moved)
  BY DEF SameMatter, IsContext
<1>2. SameMatter(moved, Logged(moved, kind))
  BY <1>1, LoggedMatter DEF SameMatter
<1>3. QED
  BY <1>1, <1>2 DEF SameMatter

LEMMA MatterTransitive ==
    ASSUME NEW one, NEW two, NEW three, SameMatter(one, two), SameMatter(two, three)
    PROVE  SameMatter(one, three)
BY DEF SameMatter

LEMMA TransitionStatus ==
    ASSUME NEW status \in ContextStatuses, NEW next \in ContextStatuses, NEW type
    PROVE  Transition(status, next, type) \subseteq ContextStatuses
BY DEF Transition, ContextStatuses

(* createContext() with what a run of a template is given besides. *)
LEMMA NewContextIsSound ==
    ASSUME NEW c, NEW type \in ContextTypes \ {"crystallized"}, NEW objective
    PROVE  Sound(c, NewContext(type, objective)) /\ SoundNew(c, NewContext(type, objective))
<1>1. /\ IsContext(NewContext(type, objective))
      /\ NewContext(type, objective).ui = NoInterface
      /\ NewContext(type, objective).type = type
      /\ NewContext(type, objective).memory = {}
      /\ NewContext(type, objective).template.defaults = {}
      /\ ~NewContext(type, objective).artifacts
      /\ ~NewContext(type, objective).session
      /\ NewContext(type, objective).permissions = <<>>
  BY DEF NewContext, IsContext, ContextStatuses, NotATemplate
<1>2. QED
  BY <1>1, NoContent DEF Sound, SoundNew

(* What instantiate() gives a created context of the template. *)
RunOf(t, template, created) ==
    [created EXCEPT !.ui = template.ui, !.memory = template.memory, !.source = t]

LEMMA RunFields ==
    ASSUME NEW t, NEW template, NEW created, IsContext(created)
    PROVE  LET run == RunOf(t, template, created)
           IN  /\ IsContext(run) /\ run.type = created.type
               /\ run.ui = template.ui /\ run.memory = template.memory /\ run.source = t
               /\ run.permissions = created.permissions /\ run.template = created.template
               /\ run.artifacts = created.artifacts /\ run.session = created.session
<1> DEFINE one == [created EXCEPT !.ui = template.ui]
           two == [one EXCEPT !.memory = template.memory]
           run == [two EXCEPT !.source = t]
<1>1. /\ IsContext(one) /\ one.type = created.type
      /\ one.ui = template.ui
      /\ one.permissions = created.permissions /\ one.template = created.template
      /\ one.artifacts = created.artifacts /\ one.session = created.session
  BY DEF IsContext
<1> HIDE DEF one
<1>2. /\ IsContext(two) /\ two.type = one.type
      /\ two.ui = one.ui /\ two.memory = template.memory
      /\ two.permissions = one.permissions /\ two.template = one.template
      /\ two.artifacts = one.artifacts /\ two.session = one.session
  BY <1>1 DEF IsContext
<1> HIDE DEF two
<1>3. /\ IsContext(run) /\ run.type = two.type
      /\ run.ui = two.ui /\ run.memory = two.memory /\ run.source = t
      /\ run.permissions = two.permissions /\ run.template = two.template
      /\ run.artifacts = two.artifacts /\ run.session = two.session
  BY <1>2 DEF IsContext
<1>4. RunOf(t, template, created) = run
  BY DEF RunOf, one, two
<1> HIDE DEF run
<1>5. QED
  BY <1>1, <1>2, <1>3, <1>4

(* A run of a sound template is sound. *)
LEMMA RunIsSound ==
    ASSUME NEW c, NEW t, NEW template, Sound(t, template), template.type = "crystallized",
           NEW type \in ContextTypes \ {"crystallized"}, NEW objective, NEW kind
    PROVE  LET run == Logged(RunOf(t, template, NewContext(type, objective)), kind)
           IN  Sound(c, run) /\ SoundNew(c, run)
<1> DEFINE created == NewContext(type, objective)
           new == RunOf(t, template, created)
<1>1. /\ IsContext(created) /\ created.type = type
      /\ created.permissions = <<>> /\ created.template.defaults = {}
      /\ ~created.artifacts /\ ~created.session
  BY DEF NewContext, IsContext, ContextStatuses, NotATemplate
<1> HIDE DEF created
<1>2. /\ IsContext(new) /\ new.type = type /\ new.ui = template.ui /\ new.source = t
      /\ new.memory = template.memory /\ new.permissions = <<>> /\ new.template.defaults = {}
      /\ ~new.artifacts /\ ~new.session
  BY <1>1, RunFields
<1> HIDE DEF new
<1>3. ContentFrom(template.ui, {t, Empty}) /\ {t, Empty} \subseteq Own(c, new)
  BY <1>2 DEF Sound, Own
<1>4. SoundNew(c, new)
  BY <1>2, <1>3, ContentFromMore DEF SoundNew, Sound
<1>5. Sound(c, new)
  BY <1>2 DEF Sound
<1>6. QED
  BY <1>2, <1>4, <1>5, LoggedMatter, SameMatterIsSound DEF new, created

(* What crystallize() makes of a sound context is sound, whatever that     *)
(* context held, and a template its run may take as it is.                 *)
LEMMA TemplateIsSound ==
    ASSUME NEW c \in ContextIds, NEW t, Sound(c, contexts[c]), NEW instructions
    PROVE  /\ Sound(t, CrystallizedFrom(c, instructions))
           /\ SoundNew(t, CrystallizedFrom(c, instructions))
<1> DEFINE context == contexts[c]
           made == CrystallizedFrom(c, instructions)
           template == [instructions |-> instructions, inputs |-> Inputs(context),
                        stages |-> Stages(context), defaults |-> PermissionDefaults(context)]
<1>1. made = [type |-> "crystallized", status |-> "active", objective |-> instructions,
              memory |-> KeptMemory(context.memory), artifacts |-> FALSE, permissions |-> <<>>,
              events |-> <<"other">>, ui |-> SanitizedUi(context.ui), session |-> FALSE,
              source |-> c, template |-> template]
  BY DEF CrystallizedFrom
<1>2. template.defaults = PermissionDefaults(context)
  OBVIOUS
<1> HIDE DEF made, template
<1>3. /\ IsContext(made) /\ made.type = "crystallized" /\ made.ui = SanitizedUi(context.ui)
      /\ made.memory = KeptMemory(context.memory) /\ ~made.artifacts /\ ~made.session
      /\ made.permissions = <<>> /\ made.template.defaults = PermissionDefaults(context)
  BY <1>1, <1>2 DEF IsContext, ContextTypes, ContextStatuses
<1>4. /\ made.ui = NoInterface \/ Valid(made.ui)
      /\ ContentFrom(made.ui, {t, Empty})
  <2>1. context.ui = NoInterface \/ Valid(context.ui)
    BY DEF Sound
  <2>2. /\ SanitizedUi(context.ui) = NoInterface \/ Valid(SanitizedUi(context.ui))
        /\ ContentFrom(SanitizedUi(context.ui), {Empty})
    BY <2>1, SanitizedInterface
  <2>3. {Empty} \subseteq {t, Empty}
    OBVIOUS
  <2>4. QED
    BY <1>3, <2>2, <2>3, ContentFromMore
<1>5. \A entry \in made.memory : ~Dropped(entry)
  BY <1>3 DEF KeptMemory
<1>6. \A default \in made.template.defaults : default.decision # "allow"
  BY <1>3, DefaultsNeverAllow DEF Sound
<1>7. Own(t, made) = {t, Empty}
  BY <1>3 DEF Own
<1>8. Sound(t, made)
  BY <1>3, <1>4, <1>5, <1>6 DEF Sound
<1>9. SoundNew(t, made)
  BY <1>3, <1>4, <1>5, <1>7 DEF SoundNew
<1>10. QED
  BY <1>8, <1>9 DEF made

-----------------------------------------------------------------------------
(* The inductive invariant. *)

(* A step is harmless that leaves each context as it is, deletes it, or    *)
(* puts one that is sound under an id that has been issued.                *)
LEMMA SoundStep ==
    ASSUME CrystallizationInv, contexts' = [c \in ContextIds |-> contexts'[c]],
           issued \subseteq issued',
           \A c \in ContextIds :
                \/ contexts'[c] \in {contexts[c], NoContext}
                \/ /\ c \in issued'
                   /\ Sound(c, contexts'[c])
                   /\ c \notin DOMAIN Stored => SoundNew(c, contexts'[c])
    PROVE  CrystallizationInv'
<1>1. IdsAccounted'
  BY DEF CrystallizationInv, IdsAccounted, Holds
<1>2. ContextsSound'
  BY DEF CrystallizationInv, ContextsSound, Holds, New
<1>3. QED
  BY <1>1, <1>2 DEF CrystallizationInv

LEMMA PutSound ==
    ASSUME CrystallizationInv, NEW c \in ContextIds, NEW context, Put(c, context),
           issued' = issued \union {c} \/ (issued' = issued /\ c \in issued),
           \/ context = NoContext
           \/ Sound(c, context) /\ (c \notin DOMAIN Stored => SoundNew(c, context))
    PROVE  CrystallizationInv'
<1>1. /\ contexts' = [d \in ContextIds |-> contexts'[d]]
      /\ contexts'[c] = context
      /\ \A d \in ContextIds : d # c => contexts'[d] = contexts[d]
  BY DEF Put, CrystallizationInv
<1>2. issued \subseteq issued' /\ c \in issued'
  OBVIOUS
<1>3. QED
  BY <1>1, <1>2, SoundStep

(* What a stored context is changed to without touching its matter.        *)
LEMMA PutSameMatter ==
    ASSUME CrystallizationInv, NEW c \in ContextIds, Holds(c), NEW context,
           Saves(c, context), SameMatter(contexts[c], context)
    PROVE  CrystallizationInv'
<1>1. Sound(c, contexts[c]) /\ (New(c) => SoundNew(c, contexts[c])) /\ c \in issued
  BY DEF CrystallizationInv, ContextsSound, IdsAccounted
<1>2. Sound(c, context) /\ (c \notin DOMAIN Stored => SoundNew(c, context))
  BY <1>1, SameMatterIsSound DEF New
<1>3. Put(c, context) /\ issued' = issued
  BY DEF Saves
<1>4. QED
  BY <1>1, <1>2, <1>3, PutSound

LEMMA StoredContext ==
    ASSUME CrystallizationInv, NEW c \in ContextIds, Holds(c)
    PROVE  /\ Sound(c, contexts[c])
           /\ New(c) => SoundNew(c, contexts[c])
           /\ IsContext(contexts[c])
           /\ contexts[c].status \in ContextStatuses
           /\ c \in issued
BY DEF CrystallizationInv, ContextsSound, IdsAccounted, Sound, IsContext

LEMMA CreateStep ==
    ASSUME CrystallizationInv, NEW c \in ContextIds, NEW type \in ContextTypes, Create(c, type)
    PROVE  CrystallizationInv'
<1>1. PICK objective \in {c, Empty} : SavesNew(c, NewContext(type, objective))
  BY DEF Create
<1>2. Put(c, NewContext(type, objective)) /\ issued' = issued \union {c}
  BY <1>1 DEF SavesNew
<1>3. Sound(c, NewContext(type, objective)) /\ SoundNew(c, NewContext(type, objective))
  BY NewContextIsSound DEF Create
<1>4. QED
  BY <1>2, <1>3, PutSound

LEMMA SubmitIntentionStep ==
    ASSUME CrystallizationInv, NEW c \in ContextIds, SubmitIntention(c)
    PROVE  CrystallizationInv'
<1> DEFINE context == contexts[c]
           said == [context EXCEPT !.objective = IF @ = Empty THEN c ELSE @]
           told == Logged(said, "intention.submitted")
<1>1. Holds(c)
  BY DEF SubmitIntention
<1>2. IsContext(context) /\ context.status \in ContextStatuses
  BY <1>1, StoredContext
<1>3. PICK status \in ContextStatuses :
        Saves(c, IF status = told.status THEN told
                 ELSE Logged([told EXCEPT !.status = status], "other"))
  BY <1>2, TransitionStatus DEF SubmitIntention, ContextStatuses
<1>4. SameMatter(context, said)
  BY <1>2 DEF SameMatter, IsContext
<1>5. SameMatter(said, told)
  <2>1. IsContext(said)
    BY <1>4 DEF SameMatter
  <2> HIDE DEF said
  <2>2. QED
    BY <2>1, LoggedMatter
<1>6. SameMatter(told, Logged([told EXCEPT !.status = status], "other"))
  BY <1>5, StatusMatter DEF SameMatter
<1> HIDE DEF said, told
<1>7. SameMatter(context, told)
        /\ SameMatter(context, Logged([told EXCEPT !.status = status], "other"))
  BY <1>4, <1>5, <1>6, MatterTransitive
<1>8. CASE status = told.status
  BY <1>1, <1>3, <1>7, <1>8, PutSameMatter
<1>9. CASE status # told.status
  BY <1>1, <1>3, <1>7, <1>9, PutSameMatter
<1>10. QED
  BY <1>8, <1>9

LEMMA SetStatusStep ==
    ASSUME CrystallizationInv, NEW c \in ContextIds, NEW next \in ContextStatuses,
           SetStatus(c, next)
    PROVE  CrystallizationInv'
<1>1. Holds(c) /\ IsContext(contexts[c]) /\ contexts[c].status \in ContextStatuses
  BY StoredContext DEF SetStatus
<1>2. PICK status \in ContextStatuses :
        Saves(c, Logged([contexts[c] EXCEPT !.status = status], "other"))
  BY <1>1, TransitionStatus DEF SetStatus
<1>3. SameMatter(contexts[c], Logged([contexts[c] EXCEPT !.status = status], "other"))
  BY <1>1, StatusMatter
<1>4. QED
  BY <1>1, <1>2, <1>3, PutSameMatter

LEMMA AppendEventStep ==
    ASSUME CrystallizationInv, NEW c \in ContextIds, NEW kind, AppendEventTo(c, kind)
    PROVE  CrystallizationInv'
BY StoredContext, LoggedMatter, PutSameMatter DEF AppendEventTo

(* A document is stored only when it validates, and the texts in it are    *)
(* those of the context's own agent.                                       *)
LEMMA SetUiStep ==
    ASSUME CrystallizationInv, NEW c \in ContextIds, NEW document,
           SetUiSpecification(c, document)
    PROVE  CrystallizationInv'
<1> DEFINE ui == Written(document, c)
           context == contexts[c]
           shown == [context EXCEPT !.ui = ui]
<1>1. Holds(c) /\ Sound(c, context) /\ (New(c) => SoundNew(c, context)) /\ IsContext(context)
        /\ c \in issued
  BY StoredContext DEF SetUiSpecification
<1>2. CASE ~Valid(ui)
  <2>1. Saves(c, Logged(context, "other"))
    BY <1>2 DEF SetUiSpecification
  <2>2. QED
    BY <1>1, <2>1, LoggedMatter, PutSameMatter
<1>3. CASE Valid(ui)
  <2>1. ContentFrom(ui, {c})
    BY WrittenContent
  <2>2. ContentFrom(ui, {c, Empty}) /\ ContentFrom(ui, Own(c, shown))
    BY <2>1, ContentFromMore DEF Own
  <2>3. Saves(c, Logged(shown, "ui.specification-updated"))
    BY <1>3 DEF SetUiSpecification
  <2>4. Valid(ui)
    BY <1>3
  <2> HIDE DEF ui
  <2>5. /\ IsContext(shown) /\ shown.ui = ui /\ shown.type = context.type
        /\ shown.memory = context.memory /\ shown.template = context.template
        /\ shown.artifacts = context.artifacts /\ shown.session = context.session
        /\ shown.permissions = context.permissions
    BY <1>1 DEF IsContext
  <2> HIDE DEF shown
  <2>6. Sound(c, shown) /\ (c \notin DOMAIN Stored => SoundNew(c, shown))
    BY <1>1, <2>2, <2>4, <2>5 DEF Sound, SoundNew, New
  <2>7. LET after == Logged(shown, "ui.specification-updated")
        IN  Sound(c, after) /\ (c \notin DOMAIN Stored => SoundNew(c, after))
    BY <2>5, <2>6, LoggedMatter, SameMatterIsSound
  <2>8. QED
    BY <1>1, <2>3, <2>7, PutSound DEF Saves
<1>4. QED
  BY <1>2, <1>3

LEMMA CrystallizeStep ==
    ASSUME CrystallizationInv, NEW c \in ContextIds, NEW t \in ContextIds, Crystallize(c, t)
    PROVE  CrystallizationInv'
<1>1. Holds(c) /\ ~Holds(t) /\ t \notin issued /\ t # c
  BY DEF Crystallize, Fresh
<1>2. PICK instructions :
        contexts' = [contexts EXCEPT ![t] = CrystallizedFrom(c, instructions),
                                     ![c] = Logged(contexts[c], "other")]
  BY DEF Crystallize
<1>3. /\ contexts' = [d \in ContextIds |-> contexts'[d]]
      /\ contexts'[t] = CrystallizedFrom(c, instructions)
      /\ contexts'[c] = Logged(contexts[c], "other")
      /\ \A d \in ContextIds \ {c, t} : contexts'[d] = contexts[d]
  BY <1>1, <1>2 DEF CrystallizationInv
<1>4. Sound(t, contexts'[t]) /\ SoundNew(t, contexts'[t])
  BY <1>1, <1>3, StoredContext, TemplateIsSound
<1>5. Sound(c, contexts'[c]) /\ (c \notin DOMAIN Stored => SoundNew(c, contexts'[c]))
  BY <1>1, <1>3, StoredContext, LoggedMatter, SameMatterIsSound DEF New
<1>6. issued' = issued \union {t} /\ c \in issued
  BY <1>1, StoredContext DEF Crystallize
<1>7. QED
  BY <1>3, <1>4, <1>5, <1>6, SoundStep

LEMMA InstantiateStep ==
    ASSUME CrystallizationInv, NEW c \in ContextIds, NEW t \in ContextIds,
           NEW type \in {"ephemeral", "persistent"}, NEW typed, Instantiate(t, c, type, typed)
    PROVE  CrystallizationInv'
<1> DEFINE run == Logged(RunOf(t, contexts[t],
                               NewContext(type, RunObjective(contexts[t], typed, c))), "other")
<1>1. SavesNew(c, run)
  BY DEF Instantiate, RunOf
<1>2. Sound(t, contexts[t]) /\ contexts[t].type = "crystallized"
  BY StoredContext DEF Instantiate
<1>3. type \in ContextTypes \ {"crystallized"}
  BY DEF ContextTypes
<1>4. Sound(c, run) /\ SoundNew(c, run)
  BY <1>2, <1>3, RunIsSound
<1> HIDE DEF run
<1>5. QED
  BY <1>1, <1>4, PutSound DEF SavesNew

LEMMA InvInit == Init => CrystallizationInv
<1> SUFFICES ASSUME Init PROVE CrystallizationInv
  OBVIOUS
<1>1. \A c \in ContextIds :
        contexts[c] = IF c \in DOMAIN Stored THEN Stored[c] ELSE NoContext
  BY DEF Init
<1>2. IdsAccounted
  BY <1>1 DEF Init, IdsAccounted, Holds
<1>3. ContextsSound
  BY <1>1, StoredAssumption DEF ContextsSound, Holds, New
<1>4. QED
  BY <1>2, <1>3 DEF Init, CrystallizationInv

LEMMA InvStep == CrystallizationInv /\ [Next]_vars => CrystallizationInv'
<1> SUFFICES ASSUME CrystallizationInv, [Next]_vars PROVE CrystallizationInv'
  OBVIOUS
<1>1. ASSUME NEW c \in ContextIds, Delete(c)
      PROVE  CrystallizationInv'
  BY <1>1, StoredContext, PutSound DEF Delete, Saves
<1>2. ASSUME NEW c \in ContextIds, NEW grant \in UserDecision, Decide(c, grant)
      PROVE  CrystallizationInv'
  BY <1>2 DEF Decide, CrystallizationInv, IdsAccounted, ContextsSound, Holds, New
<1>3. CASE UNCHANGED vars
  BY <1>3 DEF vars, CrystallizationInv, IdsAccounted, ContextsSound, Holds, New
<1>4. QED
  BY <1>1, <1>2, <1>3, CreateStep, SubmitIntentionStep, SetStatusStep, AppendEventStep,
     SetUiStep, CrystallizeStep, InstantiateStep DEF Next

(* The inductive invariant holds in every reachable state. *)
THEOREM CrystallizationInvariant == Spec => []CrystallizationInv
BY InvInit, InvStep, PTL DEF Spec

-----------------------------------------------------------------------------
(* What travels. *)

(* "The template keeps the layout and starts empty" (crystallize.ts): on   *)
(* every chain of contexts, templates and runs, of any length and from any *)
(* stored contexts.                                                        *)
THEOREM NothingPrivateEverTravels == Spec => []NothingPrivateTravels
<1>1. CrystallizationInv => NothingPrivateTravels
  BY DEF CrystallizationInv, ContextsSound, SoundNew, New, NothingPrivateTravels
<1>2. QED
  BY <1>1, CrystallizationInvariant, PTL

(* "a template must never silently pre-authorize a capability in a new     *)
(* context with new data" (crystallize.ts).                                *)
THEOREM NothingIsEverPreauthorized == Spec => []NothingIsPreauthorized
<1>1. CrystallizationInv => NothingIsPreauthorized
  BY DEF CrystallizationInv, ContextsSound, Sound, SoundNew, New, NothingIsPreauthorized
<1>2. QED
  BY <1>1, CrystallizationInvariant, PTL

(* "an invalid document can never be persisted and replayed into the       *)
(* renderer later" (service.ts), whatever agents offer: what the sanitizer *)
(* makes of a valid interface is valid, though nobody validates it.        *)
THEOREM InterfacesStayValid == Spec => []InterfacesAreValid
<1>1. CrystallizationInv => InterfacesAreValid
  BY DEF CrystallizationInv, ContextsSound, Sound, InterfacesAreValid
<1>2. QED
  BY <1>1, CrystallizationInvariant, PTL

(* What a preview of a context says of it is what the template made of it  *)
(* has.                                                                    *)
LEMMA PreviewOfTemplate ==
    ASSUME CrystallizationInv, NEW c \in ContextIds, Holds(c), NEW instructions
    PROVE  Agrees(Preview(contexts[c]), contexts[c], CrystallizedFrom(c, instructions))
<1> DEFINE context == contexts[c]
           made == CrystallizedFrom(c, instructions)
           after == SanitizedUi(context.ui)
           shown == {context.ui[i].type : i \in DOMAIN context.ui}
<1>1. context.ui = NoInterface \/ Valid(context.ui)
  BY StoredContext DEF Sound
<1>2. \A i \in DOMAIN context.ui : context.ui[i].type \in ComponentTypes
  BY <1>1 DEF Valid, NoInterface
<1>3. shown \ {"permission-request"} = {after[i].type : i \in DOMAIN after}
  <2>1. /\ DOMAIN after = {i \in DOMAIN context.ui : HasPolicy(context.ui[i].type)}
        /\ \A i \in DOMAIN after : after[i].type = context.ui[i].type
    BY <1>1, SanitizedInterface
  <2>2. \A i \in DOMAIN context.ui :
            HasPolicy(context.ui[i].type) <=> context.ui[i].type # "permission-request"
    BY <1>2 DEF HasPolicy, BrokerChecked
  <2> HIDE DEF after
  <2>3. QED
    BY <2>1, <2>2
<1>4. /\ made.ui = after /\ made.memory = KeptMemory(context.memory)
      /\ made.template.stages = Stages(context)
      /\ made.template.defaults = PermissionDefaults(context)
      /\ made.template.inputs = Inputs(context)
  BY DEF CrystallizedFrom
<1>5. LET preview == Preview(context)
      IN  /\ preview.components = shown \ {"permission-request"}
          /\ preview.stages = Stages(context)
          /\ preview.permissions = PermissionDefaults(context)
          /\ preview.inputs = Inputs(context)
          /\ preview.removesMemory = {entry \in context.memory : Dropped(entry)}
  BY DEF Preview
<1>6. {entry \in context.memory : Dropped(entry)} = context.memory \ KeptMemory(context.memory)
  BY DEF KeptMemory
<1> HIDE DEF made, after, shown
<1>7. Preview(context).components = {made.ui[i].type : i \in DOMAIN made.ui}
  BY <1>3, <1>4, <1>5
<1>8. Agrees(Preview(context), context, made)
  BY <1>4, <1>5, <1>6, <1>7 DEF Agrees
<1>9. QED
  BY <1>8 DEF made

(* Only crystallize() makes a template, and it makes it of its source.     *)
LEMMA OnlyCrystallizeMakesTemplates ==
    ASSUME CrystallizationInv, [Next]_vars, NEW c \in ContextIds, NEW t \in ContextIds,
           CrystallizedNow(c, t)
    PROVE  Crystallize(c, t)
<1>1. t \in issued' /\ t \notin issued /\ contexts'[t].type = "crystallized"
        /\ contexts'[t].source = c
  BY DEF CrystallizedNow
<1>2. ASSUME NEW d \in ContextIds, NEW context, Saves(d, context)
      PROVE  issued' = issued
  BY <1>2 DEF Saves
<1>3. ASSUME NEW d \in ContextIds,
             \/ SubmitIntention(d)
             \/ \E next \in ContextStatuses : SetStatus(d, next)
             \/ \E kind \in {"agent.message", "other"} : AppendEventTo(d, kind)
             \/ \E document \in Documents : SetUiSpecification(d, document)
             \/ Delete(d)
             \/ \E grant \in UserDecision : Decide(d, grant)
      PROVE  FALSE
  <2>1. issued' = issued
    BY <1>3 DEF SubmitIntention, SetStatus, AppendEventTo, SetUiSpecification, Delete, Decide,
                Saves
  <2>2. QED
    BY <1>1, <2>1
<1>4. ASSUME NEW d \in ContextIds, NEW context, SavesNew(d, context),
             context.type # "crystallized"
      PROVE  FALSE
  <2>1. d = t
    BY <1>1, <1>4 DEF SavesNew
  <2>2. contexts'[d] = context
    BY <1>4 DEF SavesNew, Put, CrystallizationInv
  <2>3. QED
    BY <1>1, <1>4, <2>1, <2>2
<1>5. ASSUME NEW d \in ContextIds, NEW type \in ContextTypes, Create(d, type)
      PROVE  FALSE
  <2>1. PICK objective \in {d, Empty} : SavesNew(d, NewContext(type, objective))
    BY <1>5 DEF Create
  <2>2. NewContext(type, objective).type # "crystallized"
    BY <1>5 DEF Create, NewContext
  <2>3. QED
    BY <1>4, <2>1, <2>2
<1>6. ASSUME NEW d \in ContextIds, NEW s \in ContextIds,
             NEW type \in {"ephemeral", "persistent"}, NEW typed, Instantiate(s, d, type, typed)
      PROVE  FALSE
  <2> DEFINE created == NewContext(type, RunObjective(contexts[s], typed, d))
             run == Logged(RunOf(s, contexts[s], created), "other")
  <2>1. SavesNew(d, run)
    BY <1>6 DEF Instantiate, RunOf
  <2>2. IsContext(created) /\ created.type = type
    BY DEF NewContext, IsContext, ContextTypes, ContextStatuses
  <2> HIDE DEF created
  <2>3. IsContext(RunOf(s, contexts[s], created))
            /\ RunOf(s, contexts[s], created).type = type
    BY <2>2, RunFields
  <2>4. run.type = type
    BY <2>3, LoggedMatter DEF SameMatter
  <2> HIDE DEF run
  <2>5. QED
    BY <1>4, <2>1, <2>4
<1>7. ~UNCHANGED vars
  BY <1>1 DEF vars
<1>8. PICK d \in ContextIds, s \in ContextIds : Crystallize(d, s)
  BY <1>3, <1>5, <1>6, <1>7 DEF Next
<1>9. s = t
  BY <1>1, <1>8 DEF Crystallize
<1>10. contexts'[t].source = d
  <2>1. PICK instructions :
            contexts' = [contexts EXCEPT ![t] = CrystallizedFrom(d, instructions),
                                         ![d] = Logged(contexts[d], "other")]
    BY <1>8, <1>9 DEF Crystallize
  <2>2. t # d
    BY <1>8, <1>9 DEF Crystallize, Fresh
  <2>3. contexts'[t] = CrystallizedFrom(d, instructions)
    BY <2>1, <2>2 DEF CrystallizationInv
  <2>4. QED
    BY <2>3 DEF CrystallizedFrom
<1>11. QED
  BY <1>1, <1>8, <1>9, <1>10

(* The user is told what is done: of every context and on every chain, the *)
(* components, stages, defaults and inputs a preview lists as kept are the *)
(* template's, and the memory it lists as removed is what is missing.      *)
THEOREM PreviewsAgree == Spec => PreviewAgrees
<1>1. ASSUME CrystallizationInv, [Next]_vars, NEW c \in ContextIds, NEW t \in ContextIds,
             CrystallizedNow(c, t)
      PROVE  Agrees(Preview(contexts[c]), contexts[c], contexts'[t])
  <2>1. Crystallize(c, t)
    BY <1>1, OnlyCrystallizeMakesTemplates
  <2>2. Holds(c) /\ t # c
    BY <2>1 DEF Crystallize, Fresh
  <2>3. PICK instructions :
            contexts' = [contexts EXCEPT ![t] = CrystallizedFrom(c, instructions),
                                         ![c] = Logged(contexts[c], "other")]
    BY <2>1 DEF Crystallize
  <2>4. contexts'[t] = CrystallizedFrom(c, instructions)
    BY <1>1, <2>2, <2>3 DEF CrystallizationInv
  <2>5. QED
    BY <1>1, <2>2, <2>4, PreviewOfTemplate
<1>2. CrystallizationInv /\ [Next]_vars =>
        [\A c, t \in ContextIds : CrystallizedNow(c, t) =>
            Agrees(Preview(contexts[c]), contexts[c], contexts'[t])]_vars
  BY <1>1
<1>3. QED
  BY <1>2, CrystallizationInvariant, PTL DEF PreviewAgrees, Spec
=============================================================================
