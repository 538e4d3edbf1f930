------------------------ MODULE ContextServiceProofs ------------------------
(***************************************************************************)
(* Proofs about ContextService, for every value of its constants.          *)
(* Whatever operation a call asks for, it changes the cache to some table  *)
(* and queues the write of that table (Changes); what is proved of the     *)
(* chain of writes is proved of that, and what is proved of memory only    *)
(* looks at which documents an operation puts.                             *)
(***************************************************************************)
EXTENDS ContextService, FiniteSetTheorems, TLAPS

-----------------------------------------------------------------------------
(* Documents. *)

LEMMA LoggedDocument ==
    ASSUME version \in Nat, NEW document \in Document
    PROVE  /\ Logged(document) \in Document
           /\ Logged(document).memory = document.memory
           /\ Logged(document).template = document.template
           /\ Logged(document).status = document.status
           /\ Logged(document).type = document.type
           /\ Logged(document).log = Log(document.log)
<1>1. Log(document.log) \in SUBSET Nat
  BY DEF Log, Document
<1>2. QED
  BY <1>1 DEF Logged, Document

LEMMA FiniteLog ==
    ASSUME NEW log, IsFiniteSet(log)
    PROVE  IsFiniteSet(log \union {version + 1}) /\ IsFiniteSet(Log(log))
<1>1. IsFiniteSet(log \union {version + 1})
  BY FS_AddElement
<1>2. Log(log) \subseteq log \union {version + 1}
  BY DEF Log
<1>3. QED
  BY <1>1, <1>2, FS_Subset

LEMMA CreatedDocument ==
    ASSUME version \in Nat, NEW type \in ContextTypes, NEW memory \in SUBSET MemoryEntry
    PROVE  /\ Created(type, memory) \in Document
           /\ Created(type, memory).memory = memory
           /\ ~Created(type, memory).template
           /\ IsFiniteSet(Created(type, memory).log)
<1>1. Created(type, memory).log = {version + 1}
  BY DEF Created
<1>2. IsFiniteSet(Created(type, memory).log)
  BY <1>1, FS_Singleton
<1>3. QED
  BY <1>2 DEF Created, Document, ContextStatuses

LEMMA TransitionStatus ==
    ASSUME NEW status \in ContextStatuses, NEW next \in ContextStatuses, NEW type,
           NEW reached \in Transition(status, next, type)
    PROVE  reached \in ContextStatuses
BY DEF Transition, ContextStatuses

LEMMA HeldDocument ==
    ASSUME ServiceTypeOK, NEW c \in ContextIds, Holds(cache, c)
    PROVE  cache[c] \in Document
BY DEF ServiceTypeOK, Table, Holds

LEMMA HeldLog ==
    ASSUME TableAccounted(cache), NEW c \in ContextIds, Holds(cache, c)
    PROVE  IsFiniteSet(cache[c].log)
BY DEF TableAccounted, Accounted

-----------------------------------------------------------------------------
(* What a call, or the seeding, does to the store. *)

(* Ids nothing has had become issued. *)
Issues(ids) ==
    /\ issued' = issued \union ids
    /\ ids \subseteq ContextIds
    /\ ids \intersect (issued \union Reserved) = {}

(* Call k waits for no write of the chain. *)
Free(k) == \A w \in writes : calls[k].at = "idle" \/ calls[k].version # w.version

(* The cache becomes `table`, whose write call k now waits for. *)
Changes(k, table, at, c, source) ==
    /\ table \in Table
    /\ at \in {"saving", "recording"}
    /\ c \in ContextIds \union {NoContext}
    /\ source \in Document \union {NoContext}
    /\ process = "serving"
    /\ Free(k)
    /\ Store(table)
    /\ AwaitWrite(k, at, c, source)
    /\ UNCHANGED <<process, acked, crashes>>

(* What was accounted for stays so when fresh ids are issued. *)
LEMMA StillAccounted ==
    ASSUME NEW ids, Issues(ids), NEW c, NEW document, Accounted(c, document)
    PROVE  Accounted(c, document)'
<1>1. c \notin ids
  BY DEF Issues, Accounted
<1>2. Reserved' = Reserved
  BY DEF Reserved, Holds
<1>3. QED
  BY <1>1, <1>2 DEF Issues, Accounted, Clean

LEMMA TableStillAccounted ==
    ASSUME NEW ids, Issues(ids), NEW table, TableAccounted(table)
    PROVE  TableAccounted(table)'
BY StillAccounted DEF TableAccounted, Holds

(* A put of an accounted document leaves an accounted table. *)
LEMMA PutAccounted ==
    ASSUME ServiceTypeOK, NEW ids, Issues(ids), TableAccounted(cache),
           NEW c \in ContextIds, NEW document \in Document, Accounted(c, document)',
           NEW table, table = [cache EXCEPT ![c] = document]
    PROVE  table \in Table /\ TableAccounted(table)'
<1>1. cache \in [ContextIds -> Document \union {NoContext}]
  BY DEF ServiceTypeOK, Table
<1>2. table \in [ContextIds -> Document \union {NoContext}]
  BY <1>1
<1>3. table[c] = document /\ \A d \in ContextIds \ {c} : table[d] = cache[d]
  BY <1>1
<1>4. ASSUME NEW d \in ContextIds, table[d] # NoContext
      PROVE  Accounted(d, table[d])'
  <2>1. CASE d = c
    BY <1>3, <2>1
  <2>2. CASE d # c
    <3>1. Accounted(d, cache[d])
      BY <1>3, <1>4, <2>2 DEF TableAccounted, Holds
    <3> DEFINE document_d == table[d]
    <3>2. Accounted(d, document_d)
      BY <1>3, <2>2, <3>1
    <3> HIDE DEF document_d
    <3>3. Accounted(d, document_d)'
      BY <3>2, StillAccounted
    <3>4. QED
      BY <3>3 DEF document_d
  <2>3. QED
    BY <2>1, <2>2
<1>5. QED
  BY <1>2, <1>4 DEF Table, TableAccounted, Holds

-----------------------------------------------------------------------------
(* Every operation of the service changes the store this way. *)

Recordable(at, c, source) ==
    at = "recording" => c \in ContextIds /\ source \in Document /\ Accounted(c, source)

Operation(k) ==
    \E ids, table, at, c, source :
        /\ Issues(ids)
        /\ Changes(k, table, at, c, source)
        /\ TableAccounted(table)'
        /\ Recordable(at, c, source)'

LEMMA SameMemoryAccounted ==
    ASSUME NEW c, NEW old, Accounted(c, old), NEW document,
           document.memory = old.memory, document.template = old.template,
           IsFiniteSet(document.log)
    PROVE  Accounted(c, document)
BY DEF Accounted, Clean

(* An operation that saves a document, under an old id or a fresh one. *)
LEMMA SavingOperation ==
    ASSUME ServiceTypeOK, TableAccounted(cache), NEW k \in Calls, Begin(k),
           NEW ids, Issues(ids), NEW c \in ContextIds, NEW document \in Document,
           Accounted(c, document)', SavesAs(k, c, document)
    PROVE  Operation(k)
<1> DEFINE table == [cache EXCEPT ![c] = document]
<1>1. \E tab : tab = table
  OBVIOUS
<1>2. PICK tab : tab = table
  BY <1>1
<1>3. tab \in Table /\ TableAccounted(tab)'
  BY <1>2, PutAccounted
<1>4. Changes(k, tab, "saving", NoContext, NoContext)
  BY <1>2, <1>3 DEF Changes, Begin, Free, SavesAs, Put
<1>5. Recordable("saving", NoContext, NoContext)'
  BY DEF Recordable
<1>6. QED
  BY <1>3, <1>4, <1>5 DEF Operation

(* One that changes a context in place and keeps its memory. *)
LEMMA EditingOperation ==
    ASSUME ServiceTypeOK, TableAccounted(cache), NEW k \in Calls, Begin(k),
           NEW c \in ContextIds, Holds(cache, c), NEW document \in Document,
           document.memory = cache[c].memory, document.template = cache[c].template,
           IsFiniteSet(document.log), Saves(k, c, document)
    PROVE  Operation(k)
<1>1. Issues({})
  BY DEF Saves, Issues
<1>2. Accounted(c, document)
  BY SameMemoryAccounted DEF TableAccounted
<1>3. Accounted(c, document)'
  BY <1>1, <1>2, StillAccounted
<1>4. QED
  BY <1>1, <1>3, SavingOperation DEF Saves

(* One that puts a clean context under a fresh id. *)
LEMMA CreatingOperation ==
    ASSUME ServiceTypeOK, TableAccounted(cache), NEW k \in Calls, Begin(k),
           NEW c \in ContextIds, Fresh(c), NEW document \in Document, Clean(document),
           IsFiniteSet(document.log), SavesNew(k, c, document)
    PROVE  Operation(k)
<1>1. Issues({c})
  BY DEF SavesNew, Issues, Fresh
<1>2. Accounted(c, document)'
  BY <1>1 DEF Issues, Accounted, Clean
<1>3. QED
  BY <1>1, <1>2, SavingOperation DEF SavesNew

(* A change of status, with its event. *)
LEMMA StatusOperation ==
    ASSUME ServiceTypeOK, TableAccounted(cache), NEW k \in Calls, Begin(k),
           NEW c \in ContextIds, Holds(cache, c), NEW status \in ContextStatuses,
           Saves(k, c, [Logged(cache[c]) EXCEPT !.status = status])
    PROVE  Operation(k)
<1> DEFINE document == [Logged(cache[c]) EXCEPT !.status = status]
<1>1. /\ Logged(cache[c]) \in Document
      /\ Logged(cache[c]).memory = cache[c].memory
      /\ Logged(cache[c]).template = cache[c].template
      /\ IsFiniteSet(Logged(cache[c]).log)
  BY HeldDocument, HeldLog, LoggedDocument, FiniteLog DEF ServiceTypeOK
<1>2. /\ document \in Document
      /\ document.memory = cache[c].memory
      /\ document.template = cache[c].template
      /\ IsFiniteSet(document.log)
  BY <1>1 DEF Document
<1>3. Saves(k, c, document)
  OBVIOUS
<1> HIDE DEF document
<1>4. PICK d \in Document : d = document
  BY <1>2
<1>5. QED
  BY <1>2, <1>3, <1>4, EditingOperation

LEMMA SubmitIntentionOperates ==
    ASSUME ServiceTypeOK, TableAccounted(cache), NEW k \in Calls, NEW c \in ContextIds,
           SubmitIntention(k, c)
    PROVE  Operation(k)
<1>1. Begin(k) /\ Holds(cache, c)
  BY DEF SubmitIntention
<1>2. PICK status \in IF cache[c].status = "draft"
                      THEN Transition("draft", "active", cache[c].type)
                      ELSE {cache[c].status} :
            Saves(k, c, [Logged(cache[c]) EXCEPT !.status = status])
  BY DEF SubmitIntention
<1>3. status \in ContextStatuses
  <2>1. "draft" \in ContextStatuses /\ "active" \in ContextStatuses
    BY DEF ContextStatuses
  <2>2. cache[c].status \in ContextStatuses
    BY <1>1, HeldDocument DEF Document
  <2>3. QED
    BY <1>2, <2>1, <2>2, TransitionStatus
<1>4. QED
  BY <1>1, <1>2, <1>3, StatusOperation

LEMMA SetStatusOperates ==
    ASSUME ServiceTypeOK, TableAccounted(cache), NEW k \in Calls, NEW c \in ContextIds,
           NEW next \in ContextStatuses, SetStatus(k, c, next)
    PROVE  Operation(k)
<1>1. Begin(k) /\ Holds(cache, c) /\ cache[c] \in Document
  BY HeldDocument DEF SetStatus
<1>2. PICK status \in Transition(cache[c].status, next, cache[c].type) :
            Saves(k, c, IF status = cache[c].status THEN cache[c]
                        ELSE [Logged(cache[c]) EXCEPT !.status = status])
  BY DEF SetStatus
<1>3. status \in ContextStatuses
  BY <1>1, <1>2, TransitionStatus DEF Document
<1>4. CASE status = cache[c].status
  <2>1. PICK d \in Document : d = cache[c]
    BY <1>1
  <2>2. QED
    BY <1>1, <1>2, <1>4, <2>1, HeldLog, EditingOperation
<1>5. CASE status # cache[c].status
  BY <1>1, <1>2, <1>3, <1>5, StatusOperation
<1>6. QED
  BY <1>4, <1>5

LEMMA EditOperates ==
    ASSUME ServiceTypeOK, TableAccounted(cache), NEW k \in Calls, NEW c \in ContextIds,
           Edit(k, c)
    PROVE  Operation(k)
<1>1. Begin(k) /\ Holds(cache, c) /\ Saves(k, c, Logged(cache[c]))
  BY DEF Edit
<1>2. /\ Logged(cache[c]) \in Document
      /\ Logged(cache[c]).memory = cache[c].memory
      /\ Logged(cache[c]).template = cache[c].template
      /\ IsFiniteSet(Logged(cache[c]).log)
  BY <1>1, HeldDocument, HeldLog, LoggedDocument, FiniteLog DEF ServiceTypeOK
<1>3. PICK d \in Document : d = Logged(cache[c])
  BY <1>2
<1>4. QED
  BY <1>1, <1>2, <1>3, EditingOperation

LEMMA AddTaskOperates ==
    ASSUME ServiceTypeOK, TableAccounted(cache), NEW k \in Calls, NEW c \in ContextIds,
           AddTask(k, c)
    PROVE  Operation(k)
<1> DEFINE document == [cache[c] EXCEPT !.tasks = @ \union {version + 1}]
<1>1. Begin(k) /\ Holds(cache, c) /\ Saves(k, c, document)
  BY DEF AddTask
<1>2. /\ document \in Document
      /\ document.memory = cache[c].memory
      /\ document.template = cache[c].template
      /\ document.log = cache[c].log
  BY <1>1, HeldDocument DEF Document, ServiceTypeOK
<1> HIDE DEF document
<1>3. PICK d \in Document : d = document
  BY <1>2
<1>4. QED
  BY <1>1, <1>2, <1>3, HeldLog, EditingOperation

LEMMA CreateOperates ==
    ASSUME ServiceTypeOK, TableAccounted(cache), NEW k \in Calls, NEW c \in ContextIds,
           NEW type \in ContextTypes, Create(k, c, type)
    PROVE  Operation(k)
<1>1. Begin(k) /\ Fresh(c) /\ SavesNew(k, c, Created(type, {}))
  BY DEF Create
<1>2. /\ Created(type, {}) \in Document
      /\ Created(type, {}).memory = {}
      /\ IsFiniteSet(Created(type, {}).log)
  BY CreatedDocument DEF ServiceTypeOK
<1>3. Clean(Created(type, {}))
  BY <1>2 DEF Clean
<1>4. PICK d \in Document : d = Created(type, {})
  BY <1>2
<1>5. QED
  BY <1>1, <1>2, <1>3, <1>4, CreatingOperation

LEMMA InstantiateOperates ==
    ASSUME ServiceTypeOK, TableAccounted(cache), NEW k \in Calls,
           NEW t \in ContextIds, NEW c \in ContextIds, NEW type \in ContextTypes,
           Instantiate(k, t, c, type)
    PROVE  Operation(k)
<1>1. /\ Begin(k) /\ Fresh(c) /\ Holds(cache, t) /\ cache[t].template
      /\ SavesNew(k, c, Created(type, cache[t].memory))
  BY DEF Instantiate
<1>2. Clean(cache[t])
  BY <1>1 DEF TableAccounted, Accounted
<1>3. cache[t].memory \in SUBSET MemoryEntry
  BY <1>1, HeldDocument DEF Document
<1>4. /\ Created(type, cache[t].memory) \in Document
      /\ Created(type, cache[t].memory).memory = cache[t].memory
      /\ IsFiniteSet(Created(type, cache[t].memory).log)
  BY <1>3, CreatedDocument DEF ServiceTypeOK
<1>5. Clean(Created(type, cache[t].memory))
  BY <1>2, <1>4 DEF Clean
<1>6. PICK d \in Document : d = Created(type, cache[t].memory)
  BY <1>4
<1>7. QED
  BY <1>1, <1>4, <1>5, <1>6, CreatingOperation

(* A template is clean whatever its source holds, and what was read of the *)
(* source is accounted for.                                                *)
LEMMA CrystallizeOperates ==
    ASSUME ServiceTypeOK, TableAccounted(cache), NEW k \in Calls,
           NEW c \in ContextIds, NEW t \in ContextIds, Crystallize(k, c, t)
    PROVE  Operation(k)
<1> DEFINE made == Created("crystallized", KeptMemory(cache[c].memory))
           template == [made EXCEPT !.status = "active", !.template = TRUE]
<1>1. /\ Begin(k) /\ Holds(cache, c) /\ Fresh(t)
      /\ Put(t, template)
      /\ AwaitWrite(k, "recording", c, cache[c])
      /\ issued' = issued \union {t}
  BY DEF Crystallize
<1>2. cache[c] \in Document
  BY <1>1, HeldDocument
<1>3. made \in Document /\ made.memory = KeptMemory(cache[c].memory) /\ IsFiniteSet(made.log)
  <2>1. KeptMemory(cache[c].memory) \in SUBSET MemoryEntry
    BY <1>2 DEF KeptMemory, Document
  <2>2. "crystallized" \in ContextTypes
    BY DEF ContextTypes
  <2>3. QED
    BY <2>1, <2>2, CreatedDocument DEF ServiceTypeOK
<1>4. /\ template \in Document /\ template.memory = KeptMemory(cache[c].memory)
      /\ template.log = made.log
  BY <1>3 DEF Document, ContextStatuses
<1>5. Clean(template)
  BY <1>4 DEF Clean, KeptMemory
<1> HIDE DEF made, template
<1>6. Issues({t})
  BY <1>1 DEF Issues, Fresh
<1>7. PICK d \in Document : d = template
  BY <1>4
<1>8. Accounted(t, d)'
  BY <1>3, <1>4, <1>5, <1>6, <1>7 DEF Issues, Accounted, Clean
<1>9. PICK table : table = [cache EXCEPT ![t] = d]
  OBVIOUS
<1>10. table \in Table /\ TableAccounted(table)'
  BY <1>6, <1>8, <1>9, PutAccounted
<1>11. PICK source \in Document : source = cache[c]
  BY <1>2
<1>12. Changes(k, table, "recording", c, source)
  BY <1>1, <1>7, <1>9, <1>10, <1>11 DEF Changes, Begin, Free, Put
<1>13. Recordable("recording", c, source)'
  <2>1. Accounted(c, source)
    BY <1>1, <1>11 DEF TableAccounted
  <2>2. Accounted(c, source)'
    BY <1>6, <2>1, StillAccounted
  <2>3. QED
    BY <2>2 DEF Recordable
<1>14. QED
  BY <1>6, <1>10, <1>12, <1>13 DEF Operation

LEMMA DeleteOperates ==
    ASSUME ServiceTypeOK, TableAccounted(cache), NEW k \in Calls, NEW c \in ContextIds,
           Delete(k, c)
    PROVE  Operation(k)
<1>1. Issues({})
  BY DEF Delete, Issues
<1>2. PICK table : table = [cache EXCEPT ![c] = NoContext]
  OBVIOUS
<1>3. table \in Table
  BY <1>2 DEF ServiceTypeOK, Table
<1>4. TableAccounted(table)
  <2>1. \A d \in ContextIds : Holds(table, d) => table[d] = cache[d] /\ Holds(cache, d)
    BY <1>2 DEF Holds, ServiceTypeOK, Table
  <2>2. QED
    BY <2>1 DEF TableAccounted
<1>5. TableAccounted(table)'
  BY <1>1, <1>4, TableStillAccounted
<1>6. Changes(k, table, "saving", NoContext, NoContext)
  BY <1>2, <1>3 DEF Delete, Changes, Begin, Free
<1>7. Recordable("saving", NoContext, NoContext)'
  BY DEF Recordable
<1>8. QED
  BY <1>1, <1>5, <1>6, <1>7 DEF Operation

LEMMA ArriveOperates ==
    ASSUME ServiceTypeOK, TableAccounted(cache), NEW k \in Calls, Arrive(k)
    PROVE  Operation(k)
<1>1. CASE \E c \in ContextIds, type \in ContextTypes : Create(k, c, type)
  BY <1>1, CreateOperates
<1>2. CASE \E c \in ContextIds : SubmitIntention(k, c)
  BY <1>2, SubmitIntentionOperates
<1>3. CASE \E c \in ContextIds, next \in ContextStatuses : SetStatus(k, c, next)
  BY <1>3, SetStatusOperates
<1>4. CASE \E c \in ContextIds : Edit(k, c)
  BY <1>4, EditOperates
<1>5. CASE \E c \in ContextIds : AddTask(k, c)
  BY <1>5, AddTaskOperates
<1>6. CASE \E c \in ContextIds : Delete(k, c)
  BY <1>6, DeleteOperates
<1>7. CASE \E c, t \in ContextIds : Crystallize(k, c, t)
  BY <1>7, CrystallizeOperates
<1>8. CASE \E c, t \in ContextIds, type \in {"ephemeral", "persistent"} :
                Instantiate(k, t, c, type)
  BY <1>8, InstantiateOperates DEF ContextTypes
<1>9. QED
  BY <1>1, <1>2, <1>3, <1>4, <1>5, <1>6, <1>7, <1>8 DEF Arrive

(* Recording a crystallization is an operation like the others: what was   *)
(* read of the source is put back with an event.                           *)
LEMMA RecordOperates ==
    ASSUME ServiceInv, NEW k \in Calls, RecordCrystallized(k)
    PROVE  Operation(k)
<1> USE DEF ServiceInv
<1>1. /\ calls[k].at = "recording"
      /\ Put(calls[k].context, Logged(calls[k].source))
      /\ AwaitWrite(k, "saving", NoContext, NoContext)
      /\ UNCHANGED <<process, acked, history>>
  BY DEF RecordCrystallized
<1>2. process = "serving"
  BY <1>1 DEF ProcessConsistent
<1>3. Issues({})
  BY <1>1 DEF Issues, history
<1>4. PICK c \in ContextIds, source \in Document :
        c = calls[k].context /\ source = calls[k].source /\ Accounted(c, source)
  BY <1>1 DEF EverythingAccounted
<1>5. /\ Logged(source) \in Document
      /\ Logged(source).memory = source.memory
      /\ Logged(source).template = source.template
      /\ IsFiniteSet(Logged(source).log)
  BY <1>4, LoggedDocument, FiniteLog DEF ServiceTypeOK, Accounted
<1>6. PICK d \in Document : d = Logged(source)
  BY <1>5
<1>7. Accounted(c, d)
  BY <1>4, <1>5, <1>6, SameMemoryAccounted
<1>8. Accounted(c, d)'
  BY <1>3, <1>7, StillAccounted
<1>9. PICK table : table = [cache EXCEPT ![c] = d]
  OBVIOUS
<1>10. table \in Table /\ TableAccounted(table)'
  BY <1>3, <1>8, <1>9, PutAccounted DEF EverythingAccounted
<1>f. Free(k)
  <2>1. calls[k].version <= file.version /\ calls[k].version \in Nat
    BY DEF RecordCrystallized, Landed, ServiceTypeOK, Call
  <2>2. \A w \in writes : file.version < w.version /\ w.version \in Nat
    BY DEF ChainInOrder, ServiceTypeOK, Write
  <2>3. file.version \in Nat
    BY DEF ServiceTypeOK, Write
  <2>4. QED
    BY <2>1, <2>2, <2>3 DEF Free
<1>11. Changes(k, table, "saving", NoContext, NoContext)
  BY <1>1, <1>2, <1>f, <1>4, <1>6, <1>9, <1>10 DEF Changes, Put, history
<1>12. Recordable("saving", NoContext, NoContext)'
  BY DEF Recordable
<1>13. QED
  BY <1>3, <1>10, <1>11, <1>12 DEF Operation

(* So does a demo context that is seeded, with no call waiting for it. *)
SeedPut ==
    /\ process = "seeding"
    /\ \E table \in Table : TableAccounted(table)' /\ Store(table)
    /\ UNCHANGED <<process, calls, acked, history>>

LEMMA SeedPuts ==
    ASSUME ServiceInv, NEW s \in Seeds, Seed(s)
    PROVE  SeedPut
<1> USE DEF ServiceInv
<1>1. /\ process = "seeding"
      /\ Put(s, SeedOf[s])
      /\ UNCHANGED <<process, calls, acked, history>>
  BY DEF Seed
<1>2. Issues({})
  BY <1>1 DEF Issues, history
<1>3. PICK d \in Document : d = SeedOf[s]
  BY SeedsAssumption
<1>4. s \in ContextIds /\ s \in Reserved /\ s \notin issued
  BY SeedsAssumption DEF Reserved, EverythingAccounted
<1>5. Accounted(s, d)
  BY <1>3, <1>4, TemplatesAssumption, LogsAssumption DEF Accounted
<1>6. Accounted(s, d)'
  BY <1>2, <1>5, StillAccounted
<1>7. PICK table : table = [cache EXCEPT ![s] = d]
  OBVIOUS
<1>8. table \in Table /\ TableAccounted(table)'
  BY <1>2, <1>4, <1>6, <1>7, PutAccounted DEF EverythingAccounted
<1>9. QED
  BY <1>1, <1>3, <1>7, <1>8 DEF SeedPut, Put

(* The steps there are, by what they do. *)
LEMMA StepCases ==
    ASSUME ServiceInv, [Next]_vars
    PROVE  \/ \E k \in Calls : Operation(k) \/ Answer(k) \/ Fail(k)
           \/ SeedPut \/ Start \/ Seeded \/ Dies
           \/ BeginWrite \/ Replace \/ WriteFails
           \/ UNCHANGED vars
<1> USE DEF ServiceInv
<1>1. TableAccounted(cache)
  BY DEF EverythingAccounted
<1>2. \A k \in Calls : Arrive(k) => Operation(k)
  BY <1>1, ArriveOperates
<1>3. \A k \in Calls : RecordCrystallized(k) => Operation(k)
  BY RecordOperates
<1>4. \A s \in Seeds : Seed(s) => SeedPut
  BY SeedPuts
<1>5. QED
  BY <1>2, <1>3, <1>4 DEF Next, Continue, Boot, Crash, SeedingFails

-----------------------------------------------------------------------------
(* Each part of the invariant holds at first and is kept by every step. *)

LEMMA InitInv == Init => ServiceInv
<1> SUFFICES ASSUME Init PROVE ServiceInv
  OBVIOUS
<1> USE DEF Init
<1>1. PICK table \in StoredTables : file = [version |-> 0, table |-> table]
  OBVIOUS
<1>2. table \in Table /\ EmptyTable \in Table
  BY StoredTablesAssumption DEF Table, EmptyTable
<1>3. ServiceTypeOK
  BY <1>1, <1>2 DEF ServiceTypeOK, Write, Call, IdleCall
<1>4. ChainInOrder /\ AckedSurvives
  BY <1>1 DEF ChainInOrder, AckedSurvives
<1>5. ProcessConsistent
  BY DEF ProcessConsistent, IdleCall
<1>6. TableAccounted(cache)
  BY DEF TableAccounted, Holds, EmptyTable
<1>7. TableAccounted(file.table)
  BY <1>1, TemplatesAssumption, LogsAssumption DEF TableAccounted, Accounted, Reserved, Holds
<1>8. EverythingAccounted
  BY <1>6, <1>7 DEF EverythingAccounted, IdleCall
<1>9. QED
  BY <1>3, <1>4, <1>5, <1>8 DEF ServiceInv

(* A change of the cache, and what it leaves in the chain. *)
LEMMA StoreTypes ==
    ASSUME ServiceTypeOK, NEW table \in Table, Store(table)
    PROVE  /\ cache' = table /\ cache' \in Table
           /\ file' = file /\ broken' = broken /\ writing' = writing
           /\ version' = version + 1
           /\ writes' \subseteq Write
<1>1. [version |-> version + 1, table |-> table] \in Write
  BY DEF ServiceTypeOK, Write
<1>2. QED
  BY <1>1 DEF Store, Flush, ServiceTypeOK

LEMMA TypeStep == ServiceInv /\ [Next]_vars => ServiceTypeOK'
<1> SUFFICES ASSUME ServiceInv, [Next]_vars PROVE ServiceTypeOK'
  OBVIOUS
<1> USE DEF ServiceInv
<1>1. ASSUME NEW k \in Calls, Operation(k) PROVE ServiceTypeOK'
  <2>1. PICK ids, table, at, c, source : Issues(ids) /\ Changes(k, table, at, c, source)
    BY <1>1 DEF Operation
  <2>2. [at |-> at, version |-> version + 1, context |-> c, source |-> source] \in Call
    BY <2>1 DEF Changes, Call, ServiceTypeOK
  <2>3. calls' \in [Calls -> Call]
    BY <2>1, <2>2 DEF Changes, AwaitWrite, ServiceTypeOK
  <2>4. issued' \subseteq ContextIds
    BY <2>1 DEF Issues, ServiceTypeOK
  <2>5. QED
    BY <2>1, <2>3, <2>4, StoreTypes DEF Changes, ServiceTypeOK
<1>2. ASSUME NEW k \in Calls, Answer(k) \/ Fail(k) PROVE ServiceTypeOK'
  <2>1. IdleCall \in Call
    BY DEF IdleCall, Call
  <2>2. calls' \in [Calls -> Call]
    BY <1>2, <2>1 DEF Answer, Fail, ServiceTypeOK
  <2>3. acked' \in Nat
    BY <1>2 DEF Answer, Fail, ServiceTypeOK, Call
  <2>4. QED
    BY <1>2, <2>2, <2>3 DEF Answer, Fail, ServiceTypeOK, store, history
<1>3. CASE SeedPut
  BY <1>3, StoreTypes DEF SeedPut, ServiceTypeOK, history
<1>4. CASE Start
  BY <1>4 DEF Start, ServiceTypeOK, Write, Table, history
<1>5. CASE Seeded
  BY <1>5 DEF Seeded, ServiceTypeOK, store, history
<1>6. CASE Dies
  <2>1. EmptyTable \in Table /\ IdleCall \in Call
    BY DEF EmptyTable, Table, IdleCall, Call
  <2>2. calls' \in [Calls -> Call]
    BY <1>6, <2>1 DEF Dies
  <2>3. crashes' \in Nat /\ writes' \subseteq Write
    BY <1>6 DEF Dies, ServiceTypeOK
  <2>4. QED
    BY <1>6, <2>1, <2>2, <2>3 DEF Dies, ServiceTypeOK
<1>7. CASE BeginWrite \/ Replace \/ WriteFails
  BY <1>7 DEF BeginWrite, Replace, WriteFails, ServiceTypeOK, history
<1>8. CASE UNCHANGED vars
  BY <1>8 DEF vars, store, history, ServiceTypeOK
<1>9. QED
  BY <1>1, <1>2, <1>3, <1>4, <1>5, <1>6, <1>7, <1>8, StepCases

LEMMA StoreKeepsOrder ==
    ASSUME ServiceTypeOK, ChainInOrder, NEW table \in Table, Store(table)
    PROVE  ChainInOrder'
<1> DEFINE new == [version |-> version + 1, table |-> table]
<1>1. file' = file /\ version' = version + 1 /\ version \in Nat /\ file.version \in Nat
  BY StoreTypes DEF ServiceTypeOK, Write
<1>2. \A w \in writes : w.version \in Nat /\ file.version < w.version /\ w.version <= version
  BY DEF ServiceTypeOK, Write, ChainInOrder
<1>3. writes' \subseteq writes \union {new}
  BY DEF Store, Flush
<1>4. new.version = version + 1
  OBVIOUS
<1> HIDE DEF new
<1>5. file'.version <= version'
  BY <1>1 DEF ChainInOrder
<1>6. ASSUME NEW w \in writes' PROVE file'.version < w.version /\ w.version <= version'
  BY <1>1, <1>2, <1>3, <1>4, <1>5 DEF ChainInOrder
<1>7. ASSUME NEW v \in writes', NEW w \in writes', v.version = w.version PROVE v = w
  BY <1>1, <1>2, <1>3, <1>4, <1>7 DEF ChainInOrder
<1>8. QED
  BY <1>5, <1>6, <1>7 DEF ChainInOrder

(* The file only moves on along the chain. *)
LEMMA ReplaceKeepsOrder ==
    ASSUME ServiceTypeOK, ChainInOrder, Replace
    PROVE  ChainInOrder' /\ file.version <= file'.version
<1>1. PICK w \in writes : UpNext(w) /\ file' = w /\ writes' = writes \ {w}
  BY DEF Replace
<1>2. version' = version /\ version \in Nat /\ file.version \in Nat
  BY DEF Replace, ServiceTypeOK, Write
<1>3. \A v \in writes : v.version \in Nat /\ file.version < v.version /\ v.version <= version
  BY DEF ServiceTypeOK, Write, ChainInOrder
<1>4. \A v \in writes \ {w} : w.version < v.version
  BY <1>1, <1>3 DEF UpNext, ChainInOrder
<1>5. QED
  BY <1>1, <1>2, <1>3, <1>4 DEF ChainInOrder

LEMMA ChainStep ==
    ServiceInv /\ [Next]_vars => ChainInOrder' /\ file.version <= file'.version
<1> SUFFICES ASSUME ServiceInv, [Next]_vars
             PROVE  ChainInOrder' /\ file.version <= file'.version
  OBVIOUS
<1> USE DEF ServiceInv
<1>1. file.version <= file.version
  BY DEF ServiceTypeOK, Write
<1>2. ASSUME NEW table \in Table, Store(table)
      PROVE  ChainInOrder' /\ file.version <= file'.version
  BY <1>1, <1>2, StoreKeepsOrder, StoreTypes
<1>3. (\E k \in Calls : Operation(k)) \/ SeedPut => \E table \in Table : Store(table)
  BY DEF Operation, Changes, SeedPut
<1>4. CASE Replace
  BY <1>4, ReplaceKeepsOrder
<1>5. CASE Dies
  BY <1>1, <1>5 DEF Dies, ChainInOrder
<1>6. CASE WriteFails
  BY <1>1, <1>6 DEF WriteFails, ChainInOrder
<1>7. CASE BeginWrite \/ Start
  BY <1>1, <1>7 DEF BeginWrite, Start, ChainInOrder
<1>8. CASE Seeded \/ (\E k \in Calls : Answer(k) \/ Fail(k)) \/ UNCHANGED vars
  BY <1>1, <1>8 DEF Seeded, Answer, Fail, vars, store, ChainInOrder
<1>9. QED
  BY <1>2, <1>3, <1>4, <1>5, <1>6, <1>7, <1>8, StepCases

LEMMA AckedStep == ServiceInv /\ [Next]_vars => AckedSurvives'
<1> SUFFICES ASSUME ServiceInv, [Next]_vars PROVE AckedSurvives'
  OBVIOUS
<1> USE DEF ServiceInv
<1>1. file.version <= file'.version
  BY ChainStep
<1>2. acked \in Nat /\ file.version \in Nat /\ file'.version \in Nat
  BY TypeStep DEF ServiceTypeOK, Write
<1>3. CASE acked' = acked
  BY <1>1, <1>2, <1>3 DEF AckedSurvives
<1>4. ASSUME NEW k \in Calls, Answer(k) PROVE AckedSurvives'
  <2>1. calls[k].version \in Nat
    BY DEF ServiceTypeOK, Call
  <2>2. QED
    BY <1>2, <1>4, <2>1 DEF Answer, Landed, AckedSurvives, store
<1>5. (\E k \in Calls : Answer(k)) \/ acked' = acked
  BY StepCases DEF Operation, Changes, Fail, SeedPut, Start, Seeded, Dies, BeginWrite,
                   Replace, WriteFails, vars
<1>6. QED
  BY <1>3, <1>4, <1>5

LEMMA ProcessStep == ServiceInv /\ [Next]_vars => ProcessConsistent'
<1> SUFFICES ASSUME ServiceInv, [Next]_vars PROVE ProcessConsistent'
  OBVIOUS
<1> USE DEF ServiceInv
<1>1. ASSUME NEW table, Store(table), process # "down", process' = process
      PROVE  /\ process' = "down" => writes' = {} /\ ~broken'
             /\ broken' => writes' = {}
             /\ writing' => writes' # {}
  BY <1>1 DEF Store, Flush, ProcessConsistent
<1>2. ASSUME NEW k \in Calls, Operation(k) PROVE ProcessConsistent'
  BY <1>1, <1>2 DEF Operation, Changes, ProcessConsistent
<1>3. CASE SeedPut
  BY <1>1, <1>3 DEF SeedPut, ProcessConsistent
<1>4. ASSUME NEW k \in Calls, Answer(k) \/ Fail(k) PROVE ProcessConsistent'
  <2>1. process = "serving"
    BY <1>4 DEF Answer, Fail, ProcessConsistent
  <2>2. QED
    BY <1>4, <2>1 DEF Answer, Fail, store, ProcessConsistent
<1>5. CASE Start
  BY <1>5 DEF Start, ProcessConsistent
<1>6. CASE Seeded
  BY <1>6 DEF Seeded, store, ProcessConsistent
<1>7. CASE Dies
  BY <1>7 DEF Dies, IdleCall, ProcessConsistent
<1>8. CASE BeginWrite \/ WriteFails
  <2>1. WriteFails => process # "down"
    BY DEF WriteFails, ProcessConsistent, ServiceTypeOK
  <2>2. QED
    BY <1>8, <2>1 DEF BeginWrite, WriteFails, ProcessConsistent
<1>9. CASE Replace
  <2>1. process # "down" /\ ~broken
    BY <1>9 DEF Replace, ProcessConsistent
  <2>2. QED
    BY <1>9, <2>1 DEF Replace, ProcessConsistent
<1>10. CASE UNCHANGED vars
  BY <1>10 DEF vars, store, ProcessConsistent
<1>11. QED
  BY <1>2, <1>3, <1>4, <1>5, <1>6, <1>7, <1>8, <1>9, <1>10, StepCases

LEMMA AccountedStep == ServiceInv /\ [Next]_vars => EverythingAccounted'
<1> SUFFICES ASSUME ServiceInv, [Next]_vars PROVE EverythingAccounted'
  OBVIOUS
<1> USE DEF ServiceInv
<1>r. Reserved' = Reserved
  BY DEF Reserved, Holds
<1>1. ASSUME NEW k \in Calls, Operation(k) PROVE EverythingAccounted'
  <2>1. PICK ids, table, at, c, source :
            /\ Issues(ids)
            /\ Changes(k, table, at, c, source)
            /\ TableAccounted(table)'
            /\ Recordable(at, c, source)'
    BY <1>1 DEF Operation
  <2>2. /\ cache' = table /\ file' = file
        /\ writes' \subseteq writes \union {[version |-> version + 1, table |-> table]}
    BY <2>1 DEF Changes, Store, Flush
  <2>3. (issued \intersect Reserved = {})'
    BY <1>r, <2>1 DEF Issues, EverythingAccounted
  <2>4. TableAccounted(cache)'
    BY <2>1, <2>2 DEF TableAccounted, Holds
  <2>5. TableAccounted(file.table)'
    <3>1. PICK stored : stored = file.table
      OBVIOUS
    <3>2. TableAccounted(stored)'
      BY <2>1, <3>1, TableStillAccounted DEF EverythingAccounted
    <3>3. file.table' = stored
      BY <2>2, <3>1
    <3>4. QED
      BY <3>2, <3>3 DEF TableAccounted, Holds
  <2>6. ASSUME NEW w \in writes' PROVE TableAccounted(w.table)'
    <3>1. CASE w \in writes
      BY <2>1, <3>1, TableStillAccounted DEF EverythingAccounted
    <3>2. CASE w \notin writes
      <4>1. w.table = table
        BY <2>2, <3>2
      <4>2. QED
        BY <2>1, <4>1
    <3>3. QED
      BY <3>1, <3>2
  <2>7. ASSUME NEW j \in Calls, calls'[j].at = "recording"
        PROVE  (/\ calls[j].context \in ContextIds
                /\ calls[j].source \in Document
                /\ Accounted(calls[j].context, calls[j].source))'
    <3>1. CASE j = k
      <4>1. calls'[k] = [at |-> at, version |-> version + 1, context |-> c, source |-> source]
        BY <2>1 DEF Changes, AwaitWrite, ServiceTypeOK
      <4>2. at = "recording"
        BY <2>7, <3>1, <4>1
      <4>3. c \in ContextIds /\ source \in Document /\ Accounted(c, source)'
        BY <2>1, <4>2 DEF Recordable
      <4>4. QED
        BY <3>1, <4>1, <4>3 DEF Accounted, Clean
    <3>2. CASE j # k
      <4>1. calls'[j] = calls[j]
        BY <2>1, <3>2 DEF Changes, AwaitWrite, ServiceTypeOK
      <4>2. PICK context \in ContextIds, read \in Document :
                context = calls[j].context /\ read = calls[j].source /\ Accounted(context, read)
        BY <2>7, <4>1 DEF EverythingAccounted
      <4>3. Accounted(context, read)'
        BY <2>1, <4>2, StillAccounted
      <4>4. QED
        BY <4>1, <4>2, <4>3 DEF Accounted, Clean
    <3>3. QED
      BY <3>1, <3>2
  <2>8. QED
    BY <2>3, <2>4, <2>5, <2>6, <2>7 DEF EverythingAccounted
<1>2. CASE SeedPut
  <2>1. PICK table \in Table : TableAccounted(table)' /\ Store(table)
    BY <1>2 DEF SeedPut
  <2>2. /\ cache' = table /\ file' = file /\ issued' = issued /\ calls' = calls
        /\ writes' \subseteq writes \union {[version |-> version + 1, table |-> table]}
    BY <1>2, <2>1 DEF SeedPut, Store, Flush, history
  <2>3. QED
    BY <1>r, <2>1, <2>2 DEF EverythingAccounted, TableAccounted, Accounted, Holds
<1>3. ASSUME NEW k \in Calls, Answer(k) \/ Fail(k) PROVE EverythingAccounted'
  <2>1. \A j \in Calls : calls'[j] = calls[j] \/ calls'[j].at = "idle"
    BY <1>3 DEF Answer, Fail, IdleCall, ServiceTypeOK
  <2>2. QED
    BY <1>r, <1>3, <2>1 DEF Answer, Fail, store, history, EverythingAccounted,
                            TableAccounted, Accounted, Holds
<1>4. CASE Start
  <2>1. PICK lost : cache' = [c \in ContextIds |->
                                IF c \in lost THEN NoContext ELSE file.table[c]]
    BY <1>4 DEF Start
  <2>2. TableAccounted(cache)'
    BY <1>r, <1>4, <2>1 DEF Start, EverythingAccounted, TableAccounted, Accounted, Holds, history
  <2>3. QED
    BY <1>r, <1>4, <2>2 DEF Start, EverythingAccounted, TableAccounted, Accounted, Holds, history
<1>5. CASE Dies
  BY <1>r, <1>5 DEF Dies, EverythingAccounted, TableAccounted, Accounted, Holds, EmptyTable,
                    IdleCall
<1>6. CASE BeginWrite \/ Replace \/ WriteFails
  BY <1>r, <1>6 DEF BeginWrite, Replace, WriteFails, EverythingAccounted, TableAccounted,
                    Accounted, Holds, history
<1>7. CASE Seeded \/ UNCHANGED vars
  BY <1>r, <1>7 DEF Seeded, vars, store, history, EverythingAccounted, TableAccounted,
                    Accounted, Holds
<1>8. QED
  BY <1>1, <1>2, <1>3, <1>4, <1>5, <1>6, <1>7, StepCases

-----------------------------------------------------------------------------
(* What the file will hold, when every start reads all of it. *)

LEMMA AwaitedStep == ServiceInv /\ WritesAwaited /\ [Next]_vars => WritesAwaited'
<1> SUFFICES ASSUME ServiceInv, WritesAwaited, [Next]_vars,
                    process' = "serving", NEW w \in writes'
             PROVE  \E k \in Calls : calls'[k].at # "idle" /\ calls'[k].version = w.version
  BY DEF WritesAwaited
<1> USE DEF ServiceInv
<1>1. ASSUME process = "serving", w \in writes, NEW j \in Calls,
             \A k \in Calls \ {j} : calls'[k] = calls[k], Free(j)
      PROVE  \E k \in Calls : calls'[k].at # "idle" /\ calls'[k].version = w.version
  BY <1>1 DEF WritesAwaited, Free
<1>2. ASSUME NEW j \in Calls, Operation(j)
      PROVE  \E k \in Calls : calls'[k].at # "idle" /\ calls'[k].version = w.version
  <2>1. PICK ids, table, at, c, source : Changes(j, table, at, c, source)
    BY <1>2 DEF Operation
  <2>2. /\ \A k \in Calls \ {j} : calls'[k] = calls[k]
        /\ calls'[j].at # "idle" /\ calls'[j].version = version + 1
    BY <2>1 DEF Changes, AwaitWrite, ServiceTypeOK
  <2>3. w \in writes \/ w.version = version + 1
    BY <2>1 DEF Changes, Store, Flush
  <2>4. QED
    BY <1>1, <2>1, <2>2, <2>3 DEF Changes
<1>3. ASSUME NEW j \in Calls, Answer(j)
      PROVE  \E k \in Calls : calls'[k].at # "idle" /\ calls'[k].version = w.version
  <2>1. w \in writes /\ process = "serving" /\ \A k \in Calls \ {j} : calls'[k] = calls[k]
    BY <1>3 DEF Answer, store, ServiceTypeOK
  <2>2. calls[j].version <= file.version /\ calls[j].version \in Nat /\ file.version \in Nat
    BY <1>3 DEF Answer, Landed, ServiceTypeOK, Call, Write
  <2>3. \A v \in writes : file.version < v.version /\ v.version \in Nat
    BY DEF ChainInOrder, ServiceTypeOK, Write
  <2>4. Free(j)
    BY <2>2, <2>3 DEF Free
  <2>5. QED
    BY <1>1, <2>1, <2>4
<1>4. ASSUME NEW j \in Calls, Fail(j) PROVE FALSE
  BY <1>4 DEF Fail, Rejected, ProcessConsistent, store
<1>5. CASE BeginWrite \/ Replace \/ WriteFails \/ UNCHANGED vars
  <2>1. w \in writes /\ process = "serving" /\ calls' = calls
    BY <1>5 DEF BeginWrite, Replace, WriteFails, vars, store
  <2>2. QED
    BY <2>1 DEF WritesAwaited
<1>6. ~(SeedPut \/ Start \/ Seeded \/ Dies)
  BY DEF SeedPut, Start, Seeded, Dies, ProcessConsistent, store
<1>7. QED
  BY <1>2, <1>3, <1>4, <1>5, <1>6, StepCases

(* A change of the cache becomes the last write of the chain. *)
LEMMA StoreKeepsEnd ==
    ASSUME ServiceTypeOK, ChainInOrder, NEW table \in Table, Store(table),
           process' = process
    PROVE  ChainEndsInCache'
<1> SUFFICES ASSUME process # "down", ~broken
             PROVE  writes' # {} /\ \A w \in writes' :
                    (\A other \in writes' : other.version <= w.version) => w.table = cache'
  BY StoreTypes DEF ChainEndsInCache
<1> DEFINE new == [version |-> version + 1, table |-> table]
<1>1. writes' = writes \union {new} /\ cache' = table
  BY DEF Store, Flush
<1>2. new.version = version + 1 /\ new.table = table
  OBVIOUS
<1>3. \A w \in writes : w.version \in Nat /\ w.version <= version
  BY DEF ServiceTypeOK, Write, ChainInOrder
<1>4. version \in Nat
  BY DEF ServiceTypeOK
<1> HIDE DEF new
<1>5. QED
  BY <1>1, <1>2, <1>3, <1>4

LEMMA ReplaceKeepsEnd ==
    ASSUME ServiceTypeOK, ChainInOrder, ChainEndsInCache, Replace
    PROVE  ChainEndsInCache'
<1> SUFFICES ASSUME process # "down", ~broken
             PROVE  /\ writes' = {} => file.table' = cache
                    /\ \A w \in writes' :
                        (\A other \in writes' : other.version <= w.version) => w.table = cache
  BY DEF Replace, ChainEndsInCache
<1>1. PICK v \in writes : UpNext(v) /\ file' = v /\ writes' = writes \ {v}
  BY DEF Replace
<1>2. \A w \in writes : w.version \in Nat
  BY DEF ServiceTypeOK, Write
<1>3. ASSUME writes' = {} PROVE file.table' = cache
  <2>1. \A other \in writes : other.version <= v.version
    BY <1>1, <1>2, <1>3
  <2>2. QED
    BY <1>1, <2>1 DEF ChainEndsInCache
<1>4. ASSUME NEW w \in writes', \A other \in writes' : other.version <= w.version
      PROVE  w.table = cache
  <2>1. \A other \in writes : other.version <= w.version
    BY <1>1, <1>2, <1>4 DEF UpNext
  <2>2. QED
    BY <1>1, <1>4, <2>1 DEF ChainEndsInCache
<1>5. QED
  BY <1>3, <1>4

LEMMA EndStep ==
    ~FileMayRot /\ ServiceInv /\ ChainEndsInCache /\ [Next]_vars => ChainEndsInCache'
<1> SUFFICES ASSUME ~FileMayRot, ServiceInv, ChainEndsInCache, [Next]_vars
             PROVE  ChainEndsInCache'
  OBVIOUS
<1> USE DEF ServiceInv
<1>1. CASE (\E k \in Calls : Operation(k)) \/ SeedPut
  BY <1>1, StoreKeepsEnd DEF Operation, Changes, SeedPut
<1>2. CASE Replace
  BY <1>2, ReplaceKeepsEnd
<1>3. CASE WriteFails \/ Dies
  BY <1>3 DEF WriteFails, Dies, ChainEndsInCache
<1>4. CASE Start
  <2>1. file.table \in [ContextIds -> Document \union {NoContext}]
    BY DEF ServiceTypeOK, Write, Table
  <2>2. cache' = file.table
    BY <1>4, <2>1 DEF Start
  <2>3. writes' = {} /\ file' = file
    BY <1>4 DEF Start, ProcessConsistent
  <2>4. QED
    BY <2>2, <2>3 DEF ChainEndsInCache
<1>5. CASE Seeded
  BY <1>5 DEF Seeded, store, ChainEndsInCache
<1>6. CASE BeginWrite \/ (\E k \in Calls : Answer(k) \/ Fail(k)) \/ UNCHANGED vars
  BY <1>6 DEF BeginWrite, Answer, Fail, vars, store, ChainEndsInCache
<1>7. QED
  BY <1>1, <1>2, <1>3, <1>4, <1>5, <1>6, StepCases

-----------------------------------------------------------------------------
(* Theorems. *)

(* The types, the order of the chain of writes, what a stopped or seeding  *)
(* process may hold, and the memory of every table and of every document   *)
(* held over an await: whatever calls overlap, writes fail and processes   *)
(* die (service.ts, JsonContextStore and main.ts).                         *)
THEOREM ServiceInvariant == Spec => []ServiceInv
<1>1. Init => ServiceInv
  BY InitInv
<1>2. ServiceInv /\ [Next]_vars => ServiceInv'
  BY TypeStep, ChainStep, AckedStep, ProcessStep, AccountedStep DEF ServiceInv
<1>3. QED
  BY <1>1, <1>2, PTL DEF Spec

(* The state of the service is always what its types say. *)
THEOREM ServiceTypes == Spec => []ServiceTypeOK
<1>1. ServiceInv => ServiceTypeOK
  BY DEF ServiceInv
<1>2. QED
  BY <1>1, ServiceInvariant, PTL

(* A change that was answered with success is in contexts.json, or a later *)
(* one is, for ever: write-then-rename on one chain (#flush).              *)
THEOREM AnsweredChangesSurvive == Spec => []AckedSurvives
<1>1. ServiceInv => AckedSurvives
  BY DEF ServiceInv
<1>2. QED
  BY <1>1, ServiceInvariant, PTL

(* No context the service made has secret, sensitive or run-specific       *)
(* memory, along any chain of templates and runs (crystallize.ts).         *)
THEOREM MadeContextsAreClean == Spec => []NewContextsAreClean
<1>1. ServiceInv => NewContextsAreClean
  BY DEF ServiceInv, ServiceTypeOK, EverythingAccounted, TableAccounted, Accounted,
         NewContextsAreClean
<1>2. QED
  BY <1>1, ServiceInvariant, PTL

(* Unless a start finds entries it cannot read, a service with no call in  *)
(* flight and no failed write has in contexts.json what it answers from,   *)
(* so that the next start brings back the same contexts.                   *)
THEOREM FileIsCurrentAtRest == ~FileMayRot /\ Spec => []FileIsCurrent
<1>1. Init => FileInv
  <2>1. Init => WritesAwaited /\ ChainEndsInCache
    BY DEF Init, WritesAwaited, ChainEndsInCache
  <2>2. QED
    BY <2>1, InitInv DEF FileInv
<1>2. ~FileMayRot /\ FileInv /\ [Next]_vars => FileInv'
  BY TypeStep, ChainStep, AckedStep, ProcessStep, AccountedStep, AwaitedStep, EndStep
  DEF FileInv, ServiceInv
<1>3. FileInv => FileIsCurrent
  BY DEF FileInv, WritesAwaited, ChainEndsInCache, FileIsCurrent
<1>4. CASE FileMayRot
  BY <1>4
<1>5. CASE ~FileMayRot
  <2>1. FileInv /\ [Next]_vars => FileInv'
    BY <1>2, <1>5
  <2>2. QED
    BY <1>1, <2>1, <1>3, PTL DEF Spec
<1>6. QED
  BY <1>4, <1>5

-----------------------------------------------------------------------------
(* The cap of a log (appendEvent): what it drops has MAX_EVENTS newer ones *)
(* among what it keeps.                                                    *)

(* The greatest of finitely many numbers: of the sets of those that are    *)
(* not less than one of them, the least.                                   *)
LEMMA Greatest ==
    ASSUME NEW S \in SUBSET Nat, IsFiniteSet(S), S # {}
    PROVE  \E m \in S : \A x \in S : x <= m
<1> DEFINE From(x) == {y \in S : y >= x}
           Froms == {From(x) : x \in S}
<1>1. Froms \subseteq FiniteSubsetsOf(S)
  BY FS_Subset DEF FiniteSubsetsOf
<1>2. Froms # {}
  OBVIOUS
<1>3. PICK T \in Froms : \A U \in Froms : <<U, T>> \notin StrictSubsetOrdering(S)
  <2> HIDE DEF Froms
  <2>1. IsWellFoundedOn(StrictSubsetOrdering(S), FiniteSubsetsOf(S))
    BY FS_StrictSubsetOrderingWellFounded
  <2>2. QED
    BY <1>1, <1>2, <2>1, WFMin
<1>4. PICK m \in S : T = From(m)
  OBVIOUS
<1>5. ASSUME NEW x \in S PROVE x <= m
  <2>1. CASE x > m
    <3> x \in Nat /\ m \in Nat
      OBVIOUS
    <3>1. From(x) \subseteq From(m) /\ m \in From(m) /\ m \notin From(x)
      <4>1. \A y \in S : y \in Nat /\ (y >= x => y >= m)
        BY <2>1
      <4>2. From(x) \subseteq From(m)
        BY <4>1
      <4>3. m \in From(m)
        OBVIOUS
      <4>4. m \notin From(x)
        BY <2>1
      <4>5. QED
        BY <4>2, <4>3, <4>4
    <3>2. From(x) # From(m) /\ From(x) \in SUBSET S /\ From(m) \in SUBSET S
      BY <3>1
    <3>3. <<From(x), From(m)>> \in StrictSubsetOrdering(S)
      BY <3>1, <3>2 DEF StrictSubsetOrdering
    <3>4. QED
      BY <1>3, <1>4, <3>3
  <2>2. QED
    BY <2>1
<1>6. QED
  BY <1>5

LEMMA CapKeepsNewest ==
    ASSUME version \in Nat, NEW log \in SUBSET Nat, IsFiniteSet(log),
           NEW e \in log, e \notin Log(log)
    PROVE  Cardinality(Newer(Log(log), e)) >= MaxEvents
<1> DEFINE all == log \union {version + 1}
<1>1. all \in SUBSET Nat /\ IsFiniteSet(all)
  BY FiniteLog
<1>2. Log(log) = {x \in all : Cardinality(Newer(all, x)) < MaxEvents}
  BY DEF Log, Newer
<1>3. \A x : IsFiniteSet(Newer(all, x)) /\ Cardinality(Newer(all, x)) \in Nat
  <2> HIDE DEF all
  <2>1. \A x : Newer(all, x) \in SUBSET all
    BY DEF Newer
  <2>2. QED
    BY <1>1, <2>1, FS_Subset, FS_CardinalityType
<1>4. MaxEvents \in Nat
  BY BoundsAssumption
<1>5. Cardinality(Newer(all, e)) >= MaxEvents
  BY <1>2, <1>3, <1>4
<1> DEFINE dropped == {x \in all : x > e /\ x \notin Log(log)}
           kept == Newer(Log(log), e)
<1>6. kept \subseteq all /\ IsFiniteSet(kept) /\ Cardinality(kept) \in Nat
  <2>1. kept \in SUBSET all
    BY <1>2 DEF Newer
  <2>2. QED
    BY <1>1, <2>1, FS_Subset, FS_CardinalityType
(* m: the event from which on nothing newer is dropped. *)
<1>7. \E m \in all : m >= e /\ Cardinality(Newer(all, m)) >= MaxEvents
                     /\ \A x \in dropped : x <= m
  <2>1. CASE dropped = {}
    BY <1>1, <1>5, <2>1
  <2>2. CASE dropped # {}
    <3>1. dropped \in SUBSET Nat /\ IsFiniteSet(dropped)
      <4>1. dropped \in SUBSET all
        OBVIOUS
      <4>2. QED
        BY <1>1, <4>1, FS_Subset
    <3>2. PICK m \in dropped : \A x \in dropped : x <= m
      <4> HIDE DEF dropped
      <4>1. QED
        BY <2>2, <3>1, Greatest
    <3>3. Cardinality(Newer(all, m)) >= MaxEvents
      BY <1>2, <1>3, <1>4, <3>2
    <3>4. QED
      BY <1>1, <3>2, <3>3
  <2>3. QED
    BY <2>1, <2>2
<1>8. PICK m \in all : m >= e /\ Cardinality(Newer(all, m)) >= MaxEvents
                       /\ \A x \in dropped : x <= m
  BY <1>7
<1>9. Newer(all, m) \in SUBSET kept
  <2>1. ASSUME NEW x \in Newer(all, m) PROVE x \in kept
    <3>1. x \in all /\ x > m
      BY <2>1 DEF Newer
    <3>2. x \in Nat /\ m \in Nat /\ e \in Nat
      BY <1>1, <3>1
    <3> HIDE DEF all
    <3>3. x > e /\ ~(x <= m)
      BY <1>8, <3>1, <3>2
    <3>4. x \notin dropped
      BY <1>8, <3>3
    <3>5. x \in Log(log)
      BY <3>1, <3>3, <3>4
    <3>6. QED
      BY <3>3, <3>5 DEF Newer
  <2>2. QED
    BY <2>1
<1>10. Cardinality(Newer(all, m)) <= Cardinality(kept)
  <2> HIDE DEF kept
  <2>1. QED
    BY <1>6, <1>9, FS_Subset
<1>11. QED
  <2>1. /\ Cardinality(Newer(all, m)) \in Nat
        /\ Cardinality(Newer(all, m)) >= MaxEvents
    BY <1>3, <1>8
  <2>2. Cardinality(kept) \in Nat
    BY <1>6
  <2> HIDE DEF all, kept
  <2>3. Cardinality(kept) >= MaxEvents
    BY <1>4, <1>10, <2>1, <2>2
  <2>4. QED
    BY <2>3 DEF kept

-----------------------------------------------------------------------------
(* What an operation does to the logs. *)

(* A put under c of a document whose log is that of c as it was, or that   *)
(* with an event, loses nothing; nor does a new context or a deletion.     *)
KeepsLog(c, document) ==
    \/ ~Holds(cache, c)
    \/ document = NoContext
    \/ document.log \in {cache[c].log, Log(cache[c].log)}

LEMMA PutLosesNothing ==
    ASSUME ServiceTypeOK, TableAccounted(cache), NEW c \in ContextIds, NEW document,
           cache' = [cache EXCEPT ![c] = document], KeepsLog(c, document)
    PROVE  \A d \in ContextIds : LostEvents(d) = {}
<1> SUFFICES ASSUME NEW d \in ContextIds, Holds(cache, d), Holds(cache', d),
                    NEW e \in cache[d].log \ cache'[d].log
             PROVE  ~(Cardinality(Newer(cache'[d].log, e)) < MaxEvents)
  BY DEF LostEvents
<1>1. d = c /\ cache'[c] = document
  BY DEF ServiceTypeOK, Table
<1>2. document.log = Log(cache[c].log) /\ e \notin Log(cache[c].log)
  BY <1>1 DEF KeepsLog, Holds
<1>3. cache[c].log \in SUBSET Nat /\ IsFiniteSet(cache[c].log) /\ version \in Nat
  BY <1>1, HeldDocument, HeldLog DEF ServiceTypeOK, Document
<1>4. PICK log \in SUBSET Nat : log = cache[c].log
  BY <1>3
<1>5. Cardinality(Newer(Log(log), e)) >= MaxEvents
  BY <1>1, <1>2, <1>3, <1>4, CapKeepsNewest
<1>6. IsFiniteSet(Newer(Log(log), e))
  <2>1. IsFiniteSet(Log(log)) /\ Newer(Log(log), e) \in SUBSET Log(log)
    BY <1>3, <1>4, FiniteLog DEF Newer
  <2>2. QED
    BY <2>1, FS_Subset
<1>7. Cardinality(Newer(Log(log), e)) \in Nat /\ MaxEvents \in Nat
  BY <1>6, FS_CardinalityType, BoundsAssumption
<1>8. QED
  BY <1>1, <1>2, <1>4, <1>5, <1>7

LEMMA SavesLosesNothing ==
    ASSUME ServiceTypeOK, TableAccounted(cache), NEW k \in Calls, NEW c \in ContextIds,
           NEW document, SavesAs(k, c, document), KeepsLog(c, document)
    PROVE  \A d \in ContextIds : LostEvents(d) = {}
BY PutLosesNothing DEF SavesAs, Put, Store

(* No id that is fresh is one the store holds. *)
LEMMA FreshIsNew ==
    ASSUME TableAccounted(cache), NEW c \in ContextIds, Fresh(c)
    PROVE  ~Holds(cache, c)
BY DEF Fresh, TableAccounted, Accounted

LEMMA ArriveLosesNothing ==
    ASSUME ServiceTypeOK, TableAccounted(cache), NEW k \in Calls, Arrive(k)
    PROVE  \A d \in ContextIds : LostEvents(d) = {}
<1>1. ASSUME NEW c \in ContextIds, NEW document, SavesAs(k, c, document),
             Fresh(c) \/ document.log \in {cache[c].log, Log(cache[c].log)}
      PROVE  \A d \in ContextIds : LostEvents(d) = {}
  BY <1>1, SavesLosesNothing, FreshIsNew DEF KeepsLog
<1>2. ASSUME NEW c \in ContextIds, Holds(cache, c), NEW status \in ContextStatuses
      PROVE  [Logged(cache[c]) EXCEPT !.status = status].log = Log(cache[c].log)
  <2>1. Logged(cache[c]) \in Document /\ Logged(cache[c]).log = Log(cache[c].log)
    BY <1>2, HeldDocument, LoggedDocument DEF ServiceTypeOK
  <2>2. QED
    BY <2>1 DEF Document
<1>3. CASE \E c \in ContextIds, type \in ContextTypes : Create(k, c, type)
  BY <1>1, <1>3 DEF Create, SavesNew
<1>4. CASE \E c \in ContextIds : SubmitIntention(k, c)
  <2>1. PICK c \in ContextIds : SubmitIntention(k, c)
    BY <1>4
  <2>2. PICK status \in IF cache[c].status = "draft"
                        THEN Transition("draft", "active", cache[c].type)
                        ELSE {cache[c].status} :
              Saves(k, c, [Logged(cache[c]) EXCEPT !.status = status])
    BY <2>1 DEF SubmitIntention
  <2>3. Holds(cache, c) /\ status \in ContextStatuses
    <3>1. Holds(cache, c) /\ cache[c].status \in ContextStatuses
      BY <2>1, HeldDocument DEF SubmitIntention, Document
    <3>2. "draft" \in ContextStatuses /\ "active" \in ContextStatuses
      BY DEF ContextStatuses
    <3>3. QED
      BY <2>2, <3>1, <3>2, TransitionStatus
  <2>4. QED
    BY <1>1, <1>2, <2>2, <2>3 DEF Saves
<1>5. CASE \E c \in ContextIds, next \in ContextStatuses : SetStatus(k, c, next)
  <2>1. PICK c \in ContextIds, next \in ContextStatuses : SetStatus(k, c, next)
    BY <1>5
  <2>2. PICK status \in Transition(cache[c].status, next, cache[c].type) :
              Saves(k, c, IF status = cache[c].status THEN cache[c]
                          ELSE [Logged(cache[c]) EXCEPT !.status = status])
    BY <2>1 DEF SetStatus
  <2>3. Holds(cache, c) /\ status \in ContextStatuses
    BY <2>1, <2>2, HeldDocument, TransitionStatus DEF SetStatus, Document
  <2>4. CASE status = cache[c].status
    BY <1>1, <2>2, <2>4 DEF Saves
  <2>5. CASE status # cache[c].status
    BY <1>1, <1>2, <2>2, <2>3, <2>5 DEF Saves
  <2>6. QED
    BY <2>4, <2>5
<1>6. CASE \E c \in ContextIds : Edit(k, c)
  <2>1. PICK c \in ContextIds : Holds(cache, c) /\ Saves(k, c, Logged(cache[c]))
    BY <1>6 DEF Edit
  <2>2. Logged(cache[c]).log = Log(cache[c].log)
    BY <2>1, HeldDocument, LoggedDocument DEF ServiceTypeOK
  <2>3. QED
    BY <1>1, <2>1, <2>2 DEF Saves
<1>7. CASE \E c \in ContextIds : AddTask(k, c)
  <2>1. PICK c \in ContextIds : Holds(cache, c)
            /\ Saves(k, c, [cache[c] EXCEPT !.tasks = @ \union {version + 1}])
    BY <1>7 DEF AddTask
  <2>2. [cache[c] EXCEPT !.tasks = @ \union {version + 1}].log = cache[c].log
    BY <2>1, HeldDocument DEF Document
  <2>3. QED
    BY <1>1, <2>1, <2>2 DEF Saves
<1>8. CASE \E c \in ContextIds : Delete(k, c)
  BY <1>8, PutLosesNothing DEF Delete, Store, KeepsLog
<1>9. CASE \E c, t \in ContextIds : Crystallize(k, c, t)
  BY <1>9, PutLosesNothing, FreshIsNew DEF Crystallize, Put, Store, KeepsLog
<1>10. CASE \E c, t \in ContextIds, type \in {"ephemeral", "persistent"} :
                Instantiate(k, t, c, type)
  BY <1>1, <1>10 DEF Instantiate, SavesNew
<1>11. QED
  BY <1>3, <1>4, <1>5, <1>6, <1>7, <1>8, <1>9, <1>10 DEF Arrive

(* A step of a running service loses events of no context but the one a    *)
(* crystallization is recorded on.                                         *)
LEMMA LostStep ==
    ASSUME ServiceInv, [Next]_vars, process = "serving", process' = "serving",
           NEW c \in ContextIds, LostEvents(c) # {}
    PROVE  \E k \in Calls : calls[k].at = "recording" /\ calls[k].context = c
<1> USE DEF ServiceInv
<1>1. cache' # cache
  BY DEF LostEvents
<1>2. \A k \in Calls : ~Arrive(k)
  BY ArriveLosesNothing DEF EverythingAccounted
<1>3. PICK k \in Calls : RecordCrystallized(k)
  BY <1>1, <1>2
  DEF Next, Continue, Answer, Fail, BeginWrite, Replace, WriteFails, Boot, Start, Seed, Seeded,
      SeedingFails, Crash, Dies, vars, store
<1>4. cache' = [cache EXCEPT ![calls[k].context] = Logged(calls[k].source)]
  BY <1>3 DEF RecordCrystallized, Put, Store
<1>5. c = calls[k].context
  <2>1. CASE c # calls[k].context
    <3>1. cache'[c] = cache[c]
      BY <1>4, <2>1 DEF ServiceTypeOK, Table
    <3>2. QED
      BY <3>1 DEF LostEvents
  <2>2. QED
    BY <2>1
<1>6. QED
  BY <1>3, <1>5 DEF RecordCrystallized

(* "every mutation appends an event, so the activity log is complete by    *)
(* construction" holds but for the source of a crystallization in flight:  *)
(* no other operation takes an event out of a log before MAX_EVENTS newer  *)
(* ones are there, whatever calls overlap with it.                         *)
THEOREM OnlyCrystallizeLosesEvents == Spec => EventsLostOnlyToCrystallize
<1>1. ServiceInv /\ [Next]_vars =>
        [process = "serving" /\ process' = "serving" =>
            \A c \in ContextIds : LostEvents(c) # {} =>
                \E k \in Calls : calls[k].at = "recording" /\ calls[k].context = c]_vars
  BY LostStep
<1>2. QED
  BY <1>1, ServiceInvariant, PTL DEF Spec, EventsLostOnlyToCrystallize
=============================================================================
