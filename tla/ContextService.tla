--------------------------- MODULE ContextService ---------------------------
(***************************************************************************)
(* services/context-service: the ContextService (service.ts) over the      *)
(* JsonContextStore (store.ts), and the start of the process (main.ts).    *)
(*                                                                         *)
(* put() changes the cache at once and queues a write of the whole cache   *)
(* behind the writes before it (#writeChain); the call that made the       *)
(* change waits for its own write.  get() sleeps on nothing, so everything *)
(* an operation does up to its put() is one step.  Only crystallize() puts *)
(* twice: other calls run between the two.                                 *)
(*                                                                         *)
(* `version` numbers the changes of the cache.  It stands for the time a   *)
(* change was made at, and for the events the change appended: the log of  *)
(* a context is the set of the versions that logged something.  Names,     *)
(* interfaces and the text of events are left out.                         *)
(***************************************************************************)
EXTENDS Lifecycle, Naturals, FiniteSets

CONSTANTS
    ContextIds,   \* ids newId('ctx') can issue, and those of the seeds
    NoContext,    \* an id the store does not hold
    Calls,        \* the calls in flight at once (bound)
    MaxEvents,    \* MAX_EVENTS
    Seeds,        \* the ids of demoContexts()
    SeedOf,       \* demoContexts(), by id
    StoredTables, \* what the file may hold at the first start
    FileMayRot,   \* whether a start may find the file, or entries, unreadable
    MaxUpdates,   \* changes of the cache by calls explored (bound)
    MaxCrashes    \* crashes and failed starts explored (bound)

VARIABLES
    cache,    \* #cache
    writes,   \* #writeChain: the writes not done yet, least version first
    broken,   \* #writeChain has rejected
    writing,  \* the temporary file of the first write is being written
    file,     \* contexts.json and the version it was written for
    process,  \* down, seeding or serving
    calls,    \* the calls in flight
    version,  \* history: the changes of the cache so far
    acked,    \* history: the latest change answered with success
    issued,   \* history: the ids issued
    crashes   \* crashes and failed starts so far

store == <<cache, writes, broken, writing, file, version>>
history == <<issued, crashes>>
vars == <<store, process, calls, acked, history>>

Document == [type : ContextTypes, status : ContextStatuses, template : BOOLEAN,
             memory : SUBSET MemoryEntry, tasks : SUBSET Nat, log : SUBSET Nat]
Table == [ContextIds -> Document \union {NoContext}]
EmptyTable == [c \in ContextIds |-> NoContext]
Write == [version : Nat, table : Table]

ASSUME NoContextAssumption == NoContext \notin Document
ASSUME SeedsAssumption == Seeds \subseteq ContextIds /\ SeedOf \in [Seeds -> Document]
ASSUME StoredTablesAssumption == StoredTables \subseteq Table
ASSUME BoundsAssumption ==
    MaxEvents \in Nat \ {0} /\ MaxUpdates \in Nat /\ MaxCrashes \in Nat /\ FileMayRot \in BOOLEAN

(* What is found at the first start was written by the service, or ships   *)
(* with it: no template has memory that crystallization drops.             *)
Clean(document) == \A entry \in document.memory : ~Dropped(entry)
ASSUME TemplatesAssumption ==
    /\ \A table \in StoredTables, c \in ContextIds :
        table[c] # NoContext /\ table[c].template => Clean(table[c])
    /\ \A s \in Seeds : SeedOf[s].template => Clean(SeedOf[s])

(* A log is a list. *)
ASSUME LogsAssumption ==
    /\ \A table \in StoredTables, c \in ContextIds :
        table[c] # NoContext => IsFiniteSet(table[c].log)
    /\ \A s \in Seeds : IsFiniteSet(SeedOf[s].log)

(* A call waits for the write of `version`: to answer (saving), or to      *)
(* record the crystallization on the source it read (recording).           *)
Call == [at : {"idle", "saving", "recording"}, version : Nat,
         context : ContextIds \union {NoContext}, source : Document \union {NoContext}]
IdleCall == [at |-> "idle", version |-> 0, context |-> NoContext, source |-> NoContext]

ServiceTypeOK ==
    /\ cache \in Table
    /\ writes \subseteq Write
    /\ broken \in BOOLEAN
    /\ writing \in BOOLEAN
    /\ file \in Write
    /\ process \in {"down", "seeding", "serving"}
    /\ calls \in [Calls -> Call]
    /\ version \in Nat
    /\ acked \in Nat
    /\ issued \subseteq ContextIds
    /\ crashes \in Nat

-----------------------------------------------------------------------------
(* JsonContextStore. *)

Holds(table, c) == table[c] # NoContext

(* #flush(): a chain that has rejected runs no write any more. *)
Flush(table) ==
    /\ version' = version + 1
    /\ writes' = IF broken THEN writes
                 ELSE writes \union {[version |-> version + 1, table |-> table]}
    /\ UNCHANGED <<broken, writing, file>>

Store(table) == cache' = table /\ Flush(table)
Put(c, document) == Store([cache EXCEPT ![c] = document])

(* Mutant: writes that do not wait for each other. *)
UpNextInAnyOrder(w) == w \in writes

(* w is the write the chain has come to. *)
UpNext(w) == w \in writes /\ \A other \in writes : w.version <= other.version

(* Mutant: the file itself is written, in place. *)
BeginWriteInPlace ==
    /\ writes # {}
    /\ ~writing
    /\ writing' = TRUE
    /\ file' = [version |-> 0, table |-> EmptyTable]
    /\ UNCHANGED <<cache, writes, broken, version, process, calls, acked, history>>

(* writeFile(temp) ... *)
BeginWrite ==
    /\ writes # {}
    /\ ~writing
    /\ writing' = TRUE
    /\ UNCHANGED <<cache, writes, broken, file, version, process, calls, acked, history>>

(* ... then rename(temp, path), which replaces the file as a whole. *)
Replace ==
    /\ writing
    /\ \E w \in writes :
        /\ UpNext(w)
        /\ file' = w
        /\ writes' = writes \ {w}
    /\ writing' = FALSE
    /\ UNCHANGED <<cache, broken, version, process, calls, acked, history>>

(* Either of the two throws.  The chain stays rejected: what is queued and *)
(* what is still to come is never written.                                 *)
WriteFails ==
    /\ writing
    /\ broken' = TRUE
    /\ writes' = {}
    /\ writing' = FALSE
    /\ UNCHANGED <<cache, file, version, process, calls, acked, history>>

Landed(v) == file.version >= v
Rejected(v) == broken /\ ~Landed(v)

-----------------------------------------------------------------------------
(* ContextService.  An operation on an id the store does not hold, or one  *)
(* that the lifecycle refuses, has no effect and is not a step.            *)

(* appendEvent(): this change's event, and the newest before it. *)
Log(log) == LET all == log \union {version + 1}
            IN  {e \in all : Cardinality({newer \in all : newer > e}) < MaxEvents}
Logged(document) == [document EXCEPT !.log = Log(document.log)]

(* createContext() *)
Created(type, memory) ==
    [type |-> type, status |-> "draft", template |-> FALSE,
     memory |-> memory, tasks |-> {}, log |-> {version + 1}]

(* newId(): an id nothing has had before. *)
Reserved == Seeds \union {c \in ContextIds : \E table \in StoredTables : Holds(table, c)}
Fresh(c) == c \in ContextIds \ (issued \union Reserved)

(* Call k is free for an operation; it then waits for the write it queues. *)
Begin(k) ==
    /\ process = "serving"
    /\ calls[k].at = "idle"
    /\ version < MaxUpdates
    /\ UNCHANGED <<process, acked, crashes>>
AwaitWrite(k, at, c, source) ==
    calls' = [calls EXCEPT ![k] =
        [at |-> at, version |-> version + 1, context |-> c, source |-> source]]
SavesAs(k, c, document) ==
    /\ Put(c, document)
    /\ AwaitWrite(k, "saving", NoContext, NoContext)
Saves(k, c, document) == SavesAs(k, c, document) /\ UNCHANGED issued
SavesNew(k, c, document) == SavesAs(k, c, document) /\ issued' = issued \union {c}

(* A crystallized context without a template does not validate. *)
Create(k, c, type) ==
    /\ Begin(k)
    /\ Fresh(c)
    /\ type # "crystallized"
    /\ SavesNew(k, c, Created(type, {}))

SubmitIntention(k, c) ==
    /\ Begin(k)
    /\ Holds(cache, c)
    /\ \E status \in IF cache[c].status = "draft"
                     THEN Transition("draft", "active", cache[c].type)
                     ELSE {cache[c].status} :
        Saves(k, c, [Logged(cache[c]) EXCEPT !.status = status])

(* Asking for the status a context has saves it and logs nothing. *)
SetStatus(k, c, next) ==
    /\ Begin(k)
    /\ Holds(cache, c)
    /\ \E status \in Transition(cache[c].status, next, cache[c].type) :
        Saves(k, c, IF status = cache[c].status THEN cache[c]
                    ELSE [Logged(cache[c]) EXCEPT !.status = status])

(* Mutant: the event replaces the log. *)
EditOverLog(k, c) ==
    /\ Begin(k)
    /\ Holds(cache, c)
    /\ Saves(k, c, [cache[c] EXCEPT !.log = {version + 1}])

(* rename(), setUiSpecification() and appendEventTo(): a field no property *)
(* looks at, and an event.  A document that does not validate leaves an    *)
(* event as well.                                                          *)
Edit(k, c) ==
    /\ Begin(k)
    /\ Holds(cache, c)
    /\ Saves(k, c, Logged(cache[c]))

AddTask(k, c) ==
    /\ Begin(k)
    /\ Holds(cache, c)
    /\ Saves(k, c, [cache[c] EXCEPT !.tasks = @ \union {version + 1}])

(* What of a context's memory its template keeps. *)
KeptMemory(memory) == {entry \in memory : ~Dropped(entry)}

(* crystallize(): the template is put first; what was read of the source   *)
(* is kept for the second put.                                             *)
Crystallize(k, c, t) ==
    /\ Begin(k)
    /\ Holds(cache, c)
    /\ Crystallizable(cache[c].type, cache[c].status)
    /\ Fresh(t)
    /\ Put(t, [Created("crystallized", KeptMemory(cache[c].memory))
                    EXCEPT !.status = "active", !.template = TRUE])
    /\ AwaitWrite(k, "recording", c, cache[c])
    /\ issued' = issued \union {t}

Instantiate(k, t, c, type) ==
    /\ Begin(k)
    /\ Holds(cache, t)
    /\ cache[t].type = "crystallized" /\ cache[t].template
    /\ Fresh(c)
    /\ SavesNew(k, c, Created(type, cache[t].memory))

Delete(k, c) ==
    /\ Begin(k)
    /\ Holds(cache, c)
    /\ Store([cache EXCEPT ![c] = NoContext])
    /\ AwaitWrite(k, "saving", NoContext, NoContext)
    /\ UNCHANGED issued

(* The write call k waits for is done: it answers ... *)
Answer(k) ==
    /\ calls[k].at = "saving"
    /\ Landed(calls[k].version)
    /\ calls' = [calls EXCEPT ![k] = IdleCall]
    /\ acked' = IF calls[k].version > acked THEN calls[k].version ELSE acked
    /\ UNCHANGED <<store, process, history>>

(* ... or puts the source, as it was read, with the event. *)
RecordCrystallized(k) ==
    /\ calls[k].at = "recording"
    /\ Landed(calls[k].version)
    /\ Put(calls[k].context, Logged(calls[k].source))
    /\ AwaitWrite(k, "saving", NoContext, NoContext)
    /\ UNCHANGED <<process, acked, history>>

(* Mutant: the rejection of the first of two puts is not caught. *)
FailWhenSaving(k) ==
    /\ calls[k].at = "saving"
    /\ Rejected(calls[k].version)
    /\ calls' = [calls EXCEPT ![k] = IdleCall]
    /\ UNCHANGED <<store, process, acked, history>>

(* The chain has rejected: the caller gets a 500. *)
Fail(k) ==
    /\ calls[k].at # "idle"
    /\ Rejected(calls[k].version)
    /\ calls' = [calls EXCEPT ![k] = IdleCall]
    /\ UNCHANGED <<store, process, acked, history>>

-----------------------------------------------------------------------------
(* The process. *)

(* It dies at any point; the temporary file is left behind and unused. *)
Dies ==
    /\ crashes < MaxCrashes
    /\ crashes' = crashes + 1
    /\ process' = "down"
    /\ cache' = EmptyTable
    /\ writes' = {}
    /\ broken' = FALSE
    /\ writing' = FALSE
    /\ calls' = [k \in Calls |-> IdleCall]
    /\ UNCHANGED <<file, version, acked, issued>>

Crash == process # "down" /\ Dies

(* init(): entries that do not validate are dropped, a file that cannot be *)
(* read or parsed is taken for an empty one.                               *)
Start ==
    /\ process = "down"
    /\ \E lost \in IF FileMayRot THEN SUBSET ContextIds ELSE {{}} :
        /\ cache' = [c \in ContextIds |-> IF c \in lost THEN NoContext ELSE file.table[c]]
        /\ process' = IF cache' = EmptyTable THEN "seeding" ELSE "serving"
    /\ UNCHANGED <<writes, broken, writing, file, calls, version, acked, history>>

(* An empty store gets the demo contexts, one put() after another, before  *)
(* the server listens.                                                     *)
Unseeded == {s \in Seeds : ~Holds(cache, s)}

Seed(s) ==
    /\ process = "seeding"
    /\ s \in Unseeded
    /\ writes = {} /\ ~broken
    /\ Put(s, SeedOf[s])
    /\ UNCHANGED <<process, calls, acked, history>>

Seeded ==
    /\ process = "seeding"
    /\ Unseeded = {} /\ writes = {} /\ ~broken
    /\ process' = "serving"
    /\ UNCHANGED <<store, calls, acked, history>>

(* A rejected put() is an uncaught error of the module: the process exits. *)
SeedingFails ==
    /\ process = "seeding"
    /\ broken
    /\ Dies

-----------------------------------------------------------------------------
Init ==
    /\ file \in [version : {0}, table : StoredTables]
    /\ cache = EmptyTable
    /\ writes = {}
    /\ broken = FALSE
    /\ writing = FALSE
    /\ process = "down"
    /\ calls = [k \in Calls |-> IdleCall]
    /\ version = 0
    /\ acked = 0
    /\ issued = {}
    /\ crashes = 0

Arrive(k) ==
    \/ \E c \in ContextIds :
        \/ \E type \in ContextTypes : Create(k, c, type)
        \/ SubmitIntention(k, c)
        \/ \E next \in ContextStatuses : SetStatus(k, c, next)
        \/ Edit(k, c)
        \/ AddTask(k, c)
        \/ Delete(k, c)
    \/ \E c, t \in ContextIds :
        \/ Crystallize(k, c, t)
        \/ \E type \in {"ephemeral", "persistent"} : Instantiate(k, t, c, type)

Continue(k) == Answer(k) \/ RecordCrystallized(k) \/ Fail(k)
Boot == Start \/ (\E s \in Seeds : Seed(s)) \/ Seeded \/ SeedingFails

Next ==
    \/ \E k \in Calls : Arrive(k) \/ Continue(k)
    \/ BeginWrite \/ Replace \/ WriteFails
    \/ Boot \/ Crash

Spec == Init /\ [][Next]_vars

(* The file operations of a write finish, one way or the other, and a call *)
(* whose promise is settled is resumed.                                    *)
Fairness ==
    /\ WF_vars(BeginWrite)
    /\ WF_vars(Replace \/ WriteFails)
    /\ \A k \in Calls : WF_vars(Continue(k))

FairSpec == Spec /\ Fairness

-----------------------------------------------------------------------------
(* Properties. *)

(* "Write-then-rename: a crash mid-write leaves the previous file intact"  *)
(* and "Serializes writes so two concurrent saves cannot interleave"       *)
(* (JsonContextStore): a change that was answered with success is in the   *)
(* file, or a later one is, whatever crashes or fails afterwards.          *)
AckedSurvives == acked <= file.version

(* When no call is in flight the file holds what the store answers from,   *)
(* unless a write has failed; so the next start finds the same contexts.   *)
FileIsCurrent ==
    process = "serving" /\ ~broken /\ (\A k \in Calls : calls[k].at = "idle")
        => file.table = cache

(* A caller is never left hanging: every call is answered, with an error   *)
(* once a write has failed, or dies with the process.                      *)
EveryCallAnswered == \A k \in Calls : calls[k].at # "idle" ~> calls[k].at = "idle"

(* Crystallization is "a sanitizing operation" (crystallize.ts): no        *)
(* context made by the service since the first start, be it a template, a  *)
(* run of one, or a template of such a run, has any of a stored context's  *)
(* secret, sensitive or run-specific memory.                               *)
NewContextsAreClean ==
    \A c \in issued : Holds(cache, c) => Clean(cache[c])

(* The events context c loses in a step other than to the cap. *)
Newer(log, e) == {newer \in log : newer > e}
LostEvents(c) ==
    IF ~Holds(cache, c) \/ ~Holds(cache', c) THEN {}
    ELSE {e \in cache[c].log \ cache'[c].log :
            Cardinality(Newer(cache'[c].log, e)) < MaxEvents}

(* "every mutation appends an event, so the activity log is complete by    *)
(* construction" (ContextService): no event leaves the log of a running    *)
(* service before MAX_EVENTS newer ones are there.                         *)
LogIsComplete ==
    [][process = "serving" /\ process' = "serving" =>
        \A c \in ContextIds : LostEvents(c) = {}]_vars

(* ... which holds but for the source of a crystallization in flight,      *)
(* however the other calls interleave.                                     *)
EventsLostOnlyToCrystallize ==
    [][process = "serving" /\ process' = "serving" =>
        \A c \in ContextIds : LostEvents(c) # {} =>
            \E k \in Calls : calls[k].at = "recording" /\ calls[k].context = c]_vars

(* "Re-running never overwrites the user's work" (main.ts): seeding takes  *)
(* no context out of the file.                                             *)
SeedingKeepsWork ==
    [][process = "seeding" =>
        \A c \in ContextIds : Holds(file.table, c) => Holds(file'.table, c)]_vars

(* What the invariants above need to be inductive. *)

(* The chain holds one write a version, all of them after the file's. *)
ChainInOrder ==
    /\ file.version <= version
    /\ \A w \in writes : file.version < w.version /\ w.version <= version
    /\ \A v, w \in writes : v.version = w.version => v = w

(* Nothing of a stopped process is left; it serves nobody while it seeds;  *)
(* a chain that has rejected is empty, and only a write is being written.  *)
ProcessConsistent ==
    /\ process = "down" => writes = {} /\ ~broken
    /\ process # "serving" => \A k \in Calls : calls[k].at = "idle"
    /\ broken => writes = {}
    /\ writing => writes # {}

(* Every write of a serving process has its call waiting for it. *)
WritesAwaited ==
    process = "serving" => \A w \in writes : \E k \in Calls :
        calls[k].at # "idle" /\ calls[k].version = w.version

(* What the chain will leave in the file is what the store answers from. *)
ChainEndsInCache ==
    process # "down" /\ ~broken =>
        /\ writes = {} => file.table = cache
        /\ \A w \in writes :
            (\A other \in writes : other.version <= w.version) => w.table = cache

(* The ids of a table have been issued or reserved, and what was issued,   *)
(* or is a template, is clean; logs are finite.                            *)
Accounted(c, document) ==
    /\ c \in issued \union Reserved
    /\ IsFiniteSet(document.log)
    /\ c \in issued \/ document.template => Clean(document)
TableAccounted(table) == \A c \in ContextIds : Holds(table, c) => Accounted(c, table[c])

EverythingAccounted ==
    /\ issued \intersect Reserved = {}
    /\ TableAccounted(cache)
    /\ TableAccounted(file.table)
    /\ \A w \in writes : TableAccounted(w.table)
    /\ \A k \in Calls : calls[k].at = "recording" =>
        /\ calls[k].context \in ContextIds
        /\ calls[k].source \in Document
        /\ Accounted(calls[k].context, calls[k].source)

ServiceInv ==
    /\ ServiceTypeOK
    /\ ChainInOrder
    /\ AckedSurvives
    /\ ProcessConsistent
    /\ EverythingAccounted

(* ... and of a service whose file is read back as it was written. *)
FileInv == ServiceInv /\ WritesAwaited /\ ChainEndsInCache
=============================================================================
