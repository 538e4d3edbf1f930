# TLA+ models of SairiOS

SairiOS is a desktop shell over three small Node services: a permission broker
that asks the user before an agent does anything, a context service that keeps
the user's contexts on disk, and an agent bridge that runs intentions through a
model provider. This directory holds TLA+ modules translated from their source,
TLC configurations that check them on small instances, and proofs that TLAPS
checks for instances of every size.

    tlc -config MCBrokerSerial.cfg MCPermissionBroker    # model checking
    tlapm PermissionBrokerProofs.tla                     # proofs

`PROJECT.json` is the index: for every definition the lines of source it
translates, for every run what it asks, for every property a mutation of the
code's model that breaks it, and the list of hazards.

## Inventory of the system

Paths are relative to the repository. "Hard" is what a unit test hardly reaches.

### Permission broker (`services/permission-broker`)

* **State.** In memory: the requests (`pending`, `allowed`, `denied`, `executed`,
  `failed`, `cancelled`), the remembered decisions, the contexts that have
  received a relay (`RelayLedger`). On disk: the policy file (rewritten in place)
  and the audit log (append-only).
* **Operations.** `propose`, `decide`, `cancel`, `execute`, `revoke`, `load`, and
  readers. `policy.ts` resolves a capability in a context: the context's answer,
  the global one, the default.
* **Interaction.** HTTP calls from the shell (decide, execute, revoke, dictation
  requests) and from the agent bridge (propose, status, policies).
* **Hard.** Every operation suspends at file operations or at the action itself,
  and another call runs in between; what was decided is stale when it is
  executed; a relay taints a context after grants were already given; the process
  restarts with the file it last wrote, and without the map and the ledger.
* **Correct when** nothing starts without an answer that is in force when it
  starts; a denial or a revocation recorded before the start wins; what has ended is
  not run again; no relay follows a relay, and one suspends the standing grants; an
  action leaves its allowance, its outcome and a status that tells of it.

### Approval relay (`agent-bridge/src/approval-relay.ts`, `clients.ts`, `bridge.ts`)

* **State.** One loop per approval that OpenClaw blocks on: the request it
  proposed, the deadline, the decision. OpenClaw and the shell hold the rest.
* **Operations.** Raise, refuse early, propose, poll, time out, answer.
* **Hard.** Four processes and no shared state but the broker; every HTTP call
  may fail or lose its answer; broker restarts in the middle; a deadline races
  the user.
* **Correct when** it fails closed, always ends, and lets OpenClaw act only on
  what the user allowed.

### Context service (`services/context-service`, `packages/context-schema`)

* **State.** The contexts (type, status, memory, tasks, UI document, event log) in
  a store. The JSON store has a cache and a chain of whole-file writes; the SQLite
  store writes row by row, synchronously.
* **Operations.** create, submit an intention, set status, rename, set UI, append
  event, add task, crystallize (a template from a context), instantiate (a context
  from a template), delete; at boot, read the file and seed an empty store.
* **Hard.** An answer must wait for its own write; a failed write poisons the
  chain; crashes between write and rename; `crystallize` holds a context over an
  await; seeding decides on what it could read.
* **Correct when** answered changes survive, logs are complete, templates carry no
  private memory, calls are answered, seeding overwrites nothing.

### Action execution (`services/permission-broker/src/actions.ts`, `sandbox.ts`)

* **State.** The files under the directory of a context; nothing in memory.
* **Operations.** read, write, delete, run a command, hand an artifact to another
  agent; each is a few file system calls with an `await` between.
* **Hard.** Executions of one context overlap: what a step looked at has changed
  when the next acts; a file is truncated and written in chunks; any call may fail.
* **Correct when** a deletion is reported only of a file that was there and is gone, a
  file at rest is one request's content, and no exception escapes the runner.

### Agent bridge and providers (`services/agent-bridge`)

* **State.** A run: its session, the event stream, the WebSocket to the OpenClaw
  gateway with the queue of frames that came early.
* **Operations.** `POST /intentions` opens a session, runs the intention and streams
  events as lines; three providers (OpenClaw, the hosted gateway, a mock).
* **Hard.** Three generators are nested, each with its own way to fail; a handshake
  and a run listen to one socket one after the other; frames arrive while the bridge
  awaits another service.
* **Correct when** every response ends with one `done`, sessions and sockets are
  given back, no frame of an answer is lost or moved, and nothing is sent to a
  gateway that has not said hello.

### Provider setup (`services/agent-bridge/src/setup.ts`, the wizard and the dialog)

* **State.** The file with the credential, the file with the chosen provider, the
  configuration of OpenClaw, and the page that shows the form.
* **Operations.** `POST /setup`: validate, look for OpenClaw, write the key, onboard,
  set the model, record the choice.
* **Hard.** Three stores and no transaction: two calls overlap, commands time out
  with their work done, the process stops between two writes.
* **Correct when** a refusal changes nothing, the recorded provider was onboarded,
  and a success means all three agree.

### Shell (`apps/shell`)

* **SairiOS surface** (`useSairi.ts`): the contexts, the active one, its permission
  request, the run on display. Calls are awaited while the user selects, submits and
  decides again.
* **Desktop** (`App.tsx`, `desktop/`): windows (a reducer), one `busy` flag, one set of
  activities, jobs of menus, dialog and terminal that overlap.
* **Dictation** (`useDictation.ts`): the talk key, the recogniser and two calls of the
  broker between the press and the microphone, which nothing can call back.
* **Front door** (`access.mjs`, `proxy.mjs`): a token in a cookie, static files, and
  calls forwarded to the three services.
* **Correct when** a microphone opens only on an executed request of its own; no
  failure leaves the talk key, the form or the surface dead; this tab executes what
  its own user allowed, once; windows stay one for a context and the indicators true.

### Crystallization (`packages/context-schema/src/crystallize.ts`)

* **State.** None of its own: a template is made from a context, a run from a
  template, a template again from that run.
* **Hard.** Chains: what is dropped, kept, downgraded and reset on the first link may
  come back on the third; a preview derives again, by other code, what will be kept.
* **Correct when** nothing private and nothing of one run reaches another context, no
  default allows, every stored interface validates, and the preview is the truth.

### The rest

The catalogue of the adaptive UI schema is modelled as far as crystallization depends
on it. The UI components render documents; `packages/shared` holds pure helpers;
`os/`, `vm/`, `containers/` and `scripts/` build and start the image. They have no
protocol to model; `PROJECT.json` lists each with its reason.

## Modules

| Module | Models | Kind |
|---|---|---|
| `PolicyRules` | `policy.ts`: defaults, remembered answers, resolution | pure operators |
| `ConsentGate` | what the broker promises of one action | abstract specification |
| `PermissionBroker` | `broker.ts`, `relay.ts`, `audit.ts` | state machine |
| `MCPermissionBroker` | instances of it | for TLC |
| `PermissionBrokerProofs` | theorems about it | proofs |
| `ApprovalRelay` | `approval-relay.ts` with its clients; EXTENDS the broker | composition |
| `MCApprovalRelay` | instances of it | for TLC |
| `Lifecycle` | `lifecycle.ts`, what crystallization keeps | pure operators |
| `ContextService` | `service.ts` over `JsonContextStore`, boot | state machine |
| `MCContextService` | instances of it | for TLC |
| `ContextServiceProofs` | theorems about it | proofs |
| `Dictation` | `useDictation.ts` with its key, button and recogniser; EXTENDS the broker | composition |
| `MCDictation` | instances of it | for TLC |
| `BrokerClientsProofs` | theorems about `ApprovalRelay` and `Dictation` | proofs |
| `AgentRun` | `server.ts`, `bridge.ts`, `openclaw.ts`, `ws-transport.ts`, `hosted.ts`, `mock.ts` | state machine |
| `MCAgentRun`, `AgentRunProofs` | instances, theorems | for TLC, proofs |
| `ProviderSetup` | `setup.ts`, `SetupWizard.tsx`, `SetupDialog.tsx` | state machine |
| `MCProviderSetup`, `ProviderSetupProofs` | instances, theorems | for TLC, proofs |
| `SairiShell` | `useSairi.ts`, `SairiOS.tsx`, `api.ts`, the front door as it is seen | state machine |
| `MCSairiShell` | instances of it | for TLC |
| `Windows` | `windows.ts`, `Window.tsx`: the reducer and its geometry | operators |
| `Desktop` | `App.tsx`, the terminal and the dialog; EXTENDS `Windows` | state machine |
| `MCDesktop` | instances of it | for TLC |
| `ShellProofs` | theorems about `SairiShell` and `Desktop` | proofs |
| `SairiUI` | the catalogue of UI components, validity | pure operators |
| `Crystallization` | `crystallize.ts` with its callers; EXTENDS `Lifecycle`, `SairiUI` | state machine |
| `MCCrystallization`, `CrystallizationProofs` | instances, theorems | for TLC, proofs |
| `ActionRunner` | `actions.ts`, `sandbox.ts` | state machine |
| `MCActionRunner`, `ActionRunnerProofs` | instances, theorems | for TLC, proofs |

### PermissionBroker

Node runs the code between two awaits without interruption, so one action is one
such stretch. `calls[k]` is an HTTP call in flight and `calls[k].at` the await it
sleeps in: the action (`acting`), `mkdir`, the open and the write of the policy
file (`open`, `write`), the audit append (`audit`). `Propose`, `Decide`, `Cancel`,
`ExecuteTurnedDown`, `ExecuteStart` and `Revoke` run from the arrival of a call to
its first await, `ActionDone`, `SnapshotPolicies`, `TruncateFile`, `WriteFile` and
`AppendAudit` from one await to the next; `CallFails` is a file operation that
throws, `Restart` a process that dies anywhere and is started again. The policy
file is what `load()` would read: truncated or torn, it holds no answers. A call
that is refused with no effect is not a step. `runs`, `issued` and `relayed` are
history, for the properties only.

What an action does is abstracted to whether it succeeds (`ActionRunner` has the rest). `userDecided` and the
capability are kept, the payload and the reason are not: the broker never branches
on them. The list of remembered decisions is a set, which is sound because
`UniqueAnswers` holds.

### ApprovalRelay

Extends the broker; every step of the broker in the composition is the broker's
own action, and `SystemRefinesBroker` proves that the composition is a behaviour of
the broker's specification. `approvals[a]` is one run of `relayApproval`, `gateway`
what OpenClaw does, `answering` and `executeNext` the shell's `decide()`, which
executes after a successful allow. `undefined` stands for everything `status()`
makes of a broker that is unreachable or has forgotten the request. The gateway may
stop waiting at any time. The only requests in this composition are those of the
relays.

### Lifecycle and ContextService

`version` numbers the changes of the cache and stands for the events a change
appended and for what it stored; a log is the set of versions that logged
something, so the events of one change are one element. `writes` is the chain;
`BeginWrite`, `Replace` and `WriteFails` are its steps. An operation up to its
`put()` is one step, because `get()` of the JSON store sleeps on nothing.
`crystallize()` is two: `Crystallize` keeps the source it read in the call and
`RecordCrystallized` writes it back. The start of the process is `Start`, `Seed`,
`Seeded`; `Crash` stops it at any point. The order in which the demo contexts are
put is left open. `AddTask` appends no event, as in the code (the comment at
`service.ts:28` says every mutation does).

The SQLite store has no step between the read and the write of one operation and
crystallization is then two synchronous writes with only a microtask between; the
JSON store, used where `node:sqlite` is missing or by configuration, is the one
with something to interleave and it is the one modelled.

### Dictation

Extends the broker as `ApprovalRelay` does (`PageRefinesBroker`). `utterances[u]` is
one run of `begin()` with the recogniser it may have started: its call is on the way
(`propose`, `execute`), being served (`proposing`, `executing`) or answered
(`proposed`, `executed`). The refs (`busy`, `dictation`, `pendingRequest`, `alive`)
and the phase are variables of their own; `rendered` is the phase that the handlers
of the key and the button see, which a render brings up to date. `Release`,
`Discard`, `Grant` and `Refuse` are `end`, `cancel`, `grant` and `refuse`;
`RecogniserFails` and `RecogniserEnds` are the browser's events, which it may send by
itself. `OtherClient` is the shell's permission list, which shows the same requests.
A click and the arrival of its call at the broker are one step, and so are the
broker's answer to `grant()` and its `then`; nothing else of the page waits on them.
The text that is heard and the availability of a model are left out.

### AgentRun

Three nested generators are one pipeline: the provider stands at an await (`at`), the
events it has yielded wait in `outbox`, and the bridge takes the next only when the
call it makes for the last (`calling`: the broker, the store, the relay of an
approval) has returned. `heard` is the queue of the current `messages()` iteration;
frames that arrive between two iterations have no listener, as in the code. `socket`,
`broke` and `registered` are the WebSocket and the session's entry for it. The steps
are the bridge's (`Bridge`: it takes an event, or gets an answer), the handshake's
(`Handshake`), the stream's (`StreamReads`, `StreamCloses`), the hosted provider's
(`Hosted`, with its timer), and the gateway's, which accepts, refuses, sends any frame in any order, two in a segment, and
closes or breaks the socket anywhere. Each frame is one of the kinds that `openclaw.ts`
treats differently. `answers` is history.

A run shares nothing with other runs but the services it calls, so one run is
modelled. The branch that relays an approval is `ApprovalRelay`'s; here it is a call
that returns a decision.

### ProviderSetup

A page shows a step of the wizard or the dialog's form; `call[c]` stands at an await of
`configure()`. A file is the set of the calls whose bytes are in it, so two calls that
write at once can leave both. A command of OpenClaw may fail with its work done
(`execFile`'s timeout) or not. `Crash` stops the bridge with the files as they are.
`touched` and `onboarded` are history.

### SairiShell

`run[r]` stands at an await of `begin()`, `click[k]` at one of `decide()`; `asked` holds
the list and permission calls in flight, whose answers land in any order with a status
as old as the call. `broker` and `stored` are what the services hold; `OtherTab` decides
and executes the same requests, so the tab's own allows are a history of their own
(`allowedHere`). A `done` sets the status and the loop goes on reading: with the hosted
provider (`Hosted`) any event may follow it, and the run ends when its stream does. It is
`late` while such an event has put the surface back to work, and `strayed` if the stream
ends like that. What `refresh()` lists matters here only for the first active context. Any call may fail with its work done: that is what the
front door makes of a missing cookie, a dead service or a cut stream.

### Windows and Desktop

`Windows` has one operator for each case of the reducer and for the clamping of
`Window.tsx`; the vertical axis repeats the horizontal one and is left out. `Desktop`
adds what is asynchronous: a job is the list of calls that a menu, a button or a
command of the terminal makes one after the other (`Plan`), and an answer runs the
code up to the next call, with the count of windows and the viewport of the render the
job began in. `Onward` is what is left of a job after an answer. The module's behaviour
is `DesktopSpec`; `ContextIds` are the numbers the service gives out in their order.

### SairiUI and Crystallization

A text is the id of the context it was written in, a document a function from its
regions to their components, and what matters of a prop is its name and whose text it
holds. `SanitizedUi`,
`Stages`, `PermissionDefaults`, `Inputs` and `Preview` translate the functions of
`crystallize.ts`. One operation is one step here
(`ContextService` has the overlap), so that chains of three or four are explored: a
context, its template, a run, the run's template.

### ActionRunner

One call is one execution and `at` the `await` it stands at. A file is the sequence of the
chunks written to it; two writers that have it open write chunk over chunk, and a
writer whose file was deleted writes to what no path names (`orphan`). A path may be
both a file and the parent of another. Any pending file system call may fail.

`rm(path, {recursive: false, force: false})` is Node's, and two steps of it: `Lstat`
refuses a path that is empty or a directory, and `Unlink` removes what is there by then.
Nothing there is a success to it, so two deletions can both answer for one file; and a
directory that came to be there in between goes with what is in it, one path at a time,
where it does not fail.

## Runs

| Run | Question | Result |
|---|---|---|
| `broker_serial` | one call at a time, two contexts, a restart: are both steps and every outcome in the audit log, does a relay suspend the grants before it | holds |
| `broker_overlap` | two calls interleaving at every await, failing files: do the checks at the start of `execute()` still decide, is what ended not run again, is no outcome hidden, no relay after a relay | holds |
| `relay` | does an approval fail closed and always end | holds |
| `contexts` | answered changes survive, calls are answered, only a crystallization in flight costs an event | holds |
| `dictation` | has every microphone its own executed request; do the refs and the phase stay in step | holds |
| `agent_run` | is a stream terminated once, complete and in order, is the session given back, does a run end | holds |
| `setup` | is a refusal without a trace, a configured provider onboarded, a success whole | holds |
| `shell` | does this tab execute only what its own click allowed, once, and does the surface come to rest, also when a stream goes on after its `done` | holds |
| `desktop` | one window for a context, true indicators, and a dialog that closes, under overlapping jobs | holds |
| `crystallization` | does anything private, pre-authorized or invalid travel along a chain, and is the preview true | holds |
| `actions` | had deletions that answer a file to delete, are files whole and executions answered when they overlap | holds |
| `crystallization_decisions` | do the user's decisions reach the template | violated |

What the comments say of one request after another is not always kept when calls
overlap; the runs check what is left of it, and `Where the code and its comments
disagree` lists the rest. `EndedNeverRunsAgain` is left of "once": two `execute()` that
overlap both run an action (`RunsOnce`, `MCBrokerRunsTwice.cfg`), one that comes after the
end of a run never does. `NoHopAfterHop` is left of "one hop": relays that run at the
same time are not kept apart. `OutcomeIsNotHidden` takes a cancel of a running action as
the code does: it is accepted, and overwritten by the outcome. `broker_serial` keeps one
call slot because its properties read the audit log or the grants of a second context,
which two slots make too many states for; its two safety properties are proved for every
overlap (`AuditTrailHasBothSteps`, `NoGrantIsLaundered`).
Type invariants and the other inductive invariants are proved and take no
place in the runs; TLC confirms each when it is added to its configuration.

**Bounds.** Every bound is a CONSTANT with its meaning beside it.

* *Broker, relay.* Two requests are enough for one answer to act on another's request,
  and for a relay before or after a grant; two contexts for a global answer against
  a context's own; three capabilities for the three defaults; two calls for every
  pair of awaits to interleave; one restart because a second starts from the same
  kind of state; a policy file that allows the relay (nothing else can) and one
  guarded capability, from which revocation reaches the smaller ones. `KeptPhases`
  is empty where no property reads the audit log.
* *Contexts.* `MaxEvents` is 2, so the cap is reached; three changes are enough for a
  crystallization with a change in between and its recording; one crash, at any point;
  the stored context has one memory entry of every kind.
* *Dictation.* Two utterances are enough for one to overtake another that was released;
  they share one call slot at the broker, which leaves every order of their calls.
* *Agent run.* Five frames: the challenge and the hello leave three of any kind in the
  answer, or all five go to a handshake that is not the expected one.
* *Setup.* One page of each kind and two calls: every pair of awaits interleaves, and
  one call may fail before, during or after the other.
* *Shell, desktop.* Two intentions and two clicks, three of these in one behaviour, with
  the hosted provider, whose streams do all that the others' do and go on after `done`;
  two jobs in flight and three in a row, with one change of the windows between: each
  answer can land after a selection, another answer or an unmount.
* *Crystallization.* Four changes, five contexts (384 000 states): the shortest chain in
  which a template's own template is run.
* *Actions.* Four executions, two at once, on a directory that may be a file and a file
  in it: a file, a deletion that stands before its `Unlink`, another that is faster, and a
  write that makes a directory of the path meanwhile.

Deadlock checking is on in `setup`, where the user can always go on, and off elsewhere,
because the ids, changes, calls or approvals of an instance run out.

**Symmetry** is used only in `broker_overlap` (calls and request ids), `dictation`
(utterances and request ids) and `crystallization` (new ids), which check no liveness.

**Fairness.** `Fairness` of each module is weak fairness of steps that Node takes
by itself: a promise that has settled resumes its call, a file operation ends with
success or failure, a sandboxed action ends, the clock advances, a call to a peer ends,
if only at `fetch`'s time limits. Nobody has to answer a prompt, no HTTP call has to
succeed, no process has to restart. OpenClaw's gateway is under no obligation: a run
that waits for a silent one does not end, `RunEnds` does not claim it, and
`SairiShell` and `Desktop`, whose fairness says that a stream ends or is cut, inherit
that condition. Liveness properties: `OutcomeReachesAuditLog`, `EveryApprovalSettles`,
`EveryCallAnswered`, `RunEnds`, `RunSettles`, `ConfirmSettles`,
`EveryExecutionAnswers`.

## Where the code and its comments disagree

Each configuration below ends in a counterexample when it is run on the module its name
begins with (`MCBroker…`: `MCPermissionBroker`, `MCRelay…`: `MCApprovalRelay`, `MCContexts…`:
`MCContextService`, `MCSetup…`: `MCProviderSetup`, `MCShell…`: `MCSairiShell`, `MCActions…`:
`MCActionRunner`, otherwise the module of that name). The first is the run
`crystallization_decisions`; the others are kept as configurations only.

| Configuration, property | What is said | What the code does |
|---|---|---|
| `MCCrystallizationDecisions`, `DecisionsReachTheTemplate` | a template keeps the permission defaults, "only decisions the user actually made for the whole context survive" (`README.md:57`, `crystallize.ts:241`) | `decide()` (`broker.ts:242`) keeps a decision in the broker; nothing writes a context's permissions, so a template of a context really used has no such default |
| `MCBrokerRunsTwice`, `RunsOnce` | "`once` is consumed by the next execute()" (`broker.ts:69`) | the request stays `allowed` until the action has ended (`broker.ts:352`): two `execute()` that overlap both run it |
| `MCBrokerTaintRestart`, `NoLaunderedGrantAfterRestart` | the taint may be in memory, "a restart is a fresh set of grants anyway" (`relay.ts:167`) | `load()` (`broker.ts:415`) reads the grants back and the ledger starts empty |
| `MCRelayAutoAllow`, `OnlyAHumanAllows` | "the only path to `allow` is a broker request a human moved to `allowed`" (`SECURITY.md:268`, `approval-relay.ts:75`) | `propose()` sets `allowed` on a default or remembered allow (`broker.ts:191`), and the loop (`approval-relay.ts:180`) does not look at who decided |
| `MCRelayTwice`, `PerformedByOne` | OpenClaw performs the action "and then it is out of our hands" (`approval-relay.ts:23`) | the shell follows every allow with `execute()` (`useSairi.ts:198`, `App.tsx:268`): the broker performs it too |
| `MCContextsLostEvent`, `LogIsComplete` | "every mutation appends an event, so the activity log is complete by construction" (`service.ts:28`) | `crystallize()` writes the source back as it read it before an await (`service.ts:203-226`) |
| `MCContextsReseeded`, `SeedingKeepsWork` | "re-running never overwrites the user's work" (`main.ts:19`) | a file that cannot be read counts as none (`store.ts:171-179`), and the demo contexts replace it |
| `MCDictationAfterRelease`, `OpensOnlyWhileHeld` | a microphone that opens after the key is up is "the exact thing push-to-talk exists to make impossible" (`useDictation.ts:188`) | the `begin()` in flight checks `alive` only (lines 148, 174) and opens it |
| `MCSetupConnecting`, `ConnectingHasAResult` | "connecting is its own beat with a real result" (`SetupWizard.tsx:33`) | `POST /setup` answers without `providers` (`server.ts:103`), which `SetupWizard.tsx:68` reads while rendering: the wizard falls to the error boundary |
| `MCShellStaleRun`, `RunDescribesTheActive` | switching away "must not leave its status bar describing the one you left" (`useSairi.ts:102`) | the loop of the run that was left goes on setting the state (lines 145-174) |
| `MCShellPrompts`, `PromptsAreTheActives` | "broker requests for the active context" (`useSairi.ts:32`) | whatever answer lands last is shown (line 91) |
| `MCDesktopStranded`, `TitleBarsReachable` | "a window is never allowed to move fully off-screen" (`Window.tsx:12`) | the clamp is applied to drags and to a changed viewport (`Window.tsx:131`), not to a resize: a window dragged to the left edge and then made narrower has its title bar under the dock |
| `MCActionsCap`, `FilesWithinTheCap` | files written are capped at `MAX_WRITE_BYTES` (`actions.ts:49`) | characters are compared (`actions.ts:174`), so a file may be longer in bytes, and longer than `files.read` reads |
| `MCActionsHanded`, `HandedIsRead` | "an artifact swapped between approval and read fails the check" (`relay.ts:46`) | the later `files.read` carries no digest |

Seen while modelling, and in the models where they have a state of their own: the hosted
provider passes on events after a `done` (`hosted.ts:277-294`), and a status among them
leaves the surface at work with its run over (`strayed`); two deletions of one file that
overlap both answer "Deleted" (`actions.ts:200`), though the results should tell "whether
something actually happened" (`actions.ts:17`); a policy file whose write failed or was
cut stays behind the table (`broker.ts:498`); a setup that fails half way
leaves the new key beside the old choice; an allow whose answer is lost is never
executed by the tab that gave it; a list that answers late hides a window whose context
is newer; the dialog of a crystallization keeps the name of its first preview; the
preview lists what memory is removed, not what is retained; an input that is derived
with a default is never asked for though it is `required`.

## Proofs

Proved for every value of the constants, from the named assumptions beside them
(sentinels are not members of their sets; `agent.relay` is denied by default; a policy
file found at the start has one answer for a scope, which `UniqueAnswers` shows of every
file the broker writes; a log found at the start is a list; the contexts found at the
start are such as the service makes or ships, which is what the invariants show of every
context it adds). Every invariant and every action property that a run checks has its
theorem.

`PermissionBrokerProofs`:

* `BrokerInvariant`: `Spec => []BrokerInv`. The properties are not inductive by
  themselves. Unique answers need the same of the file and of every snapshot on
  its way to the file (`TablesUnique`); that a relay is never asked needs the
  default and the tables together; the gate needs that a request with a run behind
  it is not pending and that a used id stays used (`HistoryConsistent`); the taint
  needs every relay that ran since the start to be in the ledger
  (`RelaysRecorded`). `BrokerInv` is their conjunction; one lemma per part, one
  step per action.
* From it, type correctness, `UniqueAnswers`, `RelayNeverAsked`, and the action
  properties `DenyWins`, `RevokedGrantNeverRuns` and `NoLaunderedGrant`: with any
  number of overlapping calls.
* `BrokerImplementsConsentGate`: `Init` maps to `Gate!Init` and each action to a step of
  the gate or a stutter, by cases on the request it touches.
* Four more, each with what it needs besides, and for every overlap of calls:
  * `EndedActionsNeverRunAgain`: `RunsInv` says that a request still allowed has been
    started as often as it is being run (`ActingOn`), because the first run that ends
    takes the allowance with it; a second start therefore has no ended run behind it.
    That no call serves two requests and ids are not reused is in `BrokerInv`.
  * `OutcomesAreNotHidden`: by cases on the actions, which write a status.
  * `NoRelayAfterARelay`: from the ledger (`RelaysRecorded`) and the policy of a start.
  * `AuditTrailHasBothSteps`: when the disk does not fail and every
    phase is kept. `LogInv` says which rows a call past its await has still to write.

`BrokerClientsProofs`, the relay: `SystemRefinesBroker` (clients only call the broker), hence
`BrokerInv` in the composition; then `RelayInvariant`, whose parts say that
whatever is or was allowed is in `granted` and that a loop past its first check
carries a capability that may be relayed; `FailsClosed` follows.

`ContextServiceProofs`: every call, whatever it asks for, changes the cache to some
table and queues the write of that table (`Changes`); one lemma per operation shows
it, and the rest is proved once of `Changes` and of the steps of the chain.

* `ServiceInvariant`: `Spec => []ServiceInv`. That an answered change is on disk is
  not inductive by itself: the writes must stand on the chain in the order of their
  versions, all later than the file and none later than the cache
  (`ChainInOrder`), and a process that is not serving holds no call and no write
  (`ProcessConsistent`). That made contexts are clean needs the same of everything
  that may yet become a context: the file, the tables on the chain and the
  documents calls hold over an await (`EverythingAccounted`).
* From it, `AnsweredChangesSurvive` and `MadeContextsAreClean`.
* `FileIsCurrentAtRest` adds that the last write of the chain is the cache
  (`ChainEndsInCache`) and that every write has a call that waits for it
  (`WritesAwaited`). It is stated for `~FileMayRot`: when a start drops entries it
  cannot validate, the cache differs from the file until the next put.
* `OnlyCrystallizeLosesEvents` is the action property: an operation that writes back what
  it read appends one version greater than all in the log, and what `MAX_EVENTS` cuts off
  is the oldest (`CapKeepsNewest`). It needs that logs are finite sets of versions up to
  the cache's own, which `EverythingAccounted` says.

`BrokerClientsProofs`, dictation: `PageRefinesBroker`, hence `BrokerInv`; then `DictationInvariant`,
whose parts say that no two utterances have one request (`OwnRequests`), that the
call which serves an utterance carries its request and is disturbed by nobody else,
and that an answer `executed` comes after its audit row (`UtteranceConsistent`).
`MicrophoneIsAuthorised` follows, for calls that overlap, are lost, and brokers that
restart; `PageHears` and `NoMicrophoneAfterLeaving` are proved by cases on the steps.
From the two refinements, whatever is proved of the broker for every overlap holds with
either client (`ClientsKeepTheGate`, `ClientsLaunderNothing`).

`AgentRunProofs`: `AgentInvariant`. A `done` that was yielded is in the outbox before it
is in the stream, so both are followed together: a provider that is about to return
has one in either (`DoneIsComing`), and with OpenClaw and the mock nothing is yielded
after it (`DoneComesLast`). Where the provider stands tells which it is and what it
holds of the socket (`Standing`, `SocketIsHeld`); a hello is in the queue only if the
gateway accepted (`Unaccepted`). `StreamsAreTerminated`, `SessionsAreReleased` and
`HelloComesFirst` follow, for any number of frames. `NoAnswerIsLost` follows the number
of a frame from the queue to the stream: what is unread is the end of what has come
(`Unread`), what was read is streamed, in the call the bridge makes, or in the outbox
(`Dealt`), and along these numbers grow (`InOrder`, `Behind`).

`ProviderSetupProofs`: `SetupInvariant`. A call reaches the state file only through its
onboarding and the credential file only past the last refusal, which gives
`ConfiguredAfterOnboarding` and `RefusalsAreClean`. For `SuccessesAreWhole` the last
call, when it began alone, is followed from file to file: nobody else can write,
because no call was running when it came and none came after it.

`ShellProofs`, the surface: `ShellInvariant` is the types, `ExecuteFollowsItsAllow` and
`AllowsLast`: what a click of this tab allowed left `pending` in that step and is allowed or
executed from then on. A second click of this tab on it therefore finds nothing pending,
and an execute is counted only in a step that does.

`ShellProofs`, the desktop: `DesktopInvariant`. Each case of the reducer keeps one window
for an id and no two at one height, whatever ends of jobs open windows in between
(`WindowsAreStacked`). `windows.filter()` is a recursive function, so what it returns is
shown of the least length at which it could fail, not by an induction theorem. That the
title bars tell the truth is not inductive: the end of a run takes its context out of the
set, which silences another run in the same context. `JobsApart` excludes one: what is
left of a job is the rest of a plan in which a run follows the list that opens the window
of the context the job itself made (`Planned`), and the service never gives one context
to two jobs. `IndicatorsTellTheTruth` follows, for any number of jobs in flight.

`CrystallizationProofs`: `CrystallizationInvariant`. That a template shows nothing private
needs the same of what it was made from, link by link: every context is `Sound` (a
document that validates, no default that allows, and, if it is itself crystallized, texts
of its own only) and one the service made is `SoundNew` besides (no artifact, session or
permission, and no memory of a dropped kind). `PolicyFitsCatalog` shows of each component
type that the sanitizer's prop policy keeps or resets what the schema requires and keeps
no content it does not reset. `NothingPrivateEverTravels`, `NothingIsEverPreauthorized`
and `InterfacesStayValid` follow for chains of every length; `PreviewsAgree` compares the preview's derivation with that
of the template, one part after the other.

`ActionRunnerProofs`: `ActionInvariant`. The only writer of a file has in it what it has
written so far, so the file is one content when the last chunk is in (`FilesAreWhole`);
a deletion that found a file knows from there on that it is there or gone since
(`Knows`), whoever removes it, so it has something to answer for (`DeletionsAreReal`); a
writer whose file was deleted touches no path.

**Only model-checked:** liveness (`OutcomeReachesAuditLog`, `EveryApprovalSettles`,
`EveryCallAnswered`, `RunEnds`, `RunSettles`, `ConfirmSettles`,
`EveryExecutionAnswers`), because TLAPS has no ENABLED; and the counterexamples of the
table above, which are behaviours of small instances.

## Not modelled

Power loss and the page cache (a crash is a process that stops: what was written
is there); HTTP duplication (no client of the services retries a call); path
confinement and symbolic links in the sandbox; validation against the JSON schema;
the choice between the SQLite and the JSON store at the start, and the SQLite store,
whose writes are atomic and synchronous; a client of the bridge that goes away in the
middle of a stream; the texts of models, names and notices; vertical geometry;
rendering, translation and the demo contexts' contents; the boot scripts.

## Plan

Done: the broker with its gate, the relay, the context service, dictation, the agent
run, provider setup, the surface, the desktop, crystallization and action execution; a
theorem for each of their invariants and action properties. Left, in this order:

1. An abstract durable map that the context service implements but for
   crystallization, as `ConsentGate` is to the broker, with its refinement proved.
2. The choice of the store's driver at the start, with the contexts each of them has.
