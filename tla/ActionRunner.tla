---------------------------- MODULE ActionRunner ----------------------------
(***************************************************************************)
(* services/permission-broker: what executing a request does (actions.ts), *)
(* in the directory of one context (sandbox.ts).  Requests that were       *)
(* allowed run side by side and stop at every `await`, so the file system  *)
(* may have moved on between two steps of one of them.                     *)
(*                                                                         *)
(* A path is a model value with a parent; a file is the sequence of the    *)
(* chunks written to it, and the digest of a file is the file.  No         *)
(* symbolic link is in the sandbox: nothing here makes one.                *)
(***************************************************************************)
EXTENDS Naturals, Sequences, FiniteSets

CONSTANTS
    Calls,       \* the executions in flight at once (bound)
    Paths,       \* paths inside the sandbox
    Root,        \* the directory of the context
    ParentOf,    \* the directory a path is in: Root or a path
    Contents,    \* what agents ask to write: sequences of chunks
    CharsOf,     \* the length of a content in characters, in chunks
    MaxWrite,    \* MAX_WRITE_BYTES, compared with characters
    MaxRead,     \* MAX_READ_BYTES
    Hole,        \* a chunk that was never written
    Absent,
    Folder,
    MaxActions   \* executions explored (bound)

Chunk == {Hole} \union UNION {{c[i] : i \in DOMAIN c} : c \in Contents}

ASSUME ActionAssumption ==
    /\ Contents \subseteq Seq(Chunk)
    /\ Absent # Folder /\ \A none \in {Absent, Folder} : none \notin Seq(Chunk)
    /\ Root \notin Paths /\ ParentOf \in [Paths -> Paths \union {Root}]
    /\ MaxActions \in Nat

VARIABLES
    disk,      \* what is at each path
    calls,     \* the executions in flight
    actions,   \* history: executions so far
    disturbed, \* history: paths last written by two at once, or not to the end
    handed     \* history: what each relay that succeeded was approved for

history == <<actions, disturbed, handed>>
vars == <<disk, calls, history>>

IsFile(p) == disk[p] \notin {Absent, Folder}

(* RELAY_ROSTER *)
Roster == {"mock.analyst", "mock.editor"}

(* buildRelayEnvelope() accepts the two ends. *)
ValidEnds(from, to) == from \in Roster /\ to \in Roster /\ from # to

(* The capabilities that are simulated, or only recorded. *)
Unperformed == {"process.list", "network.fetch", "browser.open", "clipboard.read",
                "clipboard.write", "notifications.send", "audio.capture", "system.settings.read"}
OnFiles == {"files.read", "files.write", "files.delete", "agent.relay"}
Capabilities == Unperformed \union OnFiles \union {"process.execute"}

(* `orphan`: the file a write has open is no longer at its path.  `gone`,  *)
(* a history: a file was removed from the path since this was executed.    *)
Idle == [at |-> "idle", does |-> "process.list", path |-> Root, content |-> <<>>,
         written |-> 0, orphan |-> FALSE, gone |-> FALSE, ok |-> FALSE]

Goes(k, at) == calls' = [calls EXCEPT ![k].at = at]
Answers(k, ok) == calls' = [calls EXCEPT ![k].at = "answering", ![k].ok = ok]

-----------------------------------------------------------------------------
(* executeAction() is called. *)

Begin(k, does, p, content, at, ok) ==
    /\ calls[k].at = "idle"
    /\ actions < MaxActions
    /\ actions' = actions + 1
    /\ calls' = [calls EXCEPT ![k] = [at |-> at, does |-> does, path |-> p, content |-> content,
                                      written |-> 0, orphan |-> FALSE, gone |-> FALSE, ok |-> ok]]
    /\ UNCHANGED <<disk, disturbed, handed>>

(* Nothing is performed: a result that says so, or, for                    *)
(* process.execute, "there is no implementation. This is the point".       *)
Unperform(k, capability) ==
    /\ capability \notin OnFiles
    /\ Begin(k, capability, Root, <<>>, "answering", capability \in Unperformed)

(* The payload is malformed, or names a path outside the sandbox. *)
Malformed(k, capability) == Begin(k, capability, Root, <<>>, "answering", FALSE)

BeginOnFile(k, does, p) ==
    /\ does \in {"files.read", "files.delete"}
    /\ Begin(k, does, p, <<>>, "resolving", FALSE)

(* readString(payload, 'content', MAX_WRITE_BYTES) counts characters. *)
BeginWrite(k, p, content) ==
    Begin(k, "files.write", p, content,
          IF CharsOf[content] > MaxWrite THEN "answering" ELSE "resolving", FALSE)

(* The digest names the content that was approved. *)
BeginRelay(k, p, content, from, to) ==
    Begin(k, "agent.relay", p, content,
          IF ValidEnds(from, to) THEN "resolving" ELSE "answering", FALSE)

(* Sandbox.resolvePath(): the context's directory is made, and the path    *)
(* lies inside it.                                                         *)
Resolve(k) ==
    /\ calls[k].at = "resolving"
    /\ Goes(k, IF calls[k].does = "files.write" THEN "making" ELSE "checking")
    /\ UNCHANGED <<disk, history>>

(* Mutant: rm(path, {force: true}), and nobody looks before it. *)
CheckNothing(k) ==
    /\ calls[k].at = "checking"
    /\ IF calls[k].does = "files.delete" THEN Goes(k, "unlinking")
       ELSE IF IsFile(calls[k].path) THEN Goes(k, "reading") ELSE Answers(k, FALSE)
    /\ UNCHANGED <<disk, history>>

(* Sandbox.isFile() *)
Check(k) ==
    /\ calls[k].at = "checking"
    /\ IF IsFile(calls[k].path)
       THEN Goes(k, IF calls[k].does = "files.delete" THEN "removing" ELSE "reading")
       ELSE Answers(k, FALSE)
    /\ UNCHANGED <<disk, history>>

(* Mutant: the exception of a file system call reaches no handler. *)
ThrowsUncaught(k) ==
    /\ Goes(k, "lost")
    /\ UNCHANGED <<disk, history>>

(* "Never throws": the exception becomes a result. *)
Throws(k) ==
    /\ Answers(k, FALSE)
    /\ UNCHANGED <<disk, history>>

-----------------------------------------------------------------------------
(* files.read and agent.relay read the file as it is now. *)

Matches(call, found) == call.does = "agent.relay" => found = call.content

Read(k) ==
    /\ calls[k].at = "reading"
    /\ LET call == calls[k]
           found == disk[call.path]
           good == Len(found) <= MaxRead /\ Matches(call, found)
       IN  IF ~IsFile(call.path) THEN Throws(k)
           ELSE /\ calls' = [calls EXCEPT ![k].at = "answering", ![k].ok = good,
                                          ![k].content = found]
                /\ handed' = IF good /\ call.does = "agent.relay"
                             THEN [handed EXCEPT ![call.path] = call.content] ELSE handed
                /\ UNCHANGED <<disk, actions, disturbed>>

-----------------------------------------------------------------------------
(* files.delete calls rm(path, {recursive: false, force: false}) of Node:  *)
(* it looks at the path, refuses nothing and a directory, and then         *)
(* removes what is there by then, to which both are fine.                  *)

(* What is in the directory p, at any depth. *)
Below(p) ==
    {q \in Paths : \A S \in SUBSET Paths :
        (\A x \in Paths : ParentOf[x] \in S \union {p} => x \in S) => q \in S}

(* Who has the file open goes on writing to a file that has no path. *)
Without(p) ==
    [other \in Calls |->
        IF IsFile(p) /\ calls[other].path = p
        THEN [calls[other] EXCEPT !.gone = TRUE,
                                  !.orphan = calls[other].orphan \/ calls[other].at = "writing"]
        ELSE calls[other]]

Lstat(k) ==
    /\ calls[k].at = "removing"
    /\ IF IsFile(calls[k].path)
       THEN Goes(k, "unlinking") /\ UNCHANGED <<disk, history>>
       ELSE Throws(k)

(* ENOENT is success; a directory goes after what is in it. *)
Unlink(k) ==
    /\ calls[k].at = "unlinking"
    /\ LET p == calls[k].path
       IN  \/ /\ disk[p] = Absent
              /\ Answers(k, TRUE)
              /\ UNCHANGED <<disk, history>>
           \/ \E q \in {p} \union Below(p) :
              /\ disk[q] # Absent /\ \A x \in Below(q) : disk[x] = Absent
              /\ disk' = [disk EXCEPT ![q] = Absent]
              /\ calls' = IF q # p THEN Without(q)
                          ELSE [Without(p) EXCEPT ![k].at = "answering", ![k].ok = TRUE]
              /\ UNCHANGED history

-----------------------------------------------------------------------------
(* files.write *)

IsFolder(p) == p = Root \/ disk[p] = Folder

(* mkdir(dirname(path), {recursive: true}) *)
MakeParent(k) ==
    /\ calls[k].at = "making"
    /\ LET above == {q \in Paths : calls[k].path \in Below(q)}
       IN  IF \E q \in above : IsFile(q) THEN Throws(k)
           ELSE /\ disk' = [q \in Paths |-> IF q \in above THEN Folder ELSE disk[q]]
                /\ Goes(k, "opening")
                /\ UNCHANGED history

Writers(p) == {k \in Calls : calls[k].at = "writing" /\ calls[k].path = p /\ ~calls[k].orphan}

(* Mutant: the file is opened without O_TRUNC. *)
OpenedAsItIs(p) == IF IsFile(p) THEN disk[p] ELSE <<>>

Opened(p) == <<>>

(* writeFile(): open(path, 'w') creates the file or empties it ... *)
Open(k) ==
    /\ calls[k].at = "opening"
    /\ LET p == calls[k].path
       IN  IF disk[p] = Folder \/ ~IsFolder(ParentOf[p]) THEN Throws(k)
           ELSE /\ disk' = [disk EXCEPT ![p] = Opened(p)]
                /\ disturbed' = IF Writers(p) = {} THEN disturbed \ {p} ELSE disturbed \union {p}
                /\ Goes(k, "writing")
                /\ UNCHANGED <<actions, handed>>

(* ... and the chunks follow, each where the writer left off, ... *)
Overlaid(file, i, chunk) ==
    [j \in 1 .. (IF Len(file) > i THEN Len(file) ELSE i) |->
        IF j = i THEN chunk ELSE IF j <= Len(file) THEN file[j] ELSE Hole]

WriteChunk(k) ==
    /\ calls[k].at = "writing"
    /\ LET call == calls[k]
           i == call.written + 1
       IN  /\ i <= Len(call.content)
           /\ calls' = [calls EXCEPT ![k].written = i]
           /\ disk' = IF call.orphan THEN disk
                      ELSE [disk EXCEPT ![call.path] = Overlaid(@, i, call.content[i])]
    /\ UNCHANGED history

(* ... until all of it is written. *)
Close(k) ==
    /\ calls[k].at = "writing"
    /\ calls[k].written = Len(calls[k].content)
    /\ Answers(k, TRUE)
    /\ UNCHANGED <<disk, history>>

(* Any call of the file system may fail: no space, no descriptor, no       *)
(* permission.  What was truncated or half written stays so.               *)
FileSystemFails(k) ==
    /\ calls[k].at \in {"resolving", "making", "opening", "writing", "reading", "removing",
                      "unlinking"}
    /\ IF calls[k].at = "writing" /\ ~calls[k].orphan
       THEN /\ disturbed' = disturbed \union {calls[k].path}
            /\ Answers(k, FALSE)
            /\ UNCHANGED <<disk, actions, handed>>
       ELSE Throws(k)

(* The broker records the outcome and answers. *)
Answer(k) ==
    /\ calls[k].at = "answering"
    /\ calls' = [calls EXCEPT ![k] = Idle]
    /\ UNCHANGED <<disk, history>>

-----------------------------------------------------------------------------
Init ==
    /\ disk \in [Paths -> {Absent}]
    /\ calls = [k \in Calls |-> Idle]
    /\ actions = 0
    /\ disturbed = {}
    /\ handed = [p \in Paths |-> Absent]

Execute(k) ==
    \/ \E capability \in Capabilities : Unperform(k, capability) \/ Malformed(k, capability)
    \/ \E p \in Paths :
        \/ \E does \in OnFiles : BeginOnFile(k, does, p)
        \/ \E content \in Contents :
            \/ BeginWrite(k, p, content)
            \/ \E from, to \in Roster : BeginRelay(k, p, content, from, to)

Proceed(k) ==
    \/ Resolve(k) \/ Check(k) \/ Read(k) \/ Lstat(k) \/ Unlink(k)
    \/ MakeParent(k) \/ Open(k) \/ WriteChunk(k) \/ Close(k)
    \/ Answer(k)

Next == \E k \in Calls : Execute(k) \/ Proceed(k) \/ FileSystemFails(k)

(* A pending file operation completes or fails, and the code after it runs. *)
Fairness == \A k \in Calls : WF_vars(Proceed(k) \/ FileSystemFails(k))

Spec == Init /\ [][Next]_vars /\ Fairness

-----------------------------------------------------------------------------
(* Properties. *)

Ats == {"idle", "resolving", "checking", "reading", "removing", "unlinking", "making",
        "opening", "writing", "answering"}

CallState == [at : Ats, does : Capabilities, path : Paths \union {Root}, content : Seq(Chunk),
              written : Nat, orphan : BOOLEAN, gone : BOOLEAN, ok : BOOLEAN]

ActionTypeOK ==
    /\ disk \in [Paths -> {Absent, Folder} \union Seq(Chunk)]
    /\ calls \in [Calls -> CallState]
    /\ actions \in 0..MaxActions
    /\ disturbed \subseteq Paths
    /\ handed \in [Paths -> {Absent} \union Seq(Chunk)]

(* The result of a deletion tells "whether something actually happened"    *)
(* (actions.ts): one that answers "Deleted" had a file to delete, which    *)
(* was removed from its path after it was executed - not always by its own *)
(* rm, which is as content to find that another was faster, and not always *)
(* the file its caller knew.                                               *)
EveryDeletionIsReal ==
    \A k \in Calls :
        calls[k].at = "answering" /\ calls[k].does = "files.delete" /\ calls[k].ok
            => calls[k].gone

(* A file nobody is writing holds one whole content of one request, but    *)
(* where two requests wrote it at once, or a write failed half way.        *)
SettledFilesAreWhole ==
    \A p \in Paths :
        IsFile(p) /\ Writers(p) = {} /\ p \notin disturbed => disk[p] \in Contents

(* "Never throws [...] An exception escaping here would take down a        *)
(* request the user is watching" (actions.ts): every execution is          *)
(* answered, whatever fails and whatever the others do to its files.       *)
EveryExecutionAnswers == \A k \in Calls : calls[k].at # "idle" ~> calls[k].at = "idle"

(* "Files written into the sandbox are capped" at MAX_WRITE_BYTES          *)
(* (actions.ts), which is the most files.read will read back.              *)
FilesWithinTheCap == \A p \in Paths : IsFile(p) => Len(disk[p]) <= MaxWrite

(* "An artifact swapped between approval and read fails the check"         *)
(* (relay.ts): a files.read of what a relay handed over returns the bytes  *)
(* the relay was approved for.                                             *)
ReadsBack(k) ==
    /\ calls[k].at = "reading" /\ calls[k].does = "files.read"
    /\ calls'[k].at = "answering" /\ calls'[k].ok

HandedIsRead ==
    [][\A k \in Calls : ReadsBack(k) /\ handed[calls[k].path] # Absent
            => calls'[k].content = handed[calls[k].path]]_vars
=============================================================================
