------------------------- MODULE ActionRunnerProofs -------------------------
(***************************************************************************)
(* What executed requests leave in a context's directory, for any number   *)
(* of executions side by side, any paths and any contents.                 *)
(*                                                                         *)
(* The invariant ties the file to its writers: while one execution alone   *)
(* has it open, the file is what that execution has written so far, so it  *)
(* is one whole content when the last chunk is in.  A writer whose file    *)
(* was deleted is an orphan and touches no path any more.  A deletion that *)
(* found a file knows that it is there still, or gone since.               *)
(***************************************************************************)
EXTENDS ActionRunner, TLAPS

(* What an execution knows, whatever others do: where it stands tells what *)
(* it is about, and a writer that is no orphan has its file.               *)
Knows(call) ==
    /\ call.at \notin {"idle", "answering"} => call.path \in Paths
    /\ call.at \in {"resolving", "making", "opening"} => call.written = 0 /\ ~call.orphan
    /\ call.at \in {"making", "opening", "writing"} \/ (call.at = "resolving" /\ call.does = "files.write")
         => call.content \in Contents
    /\ call.at = "writing" => call.written <= Len(call.content)
    /\ call.at = "writing" /\ ~call.orphan => IsFile(call.path)
    /\ call.at \in {"reading", "making", "opening", "writing"} => call.does # "files.delete"
    /\ call.at \in {"removing", "unlinking"} => IsFile(call.path) \/ call.gone
    /\ call.at = "answering" /\ call.does = "files.delete" /\ call.ok => call.gone

SoFar(call) == [i \in 1..call.written |-> call.content[i]]

(* The file of one undisturbed writer, and of none.                        *)
Whole(p) ==
    p \notin disturbed =>
        /\ \A k \in Writers(p) : Writers(p) = {k} /\ disk[p] = SoFar(calls[k])
        /\ IsFile(p) /\ Writers(p) = {} => disk[p] \in Contents

ActionInv ==
    /\ ActionTypeOK
    /\ \A k \in Calls : Knows(calls[k])
    /\ \A p \in Paths : Whole(p)

-----------------------------------------------------------------------------
(* Sequences of chunks.                                                    *)

LEMMA FilesAreSequences ==
  ASSUME NEW s \in Seq(Chunk) PROVE s \notin {Absent, Folder}
  BY ActionAssumption

LEMMA ContentsAreSequences ==
  ASSUME NEW content \in Contents
  PROVE  /\ content \in Seq(Chunk)
         /\ \A i \in 1..Len(content) : content[i] \in Chunk
         /\ content = [i \in 1..Len(content) |-> content[i]]
<1>1. content \in Seq(Chunk)
  BY ActionAssumption
<1> QED BY <1>1

LEMMA OverlaidType ==
  ASSUME NEW file \in Seq(Chunk), NEW i \in Nat \ {0}, NEW chunk \in Chunk
  PROVE  Overlaid(file, i, chunk) \in Seq(Chunk)
<1>1. Hole \in Chunk
  BY DEF Chunk
<1> DEFINE n == IF Len(file) > i THEN Len(file) ELSE i
<1>2. n \in Nat
  OBVIOUS
<1>3. \A j \in 1..n : (IF j = i THEN chunk ELSE IF j <= Len(file) THEN file[j] ELSE Hole) \in Chunk
  BY <1>1
<1> HIDE DEF n
<1>4. [j \in 1..n |-> IF j = i THEN chunk ELSE IF j <= Len(file) THEN file[j] ELSE Hole] \in Seq(Chunk)
  BY <1>2, <1>3
<1> QED BY <1>4 DEF Overlaid, n

(* Where the writer left off, one chunk more.                              *)
LEMMA OverlaidGrows ==
  ASSUME NEW content \in Contents, NEW w \in Nat, w + 1 <= Len(content)
  PROVE  Overlaid([i \in 1..w |-> content[i]], w + 1, content[w + 1])
            = [i \in 1..(w + 1) |-> content[i]]
<1> DEFINE file == [i \in 1..w |-> content[i]]
<1>1. Len(content) \in Nat /\ content \in Seq(Chunk)
  BY ContentsAreSequences
<1>2. file \in Seq(Chunk) /\ Len(file) = w
  <2>1. \A i \in 1..w : content[i] \in Chunk
    BY <1>1, ContentsAreSequences
  <2> QED BY <2>1
<1>3. (IF Len(file) > w + 1 THEN Len(file) ELSE w + 1) = w + 1
  BY <1>2
<1>4. \A j \in 1..(w + 1) :
        (IF j = w + 1 THEN content[w + 1] ELSE IF j <= Len(file) THEN file[j] ELSE Hole)
          = content[j]
  BY <1>2
<1> HIDE DEF file
<1>5. Overlaid(file, w + 1, content[w + 1]) = [j \in 1..(w + 1) |-> content[j]]
  BY <1>3, <1>4 DEF Overlaid
<1> QED BY <1>5 DEF file

-----------------------------------------------------------------------------
LEMMA InitHolds == Init => ActionInv
<1> SUFFICES ASSUME Init PROVE ActionInv
  OBVIOUS
<1>1. Idle \in CallState
  BY DEF Idle, CallState, Ats, Capabilities, Unperformed
<1>2. ActionTypeOK
  BY <1>1, ActionAssumption DEF Init, ActionTypeOK
<1>3. \A k \in Calls : Knows(calls[k]) /\ calls[k].at = "idle"
  BY DEF Init, Idle, Knows
<1>4. \A p \in Paths : Writers(p) = {} /\ ~IsFile(p)
  BY <1>3 DEF Init, Writers, IsFile
<1> QED BY <1>2, <1>3, <1>4 DEF ActionInv, Whole, Init

(* A step of an execution that is no writer, or an orphan, and does not    *)
(* become a writer, leaves the files and who writes them alone.            *)
LEMMA AsideHolds ==
  ASSUME ActionInv, NEW k \in Calls, NEW new \in CallState,
         UNCHANGED <<disk, disturbed>>,
         calls' = [calls EXCEPT ![k] = new], actions' \in 0..MaxActions,
         handed' \in [Paths -> {Absent} \union Seq(Chunk)],
         calls[k].at # "writing" \/ calls[k].orphan,
         new.at # "writing", Knows(new)
  PROVE  ActionInv'
<1>1. calls \in [Calls -> CallState]
  BY DEF ActionInv, ActionTypeOK
<1>2. ActionTypeOK'
  BY <1>1 DEF ActionInv, ActionTypeOK
<1>3. \A j \in Calls : Knows(calls[j])'
  <2>1. \A j \in Calls : Knows(calls'[j])
    BY <1>1 DEF ActionInv
  <2> QED BY <2>1 DEF Knows, IsFile
<1>4. \A p \in Paths : Writers(p)' = Writers(p)
  BY <1>1 DEF Writers
<1>5. \A p \in Paths : \A j \in Writers(p) : calls'[j] = calls[j]
  BY <1>1 DEF Writers
<1>7. ASSUME NEW p \in Paths PROVE Whole(p)'
  <2>1. Whole(p)
    BY DEF ActionInv
  <2>2. \A j \in Writers(p) : SoFar(calls[j])' = SoFar(calls[j])
    BY <1>5 DEF SoFar
  <2> QED BY <1>4, <2>1, <2>2 DEF Whole, IsFile
<1> QED BY <1>2, <1>3, <1>7 DEF ActionInv

LEMMA MovesType ==
  ASSUME NEW call \in CallState, NEW at \in Ats, NEW ok \in BOOLEAN
  PROVE  /\ [call EXCEPT !.at = at] \in CallState
         /\ [call EXCEPT !.at = at, !.ok = ok] \in CallState
  BY DEF CallState

LEMMA ReadsType ==
  ASSUME NEW call \in CallState, NEW ok \in BOOLEAN, NEW found \in Seq(Chunk)
  PROVE  /\ [call EXCEPT !.at = "answering", !.ok = ok, !.content = found] \in CallState
         /\ [call EXCEPT !.at = "answering", !.ok = ok, !.content = found].at = "answering"
         /\ [call EXCEPT !.at = "answering", !.ok = ok, !.content = found].does = call.does
  BY DEF CallState, Ats

(* An execution begins; it knows what its request says.                    *)
LEMMA BeginHolds ==
  ASSUME ActionInv, NEW k \in Calls, NEW does \in Capabilities,
         NEW p \in Paths \union {Root}, NEW content \in Seq(Chunk),
         NEW at \in {"answering", "resolving"}, NEW ok \in BOOLEAN,
         at = "resolving" => p \in Paths,
         at = "resolving" /\ does = "files.write" => content \in Contents,
         ok => does # "files.delete",
         Begin(k, does, p, content, at, ok)
  PROVE  ActionInv'
<1> DEFINE new == [at |-> at, does |-> does, path |-> p, content |-> content,
                   written |-> 0, orphan |-> FALSE, gone |-> FALSE, ok |-> ok]
<1>1. new \in CallState /\ Knows(new) /\ new.at # "writing"
  BY DEF CallState, Ats, Knows
<1>2. /\ calls' = [calls EXCEPT ![k] = new] /\ calls[k].at = "idle"
      /\ actions < MaxActions /\ actions' = actions + 1
      /\ UNCHANGED <<disk, disturbed, handed>>
  BY DEF Begin
<1> HIDE DEF new
<1>3. actions' \in 0..MaxActions
  BY <1>2, ActionAssumption DEF ActionInv, ActionTypeOK
<1> QED BY <1>1, <1>2, <1>3, AsideHolds DEF ActionInv, ActionTypeOK

LEMMA ExecuteHolds ==
  ASSUME ActionInv, NEW k \in Calls, Execute(k)
  PROVE  ActionInv'
<1>1. <<>> \in Seq(Chunk) /\ Contents \subseteq Seq(Chunk) /\ OnFiles \subseteq Capabilities
  BY ActionAssumption DEF Capabilities
<1>2. ASSUME NEW capability \in Capabilities, Unperform(k, capability) PROVE ActionInv'
  <2>1. (capability \in Unperformed) \in BOOLEAN /\ capability # "files.delete"
    BY <1>2 DEF Unperform, OnFiles
  <2> QED BY <1>1, <1>2, <2>1, BeginHolds DEF Unperform
<1>3. ASSUME NEW capability \in Capabilities, Malformed(k, capability) PROVE ActionInv'
  BY <1>1, <1>3, BeginHolds DEF Malformed
<1>4. ASSUME NEW p \in Paths, NEW does \in OnFiles, BeginOnFile(k, does, p) PROVE ActionInv'
  <2>1. does \in Capabilities /\ does # "files.write"
    BY <1>1, <1>4 DEF BeginOnFile
  <2> QED BY <1>1, <1>4, <2>1, BeginHolds DEF BeginOnFile
<1>5. ASSUME NEW p \in Paths, NEW content \in Contents, BeginWrite(k, p, content) PROVE ActionInv'
  <2>1. "files.write" \in Capabilities
    BY DEF Capabilities, OnFiles
  <2> QED BY <1>1, <1>5, <2>1, BeginHolds DEF BeginWrite
<1>6. ASSUME NEW p \in Paths, NEW content \in Contents, NEW from \in Roster, NEW to \in Roster,
             BeginRelay(k, p, content, from, to)
      PROVE  ActionInv'
  <2>1. "agent.relay" \in Capabilities
    BY DEF Capabilities, OnFiles
  <2> QED BY <1>1, <1>6, <2>1, BeginHolds DEF BeginRelay
<1> QED BY <1>2, <1>3, <1>4, <1>5, <1>6 DEF Execute

(* The steps that only look, and the answer.                               *)
LEMMA LookingHolds ==
  ASSUME ActionInv, NEW k \in Calls, Resolve(k) \/ Check(k) \/ Answer(k)
  PROVE  ActionInv'
<1>1. calls[k] \in CallState /\ Knows(calls[k]) /\ actions \in 0..MaxActions
      /\ handed \in [Paths -> {Absent} \union Seq(Chunk)]
  BY DEF ActionInv, ActionTypeOK
<1>2. CASE Resolve(k)
  <2> DEFINE at == IF calls[k].does = "files.write" THEN "making" ELSE "checking"
             new == [calls[k] EXCEPT !.at = at]
  <2>1. at \in Ats /\ at \in {"making", "checking"}
    BY DEF Ats
  <2>2. new \in CallState /\ Knows(new) /\ new.at # "writing"
    <3>1. new \in CallState
      BY <1>1, <2>1, MovesType
    <3>2. /\ new.at = at /\ new.path = calls[k].path /\ new.content = calls[k].content
          /\ new.written = calls[k].written /\ new.orphan = calls[k].orphan
      BY <1>1 DEF CallState
    <3> QED BY <1>1, <1>2, <2>1, <3>1, <3>2 DEF Knows, Resolve
  <2> HIDE DEF new
  <2>3. calls' = [calls EXCEPT ![k] = new] /\ calls[k].at # "writing"
    BY <1>1, <1>2 DEF Resolve, Goes, new, ActionInv, ActionTypeOK
  <2> QED BY <1>1, <1>2, <2>2, <2>3, AsideHolds DEF Resolve, history
<1>3. CASE Check(k)
  <2>1. PICK new \in CallState :
            /\ calls' = [calls EXCEPT ![k] = new] /\ Knows(new) /\ new.at # "writing"
    <3>1. CASE IsFile(calls[k].path)
      <4> DEFINE at == IF calls[k].does = "files.delete" THEN "removing" ELSE "reading"
                 new == [calls[k] EXCEPT !.at = at]
      <4>1. new \in CallState
        BY <1>1, MovesType DEF Ats
      <4>2. Knows(new) /\ new.at # "writing"
        BY <1>1, <1>3, <3>1 DEF CallState, Knows, Check
      <4>3. calls' = [calls EXCEPT ![k] = new]
        BY <1>3, <3>1 DEF Check, Goes, ActionInv, ActionTypeOK
      <4> HIDE DEF new
      <4> QED BY <4>1, <4>2, <4>3
    <3>2. CASE ~IsFile(calls[k].path)
      <4> DEFINE new == [calls[k] EXCEPT !.at = "answering", !.ok = FALSE]
      <4>1. new \in CallState
        BY <1>1, MovesType DEF Ats
      <4>2. Knows(new) /\ new.at # "writing"
        BY <1>1 DEF CallState, Knows
      <4>3. calls' = [calls EXCEPT ![k] = new]
        BY <1>3, <3>2 DEF Check, Answers, ActionInv, ActionTypeOK
      <4> HIDE DEF new
      <4> QED BY <4>1, <4>2, <4>3
    <3> QED BY <3>1, <3>2
  <2> QED BY <1>1, <1>3, <2>1, AsideHolds DEF Check, history
<1>4. CASE Answer(k)
  <2>1. Idle \in CallState /\ Knows(Idle) /\ Idle.at # "writing"
    BY DEF Idle, CallState, Ats, Capabilities, Unperformed, Knows
  <2> QED BY <1>1, <1>4, <2>1, AsideHolds DEF Answer, history
<1> QED BY <1>2, <1>3, <1>4

(* A failure of one who is not writing to a path.                          *)
LEMMA ThrowsHolds ==
  ASSUME ActionInv, NEW k \in Calls, Throws(k), calls[k].at # "writing" \/ calls[k].orphan
  PROVE  ActionInv'
<1> DEFINE new == [calls[k] EXCEPT !.at = "answering", !.ok = FALSE]
<1>1. calls[k] \in CallState /\ actions \in 0..MaxActions
      /\ handed \in [Paths -> {Absent} \union Seq(Chunk)]
  BY DEF ActionInv, ActionTypeOK
<1>2. new \in CallState
  BY <1>1, MovesType DEF Ats
<1>3. Knows(new) /\ new.at # "writing"
  BY <1>1 DEF CallState, Knows
<1>4. calls' = [calls EXCEPT ![k] = new]
  BY DEF Throws, Answers, ActionInv, ActionTypeOK
<1> HIDE DEF new
<1> QED BY <1>1, <1>2, <1>3, <1>4, AsideHolds DEF Throws, history

LEMMA ReadHolds ==
  ASSUME ActionInv, NEW k \in Calls, Read(k)
  PROVE  ActionInv'
<1> DEFINE p == calls[k].path
           found == disk[p]
           good == Len(found) <= MaxRead /\ Matches(calls[k], found)
           new == [calls[k] EXCEPT !.at = "answering", !.ok = good, !.content = found]
<1>1. /\ calls[k] \in CallState /\ calls[k].at = "reading" /\ p \in Paths
      /\ calls[k].does # "files.delete"
      /\ handed \in [Paths -> {Absent} \union Seq(Chunk)]
  BY DEF ActionInv, ActionTypeOK, Read, Knows
<1>2. CASE ~IsFile(p)
  BY <1>1, <1>2, ThrowsHolds DEF Read
<1>3. CASE IsFile(p)
  <2>1. found \in Seq(Chunk)
    BY <1>1, <1>3 DEF ActionInv, ActionTypeOK, IsFile
  <2>2. good \in BOOLEAN
    OBVIOUS
  <2>3. /\ calls' = [calls EXCEPT ![k] = new]
        /\ handed' = IF good /\ calls[k].does = "agent.relay"
                     THEN [handed EXCEPT ![p] = calls[k].content] ELSE handed
        /\ UNCHANGED <<disk, actions, disturbed>>
    BY <1>3, Zenon DEF Read
  <2> HIDE DEF good
  <2>4. new \in CallState /\ new.at = "answering" /\ new.does = calls[k].does
    <3>1. \A call \in CallState, ok \in BOOLEAN, chunks \in Seq(Chunk) :
             LET read == [call EXCEPT !.at = "answering", !.ok = ok, !.content = chunks]
             IN  read \in CallState /\ read.at = "answering"
      BY ReadsType
    <3>0. \A call \in CallState, ok \in BOOLEAN, chunks \in Seq(Chunk) :
             [call EXCEPT !.at = "answering", !.ok = ok, !.content = chunks].does = call.does
      BY ReadsType
    <3>2. calls[k] \in CallState /\ good \in BOOLEAN /\ found \in Seq(Chunk)
      BY <1>1, <2>1, <2>2
    <3> HIDE DEF found
    <3>3. new \in CallState /\ new.at = "answering"
      BY <3>1, <3>2, Zenon
    <3>4. new.does = calls[k].does
      BY <3>0, <3>2, Zenon
    <3> QED BY <3>3, <3>4
  <2> HIDE DEF new
  <2>5. new \in CallState /\ Knows(new) /\ new.at # "writing"
    BY <1>1, <2>4 DEF Knows
  <2>6. handed' \in [Paths -> {Absent} \union Seq(Chunk)]
    <3>1. calls[k].content \in Seq(Chunk)
      BY <1>1 DEF CallState
    <3> QED BY <1>1, <2>3, <3>1
  <2>7. actions' \in 0..MaxActions
    BY <2>3 DEF ActionInv, ActionTypeOK
  <2> QED BY <1>1, <2>3, <2>5, <2>6, <2>7, AsideHolds
<1> QED BY <1>2, <1>3

-----------------------------------------------------------------------------
(* The steps that change files.                                            *)

(* A path whose file and writers a step leaves alone stays whole.          *)
LEMMA WholeElsewhere ==
  ASSUME NEW q \in Paths, Whole(q), disk'[q] = disk[q], Writers(q)' = Writers(q),
         q \in disturbed' <=> q \in disturbed,
         \A j \in Writers(q) : calls'[j] = calls[j]
  PROVE  Whole(q)'
<1>1. \A j \in Writers(q) : SoFar(calls[j])' = SoFar(calls[j])
  BY DEF SoFar
<1> QED BY <1>1 DEF Whole, IsFile

(* Who writes where, after a step of execution k alone.                    *)
LEMMA WritersAfter ==
  ASSUME calls \in [Calls -> CallState], NEW k \in Calls, NEW new \in CallState,
         calls' = [calls EXCEPT ![k] = new]
  PROVE  /\ calls' \in [Calls -> CallState] /\ calls'[k] = new
         /\ \A j \in Calls : j # k => calls'[j] = calls[j]
         /\ \A q \in Paths : k \in Writers(q) <=>
               calls[k].at = "writing" /\ calls[k].path = q /\ ~calls[k].orphan
         /\ \A q \in Paths : k \in Writers(q)' <=>
               new.at = "writing" /\ new.path = q /\ ~new.orphan
         /\ \A q \in Paths : k \notin Writers(q) /\ k \notin Writers(q)' =>
               Writers(q)' = Writers(q) /\ \A j \in Writers(q) : calls'[j] = calls[j]
         /\ \A q \in Paths : k \in Writers(q)' => Writers(q)' = Writers(q) \union {k}
         /\ \A q \in Paths : k \notin Writers(q)' => Writers(q)' = Writers(q) \ {k}
<1>1. /\ calls' \in [Calls -> CallState] /\ calls'[k] = new
      /\ \A j \in Calls : j # k => calls'[j] = calls[j]
  OBVIOUS
<1>2. \A q \in Paths : Writers(q)' \ {k} = Writers(q) \ {k}
  BY <1>1 DEF Writers
<1>3. \A q \in Paths :
        /\ k \in Writers(q) <=> calls[k].at = "writing" /\ calls[k].path = q /\ ~calls[k].orphan
        /\ k \in Writers(q)' <=> new.at = "writing" /\ new.path = q /\ ~new.orphan
  BY <1>1 DEF Writers
<1>4. ASSUME NEW q \in Paths, k \notin Writers(q), NEW j \in Writers(q)
      PROVE  calls'[j] = calls[j]
  BY <1>1, <1>4 DEF Writers
<1>5. ASSUME NEW q \in Paths
      PROVE  /\ k \notin Writers(q) /\ k \notin Writers(q)' => Writers(q)' = Writers(q)
             /\ k \in Writers(q)' => Writers(q)' = Writers(q) \union {k}
             /\ k \notin Writers(q)' => Writers(q)' = Writers(q) \ {k}
  BY <1>2
<1> QED BY <1>1, <1>3, <1>4, <1>5

LEMMA LstatHolds ==
  ASSUME ActionInv, NEW k \in Calls, Lstat(k)
  PROVE  ActionInv'
<1> DEFINE new == [calls[k] EXCEPT !.at = "unlinking"]
<1>1. /\ calls[k] \in CallState /\ Knows(calls[k]) /\ calls[k].at = "removing"
      /\ actions \in 0..MaxActions /\ handed \in [Paths -> {Absent} \union Seq(Chunk)]
  BY DEF ActionInv, ActionTypeOK, Lstat
<1>2. CASE ~IsFile(calls[k].path)
  BY <1>1, <1>2, ThrowsHolds DEF Lstat
<1>3. CASE IsFile(calls[k].path)
  <2>1. new \in CallState
    BY <1>1, MovesType DEF Ats
  <2>2. Knows(new) /\ new.at # "writing"
    BY <1>1, <1>3 DEF CallState, Knows
  <2>3. calls' = [calls EXCEPT ![k] = new] /\ UNCHANGED <<disk, history>>
    BY <1>3 DEF Lstat, Goes, ActionInv, ActionTypeOK
  <2> HIDE DEF new
  <2> QED BY <1>1, <2>1, <2>2, <2>3, AsideHolds DEF history
<1> QED BY <1>2, <1>3

(* What another execution is after a removal from p.                       *)
LEMMA WithoutIt ==
  ASSUME calls \in [Calls -> CallState], NEW p \in Paths, NEW j \in Calls
  PROVE  /\ Without(p)[j] \in CallState
         /\ Without(p)[j].at = calls[j].at /\ Without(p)[j].path = calls[j].path
         /\ Without(p)[j].does = calls[j].does /\ Without(p)[j].ok = calls[j].ok
         /\ Without(p)[j].content = calls[j].content
         /\ Without(p)[j].written = calls[j].written
         /\ calls[j].gone => Without(p)[j].gone
         /\ ~(IsFile(p) /\ calls[j].path = p) => Without(p)[j] = calls[j]
         /\ IsFile(p) /\ calls[j].path = p =>
              /\ Without(p)[j].gone
              /\ Without(p)[j].orphan <=> calls[j].orphan \/ calls[j].at = "writing"
<1>1. calls[j] \in CallState
  OBVIOUS
<1>2. CASE ~(IsFile(p) /\ calls[j].path = p)
  <2>1. Without(p)[j] = calls[j]
    BY <1>2 DEF Without
  <2> QED BY <1>1, <1>2, <2>1
<1>3. CASE IsFile(p) /\ calls[j].path = p
  <2> DEFINE orphan == calls[j].orphan \/ calls[j].at = "writing"
             new == [calls[j] EXCEPT !.gone = TRUE, !.orphan = orphan]
  <2>1. Without(p)[j] = new
    BY <1>3 DEF Without
  <2>2. orphan \in BOOLEAN
    BY <1>1 DEF CallState
  <2> HIDE DEF orphan
  <2>3. /\ new \in CallState /\ new.gone /\ new.orphan = orphan
        /\ new.at = calls[j].at /\ new.path = calls[j].path /\ new.does = calls[j].does
        /\ new.ok = calls[j].ok /\ new.content = calls[j].content
        /\ new.written = calls[j].written
    BY <1>1, <2>2 DEF CallState
  <2> QED BY <1>3, <2>1, <2>3 DEF orphan
<1> QED BY <1>2, <1>3

(* Something is removed from p by k, and nothing else happens; k is no     *)
(* writer, and knows afterwards what it should.                            *)
LEMMA RemovalHolds ==
  ASSUME ActionInv, NEW k \in Calls, NEW p \in Paths,
         disk' = [disk EXCEPT ![p] = Absent], UNCHANGED history,
         calls' \in [Calls -> CallState],
         \A j \in Calls : j # k => calls'[j] = Without(p)[j],
         calls[k].at # "writing", calls'[k].at # "writing", Knows(calls[k])'
  PROVE  ActionInv'
<1>1. /\ calls \in [Calls -> CallState]
      /\ disk \in [Paths -> {Absent, Folder} \union Seq(Chunk)]
      /\ \A j \in Calls : Knows(calls[j])
  BY DEF ActionInv, ActionTypeOK
<1>2. /\ ~IsFile(p)' /\ \A q \in Paths : q # p => disk'[q] = disk[q]
      /\ disk' \in [Paths -> {Absent, Folder} \union Seq(Chunk)]
  <2>1. disk'[p] = Absent /\ \A q \in Paths : q # p => disk'[q] = disk[q]
    BY <1>1
  <2>2. disk' \in [Paths -> {Absent, Folder} \union Seq(Chunk)]
    BY <1>1
  <2> QED BY <2>1, <2>2 DEF IsFile
<1>3. ActionTypeOK'
  BY <1>2 DEF ActionInv, ActionTypeOK, history
<1>4. ASSUME NEW j \in Calls PROVE Knows(calls[j])'
  <2>1. CASE j = k
    BY <2>1
  <2>2. CASE j # k
    <3>1. Knows(calls[j]) /\ calls'[j] = Without(p)[j]
      BY <1>1, <2>2
    <3>2. CASE IsFile(p) /\ calls[j].path = p
      <4>1. /\ calls'[j].at = calls[j].at /\ calls'[j].path = p /\ calls'[j].gone
            /\ calls'[j].does = calls[j].does /\ calls'[j].written = calls[j].written
            /\ calls'[j].content = calls[j].content
            /\ calls'[j].orphan <=> calls[j].orphan \/ calls[j].at = "writing"
        BY <1>1, <3>1, <3>2, WithoutIt
      <4> QED BY <3>1, <3>2, <4>1 DEF Knows
    <3>3. CASE ~(IsFile(p) /\ calls[j].path = p)
      <4>1. calls'[j] = calls[j]
        BY <1>1, <3>1, <3>3, WithoutIt
      <4>2. calls[j].path \in Paths => (IsFile(calls[j].path)' <=> IsFile(calls[j].path))
        BY <1>2, <3>3, <4>1 DEF IsFile
      <4>3. (calls[j].at \in {"writing", "removing", "unlinking"}) => calls[j].path \in Paths
        BY <3>1 DEF Knows
      <4> QED BY <3>1, <4>1, <4>2, <4>3 DEF Knows, IsFile
    <3> QED BY <3>2, <3>3
  <2> QED BY <2>1, <2>2
<1>5. /\ Writers(p)' = {}
      /\ \A q \in Paths : q # p => /\ Writers(q)' = Writers(q)
                                  /\ \A j \in Writers(q) : calls'[j] = calls[j]
  <2>1. ASSUME NEW j \in Calls
        PROVE  /\ ~(calls'[j].at = "writing" /\ calls'[j].path = p /\ ~calls'[j].orphan)
               /\ \A q \in Paths : q # p =>
                    /\ (calls'[j].at = "writing" /\ calls'[j].path = q /\ ~calls'[j].orphan)
                         <=> (calls[j].at = "writing" /\ calls[j].path = q /\ ~calls[j].orphan)
                    /\ calls[j].at = "writing" /\ calls[j].path = q => calls'[j] = calls[j]
    <3>1. CASE j = k
      BY <3>1
    <3>2. CASE j # k
      <4>1. calls'[j] = Without(p)[j] /\ Knows(calls[j])
        BY <1>1, <3>2
      <4>2. CASE IsFile(p) /\ calls[j].path = p
        <5>1. /\ calls'[j].at = calls[j].at /\ calls'[j].path = p
              /\ calls'[j].orphan <=> calls[j].orphan \/ calls[j].at = "writing"
          BY <1>1, <4>1, <4>2, WithoutIt
        <5> QED BY <4>2, <5>1
      <4>3. CASE ~(IsFile(p) /\ calls[j].path = p)
        <5>1. calls'[j] = calls[j]
          BY <1>1, <4>1, <4>3, WithoutIt
        <5> QED BY <4>1, <4>3, <5>1 DEF Knows
      <4> QED BY <4>2, <4>3
    <3> QED BY <3>1, <3>2
  <2>2. Writers(p)' = {}
    BY <2>1 DEF Writers
  <2>3. ASSUME NEW q \in Paths, q # p PROVE Writers(q)' = Writers(q)
    BY <2>1, <2>3 DEF Writers
  <2>4. ASSUME NEW q \in Paths, q # p, NEW j \in Writers(q) PROVE calls'[j] = calls[j]
    BY <2>1, <2>4 DEF Writers
  <2> QED BY <2>2, <2>3, <2>4
<1>6. ASSUME NEW q \in Paths PROVE Whole(q)'
  <2>1. CASE q = p
    BY <1>2, <1>5, <2>1 DEF Whole
  <2>2. CASE q # p
    BY <1>2, <1>5, <2>2, WholeElsewhere DEF ActionInv, history
  <2> QED BY <2>1, <2>2
<1> QED BY <1>3, <1>4, <1>6 DEF ActionInv

LEMMA UnlinkHolds ==
  ASSUME ActionInv, NEW k \in Calls, Unlink(k)
  PROVE  ActionInv'
<1>0. PICK p \in Paths : p = calls[k].path
  BY DEF ActionInv, ActionTypeOK, Unlink, Knows
<1>1. /\ calls \in [Calls -> CallState] /\ calls[k].at = "unlinking" /\ p = calls[k].path
      /\ calls[k] \in CallState /\ Knows(calls[k])
      /\ actions \in 0..MaxActions /\ handed \in [Paths -> {Absent} \union Seq(Chunk)]
      /\ disk \in [Paths -> {Absent, Folder} \union Seq(Chunk)]
  BY <1>0 DEF ActionInv, ActionTypeOK, Unlink
<1>2. CASE disk[p] = Absent /\ Answers(k, TRUE) /\ UNCHANGED <<disk, history>>
  <2> DEFINE new == [calls[k] EXCEPT !.at = "answering", !.ok = TRUE]
  <2>1. new \in CallState
    BY <1>1, MovesType DEF Ats
  <2>2. Knows(new) /\ new.at # "writing"
    BY <1>1, <1>2 DEF CallState, Knows, IsFile
  <2>3. calls' = [calls EXCEPT ![k] = new]
    BY <1>2 DEF Answers, ActionInv, ActionTypeOK
  <2> HIDE DEF new
  <2> QED BY <1>1, <1>2, <2>1, <2>2, <2>3, AsideHolds DEF history
<1>3. ASSUME NEW q \in {p} \union Below(p),
             disk' = [disk EXCEPT ![q] = Absent], UNCHANGED history,
             calls' = IF q # p THEN Without(q)
                      ELSE [Without(p) EXCEPT ![k].at = "answering", ![k].ok = TRUE]
      PROVE  ActionInv'
  <2>1. q \in Paths
    BY DEF Below
  <2>2. CASE q # p
    <3>1. calls' = Without(q)
      BY <1>3, <2>2
    <3>2. calls' \in [Calls -> CallState] /\ calls'[k] = calls[k]
      <4>1. \A j \in Calls : Without(q)[j] \in CallState
        BY <1>1, <2>1, WithoutIt
      <4>2. Without(q)[k] = calls[k]
        BY <1>1, <2>1, <2>2, WithoutIt
      <4>3. Without(q) = [j \in Calls |-> Without(q)[j]]
        BY DEF Without
      <4> QED BY <3>1, <4>1, <4>2, <4>3
    <3>3. disk'[p] = disk[p]
      BY <1>1, <1>3, <2>1, <2>2
    <3>4. Knows(calls[k])'
      <4>1. IsFile(calls[k].path)' <=> IsFile(calls[k].path)
        BY <1>1, <3>2, <3>3 DEF IsFile
      <4> QED BY <1>1, <3>2, <4>1 DEF Knows
    <3> QED BY <1>1, <1>3, <2>1, <3>1, <3>2, <3>4, RemovalHolds
  <2>3. CASE q = p
    <3> DEFINE new == [Without(p)[k] EXCEPT !.at = "answering", !.ok = TRUE]
    <3>1. /\ Without(p)[k] \in CallState /\ Without(p)[k].gone
          /\ Without(p)[k].path = p
      BY <1>1, WithoutIt DEF Knows
    <3>2. new \in CallState /\ new.at = "answering" /\ new.gone
      <4>1. new \in CallState
        BY <3>1, MovesType DEF Ats
      <4> QED BY <3>1, <4>1 DEF CallState
    <3>3. /\ calls' \in [Calls -> CallState] /\ calls'[k] = new
          /\ \A j \in Calls : j # k => calls'[j] = Without(p)[j]
      <4>1. \A j \in Calls : Without(p)[j] \in CallState
        BY <1>1, WithoutIt
      <4>2. Without(p) = [j \in Calls |-> Without(p)[j]]
        BY DEF Without
      <4>3. calls' = [Without(p) EXCEPT ![k] = new]
        BY <1>3, <2>3, <4>2
      <4> HIDE DEF new
      <4> QED BY <3>2, <4>1, <4>2, <4>3
    <3> HIDE DEF new
    <3>4. Knows(calls[k])'
      <4>1. calls'[k].at = "answering" /\ calls'[k].gone
        BY <3>2, <3>3
      <4> QED BY <4>1 DEF Knows
    <3> QED BY <1>1, <1>3, <2>3, <3>2, <3>3, <3>4, RemovalHolds
  <2> QED BY <2>2, <2>3
<1> QED BY <1>1, <1>2, <1>3 DEF Unlink

LEMMA MakeParentHolds ==
  ASSUME ActionInv, NEW k \in Calls, MakeParent(k)
  PROVE  ActionInv'
<1>0. PICK p \in Paths : p = calls[k].path
  BY DEF ActionInv, ActionTypeOK, MakeParent, Knows
<1> DEFINE above == {q \in Paths : p \in Below(q)}
           new == [calls[k] EXCEPT !.at = "opening"]
<1>1. /\ calls \in [Calls -> CallState] /\ calls[k].at = "making" /\ p = calls[k].path
      /\ calls[k] \in CallState /\ Knows(calls[k])
      /\ disk \in [Paths -> {Absent, Folder} \union Seq(Chunk)]
  BY <1>0 DEF ActionInv, ActionTypeOK, MakeParent
<1>2. CASE Throws(k)
  BY <1>1, <1>2, ThrowsHolds
<1>3. CASE /\ \A q \in above : ~IsFile(q)
           /\ disk' = [q \in Paths |-> IF q \in above THEN Folder ELSE disk[q]]
           /\ Goes(k, "opening") /\ UNCHANGED history
  <2>1. new \in CallState /\ calls' = [calls EXCEPT ![k] = new]
    BY <1>1, <1>3, MovesType DEF Goes, Ats
  <2>2. /\ new.at = "opening" /\ new.path = p /\ new.content = calls[k].content
        /\ new.written = calls[k].written /\ new.orphan = calls[k].orphan
        /\ new.does = calls[k].does
    BY <1>1 DEF CallState
  <2> HIDE DEF new
  <2>3. /\ \A q \in Paths : (IsFile(q) <=> IsFile(q)') /\ (IsFile(q) => disk'[q] = disk[q])
        /\ disk' \in [Paths -> {Absent, Folder} \union Seq(Chunk)]
    <3> HIDE DEF above
    <3> QED BY <1>1, <1>3 DEF IsFile
  <2>4. ActionTypeOK'
    BY <1>3, <2>1, <2>3, WritersAfter, <1>1 DEF ActionInv, ActionTypeOK, history
  <2>5. Knows(new)
    BY <1>1, <2>2 DEF Knows
  <2>6. ASSUME NEW j \in Calls PROVE Knows(calls[j])'
    <3>1. Knows(calls'[j]) /\ calls'[j] \in CallState
      BY <1>1, <2>1, <2>5, WritersAfter DEF ActionInv
    <3> QED BY <2>3, <3>1 DEF Knows
  <2>7. ASSUME NEW q \in Paths PROVE Whole(q)'
    <3>1. Writers(q)' = Writers(q) /\ \A j \in Writers(q) : calls'[j] = calls[j]
      <4>1. k \notin Writers(q) /\ k \notin Writers(q)'
        BY <1>1, <2>1, <2>2, WritersAfter
      <4> QED BY <1>1, <2>1, <4>1, WritersAfter
    <3>3. Whole(q) /\ UNCHANGED disturbed
      BY <1>3 DEF ActionInv, history
    <3>4. CASE IsFile(q)
      <4>1. disk'[q] = disk[q] /\ (q \in disturbed' <=> q \in disturbed)
        BY <2>3, <3>3, <3>4
      <4> QED BY <3>1, <3>3, <4>1, WholeElsewhere
    <3>5. CASE ~IsFile(q)
      <4>1. Writers(q) = {}
        <5>1. \A j \in Calls : Knows(calls[j])
          BY DEF ActionInv
        <5> QED BY <3>5, <5>1 DEF Writers, Knows
      <4> QED BY <2>3, <3>1, <3>5, <4>1 DEF Whole
    <3> QED BY <3>4, <3>5
  <2> QED BY <2>4, <2>6, <2>7 DEF ActionInv
<1> QED BY <1>1, <1>2, <1>3 DEF MakeParent

LEMMA OpenHolds ==
  ASSUME ActionInv, NEW k \in Calls, Open(k)
  PROVE  ActionInv'
<1>0. PICK p \in Paths : p = calls[k].path
  BY DEF ActionInv, ActionTypeOK, Open, Knows
<1> DEFINE new == [calls[k] EXCEPT !.at = "writing"]
<1>1. /\ calls \in [Calls -> CallState] /\ calls[k].at = "opening" /\ p = calls[k].path
      /\ calls[k] \in CallState /\ Knows(calls[k])
      /\ disk \in [Paths -> {Absent, Folder} \union Seq(Chunk)]
  BY <1>0 DEF ActionInv, ActionTypeOK, Open
<1>2. CASE Throws(k)
  BY <1>1, <1>2, ThrowsHolds
<1>3. CASE /\ disk' = [disk EXCEPT ![p] = <<>>]
           /\ disturbed' = IF Writers(p) = {} THEN disturbed \ {p} ELSE disturbed \union {p}
           /\ Goes(k, "writing") /\ UNCHANGED <<actions, handed>>
  <2>1. new \in CallState /\ calls' = [calls EXCEPT ![k] = new]
    BY <1>1, <1>3, MovesType DEF Goes, Ats
  <2>2. /\ new.at = "writing" /\ new.path = p /\ new.content = calls[k].content
        /\ new.written = 0 /\ ~new.orphan /\ new.content \in Contents
        /\ new.does # "files.delete"
    BY <1>1 DEF CallState, Knows
  <2> HIDE DEF new
  <2>3. /\ calls' \in [Calls -> CallState] /\ calls'[k] = new
        /\ \A j \in Calls : j # k => calls'[j] = calls[j]
    BY <1>1, <2>1, WritersAfter
  <2>4. /\ disk'[p] = <<>> /\ \A q \in Paths : q # p => disk'[q] = disk[q]
        /\ disk' \in [Paths -> {Absent, Folder} \union Seq(Chunk)]
    BY <1>1, <1>3
  <2>5. IsFile(p)'
    <3>1. <<>> \in Seq(Chunk)
      OBVIOUS
    <3> QED BY <2>4, <3>1, FilesAreSequences DEF IsFile
  <2>6. ActionTypeOK'
    BY <1>1, <1>3, <2>3, <2>4 DEF ActionInv, ActionTypeOK
  <2>7. Knows(calls[k])'
    <3>1. Len(new.content) \in Nat
      BY <2>2, ContentsAreSequences
    <3> QED BY <1>0, <2>2, <2>3, <2>5, <3>1 DEF Knows, IsFile
  <2>8. ASSUME NEW j \in Calls PROVE Knows(calls[j])'
    <3>1. CASE j = k
      BY <2>7, <3>1
    <3>2. CASE j # k
      BY <2>3, <2>4, <2>5, <3>2 DEF ActionInv, Knows, IsFile
    <3> QED BY <3>1, <3>2
  <2>9. Writers(p)' = Writers(p) \union {k}
    <3>1. k \in Writers(p)'
      BY <2>2, <2>3 DEF Writers
    <3> QED BY <1>1, <2>1, <3>1, WritersAfter
  <2>10. ASSUME NEW q \in Paths PROVE Whole(q)'
    <3>1. CASE q = p
      <4>2. Whole(p)'
        <5> SUFFICES ASSUME p \notin disturbed'
                     PROVE  /\ \A j \in Writers(p)' : Writers(p)' = {j} /\ disk'[p] = SoFar(calls[j])'
                            /\ ~(Writers(p)' = {})
          BY DEF Whole
        <5>1. Writers(p)' = {k}
          BY <1>3, <2>9
        <5>2. SoFar(calls[k])' = <<>>
          BY <2>2, <2>3 DEF SoFar
        <5> QED BY <2>4, <5>1, <5>2
      <4> QED BY <3>1, <4>2
    <3>2. CASE q # p
      <4>1. Writers(q)' = Writers(q) /\ \A j \in Writers(q) : calls'[j] = calls[j]
        <5>1. k \notin Writers(q) /\ k \notin Writers(q)'
          BY <1>1, <2>2, <2>3, <3>2 DEF Writers
        <5> QED BY <1>1, <2>1, <5>1, WritersAfter
      <4>2. Whole(q) /\ (q \in disturbed' <=> q \in disturbed)
        BY <1>3, <3>2 DEF ActionInv
      <4>3. Whole(q)'
        BY <2>4, <3>2, <4>1, <4>2, WholeElsewhere
      <4> QED BY <4>3
    <3> QED BY <3>1, <3>2
  <2> QED BY <2>6, <2>8, <2>10 DEF ActionInv
<1> QED BY <1>1, <1>2, <1>3 DEF Open, Opened

(* A step of a writer that creates and deletes nothing, and leaves its     *)
(* file a file.                                                            *)
LEMMA WriterHolds ==
  ASSUME ActionInv, NEW k \in Calls, NEW p \in Paths, NEW new \in CallState,
         calls[k].at = "writing", calls[k].path = p, ~calls[k].orphan,
         calls' = [calls EXCEPT ![k] = new], Knows(new),
         disk' \in [Paths -> {Absent, Folder} \union Seq(Chunk)],
         \A q \in Paths : q # p => disk'[q] = disk[q],
         IsFile(p)', UNCHANGED <<actions, handed>>,
         disturbed' \subseteq Paths,
         \A q \in Paths : q # p => (q \in disturbed' <=> q \in disturbed),
         new.at = "writing" => new.path = p /\ ~new.orphan,
         Whole(p)'
  PROVE  ActionInv'
<1>1. /\ calls \in [Calls -> CallState] /\ Knows(calls[k])
      /\ \A q \in Paths : Whole(q)
  BY DEF ActionInv, ActionTypeOK
<1>2. IsFile(p)
  BY <1>1 DEF Knows
<1>3. /\ calls' \in [Calls -> CallState] /\ calls'[k] = new
      /\ \A j \in Calls : j # k => calls'[j] = calls[j]
  BY <1>1, WritersAfter
<1>4. ActionTypeOK'
  BY <1>3 DEF ActionInv, ActionTypeOK
<1>5. \A q \in Paths : IsFile(q)' <=> IsFile(q)
  BY <1>2 DEF IsFile
<1>6. ASSUME NEW j \in Calls PROVE Knows(calls[j])'
  <2>1. Knows(calls'[j])
    BY <1>3 DEF ActionInv
  <2> QED BY <1>3, <1>5, <2>1 DEF Knows
<1>7. ASSUME NEW q \in Paths, q # p PROVE Whole(q)'
  <2>1. Writers(q)' = Writers(q) /\ \A j \in Writers(q) : calls'[j] = calls[j]
    <3>1. k \notin Writers(q) /\ k \notin Writers(q)'
      BY <1>3, <1>7 DEF Writers
    <3> QED BY <1>1, <3>1, WritersAfter
  <2> QED BY <1>1, <1>7, <2>1, WholeElsewhere
<1> QED BY <1>4, <1>6, <1>7 DEF ActionInv

LEMMA WriteChunkHolds ==
  ASSUME ActionInv, NEW k \in Calls, WriteChunk(k)
  PROVE  ActionInv'
<1>0. PICK p \in Paths : p = calls[k].path
  BY DEF ActionInv, ActionTypeOK, WriteChunk, Knows
<1> DEFINE w == calls[k].written
           content == calls[k].content
           new == [calls[k] EXCEPT !.written = w + 1]
<1>1. /\ calls \in [Calls -> CallState] /\ calls[k].at = "writing" /\ p = calls[k].path
      /\ calls[k] \in CallState /\ Knows(calls[k]) /\ content \in Contents
      /\ w \in Nat /\ w + 1 <= Len(content)
      /\ disk \in [Paths -> {Absent, Folder} \union Seq(Chunk)]
      /\ actions \in 0..MaxActions /\ handed \in [Paths -> {Absent} \union Seq(Chunk)]
  BY <1>0 DEF ActionInv, ActionTypeOK, WriteChunk, Knows, CallState
<1>2. /\ new \in CallState /\ new.at = "writing" /\ new.path = p /\ new.content = content
      /\ new.written = w + 1 /\ new.orphan = calls[k].orphan /\ new.does = calls[k].does
  <2>1. w + 1 \in Nat
    BY <1>1
  <2> HIDE DEF w
  <2> QED BY <1>1, <2>1 DEF CallState
<1>3. /\ calls' = [calls EXCEPT ![k] = new] /\ UNCHANGED history
      /\ disk' = IF calls[k].orphan THEN disk
                 ELSE [disk EXCEPT ![p] = Overlaid(@, w + 1, content[w + 1])]
  BY <1>1 DEF WriteChunk
<1> HIDE DEF new
<1>4. Knows(new)
  BY <1>1, <1>2 DEF Knows
<1>5. CASE calls[k].orphan
  <2>1. /\ calls' \in [Calls -> CallState] /\ calls'[k] = new
        /\ \A j \in Calls : j # k => calls'[j] = calls[j]
    BY <1>1, <1>2, <1>3, WritersAfter
  <2>2. ActionTypeOK'
    BY <1>3, <1>5, <2>1 DEF ActionInv, ActionTypeOK, history
  <2>3. ASSUME NEW j \in Calls PROVE Knows(calls[j])'
    <3>1. Knows(calls'[j])
      BY <1>4, <2>1 DEF ActionInv
    <3> QED BY <1>3, <1>5, <3>1 DEF Knows, IsFile
  <2>4. ASSUME NEW q \in Paths PROVE Whole(q)'
    <3>1. Writers(q)' = Writers(q) /\ \A j \in Writers(q) : calls'[j] = calls[j]
      <4>1. k \notin Writers(q) /\ k \notin Writers(q)'
        BY <1>2, <1>5, <2>1 DEF Writers
      <4> QED BY <1>1, <1>2, <1>3, <4>1, WritersAfter
    <3>3. Whole(q)'
      BY <1>3, <1>5, <3>1, WholeElsewhere DEF ActionInv, history
    <3> QED BY <3>3
  <2> QED BY <2>2, <2>3, <2>4 DEF ActionInv
<1>6. CASE ~calls[k].orphan
  <2>1. disk[p] \in Seq(Chunk)
    BY <1>1, <1>6 DEF Knows, IsFile
  <2>2. content[w + 1] \in Chunk /\ w + 1 \in Nat \ {0}
    BY <1>1, ContentsAreSequences
  <2>3. Overlaid(disk[p], w + 1, content[w + 1]) \in Seq(Chunk)
    BY <2>1, <2>2, OverlaidType
  <2>4. /\ disk'[p] = Overlaid(disk[p], w + 1, content[w + 1])
        /\ \A q \in Paths : q # p => disk'[q] = disk[q]
        /\ disk' \in [Paths -> {Absent, Folder} \union Seq(Chunk)]
    BY <1>1, <1>3, <1>6, <2>3
  <2>5. IsFile(p)'
    BY <2>3, <2>4, FilesAreSequences DEF IsFile
  <2>6. Whole(p)'
    <3> SUFFICES ASSUME p \notin disturbed'
                 PROVE  /\ \A j \in Writers(p)' : Writers(p)' = {j} /\ disk'[p] = SoFar(calls[j])'
                        /\ ~(Writers(p)' = {})
      BY DEF Whole
    <3>1. Whole(p) /\ p \notin disturbed /\ k \in Writers(p)
      BY <1>1, <1>3, <1>6 DEF ActionInv, history, Writers
    <3>2. Writers(p) = {k} /\ disk[p] = SoFar(calls[k])
      BY <3>1 DEF Whole
    <3>3. Writers(p)' = {k} /\ calls'[k] = new
      <4>1. calls'[k] = new
        BY <1>1, <1>2, <1>3, WritersAfter
      <4>2. k \in Writers(p)'
        BY <1>2, <1>6, <4>1 DEF Writers
      <4>3. Writers(p)' = Writers(p) \union {k}
        BY <1>1, <1>2, <1>3, <4>2, WritersAfter
      <4> QED BY <3>2, <4>1, <4>3
    <3>4. disk'[p] = [i \in 1..(w + 1) |-> content[i]]
      <4>1. disk[p] = [i \in 1..w |-> content[i]]
        BY <3>2 DEF SoFar
      <4> HIDE DEF w, content
      <4> QED BY <1>1, <2>4, <4>1, OverlaidGrows
    <3>5. SoFar(calls[k])' = [i \in 1..(w + 1) |-> content[i]]
      BY <1>2, <3>3 DEF SoFar
    <3> QED BY <3>3, <3>4, <3>5
  <2> HIDE DEF w, content
  <2> QED
    BY <1>1, <1>2, <1>3, <1>4, <1>6, <2>4, <2>5, <2>6, WriterHolds DEF history, ActionInv, ActionTypeOK
<1> QED BY <1>5, <1>6

(* The last chunk is in.                                                   *)
LEMMA CloseHolds ==
  ASSUME ActionInv, NEW k \in Calls, Close(k)
  PROVE  ActionInv'
<1>0. PICK p \in Paths : p = calls[k].path
  BY DEF ActionInv, ActionTypeOK, Close, Knows
<1> DEFINE new == [calls[k] EXCEPT !.at = "answering", !.ok = TRUE]
<1>1. /\ calls \in [Calls -> CallState] /\ calls[k].at = "writing" /\ p = calls[k].path
      /\ calls[k] \in CallState /\ Knows(calls[k])
      /\ calls[k].content \in Contents /\ calls[k].written = Len(calls[k].content)
      /\ disk \in [Paths -> {Absent, Folder} \union Seq(Chunk)]
      /\ actions \in 0..MaxActions /\ handed \in [Paths -> {Absent} \union Seq(Chunk)]
  BY <1>0 DEF ActionInv, ActionTypeOK, Close, Knows
<1>2. new \in CallState /\ new.at = "answering" /\ new.does # "files.delete"
  <2>1. new \in CallState
    BY <1>1, MovesType DEF Ats
  <2> QED BY <1>1, <2>1 DEF CallState, Knows
<1>3. calls' = [calls EXCEPT ![k] = new] /\ UNCHANGED <<disk, history>>
  BY DEF Close, Answers, ActionInv, ActionTypeOK
<1> HIDE DEF new
<1>4. Knows(new) /\ new.at # "writing"
  BY <1>2 DEF Knows
<1>5. CASE calls[k].orphan
  BY <1>1, <1>2, <1>3, <1>4, <1>5, AsideHolds DEF history
<1>6. CASE ~calls[k].orphan
  <2>1. IsFile(p) /\ IsFile(p)'
    BY <1>1, <1>3, <1>6 DEF Knows, IsFile
  <2>2. Whole(p)'
    <3> SUFFICES ASSUME p \notin disturbed'
                 PROVE  /\ Writers(p)' = {} /\ disk'[p] \in Contents
      BY DEF Whole
    <3>1. Whole(p) /\ p \notin disturbed /\ k \in Writers(p)
      BY <1>1, <1>3, <1>6 DEF ActionInv, history, Writers
    <3>2. Writers(p) = {k} /\ disk[p] = SoFar(calls[k])
      BY <3>1 DEF Whole
    <3>3. Writers(p)' = {}
      <4>1. calls'[k] = new
        BY <1>1, <1>2, <1>3, WritersAfter
      <4>2. k \notin Writers(p)'
        BY <1>2, <4>1 DEF Writers
      <4>3. Writers(p)' = Writers(p) \ {k}
        BY <1>1, <1>2, <1>3, <4>2, WritersAfter
      <4> QED BY <3>2, <4>3
    <3>4. SoFar(calls[k]) = calls[k].content
      BY <1>1, ContentsAreSequences DEF SoFar
    <3> QED BY <1>1, <1>3, <3>2, <3>3, <3>4
  <2>3. disturbed' \subseteq Paths
    BY <1>3 DEF ActionInv, ActionTypeOK, history
  <2> QED
    BY <1>1, <1>2, <1>3, <1>4, <1>6, <2>1, <2>2, <2>3, WriterHolds DEF history
<1> QED BY <1>5, <1>6

LEMMA FailsHolds ==
  ASSUME ActionInv, NEW k \in Calls, FileSystemFails(k)
  PROVE  ActionInv'
<1>1. CASE ~(calls[k].at = "writing" /\ ~calls[k].orphan)
  BY <1>1, ThrowsHolds DEF FileSystemFails
<1>2. CASE calls[k].at = "writing" /\ ~calls[k].orphan
  <2>1. PICK p \in Paths : p = calls[k].path
    BY <1>2 DEF ActionInv, ActionTypeOK, Knows
  <2> DEFINE new == [calls[k] EXCEPT !.at = "answering", !.ok = FALSE]
  <2>2. /\ calls \in [Calls -> CallState] /\ calls[k] \in CallState /\ Knows(calls[k])
        /\ disk \in [Paths -> {Absent, Folder} \union Seq(Chunk)] /\ disturbed \subseteq Paths
    BY DEF ActionInv, ActionTypeOK
  <2>3. new \in CallState /\ new.at = "answering" /\ ~new.ok
    <3>1. new \in CallState
      BY <2>2, MovesType DEF Ats
    <3> QED BY <2>2, <3>1 DEF CallState
  <2>4. /\ calls' = [calls EXCEPT ![k] = new] /\ disturbed' = disturbed \union {p}
        /\ UNCHANGED <<disk, actions, handed>>
    BY <1>2, <2>1, <2>2 DEF FileSystemFails, Answers
  <2> HIDE DEF new
  <2>5. Knows(new) /\ new.at # "writing"
    BY <2>3 DEF Knows
  <2>6. IsFile(p)'
    BY <1>2, <2>1, <2>2, <2>4 DEF Knows, IsFile
  <2>7. Whole(p)'
    BY <2>4 DEF Whole
  <2> QED BY <1>2, <2>1, <2>2, <2>3, <2>4, <2>5, <2>6, <2>7, WriterHolds
<1> QED BY <1>1, <1>2

-----------------------------------------------------------------------------
LEMMA NextHolds == ActionInv /\ [Next]_vars => ActionInv'
<1> SUFFICES ASSUME ActionInv, [Next]_vars PROVE ActionInv'
  OBVIOUS
<1>1. CASE UNCHANGED vars
  BY <1>1 DEF ActionInv, ActionTypeOK, Knows, Whole, Writers, IsFile, SoFar, vars, history
<1>2. ASSUME NEW k \in Calls, Proceed(k) PROVE ActionInv'
  BY <1>2, LookingHolds, ReadHolds, LstatHolds, UnlinkHolds, MakeParentHolds, OpenHolds, WriteChunkHolds,
     CloseHolds DEF Proceed
<1> QED BY <1>1, <1>2, ExecuteHolds, FailsHolds DEF Next

(* ActionInv is an invariant of the runner.                                *)
THEOREM ActionInvariant == Spec => []ActionInv
  BY InitHolds, NextHolds, PTL DEF Spec

(* A deletion that answers "Deleted" had a file to delete, and it is gone, *)
(* whichever deletion was the faster and whatever came to its path since.  *)
THEOREM DeletionsAreReal == Spec => []EveryDeletionIsReal
<1>1. ActionInv => EveryDeletionIsReal
  BY DEF ActionInv, Knows, EveryDeletionIsReal
<1> QED BY ActionInvariant, <1>1, PTL

(* A file at rest is one content, unless two wrote it at once or one of    *)
(* its writes failed.                                                      *)
THEOREM FilesAreWhole == Spec => []SettledFilesAreWhole
<1>1. ActionInv => SettledFilesAreWhole
  BY DEF ActionInv, Whole, SettledFilesAreWhole
<1> QED BY ActionInvariant, <1>1, PTL
=============================================================================
