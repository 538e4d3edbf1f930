--------------------------- MODULE AgentRunProofs ---------------------------
(***************************************************************************)
(* What one run of the bridge promises, for every provider and any number  *)
(* of frames.                                                              *)
(*                                                                         *)
(* A `done` that has been yielded is in the outbox before it is in the     *)
(* stream, so the two are followed together: a provider about to return    *)
(* has one in either, and with OpenClaw and the mock nothing comes after   *)
(* it because nothing is yielded past it.  The hello is in the queue of    *)
(* the socket only when the gateway has accepted.                          *)
(*                                                                         *)
(* An event of a frame keeps the frame's number from the outbox to the     *)
(* stream, and numbers grow along that way, so no frame is lost or         *)
(* overtaken.                                                              *)
(***************************************************************************)
EXTENDS AgentRun, Integers, TLAPS

(* All events of a stream are of these kinds.                              *)
Only(s, kinds) == \A i \in 1..Len(s) : s[i].kind \in kinds
NotDone == EventKinds \ {"done"}
HasDone(s) == \E i \in 1..Len(s) : s[i].kind = "done"
DoneIsLast(s) == \A i \in 1..Len(s) : s[i].kind = "done" => i = Len(s)

(* Where the provider stands tells which one it is and what it holds.      *)
Standing ==
    /\ at \in {"connecting", "handshaking", "streaming"} => provider = "openclaw"
    /\ at \in {"fetching", "reading"} => provider = "hosted"
    /\ provider = "mock" => configured
    /\ at \in {"new", "submitting", "connecting", "handshaking", "fetching", "ended"} => Pulled
    /\ at \in {"new", "submitting", "connecting", "handshaking"} => streamed = <<>>
    /\ calling # NoEvent => calling.kind \in NeedsCall

(* A run that is to end has its `done` on the way or has streamed it.      *)
DoneIsComing ==
    /\ at = "returning" \/ sawDone => HasDone(streamed) \/ HasDone(outbox)
    /\ at = "ended" => HasDone(streamed)

(* With OpenClaw and the mock it is the last event of what is yielded.     *)
DoneComesLast ==
    provider # "hosted" =>
        /\ DoneIsLast(streamed) /\ DoneIsLast(outbox)
        /\ outbox # <<>> \/ calling # NoEvent => Only(streamed, NotDone)
        /\ at \notin {"returning", "ended"} => Only(streamed, NotDone) /\ Only(outbox, NotDone)

(* Who has a socket.                                                       *)
SocketIsHeld ==
    /\ at \in {"new", "submitting", "fetching", "reading"} => socket = "none" /\ ~registered
    /\ socket = "connecting" => at = "connecting"
    /\ at = "ended" => ~registered /\ socket \in {"none", "closed"}

(* What was heard for the intention and is not yet read.                   *)
Counted ==
    /\ Len(answers) <= sent
    /\ at = "streaming" => Len(heard) <= Len(answers)

(* Before the hello.                                                       *)
Unaccepted ==
    ~gateway.accepted =>
        /\ "intention" \notin gateway.asked
        /\ at # "streaming"
        /\ \A i \in 1..Len(heard) : heard[i] # "ok"
        /\ provider = "openclaw" =>
             /\ Only(streamed, {"error", "done"}) /\ Only(outbox, {"error", "done"})
             /\ calling # NoEvent => calling.kind = "error"

AgentInv ==
    /\ AgentTypeOK
    /\ Standing /\ DoneIsComing /\ DoneComesLast /\ SocketIsHeld /\ Counted /\ Unaccepted

-----------------------------------------------------------------------------
(* Streams of events.                                                      *)

LEMMA EventsNamed ==
  /\ \A kind \in EventKinds : Own(kind) \in Event /\ Own(kind).kind = kind /\ Own(kind) # NoEvent
  /\ \A e \in Event : e.kind \in EventKinds /\ e # NoEvent
  BY AgentAssumption DEF Own, Event, EventKinds, NoEvent

LEMMA FailureIs ==
  /\ Failure \in Seq(Event) /\ Len(Failure) = 2
  /\ Failure[1].kind = "error" /\ Failure[2].kind = "done"
  /\ Only(Failure, {"error", "done"}) /\ HasDone(Failure) /\ DoneIsLast(Failure)
<1>1. Own("error") \in Event /\ Own("error").kind = "error"
  BY EventsNamed DEF EventKinds
<1>2. Own("done") \in Event /\ Own("done").kind = "done"
  BY EventsNamed DEF EventKinds
<1>3. Failure \in Seq(Event) /\ Len(Failure) = 2 /\ Failure[1] = Own("error") /\ Failure[2] = Own("done")
  BY <1>1, <1>2 DEF Failure
<1> QED
  BY <1>1, <1>2, <1>3 DEF Only, HasDone, DoneIsLast

LEMMA Concatenated ==
  ASSUME NEW s \in Seq(Event), NEW t \in Seq(Event)
  PROVE  /\ s \o t \in Seq(Event)
         /\ \A kinds : Only(s, kinds) /\ Only(t, kinds) => Only(s \o t, kinds)
         /\ HasDone(s) \/ HasDone(t) => HasDone(s \o t)
         /\ Only(s, NotDone) /\ DoneIsLast(t) => DoneIsLast(s \o t)
<1>1. /\ s \o t \in Seq(Event) /\ Len(s \o t) = Len(s) + Len(t)
      /\ Len(s) \in Nat /\ Len(t) \in Nat
      /\ \A i \in 1..Len(s) : (s \o t)[i] = s[i]
      /\ \A i \in 1..Len(t) : (s \o t)[Len(s) + i] = t[i]
      /\ \A i \in 1..(Len(s) + Len(t)) : i \in 1..Len(s) \/ i - Len(s) \in 1..Len(t)
      /\ \A i \in (Len(s) + 1)..(Len(s) + Len(t)) : (s \o t)[i] = t[i - Len(s)]
  OBVIOUS
<1> DEFINE c == s \o t
<1>2. \A kinds : Only(s, kinds) /\ Only(t, kinds) => Only(c, kinds)
  <2> SUFFICES ASSUME NEW kinds, Only(s, kinds), Only(t, kinds), NEW i \in 1..Len(c)
               PROVE  c[i].kind \in kinds
    BY DEF Only
  <2>1. CASE i <= Len(s)
    BY <1>1, <2>1 DEF Only
  <2>2. CASE i > Len(s)
    BY <1>1, <2>2 DEF Only
  <2> QED BY <1>1, <2>1, <2>2
<1>3. HasDone(s) => HasDone(c)
  BY <1>1 DEF HasDone
<1>4. HasDone(t) => HasDone(c)
  <2> SUFFICES ASSUME NEW i \in 1..Len(t), t[i].kind = "done" PROVE HasDone(c)
    BY DEF HasDone
  <2>1. Len(s) + i \in 1..Len(c) /\ c[Len(s) + i] = t[i]
    BY <1>1
  <2> QED BY <2>1 DEF HasDone
<1>5. Only(s, NotDone) /\ DoneIsLast(t) => DoneIsLast(c)
  <2> SUFFICES ASSUME Only(s, NotDone), DoneIsLast(t), NEW i \in 1..Len(c), c[i].kind = "done"
               PROVE  i = Len(c)
    BY DEF DoneIsLast
  <2>1. CASE i <= Len(s)
    BY <1>1, <2>1 DEF Only, NotDone
  <2>2. CASE i > Len(s)
    <3>1. i - Len(s) \in 1..Len(t) /\ t[i - Len(s)] = c[i]
      BY <1>1, <2>2
    <3>2. i - Len(s) = Len(t)
      BY <3>1 DEF DoneIsLast
    <3> QED BY <1>1, <3>2
  <2> QED BY <1>1, <2>1, <2>2
<1> QED BY <1>1, <1>2, <1>3, <1>4, <1>5

LEMMA OneEvent ==
  ASSUME NEW e \in Event
  PROVE  /\ <<e>> \in Seq(Event)
         /\ \A kinds : e.kind \in kinds => Only(<<e>>, kinds)
         /\ DoneIsLast(<<e>>)
         /\ e.kind = "done" => HasDone(<<e>>)
  BY DEF Only, DoneIsLast, HasDone

LEMMA NoEvents ==
  /\ <<>> \in Seq(Event) /\ DoneIsLast(<<>>) /\ ~HasDone(<<>>)
  /\ \A kinds : Only(<<>>, kinds)
  BY DEF Only, DoneIsLast, HasDone

LEMMA Appended ==
  ASSUME NEW s \in Seq(Event), NEW e \in Event
  PROVE  /\ Append(s, e) \in Seq(Event)
         /\ \A kinds : Only(s, kinds) /\ e.kind \in kinds => Only(Append(s, e), kinds)
         /\ HasDone(s) \/ e.kind = "done" => HasDone(Append(s, e))
         /\ Only(s, NotDone) => DoneIsLast(Append(s, e))
<1>1. Append(s, e) = s \o <<e>>
  OBVIOUS
<1> QED BY <1>1, OneEvent, Concatenated

(* Taking the first event off.                                             *)
LEMMA Taken ==
  ASSUME NEW s \in Seq(Event), s # <<>>
  PROVE  /\ Head(s) \in Event /\ Tail(s) \in Seq(Event)
         /\ \A kinds : Only(s, kinds) => Head(s).kind \in kinds /\ Only(Tail(s), kinds)
         /\ HasDone(s) => Head(s).kind = "done" \/ HasDone(Tail(s))
         /\ DoneIsLast(s) => DoneIsLast(Tail(s))
         /\ DoneIsLast(s) /\ Head(s).kind = "done" => Tail(s) = <<>>
<1> DEFINE t == Tail(s)
<1>1. /\ Len(s) \in Nat /\ Len(s) >= 1
      /\ Head(s) = s[1] /\ s[1] \in Event
      /\ t \in Seq(Event) /\ Len(t) = Len(s) - 1
      /\ \A i \in 1..(Len(s) - 1) : t[i] = s[i + 1]
  OBVIOUS
<1> HIDE DEF t
<1>2. \A kinds : Only(s, kinds) => Head(s).kind \in kinds /\ Only(t, kinds)
  BY <1>1 DEF Only
<1>3. HasDone(s) => Head(s).kind = "done" \/ HasDone(t)
  <2> SUFFICES ASSUME NEW i \in 1..Len(s), s[i].kind = "done", i # 1 PROVE HasDone(t)
    BY <1>1 DEF HasDone
  <2>1. i - 1 \in 1..Len(t) /\ t[i - 1] = s[i]
    BY <1>1
  <2> QED BY <2>1 DEF HasDone
<1>4. DoneIsLast(s) => DoneIsLast(t)
  <2> SUFFICES ASSUME DoneIsLast(s), NEW i \in 1..Len(t), t[i].kind = "done"
               PROVE  i = Len(t)
    BY DEF DoneIsLast
  <2>1. i + 1 \in 1..Len(s) /\ s[i + 1] = t[i]
    BY <1>1
  <2>2. i + 1 = Len(s)
    BY <2>1 DEF DoneIsLast
  <2> QED BY <1>1, <2>2
<1>5. DoneIsLast(s) /\ Head(s).kind = "done" => t = <<>>
  <2> SUFFICES ASSUME DoneIsLast(s), Head(s).kind = "done" PROVE t = <<>>
    OBVIOUS
  <2>1. 1 \in 1..Len(s) /\ s[1].kind = "done"
    BY <1>1
  <2>2. Len(s) = 1
    BY <2>1 DEF DoneIsLast
  <2>3. Len(t) = 0
    BY <1>1, <2>2
  <2> QED BY <1>1, <2>3
<1> QED BY <1>1, <1>2, <1>3, <1>4, <1>5 DEF t

-----------------------------------------------------------------------------
LEMMA InitHolds == Init => AgentInv
<1> SUFFICES ASSUME Init PROVE AgentInv
  OBVIOUS
<1>0. <<>> \in Seq(FrameKinds) /\ gateway \in [asked : SUBSET {"connect", "intention"}, accepted : BOOLEAN]
  BY DEF Init
<1>1. AgentTypeOK
  <2>1. provider \in Providers /\ at \in Awaits /\ sent \in 0..MaxFrames
    BY AgentAssumption DEF Init, Awaits
  <2>2. heard \in Seq(FrameKinds) /\ answers \in Seq(FrameKinds)
    BY <1>0 DEF Init
  <2>3. outbox \in Seq(Event) /\ streamed \in Seq(Event)
    BY NoEvents DEF Init
  <2> QED BY <1>0, <2>1, <2>2, <2>3 DEF Init, AgentTypeOK
<1> QED
  BY <1>1, NoEvents DEF Init, AgentInv, Standing, Pulled, DoneIsComing, DoneComesLast,
     SocketIsHeld, Counted, Unaccepted

-----------------------------------------------------------------------------
(* The bridge.                                                             *)

LEMMA BeginHolds ==
  ASSUME AgentInv, Begin PROVE AgentInv'
<1> USE FailureIs, NoEvents DEF Begin, AgentInv, Settings, socketVars
<1>1. AgentTypeOK'
  BY DEF AgentTypeOK, Awaits
<1>2. Standing'
  BY DEF Standing, Pulled
<1>3. DoneIsComing'
  BY DEF DoneIsComing, Standing
<1>4. DoneComesLast'
  BY DEF DoneComesLast, Standing, Pulled
<1>5. SocketIsHeld' /\ Counted'
  BY DEF SocketIsHeld, Counted
<1>6. Unaccepted'
  BY DEF Unaccepted, Standing
<1> QED BY <1>1, <1>2, <1>3, <1>4, <1>5, <1>6

LEMMA ScriptsAre ==
  ASSUME NEW script \in MockScripts
  PROVE  script \in Seq(Event) /\ HasDone(script) /\ DoneIsLast(script)
<1> DEFINE kinds == {"session", "status", "message", "ask", "ui", "done"}
<1>1. \A kind \in kinds : Own(kind) \in Event /\ Own(kind).kind = kind
  BY EventsNamed DEF EventKinds
<1>2. DEFINE opening == <<Own("session"), Own("status"), Own("message")>>
<1>3. DEFINE closing == <<Own("status"), Own("ui"), Own("status"), Own("done")>>
<1>4. DEFINE asking == <<Own("status"), Own("ask")>>
<1>5. opening \in Seq(Event) /\ Only(opening, NotDone)
  BY <1>1 DEF Only, NotDone, EventKinds
<1>6. asking \in Seq(Event) /\ Only(asking, NotDone)
  BY <1>1 DEF Only, NotDone, EventKinds
<1>7. closing \in Seq(Event) /\ HasDone(closing) /\ DoneIsLast(closing)
  <2>1. /\ closing \in Seq(Event) /\ Len(closing) = 4
        /\ closing[1].kind = "status" /\ closing[2].kind = "ui"
        /\ closing[3].kind = "status" /\ closing[4].kind = "done"
    BY <1>1
  <2> HIDE DEF closing
  <2> QED BY <2>1 DEF HasDone, DoneIsLast
<1>8. script \in {opening \o closing, opening \o asking \o closing}
  BY DEF MockScripts
<1> HIDE DEF opening, closing, asking, kinds
<1>9. opening \o asking \in Seq(Event) /\ Only(opening \o asking, NotDone)
  BY <1>5, <1>6, Concatenated
<1> QED BY <1>5, <1>7, <1>8, <1>9, Concatenated

LEMMA SubmittedHolds ==
  ASSUME AgentInv, Submitted PROVE AgentInv'
<1> USE FailureIs, NoEvents DEF Submitted, AgentInv, Settings
<1>1. /\ \/ outbox' = Failure /\ at' = "returning" /\ socket' = socket
         \/ provider = "openclaw" /\ at' = "connecting" /\ socket' = "connecting"
              /\ outbox' = outbox
         \/ provider = "hosted" /\ at' = "fetching" /\ socket' = socket /\ outbox' = outbox
         \/ provider = "mock" /\ outbox' \in MockScripts /\ at' = "returning" /\ socket' = socket
      /\ at = "submitting"
  BY AgentAssumption DEF AgentTypeOK, Standing
<1>2. outbox' \in Seq(Event)
  BY <1>1, ScriptsAre DEF AgentTypeOK
<1>3. AgentTypeOK'
  BY <1>1, <1>2 DEF AgentTypeOK, Awaits
<1>4. Standing'
  BY <1>1 DEF Standing, Pulled
<1>5. DoneIsComing'
  BY <1>1, ScriptsAre DEF DoneIsComing, Standing
<1>6. DoneComesLast'
  BY <1>1, ScriptsAre DEF DoneComesLast, Standing, Pulled
<1>7. SocketIsHeld' /\ Counted'
  BY <1>1 DEF SocketIsHeld, Counted
<1>8. Unaccepted'
  BY <1>1 DEF Unaccepted, Standing, Pulled
<1> QED BY <1>3, <1>4, <1>5, <1>6, <1>7, <1>8

LEMMA TakeHolds ==
  ASSUME AgentInv, Take PROVE AgentInv'
<1> USE NoEvents DEF Take, AgentInv, Settings
<1> DEFINE e == Head(outbox)
<1>0. outbox \in Seq(Event) /\ streamed \in Seq(Event)
  BY DEF AgentTypeOK
<1>1. /\ outbox' \in Seq(Event) /\ e \in Event /\ e # NoEvent
      /\ \A kinds : Only(outbox, kinds) => e.kind \in kinds /\ Only(outbox', kinds)
      /\ HasDone(outbox) => e.kind = "done" \/ HasDone(outbox')
      /\ DoneIsLast(outbox) => DoneIsLast(outbox')
      /\ DoneIsLast(outbox) /\ e.kind = "done" => outbox' = <<>>
  BY <1>0, Taken, EventsNamed
<1>2. \/ /\ e.kind \in NeedsCall /\ calling' = e /\ streamed' = streamed
      \/ /\ e.kind \notin NeedsCall /\ calling' = NoEvent /\ streamed' = Append(streamed, e)
  OBVIOUS
<1>3. calling = NoEvent /\ outbox # <<>>
  OBVIOUS
<1>4. /\ streamed' \in Seq(Event)
      /\ HasDone(streamed) => HasDone(streamed')
      /\ \A kinds : Only(streamed, kinds) /\ e.kind \in kinds => Only(streamed', kinds)
      /\ Only(streamed, NotDone) => DoneIsLast(streamed')
      /\ e.kind = "done" => HasDone(streamed')
  <2>1. CASE streamed' = streamed
    <3>1. Only(streamed, NotDone) => DoneIsLast(streamed)
      BY DEF Only, NotDone, DoneIsLast
    <3> QED BY <1>0, <1>2, <2>1, <3>1, Appended, <1>1 DEF NeedsCall
  <2>2. CASE streamed' = Append(streamed, e)
    BY <1>0, <1>1, <2>2, Appended
  <2> QED BY <1>2, <2>1, <2>2
<1>5. at \notin {"new", "submitting", "connecting", "handshaking", "fetching", "ended"}
  BY <1>3 DEF Standing, Pulled
<1> HIDE DEF e, Take
<1>6. UNCHANGED <<provider, configured, at, socket, broke, registered, gateway, heard, sawDone, sent, answers>>
  BY DEF Take, socketVars
<1>7. AgentTypeOK'
  BY <1>1, <1>2, <1>4, <1>6 DEF AgentTypeOK
<1>8. Standing'
  BY <1>2, <1>5, <1>6 DEF Standing
<1>9. DoneIsComing'
  BY <1>1, <1>4, <1>5, <1>6 DEF DoneIsComing
<1>10. DoneComesLast'
  <2> SUFFICES ASSUME provider # "hosted"
               PROVE  /\ DoneIsLast(streamed') /\ DoneIsLast(outbox')
                      /\ outbox' # <<>> \/ calling' # NoEvent => Only(streamed', NotDone)
                      /\ at \notin {"returning", "ended"} =>
                            Only(streamed', NotDone) /\ Only(outbox', NotDone)
    BY <1>6 DEF DoneComesLast
  <2>1. DoneIsLast(outbox) /\ Only(streamed, NotDone)
    BY <1>3 DEF DoneComesLast
  <2>2. e.kind # "done" => Only(streamed', NotDone)
    BY <1>1, <1>4, <2>1, EventsNamed DEF NotDone
  <2>3. e.kind = "done" => outbox' = <<>> /\ calling' = NoEvent
    BY <1>1, <1>2, <2>1 DEF NeedsCall
  <2>4. at \notin {"returning", "ended"} => e.kind # "done" /\ Only(outbox', NotDone)
    BY <1>1 DEF DoneComesLast, NotDone
  <2> QED BY <1>1, <1>4, <2>1, <2>2, <2>3, <2>4
<1>11. SocketIsHeld' /\ Counted'
  BY <1>6 DEF SocketIsHeld, Counted
<1>12. Unaccepted'
  BY <1>1, <1>2, <1>4, <1>6 DEF Unaccepted, NeedsCall
<1> QED BY <1>7, <1>8, <1>9, <1>10, <1>11, <1>12

(* What a call that returned puts in the stream is no `done`, and for an   *)
(* error it is the error.                                                  *)
LEMMA RepliesAre ==
  ASSUME NEW e \in Event, e.kind \in NeedsCall, NEW reply \in Replies(e)
  PROVE  /\ reply \in Seq(Event) /\ Only(reply, NotDone)
         /\ e.kind = "error" => Only(reply, {"error", "done"})
<1>1. \/ reply = <<>>
      \/ \E kind \in NotDone : reply = <<[e EXCEPT !.kind = kind]>> /\ e.kind # "error"
      \/ reply = <<[e EXCEPT !.kind = "error"]>>
      \/ reply = <<e>>
  <2>1. CASE e.kind = "ui"
    BY <2>1 DEF Replies, NotDone, EventKinds
  <2>2. CASE e.kind = "ask"
    BY <2>2 DEF Replies, NotDone, EventKinds
  <2>3. CASE e.kind = "approval"
    <3>1. e.kind = "approval" /\ e.kind # "ui" /\ e.kind # "ask"
      BY <2>3
    <3>2. Replies(e) = {<<>>, <<[e EXCEPT !.kind = "error"]>>}
      BY <3>1 DEF Replies
    <3> QED BY <3>2
  <2>4. CASE e.kind \notin {"ui", "ask", "approval"}
    <3>1. e.kind # "ui" /\ e.kind # "ask" /\ e.kind # "approval"
      BY <2>4
    <3>2. Replies(e) = {<<e>>}
      BY <3>1 DEF Replies
    <3> QED BY <3>2
  <2> QED BY <2>1, <2>2, <2>3, <2>4
<1>2. \A kind \in EventKinds : [e EXCEPT !.kind = kind] \in Event /\ [e EXCEPT !.kind = kind].kind = kind
  BY DEF Event
<1>3. "error" \in EventKinds /\ "error" \in NotDone
  BY DEF EventKinds, NotDone
<1>4. e.kind \in NotDone
  BY EventsNamed DEF NeedsCall, NotDone
<1>5. CASE reply = <<>>
  BY <1>5, NoEvents
<1>6. CASE \E kind \in NotDone : reply = <<[e EXCEPT !.kind = kind]>> /\ e.kind # "error"
  BY <1>2, <1>6, OneEvent DEF NotDone
<1>7. CASE reply = <<[e EXCEPT !.kind = "error"]>>
  BY <1>2, <1>3, <1>7, OneEvent
<1>8. CASE reply = <<e>>
  BY <1>4, <1>8, OneEvent
<1> QED BY <1>1, <1>5, <1>6, <1>7, <1>8

LEMMA CallReturnsHolds ==
  ASSUME AgentInv, CallReturns PROVE AgentInv'
<1>0. calling # NoEvent /\ calling \in Event /\ calling.kind \in NeedsCall
  BY DEF AgentInv, AgentTypeOK, CallReturns, Standing
<1>1. PICK reply \in Replies(calling) : streamed' = streamed \o reply
  BY DEF CallReturns
<1>2. /\ UNCHANGED <<provider, configured, at, socket, broke, registered, gateway, heard, outbox,
                      sawDone, sent, answers>>
      /\ calling' = NoEvent
  BY DEF CallReturns, Settings, socketVars
<1>3. /\ reply \in Seq(Event) /\ Only(reply, NotDone)
      /\ calling.kind = "error" => Only(reply, {"error", "done"})
  BY <1>0, RepliesAre
<1>4. /\ streamed' \in Seq(Event)
      /\ \A kinds : Only(streamed, kinds) /\ Only(reply, kinds) => Only(streamed', kinds)
      /\ HasDone(streamed) => HasDone(streamed')
  BY <1>1, <1>3, Concatenated DEF AgentInv, AgentTypeOK
<1>5. Only(streamed', NotDone) => DoneIsLast(streamed')
  BY DEF Only, NotDone, DoneIsLast
<1>6. at \notin {"new", "submitting", "connecting", "handshaking", "fetching", "ended"}
  BY <1>0 DEF AgentInv, Standing, Pulled
<1> USE DEF AgentInv
<1>7. AgentTypeOK'
  BY <1>2, <1>4 DEF AgentTypeOK
<1>8. Standing'
  BY <1>2, <1>6 DEF Standing
<1>9. DoneIsComing'
  BY <1>2, <1>4, <1>6 DEF DoneIsComing
<1>10. DoneComesLast'
  BY <1>0, <1>2, <1>3, <1>4, <1>5 DEF DoneComesLast
<1>11. SocketIsHeld' /\ Counted'
  BY <1>2 DEF SocketIsHeld, Counted
<1>12. Unaccepted'
  BY <1>0, <1>2, <1>3, <1>4 DEF Unaccepted
<1> QED BY <1>7, <1>8, <1>9, <1>10, <1>11, <1>12

LEMMA ReturnHolds ==
  ASSUME AgentInv, Return PROVE AgentInv'
<1> USE NoEvents DEF AgentInv, Return, CloseSession, Settings, bridgeVars, Pulled
<1>1. AgentTypeOK'
  BY DEF AgentTypeOK, Awaits
<1>2. Standing'
  BY DEF Standing
<1>3. DoneIsComing'
  BY DEF DoneIsComing
<1>4. DoneComesLast'
  BY DEF DoneComesLast
<1>5. SocketIsHeld' /\ Counted'
  BY DEF SocketIsHeld, Counted, AgentTypeOK
<1>6. Unaccepted'
  BY DEF Unaccepted
<1> QED BY <1>1, <1>2, <1>3, <1>4, <1>5, <1>6

-----------------------------------------------------------------------------
(* The socket.                                                             *)

LEMMA SocketOpensHolds ==
  ASSUME AgentInv, SocketOpens PROVE AgentInv'
<1> USE NoEvents DEF AgentInv, SocketOpens, Settings, bridgeVars
<1>1. AgentTypeOK'
  BY DEF AgentTypeOK, Awaits
<1>2. Standing'
  BY DEF Standing, Pulled
<1>3. DoneIsComing'
  BY DEF DoneIsComing
<1>4. DoneComesLast'
  BY DEF DoneComesLast
<1>5. SocketIsHeld' /\ Counted'
  BY DEF SocketIsHeld, Counted
<1>6. Unaccepted'
  BY DEF Unaccepted
<1> QED BY <1>1, <1>2, <1>3, <1>4, <1>5, <1>6

LEMMA ConnectFailsHolds ==
  ASSUME AgentInv, ConnectFails PROVE AgentInv'
<1> USE NoEvents, FailureIs DEF AgentInv, ConnectFails, Settings
<1>1. AgentTypeOK'
  BY DEF AgentTypeOK, Awaits
<1>2. Standing'
  BY DEF Standing, Pulled
<1>3. DoneIsComing'
  BY DEF DoneIsComing
<1>4. DoneComesLast'
  BY DEF DoneComesLast, Standing, Pulled
<1>5. SocketIsHeld' /\ Counted'
  BY DEF SocketIsHeld, Counted
<1>6. Unaccepted'
  BY DEF Unaccepted, Standing
<1> QED BY <1>1, <1>2, <1>3, <1>4, <1>5, <1>6

LEMMA SocketEndsHolds ==
  ASSUME AgentInv, SocketEnds PROVE AgentInv'
<1> USE DEF AgentInv, SocketEnds, MayDeliver, Settings, bridgeVars
<1>1. AgentTypeOK'
  BY DEF AgentTypeOK
<1>2. Standing'
  BY DEF Standing, Pulled
<1>3. DoneIsComing'
  BY DEF DoneIsComing
<1>4. DoneComesLast'
  BY DEF DoneComesLast
<1>5. SocketIsHeld' /\ Counted'
  BY DEF SocketIsHeld, Counted
<1>6. Unaccepted'
  BY DEF Unaccepted
<1> QED BY <1>1, <1>2, <1>3, <1>4, <1>5, <1>6

Gateways == [asked : SUBSET {"connect", "intention"}, accepted : BOOLEAN]

(* A gateway that sends a hello has accepted, and no frame makes it forget *)
(* that or gives it a request.                                             *)
LEMMA Sending ==
  ASSUME NEW g \in Gateways, NEW kind \in FrameKinds, MaySend(g, kind)
  PROVE  /\ AfterSending(g, kind) \in Gateways
         /\ AfterSending(g, kind).asked \subseteq g.asked
         /\ g.accepted \/ kind = "ok" => AfterSending(g, kind).accepted
<1>1. CASE kind = "ok" /\ "connect" \in g.asked
  <2>1. AfterSending(g, kind) = [asked |-> g.asked \ {"connect"}, accepted |-> TRUE]
    BY <1>1 DEF AfterSending
  <2> QED BY <2>1 DEF Gateways
<1>2. CASE kind = "refusal"
  <2>1. AfterSending(g, kind) = [g EXCEPT !.asked = @ \ {"connect"}]
    BY <1>2 DEF AfterSending
  <2> QED BY <1>2, <2>1 DEF Gateways
<1>3. CASE kind # "refusal" /\ ~(kind = "ok" /\ "connect" \in g.asked)
  <2>1. AfterSending(g, kind) = g
    BY <1>3 DEF AfterSending
  <2> QED BY <1>3, <2>1 DEF MaySend
<1> QED BY <1>1, <1>2, <1>3

(* Frames that were heard by the queue.                                    *)
LEMMA DeliveryHolds ==
  ASSUME AgentInv, MayDeliver, NEW frames \in Seq(FrameKinds), Deliver(frames),
         sent + Len(frames) <= MaxFrames, gateway' \in Gateways,
         gateway'.asked \subseteq gateway.asked,
         gateway.accepted \/ (\E i \in 1..Len(frames) : frames[i] = "ok") => gateway'.accepted,
         UNCHANGED <<Settings, at, socketVars, bridgeVars, sawDone>>
  PROVE  AgentInv'
<1> USE DEF AgentInv, Settings, socketVars, bridgeVars
<1>1. heard \in Seq(FrameKinds) /\ answers \in Seq(FrameKinds) /\ sent \in 0..MaxFrames
  BY DEF AgentTypeOK
<1>2. heard' = heard \o frames /\ heard' \in Seq(FrameKinds) /\ answers' \in Seq(FrameKinds)
      /\ sent' \in 0..MaxFrames
  BY <1>1, AgentAssumption DEF Deliver
<1>3. AgentTypeOK'
  BY <1>2 DEF AgentTypeOK, Gateways
<1>4. Standing'
  BY DEF Standing, Pulled
<1>5. DoneIsComing'
  BY DEF DoneIsComing
<1>6. DoneComesLast'
  BY DEF DoneComesLast
<1>7. SocketIsHeld' /\ Counted'
  <2>1. /\ Len(heard') = Len(heard) + Len(frames) /\ sent' = sent + Len(frames)
        /\ Len(answers') \in {Len(answers), Len(answers) + Len(frames)}
        /\ at = "streaming" => Len(answers') = Len(answers) + Len(frames)
        /\ Len(answers) \in Nat /\ Len(heard) \in Nat /\ Len(frames) \in Nat
    BY <1>1 DEF Deliver
  <2> QED BY <1>1, <2>1 DEF SocketIsHeld, Counted
<1>8. ~gateway'.accepted => \A i \in 1..Len(heard') : heard'[i] # "ok"
  <2> SUFFICES ASSUME ~gateway'.accepted, NEW i \in 1..Len(heard') PROVE heard'[i] # "ok"
    OBVIOUS
  <2>1. ~gateway.accepted /\ \A j \in 1..Len(frames) : frames[j] # "ok"
    OBVIOUS
  <2>2. \A j \in 1..Len(heard) : heard[j] # "ok"
    BY <2>1 DEF Unaccepted
  <2>3. heard'[i] = IF i <= Len(heard) THEN heard[i] ELSE frames[i - Len(heard)]
    BY <1>1, <1>2
  <2>4. i <= Len(heard) \/ i - Len(heard) \in 1..Len(frames)
    BY <1>1, <1>2
  <2>5. i <= Len(heard) => i \in 1..Len(heard)
    BY <1>1
  <2> QED BY <2>1, <2>2, <2>3, <2>4, <2>5
<1>9. Unaccepted'
  BY <1>8 DEF Unaccepted
<1> QED BY <1>3, <1>4, <1>5, <1>6, <1>7, <1>9

LEMMA GatewaySendsHolds ==
  ASSUME AgentInv, GatewaySends PROVE AgentInv'
<1>1. gateway \in Gateways /\ sent \in Nat /\ MaxFrames \in Nat
  BY AgentAssumption DEF AgentInv, AgentTypeOK, Gateways
<1>2. MayDeliver /\ UNCHANGED <<Settings, at, socketVars, bridgeVars, sawDone>>
  BY DEF GatewaySends
<1>3. CASE \E kind \in FrameKinds :
             /\ sent < MaxFrames
             /\ MaySend(gateway, kind)
             /\ Deliver(<<kind>>)
             /\ gateway' = AfterSending(gateway, kind)
  <2>1. PICK kind \in FrameKinds :
             /\ sent < MaxFrames
             /\ MaySend(gateway, kind)
             /\ Deliver(<<kind>>)
             /\ gateway' = AfterSending(gateway, kind)
    BY <1>3
  <2> DEFINE frames == <<kind>>
  <2>2. frames \in Seq(FrameKinds) /\ Len(frames) = 1 /\ \A i \in 1..1 : frames[i] = kind
    OBVIOUS
  <2> HIDE DEF frames
  <2>3. /\ gateway' \in Gateways /\ gateway'.asked \subseteq gateway.asked
        /\ gateway.accepted \/ kind = "ok" => gateway'.accepted
    BY <1>1, <2>1, Sending
  <2>4. sent + Len(frames) <= MaxFrames /\ Deliver(frames)
    BY <1>1, <2>1, <2>2 DEF frames
  <2> QED BY <1>2, <2>2, <2>3, <2>4, DeliveryHolds
<1>4. CASE \E kind, next \in FrameKinds :
             /\ sent + 1 < MaxFrames
             /\ MaySend(gateway, kind)
             /\ MaySend(AfterSending(gateway, kind), next)
             /\ Deliver(<<kind, next>>)
             /\ gateway' = AfterSending(AfterSending(gateway, kind), next)
  <2>1. PICK kind, next \in FrameKinds :
             /\ sent + 1 < MaxFrames
             /\ MaySend(gateway, kind)
             /\ MaySend(AfterSending(gateway, kind), next)
             /\ Deliver(<<kind, next>>)
             /\ gateway' = AfterSending(AfterSending(gateway, kind), next)
    BY <1>4
  <2> DEFINE frames == <<kind, next>>
  <2>2. /\ frames \in Seq(FrameKinds) /\ Len(frames) = 2
        /\ \A i \in 1..2 : frames[i] = kind \/ frames[i] = next
    OBVIOUS
  <2> HIDE DEF frames
  <2>3. /\ AfterSending(gateway, kind) \in Gateways
        /\ AfterSending(gateway, kind).asked \subseteq gateway.asked
        /\ gateway.accepted \/ kind = "ok" => AfterSending(gateway, kind).accepted
    BY <1>1, <2>1, Sending
  <2>4. /\ gateway' \in Gateways /\ gateway'.asked \subseteq AfterSending(gateway, kind).asked
        /\ AfterSending(gateway, kind).accepted \/ next = "ok" => gateway'.accepted
    BY <2>1, <2>3, Sending
  <2>5. sent + Len(frames) <= MaxFrames /\ Deliver(frames)
    BY <1>1, <2>1, <2>2 DEF frames
  <2> QED BY <1>2, <2>2, <2>3, <2>4, <2>5, DeliveryHolds
<1> QED BY <1>3, <1>4 DEF GatewaySends

-----------------------------------------------------------------------------
(* The handshake.                                                          *)

LEMMA QueueTaken ==
  ASSUME heard \in Seq(FrameKinds), heard # <<>>, heard' = Tail(heard)
  PROVE  /\ heard' \in Seq(FrameKinds) /\ Head(heard) \in FrameKinds
         /\ (\A i \in 1..Len(heard) : heard[i] # "ok") =>
               Head(heard) # "ok" /\ \A i \in 1..Len(heard') : heard'[i] # "ok"
<1>1. /\ Len(heard) \in Nat /\ Len(heard) >= 1
      /\ Head(heard) = heard[1] /\ heard[1] \in FrameKinds
      /\ heard' \in Seq(FrameKinds) /\ Len(heard') = Len(heard) - 1
      /\ \A i \in 1..(Len(heard) - 1) : heard'[i] = heard[i + 1]
  OBVIOUS
<1>2. \A i \in 1..(Len(heard) - 1) : i + 1 \in 1..Len(heard)
  BY <1>1
<1> QED BY <1>1, <1>2

LEMMA RequestTypes ==
  ASSUME gateway \in Gateways, NEW name \in {"connect", "intention"}, Request(name)
  PROVE  /\ gateway' \in Gateways /\ gateway'.accepted = gateway.accepted
         /\ gateway'.asked \subseteq gateway.asked \union {name}
<1>1. CASE socket = "open"
  <2>1. gateway' = [gateway EXCEPT !.asked = @ \union {name}]
    BY <1>1 DEF Request
  <2> QED BY <2>1 DEF Gateways
<1>2. CASE socket # "open"
  BY <1>2 DEF Request
<1> QED BY <1>1, <1>2

LEMMA HandshakeReadsHolds ==
  ASSUME AgentInv, HandshakeReads PROVE AgentInv'
<1> USE DEF AgentInv
<1>0. gateway \in Gateways /\ heard \in Seq(FrameKinds) /\ heard # <<>> /\ heard' = Tail(heard)
      /\ at = "handshaking"
  BY DEF AgentTypeOK, Gateways, HandshakeReads
<1>1. /\ gateway' \in Gateways /\ gateway'.accepted = gateway.accepted
      /\ gateway'.asked \subseteq gateway.asked \union {"connect"}
  <2>1. Request("connect") \/ gateway' = gateway
    BY DEF HandshakeReads
  <2> QED BY <1>0, <2>1, RequestTypes
<1>2. UNCHANGED <<provider, configured, at, socket, broke, registered, outbox, calling, streamed,
                  sawDone, sent, answers>>
  BY DEF HandshakeReads, Settings, socketVars, bridgeVars
<1>3. AgentTypeOK'
  BY <1>0, <1>1, <1>2, QueueTaken DEF AgentTypeOK, Gateways
<1>4. Standing'
  BY <1>2 DEF Standing, Pulled
<1>5. DoneIsComing'
  BY <1>2 DEF DoneIsComing
<1>6. DoneComesLast'
  BY <1>2 DEF DoneComesLast
<1>7. SocketIsHeld' /\ Counted'
  BY <1>0, <1>2 DEF SocketIsHeld, Counted
<1>8. Unaccepted'
  BY <1>0, <1>1, <1>2, QueueTaken DEF Unaccepted
<1> QED BY <1>3, <1>4, <1>5, <1>6, <1>7, <1>8

LEMMA HandshakeAcceptedHolds ==
  ASSUME AgentInv, HandshakeAccepted PROVE AgentInv'
<1> USE DEF AgentInv
<1>0. /\ at = "handshaking" /\ heard # <<>> /\ Head(heard) = "ok" /\ Request("intention")
      /\ streamed' = streamed \o <<Own("session"), Own("status")>>
      /\ heard' = <<>> /\ at' = "streaming"
      /\ UNCHANGED <<provider, configured, socket, broke, registered, outbox, calling, sawDone,
                     sent, answers>>
  BY DEF HandshakeAccepted, Settings, socketVars
<1>1. gateway \in Gateways /\ heard \in Seq(FrameKinds) /\ streamed \in Seq(Event)
  BY DEF AgentTypeOK, Gateways
<1>2. gateway.accepted
  <2>1. 1 \in 1..Len(heard) /\ heard[1] = "ok"
    BY <1>0, <1>1
  <2> QED BY <2>1 DEF Unaccepted
<1>3. gateway' \in Gateways /\ gateway'.accepted
  BY <1>0, <1>1, <1>2, RequestTypes
<1> DEFINE hello == <<Own("session"), Own("status")>>
<1>4. hello \in Seq(Event) /\ Only(hello, NotDone)
  <2>1. Own("session") \in Event /\ Own("status") \in Event
        /\ Own("session").kind = "session" /\ Own("status").kind = "status"
    BY EventsNamed DEF EventKinds
  <2> QED BY <2>1 DEF Only, NotDone, EventKinds
<1>5. provider = "openclaw" /\ Pulled /\ Only(streamed, NotDone)
  BY <1>0 DEF Standing, DoneComesLast
<1>6. streamed' \in Seq(Event) /\ Only(streamed', NotDone) /\ DoneIsLast(streamed')
  <2> HIDE DEF hello
  <2>1. streamed' \in Seq(Event) /\ Only(streamed', NotDone)
    BY <1>0, <1>1, <1>4, <1>5, Concatenated DEF hello
  <2> QED BY <2>1 DEF Only, NotDone, DoneIsLast
<1>7. HasDone(streamed) => HasDone(streamed')
  BY <1>0, <1>1, <1>4, Concatenated
<1>8. AgentTypeOK'
  BY <1>0, <1>3, <1>6 DEF AgentTypeOK, Awaits, Gateways
<1>9. Standing'
  BY <1>0, <1>5 DEF Standing
<1>10. DoneIsComing'
  BY <1>0, <1>7 DEF DoneIsComing
<1>11. DoneComesLast'
  BY <1>0, <1>6 DEF DoneComesLast
<1>12. SocketIsHeld' /\ Counted'
  BY <1>0, <1>1 DEF SocketIsHeld, Counted, AgentTypeOK
<1>13. Unaccepted'
  BY <1>3 DEF Unaccepted
<1> QED BY <1>8, <1>9, <1>10, <1>11, <1>12, <1>13

LEMMA HandshakeRefusedHolds ==
  ASSUME AgentInv, HandshakeRefused PROVE AgentInv'
<1> USE FailureIs DEF AgentInv
<1>0. /\ at = "handshaking" /\ socket' = "closed" /\ registered' = FALSE
      /\ outbox' = Failure /\ at' = "returning"
      /\ UNCHANGED <<provider, configured, broke, gateway, heard, calling, streamed, sawDone,
                     sent, answers>>
  BY DEF HandshakeRefused, Settings
<1>1. AgentTypeOK'
  BY <1>0 DEF AgentTypeOK, Awaits
<1>2. Standing'
  BY <1>0 DEF Standing, Pulled
<1>3. DoneIsComing'
  BY <1>0 DEF DoneIsComing
<1>4. DoneComesLast'
  BY <1>0 DEF DoneComesLast, Standing, Pulled
<1>5. SocketIsHeld' /\ Counted'
  BY <1>0 DEF SocketIsHeld, Counted
<1>6. Unaccepted'
  BY <1>0 DEF Unaccepted
<1> QED BY <1>1, <1>2, <1>3, <1>4, <1>5, <1>6

LEMMA HandshakeThrowsHolds ==
  ASSUME AgentInv, HandshakeThrows PROVE AgentInv'
<1> USE FailureIs DEF AgentInv
<1>0. /\ at = "handshaking" /\ streamed' = streamed \o Failure /\ at' = "ended"
      /\ registered' = FALSE /\ socket' = (IF socket = "none" THEN "none" ELSE "closed")
      /\ UNCHANGED <<provider, configured, broke, gateway, heard, outbox, calling, sawDone,
                     sent, answers>>
  BY DEF HandshakeThrows, Throw, CloseSession, Settings
<1>1. /\ streamed' \in Seq(Event) /\ HasDone(streamed')
      /\ Only(streamed, NotDone) => DoneIsLast(streamed')
      /\ \A kinds : Only(streamed, kinds) /\ Only(Failure, kinds) => Only(streamed', kinds)
  BY <1>0, Concatenated DEF AgentTypeOK
<1>2. AgentTypeOK'
  BY <1>0, <1>1 DEF AgentTypeOK, Awaits
<1>3. Standing'
  BY <1>0 DEF Standing, Pulled
<1>4. DoneIsComing'
  BY <1>0, <1>1 DEF DoneIsComing
<1>5. DoneComesLast'
  BY <1>0, <1>1, NoEvents DEF DoneComesLast, Standing, Pulled
<1>6. SocketIsHeld' /\ Counted'
  BY <1>0 DEF SocketIsHeld, Counted
<1>7. Unaccepted'
  BY <1>0, <1>1 DEF Unaccepted
<1> QED BY <1>2, <1>3, <1>4, <1>5, <1>6, <1>7

-----------------------------------------------------------------------------
(* The streams.                                                            *)

LEMMA Decoded ==
  ASSUME NEW kind \in FrameKinds, NEW n \in 0..MaxFrames
  PROVE  /\ DecodeFrame(kind, n) \in Seq(Event) /\ DoneIsLast(DecodeFrame(kind, n))
         /\ IF kind \in {"shutdown", "null"} THEN HasDone(DecodeFrame(kind, n))
            ELSE Only(DecodeFrame(kind, n), NotDone)
<1>1. \A event \in EventKinds : [kind |-> event, of |-> n] \in Event
  BY DEF Event
<1>2. CASE kind = "null"
  <2>1. DecodeFrame(kind, n) = Failure
    BY <1>2 DEF DecodeFrame
  <2> QED BY <1>2, <2>1, FailureIs
<1>3. CASE kind = "shutdown"
  <2>1. DecodeFrame(kind, n) = <<[kind |-> "done", of |-> n]>>
    BY <1>3 DEF DecodeFrame
  <2> QED BY <1>1, <1>3, <2>1, OneEvent DEF EventKinds
<1>4. CASE kind \notin {"null", "shutdown"}
  <2>1. DecodeFrame(kind, n) = <<>> \/ \E event \in NotDone :
                                            DecodeFrame(kind, n) = <<[kind |-> event, of |-> n]>>
    BY <1>4 DEF DecodeFrame, NotDone, EventKinds
  <2>2. ASSUME NEW event \in NotDone, DecodeFrame(kind, n) = <<[kind |-> event, of |-> n]>>
        PROVE  DecodeFrame(kind, n) \in Seq(Event) /\ Only(DecodeFrame(kind, n), NotDone)
                 /\ DoneIsLast(DecodeFrame(kind, n))
    <3>1. [kind |-> event, of |-> n] \in Event
      BY <1>1 DEF NotDone
    <3> QED BY <2>2, <3>1, OneEvent
  <2> QED BY <1>4, <2>1, <2>2, NoEvents
<1> QED BY <1>2, <1>3, <1>4

LEMMA StreamReadsHolds ==
  ASSUME AgentInv, StreamReads PROVE AgentInv'
<1> USE DEF AgentInv
<1> DEFINE n == Len(answers) - Len(heard) + 1
<1>0. /\ at = "streaming" /\ Pulled /\ heard # <<>> /\ heard' = Tail(heard)
      /\ outbox' = DecodeFrame(Head(heard), n)
      /\ at' = IF Head(heard) \in {"shutdown", "null"} THEN "returning" ELSE "streaming"
      /\ UNCHANGED <<provider, configured, socket, broke, registered, gateway, calling, streamed,
                     sawDone, sent, answers>>
  BY DEF StreamReads, Settings, socketVars
<1>1. /\ heard \in Seq(FrameKinds) /\ answers \in Seq(FrameKinds) /\ sent \in 0..MaxFrames
      /\ Len(heard) >= 1 /\ Len(heard) \in Nat /\ Len(answers) \in Nat
      /\ heard' \in Seq(FrameKinds) /\ Len(heard') = Len(heard) - 1 /\ Head(heard) \in FrameKinds
  BY <1>0, AgentAssumption DEF AgentTypeOK
<1>2. n \in 0..MaxFrames
  BY <1>0, <1>1, AgentAssumption DEF Counted
<1> HIDE DEF n
<1>3. /\ outbox' \in Seq(Event) /\ DoneIsLast(outbox')
      /\ at' = "returning" => HasDone(outbox')
      /\ at' = "streaming" => Only(outbox', NotDone)
      /\ at' \in {"returning", "streaming"}
  BY <1>0, <1>1, <1>2, Decoded
<1>4. provider = "openclaw" /\ Only(streamed, NotDone) /\ calling = NoEvent
  BY <1>0 DEF Standing, DoneComesLast, Pulled
<1>5. AgentTypeOK'
  BY <1>0, <1>1, <1>3 DEF AgentTypeOK, Awaits
<1>6. Standing'
  BY <1>0, <1>3, <1>4 DEF Standing
<1>7. DoneIsComing'
  <2>1. sawDone => HasDone(streamed)
    BY <1>0, NoEvents DEF DoneIsComing, Pulled
  <2> QED BY <1>0, <1>3, <2>1 DEF DoneIsComing
<1>8. DoneComesLast'
  BY <1>0, <1>3, <1>4 DEF DoneComesLast
<1>9. SocketIsHeld' /\ Counted'
  BY <1>0, <1>1, <1>3 DEF SocketIsHeld, Counted
<1>10. Unaccepted'
  BY <1>0, <1>3 DEF Unaccepted
<1> QED BY <1>5, <1>6, <1>7, <1>8, <1>9, <1>10

LEMMA StreamClosesHolds ==
  ASSUME AgentInv, StreamCloses PROVE AgentInv'
<1> USE DEF AgentInv
<1>0. /\ at = "streaming" /\ Pulled /\ at' = "returning"
      /\ outbox' = Failure \/ outbox' = <<Own("done")>>
      /\ UNCHANGED <<provider, configured, socket, broke, registered, gateway, heard, calling,
                     streamed, sawDone, sent, answers>>
  BY DEF StreamCloses, Settings, socketVars
<1>1. outbox' \in Seq(Event) /\ HasDone(outbox') /\ DoneIsLast(outbox')
  <2>1. Own("done") \in Event /\ Own("done").kind = "done"
    BY EventsNamed DEF EventKinds
  <2> QED BY <1>0, <2>1, FailureIs, OneEvent
<1>2. AgentTypeOK'
  BY <1>0, <1>1 DEF AgentTypeOK, Awaits
<1>3. Standing'
  BY <1>0 DEF Standing, Pulled
<1>4. DoneIsComing'
  BY <1>0, <1>1 DEF DoneIsComing
<1>5. DoneComesLast'
  BY <1>0, <1>1 DEF DoneComesLast
<1>6. SocketIsHeld' /\ Counted'
  BY <1>0 DEF SocketIsHeld, Counted
<1>7. Unaccepted'
  BY <1>0 DEF Unaccepted
<1> QED BY <1>2, <1>3, <1>4, <1>5, <1>6, <1>7

(* The hosted provider goes on when all it yielded is dealt with, so a     *)
(* `done` it has seen is in the stream.                                    *)
LEMMA HostedPulled ==
  ASSUME AgentInv, Hosted
  PROVE  /\ Pulled /\ provider = "hosted" /\ (sawDone => HasDone(streamed))
         /\ at \in {"fetching", "reading"}
<1> USE DEF AgentInv
<1>1. at \in {"fetching", "reading"} /\ (at = "fetching" \/ Pulled)
  BY DEF Hosted, HostedAnswers, HostedLine, HostedEnds, HostedFails
<1>2. Pulled
  BY <1>1 DEF Standing
<1> QED BY <1>1, <1>2, NoEvents DEF DoneIsComing, Standing, Pulled

(* A step to `reading` or to the end of the hosted provider's run.         *)
LEMMA HostedMoves ==
  ASSUME AgentInv, Pulled, provider = "hosted", at \in {"fetching", "reading"},
         at' \in {"reading", "returning"}, outbox' \in Seq(Event),
         sent' \in 0..MaxFrames, sent <= sent', sawDone' \in BOOLEAN,
         sawDone' \/ at' = "returning" => HasDone(streamed) \/ HasDone(outbox'),
         UNCHANGED <<provider, configured, socket, broke, registered, gateway, heard, calling,
                     streamed, answers>>
  PROVE  AgentInv'
<1> USE DEF AgentInv
<1>1. AgentTypeOK'
  BY DEF AgentTypeOK, Awaits
<1>2. Standing'
  BY DEF Standing, Pulled
<1>3. DoneIsComing'
  BY DEF DoneIsComing
<1>4. DoneComesLast'
  BY DEF DoneComesLast
<1>5. SocketIsHeld' /\ Counted'
  BY AgentAssumption DEF SocketIsHeld, Counted, AgentTypeOK
<1>6. Unaccepted'
  BY DEF Unaccepted
<1> QED BY <1>1, <1>2, <1>3, <1>4, <1>5, <1>6

LEMMA HostedHolds ==
  ASSUME AgentInv, Hosted PROVE AgentInv'
<1>1. /\ Pulled /\ provider = "hosted" /\ (sawDone => HasDone(streamed))
      /\ at \in {"fetching", "reading"}
  BY HostedPulled
<1>2. /\ outbox \in Seq(Event) /\ sent \in 0..MaxFrames /\ MaxFrames \in Nat /\ sawDone \in BOOLEAN
      /\ outbox = <<>>
  BY <1>1, AgentAssumption DEF AgentInv, AgentTypeOK, Pulled
<1>3. CASE HostedAnswers
  <2>1. /\ at' = "reading" /\ outbox' = outbox /\ sent' = sent /\ sawDone' = sawDone
        /\ UNCHANGED <<provider, configured, socket, broke, registered, gateway, heard, calling,
                       streamed, answers>>
    BY <1>3 DEF HostedAnswers, Settings, socketVars, bridgeVars
  <2> QED BY <1>1, <1>2, <2>1, HostedMoves
<1>4. CASE HostedLine
  <2>1. /\ at' = at /\ at = "reading" /\ sent < MaxFrames /\ sent' = sent + 1
        /\ UNCHANGED <<provider, configured, socket, broke, registered, gateway, heard, calling,
                       streamed, answers>>
    BY <1>4 DEF HostedLine, Settings, socketVars
  <2>2. sent' \in 0..MaxFrames /\ sent <= sent'
    BY <1>2, <2>1
  <2>3. \/ \E kind \in EventKinds : /\ outbox' = <<[kind |-> kind, of |-> sent']>>
                                  /\ sawDone' = (sawDone \/ kind = "done")
        \/ outbox' = outbox /\ sawDone' = sawDone
    BY <1>4 DEF HostedLine, EventKinds
  <2>4. ASSUME NEW kind \in EventKinds, outbox' = <<[kind |-> kind, of |-> sent']>>,
               sawDone' = (sawDone \/ kind = "done")
        PROVE  AgentInv'
    <3>1. [kind |-> kind, of |-> sent'] \in Event
      BY <2>2 DEF Event
    <3>2. outbox' \in Seq(Event) /\ (kind = "done" => HasDone(outbox'))
      BY <2>4, <3>1, OneEvent
    <3>3. sawDone' \in BOOLEAN /\ (sawDone' => HasDone(streamed) \/ HasDone(outbox'))
      BY <1>1, <1>2, <2>4, <3>2
    <3> QED BY <1>1, <2>1, <2>2, <3>2, <3>3, HostedMoves
  <2>5. CASE outbox' = outbox /\ sawDone' = sawDone
    BY <1>1, <1>2, <2>1, <2>2, <2>5, HostedMoves
  <2> QED BY <2>3, <2>4, <2>5
<1>5. CASE HostedEnds \/ HostedFails
  <2>1. /\ at' = "returning" /\ sent' = sent /\ sawDone' = sawDone
        /\ outbox' = Failure \/ (outbox' = <<>> /\ sawDone)
        /\ UNCHANGED <<provider, configured, socket, broke, registered, gateway, heard, calling,
                       streamed, answers>>
    BY <1>5 DEF HostedEnds, HostedFails, Settings, socketVars
  <2>2. outbox' \in Seq(Event) /\ (HasDone(streamed) \/ HasDone(outbox'))
    BY <1>1, <2>1, FailureIs, NoEvents
  <2> QED BY <1>1, <1>2, <2>1, <2>2, HostedMoves
<1> QED BY <1>3, <1>4, <1>5 DEF Hosted

-----------------------------------------------------------------------------
LEMMA StepHolds == AgentInv /\ [Next]_vars => AgentInv'
<1> SUFFICES ASSUME AgentInv, [Next]_vars PROVE AgentInv'
  OBVIOUS
<1>1. CASE Bridge
  BY <1>1, BeginHolds, SubmittedHolds, TakeHolds, CallReturnsHolds, ReturnHolds DEF Bridge
<1>2. CASE OpenClaw
  BY <1>2, SocketOpensHolds, ConnectFailsHolds, HandshakeReadsHolds, HandshakeAcceptedHolds,
     HandshakeRefusedHolds, HandshakeThrowsHolds, StreamReadsHolds, StreamClosesHolds
     DEF OpenClaw, Handshake
<1>3. CASE Hosted
  BY <1>3, HostedHolds
<1>4. CASE Gateway
  BY <1>4, GatewaySendsHolds, SocketEndsHolds DEF Gateway
<1>5. CASE UNCHANGED vars
  BY <1>5 DEF vars, socketVars, bridgeVars, AgentInv, AgentTypeOK, Standing, Pulled, DoneIsComing,
     DoneComesLast, SocketIsHeld, Counted, Unaccepted
<1> QED BY <1>1, <1>2, <1>3, <1>4, <1>5 DEF Next

(* The run as a whole: where the provider stands, what it holds of the     *)
(* socket, of the queue and of the stream.                                 *)
THEOREM AgentInvariant == Spec => []AgentInv
  BY InitHolds, StepHolds, PTL DEF Spec

(* A response that has ended holds a `done`, and with OpenClaw and the     *)
(* mock one alone, at its end (bridge.ts and the providers).               *)
THEOREM StreamsAreTerminated == Spec => []StreamIsTerminated
<1>1. AgentInv => StreamIsTerminated
  <2> SUFFICES ASSUME AgentInv PROVE StreamIsTerminated
    OBVIOUS
  <2>1. at = "ended" => Done(streamed) # {}
    BY DEF AgentInv, DoneIsComing, HasDone, Done
  <2>2. provider # "hosted" => Done(streamed) \subseteq {Len(streamed)}
    BY DEF AgentInv, DoneComesLast, DoneIsLast, Done
  <2> QED BY <2>1, <2>2 DEF StreamIsTerminated
<1> QED BY <1>1, AgentInvariant, PTL

(* A run that has ended holds no socket (openclaw.ts, closeSession).       *)
THEOREM SessionsAreReleased == Spec => []SessionIsReleased
<1>1. AgentInv => SessionIsReleased
  BY DEF AgentInv, SocketIsHeld, SessionIsReleased
<1> QED BY <1>1, AgentInvariant, PTL

(* No intention and no session before the gateway's hello (openclaw.ts).   *)
THEOREM HelloComesFirst == Spec => []NothingBeforeHello
<1>1. AgentInv => NothingBeforeHello
  BY DEF AgentInv, Unaccepted, Only, NothingBeforeHello
<1> QED BY <1>1, AgentInvariant, PTL

-----------------------------------------------------------------------------
(* From the gateway's frames to the stream, in order.  An event moves from *)
(* the outbox through the call the bridge makes for it into the stream; it *)
(* carries the number of its frame, and numbers grow along that way.       *)

ReadSoFar == Len(answers) - Len(heard)

Silent(s) == \A i \in 1..Len(s) : s[i].of = 0
Ordered(s) == \A k, l \in 1..Len(s) : k < l /\ s[l].of # 0 => s[k].of < s[l].of
Before(s, n) == n # 0 => \A i \in 1..Len(s) : s[i].of < n
UpTo(s, n) == \A i \in 1..Len(s) : s[i].of <= n
Shows(s, n) == \E k \in 1..Len(s) : s[k].of = n
Yields(s, n) == \E k \in 1..Len(s) : s[k].of = n /\ s[k].kind # "approval"

InOrder ==
    /\ Ordered(streamed) /\ Ordered(outbox)
    /\ Before(streamed, calling.of)
    /\ \A j \in 1..Len(outbox) :
         /\ Before(streamed, outbox[j].of)
         /\ outbox[j].of # 0 => calling.of < outbox[j].of

(* No event is of a frame that is still to be read.                        *)
NoneAhead(n) == UpTo(streamed, n) /\ calling.of <= n /\ UpTo(outbox, n)
Behind ==
    /\ provider = "hosted" => NoneAhead(sent)
    /\ at = "streaming" => NoneAhead(ReadSoFar)

(* What is in the queue is the end of what has come.                       *)
Unread ==
    /\ at \notin {"streaming", "returning", "ended"} => answers = <<>>
    /\ at = "streaming" => \A m \in 1..Len(heard) : heard[m] = answers[ReadSoFar + m]

(* A frame that carries something is streamed, or on its way, or unread.   *)
Dealt ==
    \A n \in UpToTheLast : answers[n] \in Carries =>
        \/ Shows(streamed, n)
        \/ calling.of = n /\ calling.kind # "approval"
        \/ Yields(outbox, n)
        \/ at = "streaming" /\ n > ReadSoFar

FlowInv == InOrder /\ Behind /\ Unread /\ Dealt

(* What the steps have to know of the state.                               *)
LEMMA FlowTypes ==
  ASSUME AgentInv
  PROVE  /\ outbox \in Seq(Event) /\ streamed \in Seq(Event) /\ calling \in Event \union {NoEvent}
         /\ Len(outbox) \in Nat /\ Len(streamed) \in Nat
         /\ heard \in Seq(FrameKinds) /\ answers \in Seq(FrameKinds)
         /\ Len(heard) \in Nat /\ Len(answers) \in Nat
         /\ calling.of \in Nat /\ NoEvent.of = 0 /\ sent \in Nat /\ ReadSoFar \in Int
         /\ \A i \in 1..Len(outbox) : outbox[i] \in Event /\ outbox[i].of \in Nat
         /\ \A i \in 1..Len(streamed) : streamed[i] \in Event /\ streamed[i].of \in Nat
         /\ at = "streaming" => ReadSoFar \in Nat
<1>1. \A e \in Event : e.of \in Nat
  BY AgentAssumption DEF Event
<1>2. NoEvent.of = 0
  BY DEF NoEvent
<1>3. sent \in Nat
  BY AgentAssumption DEF AgentInv, AgentTypeOK
<1>4. outbox \in Seq(Event) /\ streamed \in Seq(Event) /\ calling \in Event \union {NoEvent}
      /\ heard \in Seq(FrameKinds) /\ answers \in Seq(FrameKinds)
  BY DEF AgentInv, AgentTypeOK
<1>5. ReadSoFar \in Int /\ (at = "streaming" => ReadSoFar \in Nat)
  BY <1>4 DEF ReadSoFar, AgentInv, Counted
<1> QED BY <1>1, <1>2, <1>3, <1>4, <1>5

LEMMA SilentOnes ==
  /\ Silent(<<>>) /\ Silent(Failure) /\ Silent(<<Own("done")>>)
  /\ Silent(<<Own("session"), Own("status")>>)
  /\ \A script \in MockScripts : Silent(script)
<1>1. \A kind \in EventKinds : Own(kind) \in Event /\ Own(kind).of = 0
  BY EventsNamed DEF Own
<1>2. Silent(<<>>) /\ Silent(Failure) /\ Silent(<<Own("done")>>)
        /\ Silent(<<Own("session"), Own("status")>>)
  BY <1>1 DEF Silent, Failure, EventKinds
<1>3. \A s, t \in Seq(Event) : Silent(s) /\ Silent(t) => s \o t \in Seq(Event) /\ Silent(s \o t)
  <2> SUFFICES ASSUME NEW s \in Seq(Event), NEW t \in Seq(Event), Silent(s), Silent(t),
                      NEW i \in 1..Len(s \o t)
               PROVE  (s \o t)[i].of = 0
    BY DEF Silent
  <2>1. CASE i <= Len(s)
    BY <2>1 DEF Silent
  <2>2. CASE i > Len(s)
    <3>1. i - Len(s) \in 1..Len(t) /\ (s \o t)[i] = t[i - Len(s)]
      BY <2>2
    <3> QED BY <3>1 DEF Silent
  <2> QED BY <2>1, <2>2
<1>4. ASSUME NEW script \in MockScripts PROVE Silent(script)
  <2> DEFINE opening == <<Own("session"), Own("status"), Own("message")>>
  <2> DEFINE closing == <<Own("status"), Own("ui"), Own("status"), Own("done")>>
  <2> DEFINE asking == <<Own("status"), Own("ask")>>
  <2>1. opening \in Seq(Event) /\ Silent(opening)
    BY <1>1 DEF Silent, EventKinds
  <2>2. asking \in Seq(Event) /\ Silent(asking)
    BY <1>1 DEF Silent, EventKinds
  <2>3. closing \in Seq(Event) /\ Silent(closing)
    BY <1>1 DEF Silent, EventKinds
  <2>4. script \in {opening \o closing, opening \o asking \o closing}
    BY DEF MockScripts
  <2> HIDE DEF opening, closing, asking
  <2>5. opening \o asking \in Seq(Event) /\ Silent(opening \o asking)
    BY <1>3, <2>1, <2>2
  <2> QED BY <1>3, <2>1, <2>3, <2>4, <2>5
<1> QED BY <1>2, <1>4

(* A step that moves no event and hears no answer.                         *)
LEMMA QuietFlow ==
  ASSUME AgentInv, FlowInv,
         UNCHANGED <<provider, outbox, calling, streamed, answers>>,
         \/ at' = at /\ heard' = heard
         \/ at # "streaming" /\ at' # "streaming",
         at \in {"streaming", "returning", "ended"} => at' \in {"streaming", "returning", "ended"},
         sent' \in Nat, sent <= sent'
  PROVE  FlowInv'
<1> USE FlowTypes DEF FlowInv
<1>1. InOrder'
  BY DEF InOrder, Ordered, Before
<1>2. Behind'
  <2>1. provider' = "hosted" => NoneAhead(sent)'
    BY DEF Behind, NoneAhead, UpTo
  <2>2. at' = "streaming" => NoneAhead(ReadSoFar)'
    BY DEF Behind, NoneAhead, UpTo, ReadSoFar
  <2> QED BY <2>1, <2>2 DEF Behind
<1>3. Unread'
  BY DEF Unread, ReadSoFar
<1>4. Dealt'
  BY DEF Dealt, UpToTheLast, Shows, Yields, ReadSoFar
<1> QED BY <1>1, <1>2, <1>3, <1>4

(* A step in which the provider, pulled, yields events of no frame.        *)
LEMMA OwnEventsFlow ==
  ASSUME AgentInv, FlowInv, Pulled,
         outbox' \in Seq(Event), Silent(outbox'), at' = "returning",
         at = "streaming" => heard = <<>>,
         UNCHANGED <<provider, calling, streamed, answers, sent>>
  PROVE  FlowInv'
<1> USE FlowTypes DEF FlowInv
<1>0. Len(outbox') \in Nat /\ calling = NoEvent /\ outbox = <<>>
  BY DEF Pulled
<1>1. InOrder'
  BY <1>0 DEF InOrder, Ordered, Before, Silent
<1>2. Behind'
  BY <1>0 DEF Behind, NoneAhead, UpTo, Silent
<1>3. Unread'
  BY DEF Unread
<1>4. Dealt'
  <2> SUFFICES ASSUME NEW n \in UpToTheLast, answers[n] \in Carries PROVE Shows(streamed, n)
    BY DEF Dealt, UpToTheLast, Shows
  <2>1. n \in 1..Len(answers)
    BY DEF UpToTheLast
  <2>2. calling.of # n /\ ~Yields(outbox, n)
    BY <1>0, <2>1 DEF Yields
  <2>3. at = "streaming" => ReadSoFar = Len(answers)
    BY DEF ReadSoFar
  <2> QED BY <2>1, <2>2, <2>3 DEF Dealt
<1> QED BY <1>1, <1>2, <1>3, <1>4

(* A step that puts the first events in the stream, of no frame.           *)
LEMMA FirstEventsFlow ==
  ASSUME AgentInv, FlowInv, Pulled, streamed = <<>>,
         at \notin {"streaming", "returning", "ended"},
         streamed' \in Seq(Event), Silent(streamed'),
         at' = "streaming" => heard' = <<>>,
         UNCHANGED <<provider, calling, outbox, answers, sent>>
  PROVE  FlowInv'
<1> USE FlowTypes DEF FlowInv
<1>0. Len(streamed') \in Nat /\ calling = NoEvent /\ outbox = <<>> /\ answers = <<>>
  BY DEF Pulled, Unread
<1>1. InOrder'
  BY <1>0 DEF InOrder, Ordered, Before, Silent
<1>2. Behind'
  BY <1>0 DEF Behind, NoneAhead, UpTo, Silent, ReadSoFar
<1>3. Unread' /\ Dealt'
  BY <1>0 DEF Unread, Dealt, UpToTheLast
<1> QED BY <1>1, <1>2, <1>3

LEMMA AppendedOf ==
  ASSUME NEW s \in Seq(Event), NEW e \in Event
  PROVE  /\ Append(s, e) \in Seq(Event) /\ Len(Append(s, e)) = Len(s) + 1
         /\ \A i \in 1..Len(s) : Append(s, e)[i] = s[i]
         /\ Append(s, e)[Len(s) + 1] = e
         /\ Ordered(s) /\ Before(s, e.of) => Ordered(Append(s, e))
         /\ \A n \in Nat : Before(s, n) /\ (n # 0 => e.of < n) => Before(Append(s, e), n)
         /\ \A n : UpTo(s, n) /\ e.of <= n => UpTo(Append(s, e), n)
         /\ \A n : Shows(s, n) \/ e.of = n => Shows(Append(s, e), n)
<1> DEFINE t == Append(s, e)
<1>1. /\ t \in Seq(Event) /\ Len(t) = Len(s) + 1 /\ Len(s) \in Nat
      /\ \A i \in 1..Len(s) : t[i] = s[i]
      /\ t[Len(s) + 1] = e
  OBVIOUS
<1> HIDE DEF t
<1>2. Ordered(s) /\ Before(s, e.of) => Ordered(t)
  BY <1>1 DEF Ordered, Before
<1>3. \A n \in Nat : Before(s, n) /\ (n # 0 => e.of < n) => Before(t, n)
  BY <1>1 DEF Before
<1>4. \A n : UpTo(s, n) /\ e.of <= n => UpTo(t, n)
  BY <1>1 DEF UpTo
<1>5. \A n : Shows(s, n) \/ e.of = n => Shows(t, n)
  <2>1. Len(s) + 1 \in 1..Len(t) /\ \A i \in 1..Len(s) : i \in 1..Len(t)
    BY <1>1
  <2> QED BY <1>1, <2>1 DEF Shows
<1> QED BY <1>1, <1>2, <1>3, <1>4, <1>5 DEF t

(* What of a sequence of events its tail keeps.                            *)
LEMMA TailOf ==
  ASSUME NEW s \in Seq(Event), s # <<>>
  PROVE  /\ Head(s) \in Event /\ Head(s).of \in Nat
         /\ Tail(s) \in Seq(Event) /\ Len(Tail(s)) \in Nat
         /\ \A i \in 1..Len(Tail(s)) : /\ i + 1 \in 1..Len(s) /\ Tail(s)[i] = s[i + 1]
                                       /\ Tail(s)[i].of \in Nat
         /\ 1 \in 1..Len(s) /\ Head(s) = s[1]
         /\ Ordered(s) => /\ Ordered(Tail(s))
                          /\ \A i \in 1..Len(Tail(s)) :
                               Tail(s)[i].of # 0 => Head(s).of < Tail(s)[i].of
         /\ \A n : UpTo(s, n) => Head(s).of <= n /\ UpTo(Tail(s), n)
         /\ \A n : Yields(s, n) => \/ Head(s).of = n /\ Head(s).kind # "approval"
                                  \/ Yields(Tail(s), n)
<1> DEFINE e == Head(s)
           t == Tail(s)
<1>1. /\ Len(s) \in Nat /\ Len(s) >= 1 /\ e = s[1] /\ 1 \in 1..Len(s)
      /\ t \in Seq(Event) /\ Len(t) = Len(s) - 1 /\ Len(t) \in Nat
      /\ \A i \in 1..Len(s) : s[i] \in Event
      /\ \A i \in 1..Len(t) : i + 1 \in 1..Len(s) /\ t[i] = s[i + 1]
  OBVIOUS
<1>2. \A x \in Event : x.of \in Nat
  BY AgentAssumption DEF Event
<1> HIDE DEF e, t
<1>3. e \in Event /\ e.of \in Nat /\ \A i \in 1..Len(t) : t[i].of \in Nat
  BY <1>1, <1>2
<1>4. ASSUME Ordered(s)
      PROVE  Ordered(t) /\ \A i \in 1..Len(t) : t[i].of # 0 => e.of < t[i].of
  <2>1. ASSUME NEW k \in 1..Len(t), NEW l \in 1..Len(t), k < l, t[l].of # 0
        PROVE  t[k].of < t[l].of
    <3>1. k + 1 < l + 1 /\ k + 1 \in 1..Len(s) /\ l + 1 \in 1..Len(s)
      BY <1>1, <2>1
    <3> QED BY <1>1, <1>4, <2>1, <3>1 DEF Ordered
  <2>2. ASSUME NEW i \in 1..Len(t), t[i].of # 0 PROVE e.of < t[i].of
    <3>1. 1 < i + 1 /\ i + 1 \in 1..Len(s)
      BY <1>1
    <3> QED BY <1>1, <1>4, <2>2, <3>1 DEF Ordered
  <2> QED BY <2>1, <2>2 DEF Ordered
<1>5. \A n : UpTo(s, n) => e.of <= n /\ UpTo(t, n)
  BY <1>1 DEF UpTo
<1>6. ASSUME NEW n, Yields(s, n)
      PROVE  (e.of = n /\ e.kind # "approval") \/ Yields(t, n)
  <2>1. PICK k \in 1..Len(s) : s[k].of = n /\ s[k].kind # "approval"
    BY <1>6 DEF Yields
  <2>2. k # 1 => k - 1 \in 1..Len(t) /\ t[k - 1] = s[k]
    BY <1>1
  <2> QED BY <1>1, <2>1, <2>2 DEF Yields
<1> QED BY <1>1, <1>3, <1>4, <1>5, <1>6 DEF e, t

LEMMA TakeFlow ==
  ASSUME AgentInv, FlowInv, Take PROVE FlowInv'
<1> DEFINE e == Head(outbox)
           Ahead(i) == /\ outbox'[i].of \in Nat /\ Before(streamed, outbox'[i].of)
                       /\ outbox'[i].of # 0 => e.of < outbox'[i].of
<1> USE DEF FlowInv
<1>0. /\ outbox \in Seq(Event) /\ streamed \in Seq(Event) /\ Len(streamed) \in Nat
      /\ NoEvent.of = 0 /\ sent \in Nat /\ (at = "streaming" => ReadSoFar \in Nat)
      /\ Len(answers) \in Nat
  BY FlowTypes
<1>1. /\ outbox # <<>> /\ calling = NoEvent /\ outbox' = Tail(outbox)
      /\ UNCHANGED <<provider, at, heard, sent, answers>>
      /\ \/ calling' = e /\ streamed' = streamed
         \/ calling' = NoEvent /\ streamed' = Append(streamed, e)
  BY DEF Take, Settings
<1>2. /\ e \in Event /\ e.of \in Nat /\ Ordered(outbox') /\ Before(streamed, e.of)
      /\ \A i \in 1..Len(outbox') : Ahead(i)
      /\ \A n : UpTo(outbox, n) => e.of <= n /\ UpTo(outbox', n)
      /\ \A n : Yields(outbox, n) => (e.of = n /\ e.kind # "approval") \/ Yields(outbox', n)
  <2> HIDE DEF e
  <2>1. /\ Ordered(outbox)
        /\ \A j \in 1..Len(outbox) : Before(streamed, outbox[j].of)
    BY DEF InOrder
  <2>2. /\ e = outbox[1] /\ 1 \in 1..Len(outbox)
        /\ \A i \in 1..Len(outbox') : i + 1 \in 1..Len(outbox) /\ outbox'[i] = outbox[i + 1]
    BY <1>0, <1>1, TailOf DEF e
  <2>3. Before(streamed, e.of) /\ \A i \in 1..Len(outbox') : Before(streamed, outbox'[i].of)
    BY <2>1, <2>2
  <2> QED BY <1>0, <1>1, <2>1, <2>3, TailOf DEF e
<1> HIDE DEF e, Ahead
<1>3. Unread'
  BY <1>1 DEF Unread, ReadSoFar
<1>4. /\ \A n \in Nat : NoneAhead(n) => NoneAhead(n)'
      /\ InOrder'
      /\ \A n : n # 0 /\ (Shows(streamed, n) \/ Yields(outbox, n))
           => \/ Shows(streamed', n)
              \/ calling'.of = n /\ calling'.kind # "approval"
              \/ Yields(outbox', n)
  <2>1. CASE calling' = e /\ streamed' = streamed
    <3>1. Ordered(streamed)
      BY DEF InOrder
    <3>2. \A j \in 1..Len(outbox') :
            /\ Before(streamed', outbox'[j].of)
            /\ outbox'[j].of # 0 => calling'.of < outbox'[j].of
      BY <1>2, <2>1 DEF Ahead
    <3>3. InOrder'
      BY <1>2, <2>1, <3>1, <3>2 DEF InOrder
    <3>4. \A n \in Nat : NoneAhead(n) => NoneAhead(n)'
      BY <1>2, <2>1 DEF NoneAhead
    <3> QED BY <1>2, <2>1, <3>3, <3>4
  <2>2. CASE calling' = NoEvent /\ streamed' = Append(streamed, e)
    <3>1. /\ Ordered(streamed')
          /\ \A n \in Nat : Before(streamed, n) /\ (n # 0 => e.of < n) => Before(streamed', n)
          /\ \A n : UpTo(streamed, n) /\ e.of <= n => UpTo(streamed', n)
          /\ \A n : Shows(streamed, n) \/ e.of = n => Shows(streamed', n)
      BY <1>0, <1>2, <2>2, AppendedOf DEF InOrder
    <3>2. Before(streamed', calling'.of)
      BY <1>0, <2>2 DEF Before
    <3>3. ASSUME NEW j \in 1..Len(outbox')
          PROVE  Before(streamed', outbox'[j].of) /\ (outbox'[j].of # 0 => calling'.of < outbox'[j].of)
      <4>1. /\ outbox'[j].of \in Nat /\ Before(streamed, outbox'[j].of)
            /\ outbox'[j].of # 0 => e.of < outbox'[j].of
        BY <1>2 DEF Ahead
      <4> QED BY <1>0, <2>2, <3>1, <4>1
    <3>4. InOrder'
      BY <1>2, <3>1, <3>2, <3>3 DEF InOrder
    <3>5. \A n \in Nat : NoneAhead(n) => NoneAhead(n)'
      BY <1>0, <1>2, <2>2, <3>1 DEF NoneAhead
    <3> QED BY <1>2, <3>1, <3>4, <3>5
  <2> QED BY <1>1, <2>1, <2>2
<1>5. Behind'
  BY <1>0, <1>1, <1>4 DEF Behind, ReadSoFar
<1>6. Dealt'
  <2> SUFFICES ASSUME NEW n \in UpToTheLast, answers[n] \in Carries
               PROVE  \/ Shows(streamed', n)
                      \/ calling'.of = n /\ calling'.kind # "approval"
                      \/ Yields(outbox', n)
                      \/ at = "streaming" /\ n > ReadSoFar
    BY <1>1 DEF Dealt, UpToTheLast, ReadSoFar
  <2>1. n # 0
    BY DEF UpToTheLast
  <2> QED BY <1>0, <1>1, <1>4, <2>1 DEF Dealt
<1> QED BY <1>3, <1>4, <1>5, <1>6

(* A reply is of the frame of its event, and only an approval has none.    *)
LEMMA RepliesOf ==
  ASSUME NEW e \in Event, NEW reply \in Replies(e)
  PROVE  \/ reply = <<>> /\ e.kind = "approval"
         \/ \E r \in Event : reply = <<r>> /\ r.of = e.of
<1>1. \A kind \in EventKinds : [e EXCEPT !.kind = kind] \in Event /\ [e EXCEPT !.kind = kind].of = e.of
  BY DEF Event
<1>2. CASE e.kind = "ui"
  BY <1>1, <1>2 DEF Replies, EventKinds
<1>3. CASE e.kind = "ask"
  BY <1>1, <1>3 DEF Replies, EventKinds
<1>4. CASE e.kind = "approval"
  <2>1. e.kind # "ui" /\ e.kind # "ask"
    BY <1>4
  <2>2. Replies(e) = {<<>>, <<[e EXCEPT !.kind = "error"]>>}
    BY <1>4, <2>1 DEF Replies
  <2> QED BY <1>1, <1>4, <2>2 DEF EventKinds
<1>5. CASE e.kind \notin {"ui", "ask", "approval"}
  <2>1. e.kind # "ui" /\ e.kind # "ask" /\ e.kind # "approval"
    BY <1>5
  <2>2. Replies(e) = {<<e>>}
    BY <2>1 DEF Replies
  <2> QED BY <2>2
<1> QED BY <1>2, <1>3, <1>4, <1>5

LEMMA CallReturnsFlow ==
  ASSUME AgentInv, FlowInv, CallReturns PROVE FlowInv'
<1> USE FlowTypes DEF FlowInv
<1>1. /\ calling # NoEvent /\ calling \in Event /\ calling' = NoEvent
      /\ UNCHANGED <<provider, at, heard, outbox, sent, answers>>
  BY DEF CallReturns, Settings
<1>2. PICK reply \in Replies(calling) : streamed' = streamed \o reply
  BY DEF CallReturns
<1>3. CASE reply = <<>> /\ calling.kind = "approval"
  <2>1. streamed' = streamed
    BY <1>2, <1>3
  <2>2. InOrder'
    BY <1>1, <2>1 DEF InOrder, Before
  <2>3. Behind'
    BY <1>1, <2>1 DEF Behind, NoneAhead, ReadSoFar
  <2>4. Unread' /\ Dealt'
    BY <1>1, <1>3, <2>1 DEF Unread, Dealt, UpToTheLast, ReadSoFar, Shows, Yields
  <2> QED BY <2>2, <2>3, <2>4
<1>4. CASE \E r \in Event : reply = <<r>> /\ r.of = calling.of
  <2>1. PICK r \in Event : streamed' = Append(streamed, r) /\ r.of = calling.of
    <3>1. PICK r \in Event : reply = <<r>> /\ r.of = calling.of
      BY <1>4
    <3>2. streamed \o <<r>> = Append(streamed, r)
      OBVIOUS
    <3> QED BY <1>2, <3>1, <3>2
  <2>2. /\ Ordered(streamed')
        /\ \A n \in Nat : Before(streamed, n) /\ (n # 0 => r.of < n) => Before(streamed', n)
        /\ \A n : UpTo(streamed, n) /\ r.of <= n => UpTo(streamed', n)
        /\ \A n : Shows(streamed, n) \/ r.of = n => Shows(streamed', n)
    BY <2>1, AppendedOf DEF InOrder
  <2>3. InOrder'
    <3>1. Before(streamed', calling'.of)
      BY <1>1 DEF Before
    <3>2. ASSUME NEW j \in 1..Len(outbox)
          PROVE  /\ Before(streamed', outbox[j].of)
                 /\ outbox[j].of # 0 => calling'.of < outbox[j].of
      BY <1>1, <2>1, <2>2 DEF InOrder
    <3> QED BY <1>1, <2>2, <3>1, <3>2 DEF InOrder
  <2>4. Behind'
    BY <1>1, <2>1, <2>2 DEF Behind, NoneAhead, ReadSoFar
  <2>5. Unread'
    BY <1>1 DEF Unread, ReadSoFar
  <2>6. Dealt'
    BY <1>1, <2>1, <2>2 DEF Dealt, UpToTheLast, ReadSoFar, Yields
  <2> QED BY <2>3, <2>4, <2>5, <2>6
<1> QED BY <1>1, <1>2, <1>3, <1>4, RepliesOf

(* A provider that is pulled and yields one event of the next frame.       *)
LEMMA NextEventInOrder ==
  ASSUME AgentInv, FlowInv, Pulled, NEW e \in Event,
         e.of # 0 => \A i \in 1..Len(streamed) : streamed[i].of < e.of,
         outbox' = <<e>>, UNCHANGED <<calling, streamed>>
  PROVE  InOrder'
<1>1. calling = NoEvent /\ NoEvent.of = 0 /\ e.of \in Nat /\ Ordered(streamed)
  BY FlowTypes, AgentAssumption DEF Pulled, Event, FlowInv, InOrder
<1>2. /\ outbox' \in Seq(Event) /\ Len(outbox') = 1 /\ outbox'[1] = e
      /\ 1..Len(outbox') = {1}
  OBVIOUS
<1>3. Ordered(outbox')
  BY <1>2 DEF Ordered
<1>4. Before(streamed, e.of)
  BY DEF Before
<1>5. Before(streamed, calling.of)
  BY <1>1 DEF Before
<1> QED BY <1>1, <1>2, <1>3, <1>4, <1>5 DEF InOrder

(* What a frame is decoded to: its own event, or events of no frame.       *)
LEMMA DecodedOf ==
  ASSUME NEW kind \in FrameKinds, NEW n \in 0..MaxFrames
  PROVE  \/ /\ Silent(DecodeFrame(kind, n)) /\ DecodeFrame(kind, n) \in Seq(Event)
            /\ kind \notin Carries
         \/ \E e \in Event :
              DecodeFrame(kind, n) = <<e>> /\ e.of = n /\ (kind \in Carries => e.kind # "approval")
<1> DEFINE Of(event) == [kind |-> event, of |-> n]
<1>1. \A event \in EventKinds : Of(event) \in Event /\ Of(event).of = n /\ Of(event).kind = event
  BY DEF Event
<1>2. CASE kind = "null"
  <2>1. DecodeFrame(kind, n) = Failure
    BY <1>2 DEF DecodeFrame
  <2> QED BY <1>2, <2>1, SilentOnes, FailureIs DEF Carries
<1>3. CASE kind \in {"challenge", "ok", "other"}
  <2>1. DecodeFrame(kind, n) = <<>>
    BY <1>3 DEF DecodeFrame
  <2> QED BY <1>3, <2>1, SilentOnes, NoEvents DEF Carries
<1>4. CASE kind \notin {"null", "challenge", "ok", "other"}
  <2>1. \E event \in EventKinds :
           DecodeFrame(kind, n) = <<Of(event)>> /\ (kind \in Carries => event # "approval")
    BY <1>4 DEF DecodeFrame, EventKinds, FrameKinds, Carries
  <2> HIDE DEF Of
  <2> QED BY <1>1, <2>1
<1> QED BY <1>2, <1>3, <1>4

LEMMA StreamReadsFlow ==
  ASSUME AgentInv, FlowInv, StreamReads PROVE FlowInv'
<1> USE DEF FlowInv
<1> DEFINE n == ReadSoFar + 1
<1>0. /\ at = "streaming" /\ Pulled /\ heard # <<>> /\ heard' = Tail(heard)
      /\ outbox' = DecodeFrame(Head(heard), n)
      /\ at' = IF Head(heard) \in {"shutdown", "null"} THEN "returning" ELSE "streaming"
      /\ UNCHANGED <<provider, calling, streamed, sent, answers>>
  BY DEF StreamReads, Settings, socketVars, ReadSoFar
<1>1. /\ heard \in Seq(FrameKinds) /\ answers \in Seq(FrameKinds) /\ sent \in Nat
      /\ Len(heard) >= 1 /\ Len(heard) \in Nat /\ Len(answers) \in Nat
      /\ heard' \in Seq(FrameKinds) /\ Len(heard') = Len(heard) - 1
      /\ Head(heard) \in FrameKinds /\ Head(heard) = heard[1] /\ 1 \in 1..Len(heard)
      /\ \A m \in 1..Len(heard') : heard'[m] = heard[m + 1] /\ m + 1 \in 1..Len(heard)
      /\ streamed \in Seq(Event) /\ Len(streamed) \in Nat
      /\ \A i \in 1..Len(streamed) : streamed[i].of \in Nat
  BY <1>0, FlowTypes
<1>2. n \in 1..Len(answers) /\ n \in 0..MaxFrames /\ ReadSoFar \in Nat
  BY <1>0, <1>1, AgentAssumption DEF AgentInv, AgentTypeOK, Counted, ReadSoFar
<1>3. answers[n] = Head(heard)
  BY <1>0, <1>1 DEF Unread
<1>4. ReadSoFar' = n
  BY <1>0, <1>1 DEF ReadSoFar
<1>5. calling = NoEvent /\ NoEvent.of = 0 /\ outbox = <<>> /\ UpTo(streamed, ReadSoFar)
  BY <1>0, FlowTypes DEF Pulled, Behind, NoneAhead
<1>6. provider # "hosted"
  BY <1>0 DEF AgentInv, Standing
<1>7. Unread'
  <2>1. ASSUME NEW m \in 1..Len(heard') PROVE heard'[m] = answers[n + m]
    <3>1. heard[m + 1] = answers[ReadSoFar + (m + 1)] /\ ReadSoFar + (m + 1) = n + m
      BY <1>0, <1>1, <1>2 DEF Unread
    <3> QED BY <1>1, <3>1
  <2> QED BY <1>0, <1>4, <2>1 DEF Unread
<1>8. ASSUME NEW k \in UpToTheLast, answers[k] \in Carries, k # n
      PROVE  Shows(streamed, k) \/ (at' = "streaming" /\ k > n)
  <2>1. k \in 1..Len(answers) /\ \A j \in 1..k : answers[j] \notin {"shutdown", "null"}
    BY DEF UpToTheLast
  <2>2. calling.of # k /\ ~Yields(outbox, k)
    BY <1>5, <2>1 DEF Yields
  <2>3. Shows(streamed, k) \/ k > ReadSoFar
    BY <1>8, <2>2 DEF Dealt
  <2>4. k > n => at' = "streaming"
    <3>1. k > n => n \in 1..k
      BY <1>2, <2>1
    <3> QED BY <1>0, <1>3, <2>1, <3>1
  <2> QED BY <1>2, <1>8, <2>1, <2>3, <2>4
<1>9. UpToTheLast' = UpToTheLast
  BY <1>0 DEF UpToTheLast
<1> HIDE DEF n
<1>10. \/ Silent(outbox') /\ outbox' \in Seq(Event) /\ answers[n] \notin Carries
       \/ \E e \in Event : outbox' = <<e>> /\ e.of = n /\ (answers[n] \in Carries => e.kind # "approval")
  BY <1>0, <1>1, <1>2, <1>3, DecodedOf
<1>11. CASE Silent(outbox') /\ outbox' \in Seq(Event) /\ answers[n] \notin Carries
  <2>1. InOrder'
    BY <1>0, <1>5, <1>11 DEF InOrder, Ordered, Before, Silent
  <2>2. UpTo(streamed', n) /\ calling'.of <= n /\ UpTo(outbox', n)
    BY <1>0, <1>1, <1>2, <1>5, <1>11 DEF UpTo, Silent, n
  <2>3. Behind'
    BY <1>0, <1>4, <1>6, <2>2 DEF Behind, NoneAhead
  <2>4. Dealt'
    BY <1>0, <1>4, <1>8, <1>9, <1>11 DEF Dealt
  <2> QED BY <1>7, <2>1, <2>3, <2>4
<1>12. CASE \E e \in Event : outbox' = <<e>> /\ e.of = n /\ (answers[n] \in Carries => e.kind # "approval")
  <2>1. PICK e \in Event : outbox' = <<e>> /\ e.of = n /\ (answers[n] \in Carries => e.kind # "approval")
    BY <1>12
  <2>2. InOrder'
    <3>1. \A i \in 1..Len(streamed) : streamed[i].of < e.of
      BY <1>1, <1>2, <1>5, <2>1 DEF UpTo, n
    <3> QED BY <1>0, <2>1, <3>1, NextEventInOrder
  <2>3. Len(outbox') = 1 /\ outbox'[1] = e /\ 1 \in 1..Len(outbox') /\ 1..Len(outbox') = {1}
    BY <2>1
  <2>4. UpTo(streamed', n) /\ calling'.of <= n /\ UpTo(outbox', n)
    BY <1>0, <1>1, <1>2, <1>5, <2>1, <2>3 DEF UpTo, n
  <2>5. Behind'
    BY <1>0, <1>4, <1>6, <2>4 DEF Behind, NoneAhead
  <2>6. answers[n] \in Carries => Yields(outbox', n)
    BY <2>1, <2>3 DEF Yields
  <2>7. Dealt'
    BY <1>0, <1>4, <1>8, <1>9, <2>6 DEF Dealt
  <2> QED BY <1>7, <2>2, <2>5, <2>7
<1> QED BY <1>10, <1>11, <1>12

LEMMA HostedLineFlow ==
  ASSUME AgentInv, FlowInv, HostedLine PROVE FlowInv'
<1> USE DEF FlowInv
<1>0. /\ at = "reading" /\ Pulled /\ sent < MaxFrames /\ sent' = sent + 1
      /\ UNCHANGED <<provider, at, heard, calling, streamed, answers>>
      /\ \/ \E kind \in EventKinds : outbox' = <<[kind |-> kind, of |-> sent']>>
         \/ outbox' = outbox
  BY DEF HostedLine, Settings, EventKinds
<1>1. /\ sent \in Nat /\ sent' \in 0..MaxFrames /\ sent <= sent' /\ calling = NoEvent
      /\ NoEvent.of = 0 /\ streamed \in Seq(Event) /\ Len(streamed) \in Nat
      /\ \A i \in 1..Len(streamed) : streamed[i].of \in Nat
      /\ sent' \in Nat
  BY <1>0, FlowTypes, AgentAssumption DEF Pulled
<1>2. CASE outbox' = outbox
  BY <1>0, <1>1, <1>2, QuietFlow
<1>3. CASE \E kind \in EventKinds : outbox' = <<[kind |-> kind, of |-> sent']>>
  <2>1. PICK e \in Event : outbox' = <<e>> /\ e.of = sent'
    BY <1>1, <1>3 DEF Event
  <2>2. UpTo(streamed, sent)
    BY <1>0 DEF AgentInv, Standing, Behind, NoneAhead
  <2>3. InOrder'
    <3>1. \A i \in 1..Len(streamed) : streamed[i].of < e.of
      BY <1>0, <1>1, <2>1, <2>2 DEF UpTo
    <3> QED BY <1>0, <2>1, <3>1, NextEventInOrder
  <2>4. Behind'
    <3>1. Len(outbox') = 1 /\ outbox'[1] = e /\ 1..Len(outbox') = {1}
      BY <2>1
    <3> QED BY <1>0, <1>1, <2>1, <2>2, <3>1 DEF Behind, NoneAhead, UpTo
  <2>5. answers = <<>>
    BY <1>0 DEF Unread
  <2> QED BY <1>0, <2>3, <2>4, <2>5 DEF Unread, Dealt, UpToTheLast
<1> QED BY <1>0, <1>2, <1>3

LEMMA GatewaySendsFlow ==
  ASSUME AgentInv, FlowInv, GatewaySends PROVE FlowInv'
<1> USE DEF FlowInv
<1>1. PICK frames \in Seq(FrameKinds) : Deliver(frames)
  <2>1. \A kind, next \in FrameKinds : <<kind>> \in Seq(FrameKinds) /\ <<kind, next>> \in Seq(FrameKinds)
    OBVIOUS
  <2>2. \E kind, next \in FrameKinds : Deliver(<<kind>>) \/ Deliver(<<kind, next>>)
    BY DEF GatewaySends
  <2> QED BY <2>1, <2>2
<1>2. UNCHANGED <<provider, at, outbox, calling, streamed>>
  BY DEF GatewaySends, Settings, bridgeVars
<1>3. /\ heard \in Seq(FrameKinds) /\ answers \in Seq(FrameKinds) /\ sent \in Nat
      /\ Len(heard) \in Nat /\ Len(answers) \in Nat /\ Len(frames) \in Nat
      /\ calling.of \in Nat
  BY FlowTypes
<1>4. /\ heard' = heard \o frames /\ sent' = sent + Len(frames) /\ sent' \in Nat /\ sent <= sent'
      /\ answers' = IF at = "streaming" THEN answers \o frames ELSE answers
  BY <1>1, <1>3 DEF Deliver
<1>5. CASE at # "streaming"
  BY <1>2, <1>4, <1>5, QuietFlow
<1>6. CASE at = "streaming"
  <2>0. ASSUME NEW s \in Seq(FrameKinds)
        PROVE  /\ Len(s \o frames) = Len(s) + Len(frames)
               /\ \A i \in 1..Len(s) : (s \o frames)[i] = s[i]
               /\ \A i \in 1..Len(frames) : (s \o frames)[Len(s) + i] = frames[i]
    OBVIOUS
  <2>1. /\ Len(heard') = Len(heard) + Len(frames) /\ Len(answers') = Len(answers) + Len(frames)
        /\ \A i \in 1..Len(answers) : answers'[i] = answers[i]
        /\ \A i \in 1..Len(heard) : heard'[i] = heard[i]
        /\ \A i \in 1..Len(frames) : /\ answers'[Len(answers) + i] = frames[i]
                                     /\ heard'[Len(heard) + i] = frames[i]
    <3>1. heard' = heard \o frames /\ answers' = answers \o frames
      BY <1>4, <1>6
    <3> QED BY <1>3, <2>0, <3>1
  <2>2. ReadSoFar' = ReadSoFar /\ ReadSoFar \in Nat /\ ReadSoFar = Len(answers) - Len(heard)
    BY <1>3, <1>6, <2>1, FlowTypes DEF ReadSoFar
  <2>3. InOrder'
    BY <1>2 DEF InOrder, Ordered, Before
  <2>4. Behind'
    BY <1>2, <1>6, <2>2 DEF Behind, NoneAhead, AgentInv, Standing
  <2>5. Unread'
    <3>1. ASSUME NEW m \in 1..Len(heard') PROVE heard'[m] = answers'[ReadSoFar + m]
      <4>1. CASE m <= Len(heard)
        <5>1. m \in 1..Len(heard) /\ ReadSoFar + m \in 1..Len(answers)
          BY <1>3, <2>2, <4>1
        <5> QED BY <1>6, <2>1, <5>1 DEF Unread
      <4>2. CASE m > Len(heard)
        <5>1. /\ m - Len(heard) \in 1..Len(frames) /\ Len(heard) + (m - Len(heard)) = m
              /\ Len(answers) + (m - Len(heard)) = ReadSoFar + m
          BY <1>3, <2>1, <2>2, <4>2
        <5> QED BY <2>1, <5>1
      <4> QED BY <1>3, <2>1, <4>1, <4>2
    <3> QED BY <1>2, <1>6, <2>2, <3>1 DEF Unread
  <2>6. Dealt'
    <3> SUFFICES ASSUME NEW n \in UpToTheLast', answers'[n] \in Carries, ~(n > ReadSoFar)
                 PROVE  \/ Shows(streamed, n)
                        \/ calling.of = n /\ calling.kind # "approval"
                        \/ Yields(outbox, n)
      BY <1>2, <1>6, <2>2 DEF Dealt
    <3>1. n \in 1..Len(answers) /\ \A j \in 1..n : j \in 1..Len(answers)
      BY <1>3, <2>1, <2>2 DEF UpToTheLast
    <3>2. n \in UpToTheLast /\ answers[n] \in Carries
      BY <2>1, <3>1 DEF UpToTheLast
    <3> QED BY <3>2 DEF Dealt
  <2> QED BY <2>3, <2>4, <2>5, <2>6
<1> QED BY <1>5, <1>6

LEMMA InitFlow == Init => FlowInv
<1> SUFFICES ASSUME Init PROVE FlowInv
  OBVIOUS
<1>1. /\ outbox = <<>> /\ streamed = <<>> /\ answers = <<>> /\ calling.of = 0
      /\ sent = 0 /\ at = "new"
  BY DEF Init, NoEvent
<1> QED
  BY <1>1 DEF FlowInv, InOrder, Ordered, Before, Behind, NoneAhead, UpTo, Unread, Dealt, UpToTheLast

(* The steps of the bridge and the sessions that move no numbered event.   *)
LEMMA BridgeFlow ==
  ASSUME AgentInv, AgentInv', FlowInv, Bridge PROVE FlowInv'
<1>0. sent \in Nat /\ outbox' \in Seq(Event) /\ streamed' \in Seq(Event)
  BY FlowTypes DEF AgentInv, AgentTypeOK
<1>1. CASE Begin
  <2>1. /\ at = "new" /\ Pulled /\ streamed = <<>>
        /\ UNCHANGED <<provider, outbox, calling, heard, sent, answers>>
        /\ \/ streamed' = Failure /\ at' = "ended"
           \/ streamed' = streamed /\ at' = "submitting"
    BY <1>1 DEF Begin, Settings, AgentInv, Standing
  <2> QED BY <1>0, <2>1, SilentOnes, FirstEventsFlow, QuietFlow
<1>2. CASE Submitted
  <2>1. /\ at = "submitting" /\ Pulled
        /\ UNCHANGED <<provider, calling, streamed, heard, sent, answers>>
    BY <1>2 DEF Submitted, Settings, AgentInv, Standing
  <2>2. \/ at' \in {"connecting", "fetching"} /\ outbox' = outbox
        \/ at' = "returning" /\ (outbox' = Failure \/ outbox' \in MockScripts)
    BY <1>2, AgentAssumption DEF Submitted, AgentInv, AgentTypeOK, Standing
  <2>3. at' = "returning" /\ Silent(outbox') => FlowInv'
    BY <1>0, <2>1, OwnEventsFlow
  <2> QED BY <1>0, <2>1, <2>2, <2>3, SilentOnes, QuietFlow
<1>3. CASE Take
  BY <1>3, TakeFlow
<1>4. CASE CallReturns
  BY <1>4, CallReturnsFlow
<1>5. CASE Return
  <2>1. /\ at = "returning" /\ at' = "ended"
        /\ UNCHANGED <<provider, outbox, calling, streamed, heard, sent, answers>>
    BY <1>5 DEF Return, Settings, bridgeVars
  <2> QED BY <1>0, <2>1, QuietFlow
<1> QED BY <1>1, <1>2, <1>3, <1>4, <1>5 DEF Bridge

LEMMA OpenClawFlow ==
  ASSUME AgentInv, AgentInv', FlowInv, OpenClaw PROVE FlowInv'
<1>0. sent \in Nat /\ outbox' \in Seq(Event) /\ streamed' \in Seq(Event)
  BY FlowTypes DEF AgentInv, AgentTypeOK
<1>1. CASE SocketOpens \/ HandshakeReads
  <2>1. /\ at \in {"connecting", "handshaking"} /\ at' = "handshaking"
        /\ UNCHANGED <<provider, outbox, calling, streamed, sent, answers>>
    BY <1>1 DEF SocketOpens, HandshakeReads, Settings, bridgeVars
  <2> QED BY <1>0, <2>1, QuietFlow
<1>2. CASE ConnectFails \/ HandshakeRefused \/ StreamCloses
  <2>1. /\ at \in {"connecting", "handshaking"} \/ (at = "streaming" /\ heard = <<>> /\ Pulled)
        /\ at' = "returning" /\ (outbox' = Failure \/ outbox' = <<Own("done")>>)
        /\ UNCHANGED <<provider, calling, streamed, sent, answers>>
    BY <1>2 DEF ConnectFails, HandshakeRefused, StreamCloses, Settings
  <2>2. Pulled /\ Silent(outbox')
    BY <2>1, SilentOnes DEF AgentInv, Standing
  <2> QED BY <1>0, <2>1, <2>2, OwnEventsFlow
<1>3. CASE HandshakeAccepted \/ HandshakeThrows
  <2>1. /\ at = "handshaking" /\ (at' = "streaming" => heard' = <<>>)
        /\ \/ streamed' = streamed \o <<Own("session"), Own("status")>>
           \/ streamed' = streamed \o Failure
        /\ UNCHANGED <<provider, outbox, calling, sent, answers>>
    BY <1>3 DEF HandshakeAccepted, HandshakeThrows, Throw, Settings
  <2>2. Pulled /\ streamed = <<>>
    BY <2>1 DEF AgentInv, Standing
  <2>3. <<Own("session"), Own("status")>> \in Seq(Event) /\ Failure \in Seq(Event)
    BY EventsNamed, FailureIs DEF EventKinds
  <2>4. \A s \in Seq(Event) : <<>> \o s = s
    OBVIOUS
  <2>5. Silent(streamed')
    BY <2>1, <2>2, <2>3, <2>4, SilentOnes
  <2> QED BY <1>0, <2>1, <2>2, <2>5, FirstEventsFlow
<1>4. CASE StreamReads
  BY <1>4, StreamReadsFlow
<1> QED BY <1>1, <1>2, <1>3, <1>4 DEF OpenClaw, Handshake

LEMMA HostedFlow ==
  ASSUME AgentInv, AgentInv', FlowInv, Hosted PROVE FlowInv'
<1>0. sent \in Nat /\ outbox' \in Seq(Event)
  BY FlowTypes DEF AgentInv, AgentTypeOK
<1>1. Pulled /\ at \in {"fetching", "reading"}
  BY HostedPulled
<1>2. CASE HostedAnswers
  <2>1. at' = "reading" /\ UNCHANGED <<provider, outbox, calling, streamed, sent, answers>>
    BY <1>2 DEF HostedAnswers, Settings, bridgeVars
  <2> QED BY <1>0, <1>1, <2>1, QuietFlow
<1>3. CASE HostedLine
  BY <1>3, HostedLineFlow
<1>4. CASE HostedEnds \/ HostedFails
  <2>1. /\ at' = "returning" /\ (outbox' = Failure \/ outbox' = <<>>)
        /\ UNCHANGED <<provider, calling, streamed, sent, answers>>
    BY <1>4 DEF HostedEnds, HostedFails, Settings
  <2>2. Silent(outbox')
    BY <2>1, SilentOnes
  <2> QED BY <1>0, <1>1, <2>1, <2>2, OwnEventsFlow
<1> QED BY <1>2, <1>3, <1>4 DEF Hosted

LEMMA FlowStep == AgentInv /\ FlowInv /\ [Next]_vars => FlowInv'
<1> SUFFICES ASSUME AgentInv, FlowInv, [Next]_vars PROVE FlowInv'
  OBVIOUS
<1>0. AgentInv' /\ sent \in Nat
  BY StepHolds, FlowTypes
<1>1. CASE Bridge
  BY <1>0, <1>1, BridgeFlow
<1>2. CASE OpenClaw
  BY <1>0, <1>2, OpenClawFlow
<1>3. CASE Hosted
  BY <1>0, <1>3, HostedFlow
<1>4. CASE GatewaySends
  BY <1>4, GatewaySendsFlow
<1>5. CASE SocketEnds \/ UNCHANGED vars
  <2>1. UNCHANGED <<provider, at, heard, outbox, calling, streamed, sent, answers>>
    BY <1>5 DEF SocketEnds, Settings, bridgeVars, vars
  <2> QED BY <1>0, <2>1, QuietFlow
<1> QED BY <1>1, <1>2, <1>3, <1>4, <1>5 DEF Next, Gateway

(* No frame that answers the intention is lost on its way to the shell,    *)
(* and none overtakes another (messages(), the bridge's loop, its calls).  *)
THEOREM NoAnswerIsLost == Spec => []AnswersReachTheShell
<1>1. AgentInv /\ FlowInv => AnswersReachTheShell
  <2> SUFFICES ASSUME AgentInv, FlowInv PROVE AnswersReachTheShell
    OBVIOUS
  <2>1. ASSUME at = "ended", NEW n \in UpToTheLast, answers[n] \in Carries
        PROVE  \E k \in 1..Len(streamed) : streamed[k].of = n
    <3>1. calling.of = 0 /\ outbox = <<>> /\ n # 0
      BY <2>1 DEF AgentInv, Standing, Pulled, NoEvent, UpToTheLast
    <3>2. ~Yields(outbox, n)
      BY <3>1 DEF Yields
    <3> QED BY <2>1, <3>1, <3>2 DEF FlowInv, Dealt, Shows
  <2>2. Ordered(streamed)
    BY DEF FlowInv, InOrder
  <2> QED BY <2>1, <2>2 DEF AnswersReachTheShell, Ordered
<1>2. Spec => []FlowInv
  <2>1. AgentInv /\ FlowInv /\ [Next]_vars => FlowInv'
    BY FlowStep
  <2> QED BY AgentInvariant, InitFlow, <2>1, PTL DEF Spec
<1> QED BY AgentInvariant, <1>1, <1>2, PTL
=============================================================================
