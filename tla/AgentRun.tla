------------------------------ MODULE AgentRun ------------------------------
(***************************************************************************)
(* services/agent-bridge: one POST /intentions (server.ts), the run of the *)
(* bridge it starts (bridge.ts) and the run of the provider underneath:    *)
(* OpenClaw over its gateway's WebSocket (openclaw.ts, ws-transport.ts),   *)
(* the hosted gateway over HTTP (hosted.ts), or the mock (mock.ts).        *)
(*                                                                         *)
(* Three generators are nested and the innermost is pulled: the provider   *)
(* goes on only when the bridge has taken every event it yielded           *)
(* (`outbox`), and the bridge takes the next one only when the call it     *)
(* makes for the last has returned (`calling`).  Frames of the gateway     *)
(* arrive meanwhile and queue in `heard`.  `at` is the await the provider  *)
(* stands at; "returning" is a generator that yields its outbox and ends.  *)
(* One run is one session; runs share nothing but the peer services.       *)
(***************************************************************************)
EXTENDS Naturals, Sequences

CONSTANTS
    Providers,       \* the providers a bridge may be started with
    MaxFrames        \* frames or lines the provider's source sends (bound)

ASSUME AgentAssumption ==
    Providers \subseteq {"openclaw", "hosted", "mock"} /\ MaxFrames \in Nat

VARIABLES
    provider,    \* SAIRIOS_AGENT_PROVIDER
    configured,  \* status().configured: the token is set and may be sent
    at,          \* the await of the provider's run
    socket,      \* the WebSocket to the gateway
    broke,       \* the socket ended with an error, not with a close
    registered,  \* the session has a socket in #sockets
    gateway,     \* OpenClaw's gateway: requests it has, whether it said hello
    heard,       \* the queue of the current iteration of messages()
    outbox,      \* events the provider yielded and the bridge has not taken
    calling,     \* the event the bridge awaits a call for, or NoEvent
    sawDone,     \* sawDone of the hosted provider
    streamed,    \* the events written to the response
    sent,        \* frames or lines sent so far
    answers      \* history: the kinds of the frames heard for the intention

bridgeVars == <<outbox, calling, streamed>>
socketVars == <<socket, broke, registered>>
vars == <<provider, configured, at, socketVars, gateway, heard, bridgeVars,
          sawDone, sent, answers>>

FrameKinds == {"challenge", "ok", "refusal", "text", "approval", "unanswerable",
               "unknown", "document", "malformed", "shutdown", "null", "other"}
EventKinds == {"session", "status", "message", "approval", "ask", "pending",
               "ui", "rejected", "error", "done"}
\* `of` is the number of the frame an event was decoded from, 0 for none.
Event == [kind : EventKinds, of : 0..MaxFrames]
Awaits == {"new", "submitting", "connecting", "handshaking", "streaming",
           "fetching", "reading", "returning", "ended"}

NoEvent == [kind |-> "none", of |-> 0]
Own(kind) == [kind |-> kind, of |-> 0]
Failure == <<Own("error"), Own("done")>>

AgentTypeOK ==
    /\ provider \in Providers
    /\ configured \in BOOLEAN
    /\ at \in Awaits
    /\ socket \in {"none", "connecting", "open", "closed"}
    /\ broke \in BOOLEAN
    /\ registered \in BOOLEAN
    /\ gateway \in [asked : SUBSET {"connect", "intention"}, accepted : BOOLEAN]
    /\ heard \in Seq(FrameKinds)
    /\ outbox \in Seq(Event)
    /\ calling \in Event \union {NoEvent}
    /\ sawDone \in BOOLEAN
    /\ streamed \in Seq(Event)
    /\ sent \in 0..MaxFrames
    /\ answers \in Seq(FrameKinds)

Init ==
    /\ provider \in Providers
    /\ configured \in BOOLEAN
    /\ provider = "mock" => configured
    /\ at = "new"
    /\ socket = "none" /\ broke = FALSE /\ registered = FALSE
    /\ gateway = [asked |-> {}, accepted |-> FALSE]
    /\ heard = <<>>
    /\ outbox = <<>> /\ calling = NoEvent /\ streamed = <<>>
    /\ sawDone = FALSE
    /\ sent = 0
    /\ answers = <<>>

Settings == <<provider, configured>>

\* The provider is resumed: every event it yielded has been dealt with.
Pulled == outbox = <<>> /\ calling = NoEvent

-----------------------------------------------------------------------------
(* The bridge: createSession, the first log entry, and the loop over the   *)
(* provider's events.                                                      *)

Begin ==
    /\ at = "new"
    /\ IF provider = "hosted" /\ ~configured
       THEN /\ streamed' = Failure
            /\ at' = "ended"
       ELSE /\ at' = "submitting"
            /\ UNCHANGED streamed
    /\ UNCHANGED <<Settings, socketVars, gateway, heard, outbox, calling, sawDone,
                   sent, answers>>

MockScripts ==
    LET closing == <<Own("status"), Own("ui"), Own("status"), Own("done")>>
        opening == <<Own("session"), Own("status"), Own("message")>>
    IN  {opening \o closing, opening \o <<Own("status"), Own("ask")>> \o closing}

\* The log entry is written or was lost; the provider runs to its first await.
Submitted ==
    /\ at = "submitting"
    /\ CASE ~configured ->
              outbox' = Failure /\ at' = "returning" /\ UNCHANGED socket
         [] configured /\ provider = "openclaw" ->
              at' = "connecting" /\ socket' = "connecting" /\ UNCHANGED outbox
         [] configured /\ provider = "hosted" ->
              at' = "fetching" /\ UNCHANGED <<socket, outbox>>
         [] provider = "mock" ->
              outbox' \in MockScripts /\ at' = "returning" /\ UNCHANGED socket
    /\ UNCHANGED <<Settings, broke, registered, gateway, heard, calling, streamed,
                   sawDone, sent, answers>>

\* An event the bridge makes a call for; any other is passed on as it is.
NeedsCall == {"approval", "ask", "ui", "message", "error"}

Take ==
    /\ outbox # <<>> /\ calling = NoEvent
    /\ IF Head(outbox).kind \in NeedsCall
       THEN calling' = Head(outbox) /\ UNCHANGED streamed
       ELSE streamed' = Append(streamed, Head(outbox)) /\ UNCHANGED calling
    /\ outbox' = Tail(outbox)
    /\ UNCHANGED <<Settings, at, socketVars, gateway, heard, sawDone, sent, answers>>

\* What is streamed when the call for an event has returned.  The log takes
\* entries on a best effort; the store may refuse a document, the broker a
\* request; an approval that was relayed is only spoken of when it was denied.
Replies(event) ==
    LET As(kind) == <<[event EXCEPT !.kind = kind]>>
    IN  CASE event.kind = "ui" -> {As("ui"), As("rejected")}
          [] event.kind = "ask" -> {As("pending"), As("error")}
          [] event.kind = "approval" -> {<<>>, As("error")}
          [] OTHER -> {<<event>>}

CallReturns ==
    /\ calling # NoEvent
    /\ \E reply \in Replies(calling) : streamed' = streamed \o reply
    /\ calling' = NoEvent
    /\ UNCHANGED <<Settings, at, socketVars, gateway, heard, outbox, sawDone, sent, answers>>

CloseSession == registered' = FALSE /\ socket' = IF socket = "none" THEN "none" ELSE "closed"

\* The provider's generator ends; its finally and the bridge's close the session.
Return ==
    /\ at = "returning" /\ Pulled
    /\ at' = "ended"
    /\ CloseSession
    /\ UNCHANGED <<Settings, broke, gateway, heard, bridgeVars, sawDone, sent, answers>>

\* Mutant: the session is left open when its provider throws.
ThrowOpen ==
    /\ streamed' = streamed \o Failure
    /\ at' = "ended"
    /\ UNCHANGED <<socket, registered>>

\* The provider throws: the bridge ends the stream itself.
Throw ==
    /\ streamed' = streamed \o Failure
    /\ at' = "ended"
    /\ CloseSession

-----------------------------------------------------------------------------
(* OpenClaw: the socket.  The gateway is outside: it greets, answers the   *)
(* requests it has received, and sends events.                             *)

SocketOpens ==
    /\ at = "connecting"
    /\ socket' = "open"
    /\ registered' = TRUE
    /\ at' = "handshaking"
    /\ UNCHANGED <<Settings, broke, gateway, heard, bridgeVars, sawDone, sent, answers>>

\* The error event or the timer of connect(), which terminates the socket.
ConnectFails ==
    /\ at = "connecting"
    /\ socket' = "closed"
    /\ outbox' = Failure
    /\ at' = "returning"
    /\ UNCHANGED <<Settings, broke, registered, gateway, heard, calling, streamed,
                   sawDone, sent, answers>>

\* The handshake awaits nothing but frames, so it has read those it has
\* before the socket delivers more.
MayDeliver ==
    /\ socket = "open"
    /\ at = "handshaking" => heard = <<>>
    /\ at \in {"handshaking", "streaming", "returning"}

\* A response answers `connect`, or, once the gateway has accepted, whichever
\* request it likes: the intention, or the resolution of an approval.
AfterSending(g, kind) ==
    CASE kind = "ok" /\ "connect" \in g.asked ->
           [asked |-> g.asked \ {"connect"}, accepted |-> TRUE]
      [] kind = "refusal" -> [g EXCEPT !.asked = @ \ {"connect"}]
      [] OTHER -> g
MaySend(g, kind) == kind \in {"ok", "refusal"} => g.accepted \/ "connect" \in g.asked

\* Mutant: a listener for one frame at a time, attached while one is awaited.
DeliverIfAwaited(frames) ==
    /\ heard' = IF Pulled THEN heard \o frames ELSE heard
    /\ answers' = IF at = "streaming" THEN answers \o frames ELSE answers
    /\ sent' = sent + Len(frames)

Deliver(frames) ==
    /\ heard' = heard \o frames
    /\ answers' = IF at = "streaming" THEN answers \o frames ELSE answers
    /\ sent' = sent + Len(frames)

\* One frame, or two in one segment, reach the listener in one tick.
GatewaySends ==
    /\ MayDeliver
    /\ \/ \E kind \in FrameKinds :
            /\ sent < MaxFrames
            /\ MaySend(gateway, kind)
            /\ Deliver(<<kind>>)
            /\ gateway' = AfterSending(gateway, kind)
       \/ \E kind, next \in FrameKinds :
            /\ sent + 1 < MaxFrames
            /\ MaySend(gateway, kind)
            /\ MaySend(AfterSending(gateway, kind), next)
            /\ Deliver(<<kind, next>>)
            /\ gateway' = AfterSending(AfterSending(gateway, kind), next)
    /\ UNCHANGED <<Settings, at, socketVars, bridgeVars, sawDone>>

SocketEnds ==
    /\ MayDeliver
    /\ socket' = "closed"
    /\ broke' \in BOOLEAN
    /\ UNCHANGED <<Settings, at, registered, gateway, heard, bridgeVars, sawDone, sent, answers>>

-----------------------------------------------------------------------------
(* OpenClaw: the handshake.                                                *)

\* send() on a socket that is not open is dropped.
Request(name) ==
    gateway' = IF socket = "open" THEN [gateway EXCEPT !.asked = @ \union {name}] ELSE gateway

\* A challenge is answered with `connect`; what is not a response is skipped.
\* (JSON's null is not an object whose fields could be read: HandshakeThrows.)
HandshakeReads ==
    /\ at = "handshaking" /\ heard # <<>>
    /\ Head(heard) \notin {"ok", "refusal", "null"}
    /\ IF Head(heard) = "challenge" THEN Request("connect") ELSE UNCHANGED gateway
    /\ heard' = Tail(heard)
    /\ UNCHANGED <<Settings, at, socketVars, bridgeVars, sawDone, sent, answers>>

\* Mutant: any response ends the handshake.
HandshakeAcceptedAnyway ==
    /\ at = "handshaking" /\ heard # <<>>
    /\ Head(heard) \in {"ok", "refusal"}
    /\ streamed' = streamed \o <<Own("session"), Own("status")>>
    /\ Request("intention")
    /\ heard' = <<>>
    /\ at' = "streaming"
    /\ UNCHANGED <<Settings, socketVars, outbox, calling, sawDone, sent, answers>>

\* hello: the session is announced and the intention sent in the same tick in
\* which a second iteration of messages() registers, with a queue of its own.
\* What came behind the hello stays in the queue of the first.
HandshakeAccepted ==
    /\ at = "handshaking" /\ heard # <<>>
    /\ Head(heard) = "ok"
    /\ streamed' = streamed \o <<Own("session"), Own("status")>>
    /\ Request("intention")
    /\ heard' = <<>>
    /\ at' = "streaming"
    /\ UNCHANGED <<Settings, socketVars, outbox, calling, sawDone, sent, answers>>

\* Mutant: a close during the handshake goes unnoticed.
HandshakeRefusedOnly ==
    /\ at = "handshaking" /\ heard # <<>>
    /\ Head(heard) = "refusal"
    /\ socket' = "closed"
    /\ registered' = FALSE
    /\ outbox' = Failure
    /\ at' = "returning"
    /\ UNCHANGED <<Settings, broke, gateway, heard, calling, streamed, sawDone, sent, answers>>

\* A refusal, or a close: the socket is dropped and the run explains itself.
HandshakeRefused ==
    /\ at = "handshaking"
    /\ \/ heard # <<>> /\ Head(heard) = "refusal"
       \/ heard = <<>> /\ socket = "closed" /\ ~broke
    /\ socket' = "closed"
    /\ registered' = FALSE
    /\ outbox' = Failure
    /\ at' = "returning"
    /\ UNCHANGED <<Settings, broke, gateway, heard, calling, streamed, sawDone, sent, answers>>

\* An error of the socket, or of reading a frame that is JSON's null, is thrown
\* out of #handshake, and out of run.
HandshakeThrows ==
    /\ at = "handshaking"
    /\ \/ heard # <<>> /\ Head(heard) = "null"
       \/ heard = <<>> /\ socket = "closed" /\ broke
    /\ Throw
    /\ UNCHANGED <<Settings, broke, gateway, heard, outbox, calling, sawDone, sent, answers>>

-----------------------------------------------------------------------------
(* OpenClaw: the frames that answer the intention.                         *)

DecodeFrame(kind, n) ==
    LET One(event) == <<[kind |-> event, of |-> n]>>
    IN  CASE kind \in {"refusal", "unknown"} -> One("error")
          [] kind = "text" -> One("message")
          [] kind = "approval" -> One("approval")
          [] kind = "unanswerable" -> One("ask")
          [] kind = "document" -> One("ui")
          [] kind = "malformed" -> One("rejected")
          [] kind = "shutdown" -> One("done")
          [] kind = "null" -> Failure
          [] OTHER -> <<>>

StreamReads ==
    /\ at = "streaming" /\ Pulled /\ heard # <<>>
    /\ outbox' = DecodeFrame(Head(heard), Len(answers) - Len(heard) + 1)
    /\ heard' = Tail(heard)
    /\ at' = IF Head(heard) \in {"shutdown", "null"} THEN "returning" ELSE "streaming"
    /\ UNCHANGED <<Settings, socketVars, gateway, calling, streamed, sawDone, sent, answers>>

\* Mutant: a stream that closes without a shutdown ends without `done`.
StreamClosesQuietly ==
    /\ at = "streaming" /\ Pulled /\ heard = <<>> /\ socket = "closed"
    /\ outbox' = IF broke THEN Failure ELSE <<>>
    /\ at' = "returning"
    /\ UNCHANGED <<Settings, socketVars, gateway, heard, calling, streamed, sawDone, sent, answers>>

StreamCloses ==
    /\ at = "streaming" /\ Pulled /\ heard = <<>> /\ socket = "closed"
    /\ outbox' = IF broke THEN Failure ELSE <<Own("done")>>
    /\ at' = "returning"
    /\ UNCHANGED <<Settings, socketVars, gateway, heard, calling, streamed, sawDone, sent, answers>>

-----------------------------------------------------------------------------
(* The hosted gateway: one request under one timer of its own.             *)

HostedAnswers ==
    /\ at = "fetching"
    /\ at' = "reading"
    /\ UNCHANGED <<Settings, socketVars, gateway, heard, bridgeVars, sawDone, sent, answers>>

\* A line is decoded or dropped; the loop goes on after `done`.
HostedLine ==
    /\ at = "reading" /\ Pulled
    /\ sent < MaxFrames
    /\ sent' = sent + 1
    /\ \/ \E kind \in {"status", "message", "ask", "ui", "rejected", "error", "done"} :
            /\ outbox' = <<[kind |-> kind, of |-> sent']>>
            /\ sawDone' = (sawDone \/ kind = "done")
       \/ UNCHANGED <<outbox, sawDone>>
    /\ UNCHANGED <<Settings, at, socketVars, gateway, heard, calling, streamed, answers>>

HostedEnds ==
    /\ at = "reading" /\ Pulled
    /\ outbox' = IF sawDone THEN <<>> ELSE Failure
    /\ at' = "returning"
    /\ UNCHANGED <<Settings, socketVars, gateway, heard, calling, streamed, sawDone, sent, answers>>

\* A refusing status, an error of the connection, or the timer's abort.
HostedFails ==
    /\ at \in {"fetching", "reading"} /\ Pulled
    /\ outbox' = Failure
    /\ at' = "returning"
    /\ UNCHANGED <<Settings, socketVars, gateway, heard, calling, streamed, sawDone, sent, answers>>

-----------------------------------------------------------------------------
Handshake == HandshakeReads \/ HandshakeAccepted \/ HandshakeRefused \/ HandshakeThrows
Bridge == Begin \/ Submitted \/ Take \/ CallReturns \/ Return
OpenClaw == SocketOpens \/ ConnectFails \/ Handshake \/ StreamReads \/ StreamCloses
Hosted == HostedAnswers \/ HostedLine \/ HostedEnds \/ HostedFails
Gateway == GatewaySends \/ SocketEnds
Next == Bridge \/ OpenClaw \/ Hosted \/ Gateway

\* Node resumes what has settled.  A call to a peer ends, if only at the time
\* limit fetch sets for headers and bodies; connect() and the hosted turn end
\* at their own timers.  The gateway is under no obligation.
Fairness ==
    /\ WF_vars(Bridge)
    /\ WF_vars(SocketOpens \/ ConnectFails)
    /\ WF_vars(Handshake)
    /\ WF_vars(StreamReads \/ StreamCloses)
    /\ WF_vars(HostedEnds \/ HostedFails)

Spec == Init /\ [][Next]_vars /\ Fairness

-----------------------------------------------------------------------------
(* Properties. *)

\* "a caller streaming to the UI always sees a terminated stream" (bridge.ts):
\* whatever the provider, the gateway or the peers do, a response that has
\* ended holds a `done`; with OpenClaw and the mock it holds one and nothing
\* after it.  (The hosted gateway may say done and go on: that is passed on.)
Done(stream) == {i \in 1..Len(stream) : stream[i].kind = "done"}
StreamIsTerminated ==
    /\ at = "ended" => Done(streamed) # {}
    /\ provider # "hosted" => Done(streamed) \subseteq {Len(streamed)}

\* A run that has ended holds no socket, through a refused or broken
\* handshake, a close, an error, or a shutdown.
SessionIsReleased == at = "ended" => ~registered /\ socket \notin {"connecting", "open"}

\* The gateway gets no intention, and the shell no session, before the
\* gateway has accepted the connection (the stray frame of openclaw.ts:517).
NothingBeforeHello ==
    ~gateway.accepted =>
        /\ "intention" \notin gateway.asked
        /\ provider = "openclaw" =>
             \A i \in 1..Len(streamed) : streamed[i].kind \in {"error", "done"}

\* Every frame that answers the intention is dealt with, in order: a run that
\* has ended has streamed something for each frame that carries something,
\* up to the one that ends the stream, and in the order of the frames.
Carries == {"refusal", "unknown", "text", "unanswerable", "document", "malformed"}
UpToTheLast ==
    {i \in 1..Len(answers) : \A j \in 1..i : answers[j] \notin {"shutdown", "null"}}
AnswersReachTheShell ==
    /\ at = "ended" =>
         \A i \in UpToTheLast :
            answers[i] \in Carries =>
                \E k \in 1..Len(streamed) : streamed[k].of = i
    /\ \A k, l \in 1..Len(streamed) :
         (k < l /\ streamed[l].of # 0) => streamed[k].of < streamed[l].of

\* A run ends: always with the mock and the hosted provider, which has a
\* timer over the whole turn; with OpenClaw when its socket ends.
RunEnds ==
    /\ (at = "submitting" /\ provider # "openclaw") ~> (at = "ended")
    /\ (socket = "closed") ~> (at = "ended")
=============================================================================
