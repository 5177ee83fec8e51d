---------------------------------- MODULE Rtmp ----------------------------------
(***************************************************************************)
(* A relay session's RTMP connection, from both ends: RtmpClient           *)
(* (protocol/rtmp_client.js) with the calls that connectAndStart of        *)
(* session/rtmp_client_session.js makes, and the server, which is class    *)
(* Rtmp of another Node-Media-Server or a server of another kind.  What    *)
(* passes between them are the chunks of module Chunks, and the commands   *)
(* in them are written and read as module Amf says.                        *)
(*                                                                         *)
(* A pull gets media in whatever form the server's encoder gives it, and   *)
(* writes each message to a viewer of the local stream.                    *)
(***************************************************************************)
EXTENDS Chunks, Amf, FiniteSetsExt

CONSTANTS
  Modes,       \* of the relay: "pull", "push"
  Remotes,     \* of the server: "nms", "other"
  Infos,       \* values that other servers put into their answers
  Codes,       \* status codes of other servers
  Cids,        \* chunk streams of media
  Lengths,     \* of media messages
  Times, Deltas, \* of media messages
  Sizes,       \* chunk sizes of other servers
  MaxMessages, \* bound: media messages
  MaxQuiet     \* bound: intervals of 30 s without data from the server

ASSUME RtmpAssumption ==
  /\ Modes \subseteq {"pull", "push"} /\ Remotes \subseteq {"nms", "other"}
  /\ Sizes \subseteq Nat \ {0}
  /\ Cids \subseteq Nat /\ \A cid \in Cids : 4 <= cid /\ cid <= 65599
  /\ Lengths \subseteq Nat /\ Times \subseteq Nat /\ Deltas \subseteq Nat
  /\ \A info \in Infos : IsValue(info)
  /\ MaxMessages \in Nat /\ MaxQuiet \in Nat

\* The commands the two ends understand are of ASCII letters, as rtmp_client.js and
\* rtmp.js write them: AMF counts their bytes as their characters.
ASSUME NarrowAssumption ==
  \A cmd \in {"connect", "createStream", "play", "publish", "_result"} : cmd \notin Wide

VARIABLES
  direction, remote,  \* which relay, which server
  call,        \* where connectAndStart stands, and the result it may go on with
  client,      \* the RtmpClient
  server,      \* the other end
  toClient, toServer,  \* chunks under way
  encoder,     \* the media of the server: its chunk streams
  viewer,      \* the parser of a viewer of the local stream
  \* The rest only records what happened, for the properties.
  due,         \* messages written to the client or to the server, not heard
  heard,       \* those of the last read
  shown,       \* what was forwarded to the viewer, and what it understood
  oddities     \* of the encoder that the code does not handle

wires == <<toClient, toServer>>
ghosts == <<due, heard, shown, oddities>>
rtmpVars == <<direction, remote, call, client, server, wires, encoder, viewer, ghosts>>

-----------------------------------------------------------------------------
(***************************************************************************)
(* Messages.                                                               *)
(***************************************************************************)

\* A message to be written on one of the protocol's own chunk streams.
Control(type, payload) ==
  [type |-> type, time |-> 0, sid |-> 0, cid |-> RTMP_CHANNEL_PROTOCOL,
   payload |-> payload]

\* sendInvokeMessage.
Invoke(sid, opt) ==
  [type |-> "invoke", time |-> 0, sid |-> sid, cid |-> RTMP_CHANNEL_INVOKE,
   payload |-> EncodeAmf0Cmd(opt), opt |-> opt]

\* sendDataMessage.
DataMessage(sid, opt) ==
  [type |-> "data", time |-> 0, sid |-> sid, cid |-> RTMP_CHANNEL_DATA,
   payload |-> EncodeAmf0Cmd(opt)]

SetChunkSize(size)  == Control("chunkSize", <<[size |-> size]>>)
SendWindowACK       == Control("windowAck", <<[size |-> 5000000]>>)
SetPeerBandwidth    == Control("bandwidth", <<[size |-> 5000000]>>)
UserEvent(type)     == Control("event", <<[event |-> type]>>)

\* sendStatusMessage.
Status(sid, code) ==
  Invoke(sid, [cmd |-> Str("onStatus"), transId |-> Num(0), cmdObj |-> Null,
               info |-> Obj(<<<<"code", Str(code)>>>>)])
\* respondConnect, respondCreateStream and their like.
Result(cmd, transId, info) ==
  Invoke(0, [cmd |-> Str(cmd), transId |-> transId, cmdObj |-> Null,
             info |-> info])

\* What a reader should make of it, and what it made of it: of a command,
\* its values.
Meaning(m) ==
  IF m.type = "invoke"
  THEN [type |-> "invoke", sid |-> m.sid, opt |-> MeantCmd(m.opt)]
  ELSE [type |-> m.type, sid |-> m.sid, clock |-> m.time, payload |-> m.payload]
Understood(h) ==
  IF h.type = "invoke"
  THEN [type |-> "invoke", sid |-> h.sid, opt |-> DecodeAmf0Cmd(h.payload)]
  ELSE h

\* A part of the handshake, which is not a message.
Signature(sig) == [type |-> "signature", sig |-> sig]

\* The chunks of messages, and what they mean.
Written(ms) ==
  FlattenSeq([i \in DOMAIN ms |->
    IF ms[i].type = "signature" THEN << <<[sig |-> ms[i].sig]>> >>
    ELSE ChunksCreate(ms[i])])
Meanings(ms) ==
  FlattenSeq([i \in DOMAIN ms |->
    IF ms[i].type = "signature" THEN <<>> ELSE <<Meaning(ms[i])>>])
Unheard(side) == From(due[side], Len(heard[side]) + 1)

\* What a call awaits: nothing yet, a value, or a rejection.
NoResult == [is |-> "none"]
Ok(info) == [is |-> "ok", info |-> info]
Error == [is |-> "error"]

-----------------------------------------------------------------------------
(***************************************************************************)
(* The client.  s is a state of it and of the call that awaits it, with    *)
(* what it writes in `out` and what it hands on in `media`.                *)
(***************************************************************************)
Without(f, x) == [y \in DOMAIN f \ {x} |-> f[y]]

\* Mutant: the command stays pending.
SettledKept(s, id, result) ==
  [s EXCEPT !.call.result = IF s.call.at = s.client.pending[id] THEN result ELSE @]

\* A promise is settled: the call that awaits it has a result.
Settled(s, id, result) ==
  [s EXCEPT !.client.pending = Without(@, id),
            !.call.result = IF s.call.at = s.client.pending[id] THEN result ELSE @]

\* Mutant: the commands are forgotten, and nobody is told.
ForgetAllPending(s) == [s EXCEPT !.client.pending = <<>>]

\* rejectAllPending.
RejectAllPending(s) ==
  [s EXCEPT !.client.pending = <<>>,
            !.call.result = IF \E id \in DOMAIN s.client.pending :
                                 s.client.pending[id] = s.call.at
                            THEN Error ELSE @]

\* rejectHandshake.
RejectHandshake(s) ==
  [s EXCEPT !.client.waits = FALSE,
            !.call.result = IF s.client.waits THEN Error ELSE @]

\* sendCommand.
SendCommand(s, cmd, sid, opt) ==
  LET id == s.client.next
  IN [s EXCEPT !.client.next = @ + 1,
               !.client.pending = Updated(@, id, cmd),
               !.call = [at |-> cmd, result |-> NoResult],
               !.out = Append(@, Invoke(sid, Updated(Updated(opt, "cmd", Str(cmd)),
                                                     "transId", Num(id))))]

\* sendConnect: the size of what follows is announced first.
SendConnect(s) ==
  SendCommand([s EXCEPT !.out = Append(@, SetChunkSize(RTMP_MAX_CHUNK_SIZE))],
              "connect", 0,
              [cmdObj |-> Obj(<<<<"app", Str("live")>>>>), args |-> Arr(<<>>)])

\* Mutant: the commands for a stream are sent on stream 0.
SendPlayOnZero(s) ==
  SendCommand(s, "play", 0,
              [cmdObj |-> Null, streamName |-> Str("name"), start |-> Num(-2),
               duration |-> Num(-1), reset |-> Bool(TRUE)])

\* sendPlay, sendPublish.
SendPlay(s) ==
  SendCommand(s, "play", s.client.streamId,
              [cmdObj |-> Null, streamName |-> Str("name"), start |-> Num(-2),
               duration |-> Num(-1), reset |-> Bool(TRUE)])
SendPublish(s) ==
  SendCommand(s, "publish", s.client.streamId,
              [cmdObj |-> Null, streamName |-> Str("name"), type |-> Str("live")])

\* What a status code says of a command.
Grants(cmd, code) ==
  \/ cmd = "play" /\ code = "NetStream.Play.Start"
  \/ cmd = "publish" /\ code = "NetStream.Publish.Start"
Refuses(cmd, code) ==
  cmd \in {"play", "publish"} /\ code = "NetStream.Publish.BadName"

CodeOf(info) ==
  LET codes == IF info.type # "object" THEN {}
               ELSE {i \in DOMAIN info.props : info.props[i][1] = "code"}
  IN IF codes = {} THEN "" ELSE info.props[Max(codes)][2].text

\* invokeHandler: a result is for the command with its number, a status for
\* the play or publish command.
InvokeHandler(s, resp) ==
  LET pending == s.client.pending
      id == resp.transId.number
      code == CodeOf(resp.info)
  IN CASE resp.cmd = Str("_result") /\ id \in DOMAIN pending
            -> Settled(s, id, Ok(resp.info))
       [] resp.cmd = Str("_error") /\ id \in DOMAIN pending
            -> Settled(s, id, Error)
       [] resp.cmd = Str("onStatus")
            -> IF \E i \in DOMAIN pending : Refuses(pending[i], code)
               THEN Settled(s, CHOOSE i \in DOMAIN pending :
                                 Refuses(pending[i], code), Error)
               ELSE IF \E i \in DOMAIN pending : Grants(pending[i], code)
               THEN Settled(s, CHOOSE i \in DOMAIN pending :
                                 Grants(pending[i], code), Ok(resp.info))
               ELSE s
       [] OTHER -> s

\* packetHandler of a message: a ping is answered, and what is not a
\* command or a control message is handed on.
ClientHandler(s, h) ==
  CASE h.type = "invoke" -> InvokeHandler(s, DecodeAmf0Cmd(h.payload))
    [] h.type = "event" ->
         IF h.payload[1].event = "ping"
         THEN [s EXCEPT !.out = Append(@, UserEvent("pong"))] ELSE s
    [] h.type \in {"audio", "video", "data"} ->
         [s EXCEPT !.media = Append(@, h)]
    [] OTHER -> s

\* handleData, until the handshake is done.
TakeSignature(s, cell) ==
  CASE s.client.hs = "S0S1" /\ cell.sig = "S0S1" ->
         [s EXCEPT !.client.hs = "S2", !.out = Append(@, Signature("C2"))]
    [] s.client.hs = "S0S1" /\ cell.sig # "S0S1" ->
         LET t == RejectHandshake(s) IN [t EXCEPT !.client.socket = "failed"]
    [] OTHER ->
         [s EXCEPT !.client.hs = "done", !.client.waits = FALSE,
                   !.call.result = Ok(Null)]

\* The messages of a read are handled.
Handles(t, parser) ==
  [handled |-> parser.handled,
   s |-> FoldLeft(ClientHandler,
                  [t EXCEPT !.client.parser = [parser EXCEPT !.handled = <<>>],
                            !.client.quiet = 0],
                  parser.handled)]

\* handleData.
IsSignature(chunk) == "sig" \in DOMAIN chunk[1]
Sigs(chunks) ==
  FlattenSeq([i \in DOMAIN chunks |-> IF IsSignature(chunks[i]) THEN chunks[i] ELSE <<>>])
NoSigs(chunks) ==
  FlattenSeq([i \in DOMAIN chunks |-> IF IsSignature(chunks[i]) THEN <<>> ELSE chunks[i]])
HandleData(s, chunks) ==
  Handles(FoldLeft(TakeSignature, s, Sigs(chunks)),
          Read(s.client.parser, NoSigs(chunks)))

\* resetProtocolState.
ResetProtocolState(c) ==
  [c EXCEPT !.hs = "C0C1", !.waits = FALSE, !.parser = Parser, !.next = 1,
            !.streamId = 0, !.quiet = 0, !.pending = <<>>]

\* disconnect.
Disconnected(s) ==
  LET t == RejectHandshake(RejectAllPending(s))
  IN [t EXCEPT !.client = [ResetProtocolState(@) EXCEPT !.socket = "destroyed",
                                                        !.beats = FALSE]]

Now == [client |-> client, call |-> call, out |-> <<>>, media |-> <<>>]

\* Nothing was read in this step.
Silence ==
  /\ heard' = [client |-> <<>>, server |-> <<>>]
  /\ shown' = [sent |-> <<>>, seen |-> <<>>]

\* The client writes; what it writes to a server that is gone is lost.
ClientWrites(ms) ==
  LET arriving == IF server.open THEN ms ELSE <<>>
  IN /\ toServer' = toServer \o Written(arriving)
     /\ due' = [client |-> Unheard("client"),
                server |-> Unheard("server") \o Meanings(arriving)]

ClientTurns(s) ==
  /\ client' = s.client /\ call' = s.call
  /\ ClientWrites(s.out) /\ Silence
  /\ UNCHANGED <<direction, remote, server, toClient, encoder, viewer, oddities>>

\* The server's end of a connection that is gone, and its encoder.
Fresh == [open |-> TRUE, hs |-> "uninit", parser |-> Parser, asked |-> NoResult,
          streams |-> 0, streamId |-> 0, role |-> "none"]
Gone == [Fresh EXCEPT !.open = FALSE]
NoMedia == [chunkSize |-> RTMP_CHUNK_SIZE, streams |-> <<>>, sent |-> 0]

\* The client's end is closed: whatever is under way is lost.
ClientEnds(s) ==
  /\ client' = s.client /\ call' = s.call
  /\ toServer' = <<>> /\ toClient' = <<>> /\ server' = Gone /\ encoder' = NoMedia
  /\ due' = [client |-> <<>>, server |-> <<>>] /\ Silence
  /\ UNCHANGED <<direction, remote, viewer, oddities>>

\* Nothing is left for the event loop to go on with.
Waiting == call.result = NoResult

\* A bound: no more is written to a client that has lost its place.
InStep == client.parser.inStep

Connected ==
  /\ Waiting /\ client.socket = "connecting"
  /\ ClientTurns([Now EXCEPT !.client.socket = "open", !.client.hs = "S0S1",
                             !.out = <<Signature("C0C1")>>])

\* What a viewer is sent of the media of a pull.
Viewed(s) == IF direction = "pull" /\ s.call.at = "started" THEN s.media ELSE <<>>

\* What the viewer makes of that.
Shown(sent) ==
  Read(viewer, FlattenSeq(FlattenSeq([i \in DOMAIN sent |->
    CreateMessage([type |-> sent[i].type, dts |-> sent[i].clock,
                   payload |-> sent[i].payload])])))

Views(sent, seen) ==
  /\ viewer' = [seen EXCEPT !.handled = <<>>]
  /\ shown' = [sent |-> [i \in DOMAIN sent |-> [sent[i] EXCEPT !.sid = 0]],
               seen |-> seen.handled]

ClientTakes(r) ==
  /\ client' = r.s.client /\ call' = r.s.call
  /\ ClientWrites(r.s.out)
  /\ Views(Viewed(r.s), Shown(Viewed(r.s)))
  /\ heard' = [client |-> [i \in DOMAIN r.handled |-> Understood(r.handled[i])],
               server |-> <<>>]

ClientRead ==
  /\ Waiting /\ client.socket = "open" /\ toClient # <<>>
  /\ \E k \in Max({1, Len(toClient) - 1})..Len(toClient) :
       /\ ClientTakes(HandleData(Now, SubSeq(toClient, 1, k)))
       /\ toClient' = From(toClient, k + 1)
  /\ UNCHANGED <<direction, remote, server, encoder, oddities>>

\* connectAndStart goes on.  registerPull and registerPush may fail.
Continue ==
  /\ call.result # NoResult
  /\ LET info == call.result.info
         s == [Now EXCEPT !.call.result = NoResult]
         Fails == ClientTurns([s EXCEPT !.call.at = "failed"])
     IN IF call.result = Error THEN Fails
        ELSE CASE call.at = "handshake" -> ClientTurns(SendConnect(s))
               [] call.at = "connect" ->
                    ClientTurns(SendCommand(s, "createStream", 0,
                                            [cmdObj |-> Null]))
               [] call.at = "createStream" /\ info.type # "number" -> Fails
               [] call.at = "createStream" /\ info.type = "number" ->
                    LET t == [s EXCEPT !.client.streamId = info.number]
                    IN ClientTurns(IF direction = "pull" THEN SendPlay(t)
                                   ELSE SendPublish(t))
               [] OTHER ->
                    \/ Fails
                    \/ ClientTurns([s EXCEPT !.call.at = "started",
                                             !.client.beats = TRUE])

\* The error event comes before the close event.
SocketError ==
  /\ Waiting /\ client.socket \in {"connecting", "open"}
  /\ LET s == RejectHandshake(Now)
     IN ClientEnds([s EXCEPT !.client.socket = "failed"])

\* The close event, once everything is read that the server had written.
SocketClosed ==
  /\ Waiting
  /\ \/ client.socket \in {"failed", "destroyed"}
     \/ client.socket = "open" /\ ~server.open /\ toClient = <<>>
  /\ LET s == RejectHandshake(RejectAllPending(Now))
     IN ClientEnds([s EXCEPT !.client.socket = "closed", !.client.beats = FALSE])

\* disconnect, by close of the session.
SessionCloses ==
  /\ Waiting /\ client.socket \in {"connecting", "open", "failed"}
  /\ ClientEnds(Disconnected(Now))

\* 30 s without data from the server: the heartbeat writes a ping.  (A
\* bound: none between the media of another server, whose pong would come
\* between two chunks as the announcement of a size may.)
Heartbeat ==
  /\ Waiting /\ client.socket = "open" /\ client.beats /\ encoder.sent = 0
  /\ toClient = <<>> /\ toServer = <<>> /\ client.quiet < MaxQuiet
  /\ ClientTurns([Now EXCEPT !.client.quiet = @ + 1, !.out = <<UserEvent("ping")>>])

\* The timeout check of the session: isTimedOut, after 60 s, in which there
\* were two pings.
TimedOut ==
  /\ Waiting /\ client.socket = "open" /\ client.beats /\ client.quiet >= 2
  /\ LET s == Disconnected(Now) IN ClientEnds([s EXCEPT !.call.at = "timedOut"])

-----------------------------------------------------------------------------
(***************************************************************************)
(* The server.  t is a state of it, with what it writes in `out`.          *)
(***************************************************************************)

\* invokeHandler of Rtmp, with onConnect, onCreateStream, onPublish, onPlay.
NmsInvoke(t, sid, resp) ==
  LET cmd == resp.cmd
      Replies(ms) == [t EXCEPT !.out = @ \o ms]
  IN CASE cmd = Str("connect") ->
            Replies(<<SendWindowACK, SetPeerBandwidth,
                      SetChunkSize(RTMP_MAX_CHUNK_SIZE),
                      Result("_result", resp.transId,
                             Obj(<<<<"code", Str("NetConnection.Connect.Success")>>>>))>>)
       [] cmd = Str("createStream") ->
            [Replies(<<Result("_result", resp.transId, Num(t.server.streams + 1))>>)
               EXCEPT !.server.streams = @ + 1]
       [] cmd = Str("publish") ->
            [Replies(<<Status(sid, "NetStream.Publish.Start")>>)
               EXCEPT !.server.role = "publish", !.server.streamId = sid]
       [] cmd = Str("play") ->
            [Replies(<<UserEvent("begin"),
                       Status(sid, "NetStream.Play.Reset"),
                       Status(sid, "NetStream.Play.Start"),
                       DataMessage(0, [cmd |-> Str("|RtmpSampleAccess"),
                                       bool1 |-> Bool(FALSE),
                                       bool2 |-> Bool(FALSE)])>>)
               EXCEPT !.server.role = "play", !.server.streamId = sid]
       [] OTHER -> t

\* packetHandler of Rtmp: eventHandler does nothing, a ping is not answered.
NmsHandler(t, h) ==
  IF h.type = "invoke" THEN NmsInvoke(t, h.sid, DecodeAmf0Cmd(h.payload)) ELSE t

\* Another server remembers what it was asked.
OtherHandler(t, h) ==
  IF h.type = "invoke"
  THEN [t EXCEPT !.server.asked = [opt |-> DecodeAmf0Cmd(h.payload), sid |-> h.sid]]
  ELSE IF h.type = "event" /\ h.payload[1].event = "ping"
  THEN [t EXCEPT !.out = Append(@, UserEvent("pong"))]
  ELSE t

\* generateS0S1S2, with or without digests: a client looks at the version.
GenerateS0S1S2 == <<Signature("S0S1"), Signature("S2")>>

\* parserData: C0 and C1 are answered, C2 ends the handshake.
ParserData(t, cell) ==
  IF cell.sig = "C0C1"
  THEN [t EXCEPT !.server.hs = "1", !.out = GenerateS0S1S2]
  ELSE [t EXCEPT !.server.hs = "2"]

ServerTakes(t, handled) ==
  /\ server' = t.server
  /\ toServer' = <<>>
  /\ toClient' = toClient \o Written(t.out)
  /\ due' = [client |-> Unheard("client") \o Meanings(t.out),
             server |-> Unheard("server")]
  /\ heard' = [client |-> <<>>,
               server |-> [i \in DOMAIN handled |-> Understood(handled[i])]]

ServerHandler(t, h) == IF remote = "nms" THEN NmsHandler(t, h) ELSE OtherHandler(t, h)

ServerHandles(t, parser) ==
  ServerTakes(FoldLeft(ServerHandler,
                       [t EXCEPT !.server.parser = [parser EXCEPT !.handled = <<>>]],
                       parser.handled),
              parser.handled)

ServerRead ==
  /\ server.open /\ toServer # <<>>
  /\ ServerHandles(FoldLeft(ParserData, [server |-> server, out |-> <<>>],
                            Sigs(toServer)),
                   Read(server.parser, NoSigs(toServer)))
  /\ shown' = [sent |-> <<>>, seen |-> <<>>]
  /\ UNCHANGED <<direction, remote, call, client, encoder, viewer, oddities>>

\* The server writes chunks; what messages they complete.
ServerWrites(chunks, meanings) ==
  /\ toClient' = toClient \o chunks
  /\ due' = [client |-> Unheard("client") \o meanings, server |-> Unheard("server")]
  /\ Silence
  /\ UNCHANGED <<direction, remote, call, client, toServer, viewer>>

\* A message of another server, in chunks of its size.
ServerSays(m) == ServerWrites(InChunks(0, m, encoder.chunkSize), <<Meaning(m)>>)
\* It says nothing more to a client whose call has failed.
OtherMay ==
  /\ remote = "other" /\ server.open /\ toClient = <<>>
  /\ call.at # "failed"

\* Another server answers: with a result or an error, to the number it was
\* asked or to another, or with a status.  It may first announce a size.
OtherAnswers ==
  /\ OtherMay /\ server.asked # NoResult
  /\ LET cmd == server.asked.opt.cmd.text
         id == server.asked.opt.transId
         results == IF cmd = "createStream" THEN {Num(1), Null}
                    ELSE IF cmd = "connect" THEN Infos ELSE {}
         answers ==
           {Result("_result", id, info) : info \in results}
             \cup {Result("_error", id, Null), Result("_result", Num(9), Null)}
             \cup (IF cmd \notin {"play", "publish"} THEN {}
                   ELSE {Status(server.asked.sid, code) : code \in Codes})
     IN \E answer \in answers :
          LET starts == answer = Status(server.asked.sid, "NetStream.Play.Start")
          IN /\ ServerSays(answer)
             /\ server' = [server EXCEPT !.asked = NoResult,
                             !.role = IF starts /\ cmd = "play" THEN "play" ELSE @,
                             !.streamId = server.asked.sid]
  /\ UNCHANGED <<encoder, oddities>>

\* Another server answers C0 and C1 with a version that is not 3.
OtherVersion ==
  /\ remote = "other" /\ server.open
  /\ toServer # <<>> /\ server.hs = "uninit"
  /\ toServer' = <<>> /\ server' = [server EXCEPT !.hs = "1"]
  /\ toClient' = Written(<<Signature("other version")>>)
  /\ Silence
  /\ UNCHANGED <<direction, remote, call, client, encoder, viewer, due, oddities>>

\* A ping, while the client awaits an answer.
OtherPings ==
  /\ OtherMay /\ server.asked # NoResult /\ toServer = <<>>
  /\ ServerSays(UserEvent("ping"))
  /\ UNCHANGED <<server, encoder, oddities>>

\* The server ends the connection: it refuses a stream, or stops.
ServerEnds ==
  /\ server.open /\ client.socket = "open"
  /\ server' = Gone /\ encoder' = NoMedia
  /\ toServer' = <<>> /\ due' = [client |-> Unheard("client"), server |-> <<>>]
  /\ Silence
  /\ UNCHANGED <<direction, remote, call, client, toClient, viewer, oddities>>

-----------------------------------------------------------------------------
(***************************************************************************)
(* The media of another server: messages of several chunk streams, mixed,  *)
(* with headers that leave out what has not changed.                       *)
(***************************************************************************)
Streaming ==
  /\ OtherMay /\ server.role = "play" /\ InStep

TypeOf(cid) == IF cid = Min(Cids) THEN "video" ELSE "audio"
Busy == {cid \in DOMAIN encoder.streams : encoder.streams[cid].left # <<>>}

\* The state of a chunk stream once `size` cells more of it are sent.
Sent(stream, size) ==
  [stream EXCEPT !.left = IF Len(@) > size THEN From(@, size + 1) ELSE <<>>]

\* The cells of the next message.
MediaCells(length) == [i \in 1..length |-> [media |-> <<encoder.sent + 1, i>>]]

\* The message is complete, and its clock has not passed 32 bits.
Completed(stream) ==
  IF stream.left # <<>> \/ stream.message.clock > MaxClock THEN <<>>
  ELSE <<stream.message>>

\* A header of a type says what the ones before it did not.
LengthsAfter(fmt, old) == IF fmt <= 1 THEN Lengths ELSE {old.length}
TimesAfter(fmt, old) ==
  IF fmt = 0 THEN Times ELSE IF fmt = 3 THEN {old.time} ELSE Deltas

Begins(fmt, cid, old, length, time) ==
  LET packet == [type |-> TypeOf(cid), time |-> time, sid |-> server.streamId,
                 cid |-> cid, payload |-> MediaCells(length)]
      clock == IF fmt = 0 THEN time ELSE old.message.clock + time
      stream == [time |-> time, length |-> length, left |-> packet.payload,
                 message |-> [type |-> packet.type, sid |-> packet.sid,
                              clock |-> clock, payload |-> packet.payload]]
      next == Sent(stream, encoder.chunkSize)
  IN /\ ServerWrites(<<InChunks(fmt, packet, encoder.chunkSize)[1]>>, Completed(next))
     /\ encoder' = [encoder EXCEPT !.sent = @ + 1, !.streams = Updated(@, cid, next)]
     /\ oddities' = IF length = 0 THEN oddities \cup {"empty"} ELSE oddities

BeginMessage ==
  /\ Streaming /\ encoder.sent < MaxMessages
  /\ \E cid \in Cids \ Busy : \E fmt \in 0..3 :
       /\ fmt > 0 => cid \in DOMAIN encoder.streams
       /\ LET old == encoder.streams[cid]
          IN \E length \in LengthsAfter(fmt, old) : \E time \in TimesAfter(fmt, old) :
               Begins(fmt, cid, old, length, time)
  /\ UNCHANGED server

ContinueMessage ==
  /\ Streaming
  /\ \E cid \in Busy :
       LET stream == encoder.streams[cid]
           next == Sent(stream, encoder.chunkSize)
           part == SubSeq(stream.left, 1, Len(stream.left) - Len(next.left))
       IN /\ ServerWrites(<<ChunkBasicHeaderCreate(3, cid)
                              \o ExtendedTimestamp(stream.time) \o part>>,
                          Completed(next))
          /\ encoder' = [encoder EXCEPT !.streams[cid] = next]
  /\ UNCHANGED <<server, oddities>>

\* It announces another chunk size, if need be within a message.
Resize ==
  /\ OtherMay
  /\ (server.asked # NoResult \/ server.role = "play")
  /\ InStep
  /\ \E size \in Sizes \ {encoder.chunkSize} :
       /\ ServerSays(SetChunkSize(size))
       /\ encoder' = [encoder EXCEPT !.chunkSize = size]
  /\ oddities' = IF Busy = {} THEN oddities
                 ELSE oddities \cup {"resized"}
  /\ UNCHANGED server

-----------------------------------------------------------------------------
RtmpInit ==
  /\ direction \in Modes /\ remote \in Remotes
  /\ call = [at |-> "handshake", result |-> NoResult]
  /\ client = [socket |-> "connecting", hs |-> "C0C1", waits |-> TRUE,
               parser |-> Parser, pending |-> <<>>, next |-> 1, streamId |-> 0,
               quiet |-> 0, beats |-> FALSE]
  /\ server = Fresh
  /\ toClient = <<>> /\ toServer = <<>>
  /\ encoder = NoMedia
  /\ viewer = [Parser EXCEPT !.inChunkSize = RTMP_MAX_CHUNK_SIZE]
  /\ due = [client |-> <<>>, server |-> <<>>]
  /\ heard = [client |-> <<>>, server |-> <<>>]
  /\ shown = [sent |-> <<>>, seen |-> <<>>]
  /\ oddities = {}

RtmpNext ==
  \/ Connected \/ ClientRead \/ Continue
  \/ SocketError \/ SocketClosed \/ SessionCloses \/ Heartbeat \/ TimedOut
  \/ ServerRead \/ OtherVersion \/ OtherAnswers \/ OtherPings
  \/ ServerEnds \/ BeginMessage \/ ContinueMessage \/ Resize

\* Something is left to do for an event loop or the network: where this
\* holds, Progress is enabled.
ToDo ==
  \/ ~Waiting
  \/ client.socket \in {"connecting", "failed", "destroyed"}
  \/ client.socket = "open" /\ (toClient # <<>> \/ ~server.open)
  \/ toServer # <<>>

\* The event loops of both processes go on, and the network delivers.
Progress == Connected \/ ClientRead \/ Continue \/ SocketClosed \/ ServerRead
Fairness == ([]<>~ToDo) \/ ([]<><<Progress>>_rtmpVars)

RtmpSpec == RtmpInit /\ [][RtmpNext]_rtmpVars /\ Fairness

-----------------------------------------------------------------------------
(***************************************************************************)
(* Properties.                                                             *)
(***************************************************************************)

Calling == {"connect", "createStream", "play", "publish"}

\* Everything that is written arrives once, whole and in its order, with its
\* type, stream, time and content; of a command, every value under its name.
\* That goes for whatever form chunks have, unless a size is announced
\* within a message.  A message without payload waits for what follows it.
MessagesArrive ==
  "resized" \notin oddities =>
    \A side \in {"client", "server"} :
      LET unread == IF side = "client" THEN toClient ELSE toServer
      IN /\ IsPrefix(heard[side], due[side])
         /\ unread = <<>> =>
              \A m \in Range(Unheard(side)) : m.type # "invoke" /\ m.payload = <<>>

\* A message that was handed on is written to a viewer so that it reads the
\* same one, with its time: a payload that is a multiple of the chunk size,
\* an extended timestamp.  Not if one had no payload: it is written without
\* its last byte.
ViewersInStep ==
  "empty" \notin oddities => viewer.inStep /\ shown.seen = shown.sent

\* A call awaits a promise that somebody will settle: the handshake's while
\* the connection is being made, or the one of the only command pending
\* while it is open; and no promise is left that nobody awaits.
NoPromiseLost ==
  call.result = NoResult =>
    LET awaited == {id \in DOMAIN client.pending : client.pending[id] = call.at}
    IN /\ awaited = DOMAIN client.pending
       /\ Cardinality(awaited) = IF call.at \in Calling THEN 1 ELSE 0
       /\ call.at \in Calling => client.socket \in {"open", "failed"}
       /\ client.waits <=> call.at = "handshake"

\* A relay that has started is what the server takes it for: a player or a
\* publisher of the stream it was given, with one chunk size each way.
BothAgree ==
  remote = "nms" /\ server.open /\ call.at = "started" /\ client.socket = "open" =>
    /\ server.role = IF direction = "pull" THEN "play" ELSE "publish"
    /\ server.streamId = client.streamId /\ client.streamId = server.streams
    /\ server.parser.inChunkSize = RTMP_MAX_CHUNK_SIZE
    /\ client.parser.inChunkSize = RTMP_MAX_CHUNK_SIZE

\* Between two Node-Media-Servers a call comes to its end, whatever happens
\* to the connection meanwhile.
CallEnds ==
  remote = "nms" ~> call.at \in {"started", "failed", "timedOut"}

\* docs/api.md:394: "Relay tasks pull an RTSP/RTMP source into the server, or
\* push a local stream out to an RTMP destination."  A push is not given up as
\* timed out while it pings another Node-Media-Server, which reads everything.
PushStays ==
  direction = "push" /\ remote = "nms" => call.at # "timedOut"

=============================================================================
