--------------------------------- MODULE Chunks ---------------------------------
(***************************************************************************)
(* The chunk stream of RTMP: how protocol/rtmp.js cuts messages into       *)
(* chunks (chunksCreate) and puts chunks together again (chunkRead).       *)
(*                                                                         *)
(* The bytes of a chunk are cells: one for each byte of the basic header,  *)
(* one for each field of the message header, one for the extended          *)
(* timestamp, and the cells of the payload.  The reader takes as many      *)
(* cells as the code takes bytes; when that leads it to a cell of another  *)
(* kind, it is out of step with its peer for good.                         *)
(***************************************************************************)
EXTENDS Naturals, Sequences, SequencesExt

CONSTANTS
  RTMP_CHUNK_SIZE,      \* of a new connection: 128
  RTMP_MAX_CHUNK_SIZE,  \* of everything written: 0xffff
  ExtTime,              \* from here on a time takes a field more: 0xffffff
  MaxClock              \* 0xffffffff

ASSUME ChunksAssumption ==
  /\ RTMP_CHUNK_SIZE \in Nat \ {0} /\ RTMP_MAX_CHUNK_SIZE \in Nat \ {0}
  /\ ExtTime \in Nat \ {0} /\ MaxClock \in Nat /\ ExtTime < MaxClock

RTMP_CHANNEL_PROTOCOL == 2
RTMP_CHANNEL_INVOKE == 3
RTMP_CHANNEL_AUDIO == 4
RTMP_CHANNEL_VIDEO == 5
RTMP_CHANNEL_DATA == 6

\* rtmpHeaderSize, in cells: 11, 7, 3 and 0 bytes.
HeaderFields(fmt) == SubSeq(<<"time", "lengthType", "streamId">>, 1, 3 - fmt)
IsPayload(cell) ==
  DOMAIN cell \cap {"basic", "more", "time", "lengthType", "streamId", "ext"} = {}

-----------------------------------------------------------------------------
(***************************************************************************)
(* Writing.  A packet is a message with its chunk stream (cid) and time.   *)
(***************************************************************************)

\* chunkBasicHeaderCreate: one to three bytes.
ChunkBasicHeaderCreate(fmt, cid) ==
  IF cid < 64 THEN <<[basic |-> <<fmt, cid>>]>>
  ELSE IF cid < 64 + 255
  THEN <<[basic |-> <<fmt, 0>>], [more |-> cid - 64]>>
  ELSE <<[basic |-> <<fmt, 1>>], [more |-> (cid - 64) % 256],
         [more |-> ((cid - 64) \div 256) % 256]>>

\* chunkMessageHeaderCreate.
ChunkMessageHeaderCreate(fmt, packet) ==
  SubSeq(<<[time |-> IF packet.time >= ExtTime THEN ExtTime ELSE packet.time],
           [lengthType |-> <<Len(packet.payload), packet.type>>],
           [streamId |-> packet.sid]>>, 1, 3 - fmt)

\* What a chunk that goes on with a message repeats of its header.
ExtendedTimestamp(time) == IF time >= ExtTime THEN <<[ext |-> time]>> ELSE <<>>

\* A message in chunks of a size: the first with a header of type fmt, the
\* others with one of type 3.
InChunks(fmt, packet, size) ==
  LET count == IF packet.payload = <<>> THEN 1
               ELSE (Len(packet.payload) + size - 1) \div size
      Part(i) == SubSeq(packet.payload, (i - 1) * size + 1,
                        IF i = count THEN Len(packet.payload) ELSE i * size)
  IN [i \in 1..count |->
        ChunkBasicHeaderCreate(IF i = 1 THEN fmt ELSE 3, packet.cid)
          \o (IF i = 1 THEN ChunkMessageHeaderCreate(fmt, packet) ELSE <<>>)
          \o ExtendedTimestamp(packet.time)
          \o Part(i)]

\* Mutant: the chunks after the first have no extended timestamp.
ExtendedOnce(packet) ==
  LET chunks == InChunks(0, packet, RTMP_MAX_CHUNK_SIZE)
  IN [i \in DOMAIN chunks |->
        IF i = 1 THEN chunks[1]
        ELSE SelectSeq(chunks[i], LAMBDA cell : "ext" \notin DOMAIN cell)]

\* chunksCreate.  The buffer of a message without payload is a byte short.
ChunksCreate(packet) ==
  LET chunks == InChunks(0, packet, RTMP_MAX_CHUNK_SIZE)
  IN IF packet.payload = <<>> THEN <<Front(chunks[1])>> ELSE chunks

\* createMessage of an audio, video or data packet.
CreateMessage(avpacket) ==
  ChunksCreate([type |-> avpacket.type, time |-> avpacket.dts, sid |-> 0,
                cid |-> CASE avpacket.type = "audio" -> RTMP_CHANNEL_AUDIO
                          [] avpacket.type = "video" -> RTMP_CHANNEL_VIDEO
                          [] OTHER -> RTMP_CHANNEL_DATA,
                payload |-> avpacket.payload])

-----------------------------------------------------------------------------
(***************************************************************************)
(* Reading.                                                                *)
(***************************************************************************)

\* new RtmpPacket.
RtmpPacket == [time |-> 0, length |-> 0, type |-> "none", sid |-> 0,
               clock |-> 0, payload |-> <<>>]

\* The parser of a new connection.  `handled` is what packetHandler was
\* called for since the last buffer came in.
Parser ==
  [state |-> "INIT", buffer |-> <<>>, basicBytes |-> 0, cid |-> 0,
   inPackets |-> <<>>, inChunkSize |-> RTMP_CHUNK_SIZE,
   handled |-> <<>>, inStep |-> TRUE]

\* f, but y at x.
Updated(f, x, y) == [z \in DOMAIN f \cup {x} |-> IF z = x THEN y ELSE f[z]]

ParserPacket(p) == p.inPackets[p.cid]
WithPacket(p, packet) == [p EXCEPT !.inPackets = Updated(@, p.cid, packet)]
Fmt(p) == p.buffer[1].basic[1]

\* The chunk stream of a basic header.  With three bytes, streams whose two
\* bytes have the same sum are taken for one.
Cid(p) ==
  CASE p.basicBytes = 1 -> p.buffer[1].basic[2]
    [] p.basicBytes = 2 -> 64 + p.buffer[2].more
    [] OTHER -> (64 + p.buffer[2].more + p.buffer[3].more) * 256

\* packetParse, with chunkMessageHeaderRead: what the header leaves out is
\* as in the header before, of the same chunk stream.
PacketParse(p) ==
  LET cid == Cid(p)
      old == IF cid \in DOMAIN p.inPackets THEN p.inPackets[cid] ELSE RtmpPacket
      at == p.basicBytes
      fmt == Fmt(p)
  IN WithPacket([p EXCEPT !.cid = cid],
       [old EXCEPT
          !.time   = IF fmt <= 2 THEN p.buffer[at + 1].time ELSE @,
          !.length = IF fmt <= 1 THEN p.buffer[at + 2].lengthType[1] ELSE @,
          !.type   = IF fmt <= 1 THEN p.buffer[at + 2].lengthType[2] ELSE @,
          !.sid    = IF fmt = 0 THEN p.buffer[at + 3].streamId ELSE @])

\* packetHandler, as far as it concerns the parser: controlHandler sets the
\* chunk size at once.  A message whose clock is beyond 32 bits is dropped.
PacketHandler(p) ==
  LET packet == ParserPacket(p)
      done == WithPacket([p EXCEPT !.state = "INIT"], [packet EXCEPT !.payload = <<>>])
      sized == [done EXCEPT !.inChunkSize = IF packet.type = "chunkSize"
                                            THEN packet.payload[1].size ELSE @]
  IN IF packet.clock > MaxClock THEN done
     ELSE [sized EXCEPT !.handled = Append(@,
             [type |-> packet.type, sid |-> packet.sid, clock |-> packet.clock,
              payload |-> packet.payload])]

\* Mutant: every chunk of a message moves its clock.
ClockOfChunk(p, time) ==
  [ParserPacket(p) EXCEPT !.clock = IF Fmt(p) = 0 THEN time ELSE @ + time]

\* A message that begins sets the clock of its chunk stream, or moves it on.
ClockOf(p, time) ==
  IF ParserPacket(p).payload # <<>> THEN ParserPacket(p)
  ELSE [ParserPacket(p) EXCEPT !.clock = IF Fmt(p) = 0 THEN time ELSE @ + time]

\* The rounds of chunkRead that only go on to the next state, in their
\* order: each needs that there is a byte left, but takes none.
BasicHeaderRead(p) ==
  IF p.state = "BASIC_HEADER" /\ Len(p.buffer) = p.basicBytes
  THEN [p EXCEPT !.state = "MESSAGE_HEADER"] ELSE p

HeaderSize(p) == p.basicBytes + Len(HeaderFields(Fmt(p)))
MessageHeaderRead(p) ==
  IF p.state = "MESSAGE_HEADER" /\ Len(p.buffer) = HeaderSize(p)
  THEN [PacketParse(p) EXCEPT !.state = "EXTENDED_TIMESTAMP"] ELSE p

Extended(p) == ParserPacket(p).time = ExtTime
ExtendedTimestampRead(p) ==
  IF p.state # "EXTENDED_TIMESTAMP" \/ (Extended(p) /\ Len(p.buffer) = HeaderSize(p))
  THEN p
  ELSE LET time == IF Extended(p) THEN Last(p.buffer).ext ELSE ParserPacket(p).time
       IN WithPacket([p EXCEPT !.state = "PAYLOAD"], ClockOf(p, time))

\* The end of a message, or of a chunk: where the bytes read so far are a
\* multiple of the chunk size of this moment.
PayloadRead(p) ==
  IF p.state # "PAYLOAD" THEN p
  ELSE LET packet == ParserPacket(p)
           bytes == Len(packet.payload)
       IN IF bytes >= packet.length THEN PacketHandler(p)
          ELSE IF bytes % p.inChunkSize = 0
          THEN [p EXCEPT !.state = "INIT"] ELSE p

\* A message without payload is handled in a round of its own, which needs
\* another byte: the first of what follows.
EmptyPayload(p) ==
  IF p.state = "PAYLOAD" /\ ParserPacket(p).length > 0 THEN p ELSE PayloadRead(p)

Settle(p) ==
  EmptyPayload(ExtendedTimestampRead(MessageHeaderRead(BasicHeaderRead(p))))

\* The cells that may come next.
Expects(p, cell) ==
  CASE p.state = "INIT" -> "basic" \in DOMAIN cell
    [] p.state = "BASIC_HEADER" -> "more" \in DOMAIN cell
    [] p.state = "MESSAGE_HEADER" ->
         HeaderFields(Fmt(p))[Len(p.buffer) - p.basicBytes + 1] \in DOMAIN cell
    [] p.state = "EXTENDED_TIMESTAMP" -> "ext" \in DOMAIN cell
    [] OTHER -> IsPayload(cell)

\* The round of chunkRead that takes a byte.
TakeCell(p, cell) ==
  IF ~p.inStep \/ ~Expects(p, cell) THEN [p EXCEPT !.inStep = FALSE]
  ELSE IF p.state = "INIT"
  THEN [p EXCEPT !.state = "BASIC_HEADER", !.buffer = <<cell>>,
                 !.basicBytes = CASE cell.basic[2] = 0 -> 2
                                  [] cell.basic[2] = 1 -> 3
                                  [] OTHER -> 1]
  ELSE IF p.state # "PAYLOAD" THEN [p EXCEPT !.buffer = Append(@, cell)]
  ELSE PayloadRead(WithPacket(p, [ParserPacket(p) EXCEPT !.payload = Append(@, cell)]))

\* chunkRead, for one byte.
ChunkRead(p, cell) == TakeCell(IF p.inStep THEN Settle(p) ELSE p, cell)

\* A buffer.
Read(p, cells) ==
  LET after[i \in 0..Len(cells)] ==
        IF i = 0 THEN [p EXCEPT !.handled = <<>>]
        ELSE ChunkRead(after[i - 1], cells[i])
  IN after[Len(cells)]

=============================================================================
