---------------------------------- MODULE Sdp ----------------------------------
(***************************************************************************)
(* The session description of an RTSP server, as protocol/sdp.js reads it: *)
(* line by line, into the media that a pull sets up.                       *)
(*                                                                         *)
(* A line is a record: its type, the letter before "=", and for the types  *)
(* "m" and "a" what the parser takes from it.  The other values are kept   *)
(* as they are.                                                            *)
(***************************************************************************)
EXTENDS Naturals, Sequences

CONSTANT
  None         \* null, and an absent value

\* The media an m= line starts: the first payload type is the one that
\* counts.
Media(line) ==
  [type |-> line.media, payloadType |-> line.payloadTypes[1],
   codec |-> "", clockRate |-> 0, channels |-> 0, fmtp |-> None,
   control |-> None, direction |-> "sendrecv",
   connection |-> None, bandwidth |-> <<>>, attributes |-> {}]

\* parse, before the first line; `current` is the index of currentMedia.
EmptySession ==
  [fields |-> {}, connection |-> None, bandwidth |-> <<>>, attributes |-> {},
   media |-> <<>>, current |-> 0]

\* parseAttribute: a later value takes the place of an earlier one.
ParseAttribute(attributes, line) ==
  {a \in attributes : a.key # line.key \/ a.pt # line.pt} \cup {line}

\* parseRtpmap: of the media's payload type, or only an attribute.
ParseRtpmap(media, line) ==
  LET known == [media EXCEPT !.attributes = ParseAttribute(@, line)]
  IN IF line.pt # media.payloadType THEN known
     ELSE [known EXCEPT !.codec = line.codec, !.clockRate = line.rate,
                        !.channels = IF media.type = "audio" /\ line.channels > 0
                                     THEN line.channels ELSE @]

\* parseFmtp.
ParseFmtp(media, line) ==
  LET known == [media EXCEPT !.attributes = ParseAttribute(@, line)]
  IN IF line.pt # media.payloadType THEN known
     ELSE [known EXCEPT !.fmtp = line.params]

\* parseMediaAttribute.
ParseMediaAttribute(media, line) ==
  CASE line.key = "rtpmap"  -> ParseRtpmap(media, line)
    [] line.key = "fmtp"    -> ParseFmtp(media, line)
    [] line.key = "control" -> [media EXCEPT !.control = line.value]
    [] line.key \in {"recvonly", "sendonly", "sendrecv", "inactive"}
                            -> [media EXCEPT !.direction = line.key]
    [] OTHER                -> [media EXCEPT !.attributes = ParseAttribute(@, line)]

\* parseMediaLevelLine.
ParseMediaLevelLine(media, line) ==
  CASE line.type = "c" -> [media EXCEPT !.connection = line]
    [] line.type = "b" -> [media EXCEPT !.bandwidth = Append(@, line)]
    [] line.type = "a" -> ParseMediaAttribute(media, line)
    [] OTHER           -> media

\* parseSessionLevelLine: v, o, s, i, u, e, p and t each have a field.
ParseSessionLevelLine(session, line) ==
  CASE line.type = "c" -> [session EXCEPT !.connection = line]
    [] line.type = "b" -> [session EXCEPT !.bandwidth = Append(@, line)]
    [] line.type = "a" -> [session EXCEPT !.attributes = ParseAttribute(@, line)]
    [] OTHER           -> [session EXCEPT !.fields =
                             {f \in @ : f.type # line.type} \cup {line}]

\* Mutant: what follows a line that was refused belongs to the last media.
StartMediaIfComplete(session, line) ==
  IF ~line.complete THEN session
  ELSE [session EXCEPT !.media = Append(@, Media(line)),
                       !.current = Len(session.media) + 1]

\* parseMediaLine: null when a part is missing.
StartMedia(session, line) ==
  IF ~line.complete THEN [session EXCEPT !.current = 0]
  ELSE [session EXCEPT !.media = Append(@, Media(line)),
                       !.current = Len(session.media) + 1]

\* One round of the loop of parse.
ParseLine(session, line) ==
  CASE line.type = "m" -> StartMedia(session, line)
    [] line.type # "m" /\ session.current > 0
         -> [session EXCEPT !.media[session.current] =
                              ParseMediaLevelLine(@, line)]
    [] OTHER -> ParseSessionLevelLine(session, line)

\* normalizeCodecName, of names in capitals.
NormalizeCodecName(codec) ==
  CASE codec \in {"H264", "AVC"} -> "H264"
    [] codec \in {"H265", "HEVC"} -> "H265"
    [] codec \in {"MPEG4-GENERIC", "AAC"} -> "MPEG4-GENERIC"
    [] OTHER -> codec

\* resolveMediaCodec, once all lines are read.
ResolveMediaCodec(media) ==
  [media EXCEPT
     !.codec = NormalizeCodecName(@),
     !.channels = IF media.type = "audio" /\ @ = 0
                     /\ (media.codec \in {"PCMA", "PCMU", "GSM"}
                           \/ media.clockRate > 0)
                  THEN 1 ELSE @]

=============================================================================
