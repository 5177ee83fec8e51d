------------------------------ MODULE Depayloader ------------------------------
(***************************************************************************)
(* One media of an RTSP pull: the session description that names it (see   *)
(* module Sdp), and its way from the RTP packets of the camera to the      *)
(* packets that are broadcast: protocol/rtp_depayloader.js.                *)
(*                                                                         *)
(* A track checks sequence numbers, puts fragmented NAL units together,    *)
(* collects parameter sets into a header for the decoder, and turns RTP    *)
(* timestamps into milliseconds.  Tracks share nothing, so that one is     *)
(* enough here.                                                            *)
(*                                                                         *)
(* The camera sends its packets in order over TCP.  It may skip some when  *)
(* its buffers are full, and it may send packets that hold only padding.   *)
(* NAL units carry what the code looks at, their type, and the encoder     *)
(* configuration they announce or were encoded under; bytes are left out.  *)
(***************************************************************************)
EXTENDS Sdp, Integers, FiniteSets, SequencesExt

CONSTANTS
  Lines,       \* lines of session descriptions
  MaxLines,    \* bound: lines of a session description
  SeqRange,      \* sequence numbers: 2^16
  GapLimit,    \* distances from here on are not a gap: 30000
  TsRange,       \* timestamps: 2^32
  FirstSeq, FirstTs,  \* where the camera starts to count
  Configs,     \* configurations the encoder goes through, 1 .. n
  MaxParts,    \* bound: fragments of a NAL unit
  MaxBurst,    \* packets of one picture: far below GapLimit
  MaxPackets,  \* bound: packets the camera sends
  MaxMissed,   \* bound: packets it skips, and packets of padding
  MaxTime      \* bound: ticks a camera runs

ASSUME DepayloaderAssumption ==
  /\ SeqRange \in Nat /\ GapLimit \in 2..(SeqRange - 1)
  /\ TsRange \in Nat /\ TsRange > 1 /\ MaxLines \in Nat
  /\ FirstSeq \in 0..(SeqRange - 1) /\ FirstTs \in 0..(TsRange - 1)
  /\ Configs \subseteq Nat \ {0} /\ 1 \in Configs
  /\ MaxBurst \in 1..GapLimit
  /\ MaxParts \in Nat /\ MaxPackets \in Nat /\ MaxMissed \in Nat
  /\ MaxTime \in Nat /\ 2 * MaxTime < TsRange
  /\ None \notin {"H264", "H265", "HEVC"} \cup
                 [{"sps", "pps"} -> Nat] \cup [{"vps", "sps", "pps"} -> Nat]

VARIABLES
  sdp,      \* the lines read so far and the session; None: it is set up
  codec, clockRate,  \* of the media, as the depayloader was told
  lastSeq,  \* -1: none yet
  clock,    \* firstRtpTimestamp, lastRtpTimestamp, elapsedTicks
  header,   \* parameter sets, the record made of them, headerEmitted
  fu,       \* fuStarted, fuTimestamp, fuNalType, fuBuffers
  out,      \* what the last feed returned
  camera,   \* the encoder and its packetizer
  \* The rest only records what happened, for the properties.
  told,     \* parameter sets of this configuration that were received
  viewer,   \* the header a viewer was sent last
  steady,   \* packets received since the camera last missed one
  base, top \* capture time of the first packet returned, and the latest one

trackVars == <<lastSeq, clock, header, fu>>
ghosts == <<told, viewer, steady, base, top>>
mediaVars == <<sdp, codec, clockRate>>
vars == <<mediaVars, trackVars, out, camera, ghosts>>

-----------------------------------------------------------------------------
(***************************************************************************)
(* Media.                                                                  *)
(***************************************************************************)

\* addTrack: the class that handles a codec.
TrackOf(name) ==
  CASE name \in {"H264"} -> "H264Depayloader"
    [] name \in {"H265", "HEVC"} -> "H265Depayloader"
    [] name \in {"MPEG4-GENERIC", "AAC"} -> "AacDepayloader"
    [] name \in {"PCMA", "PCMU"} -> "PcmaDepayloader"
    [] OTHER -> "PassthroughDepayloader"

\* The parameter sets a codec's header is made of.
SetsOf(name) ==
  CASE TrackOf(name) = "H264Depayloader" -> {"sps", "pps"}
    [] TrackOf(name) = "H265Depayloader" -> {"vps", "sps", "pps"}
    [] OTHER -> {}

Playing == sdp = None
Video == Playing /\ SetsOf(codec) # {}
Frames == {"key", "inter"}  \* isVcl: IDR and other slices
Nal(type) == [type |-> type, config |-> camera.config]

\* A NAL unit as a viewer gets it: `parts` tells the fragments it was put
\* together from, each as <<packet the unit began with, number, count>>.
Unit(nal, parts, inStep) ==
  [type |-> nal.type, config |-> nal.config, parts |-> parts, inStep |-> inStep]
Whole(unit) ==
  LET first == unit.parts[1][1]
      count == unit.parts[1][3]
  IN unit.parts = [i \in 1..count |-> <<first, i, count>>]
Uncut(nal) == Unit(nal, <<<<camera.sent, 1, 1>>>>, TRUE)

\* What is broadcast: a header for the decoder, or the units of a picture.
HeaderPacket(record) == [flags |-> "videoHeader", record |-> record]
NalPacket(units) ==
  [flags |-> IF \E i \in DOMAIN units : units[i].type = "key"
             THEN "key" ELSE "inter", units |-> units]

\* _buildAvcConfigRecord and _buildHevcConfigRecord: the record has each of
\* the sets in it, and two records are equal if their sets are.
AvcConfigRecord(sets) == [sps |-> sets.sps, pps |-> sets.pps]
HevcConfigRecord(sets) ==
  [vps |-> sets.vps, sps |-> sets.sps, pps |-> sets.pps]
ConfigRecord(sets) == IF "vps" \in DOMAIN sets THEN HevcConfigRecord(sets)
                      ELSE AvcConfigRecord(sets)

-----------------------------------------------------------------------------
(***************************************************************************)
(* Sequence numbers and clock.                                             *)
(***************************************************************************)

\* Mutant: every forward distance is a gap.
EndlessGap(seq) == lastSeq >= 0 /\ (seq - lastSeq) % SeqRange > 1

\* checkSeqGap.  A gap leaves lastSeq behind: the packets that follow are
\* gaps too, until the distance reaches GapLimit.
Gap(seq) ==
  /\ lastSeq >= 0
  /\ (seq - lastSeq) % SeqRange \in 2..(GapLimit - 1)

\* Mutant: ticks are counted without regard to the wrap.
TicksWithoutWrap(c, ts) ==
  LET first == IF c.first < 0 THEN ts ELSE c.first
  IN [first |-> first, last |-> ts, elapsed |-> ts - first]

\* toMilliseconds: the state it leaves.
Ticks(c, ts) ==
  LET from == IF c.first < 0 THEN [first |-> ts, last |-> ts, elapsed |-> 0]
              ELSE c
      delta == (ts - from.last) % TsRange
  IN IF 2 * delta < TsRange
     THEN [from EXCEPT !.last = ts, !.elapsed = @ + delta]
     ELSE from

\* toMilliseconds: its result, Math.round(elapsedTicks * 1000 / clockRate).
\* NaN without a clock rate.
Milliseconds(ticks) ==
  IF clockRate = 0 THEN None
  ELSE (2000 * ticks + clockRate) \div (2 * clockRate)

-----------------------------------------------------------------------------
(***************************************************************************)
(* Parameter sets.                                                         *)
(***************************************************************************)

\* Mutant: a new record is not announced once one was.
StoredQuietly(h, nal) ==
  IF nal.type \notin SetsOf(codec) THEN h
  ELSE LET sets == [h.sets EXCEPT ![nal.type] = nal.config]
       IN IF \E t \in DOMAIN sets : sets[t] = 0
          THEN [h EXCEPT !.sets = sets]
          ELSE [h EXCEPT !.sets = sets, !.record = ConfigRecord(sets)]

\* A parameter set replaces the one of its type, and _tryBuildConfig makes
\* a new record when all are there and the record would differ.
Stored(h, nal) ==
  IF nal.type \notin SetsOf(codec) THEN h
  ELSE LET sets == [h.sets EXCEPT ![nal.type] = nal.config]
       IN IF \/ \E t \in DOMAIN sets : sets[t] = 0
             \/ h.record = ConfigRecord(sets)
          THEN [h EXCEPT !.sets = sets]
          ELSE [sets |-> sets, record |-> ConfigRecord(sets), emitted |-> FALSE]

\* The header to send before a frame, and the state once it is sent.
Pending(h) == IF h.emitted \/ h.record = None THEN <<>>
              ELSE <<HeaderPacket(h.record)>>
Emitted(h) == [h EXCEPT !.emitted = h.emitted \/ h.record # None]

\* Units of an aggregate that make its frame: whatever H.264 does not
\* store, and what is VCL in H.265.
OfFrame(type) ==
  IF TrackOf(codec) = "H264Depayloader" THEN type \notin SetsOf(codec)
  ELSE type \in Frames

\* The loop of _handleStapA and _handleAp over the units of an aggregate.
Unpack(was, nal) ==
  [header |-> Stored(was.header, nal),
   units |-> IF OfFrame(nal.type) THEN Append(was.units, Uncut(nal))
             ELSE was.units]
Unpacked(h, nals) == FoldLeft(Unpack, [header |-> h, units |-> <<>>], nals)

\* What a handler leaves and returns.
Result(h, f, o) == [header |-> h, fu |-> f, out |-> o]

NoFragment == [started |-> FALSE, ts |-> 0, nal |-> None, parts |-> <<>>,
               inStep |-> TRUE]

-----------------------------------------------------------------------------
(***************************************************************************)
(* The handlers of H264Depayloader.  h and f are the header and the        *)
(* fragments as feed left them before it called the handler.               *)
(***************************************************************************)

\* _handleSingleNal: whatever is not a parameter set makes a frame.
HandleSingleNal(p, h, f) ==
  LET nal == p.nals[1]
  IN IF nal.type \in SetsOf(codec)
     THEN Result(Stored(h, nal), f, <<>>)
     ELSE Result(Emitted(h), f,
                 Append(Pending(h), NalPacket(<<Uncut(nal)>>)))

\* _handleStapA: the units that are not parameter sets make one frame.
HandleStapA(p, h, f) ==
  LET unpacked == Unpacked(h, p.nals)
      stored == unpacked.header
  IN Result(Emitted(stored), f,
            IF unpacked.units = <<>> THEN Pending(stored)
            ELSE Append(Pending(stored), NalPacket(unpacked.units)))

\* _handleFuA: a start forgets what was there; a fragment without a start,
\* or of another time, is dropped; an end makes a frame of type fuNalType.
HandleFuA(p, h, f) ==
  LET parts == Append(f.parts, <<p.first, p.part, p.count>>)
  IN IF p.part = 1
     THEN Result(h, [started |-> TRUE, ts |-> p.ts, nal |-> p.nals[1],
                     parts |-> <<<<p.first, p.part, p.count>>>>,
                     inStep |-> ~Gap(p.seq)], <<>>)
     ELSE IF ~f.started \/ p.ts # f.ts
     THEN Result(h, NoFragment, <<>>)
     ELSE IF p.part = p.count
     THEN Result(Emitted(h), NoFragment,
                 Append(Pending(h), NalPacket(<<Unit(f.nal, parts, f.inStep)>>)))
     ELSE Result(h, [f EXCEPT !.parts = parts], <<>>)

-----------------------------------------------------------------------------
(***************************************************************************)
(* The handlers of H265Depayloader: units that are neither parameter sets  *)
(* nor VCL are dropped, and only a frame makes it send the header.         *)
(***************************************************************************)

\* _handleSingleNal of H.265.
HandleSingleH265(p, h, f) ==
  IF p.nals[1].type \in Frames \cup SetsOf(codec)
  THEN HandleSingleNal(p, h, f)
  ELSE Result(h, f, <<>>)

\* _handleAp.
HandleAp(p, h, f) ==
  LET unpacked == Unpacked(h, p.nals)
      stored == unpacked.header
  IN IF unpacked.units = <<>> THEN Result(stored, f, <<>>)
     ELSE Result(Emitted(stored), f,
                 Append(Pending(stored), NalPacket(unpacked.units)))

\* _handleFu differs from _handleFuA in the layout of its headers only.
HandleFu(p, h, f) == HandleFuA(p, h, f)

-----------------------------------------------------------------------------
(***************************************************************************)
(* feed of each track.                                                     *)
(***************************************************************************)

\* Mutant: a gap does not end the fragmented unit.
KeptFragments(p) == fu

\* A gap drops the fragments there are.
FragmentsAfterGap(p) == IF Gap(p.seq) THEN NoFragment ELSE fu

\* Types that no handler takes: STAP-B, FU-B, PACI.
FeedH264(p) ==
  LET h == Emitted(header)
      f == FragmentsAfterGap(p)
      r == CASE p.kind = "single"    -> HandleSingleNal(p, h, f)
             [] p.kind = "aggregate" -> HandleStapA(p, h, f)
             [] p.kind = "fragment"  -> HandleFuA(p, h, f)
             [] OTHER                -> Result(h, f, <<>>)
  IN [r EXCEPT !.out = Pending(header) \o @]

FeedH265(p) ==
  LET f == FragmentsAfterGap(p)
  IN CASE p.kind = "single"    -> HandleSingleH265(p, header, f)
       [] p.kind = "aggregate" -> HandleAp(p, header, f)
       [] p.kind = "fragment"  -> HandleFu(p, header, f)
       [] OTHER                -> Result(header, f, <<>>)

\* AacDepayloader: a packet for each access unit, all with one timestamp.
FeedAac(p) ==
  Result(header, fu, [i \in 1..p.units |-> [flags |-> "audio"]])

FeedPcma(p) == Result(header, fu, <<[flags |-> "audio"]>>)

\* PassthroughDepayloader: flags 0 and codec_type 0.
FeedPassthrough(p) == Result(header, fu, <<[flags |-> "none"]>>)

Fed(p) ==
  LET class == TrackOf(codec)
  IN IF p.kind = "empty" /\ class # "PassthroughDepayloader"
     THEN Result(header, fu, <<>>)
     ELSE CASE class = "H264Depayloader" -> FeedH264(p)
            [] class = "H265Depayloader" -> FeedH265(p)
            [] class = "AacDepayloader"  -> FeedAac(p)
            [] class = "PcmaDepayloader" -> FeedPcma(p)
            [] OTHER                     -> FeedPassthrough(p)

-----------------------------------------------------------------------------
(***************************************************************************)
(* A packet is received, or missed.                                        *)
(***************************************************************************)

\* RtpParser.parse: what is left of a packet of the camera.
Packet(kind, nals) ==
  [kind |-> kind, nals |-> nals,
   seq |-> (FirstSeq + camera.sent) % SeqRange,
   ts |-> (FirstTs + camera.at) % TsRange,
   first |-> camera.first, part |-> camera.part, count |-> camera.count,
   units |-> 1]

\* The header a viewer has after the packets, with `had` before them.
Seen(had, packets) ==
  LET headers == {i \in DOMAIN packets : packets[i].flags = "videoHeader"}
  IN IF headers = {} THEN had ELSE packets[Max(headers)].record

\* What feed does with the result r of a track: every packet returned gets
\* the milliseconds of the track.  Only video looks at sequence numbers, and
\* not at those of packets without payload.
Return(p, r) ==
  LET returned == r.out # <<>>
      checked == Video /\ p.kind # "empty"
  IN /\ header' = r.header /\ fu' = r.fu
     /\ lastSeq' = IF checked /\ ~Gap(p.seq) THEN p.seq ELSE lastSeq
     /\ clock' = IF returned THEN Ticks(clock, p.ts) ELSE clock
     /\ out' = [i \in DOMAIN r.out |->
                 [packet |-> r.out[i], pts |-> Milliseconds(clock'.elapsed)]]
     /\ told' = told \cup ({p.nals[i].type : i \in DOMAIN p.nals}
                             \cap SetsOf(codec))
     /\ viewer' = Seen(viewer, r.out)
     /\ steady' = IF p.kind = "empty" THEN 0
                  ELSE Min({steady + 1, GapLimit + MaxParts})
     /\ base' = IF returned /\ base < 0 THEN camera.at ELSE base
     /\ top' = IF returned /\ camera.at > top THEN camera.at ELSE top
     /\ UNCHANGED mediaVars

\* RtpDepayloader.feed.
Feed(p) == Return(p, Fed(p))

\* The camera skips the packet.
Miss ==
  /\ out' = <<>> /\ steady' = 0
  /\ UNCHANGED <<mediaVars, trackVars, told, viewer, base, top>>

-----------------------------------------------------------------------------
(***************************************************************************)
(* The camera.                                                             *)
(***************************************************************************)

\* The camera sends p; `next` is its state afterwards.
Send(p, next) ==
  /\ camera.sent < MaxPackets
  /\ camera.sent - camera.since < MaxBurst
  /\ \/ /\ Feed(p)
        /\ camera' = [next EXCEPT !.sent = @ + 1]
     \/ /\ camera.missed < MaxMissed
        /\ Miss
        /\ camera' = [next EXCEPT !.sent = @ + 1, !.missed = @ + 1]

BetweenUnits == Playing /\ camera.part = camera.count
NoUnit == [camera EXCEPT !.part = 0, !.count = 0]

\* A picture, and what the two codecs treat differently.
Singles == {"key", "sei"}

SendSingle ==
  /\ Video /\ BetweenUnits
  /\ \E type \in SetsOf(codec) \cup Singles :
       Send(Packet("single", <<Nal(type)>>), NoUnit)

\* Parameter sets, alone or with a picture and its SEI.
Aggregates ==
  LET sets == IF "vps" \in SetsOf(codec) THEN <<"vps", "sps", "pps">>
              ELSE <<"sps", "pps">>
  IN {sets, sets \o <<"sei", "key">>}

SendAggregate ==
  /\ Video /\ BetweenUnits
  /\ \E types \in Aggregates :
       Send(Packet("aggregate", [i \in DOMAIN types |-> Nal(types[i])]), NoUnit)

StartUnit ==
  /\ Video /\ BetweenUnits
  /\ \E n \in 2..MaxParts :
       LET begun == [camera EXCEPT !.nal = Nal("inter"), !.first = camera.sent,
                                   !.part = 1, !.count = n]
       IN Send([Packet("fragment", <<begun.nal>>) EXCEPT
                  !.first = begun.first, !.part = 1, !.count = n], begun)

ContinueUnit ==
  /\ camera.part < camera.count
  /\ LET next == [camera EXCEPT !.part = @ + 1]
     IN Send([Packet("fragment", <<camera.nal>>) EXCEPT !.part = next.part],
             next)

\* Sound, or data of a media whose codec is not known.
SendSound ==
  /\ Playing /\ ~Video
  /\ \E n \in 1..2 : Send([Packet("sound", <<>>) EXCEPT !.units = n], NoUnit)

SendUnsupported ==
  /\ Video /\ BetweenUnits
  /\ Send(Packet("unsupported", <<>>), NoUnit)

\* Padding only.
SendEmpty ==
  /\ BetweenUnits /\ camera.sent < MaxPackets /\ camera.missed < MaxMissed
  /\ Feed(Packet("empty", <<>>))
  /\ camera' = [NoUnit EXCEPT !.sent = @ + 1, !.missed = @ + 1]

\* Pictures are sent in the order they are decoded in: one may go back to
\* a time that was left out.
NextPicture ==
  /\ BetweenUnits
  /\ \E t \in {camera.latest - 1, camera.latest + 1, camera.latest + 2} :
       /\ t <= MaxTime
       /\ t < camera.latest => camera.hole
       /\ camera' = [NoUnit EXCEPT !.at = t, !.since = camera.sent,
                                   !.latest = IF t > @ THEN t ELSE @,
                                   !.hole = t > camera.latest + 1]
  /\ out' = <<>>
  /\ UNCHANGED <<mediaVars, trackVars, ghosts>>

Reconfigure ==
  /\ Video /\ BetweenUnits /\ camera.config + 1 \in Configs
  /\ camera' = [NoUnit EXCEPT !.config = @ + 1]
  /\ told' = {} /\ out' = <<>>
  /\ UNCHANGED <<mediaVars, trackVars, viewer, steady, base, top>>

-----------------------------------------------------------------------------
(***************************************************************************)
(* The session is described and set up.                                    *)
(***************************************************************************)

ReadLine ==
  /\ sdp # None /\ Len(sdp.lines) < MaxLines
  /\ \E line \in Lines :
       sdp' = [lines |-> Append(sdp.lines, line),
               session |-> ParseLine(sdp.session, line)]
  /\ UNCHANGED <<codec, clockRate, trackVars, out, camera, ghosts>>

\* _initFromFmtp of the video tracks: the parameter sets of the SDP.
InitFromFmtp(name, fmtp) ==
  IF fmtp # "sprop" \/ SetsOf(name) = {}
  THEN [sets |-> [t \in SetsOf(name) |-> 0], record |-> None, emitted |-> FALSE]
  ELSE LET sets == [t \in SetsOf(name) |-> 1]
       IN [sets |-> sets, record |-> ConfigRecord(sets), emitted |-> FALSE]

\* setupTrack, of a media whose payload type is its own.
SetupTrack ==
  /\ sdp # None
  /\ \E i \in DOMAIN sdp.session.media :
       LET media == ResolveMediaCodec(sdp.session.media[i])
       IN /\ \A j \in DOMAIN sdp.session.media \ {i} :
               sdp.session.media[j].payloadType # media.payloadType
          /\ codec' = media.codec /\ clockRate' = media.clockRate
          /\ header' = InitFromFmtp(media.codec, media.fmtp)
          /\ told' = IF header'.record = None THEN {} ELSE SetsOf(media.codec)
  /\ sdp' = None
  /\ UNCHANGED <<lastSeq, clock, fu, out, camera, viewer, steady, base, top>>

-----------------------------------------------------------------------------
\* EmptySession, and the constructor of TrackDepayloader.
Init ==
  /\ sdp = [lines |-> <<>>, session |-> EmptySession]
  /\ codec = None /\ clockRate = 0
  /\ lastSeq = -1
  /\ clock = [first |-> -1, last |-> 0, elapsed |-> 0]
  /\ header = [sets |-> <<>>, record |-> None, emitted |-> FALSE]
  /\ fu = NoFragment
  /\ out = <<>>
  /\ camera = [sent |-> 0, missed |-> 0, at |-> 0, latest |-> 0, hole |-> FALSE,
               since |-> 0, config |-> 1, nal |-> None,
               first |-> 0, part |-> 0, count |-> 0]
  /\ told = {} /\ viewer = None /\ steady = 0 /\ base = -1 /\ top = -1

Next ==
  \/ ReadLine \/ SetupTrack
  \/ SendSingle \/ SendAggregate \/ StartUnit \/ ContinueUnit
  \/ SendSound \/ SendUnsupported \/ SendEmpty
  \/ NextPicture \/ Reconfigure

Spec == Init /\ [][Next]_vars

-----------------------------------------------------------------------------
(***************************************************************************)
(* Properties.                                                             *)
(***************************************************************************)

\* The lines of the k-th media that was accepted, up to the next m= line.
Section(lines, k) ==
  LET accepted == {i \in DOMAIN lines : lines[i].type = "m" /\ lines[i].complete}
      from == CHOOSE i \in accepted :
                Cardinality({j \in accepted : j <= i}) = k
  IN {i \in DOMAIN lines :
        from < i /\ \A j \in (from + 1)..i : lines[j].type # "m"}

\* A media gets the codec, clock rate and parameters that its own section
\* gives its own payload type, the last ones if there are several, and none
\* of another section, nor of one that was refused.
SectionsApart ==
  sdp # None =>
    \A k \in DOMAIN sdp.session.media :
      LET media == sdp.session.media[k]
          line == sdp.lines
          own == {i \in Section(line, k) :
                    line[i].type = "a" /\ line[i].pt = media.payloadType}
          maps == {i \in own : line[i].key = "rtpmap"}
          fmtps == {i \in own : line[i].key = "fmtp"}
      IN /\ <<media.codec, media.clockRate>> =
              IF maps = {} THEN <<"", 0>>
              ELSE <<line[Max(maps)].codec, line[Max(maps)].rate>>
         /\ media.fmtp = IF fmtps = {} THEN None ELSE line[Max(fmtps)].params

NalsOut == {a \in {out[i].packet : i \in DOMAIN out} : a.flags \in Frames}

\* A unit whose first fragment arrived in step is broadcast whole or not at
\* all: a gap, or the time of another picture, ends it.
WholeIfInStep ==
  \A a \in NalsOut : \A i \in DOMAIN a.units :
    a.units[i].inStep => Whole(a.units[i])

\* One loss, or one packet of padding, puts every fragmented unit in danger
\* for as long as the distance to lastSeq stays below GapLimit, and no
\* longer: a unit received after that is broadcast.
FragmentsComeBack ==
  camera.count > 0 /\ camera.part = camera.count
    /\ steady >= GapLimit - 1 + camera.count
  => \E a \in NalsOut : Whole(a.units[1])

\* A decoder gets a frame under the configuration it was encoded with, if
\* the parameter sets of that configuration arrived: whatever the order and
\* the packets they came in, and whatever header was announced between.
UnderItsHeader ==
  told = SetsOf(codec) =>
    \A a \in NalsOut : \A i \in DOMAIN a.units :
      viewer = [t \in SetsOf(codec) |-> a.units[i].config]

\* Time goes on by what the camera's clock did, across its wrap and across
\* losses; a picture that is older than the last gets the time of the last.
ExactClock ==
  clockRate > 0 => \A i \in DOMAIN out : out[i].pts = Milliseconds(top - base)

=============================================================================
