------------------------------- MODULE Media -------------------------------
(***************************************************************************)
(* What goes through one BroadcastServer (server/broadcast_server.js): the *)
(* header and GOP caches, the timeline of a publish across reconnections,  *)
(* and what a viewer is sent when it joins and afterwards.                 *)
(*                                                                         *)
(* Packets carry what broadcastMessage looks at: their kind (the flags 0-6 *)
(* of core/avpacket.js), their time, and which configuration of the        *)
(* encoder they announce or were encoded under.  The server keeps every    *)
(* cache twice, once framed for FLV and once for RTMP, and treats both     *)
(* alike; here it is one.  A GOP cache is a JavaScript Set of buffers, in  *)
(* the order they were added: here a set of packets with serial numbers.   *)
(*                                                                         *)
(* The slot is that of module Broadcast, seen from the object: who may     *)
(* have it is settled there.                                               *)
(***************************************************************************)
EXTENDS Naturals, FiniteSets

CONSTANTS
  None,           \* null
  Configs,        \* configurations an encoder announces in a header
  Viewers,        \* sessions that play
  GopLimit,       \* packets in a GOP cache: 4096
  MaxTime,        \* bound: timestamps a connection sends
  MaxPackets,     \* bound: packets in a behaviour
  MaxConnections, \* bound: connections that publish
  Foreign,        \* configuration of a refused publisher
  MaxRefused      \* bound: packets of refused publishers

Tracks  == {"audio", "video"}              \* codec_type 8 and 9
Frames  == {"audio", "key", "inter"}       \* flags 1, 3, 4
Headers == {"audioHeader", "videoHeader", "script"}  \* flags 0, 2, 5
Kinds   == Frames \cup Headers \cup {"hdr"}  \* flags 6: HDR metadata

ASSUME MediaAssumption ==
  /\ None \notin Configs /\ Foreign \notin Configs /\ Foreign # None
  /\ GopLimit \in Nat
  /\ MaxTime \in Nat /\ MaxPackets \in Nat
  /\ MaxConnections \in Nat /\ MaxRefused \in Nat

VARIABLES
  slot,         \* publisher and _publishGraceTimer: free, held, grace
  orphan,       \* the publish goes on in an object the registry dropped
  connections,  \* connections that took the slot so far
  config,       \* what the encoder in the slot announced last, by track
  clock,        \* its time on each track
  intruder,     \* a refused publisher still sends
  refused,      \* packets of refused publishers so far
  lastDts,      \* _lastDts
  dtsOffset,    \* _dtsOffset
  header,       \* flv/rtmp AudioHeader, VideoHeader and MetaData
  gop,          \* flvGopCache and rtmpGopCache
  packets,      \* packets broadcast so far
  viewers,      \* subscribers
  \* The rest only records what happened, for the properties.
  got,          \* the headers a viewer was sent last
  seen,         \* frames a viewer was sent from the last key frame on
  sent,         \* time of the last frame of the publish, by track
  base,         \* `sent` when the slot was resumed, 0 in a new publish
  headerLast,   \* the last packet of a track was not a frame
  behind,       \* headerLast when the slot was resumed
  changed,      \* a header of the track changed since the cache started
  refilled,     \* the cache was emptied, or handed on, since a key frame
  intruded      \* a refused publisher's packet was broadcast

slotVars   == <<slot, orphan, connections>>
senderVars == <<config, clock>>
otherVars  == <<intruder, refused>>
dtsVars    == <<lastDts, dtsOffset>>
cacheVars  == <<header, gop, packets>>
viewVars   == <<viewers, got, seen>>
timeGhosts == <<sent, base, headerLast, behind>>
gopGhosts  == <<changed, refilled, intruded>>
vars == <<slotVars, senderVars, otherVars, dtsVars, cacheVars, viewVars,
          timeGhosts, gopGhosts>>

Announced == Configs \cup {Foreign, None}

Entries == [n : Nat, track : Tracks, key : BOOLEAN, config : Announced]

TypeOK ==
  /\ slot \in {"free", "held", "grace"}
  /\ orphan \in BOOLEAN
  /\ connections \in 0..MaxConnections
  /\ config \in [Tracks -> Announced]
  /\ clock \in [Tracks -> 0..MaxTime]
  /\ refused \in 0..MaxRefused
  /\ intruder \in BOOLEAN
  /\ lastDts \in [Tracks -> Nat]
  /\ dtsOffset \in [Tracks -> Nat]
  /\ header \in [Headers -> Announced]
  /\ gop # None => /\ gop \subseteq Entries
                   /\ IsFiniteSet(gop) /\ Cardinality(gop) <= GopLimit
  /\ packets \in 0..MaxPackets
  /\ viewers \subseteq Viewers
  /\ got \in [Viewers -> [Headers -> Announced]]
  /\ seen \in [Viewers -> SUBSET Entries]
  /\ sent \in [Tracks -> Nat]
  /\ base \in [Tracks -> Nat]
  /\ headerLast \in [Tracks -> BOOLEAN]
  /\ behind \in [Tracks -> BOOLEAN]
  /\ changed \in [Tracks -> BOOLEAN]
  /\ refilled \in BOOLEAN
  /\ intruded \in BOOLEAN

NoHeaders == [h \in Headers |-> None]
NoConfig  == [t \in Tracks |-> None]
Zero      == [t \in Tracks |-> 0]
Neither   == [t \in Tracks |-> FALSE]

Init ==
  /\ slot = "free" /\ orphan = FALSE /\ connections = 0
  /\ config = NoConfig /\ clock = Zero
  /\ refused = 0 /\ intruder = FALSE
  /\ lastDts = Zero /\ dtsOffset = Zero
  /\ header = NoHeaders /\ gop = None /\ packets = 0
  /\ viewers = {}
  /\ got = [v \in Viewers |-> NoHeaders]
  /\ seen = [v \in Viewers |-> {}]
  /\ sent = Zero /\ base = Zero
  /\ headerLast = Neither /\ behind = Neither
  /\ changed = Neither /\ refilled = FALSE /\ intruded = FALSE

-----------------------------------------------------------------------------
(***************************************************************************)
(* broadcastMessage, piece by piece.  A packet has a kind, the time its    *)
(* sender gave it, and a configuration.                                    *)
(***************************************************************************)

\* codec_type; a script packet has one of its own, which nothing asks for.
TrackOf(kind) == IF kind \in {"audio", "audioHeader"} THEN "audio" ELSE "video"
HeaderOf(track) == IF track = "audio" THEN "audioHeader" ELSE "videoHeader"

\* Slip: only video is shifted.
ShiftsVideo(p) == p.kind \in {"key", "inter"}

\* The shift of a resumed publish is for frames, not for headers.
Shifts(p) == p.kind \in Frames

Dts(p) == IF Shifts(p) THEN p.time + dtsOffset[TrackOf(p.kind)] ELSE p.time

LastDtsAfter(p) ==
  IF p.kind = "script" THEN lastDts
  ELSE [lastDts EXCEPT ![TrackOf(p.kind)] = Dts(p)]

HeaderAfter(p) ==
  IF p.kind \in Headers THEN [header EXCEPT ![p.kind] = p.config] ELSE header

Entry(p) == [n |-> packets, track |-> TrackOf(p.kind), key |-> p.kind = "key",
             config |-> p.config]

\* Slip: a key frame joins the cache there is.
KeepsAtKey(p) ==
  IF p.kind = "key" /\ gop = None THEN {Entry(p)}
  ELSE IF p.kind \in Frames /\ gop # None THEN gop \cup {Entry(p)} ELSE gop

\* A key frame starts the cache; other frames join one that exists.
Cached(p) ==
  IF p.kind = "key" THEN {Entry(p)}
  ELSE IF p.kind \in Frames /\ gop # None THEN gop \cup {Entry(p)} ELSE gop

\* A cache beyond the limit is cleared, not cut.
Capped(c) == IF c # None /\ Cardinality(c) > GopLimit THEN {} ELSE c

\* What every subscriber has been sent once p was.
GotAfter(p) ==
  [v \in Viewers |-> IF v \in viewers /\ p.kind \in Headers
                     THEN [got[v] EXCEPT ![p.kind] = p.config] ELSE got[v]]
SeenAfter(p) ==
  [v \in Viewers |->
     IF v \in viewers /\ p.kind = "key" THEN {Entry(p)}
     ELSE IF v \in viewers /\ p.kind \in Frames THEN seen[v] \cup {Entry(p)}
     ELSE seen[v]]

\* broadcastMessage(p).
Broadcast(p) ==
  /\ packets < MaxPackets
  /\ packets' = packets + 1
  /\ lastDts' = LastDtsAfter(p)
  /\ header' = HeaderAfter(p)
  /\ gop' = Capped(Cached(p))
  /\ got' = GotAfter(p)
  /\ seen' = SeenAfter(p)
  /\ UNCHANGED <<slotVars, dtsOffset, viewers>>

\* What the properties remember of p.
Remember(p) ==
  /\ changed' =
       [t \in Tracks |->
          IF p.kind = "key" \/ gop' = None \/ gop' = {} THEN FALSE
          ELSE changed[t] \/ (p.kind = HeaderOf(t) /\ p.config # header[p.kind])]
  /\ refilled' = ((p.kind # "key" /\ refilled) \/ gop' = {})
  /\ UNCHANGED <<base, behind>>

-----------------------------------------------------------------------------
(***************************************************************************)
(* Packets of the session in the slot.  An encoder announces the           *)
(* configuration of a track before its frames, on every connection, and    *)
(* its time does not run backwards; a header has its time, or 0.           *)
(***************************************************************************)

SendFrame(kind, time) ==
  LET t == TrackOf(kind)
      p == [kind |-> kind, time |-> time, config |-> config[t]]
  IN /\ slot = "held"
     /\ config[t] # None
     /\ time >= clock[t]
     /\ Broadcast(p)
     /\ Remember(p)
     /\ clock' = [clock EXCEPT ![t] = time]
     /\ sent' = [sent EXCEPT ![t] = Dts(p)]
     /\ headerLast' = [headerLast EXCEPT ![t] = FALSE]
     /\ UNCHANGED <<config, otherVars, intruded>>

SendHeader(kind, c, time) ==
  LET t == TrackOf(kind)
      p == [kind |-> kind, time |-> time, config |-> c]
  IN /\ slot = "held"
     /\ time \in {0, clock[t]}
     /\ Broadcast(p)
     /\ Remember(p)
     /\ IF kind = "script" THEN UNCHANGED <<config, headerLast>>
        ELSE /\ config' = [config EXCEPT ![t] = c]
             /\ headerLast' = [headerLast EXCEPT ![t] = TRUE]
     /\ UNCHANGED <<clock, sent, otherVars, intruded>>

\* HDR metadata: passed on, neither shifted nor cached.
SendHdr ==
  LET p == [kind |-> "hdr", time |-> clock["video"], config |-> config["video"]]
  IN /\ slot = "held"
     /\ config["video"] # None
     /\ Broadcast(p)
     /\ Remember(p)
     /\ headerLast' = [headerLast EXCEPT !["video"] = TRUE]
     /\ UNCHANGED <<senderVars, sent, otherVars, intruded>>

(***************************************************************************)
(* A refused RTMP publisher: its socket is ended, and RtmpSession.onPacket *)
(* broadcasts what it sends until it closes.                               *)
(***************************************************************************)

\* Refused for a busy slot, or for its signature whatever the slot.
Refuse ==
  /\ ~orphan
  /\ ~intruder
  /\ intruder' = TRUE
  /\ UNCHANGED <<slotVars, senderVars, refused, dtsVars, cacheVars, viewVars,
                 timeGhosts, gopGhosts>>

Intrude(kind, time) ==
  LET p == [kind |-> kind, time |-> time, config |-> Foreign]
  IN /\ intruder
     /\ refused < MaxRefused
     /\ refused' = refused + 1
     /\ Broadcast(p)
     /\ Remember(p)
     /\ intruded' = TRUE
     /\ UNCHANGED <<senderVars, intruder, sent, headerLast>>

-----------------------------------------------------------------------------
(***************************************************************************)
(* The slot.                                                               *)
(***************************************************************************)

\* Another connection gets the slot; its encoder starts from scratch.
NewConnection ==
  /\ connections < MaxConnections
  /\ connections' = connections + 1
  /\ slot' = "held"
  /\ UNCHANGED senderVars

\* The properties start over with each publish.
NewTimeline ==
  /\ sent' = Zero /\ base' = Zero
  /\ headerLast' = Neither /\ behind' = Neither

\* postPublish: the slot is free.
Start ==
  /\ slot = "free"
  /\ NewConnection
  /\ UNCHANGED <<orphan, otherVars, dtsVars, cacheVars, viewVars, timeGhosts,
                 gopGhosts>>

\* donePublish: the connection is lost.
Lose ==
  /\ slot = "held"
  /\ slot' = "grace"
  /\ config' = NoConfig /\ clock' = Zero
  /\ UNCHANGED <<orphan, connections, otherVars, dtsVars, cacheVars, viewVars,
                 timeGhosts, gopGhosts>>

\* _resumePublish: the offsets that continue the timeline.
OffsetAfterResume == lastDts

\* postPublish in the grace window, same client: it finds the object only
\* through the registry.
Resume ==
  /\ slot = "grace"
  /\ ~orphan
  /\ NewConnection
  /\ dtsOffset' = OffsetAfterResume
  /\ base' = sent
  /\ behind' = headerLast
  /\ UNCHANGED <<orphan, otherVars, lastDts, cacheVars, viewVars, sent,
                 headerLast, gopGhosts>>

\* _finishPublish: the caches and the timeline are dropped; a Set is cleared
\* and stays a Set.
Dropped ==
  /\ lastDts' = Zero /\ dtsOffset' = Zero
  /\ header' = NoHeaders
  /\ gop' = IF gop = None THEN None ELSE {}
  /\ NewTimeline
  /\ changed' = Neither
  /\ refilled' = (gop # None)
  /\ intruded' = FALSE

\* _destroyIfEmpty: nobody refers to the object any more.  What follows is
\* the object that the next session of the path creates.
Destroyed ==
  /\ orphan' = FALSE
  /\ intruder' = FALSE
  /\ lastDts' = Zero /\ dtsOffset' = Zero
  /\ header' = NoHeaders /\ gop' = None
  /\ NewTimeline
  /\ changed' = Neither /\ refilled' = FALSE /\ intruded' = FALSE

\* postPublish in the grace window, another client: _finishPublish, which may
\* drop the object from the registry, and the slot is taken.
TakeOver ==
  /\ slot = "grace"
  /\ ~orphan
  /\ NewConnection
  /\ orphan' = (viewers = {})
  /\ Dropped
  /\ UNCHANGED <<otherVars, packets, viewVars>>

\* The grace timer: _finishPublish.
Finish ==
  /\ slot = "grace"
  /\ slot' = "free"
  /\ IF viewers = {} THEN Destroyed
     ELSE Dropped /\ UNCHANGED <<orphan, intruder>>
  /\ UNCHANGED <<connections, senderVars, refused, packets, viewVars>>

-----------------------------------------------------------------------------
(***************************************************************************)
(* Viewers.                                                                *)
(***************************************************************************)

\* Slip: a viewer is not sent the metadata.
WithoutScript == [header EXCEPT !["script"] = None]

\* postPlay sends the cached headers, then the frames, and subscribes.
SentFirst == header

Join(v) ==
  /\ ~orphan
  /\ v \notin viewers
  /\ viewers' = viewers \cup {v}
  /\ got' = [got EXCEPT ![v] = SentFirst]
  /\ seen' = [seen EXCEPT ![v] = IF gop = None THEN {} ELSE gop]
  /\ UNCHANGED <<slotVars, senderVars, otherVars, dtsVars, cacheVars,
                 timeGhosts, gopGhosts>>

\* donePlay, of a viewer.
Leave(v) ==
  /\ v \in viewers
  /\ viewers' = viewers \ {v}
  /\ got' = [got EXCEPT ![v] = NoHeaders]
  /\ seen' = [seen EXCEPT ![v] = {}]
  /\ IF slot = "free" /\ viewers' = {} THEN Destroyed
     ELSE UNCHANGED <<orphan, intruder, dtsVars, header, gop, timeGhosts,
                      gopGhosts>>
  /\ UNCHANGED <<slot, connections, senderVars, refused, packets>>

\* onClose of a refused publisher: donePlay, as it never became a publisher.
IntruderLeaves ==
  /\ intruder
  /\ intruder' = FALSE
  /\ IF slot = "free" /\ viewers = {} THEN Destroyed
     ELSE UNCHANGED <<orphan, dtsVars, header, gop, timeGhosts, gopGhosts>>
  /\ UNCHANGED <<slot, connections, senderVars, refused, packets, viewVars>>

Next ==
  \/ \E kind \in Frames, time \in 0..MaxTime : SendFrame(kind, time)
  \/ \E kind \in Headers, c \in Configs, time \in 0..MaxTime :
       SendHeader(kind, c, time)
  \/ SendHdr
  \/ Refuse
  \/ \E kind \in Kinds, time \in 0..MaxTime : Intrude(kind, time)
  \/ IntruderLeaves
  \/ Start \/ Lose \/ Resume \/ TakeOver \/ Finish
  \/ \E v \in Viewers : Join(v) \/ Leave(v)

Spec == Init /\ [][Next]_vars

-----------------------------------------------------------------------------
(***************************************************************************)
(* Properties.                                                             *)
(***************************************************************************)

\* However late it came and whoever sends, a viewer holds the headers that
\* the server caches, and it has been sent every cached frame and, between
\* them, nothing that is not cached: those who join now see what it sees.
ViewersInStep ==
  \A v \in viewers :
    /\ \A h \in Headers : header[h] # None => got[v][h] = header[h]
    /\ gop # None => /\ gop \subseteq seen[v]
                     /\ \A e \in gop, f \in seen[v] : f.n >= e.n => f \in gop

\* A viewer's playback starts at a key frame, unless the cache was emptied by
\* its limit or taken over from an ended publish and has no key frame since.
StartsAtKey ==
  gop # None /\ ~refilled =>
    \E k \in gop : k.key /\ \A e \in gop : k.n <= e.n

\* A viewer that joins can decode what it is sent first: the frames were
\* encoded under the headers that precede them, unless the encoder announced
\* another configuration since the cache started.
JoinDecodes ==
  gop # None /\ ~intruded =>
    \A e \in gop : e.config = header[HeaderOf(e.track)] \/ changed[e.track]

\* Both of them: what a viewer is sent first can be shown at once.
JoinersCanPlay == StartsAtKey /\ JoinDecodes

\* The timeline of a publish: the encoder's time plus the point that the
\* viewers had reached when it last lost its connection; unshifted before a
\* first reconnection.  Only if a track stopped on a header may it restart
\* elsewhere.
Timeline ==
  slot = "held" /\ ~intruded =>
    \A t \in Tracks :
      \/ behind[t]
      \/ sent[t] = base[t] + clock[t]

\* The timeline that viewers get never runs backwards in a publish.  It does,
\* after a resume that starts behind a header, see Timeline.
TimelineContinuous ==
  [][slot = "held" => \A t \in Tracks : sent'[t] >= sent[t]]_vars
=============================================================================
