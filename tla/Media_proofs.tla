---------------------------- MODULE Media_proofs ----------------------------
(***************************************************************************)
(* Proofs about modules Media and Sampler, what a broadcast sends and what *)
(* is counted of it: for every set of viewers, sessions and configurations,*)
(* every limit of the GOP cache, window, interval and bound.               *)
(***************************************************************************)
EXTENDS Media, Sampler, FiniteSetTheorems, WellFoundedInduction, TLAPS

Packets == [kind : Kinds, time : Nat, config : Announced]

(***************************************************************************)
(* Types.                                                                  *)
(***************************************************************************)

LEMMA TrackTypes ==
  /\ \A kind \in Kinds : TrackOf(kind) \in Tracks
  /\ \A t \in Tracks : HeaderOf(t) \in Headers
BY DEF TrackOf, HeaderOf, Tracks, Headers

LEMMA EntryType ==
  ASSUME TypeOK, NEW p \in Packets
  PROVE  Entry(p) \in Entries /\ Dts(p) \in Nat
<1>1. /\ TrackOf(p.kind) \in Tracks /\ p.config \in Announced
      /\ p.time \in Nat /\ packets \in Nat
  BY TrackTypes, MediaAssumption DEF Packets, TypeOK
<1>2. Entry(p) \in Entries
  BY <1>1 DEF Entry, Entries
<1>3. dtsOffset[TrackOf(p.kind)] \in Nat
  BY <1>1 DEF TypeOK
<1> QED BY <1>1, <1>2, <1>3 DEF Dts

\* What is cached stays finite, and Capped keeps it within the limit.
LEMMA CacheType ==
  ASSUME TypeOK, NEW p \in Packets, gop' = Capped(Cached(p))
  PROVE  (gop # None => /\ gop \subseteq Entries
                        /\ IsFiniteSet(gop) /\ Cardinality(gop) <= GopLimit)'
<1> DEFINE c == Cached(p)
<1>1. Entry(p) \in Entries
  BY EntryType
<1>2. c # None => c \subseteq Entries /\ IsFiniteSet(c)
  <2>1. CASE p.kind = "key"
    <3>1. IsFiniteSet({Entry(p)})
      BY FS_Singleton
    <3> QED BY <2>1, <3>1, <1>1 DEF Cached
  <2>2. CASE p.kind # "key" /\ p.kind \in Frames /\ gop # None
    <3>1. gop \subseteq Entries /\ IsFiniteSet(gop)
      BY <2>2 DEF TypeOK
    <3>2. IsFiniteSet(gop \cup {Entry(p)})
      BY <3>1, FS_AddElement
    <3> QED BY <2>2, <3>1, <3>2, <1>1 DEF Cached
  <2>3. CASE p.kind # "key" /\ ~(p.kind \in Frames /\ gop # None)
    BY <2>3 DEF Cached, TypeOK
  <2> QED BY <2>1, <2>2, <2>3
<1>3. IsFiniteSet({}) /\ Cardinality({}) = 0 /\ GopLimit \in Nat
  BY FS_EmptySet, MediaAssumption
<1>4. CASE c # None /\ Cardinality(c) > GopLimit
  BY <1>3, <1>4 DEF Capped
<1>5. CASE c # None /\ ~(Cardinality(c) > GopLimit)
  <2>1. Cardinality(c) \in Nat
    BY <1>2, <1>5, FS_CardinalityType
  <2>2. gop' = c
    BY <1>5 DEF Capped
  <2>3. Cardinality(c) <= GopLimit
    BY <2>1, <1>3, <1>5
  <2> HIDE DEF c
  <2> QED BY <1>2, <1>5, <2>2, <2>3
<1>6. CASE c = None
  BY <1>6 DEF Capped
<1> QED BY <1>4, <1>5, <1>6

LEMMA BroadcastType ==
  ASSUME TypeOK, NEW p \in Packets, Broadcast(p), Remember(p)
  PROVE  /\ packets' \in 0..MaxPackets
         /\ lastDts' \in [Tracks -> Nat] /\ dtsOffset' \in [Tracks -> Nat]
         /\ header' \in [Headers -> Announced]
         /\ (gop # None => /\ gop \subseteq Entries /\ IsFiniteSet(gop)
                           /\ Cardinality(gop) <= GopLimit)'
         /\ viewers' \subseteq Viewers
         /\ got' \in [Viewers -> [Headers -> Announced]]
         /\ seen' \in [Viewers -> SUBSET Entries]
         /\ changed' \in [Tracks -> BOOLEAN]
         /\ refilled' \in BOOLEAN
         /\ base' \in [Tracks -> Nat] /\ behind' \in [Tracks -> BOOLEAN]
<1>1. Entry(p) \in Entries /\ Dts(p) \in Nat
  BY EntryType
<1>2. p.config \in Announced /\ p.kind \in Kinds
  BY DEF Packets
<1>3. packets' \in 0..MaxPackets
  BY MediaAssumption DEF Broadcast, TypeOK
<1>4. lastDts' \in [Tracks -> Nat]
  BY <1>1 DEF Broadcast, LastDtsAfter, TypeOK
<1>5. header' \in [Headers -> Announced]
  BY <1>2 DEF Broadcast, HeaderAfter, TypeOK
<1>6. got' \in [Viewers -> [Headers -> Announced]]
  BY <1>2 DEF Broadcast, GotAfter, TypeOK
<1>7. seen' \in [Viewers -> SUBSET Entries]
  BY <1>1 DEF Broadcast, SeenAfter, TypeOK
<1>8. (gop # None => /\ gop \subseteq Entries /\ IsFiniteSet(gop)
                     /\ Cardinality(gop) <= GopLimit)'
  BY CacheType DEF Broadcast
<1>9. changed' \in [Tracks -> BOOLEAN]
  BY Zenon DEF Remember, TypeOK
<1>10. refilled' \in BOOLEAN
  BY Zenon DEF Remember, TypeOK
<1> QED
  BY <1>3, <1>4, <1>5, <1>6, <1>7, <1>8, <1>9, <1>10
  DEF Broadcast, Remember, TypeOK, dtsVars

LEMMA TypeInit == Init => TypeOK
<1> SUFFICES ASSUME Init PROVE TypeOK
  OBVIOUS
<1>1. /\ 0 \in 0..MaxConnections /\ 0 \in 0..MaxTime
      /\ 0 \in 0..MaxPackets /\ 0 \in 0..MaxRefused
  BY MediaAssumption
<1>2. NoHeaders \in [Headers -> Announced] /\ NoConfig \in [Tracks -> Announced]
  BY DEF NoHeaders, NoConfig, Announced
<1>3. /\ Zero \in [Tracks -> Nat] /\ Neither \in [Tracks -> BOOLEAN]
      /\ clock \in [Tracks -> 0..MaxTime]
  BY <1>1 DEF Zero, Neither, Init
<1>4. got \in [Viewers -> [Headers -> Announced]] /\ seen \in [Viewers -> SUBSET Entries]
  BY <1>2 DEF Init
<1> QED BY <1>1, <1>2, <1>3, <1>4 DEF Init, TypeOK

LEMMA TypeDropped ==
  ASSUME TypeOK, Dropped
  PROVE  /\ lastDts' \in [Tracks -> Nat] /\ dtsOffset' \in [Tracks -> Nat]
         /\ header' \in [Headers -> Announced]
         /\ (gop # None => /\ gop \subseteq Entries /\ IsFiniteSet(gop)
                           /\ Cardinality(gop) <= GopLimit)'
         /\ sent' \in [Tracks -> Nat] /\ base' \in [Tracks -> Nat]
         /\ headerLast' \in [Tracks -> BOOLEAN]
         /\ behind' \in [Tracks -> BOOLEAN]
         /\ changed' \in [Tracks -> BOOLEAN]
         /\ refilled' \in BOOLEAN /\ intruded' \in BOOLEAN
<1>1. IsFiniteSet({}) /\ Cardinality({}) = 0 /\ 0 <= GopLimit
  BY FS_EmptySet, MediaAssumption
<1>2. (gop # None => /\ gop \subseteq Entries /\ IsFiniteSet(gop)
                     /\ Cardinality(gop) <= GopLimit)'
  BY <1>1 DEF Dropped
<1> QED
  BY <1>2 DEF Dropped, NewTimeline, Zero, Neither, NoHeaders, Announced

LEMMA TypeDestroyed ==
  ASSUME Destroyed
  PROVE  /\ orphan' \in BOOLEAN /\ intruder' \in BOOLEAN
         /\ lastDts' \in [Tracks -> Nat] /\ dtsOffset' \in [Tracks -> Nat]
         /\ header' \in [Headers -> Announced]
         /\ (gop # None => /\ gop \subseteq Entries /\ IsFiniteSet(gop)
                           /\ Cardinality(gop) <= GopLimit)'
         /\ sent' \in [Tracks -> Nat] /\ base' \in [Tracks -> Nat]
         /\ headerLast' \in [Tracks -> BOOLEAN]
         /\ behind' \in [Tracks -> BOOLEAN]
         /\ changed' \in [Tracks -> BOOLEAN]
         /\ refilled' \in BOOLEAN /\ intruded' \in BOOLEAN
BY DEF Destroyed, NewTimeline, Zero, Neither, NoHeaders, Announced

LEMMA TypeFrame ==
  ASSUME TypeOK, NEW kind \in Frames, NEW time \in 0..MaxTime,
         SendFrame(kind, time)
  PROVE  TypeOK'
<1> DEFINE t == TrackOf(kind)
           p == [kind |-> kind, time |-> time, config |-> config[t]]
<1>1. t \in Tracks /\ kind \in Kinds
  BY TrackTypes DEF Kinds
<1>2. p \in Packets
  BY <1>1, MediaAssumption DEF Packets, TypeOK
<1>3. Dts(p) \in Nat
  BY <1>2, EntryType
<1>4. Broadcast(p) /\ Remember(p)
  BY DEF SendFrame
<1>5. /\ clock' \in [Tracks -> 0..MaxTime] /\ sent' \in [Tracks -> Nat]
      /\ headerLast' \in [Tracks -> BOOLEAN]
  BY <1>1, <1>3 DEF SendFrame, TypeOK
<1> HIDE DEF p, t
<1>6. UNCHANGED <<slotVars, config, otherVars, intruded>>
  BY <1>4 DEF SendFrame, Broadcast
<1> QED
  BY <1>2, <1>4, <1>5, <1>6, BroadcastType
  DEF TypeOK, slotVars, otherVars

LEMMA TypeHeader ==
  ASSUME TypeOK, NEW kind \in Headers, NEW c \in Configs,
         NEW time \in 0..MaxTime, SendHeader(kind, c, time)
  PROVE  TypeOK'
<1> DEFINE t == TrackOf(kind)
           p == [kind |-> kind, time |-> time, config |-> c]
<1>1. t \in Tracks /\ kind \in Kinds /\ c \in Announced
  BY TrackTypes DEF Kinds, Announced
<1>2. p \in Packets
  BY <1>1, MediaAssumption DEF Packets, TypeOK
<1>3. Broadcast(p) /\ Remember(p)
  BY DEF SendHeader
<1>4. /\ config' \in [Tracks -> Announced]
      /\ headerLast' \in [Tracks -> BOOLEAN]
  BY <1>1 DEF SendHeader, TypeOK
<1> HIDE DEF p, t
<1>5. UNCHANGED <<slotVars, clock, sent, otherVars, intruded>>
  BY <1>3 DEF SendHeader, Broadcast
<1> QED
  BY <1>2, <1>3, <1>4, <1>5, BroadcastType
  DEF TypeOK, slotVars, otherVars

LEMMA TypeHdr ==
  ASSUME TypeOK, SendHdr
  PROVE  TypeOK'
<1> DEFINE p == [kind |-> "hdr", time |-> clock["video"],
                 config |-> config["video"]]
<1>1. p \in Packets
  BY MediaAssumption DEF Packets, TypeOK, Kinds, Tracks
<1>2. Broadcast(p) /\ Remember(p)
  BY DEF SendHdr
<1>3. headerLast' \in [Tracks -> BOOLEAN]
  BY DEF SendHdr, TypeOK, Tracks
<1> HIDE DEF p
<1>4. UNCHANGED <<slotVars, senderVars, sent, otherVars, intruded>>
  BY <1>2 DEF SendHdr, Broadcast
<1> QED
  BY <1>1, <1>2, <1>3, <1>4, BroadcastType
  DEF TypeOK, slotVars, otherVars, senderVars

LEMMA TypeIntrude ==
  ASSUME TypeOK, NEW kind \in Kinds, NEW time \in 0..MaxTime,
         Intrude(kind, time)
  PROVE  TypeOK'
<1> DEFINE p == [kind |-> kind, time |-> time, config |-> Foreign]
<1>1. p \in Packets
  BY MediaAssumption DEF Packets, Announced
<1>2. Broadcast(p) /\ Remember(p)
  BY DEF Intrude
<1>3. refused' \in 0..MaxRefused /\ intruded' \in BOOLEAN
  BY MediaAssumption DEF Intrude, TypeOK
<1> HIDE DEF p
<1>4. UNCHANGED <<slotVars, senderVars, sent, headerLast, intruder>>
  BY <1>2 DEF Intrude, Broadcast
<1> QED
  BY <1>1, <1>2, <1>3, <1>4, BroadcastType
  DEF TypeOK, slotVars, senderVars

LEMMA TypeNext == TypeOK /\ [Next]_vars => TypeOK'
<1> SUFFICES ASSUME TypeOK, [Next]_vars PROVE TypeOK'
  OBVIOUS
<1> USE MediaAssumption
<1>1. ASSUME NEW kind \in Frames, NEW time \in 0..MaxTime,
             SendFrame(kind, time)
      PROVE  TypeOK'
  BY <1>1, TypeFrame
<1>2. ASSUME NEW kind \in Headers, NEW c \in Configs,
             NEW time \in 0..MaxTime, SendHeader(kind, c, time)
      PROVE  TypeOK'
  BY <1>2, TypeHeader
<1>3. ASSUME SendHdr PROVE TypeOK'
  BY <1>3, TypeHdr
<1>4. ASSUME Refuse PROVE TypeOK'
  BY <1>4 DEF Refuse, TypeOK, slotVars, senderVars, dtsVars, cacheVars,
              viewVars, timeGhosts, gopGhosts
<1>5. ASSUME NEW kind \in Kinds, NEW time \in 0..MaxTime, Intrude(kind, time)
      PROVE  TypeOK'
  BY <1>5, TypeIntrude
<1>6. ASSUME IntruderLeaves PROVE TypeOK'
  <2>1. UNCHANGED <<slot, connections, senderVars, refused, packets, viewVars>>
    BY <1>6 DEF IntruderLeaves
  <2>2. CASE Destroyed
    BY <2>1, <2>2, TypeDestroyed DEF TypeOK, senderVars, viewVars
  <2>3. CASE UNCHANGED <<orphan, dtsVars, header, gop, timeGhosts, gopGhosts>>
    BY <1>6, <2>1, <2>3
    DEF IntruderLeaves, TypeOK, senderVars, viewVars, dtsVars, timeGhosts,
        gopGhosts
  <2> QED BY <1>6, <2>2, <2>3 DEF IntruderLeaves
<1>7. ASSUME Start PROVE TypeOK'
  BY <1>7 DEF Start, NewConnection, TypeOK, senderVars, otherVars, dtsVars,
              cacheVars, viewVars, timeGhosts, gopGhosts
<1>8. ASSUME Lose PROVE TypeOK'
  BY <1>8 DEF Lose, TypeOK, NoConfig, Zero, Announced, otherVars, dtsVars,
              cacheVars, viewVars, timeGhosts, gopGhosts
<1>9. ASSUME Resume PROVE TypeOK'
  BY <1>9 DEF Resume, NewConnection, OffsetAfterResume, TypeOK, senderVars,
              otherVars, cacheVars, viewVars, gopGhosts
<1>10. ASSUME TakeOver PROVE TypeOK'
  <2>1. Dropped /\ NewConnection /\ orphan' \in BOOLEAN
        /\ UNCHANGED <<otherVars, packets, viewVars>>
    BY <1>10 DEF TakeOver
  <2> QED BY <2>1, TypeDropped
          DEF NewConnection, TypeOK, senderVars, otherVars, viewVars
<1>11. ASSUME Finish PROVE TypeOK'
  <2>1. /\ UNCHANGED <<connections, senderVars, refused, packets, viewVars>>
        /\ slot' = "free"
    BY <1>11 DEF Finish
  <2>2. CASE Destroyed
    BY <2>1, <2>2, TypeDestroyed DEF TypeOK, senderVars, viewVars
  <2>3. CASE Dropped /\ UNCHANGED <<orphan, intruder>>
    BY <2>1, <2>3, TypeDropped DEF TypeOK, senderVars, viewVars
  <2> QED BY <1>11, <2>2, <2>3 DEF Finish
<1>12. ASSUME NEW v \in Viewers, Join(v) PROVE TypeOK'
  BY <1>12 DEF Join, SentFirst, TypeOK, slotVars, senderVars, otherVars,
               dtsVars, cacheVars, timeGhosts, gopGhosts
<1>13. ASSUME NEW v \in Viewers, Leave(v) PROVE TypeOK'
  <2>1. /\ viewers' \subseteq Viewers
        /\ got' \in [Viewers -> [Headers -> Announced]]
        /\ seen' \in [Viewers -> SUBSET Entries]
    BY <1>13 DEF Leave, TypeOK, NoHeaders, Announced
  <2>2. UNCHANGED <<slot, connections, senderVars, refused, packets>>
    BY <1>13 DEF Leave
  <2>3. CASE Destroyed
    BY <2>1, <2>2, <2>3, TypeDestroyed DEF TypeOK, senderVars
  <2>4. CASE UNCHANGED <<orphan, intruder, dtsVars, header, gop, timeGhosts,
                         gopGhosts>>
    BY <2>1, <2>2, <2>4
    DEF TypeOK, senderVars, dtsVars, timeGhosts, gopGhosts
  <2> QED BY <1>13, <2>3, <2>4 DEF Leave
<1>14. ASSUME UNCHANGED vars PROVE TypeOK'
  BY <1>14 DEF vars, TypeOK, slotVars, senderVars, otherVars, dtsVars,
               cacheVars, viewVars, timeGhosts, gopGhosts
<1> QED
  BY <1>1, <1>2, <1>3, <1>4, <1>5, <1>6, <1>7, <1>8, <1>9, <1>10, <1>11,
     <1>12, <1>13, <1>14 DEF Next

\* Every variable keeps its type, and the GOP cache its limit.
THEOREM MediaTypeCorrect == Spec => []TypeOK
BY TypeInit, TypeNext, PTL DEF Spec

-----------------------------------------------------------------------------
(***************************************************************************)
(* What a step can do to the caches and to what viewers were sent.         *)
(***************************************************************************)

\* Serial numbers come in order, so that a new packet is behind all others.
Numbered ==
  /\ gop # None => \A e \in gop : e.n < packets
  /\ \A v \in Viewers : \A e \in seen[v] : e.n < packets

CacheInv == Numbered /\ ViewersInStep /\ StartsAtKey

\* Every packet is broadcast by one of the four ways to send.
SomePacket == \E p \in Packets : Broadcast(p) /\ Remember(p)

LEMMA SendingBroadcasts ==
  ASSUME TypeOK
  PROVE  /\ \A kind \in Frames, time \in 0..MaxTime :
              SendFrame(kind, time) => SomePacket
         /\ \A kind \in Headers, c \in Configs, time \in 0..MaxTime :
              SendHeader(kind, c, time) => SomePacket
         /\ SendHdr => SomePacket
         /\ \A kind \in Kinds, time \in 0..MaxTime :
              Intrude(kind, time) => SomePacket
<1> USE MediaAssumption
<1>1. ASSUME NEW kind \in Frames, NEW time \in 0..MaxTime,
             SendFrame(kind, time)
      PROVE  SomePacket
  <2> DEFINE p == [kind |-> kind, time |-> time,
                   config |-> config[TrackOf(kind)]]
  <2>1. p \in Packets
    BY TrackTypes DEF Packets, TypeOK, Kinds
  <2>2. Broadcast(p) /\ Remember(p)
    BY <1>1 DEF SendFrame
  <2> QED BY <2>1, <2>2 DEF SomePacket
<1>2. ASSUME NEW kind \in Headers, NEW c \in Configs,
             NEW time \in 0..MaxTime, SendHeader(kind, c, time)
      PROVE  SomePacket
  <2> DEFINE p == [kind |-> kind, time |-> time, config |-> c]
  <2>1. p \in Packets
    BY DEF Packets, Kinds, Announced
  <2>2. Broadcast(p) /\ Remember(p)
    BY <1>2 DEF SendHeader
  <2> QED BY <2>1, <2>2 DEF SomePacket
<1>3. ASSUME SendHdr PROVE SomePacket
  <2> DEFINE p == [kind |-> "hdr", time |-> clock["video"],
                   config |-> config["video"]]
  <2>1. p \in Packets
    BY DEF Packets, TypeOK, Kinds, Tracks
  <2>2. Broadcast(p) /\ Remember(p)
    BY <1>3 DEF SendHdr
  <2> QED BY <2>1, <2>2 DEF SomePacket
<1>4. ASSUME NEW kind \in Kinds, NEW time \in 0..MaxTime, Intrude(kind, time)
      PROVE  SomePacket
  <2> DEFINE p == [kind |-> kind, time |-> time, config |-> Foreign]
  <2>1. p \in Packets
    BY DEF Packets, Announced
  <2>2. Broadcast(p) /\ Remember(p)
    BY <1>4 DEF Intrude
  <2> QED BY <2>1, <2>2 DEF SomePacket
<1> QED BY <1>1, <1>2, <1>3, <1>4

\* The caches are dropped: by _finishPublish, or with the object.
CachesDropped ==
  /\ header' = NoHeaders
  /\ gop' = None \/ (gop' = {} /\ refilled')
  /\ packets' = packets

\* Nothing happens to the caches and their viewers.
CachesKept == UNCHANGED <<header, gop, packets, refilled>>

LEMMA NextShape ==
  ASSUME TypeOK, [Next]_vars
  PROVE  \/ SomePacket
         \/ (CachesDropped \/ CachesKept) /\ UNCHANGED viewVars
         \/ \E v \in Viewers : Join(v)
         \/ \E v \in Viewers : Leave(v) /\ (CachesDropped \/ CachesKept)
<1>1. Dropped \/ Destroyed => (packets' = packets => CachesDropped)
  BY DEF Dropped, Destroyed, CachesDropped
<1>2. CASE \/ \E kind \in Frames, time \in 0..MaxTime : SendFrame(kind, time)
           \/ \E kind \in Headers, c \in Configs, time \in 0..MaxTime :
                SendHeader(kind, c, time)
           \/ SendHdr
           \/ \E kind \in Kinds, time \in 0..MaxTime : Intrude(kind, time)
  BY <1>2, SendingBroadcasts
<1>3. CASE Refuse \/ Start \/ Lose \/ Resume \/ UNCHANGED vars
  BY <1>3 DEF Refuse, Start, Lose, Resume, vars, CachesKept, cacheVars,
              gopGhosts, viewVars
<1>4. CASE IntruderLeaves \/ TakeOver \/ Finish
  BY <1>1, <1>4 DEF IntruderLeaves, TakeOver, Finish, CachesKept, gopGhosts
<1>5. CASE \E v \in Viewers : Join(v)
  BY <1>5
<1>6. ASSUME NEW v \in Viewers, Leave(v)
      PROVE  CachesDropped \/ CachesKept
  BY <1>1, <1>6 DEF Leave, CachesKept, gopGhosts
<1> QED BY <1>2, <1>3, <1>4, <1>5, <1>6 DEF Next

LEMMA CacheInvInit == Init => CacheInv
BY DEF Init, CacheInv, Numbered, ViewersInStep, StartsAtKey

\* A packet reaches the cache and every viewer alike.
LEMMA CacheInvPacket ==
  ASSUME TypeOK, CacheInv, NEW p \in Packets, Broadcast(p), Remember(p)
  PROVE  CacheInv'
<1> DEFINE e == Entry(p)
<1>0. p.kind = "key" => e.key
  BY Zenon DEF Entry
<1>1. /\ packets \in Nat /\ packets' = packets + 1 /\ e.n = packets
  BY MediaAssumption DEF Broadcast, TypeOK, Entry
<1>2. gop' = {} \/ gop' = Cached(p)
  BY DEF Broadcast, Capped
<1>3. viewers' = viewers /\ viewers \subseteq Viewers
  BY DEF Broadcast, TypeOK
<1>4. /\ gop # None => \A f \in gop : f.n \in Nat
      /\ \A v \in Viewers : \A f \in seen[v] : f.n \in Nat
  BY DEF TypeOK, Entries
<1>5. \A v \in Viewers :
        seen'[v] = IF v \in viewers /\ p.kind = "key" THEN {e}
                   ELSE IF v \in viewers /\ p.kind \in Frames
                        THEN seen[v] \cup {e} ELSE seen[v]
  BY DEF Broadcast, SeenAfter
<1>6. Cached(p) = IF p.kind = "key" THEN {e}
                  ELSE IF p.kind \in Frames /\ gop # None THEN gop \cup {e}
                  ELSE gop
  BY DEF Cached
<1>7. refilled' = ((p.kind # "key" /\ refilled) \/ gop' = {})
  BY DEF Remember
<1> HIDE DEF e
<1>8. Numbered'
  <2>1. ASSUME gop' # None, NEW f \in gop' PROVE f.n < packets'
    BY <2>1, <1>1, <1>2, <1>4, <1>6 DEF CacheInv, Numbered
  <2>2. ASSUME NEW v \in Viewers, NEW f \in seen'[v] PROVE f.n < packets'
    <3>1. seen'[v] \subseteq seen[v] \cup {e}
      BY <1>5
    <3>2. f \in seen[v] => f.n \in Nat /\ f.n < packets
      BY <2>2, <1>4 DEF CacheInv, Numbered
    <3>3. f = e \/ f \in seen[v]
      BY <2>2, <3>1
    <3> QED BY <1>1, <3>2, <3>3
  <2> QED BY <2>1, <2>2 DEF Numbered
<1>9. ViewersInStep'
  <2> SUFFICES ASSUME NEW v \in viewers
               PROVE  /\ \A h \in Headers :
                           header'[h] # None => got'[v][h] = header'[h]
                      /\ gop' # None =>
                           /\ gop' \subseteq seen'[v]
                           /\ \A g \in gop', f \in seen'[v] :
                                f.n >= g.n => f \in gop'
    BY <1>3 DEF ViewersInStep
  <2>1. v \in Viewers
    BY <1>3
  <2>2. ASSUME NEW h \in Headers, header'[h] # None
        PROVE  got'[v][h] = header'[h]
    <3>1. /\ header \in [Headers -> Announced]
          /\ got[v] \in [Headers -> Announced]
      BY <2>1 DEF TypeOK
    <3>2. got'[v] = IF p.kind \in Headers
                    THEN [got[v] EXCEPT ![p.kind] = p.config] ELSE got[v]
      BY <2>1 DEF Broadcast, GotAfter
    <3>3. header' = IF p.kind \in Headers
                    THEN [header EXCEPT ![p.kind] = p.config] ELSE header
      BY DEF Broadcast, HeaderAfter
    <3>4. header[h] # None => got[v][h] = header[h]
      BY DEF CacheInv, ViewersInStep
    <3> QED BY <2>2, <3>1, <3>2, <3>3, <3>4
  <2>3. ASSUME gop' # None
        PROVE  /\ gop' \subseteq seen'[v]
               /\ \A g \in gop', f \in seen'[v] : f.n >= g.n => f \in gop'
    <3>1. CASE gop' = {}
      BY <3>1
    <3>2. CASE gop' = Cached(p) /\ p.kind = "key"
      BY <3>2, <1>5, <1>6, <2>1
    <3>3. CASE gop' = Cached(p) /\ p.kind # "key" /\ p.kind \in Frames
      <4>1. gop # None /\ gop' = gop \cup {e} /\ seen'[v] = seen[v] \cup {e}
        BY <2>3, <3>3, <1>5, <1>6, <2>1
      <4>2. /\ gop \subseteq seen[v]
            /\ \A g \in gop, f \in seen[v] : f.n >= g.n => f \in gop
        BY <4>1 DEF CacheInv, ViewersInStep
      <4>3. \A f \in seen[v] : f.n \in Nat /\ ~(f.n >= e.n)
        BY <1>1, <1>4, <2>1 DEF CacheInv, Numbered
      <4> QED BY <4>1, <4>2, <4>3
    <3>4. CASE gop' = Cached(p) /\ p.kind \notin Frames
      <4>1. gop' = gop /\ seen'[v] = seen[v]
        BY <3>4, <1>5, <1>6, <2>1 DEF Frames
      <4> QED BY <2>3, <4>1 DEF CacheInv, ViewersInStep
    <3> QED BY <1>2, <3>1, <3>2, <3>3, <3>4
  <2> QED BY <2>2, <2>3
<1>10. StartsAtKey'
  <2> SUFFICES ASSUME gop' # None, ~refilled'
               PROVE  \E k \in gop' : k.key /\ \A f \in gop' : k.n <= f.n
    BY DEF StartsAtKey
  <2>1. gop' = Cached(p)
    BY <1>2, <1>7
  <2>2. CASE p.kind = "key"
    <3>1. e.key /\ e.n <= e.n
      BY <2>2, <1>0, <1>1
    <3> QED BY <2>1, <2>2, <3>1, <1>6
  <2>3. CASE p.kind # "key"
    <3>1. gop # None /\ ~refilled
      BY <2>1, <2>3, <1>6, <1>7
    <3>2. PICK k \in gop : k.key /\ \A f \in gop : k.n <= f.n
      BY <3>1 DEF CacheInv, StartsAtKey
    <3>3. k.n <= e.n
      BY <3>1, <1>1, <1>4 DEF CacheInv, Numbered
    <3> QED BY <2>1, <2>3, <1>6, <3>2, <3>3
  <2> QED BY <2>2, <2>3
<1> QED BY <1>8, <1>9, <1>10 DEF CacheInv

LEMMA CacheInvNext == TypeOK /\ CacheInv /\ [Next]_vars => CacheInv'
<1> SUFFICES ASSUME TypeOK, CacheInv, [Next]_vars PROVE CacheInv'
  OBVIOUS
<1>1. CASE SomePacket
  BY <1>1, CacheInvPacket DEF SomePacket
<1>2. ASSUME CachesDropped PROVE \A h \in Headers : header'[h] = None
  BY <1>2 DEF CachesDropped, NoHeaders
<1>3. CASE CachesDropped /\ UNCHANGED viewVars
  BY <1>2, <1>3 DEF CachesDropped, viewVars, CacheInv, Numbered,
                    ViewersInStep, StartsAtKey
<1>4. CASE CachesKept /\ UNCHANGED viewVars
  BY <1>4 DEF CachesKept, viewVars, CacheInv, Numbered, ViewersInStep,
              StartsAtKey
<1>5. ASSUME NEW v \in Viewers, Join(v) PROVE CacheInv'
  <2>1. /\ viewers' = viewers \cup {v}
        /\ got' = [got EXCEPT ![v] = header]
        /\ seen' = [seen EXCEPT ![v] = IF gop = None THEN {} ELSE gop]
        /\ UNCHANGED <<header, gop, packets, refilled>>
    BY <1>5 DEF Join, SentFirst, cacheVars, gopGhosts
  <2>2. /\ got'[v] = header /\ seen'[v] = IF gop = None THEN {} ELSE gop
        /\ \A w \in Viewers \ {v} : got'[w] = got[w] /\ seen'[w] = seen[w]
    BY <2>1 DEF TypeOK
  <2>3. Numbered' /\ StartsAtKey'
    BY <2>1, <2>2 DEF CacheInv, Numbered, StartsAtKey
  <2>4. ViewersInStep'
    BY <2>1, <2>2 DEF CacheInv, ViewersInStep, TypeOK
  <2> QED BY <2>3, <2>4 DEF CacheInv
<1>6. ASSUME NEW v \in Viewers, Leave(v), CachesDropped \/ CachesKept
      PROVE  CacheInv'
  <2>1. viewers' = viewers \ {v} /\ viewers \subseteq Viewers
    BY <1>6 DEF Leave, TypeOK
  <2>2. /\ seen'[v] = {}
        /\ \A w \in Viewers \ {v} : got'[w] = got[w] /\ seen'[w] = seen[w]
    BY <1>6 DEF Leave, TypeOK
  <2>3. CASE CachesDropped
    BY <1>2, <2>1, <2>2, <2>3
    DEF CachesDropped, CacheInv, Numbered, ViewersInStep, StartsAtKey
  <2>4. CASE CachesKept
    BY <2>1, <2>2, <2>4
    DEF CachesKept, CacheInv, Numbered, ViewersInStep, StartsAtKey
  <2> QED BY <1>6, <2>3, <2>4
<1> QED BY <1>1, <1>3, <1>4, <1>5, <1>6, NextShape

LEMMA CacheInvAlways == Spec => []CacheInv
<1>1. TypeOK /\ CacheInv /\ [Next]_vars => CacheInv'
  BY CacheInvNext
<1> QED BY CacheInvInit, <1>1, MediaTypeCorrect, PTL DEF Spec

\* postPlay and broadcastMessage together keep late and early viewers in step.
THEOREM LateViewersCatchUp == Spec => []ViewersInStep
<1>1. CacheInv => ViewersInStep
  BY DEF CacheInv
<1> QED BY <1>1, CacheInvAlways, PTL

\* A cache that was not emptied since a key frame starts at one.
THEOREM CacheStartsAtKey == Spec => []StartsAtKey
<1>1. CacheInv => StartsAtKey
  BY DEF CacheInv
<1> QED BY <1>1, CacheInvAlways, PTL

-----------------------------------------------------------------------------
(***************************************************************************)
(* What the holder of the slot announced is what the server caches, as     *)
(* long as nobody else sends.                                              *)
(***************************************************************************)

DecodeInv ==
  /\ slot # "held" => config = NoConfig
  /\ ~intruded => \A t \in Tracks :
       config[t] # None => config[t] = header[HeaderOf(t)]
  /\ JoinDecodes

LEMMA DecodeInit == Init => DecodeInv
BY DEF Init, DecodeInv, JoinDecodes, NoConfig

\* A packet adds at most itself to the cache.
LEMMA CacheGrows ==
  ASSUME NEW p \in Packets, Broadcast(p), gop' # None
  PROVE  \/ gop' = {}
         \/ p.kind = "key" /\ gop' = {Entry(p)}
         \/ p.kind # "key" /\ p.kind \in Frames /\ gop # None
              /\ gop' = gop \cup {Entry(p)}
         \/ p.kind \notin Frames /\ gop # None /\ gop' = gop
BY DEF Broadcast, Capped, Cached, Frames

LEMMA DecodeFrame ==
  ASSUME TypeOK, DecodeInv, NEW kind \in Frames, NEW time \in 0..MaxTime,
         SendFrame(kind, time)
  PROVE  DecodeInv'
<1> DEFINE t == TrackOf(kind)
           p == [kind |-> kind, time |-> time, config |-> config[t]]
<1>1. t \in Tracks
  BY TrackTypes DEF Kinds
<1>2. p \in Packets
  BY <1>1, MediaAssumption DEF Packets, TypeOK, Kinds
<1>3. /\ Broadcast(p) /\ Remember(p) /\ config[t] # None
      /\ UNCHANGED <<config, intruded>> /\ slot = "held"
  BY DEF SendFrame
<1>4. slot' = slot /\ header' = header
  BY <1>3 DEF Broadcast, HeaderAfter, slotVars, Frames, Headers
<1>5. Entry(p).track = t /\ Entry(p).config = config[t]
  BY DEF Entry
<1>6. \A u \in Tracks : gop' # {} /\ gop' # None /\ kind # "key" =>
        changed'[u] = (changed[u] \/ FALSE)
  BY <1>3, Zenon DEF Remember, HeaderOf, Frames, Headers, TypeOK
<1>7. ASSUME gop' # None, ~intruded', NEW e \in gop'
      PROVE  e.config = header'[HeaderOf(e.track)] \/ changed'[e.track]
  <2>1. CASE e = Entry(p)
    BY <2>1, <1>1, <1>3, <1>4, <1>5, <1>7 DEF DecodeInv
  <2>2. CASE e # Entry(p)
    <3>1. gop # None /\ e \in gop /\ kind # "key" /\ gop' # {}
      BY <1>2, <1>3, <1>7, <2>2, CacheGrows
    <3>2. e.config = header[HeaderOf(e.track)] \/ changed[e.track]
      BY <3>1, <1>3, <1>7 DEF DecodeInv, JoinDecodes
    <3>3. e.track \in Tracks
      BY <3>1 DEF TypeOK, Entries
    <3> QED BY <3>1, <3>2, <3>3, <1>4, <1>6, <1>7
  <2> QED BY <2>1, <2>2
<1> QED BY <1>3, <1>4, <1>7 DEF DecodeInv, JoinDecodes

LEMMA DecodeHeader ==
  ASSUME TypeOK, DecodeInv, NEW kind \in Headers, NEW c \in Configs,
         NEW time \in 0..MaxTime, SendHeader(kind, c, time)
  PROVE  DecodeInv'
<1> DEFINE t == TrackOf(kind)
           p == [kind |-> kind, time |-> time, config |-> c]
<1>1. t \in Tracks /\ kind \notin Frames /\ kind # "key"
  BY TrackTypes DEF Kinds, Frames, Headers
<1>2. p \in Packets
  BY MediaAssumption DEF Packets, Kinds, Announced
<1>3. /\ Broadcast(p) /\ Remember(p) /\ slot = "held"
      /\ UNCHANGED intruded
  BY DEF SendHeader
<1>4. slot' = slot /\ header' = [header EXCEPT ![kind] = c]
  BY <1>3 DEF Broadcast, HeaderAfter, slotVars
<1>5. /\ kind = "script" => config' = config
      /\ kind # "script" => config' = [config EXCEPT ![t] = c]
  BY DEF SendHeader
<1>6. \A u \in Tracks : /\ HeaderOf(u) \in Headers
                        /\ HeaderOf(u) = kind <=> (kind # "script" /\ u = t)
  BY DEF HeaderOf, TrackOf, Tracks, Headers
<1>7. \A u \in Tracks :
        header'[HeaderOf(u)] = IF kind # "script" /\ u = t THEN c
                               ELSE header[HeaderOf(u)]
  BY <1>4, <1>6 DEF TypeOK
<1>8. ASSUME ~intruded', NEW u \in Tracks, config'[u] # None
      PROVE  config'[u] = header'[HeaderOf(u)]
  BY <1>1, <1>3, <1>5, <1>7, <1>8 DEF DecodeInv, TypeOK
<1>9. ASSUME gop' # None, ~intruded', NEW e \in gop'
      PROVE  e.config = header'[HeaderOf(e.track)] \/ changed'[e.track]
  <2>1. gop # None /\ e \in gop /\ gop' # {}
    BY <1>1, <1>2, <1>3, <1>9, CacheGrows
  <2>2. e.config = header[HeaderOf(e.track)] \/ changed[e.track]
    BY <2>1, <1>3, <1>9 DEF DecodeInv, JoinDecodes
  <2>3. e.track \in Tracks
    BY <2>1 DEF TypeOK, Entries
  <2>4. changed'[e.track] = (changed[e.track] \/
          (kind = HeaderOf(e.track) /\ c # header[kind]))
    BY <2>1, <2>3, <1>1, <1>3, <1>9, Zenon DEF Remember
  <2>5. CASE HeaderOf(e.track) = kind
    <3>1. header'[HeaderOf(e.track)] = c
      BY <2>3, <2>5, <1>6, <1>7
    <3> QED BY <2>2, <2>4, <2>5, <3>1
  <2>6. CASE HeaderOf(e.track) # kind
    <3>1. header'[HeaderOf(e.track)] = header[HeaderOf(e.track)]
      BY <2>3, <2>6, <1>6, <1>7
    <3> QED BY <2>2, <2>4, <3>1
  <2> QED BY <2>5, <2>6
<1> QED BY <1>3, <1>4, <1>8, <1>9 DEF DecodeInv, JoinDecodes

LEMMA DecodeHdr ==
  ASSUME TypeOK, DecodeInv, SendHdr
  PROVE  DecodeInv'
<1> DEFINE p == [kind |-> "hdr", time |-> clock["video"],
                 config |-> config["video"]]
<1>1. p \in Packets
  BY MediaAssumption DEF Packets, TypeOK, Kinds, Tracks
<1>2. /\ Broadcast(p) /\ Remember(p) /\ slot = "held"
      /\ UNCHANGED <<senderVars, intruded>>
  BY DEF SendHdr
<1>3. slot' = slot /\ header' = header /\ config' = config
  BY <1>2 DEF Broadcast, HeaderAfter, slotVars, Headers, senderVars
<1>4. ASSUME gop' # None, ~intruded', NEW e \in gop'
      PROVE  e.config = header'[HeaderOf(e.track)] \/ changed'[e.track]
  <2>1. gop # None /\ e \in gop /\ gop' # {}
    BY <1>1, <1>2, <1>4, CacheGrows DEF Frames
  <2>2. e.config = header[HeaderOf(e.track)] \/ changed[e.track]
    BY <2>1, <1>2, <1>4 DEF DecodeInv, JoinDecodes
  <2>3. e.track \in Tracks
    BY <2>1 DEF TypeOK, Entries
  <2>4. changed'[e.track] = (changed[e.track] \/ FALSE)
    BY <2>1, <2>3, <1>2, <1>4, Zenon DEF Remember, HeaderOf
  <2> QED BY <2>2, <2>4, <1>3
<1> QED BY <1>2, <1>3, <1>4 DEF DecodeInv, JoinDecodes

LEMMA DecodeNext == TypeOK /\ DecodeInv /\ [Next]_vars => DecodeInv'
<1> SUFFICES ASSUME TypeOK, DecodeInv, [Next]_vars PROVE DecodeInv'
  OBVIOUS
<1>1. ASSUME NEW kind \in Frames, NEW time \in 0..MaxTime,
             SendFrame(kind, time)
      PROVE  DecodeInv'
  BY <1>1, DecodeFrame
<1>2. ASSUME NEW kind \in Headers, NEW c \in Configs,
             NEW time \in 0..MaxTime, SendHeader(kind, c, time)
      PROVE  DecodeInv'
  BY <1>2, DecodeHeader
<1>3. ASSUME SendHdr PROVE DecodeInv'
  BY <1>3, DecodeHdr
<1>4. ASSUME NEW kind \in Kinds, NEW time \in 0..MaxTime, Intrude(kind, time)
      PROVE  DecodeInv'
  BY <1>4 DEF Intrude, Broadcast, DecodeInv, JoinDecodes, slotVars, senderVars
<1>5. ASSUME Destroyed \/ Dropped, config' = config, config = NoConfig
      PROVE  DecodeInv'
  <2>1. \A t \in Tracks : config'[t] = None
    BY <1>5 DEF NoConfig
  <2>2. gop' # None => gop' = {}
    BY <1>5 DEF Dropped, Destroyed
  <2> QED BY <1>5, <2>1, <2>2 DEF DecodeInv, JoinDecodes
<1>6. ASSUME UNCHANGED <<config, header, gop, changed, intruded>>,
             slot' # "held" => slot # "held"
      PROVE  DecodeInv'
  BY <1>6 DEF DecodeInv, JoinDecodes
<1>7. CASE Refuse \/ Start \/ Resume \/ UNCHANGED vars
  BY <1>6, <1>7 DEF Refuse, Start, Resume, NewConnection, vars, slotVars,
                    senderVars, cacheVars, gopGhosts
<1>8. CASE Lose
  <2>1. \A t \in Tracks : config'[t] = None
    BY <1>8 DEF Lose, NoConfig
  <2> QED BY <1>8, <2>1 DEF Lose, DecodeInv, JoinDecodes, cacheVars, gopGhosts
<1>9. CASE TakeOver \/ Finish
  <2>1. slot = "grace" /\ config' = config
    BY <1>9 DEF TakeOver, Finish, NewConnection, senderVars
  <2>2. Destroyed \/ Dropped
    BY <1>9 DEF TakeOver, Finish
  <2> QED BY <1>5, <2>1, <2>2 DEF DecodeInv
<1>10. CASE IntruderLeaves \/ \E v \in Viewers : Leave(v)
  <2>1. slot' = slot /\ config' = config
    BY <1>10 DEF IntruderLeaves, Leave, senderVars
  <2>2. \/ slot = "free" /\ Destroyed
        \/ UNCHANGED <<header, gop, gopGhosts>>
    BY <1>10 DEF IntruderLeaves, Leave
  <2> QED BY <1>5, <1>6, <2>1, <2>2 DEF DecodeInv, gopGhosts
<1>11. CASE \E v \in Viewers : Join(v)
  BY <1>6, <1>11 DEF Join, slotVars, senderVars, cacheVars, gopGhosts
<1> QED
  BY <1>1, <1>2, <1>3, <1>4, <1>7, <1>8, <1>9, <1>10, <1>11 DEF Next

\* A viewer can decode what it is sent when it joins.
THEOREM JoinersDecode == Spec => []JoinDecodes
<1>1. TypeOK /\ DecodeInv /\ [Next]_vars => DecodeInv'
  BY DecodeNext
<1>2. DecodeInv => JoinDecodes
  BY DEF DecodeInv
<1> QED BY DecodeInit, <1>1, <1>2, MediaTypeCorrect, PTL DEF Spec

-----------------------------------------------------------------------------
(***************************************************************************)
(* The timeline: unless a track stopped on a header, _lastDts is where the *)
(* viewers are, and the offset of a resumed publish is where they were.    *)
(***************************************************************************)

TimeInv ==
  /\ slot # "held" => clock = Zero
  /\ slot = "free" => sent = Zero /\ base = Zero
                      /\ headerLast = Neither /\ behind = Neither
  /\ slot = "free" /\ ~intruded => lastDts = Zero /\ dtsOffset = Zero
  /\ slot # "free" /\ ~intruded =>
       \A t \in Tracks : headerLast[t] \/ lastDts[t] = sent[t]
  /\ slot = "held" /\ ~intruded =>
       \A t \in Tracks : behind[t] \/ dtsOffset[t] = base[t]
  /\ Timeline

LEMMA TimeInit == Init => TimeInv
BY DEF Init, TimeInv, Timeline

LEMMA TimeFrame ==
  ASSUME TypeOK, TimeInv, NEW kind \in Frames, NEW time \in 0..MaxTime,
         SendFrame(kind, time)
  PROVE  TimeInv'
<1> DEFINE t == TrackOf(kind)
           p == [kind |-> kind, time |-> time, config |-> config[t]]
<1>1. t \in Tracks /\ time \in Nat /\ kind # "script"
  BY TrackTypes, MediaAssumption DEF Kinds, Frames
<1>2. /\ Broadcast(p) /\ Remember(p) /\ slot = "held"
      /\ clock' = [clock EXCEPT ![t] = time]
      /\ sent' = [sent EXCEPT ![t] = Dts(p)]
      /\ headerLast' = [headerLast EXCEPT ![t] = FALSE]
      /\ UNCHANGED intruded
  BY DEF SendFrame
<1>3. Dts(p) = time + dtsOffset[t]
  BY DEF Dts, Shifts
<1>4. /\ lastDts' = [lastDts EXCEPT ![t] = Dts(p)]
      /\ UNCHANGED <<slot, dtsOffset, base, behind>>
  BY <1>1, <1>2 DEF Broadcast, Remember, LastDtsAfter, slotVars
<1> HIDE DEF p, t
<1> QED BY <1>1, <1>2, <1>3, <1>4 DEF TimeInv, Timeline, TypeOK

LEMMA TimeHeader ==
  ASSUME TypeOK, TimeInv, NEW kind \in Headers, NEW c \in Configs,
         NEW time \in 0..MaxTime, SendHeader(kind, c, time)
  PROVE  TimeInv'
<1> DEFINE t == TrackOf(kind)
           p == [kind |-> kind, time |-> time, config |-> c]
<1>1. t \in Tracks
  BY TrackTypes DEF Kinds
<1>2. /\ Broadcast(p) /\ Remember(p) /\ slot = "held"
      /\ UNCHANGED <<clock, sent, intruded>>
  BY DEF SendHeader
<1>3. UNCHANGED <<slot, dtsOffset, base, behind>>
  BY <1>2 DEF Broadcast, Remember, slotVars
<1>4. \/ UNCHANGED <<lastDts, headerLast>>
      \/ /\ headerLast' = [headerLast EXCEPT ![t] = TRUE]
         /\ lastDts' = [lastDts EXCEPT ![t] = Dts(p)]
  BY <1>2 DEF SendHeader, Broadcast, LastDtsAfter
<1> HIDE DEF p, t
<1> QED BY <1>1, <1>2, <1>3, <1>4 DEF TimeInv, Timeline, TypeOK

LEMMA TimeHdr ==
  ASSUME TypeOK, TimeInv, SendHdr
  PROVE  TimeInv'
<1> DEFINE p == [kind |-> "hdr", time |-> clock["video"],
                 config |-> config["video"]]
<1>1. /\ Broadcast(p) /\ Remember(p) /\ slot = "held"
      /\ headerLast' = [headerLast EXCEPT !["video"] = TRUE]
      /\ UNCHANGED <<senderVars, sent, intruded>>
  BY DEF SendHdr
<1>2. /\ UNCHANGED <<slot, dtsOffset, base, behind>>
      /\ lastDts' = [lastDts EXCEPT !["video"] = Dts(p)]
  BY <1>1 DEF Broadcast, Remember, slotVars, LastDtsAfter, TrackOf
<1> HIDE DEF p
<1> QED BY <1>1, <1>2 DEF TimeInv, Timeline, TypeOK, senderVars, Tracks

LEMMA TimeNext == TypeOK /\ TimeInv /\ [Next]_vars => TimeInv'
<1> SUFFICES ASSUME TypeOK, TimeInv, [Next]_vars PROVE TimeInv'
  OBVIOUS
<1>1. ASSUME NEW kind \in Frames, NEW time \in 0..MaxTime,
             SendFrame(kind, time)
      PROVE  TimeInv'
  BY <1>1, TimeFrame
<1>2. ASSUME NEW kind \in Headers, NEW c \in Configs,
             NEW time \in 0..MaxTime, SendHeader(kind, c, time)
      PROVE  TimeInv'
  BY <1>2, TimeHeader
<1>3. ASSUME SendHdr PROVE TimeInv'
  BY <1>3, TimeHdr
<1>4. ASSUME NEW kind \in Kinds, NEW time \in 0..MaxTime, Intrude(kind, time)
      PROVE  TimeInv'
  BY <1>4 DEF Intrude, Broadcast, Remember, TimeInv, Timeline, slotVars,
              senderVars
<1>5. ASSUME UNCHANGED <<slot, clock, lastDts, dtsOffset, timeGhosts, intruded>>
      PROVE  TimeInv'
  BY <1>5 DEF TimeInv, Timeline, timeGhosts
<1>6. ASSUME Destroyed \/ Dropped, clock = Zero, clock' = clock
      PROVE  TimeInv'
  BY <1>6 DEF Destroyed, Dropped, NewTimeline, TimeInv, Timeline, Zero, Neither
<1>7. CASE Refuse \/ UNCHANGED vars \/ \E v \in Viewers : Join(v)
  BY <1>5, <1>7 DEF Refuse, Join, vars, slotVars, senderVars, dtsVars, gopGhosts
<1>8. CASE Start
  BY <1>8 DEF Start, NewConnection, senderVars, dtsVars, timeGhosts, gopGhosts,
              TimeInv, Timeline, Zero, Neither
<1>9. CASE Lose
  BY <1>9 DEF Lose, dtsVars, timeGhosts, gopGhosts, TimeInv, Timeline
<1>10. CASE Resume
  <2>1. /\ slot = "grace" /\ slot' = "held" /\ clock = Zero /\ clock' = clock
        /\ dtsOffset' = lastDts /\ base' = sent /\ behind' = headerLast
        /\ UNCHANGED <<lastDts, sent, headerLast, intruded>>
    BY <1>10 DEF Resume, OffsetAfterResume, NewConnection, senderVars,
                 gopGhosts, TimeInv
  <2>2. Timeline'
    BY <2>1 DEF Timeline, Zero, TypeOK
  <2> QED BY <2>1, <2>2 DEF TimeInv
<1>11. CASE TakeOver \/ Finish
  <2>1. clock = Zero /\ clock' = clock
    BY <1>11 DEF TakeOver, Finish, NewConnection, senderVars, TimeInv
  <2> QED BY <1>6, <1>11, <2>1 DEF TakeOver, Finish
<1>12. CASE IntruderLeaves \/ \E v \in Viewers : Leave(v)
  <2>1. slot' = slot /\ clock' = clock
    BY <1>12 DEF IntruderLeaves, Leave, senderVars
  <2>2. \/ slot = "free" /\ Destroyed
        \/ UNCHANGED <<dtsVars, timeGhosts, gopGhosts>>
    BY <1>12 DEF IntruderLeaves, Leave
  <2> QED BY <1>5, <1>6, <2>1, <2>2 DEF TimeInv, dtsVars, gopGhosts
<1> QED
  BY <1>1, <1>2, <1>3, <1>4, <1>7, <1>8, <1>9, <1>10, <1>11, <1>12 DEF Next

\* The timeline of a publish goes on where the viewers were.
THEOREM TimelineGoesOn == Spec => []Timeline
<1>1. TypeOK /\ TimeInv /\ [Next]_vars => TimeInv'
  BY TimeNext
<1>2. TimeInv => Timeline
  BY DEF TimeInv
<1> QED BY TimeInit, <1>1, <1>2, MediaTypeCorrect, PTL DEF Spec

\* What a viewer is sent when it joins starts at a key frame and can be decoded.
THEOREM JoinersPlay == Spec => []JoinersCanPlay
<1>1. StartsAtKey /\ JoinDecodes => JoinersCanPlay
  BY DEF JoinersCanPlay
<1> QED BY <1>1, CacheStartsAtKey, JoinersDecode, PTL

LEMMA Climb ==
  ASSUME NEW S, 0 \in S, \A i \in Nat : i \in S => i + 1 \in S
  PROVE  Nat \subseteq S
<1> SUFFICES ASSUME NEW k \in Nat, k \notin S PROVE FALSE
  OBVIOUS
<1> DEFINE T == {i \in Nat : i \notin S}
<1>1. PICK x \in T : \A y \in T : ~(<<y, x>> \in OpToRel(<, Nat))
  <2>1. T \in SUBSET Nat /\ T # {}
    OBVIOUS
  <2> QED BY <2>1, NatLessThanWellFounded, WFMin
<1>2. \A y \in T : ~(y < x)
  BY <1>1 DEF OpToRel
<1>3. x \in Nat /\ x \notin S /\ x # 0
  BY <1>1
<1>4. x - 1 \in Nat /\ x - 1 \in S
  BY <1>2, <1>3
<1> QED BY <1>3, <1>4

(***************************************************************************)
(* Sums of counters.                                                       *)
(***************************************************************************)

Sum(count, S) == MapThenSumSet(LAMBDA s : count[s], S)
Chosen(T) == CHOOSE s \in T : TRUE

\* What the fold does with the subsets of S.
SumsTo(f, count, S) ==
  f = [T \in SUBSET S |->
        IF T = {} THEN 0 ELSE count[Chosen(T)] + f[T \ {Chosen(T)}]]

LEMMA SumUnfold ==
  ASSUME NEW count, NEW S
  PROVE  \E f : f = (CHOOSE g : SumsTo(g, count, S)) /\ Sum(count, S) = f[S]
BY DEF Sum, MapThenSumSet, MapThenFoldSet, SumsTo, Chosen

LEMMA SubsetSize ==
  ASSUME NEW S, IsFiniteSet(S), NEW T \in SUBSET S
  PROVE  /\ IsFiniteSet(T) /\ Cardinality(T) \in Nat
         /\ T # {} => /\ Chosen(T) \in T
                      /\ T \ {Chosen(T)} \in SUBSET S
                      /\ Cardinality(T \ {Chosen(T)}) = Cardinality(T) - 1
         /\ T = {} <=> Cardinality(T) = 0
<1>1. IsFiniteSet(T)
  BY FS_Subset
<1>2. Cardinality(T) \in Nat /\ (T = {} <=> Cardinality(T) = 0)
  BY <1>1, FS_CardinalityType, FS_EmptySet
<1>3. ASSUME T # {} PROVE Chosen(T) \in T
  BY <1>3 DEF Chosen
<1>4. ASSUME NEW x \in T PROVE Cardinality(T \ {x}) = Cardinality(T) - 1
  BY <1>1, <1>4, FS_RemoveElement
<1> QED BY <1>1, <1>2, <1>3, <1>4

\* f is right about the subset T.
RightAt(f, count, T) ==
  f[T] = IF T = {} THEN 0 ELSE count[Chosen(T)] + f[T \ {Chosen(T)}]

LEMMA SumExists ==
  ASSUME NEW count, NEW S, IsFiniteSet(S) PROVE \E f : SumsTo(f, count, S)
<1> DEFINE Small(n) == {T \in SUBSET S : Cardinality(T) <= n}
           N == {n \in Nat : \E f : \A T \in Small(n) : RightAt(f, count, T)}
<1>1. 0 \in N
  <2> DEFINE f == [T \in SUBSET S |-> 0]
  <2>1. ASSUME NEW T \in Small(0) PROVE RightAt(f, count, T)
    <3>1. T = {}
      <4>1. T \in SUBSET S /\ Cardinality(T) <= 0
        OBVIOUS
      <4>2. Cardinality(T) \in Nat /\ (T = {} <=> Cardinality(T) = 0)
        BY <4>1, SubsetSize
      <4> QED BY <4>1, <4>2
    <3> QED BY <3>1 DEF RightAt
  <2> QED BY <2>1
<1>2. ASSUME NEW i \in Nat, i \in N PROVE i + 1 \in N
  <2>1. PICK f : \A T \in Small(i) : RightAt(f, count, T)
    BY <1>2
  <2> DEFINE g == [T \in SUBSET S |->
                    IF Cardinality(T) <= i THEN f[T]
                    ELSE count[Chosen(T)] + f[T \ {Chosen(T)}]]
  <2>2. \A T \in Small(i) : g[T] = f[T]
    OBVIOUS
  <2>3. ASSUME NEW T \in Small(i + 1) PROVE RightAt(g, count, T)
    <3>0. T \in SUBSET S /\ Cardinality(T) \in Nat /\ Cardinality(T) <= i + 1
      BY SubsetSize
    <3>1. T # {} => T \ {Chosen(T)} \in Small(i)
      <4>1. T # {} => /\ T \ {Chosen(T)} \in SUBSET S
                      /\ Cardinality(T \ {Chosen(T)}) = Cardinality(T) - 1
        BY <3>0, SubsetSize
      <4> QED BY <3>0, <4>1
    <3>2. CASE T \in Small(i)
      <4>1. RightAt(f, count, T) /\ g[T] = f[T]
        BY <2>1, <2>2, <3>2
      <4>2. T # {} => g[T \ {Chosen(T)}] = f[T \ {Chosen(T)}]
        BY <2>2, <3>1
      <4> HIDE DEF g
      <4> QED BY <4>1, <4>2 DEF RightAt
    <3>3. CASE T \notin Small(i)
      <4>1. T # {} /\ ~(Cardinality(T) <= i)
        <5>1. T = {} <=> Cardinality(T) = 0
          BY <3>0, SubsetSize
        <5>2. ~(Cardinality(T) <= i)
          BY <3>0, <3>3
        <5> QED BY <3>0, <5>1, <5>2
      <4>2. g[T] = count[Chosen(T)] + f[T \ {Chosen(T)}]
        BY <3>0, <4>1
      <4>3. g[T \ {Chosen(T)}] = f[T \ {Chosen(T)}]
        BY <2>2, <3>1, <4>1
      <4> HIDE DEF g
      <4> QED BY <4>1, <4>2, <4>3 DEF RightAt
    <3> QED BY <3>2, <3>3
  <2> HIDE DEF g, Small
  <2> QED BY <2>3
<1>3. Cardinality(S) \in N
  <2>1. Cardinality(S) \in Nat
    BY FS_CardinalityType
  <2> HIDE DEF N
  <2>2. Nat \subseteq N
    BY <1>1, <1>2, Climb
  <2> QED BY <2>1, <2>2
<1>4. PICK f : \A T \in Small(Cardinality(S)) : RightAt(f, count, T)
  BY <1>3
<1>5. \A T \in SUBSET S : T \in Small(Cardinality(S))
  BY FS_Subset
<1> DEFINE g == [T \in SUBSET S |-> f[T]]
           body(T) == IF T = {} THEN 0
                      ELSE count[Chosen(T)] + g[T \ {Chosen(T)}]
<1>6. ASSUME NEW T \in SUBSET S PROVE g[T] = body(T)
  <2>1. f[T] = IF T = {} THEN 0 ELSE count[Chosen(T)] + f[T \ {Chosen(T)}]
    BY <1>4, <1>5 DEF RightAt
  <2>2. g[T \ {Chosen(T)}] = f[T \ {Chosen(T)}]
    OBVIOUS
  <2>3. g[T] = f[T]
    OBVIOUS
  <2> HIDE DEF g
  <2> QED BY <2>1, <2>2, <2>3
<1>7. g = [T \in SUBSET S |-> g[T]]
  OBVIOUS
<1>8. g = [T \in SUBSET S |-> body(T)]
  <2> HIDE DEF g, body
  <2> QED BY <1>6, <1>7
<1> HIDE DEF g
<1>9. SumsTo(g, count, S)
  BY <1>8 DEF SumsTo
<1> QED BY <1>9

\* The folds over a set and over one of its subsets agree.
LEMMA SameSum ==
  ASSUME NEW count, NEW S, IsFiniteSet(S), NEW U \in SUBSET S,
         NEW f, SumsTo(f, count, S), NEW g, SumsTo(g, count, U)
  PROVE  f[U] = g[U]
<1> DEFINE Small(n) == {T \in SUBSET U : Cardinality(T) <= n}
           N == {n \in Nat : \A T \in Small(n) : f[T] = g[T]}
<1>0. /\ SUBSET U \subseteq SUBSET S /\ IsFiniteSet(U)
      /\ \A T \in SUBSET U : RightAt(f, count, T) /\ RightAt(g, count, T)
  <2>1. IsFiniteSet(U)
    BY FS_Subset
  <2>2. SUBSET U \subseteq SUBSET S
    OBVIOUS
  <2> QED BY <2>1, <2>2 DEF SumsTo, RightAt
<1>1. 0 \in N
  <2>1. ASSUME NEW T \in Small(0) PROVE f[T] = g[T]
    <3>1. T \in SUBSET U /\ Cardinality(T) <= 0
      OBVIOUS
    <3>2. Cardinality(T) \in Nat /\ (T = {} <=> Cardinality(T) = 0)
      BY <1>0, <3>1, SubsetSize
    <3>3. T = {}
      BY <3>1, <3>2
    <3> QED BY <1>0, <3>1, <3>3 DEF RightAt
  <2> QED BY <2>1
<1>2. ASSUME NEW i \in Nat, i \in N PROVE i + 1 \in N
  <2>1. ASSUME NEW T \in Small(i + 1) PROVE f[T] = g[T]
    <3>1. T \in SUBSET U /\ Cardinality(T) <= i + 1
      OBVIOUS
    <3>2. T # {} => /\ T \ {Chosen(T)} \in SUBSET U
                    /\ Cardinality(T \ {Chosen(T)}) = Cardinality(T) - 1
                    /\ Cardinality(T) \in Nat
      BY <1>0, <3>1, SubsetSize
    <3>3. T # {} => T \ {Chosen(T)} \in Small(i)
      BY <3>1, <3>2
    <3>4. T # {} => f[T \ {Chosen(T)}] = g[T \ {Chosen(T)}]
      BY <1>2, <3>3
    <3>5. RightAt(f, count, T) /\ RightAt(g, count, T)
      BY <1>0, <3>1
    <3> QED BY <3>4, <3>5 DEF RightAt
  <2> QED BY <2>1
<1>3. Cardinality(U) \in N
  <2>1. Cardinality(U) \in Nat
    BY <1>0, FS_CardinalityType
  <2> HIDE DEF N
  <2>2. Nat \subseteq N
    BY <1>1, <1>2, Climb
  <2> QED BY <2>1, <2>2
<1>4. U \in Small(Cardinality(U))
  <2>1. Cardinality(U) \in Nat
    BY <1>0, FS_CardinalityType
  <2> QED BY <2>1
<1> QED BY <1>3, <1>4

\* A sum is the count of the chosen one and the sum of the others.
LEMMA SumTakes ==
  ASSUME NEW count, NEW S, IsFiniteSet(S)
  PROVE  Sum(count, S) = IF S = {} THEN 0
                         ELSE count[Chosen(S)] + Sum(count, S \ {Chosen(S)})
<1> DEFINE U == S \ {Chosen(S)}
<1>1. PICK f : f = (CHOOSE g : SumsTo(g, count, S)) /\ Sum(count, S) = f[S]
  BY SumUnfold
<1>2. PICK g : g = (CHOOSE h : SumsTo(h, count, U)) /\ Sum(count, U) = g[U]
  BY SumUnfold
<1>3. U \in SUBSET S /\ IsFiniteSet(U)
  BY FS_Subset
<1>4. SumsTo(f, count, S)
  BY <1>1, SumExists
<1>5. SumsTo(g, count, U)
  BY <1>2, <1>3, SumExists
<1>6. f[U] = g[U]
  BY <1>3, <1>4, <1>5, SameSum
<1>7. f[S] = IF S = {} THEN 0 ELSE count[Chosen(S)] + f[U]
  BY <1>4 DEF SumsTo
<1> QED BY <1>1, <1>2, <1>6, <1>7

\* Sums of counters are numbers, and do not depend on what is not in the set.
LEMMA SumType ==
  ASSUME NEW S, IsFiniteSet(S), NEW count \in [S -> Nat], NEW T \in SUBSET S
  PROVE  Sum(count, T) \in Nat
<1> DEFINE N == {n \in Nat : \A U \in SUBSET S : Cardinality(U) <= n => Sum(count, U) \in Nat}
<1>1. 0 \in N
  <2>1. ASSUME NEW U \in SUBSET S, Cardinality(U) <= 0 PROVE Sum(count, U) \in Nat
    <3>1. IsFiniteSet(U) /\ Cardinality(U) \in Nat /\ (U = {} <=> Cardinality(U) = 0)
      BY SubsetSize
    <3>2. U = {}
      BY <2>1, <3>1
    <3> QED BY <3>1, <3>2, SumTakes
  <2> QED BY <2>1
<1>2. ASSUME NEW i \in Nat, i \in N PROVE i + 1 \in N
  <2>1. ASSUME NEW U \in SUBSET S, Cardinality(U) <= i + 1 PROVE Sum(count, U) \in Nat
    <3>1. /\ IsFiniteSet(U) /\ Cardinality(U) \in Nat
          /\ U # {} => /\ Chosen(U) \in U
                       /\ U \ {Chosen(U)} \in SUBSET S
                       /\ Cardinality(U \ {Chosen(U)}) = Cardinality(U) - 1
      BY SubsetSize
    <3>2. U # {} => Cardinality(U \ {Chosen(U)}) <= i
      BY <2>1, <3>1
    <3>3. U # {} => Sum(count, U \ {Chosen(U)}) \in Nat
      BY <1>2, <3>1, <3>2
    <3>4. U # {} => count[Chosen(U)] \in Nat
      BY <3>1
    <3> QED BY <3>1, <3>3, <3>4, SumTakes
  <2> QED BY <2>1
<1>3. Cardinality(T) \in N /\ Cardinality(T) \in Nat
  <2>1. Cardinality(T) \in Nat
    BY SubsetSize
  <2> HIDE DEF N
  <2>2. Nat \subseteq N
    BY <1>1, <1>2, Climb
  <2> QED BY <2>1, <2>2
<1> QED BY <1>3

LEMMA SumSame ==
  ASSUME NEW S, IsFiniteSet(S), NEW count, NEW other,
         \A s \in S : count[s] = other[s]
  PROVE  Sum(count, S) = Sum(other, S)
<1> DEFINE N == {n \in Nat : \A U \in SUBSET S :
                   Cardinality(U) <= n => Sum(count, U) = Sum(other, U)}
<1>1. 0 \in N
  <2>1. ASSUME NEW U \in SUBSET S, Cardinality(U) <= 0
        PROVE  Sum(count, U) = Sum(other, U)
    <3>1. IsFiniteSet(U) /\ Cardinality(U) \in Nat /\ (U = {} <=> Cardinality(U) = 0)
      BY SubsetSize
    <3>2. U = {}
      BY <2>1, <3>1
    <3> QED BY <3>1, <3>2, SumTakes
  <2> QED BY <2>1
<1>2. ASSUME NEW i \in Nat, i \in N PROVE i + 1 \in N
  <2>1. ASSUME NEW U \in SUBSET S, Cardinality(U) <= i + 1
        PROVE  Sum(count, U) = Sum(other, U)
    <3>1. /\ IsFiniteSet(U) /\ Cardinality(U) \in Nat
          /\ U # {} => /\ Chosen(U) \in U
                       /\ U \ {Chosen(U)} \in SUBSET S
                       /\ Cardinality(U \ {Chosen(U)}) = Cardinality(U) - 1
      BY SubsetSize
    <3>2. U # {} => Cardinality(U \ {Chosen(U)}) <= i
      BY <2>1, <3>1
    <3>3. U # {} => Sum(count, U \ {Chosen(U)}) = Sum(other, U \ {Chosen(U)})
      BY <1>2, <3>1, <3>2
    <3>4. U # {} => count[Chosen(U)] = other[Chosen(U)]
      BY <3>1
    <3> QED BY <3>1, <3>3, <3>4, SumTakes
  <2> QED BY <2>1
<1>3. Cardinality(S) \in N /\ Cardinality(S) \in Nat
  <2>1. Cardinality(S) \in Nat
    BY FS_CardinalityType
  <2> HIDE DEF N
  <2>2. Nat \subseteq N
    BY <1>1, <1>2, Climb
  <2> QED BY <2>1, <2>2
<1> QED BY <1>3

\* Whichever is taken first: the sum is its count and the sum of the others.
LEMMA SumWithout ==
  ASSUME NEW S, IsFiniteSet(S), NEW count \in [S -> Nat],
         NEW T \in SUBSET S, NEW s \in T
  PROVE  Sum(count, T) = Sum(count, T \ {s}) + count[s]
<1> DEFINE N == {n \in Nat : \A U \in SUBSET S : Cardinality(U) <= n =>
                   \A x \in U : Sum(count, U) = Sum(count, U \ {x}) + count[x]}
<1>1. 0 \in N
  <2>1. ASSUME NEW U \in SUBSET S, Cardinality(U) <= 0 PROVE U = {}
    <3>1. Cardinality(U) \in Nat /\ (U = {} <=> Cardinality(U) = 0)
      BY SubsetSize
    <3> QED BY <2>1, <3>1
  <2> QED BY <2>1
<1>2. ASSUME NEW i \in Nat, i \in N PROVE i + 1 \in N
  <2>1. ASSUME NEW U \in SUBSET S, Cardinality(U) <= i + 1, NEW x \in U
        PROVE  Sum(count, U) = Sum(count, U \ {x}) + count[x]
    <3>1. /\ IsFiniteSet(U) /\ Cardinality(U) \in Nat
          /\ Chosen(U) \in U /\ U \ {Chosen(U)} \in SUBSET S
          /\ Cardinality(U \ {Chosen(U)}) = Cardinality(U) - 1
      BY SubsetSize
    <3>2. PICK y \in U : y = Chosen(U)
      BY <3>1
    <3>3. Sum(count, U) = count[y] + Sum(count, U \ {y})
      BY <3>1, <3>2, SumTakes
    <3>4. \A V \in SUBSET S : Sum(count, V) \in Nat
      BY SumType
    <3>5. count[x] \in Nat /\ count[y] \in Nat
      OBVIOUS
    <3>6. CASE x = y
      BY <3>1, <3>2, <3>3, <3>4, <3>5, <3>6
    <3>7. CASE x # y
      <4> DEFINE V == (U \ {x}) \ {y}
      <4>1. /\ U \ {x} \in SUBSET S /\ U \ {y} \in SUBSET S /\ V \in SUBSET S
            /\ x \in U \ {y} /\ y \in U \ {x} /\ (U \ {y}) \ {x} = V
        BY <3>7
      <4>2. Cardinality(U \ {x}) = Cardinality(U) - 1
        BY <3>1, FS_RemoveElement
      <4>3. Cardinality(U \ {x}) <= i /\ Cardinality(U \ {y}) <= i
        BY <2>1, <3>1, <3>2, <4>2
      <4>4. Sum(count, U \ {x}) = Sum(count, V) + count[y]
        BY <1>2, <4>1, <4>3
      <4>5. Sum(count, U \ {y}) = Sum(count, V) + count[x]
        BY <1>2, <4>1, <4>3
      <4>6. Sum(count, V) \in Nat
        BY <3>4, <4>1
      <4> HIDE DEF V
      <4> QED BY <3>3, <3>5, <4>4, <4>5, <4>6
    <3> QED BY <3>6, <3>7
  <2> QED BY <2>1
<1>3. Cardinality(T) \in N /\ Cardinality(T) \in Nat
  <2>1. Cardinality(T) \in Nat
    BY SubsetSize
  <2> HIDE DEF N
  <2>2. Nat \subseteq N
    BY <1>1, <1>2, Climb
  <2> QED BY <2>1, <2>2
<1> QED BY <1>3

(***************************************************************************)
(* Types of the sampler.                                                   *)
(***************************************************************************)

IsStreamBytes(p, bytes) ==
  bytes = [in  |-> IF publisher[p] = NoOne THEN 0 ELSE inBytes[publisher[p]],
           out |-> Sum(outBytes, subscribers[p])]
StreamsBytes == \A p : IsStreamBytes(p, StreamBytes(p))

LEMMA StreamSum == StreamsBytes
BY DEF StreamBytes, Sum, StreamsBytes, IsStreamBytes

LEMMA StreamSumNext == StreamsBytes'
BY StreamSum, PTL

LEMMA MoreBytes ==
  ASSUME NEW bytes \in ByteCounts, NEW n \in Nat
  PROVE  /\ [bytes EXCEPT !.in = @ + n] = [in |-> bytes.in + n, out |-> bytes.out]
         /\ [bytes EXCEPT !.out = @ + n] = [in |-> bytes.in, out |-> bytes.out + n]
         /\ [bytes EXCEPT !.in = @ + n] \in ByteCounts
         /\ [bytes EXCEPT !.out = @ + n] \in ByteCounts
         /\ bytes.in \in Nat /\ bytes.out \in Nat
BY DEF ByteCounts

LEMMA StreamBytesType ==
  ASSUME SamplerTypeOK, NEW p \in Paths PROVE StreamBytes(p) \in ByteCounts
<1>1. Sum(outBytes, subscribers[p]) \in Nat
  <2>1. subscribers[p] \in SUBSET Sessions /\ outBytes \in [Sessions -> Nat]
    BY DEF SamplerTypeOK
  <2>2. IsFiniteSet(Sessions)
    BY SamplerAssumption
  <2> QED BY <2>1, <2>2, SumType
<1>2. publisher[p] # NoOne => inBytes[publisher[p]] \in Nat
  BY DEF SamplerTypeOK
<1> QED BY <1>1, <1>2, StreamSum DEF StreamsBytes, IsStreamBytes, ByteCounts

\* The window w is `old` without its first d samples, and the new one.
Slides(old, sample, w, d) ==
  /\ Len(w) = Len(old) + 1 - d
  /\ \A i \in 1..Len(w) : w[i] = IF i + d = Len(old) + 1 THEN sample ELSE old[i + d]
  /\ d < Len(old) => /\ old[Len(old)].bytes.in <= sample.bytes.in
                     /\ old[Len(old)].bytes.out <= sample.bytes.out
Pushed(old, sample, w) ==
  w \in Seq(SampleType) /\ \E d \in 0..Len(old) : Slides(old, sample, w, d)

LEMMA PushIs ==
  ASSUME NEW old \in Seq(SampleType), NEW sample \in SampleType
  PROVE  Pushed(old, sample, PushSample(old, sample))
<1> DEFINE last == old[Len(old)].bytes
           rebase == old # <<>> /\ (sample.bytes.in < last.in \/ sample.bytes.out < last.out)
<1>1. PICK n \in Nat : n = Len(old)
  OBVIOUS
<1>2. PICK w : w = PushSample(old, sample)
  OBVIOUS
<1>3. Window \in Nat /\ Window >= 2
  BY SamplerAssumption
<1>4. CASE rebase
  <2>1. w = <<sample>>
    BY <1>2, <1>3, <1>4 DEF PushSample
  <2>2. Slides(old, sample, w, n)
    BY <1>1, <2>1 DEF Slides
  <2>3. w \in Seq(SampleType)
    BY <2>1
  <2> QED BY <1>1, <1>2, <2>2, <2>3 DEF Pushed
<1>5. CASE ~rebase
  <2>1. PICK all : all = Append(old, sample)
    OBVIOUS
  <2>2. /\ all \in Seq(SampleType) /\ Len(all) = n + 1
        /\ \A i \in 1..(n + 1) : all[i] = IF i = n + 1 THEN sample ELSE old[i]
    BY <1>1, <2>1
  <2>3. n > 0 => /\ old[n].bytes.in <= sample.bytes.in
                 /\ old[n].bytes.out <= sample.bytes.out
    <3>1. n > 0 => old[n] \in SampleType /\ old # <<>>
      BY <1>1
    <3>2. n > 0 => ~(sample.bytes.in < old[n].bytes.in \/ sample.bytes.out < old[n].bytes.out)
      BY <1>1, <1>5, <3>1
    <3>3. n > 0 => old[n].bytes.in \in Nat /\ old[n].bytes.out \in Nat
      BY <3>1 DEF SampleType, ByteCounts
    <3>4. sample.bytes.in \in Nat /\ sample.bytes.out \in Nat
      BY DEF SampleType, ByteCounts
    <3> QED BY <3>2, <3>3, <3>4
  <2>4. CASE Len(all) > Window
    <3>1. w = Tail(all)
      BY <1>2, <1>5, <2>1, <2>4 DEF PushSample
    <3>2. n > 1
      BY <1>3, <2>2, <2>4
    <3>3. /\ w \in Seq(SampleType) /\ Len(w) = n
          /\ \A i \in 1..n : w[i] = all[i + 1]
      BY <2>2, <3>1, <3>2
    <3>4. \A i \in 1..n : w[i] = IF i + 1 = n + 1 THEN sample ELSE old[i + 1]
      <4>1. \A i \in 1..n : i + 1 \in 1..(n + 1)
        OBVIOUS
      <4> QED BY <2>2, <3>3, <4>1
    <3>5. Slides(old, sample, w, 1)
      BY <1>1, <2>3, <3>2, <3>3, <3>4 DEF Slides
    <3> QED BY <1>1, <1>2, <3>2, <3>3, <3>5 DEF Pushed
  <2>5. CASE ~(Len(all) > Window)
    <3>1. w = all
      BY <1>2, <1>5, <2>1, <2>5 DEF PushSample
    <3>2. Slides(old, sample, w, 0)
      BY <1>1, <2>2, <2>3, <3>1 DEF Slides
    <3> QED BY <1>1, <1>2, <2>2, <3>1, <3>2 DEF Pushed
  <2> QED BY <2>4, <2>5
<1> QED BY <1>4, <1>5

\* What a step of the sampler leaves: the new windows.
Sampled ==
  /\ Pushed(networkSamples, SampleOf(networkStats, networkStats), networkSamples')
  /\ \A p \in Paths : \/ samples'[p] = <<>>
                      \/ Pushed(samples[p], SampleOf(StreamBytes(p), carried[p]), samples'[p])
  /\ samples' \in [Paths -> Seq(SampleType)]
  /\ UNCHANGED <<now, role, publisher, subscribers, inBytes, outBytes,
                 networkStats, carried>>
  /\ lastSample' = now

LEMMA SampleIs == ASSUME SamplerTypeOK, Sample PROVE Sampled
<1>1. \A p \in Paths : SampleOf(StreamBytes(p), carried[p]) \in SampleType
  BY StreamBytesType DEF SampleOf, SampleType, SamplerTypeOK
<1>2. SampleOf(networkStats, networkStats) \in SampleType
  BY DEF SampleOf, SampleType, SamplerTypeOK
<1>3. Pushed(networkSamples, SampleOf(networkStats, networkStats), networkSamples')
  BY <1>2, PushIs DEF Sample, SamplerTypeOK
<1>4. samples' = [p \in Paths |->
                   IF Listed(p)
                     THEN PushSample(samples[p], SampleOf(StreamBytes(p), carried[p]))
                     ELSE <<>>]
  BY DEF Sample
<1>5. ASSUME NEW p \in Paths
      PROVE  /\ \/ samples'[p] = <<>>
                \/ Pushed(samples[p], SampleOf(StreamBytes(p), carried[p]), samples'[p])
             /\ samples'[p] \in Seq(SampleType)
  <2>1. PICK s : s = SampleOf(StreamBytes(p), carried[p])
    OBVIOUS
  <2>2. PICK old : old = samples[p]
    OBVIOUS
  <2>3. s \in SampleType /\ old \in Seq(SampleType)
    BY <1>1, <2>1, <2>2 DEF SamplerTypeOK
  <2>4. Pushed(old, s, PushSample(old, s))
    BY <2>3, PushIs
  <2>5. samples'[p] = IF Listed(p) THEN PushSample(old, s) ELSE <<>>
    BY <1>4, <2>1, <2>2
  <2> QED BY <2>1, <2>2, <2>4, <2>5 DEF Pushed
<1>6. samples' \in [Paths -> Seq(SampleType)]
  BY <1>4, <1>5
<1> QED BY <1>3, <1>5, <1>6 DEF Sampled, Sample, sessionVars

LEMMA SamplerTypeInit == SamplerInit => SamplerTypeOK
<1> SUFFICES ASSUME SamplerInit PROVE SamplerTypeOK
  OBVIOUS
<1>1. Nothing \in ByteCounts
  BY DEF Nothing, ByteCounts
<1>2. now = 0 /\ SampleOf(Nothing, Nothing) \in SampleType
  BY <1>1 DEF SamplerInit, SampleOf, SampleType
<1> QED BY <1>1, <1>2, SamplerAssumption DEF SamplerInit, SamplerTypeOK

\* More is counted for a path.
LEMMA CarriedMore ==
  ASSUME carried \in [Paths -> ByteCounts], NEW p \in Paths, NEW n \in Nat
  PROVE  /\ carried[p].in \in Nat /\ carried[p].out \in Nat
         /\ [carried EXCEPT ![p].in = @ + n] \in [Paths -> ByteCounts]
         /\ [carried EXCEPT ![p].in = @ + n][p] =
              [in |-> carried[p].in + n, out |-> carried[p].out]
         /\ [carried EXCEPT ![p].out = @ + n] \in [Paths -> ByteCounts]
         /\ [carried EXCEPT ![p].out = @ + n][p] =
              [in |-> carried[p].in, out |-> carried[p].out + n]
<1>1. PICK bytes \in ByteCounts : bytes = carried[p]
  OBVIOUS
<1>2. PICK inMore, outMore : /\ inMore = [bytes EXCEPT !.in = @ + n]
                             /\ outMore = [bytes EXCEPT !.out = @ + n]
  OBVIOUS
<1>3. /\ inMore = [in |-> bytes.in + n, out |-> bytes.out] /\ inMore \in ByteCounts
      /\ outMore = [in |-> bytes.in, out |-> bytes.out + n] /\ outMore \in ByteCounts
      /\ bytes.in \in Nat /\ bytes.out \in Nat
  BY <1>2, MoreBytes
<1>4. /\ [carried EXCEPT ![p].in = @ + n] = [carried EXCEPT ![p] = inMore]
      /\ [carried EXCEPT ![p].out = @ + n] = [carried EXCEPT ![p] = outMore]
  BY <1>1, <1>2
<1> QED BY <1>1, <1>3, <1>4

LEMMA SamplerTypeStep ==
  ASSUME SamplerTypeOK, [SamplerNext]_samplerVars PROVE SamplerTypeOK'
<1> USE DEF SamplerTypeOK
<1>1. CASE Tick
  BY <1>1 DEF Tick, sessionVars, windowVars
<1>2. CASE TimerSample
  <2>1. Sampled /\ due' = now + Interval
    BY <1>2, SampleIs DEF TimerSample
  <2> QED BY <2>1, SamplerAssumption DEF Sampled, Pushed
<1>3. CASE ReadSample
  <2>1. Sampled /\ due' = due
    BY <1>3, SampleIs DEF ReadSample
  <2> QED BY <2>1 DEF Sampled, Pushed
<1>4. ASSUME NEW p \in Paths, FinishPublish(p) PROVE SamplerTypeOK'
  BY <1>4 DEF FinishPublish, Idle, windowVars, After, Kept
<1>5. ASSUME NEW s \in Sessions, NEW n \in Sizes, Receive(s, n) PROVE SamplerTypeOK'
  <2>1. /\ UNCHANGED <<now, role, publisher, subscribers, outBytes, networkSamples,
                       samples, lastSample, due>>
        /\ inBytes' = [inBytes EXCEPT ![s] = @ + n]
        /\ networkStats' = [networkStats EXCEPT !.in = @ + n]
        /\ carried' = [p \in Paths |->
                         IF publisher[p] = s THEN [carried[p] EXCEPT !.in = @ + n]
                         ELSE carried[p]]
        /\ n \in Nat
    BY <1>5, SamplerAssumption DEF Receive, sessionVars, windowVars
  <2>2. inBytes' \in [Sessions -> Nat]
    BY <2>1
  <2>3. networkStats' \in ByteCounts
    BY <2>1, MoreBytes
  <2>4. ASSUME NEW p \in Paths PROVE carried'[p] \in ByteCounts
    <3>1. PICK bytes \in ByteCounts : bytes = carried[p]
      OBVIOUS
    <3>2. [bytes EXCEPT !.in = @ + n] \in ByteCounts
      BY <2>1, MoreBytes
    <3> QED BY <2>1, <3>1, <3>2
  <2>5. carried' \in [Paths -> ByteCounts]
    BY <2>1, <2>4
  <2> QED BY <2>1, <2>2, <2>3, <2>5
<1>6. ASSUME NEW p \in Paths, NEW s \in Sessions, Publish(s, p) PROVE SamplerTypeOK'
  <2>1. /\ UNCHANGED <<now, subscribers, inBytes, outBytes, networkStats,
                       networkSamples, samples, lastSample, due>>
        /\ role' = [role EXCEPT ![s] = "publisher"]
        /\ publisher' = [publisher EXCEPT ![p] = s]
        /\ carried' = [carried EXCEPT ![p].in = @ + inBytes[s]]
    BY <1>6 DEF Publish, Idle, windowVars
  <2>2. carried' \in [Paths -> ByteCounts]
    BY <2>1, CarriedMore
  <2> QED BY <2>1, <2>2
<1>7. ASSUME NEW p \in Paths, NEW s \in Sessions, ResumePublish(s, p) PROVE SamplerTypeOK'
  BY <1>7 DEF ResumePublish, Idle, windowVars, After, Kept
<1>8. ASSUME NEW p \in Paths, NEW s \in Sessions, PostPlay(s, p) PROVE SamplerTypeOK'
  <2>1. /\ UNCHANGED <<now, publisher, inBytes, outBytes, networkStats,
                       networkSamples, samples, lastSample, due>>
        /\ role' = [role EXCEPT ![s] = "player"]
        /\ subscribers' = [subscribers EXCEPT ![p] = @ \cup {s}]
        /\ carried' = [carried EXCEPT ![p].out = @ + outBytes[s]]
    BY <1>8 DEF PostPlay, Idle, windowVars
  <2>2. carried' \in [Paths -> ByteCounts]
    BY <2>1, CarriedMore
  <2> QED BY <2>1, <2>2
<1>9. ASSUME NEW p \in Paths, NEW s \in Sessions, DonePlay(s, p) PROVE SamplerTypeOK'
  BY <1>9 DEF DonePlay, Idle, windowVars, After, Kept
<1>10. ASSUME NEW p \in Paths, NEW s \in Sessions, NEW n \in Sizes, SendBuffer(s, p, n)
       PROVE  SamplerTypeOK'
  <2>1. /\ UNCHANGED <<now, role, publisher, subscribers, inBytes, networkSamples,
                       samples, lastSample, due>>
        /\ outBytes' = [outBytes EXCEPT ![s] = @ + n]
        /\ networkStats' = [networkStats EXCEPT !.out = @ + n]
        /\ carried' = [carried EXCEPT ![p].out = @ + n]
        /\ n \in Nat
    BY <1>10, SamplerAssumption DEF SendBuffer, sessionVars, windowVars
  <2>2. outBytes' \in [Sessions -> Nat]
    BY <2>1
  <2>3. networkStats' \in ByteCounts
    BY <2>1, MoreBytes
  <2>4. carried' \in [Paths -> ByteCounts]
    BY <2>1, CarriedMore
  <2> QED BY <2>1, <2>2, <2>3, <2>4
<1>11. CASE UNCHANGED samplerVars
  BY <1>11 DEF samplerVars
<1> QED BY <1>1, <1>2, <1>3, <1>4, <1>5, <1>6, <1>7, <1>8, <1>9, <1>10, <1>11
        DEF SamplerNext

(***************************************************************************)
(* Samples in time.                                                        *)
(***************************************************************************)

\* The last sample of the sampler was taken at `last`, and the timer is due at
\* `next`: either the timer took that sample, or a reader did, and that an
\* interval after the one before.
InTime(w, last, next) ==
  /\ \A i \in 1..Len(w) : w[i].at <= last
  /\ \A i \in 3..Len(w) : w[i].at - w[i - 2].at >= Interval
  /\ \/ last + Interval <= next
     \/ Len(w) >= 2 => last - w[Len(w) - 1].at >= Interval

SpreadInv ==
  /\ InTime(networkSamples, lastSample, due)
  /\ \A p \in Paths : InTime(samples[p], lastSample, due)

LEMMA EmptyInTime == ASSUME NEW last, NEW next PROVE InTime(<<>>, last, next)
BY DEF InTime

LEMMA SampleTimes ==
  ASSUME NEW w \in Seq(SampleType)
  PROVE  Len(w) \in Nat /\ \A i \in 1..Len(w) : w[i].at \in Nat
<1>1. \A i \in 1..Len(w) : w[i] \in SampleType
  OBVIOUS
<1>2. \A x \in SampleType : x.at \in Nat
  BY DEF SampleType
<1> QED BY <1>1, <1>2

\* The sampler samples at t, on the timer or an interval after the last one.
Samples(last, next, t, after) ==
  /\ last \in Nat /\ next \in Nat /\ t \in Nat /\ after \in Nat /\ last <= t
  /\ (t >= next /\ after = t + Interval) \/ (t - last >= Interval)

LEMMA PushInTime ==
  ASSUME NEW old \in Seq(SampleType), NEW sample \in SampleType, NEW w,
         NEW last, NEW next, NEW after,
         InTime(old, last, next), Pushed(old, sample, w),
         Samples(last, next, sample.at, after)
  PROVE  InTime(w, sample.at, after)
<1>1. PICK n \in Nat : n = Len(old) /\ \A i \in 1..n : old[i].at \in Nat
  BY SampleTimes
<1>2. PICK m \in Nat : m = Len(w)
  BY SampleTimes DEF Pushed
<1>3. PICK d \in 0..n : Slides(old, sample, w, d)
  BY <1>1 DEF Pushed
<1>4. m = n + 1 - d
  BY <1>1, <1>2, <1>3 DEF Slides
<1>5. PICK t \in Nat : t = sample.at
  BY DEF SampleType
<1>6. /\ last \in Nat /\ next \in Nat /\ after \in Nat /\ last <= t
      /\ (t >= next /\ after = t + Interval) \/ (t - last >= Interval)
      /\ Interval \in Nat
  BY <1>5, SamplerAssumption DEF Samples
<1>7. \A i \in 1..n : old[i].at <= last
  BY <1>1 DEF InTime
<1>8. \A i \in 3..n : old[i].at - old[i - 2].at >= Interval
  BY <1>1 DEF InTime
<1>9. last + Interval <= next \/ (n >= 2 => last - old[n - 1].at >= Interval)
  BY <1>1 DEF InTime
\* The last sample is the new one, at t; the others are old ones.
<1>10. ASSUME NEW i \in 1..m, i = m PROVE w[i].at = t
  <2>1. i + d = n + 1
    BY <1>4, <1>10
  <2> QED BY <1>2, <1>1, <1>3, <1>5, <2>1 DEF Slides
<1>11. ASSUME NEW i \in 1..m, i # m
       PROVE  i + d \in 1..n /\ w[i].at = old[i + d].at /\ w[i].at \in Nat
  <2>1. i + d \in 1..n /\ i + d # n + 1
    BY <1>4, <1>11
  <2>2. w[i] = old[i + d]
    BY <1>2, <1>1, <1>3, <2>1 DEF Slides
  <2>3. old[i + d].at \in Nat
    BY <1>1, <2>1
  <2> QED BY <2>1, <2>2, <2>3
<1>12. ASSUME NEW i \in 1..m PROVE w[i].at <= t
  <2>1. CASE i = m
    BY <1>10, <2>1
  <2>2. CASE i # m
    <3>1. PICK a \in Nat : a = w[i].at
      BY <1>11, <2>2
    <3>2. a <= last
      BY <1>7, <1>11, <2>2, <3>1
    <3> QED BY <1>6, <3>1, <3>2
  <2> QED BY <2>1, <2>2
<1>13. ASSUME NEW i \in 3..m PROVE w[i].at - w[i - 2].at >= Interval
  <2>1. i - 2 \in 1..m /\ i \in 1..m /\ i - 2 # m
    OBVIOUS
  <2>2. i - 2 + d \in 1..n /\ w[i - 2].at = old[i - 2 + d].at
    BY <1>11, <2>1
  <2>3. CASE i = m
    <3>1. n - 1 \in 1..n /\ i - 2 + d = n - 1 /\ n >= 2
      BY <1>4, <2>2, <2>3
    <3>2. PICK a \in Nat : a = old[n - 1].at
      BY <1>1, <3>1
    <3>3. a <= last
      BY <1>7, <3>1, <3>2
    <3>4. last + Interval <= next \/ last - a >= Interval
      BY <1>9, <3>1, <3>2
    <3>5. t - a >= Interval
      BY <1>6, <3>3, <3>4
    <3>6. w[i].at = t
      BY <1>10, <2>1, <2>3
    <3>7. w[i - 2].at = a
      BY <2>2, <3>1, <3>2
    <3> QED BY <3>5, <3>6, <3>7
  <2>4. CASE i # m
    <3>1. i + d \in 3..n /\ i - 2 + d = i + d - 2
      BY <1>4, <2>4
    <3>2. old[i + d].at - old[i + d - 2].at >= Interval
      BY <1>8, <3>1
    <3>3. w[i].at = old[i + d].at
      BY <1>11, <2>1, <2>4
    <3>4. w[i - 2].at = old[i + d - 2].at
      BY <2>2, <3>1
    <3> QED BY <3>2, <3>3, <3>4
  <2> QED BY <2>3, <2>4
<1>14. \/ t + Interval <= after
       \/ m >= 2 => t - w[m - 1].at >= Interval
  <2>1. CASE after = t + Interval
    BY <1>6, <2>1
  <2>2. ASSUME t - last >= Interval, m >= 2 PROVE t - w[m - 1].at >= Interval
    <3>1. m - 1 \in 1..m /\ m - 1 # m
      BY <2>2
    <3>2. m - 1 + d \in 1..n /\ w[m - 1].at = old[m - 1 + d].at /\ w[m - 1].at \in Nat
      BY <1>11, <3>1
    <3>3. PICK a \in Nat : a = w[m - 1].at
      BY <3>2
    <3>4. a <= last
      BY <1>7, <3>2, <3>3
    <3>5. t - a >= Interval
      BY <1>6, <2>2, <3>4
    <3> QED BY <3>3, <3>5
  <2> QED BY <1>6, <2>1, <2>2
<1> QED BY <1>2, <1>5, <1>12, <1>13, <1>14 DEF InTime

LEMMA SpreadInit == SamplerInit => SpreadInv
<1> SUFFICES ASSUME SamplerInit PROVE SpreadInv
  OBVIOUS
<1>1. /\ networkSamples = <<SampleOf(Nothing, Nothing)>> /\ lastSample = 0
      /\ now = 0 /\ due = Interval /\ Interval \in Nat
  BY SamplerAssumption DEF SamplerInit
<1>2. SampleOf(Nothing, Nothing).at = 0
  BY <1>1 DEF SampleOf
<1>3. PICK w : w = networkSamples
  OBVIOUS
<1>4. Len(w) = 1 /\ w[1].at = 0
  BY <1>1, <1>2, <1>3
<1>5. InTime(w, 0, Interval)
  BY <1>1, <1>4 DEF InTime
<1>6. \A p \in Paths : samples[p] = <<>>
  BY DEF SamplerInit
<1> QED BY <1>1, <1>3, <1>5, <1>6, EmptyInTime DEF SpreadInv

LEMMA SampleAt ==
  ASSUME SamplerTypeOK, NEW bytes \in ByteCounts, NEW total \in ByteCounts
  PROVE  SampleOf(bytes, total) \in SampleType /\ SampleOf(bytes, total).at = now
BY DEF SampleOf, SampleType, SamplerTypeOK

LEMMA SpreadSampled ==
  ASSUME SamplerTypeOK, SpreadInv, Sampled, Samples(lastSample, due, now, due')
  PROVE  SpreadInv'
<1>1. lastSample' = now
  BY DEF Sampled
<1>2. InTime(networkSamples', now, due')
  <2>1. PICK sample : sample = SampleOf(networkStats, networkStats)
    OBVIOUS
  <2>2. networkStats \in ByteCounts
    BY DEF SamplerTypeOK
  <2>3. sample \in SampleType /\ sample.at = now
    BY <2>1, <2>2, SampleAt
  <2>4. Pushed(networkSamples, sample, networkSamples')
    BY <2>1 DEF Sampled
  <2>5. networkSamples \in Seq(SampleType) /\ InTime(networkSamples, lastSample, due)
    BY DEF SamplerTypeOK, SpreadInv
  <2>6. Samples(lastSample, due, sample.at, due')
    BY <2>3
  <2>7. InTime(networkSamples', sample.at, due')
    BY <2>3, <2>4, <2>5, <2>6, PushInTime
  <2> QED BY <2>3, <2>7
<1>3. ASSUME NEW p \in Paths PROVE InTime(samples'[p], now, due')
  <2>1. CASE samples'[p] = <<>>
    BY <2>1, EmptyInTime
  <2>2. CASE Pushed(samples[p], SampleOf(StreamBytes(p), carried[p]), samples'[p])
    <3>1. PICK sample : sample = SampleOf(StreamBytes(p), carried[p])
      OBVIOUS
    <3>2. StreamBytes(p) \in ByteCounts /\ carried[p] \in ByteCounts
      BY StreamBytesType DEF SamplerTypeOK
    <3>3. sample \in SampleType /\ sample.at = now
      BY <3>1, <3>2, SampleAt
    <3>4. Pushed(samples[p], sample, samples'[p])
      BY <2>2, <3>1
    <3>5. samples[p] \in Seq(SampleType) /\ InTime(samples[p], lastSample, due)
      BY DEF SamplerTypeOK, SpreadInv
    <3>6. Samples(lastSample, due, sample.at, due')
      BY <3>3
    <3>7. InTime(samples'[p], sample.at, due')
      BY <3>3, <3>4, <3>5, <3>6, PushInTime
    <3> QED BY <3>3, <3>7
  <2> QED BY <2>1, <2>2 DEF Sampled
<1> QED BY <1>1, <1>2, <1>3 DEF SpreadInv

LEMMA SpreadKept ==
  ASSUME SpreadInv, UNCHANGED windowVars PROVE SpreadInv'
BY DEF SpreadInv, windowVars

LEMMA SpreadStep ==
  ASSUME SamplerTypeOK, SamplerTypeOK', SpreadInv, [SamplerNext]_samplerVars
  PROVE  SpreadInv'
<1>0. /\ lastSample \in Nat /\ due \in Nat /\ now \in Nat /\ lastSample <= now
      /\ due' \in Nat
  BY DEF SamplerTypeOK
<1>1. CASE TimerSample
  <2>1. Sampled /\ due' = now + Interval /\ now >= due
    BY <1>1, SampleIs DEF TimerSample
  <2>2. Samples(lastSample, due, now, due')
    BY <1>0, <2>1 DEF Samples
  <2> QED BY <2>1, <2>2, SpreadSampled
<1>2. CASE ReadSample
  <2>1. Sampled /\ due' = due /\ now - lastSample >= Interval
    BY <1>2, SampleIs DEF ReadSample, Stale
  <2>2. Samples(lastSample, due, now, due')
    BY <1>0, <2>1 DEF Samples
  <2> QED BY <2>1, <2>2, SpreadSampled
<1>3. CASE UNCHANGED windowVars
  BY <1>3, SpreadKept
<1>4. TimerSample \/ ReadSample \/ UNCHANGED windowVars
  BY DEF SamplerNext, Tick, FinishPublish, Receive, Publish, ResumePublish, PostPlay,
         DonePlay, SendBuffer, Idle, samplerVars, windowVars
<1> QED BY <1>1, <1>2, <1>3, <1>4

LEMMA SpreadShows == SpreadInv => SamplesAreSpread
BY DEF SpreadInv, InTime, SamplesAreSpread

\* SamplesAreSpread: timers that are late and readers between them never
\* put three samples into less than an interval.
THEOREM SamplesSpread == SamplerSpec => []SamplesAreSpread
<1>1. SamplerInit => SamplerTypeOK /\ SpreadInv
  BY SamplerTypeInit, SpreadInit
<1>2. SamplerTypeOK /\ SpreadInv /\ [SamplerNext]_samplerVars => (SamplerTypeOK /\ SpreadInv)'
  BY SamplerTypeStep, SpreadStep
<1> QED BY <1>1, <1>2, SpreadShows, PTL DEF SamplerSpec

LEMMA SumAtMost ==
  ASSUME NEW S, IsFiniteSet(S), NEW count \in [S -> Nat], NEW other \in [S -> Nat],
         NEW T \in SUBSET S, \A s \in T : count[s] <= other[s]
  PROVE  Sum(count, T) <= Sum(other, T)
<1> DEFINE N == {n \in Nat : \A U \in SUBSET T :
                   Cardinality(U) <= n => Sum(count, U) <= Sum(other, U)}
<1>0. IsFiniteSet(T) /\ Cardinality(T) \in Nat
  BY SubsetSize
<1>1. 0 \in N
  <2>1. ASSUME NEW U \in SUBSET T, Cardinality(U) <= 0
        PROVE  Sum(count, U) <= Sum(other, U)
    <3>1. IsFiniteSet(U) /\ Cardinality(U) \in Nat /\ (U = {} <=> Cardinality(U) = 0)
      BY <1>0, SubsetSize
    <3>2. U = {}
      BY <2>1, <3>1
    <3>3. Sum(count, U) = 0 /\ Sum(other, U) = 0
      BY <3>1, <3>2, SumTakes
    <3> QED BY <3>3
  <2> QED BY <2>1
<1>2. ASSUME NEW i \in Nat, i \in N PROVE i + 1 \in N
  <2>1. ASSUME NEW U \in SUBSET T, Cardinality(U) <= i + 1
        PROVE  Sum(count, U) <= Sum(other, U)
    <3>1. /\ IsFiniteSet(U) /\ Cardinality(U) \in Nat
          /\ U # {} => /\ Chosen(U) \in U
                       /\ U \ {Chosen(U)} \in SUBSET T
                       /\ Cardinality(U \ {Chosen(U)}) = Cardinality(U) - 1
      BY <1>0, SubsetSize
    <3>2. U # {} => Cardinality(U \ {Chosen(U)}) <= i
      BY <2>1, <3>1
    <3>3. U # {} => Sum(count, U \ {Chosen(U)}) <= Sum(other, U \ {Chosen(U)})
      BY <1>2, <3>1, <3>2
    <3>4. U # {} => /\ count[Chosen(U)] \in Nat /\ other[Chosen(U)] \in Nat
                    /\ count[Chosen(U)] <= other[Chosen(U)]
      BY <3>1
    <3>5. U # {} => /\ Sum(count, U \ {Chosen(U)}) \in Nat
                    /\ Sum(other, U \ {Chosen(U)}) \in Nat
      <4>1. U # {} => U \ {Chosen(U)} \in SUBSET S
        BY <3>1
      <4> QED BY <4>1, SumType
    <3>6. CASE U = {}
      <4>1. Sum(count, U) = 0 /\ Sum(other, U) = 0
        BY <3>1, <3>6, SumTakes
      <4> QED BY <4>1
    <3>7. CASE U # {}
      <4>1. /\ Sum(count, U) = count[Chosen(U)] + Sum(count, U \ {Chosen(U)})
            /\ Sum(other, U) = other[Chosen(U)] + Sum(other, U \ {Chosen(U)})
        BY <3>1, <3>7, SumTakes
      <4> QED BY <3>3, <3>4, <3>5, <3>7, <4>1
    <3> QED BY <3>6, <3>7
  <2> QED BY <2>1
<1>3. Cardinality(T) \in N
  <2> HIDE DEF N
  <2>1. Nat \subseteq N
    BY <1>1, <1>2, Climb
  <2> QED BY <1>0, <2>1
<1> QED BY <1>0, <1>3

(***************************************************************************)
(* Rates that are carried.                                                 *)
(***************************************************************************)

\* Of two samples of a window: neither the time nor a counter goes back, and
\* the counters gain no more than was carried.
Follows(x, y) ==
  /\ x.at <= y.at
  /\ x.bytes.in <= y.bytes.in /\ x.bytes.out <= y.bytes.out
  /\ y.bytes.in - x.bytes.in <= y.carried.in - x.carried.in
  /\ y.bytes.out - x.bytes.out <= y.carried.out - x.carried.out

\* A sample and the counters at t, which may have decreased since.
Reaches(x, t, bytes, total) ==
  /\ x.at <= t
  /\ bytes.in - x.bytes.in <= total.in - x.carried.in
  /\ bytes.out - x.bytes.out <= total.out - x.carried.out

Fair(w, t, bytes, total) ==
  /\ \A i, j \in 1..Len(w) : i < j => Follows(w[i], w[j])
  /\ \A i \in 1..Len(w) : Reaches(w[i], t, bytes, total)

\* A session publishes one path or plays one, and its role says which.
Roles ==
  /\ \A p \in Paths : publisher[p] # NoOne => role[publisher[p]] = "publisher"
  /\ \A p, q \in Paths : publisher[p] # NoOne /\ publisher[p] = publisher[q] => p = q
  /\ \A p \in Paths : \A s \in subscribers[p] : role[s] = "player"
  /\ \A p, q \in Paths : \A s \in subscribers[p] : s \in subscribers[q] => p = q

FairInv ==
  /\ Fair(networkSamples, now, networkStats, networkStats)
  /\ \A p \in Paths : Fair(samples[p], now, StreamBytes(p), carried[p])

LEMMA SampleParts ==
  ASSUME NEW x \in SampleType
  PROVE  /\ x.at \in Nat /\ x.bytes.in \in Nat /\ x.bytes.out \in Nat
         /\ x.carried.in \in Nat /\ x.carried.out \in Nat
BY DEF SampleType, ByteCounts

LEMMA WindowParts ==
  ASSUME NEW w \in Seq(SampleType)
  PROVE  Len(w) \in Nat /\ \A i \in 1..Len(w) : w[i] \in SampleType
OBVIOUS

\* Counters that go on by no more than is carried, or decrease.
Gains(bytes, total, then, sum) ==
  /\ then.in - bytes.in <= sum.in - total.in
  /\ then.out - bytes.out <= sum.out - total.out

LEMMA FairGains ==
  ASSUME NEW w \in Seq(SampleType), NEW t \in Nat, NEW u \in Nat, t <= u,
         NEW bytes \in ByteCounts, NEW total \in ByteCounts,
         NEW then \in ByteCounts, NEW sum \in ByteCounts,
         Fair(w, t, bytes, total), Gains(bytes, total, then, sum)
  PROVE  Fair(w, u, then, sum)
<1>1. ASSUME NEW x \in SampleType, Reaches(x, t, bytes, total)
      PROVE  Reaches(x, u, then, sum)
  <2>1. /\ x.at \in Nat /\ x.bytes.in \in Nat /\ x.bytes.out \in Nat
        /\ x.carried.in \in Nat /\ x.carried.out \in Nat
    BY SampleParts
  <2>2. /\ bytes.in \in Nat /\ bytes.out \in Nat /\ total.in \in Nat /\ total.out \in Nat
        /\ then.in \in Nat /\ then.out \in Nat /\ sum.in \in Nat /\ sum.out \in Nat
    BY DEF ByteCounts
  <2>3. x.at <= u
    <3>1. x.at <= t
      BY <1>1 DEF Reaches
    <3> QED BY <2>1, <3>1
  <2>4. then.in - x.bytes.in <= sum.in - x.carried.in
    <3>1. PICK a \in Nat, b \in Nat, c \in Nat :
            a = x.bytes.in /\ b = bytes.in /\ c = then.in
      BY <2>1, <2>2
    <3>2. PICK i \in Nat, j \in Nat, k \in Nat :
            i = x.carried.in /\ j = total.in /\ k = sum.in
      BY <2>1, <2>2
    <3>3. b - a <= j - i
      BY <1>1, <3>1, <3>2 DEF Reaches
    <3>4. c - b <= k - j
      BY <3>1, <3>2 DEF Gains
    <3>5. c - a <= k - i
      BY <3>3, <3>4
    <3> QED BY <3>1, <3>2, <3>5
  <2>5. then.out - x.bytes.out <= sum.out - x.carried.out
    <3>1. PICK a \in Nat, b \in Nat, c \in Nat :
            a = x.bytes.out /\ b = bytes.out /\ c = then.out
      BY <2>1, <2>2
    <3>2. PICK i \in Nat, j \in Nat, k \in Nat :
            i = x.carried.out /\ j = total.out /\ k = sum.out
      BY <2>1, <2>2
    <3>3. b - a <= j - i
      BY <1>1, <3>1, <3>2 DEF Reaches
    <3>4. c - b <= k - j
      BY <3>1, <3>2 DEF Gains
    <3>5. c - a <= k - i
      BY <3>3, <3>4
    <3> QED BY <3>1, <3>2, <3>5
  <2> QED BY <2>3, <2>4, <2>5 DEF Reaches
<1>2. \A i \in 1..Len(w) : w[i] \in SampleType
  BY WindowParts
<1> QED BY <1>1, <1>2 DEF Fair

LEMMA ReachedFollows ==
  ASSUME NEW x \in SampleType, NEW sample \in SampleType,
         Reaches(x, sample.at, sample.bytes, sample.carried),
         x.bytes.in <= sample.bytes.in, x.bytes.out <= sample.bytes.out
  PROVE  Follows(x, sample)
BY SampleParts DEF Reaches, Follows

LEMMA ReachesItself ==
  ASSUME NEW x \in SampleType PROVE Reaches(x, x.at, x.bytes, x.carried)
BY SampleParts DEF Reaches

LEMMA FairPush ==
  ASSUME NEW old \in Seq(SampleType), NEW sample \in SampleType, NEW w,
         Pushed(old, sample, w), Fair(old, sample.at, sample.bytes, sample.carried)
  PROVE  Fair(w, sample.at, sample.bytes, sample.carried)
<1>1. PICK n \in Nat : n = Len(old) /\ \A i \in 1..n : old[i] \in SampleType
  BY WindowParts
<1>2. PICK m \in Nat : m = Len(w)
  BY WindowParts DEF Pushed
<1>3. PICK d \in 0..n : Slides(old, sample, w, d)
  BY <1>1 DEF Pushed
<1>4. /\ m = n + 1 - d
      /\ \A i \in 1..m : w[i] = IF i + d = n + 1 THEN sample ELSE old[i + d]
      /\ d < n => /\ old[n].bytes.in <= sample.bytes.in
                  /\ old[n].bytes.out <= sample.bytes.out
  BY <1>1, <1>2, <1>3 DEF Slides
<1>5. /\ \A i, j \in 1..n : i < j => Follows(old[i], old[j])
      /\ \A i \in 1..n : Reaches(old[i], sample.at, sample.bytes, sample.carried)
  BY <1>1 DEF Fair
<1>6. ASSUME NEW i \in 1..m
      PROVE  \/ i = m /\ w[i] = sample
             \/ i < m /\ i + d \in 1..n /\ d < n /\ w[i] = old[i + d]
  BY <1>4
<1>7. ASSUME NEW i \in 1..m
      PROVE  Reaches(w[i], sample.at, sample.bytes, sample.carried)
  BY <1>5, <1>6, ReachesItself
<1>8. ASSUME NEW i \in 1..m, NEW j \in 1..m, i < j PROVE Follows(w[i], w[j])
  <2>1. i < m /\ i + d \in 1..n /\ d < n /\ w[i] = old[i + d]
    BY <1>6, <1>8
  <2>2. CASE j = m /\ w[j] = sample
    <3>1. PICK x \in SampleType : x = w[i]
      BY <1>1, <2>1
    <3>2. x.bytes.in <= sample.bytes.in /\ x.bytes.out <= sample.bytes.out
      <4>1. old[n] \in SampleType /\ n \in 1..n /\ i + d <= n
        BY <1>1, <2>1
      <4>2. x = old[n] \/ Follows(x, old[n])
        BY <1>5, <2>1, <3>1, <4>1
      <4>3. x.bytes.in <= old[n].bytes.in /\ x.bytes.out <= old[n].bytes.out
        <5>1. x.bytes.in \in Nat /\ x.bytes.out \in Nat
          BY SampleParts
        <5> QED BY <4>2, <5>1 DEF Follows
      <4>4. old[n].bytes.in <= sample.bytes.in /\ old[n].bytes.out <= sample.bytes.out
        BY <1>4, <2>1
      <4>5. /\ x.bytes.in \in Nat /\ x.bytes.out \in Nat
            /\ old[n].bytes.in \in Nat /\ old[n].bytes.out \in Nat
            /\ sample.bytes.in \in Nat /\ sample.bytes.out \in Nat
        BY <4>1, SampleParts
      <4> QED BY <4>3, <4>4, <4>5
    <3>3. Reaches(x, sample.at, sample.bytes, sample.carried)
      BY <1>7, <3>1
    <3> QED BY <2>2, <3>1, <3>2, <3>3, ReachedFollows
  <2>3. CASE j < m /\ j + d \in 1..n /\ d < n /\ w[j] = old[j + d]
    <3>1. i + d < j + d
      BY <1>8
    <3> QED BY <1>5, <2>1, <2>3, <3>1
  <2> QED BY <1>6, <2>2, <2>3
<1> QED BY <1>2, <1>7, <1>8 DEF Fair

(***************************************************************************)
(* What rates show of a window.                                            *)
(***************************************************************************)

LEMMA Quotient ==
  ASSUME NEW a \in Nat, NEW b \in Nat, b > 0
  PROVE  Rounded(a, b) \in Nat /\ 2 * Rounded(a, b) * b <= 2 * a + b
<1>1. PICK q \in Int : q = Rounded(a, b)
  BY DEF Rounded
<1>2. q * (2 * b) <= 2 * a + b /\ q >= 0
  BY <1>1 DEF Rounded
<1>3. 2 * q * b = q * (2 * b)
  OBVIOUS
<1> QED BY <1>1, <1>2, <1>3

LEMMA ShownBytes ==
  ASSUME NEW x \in Nat, NEW y \in Nat, x <= y, NEW ticks \in Nat, ticks > 0
  PROVE  LET rate == Rounded((y - x) * Second, ticks)
         IN  rate \in Nat /\ 2 * rate * ticks <= 2 * ((y - x) * Second) + ticks
<1>1. (y - x) * Second \in Nat
  BY SamplerAssumption
<1> QED BY <1>1, Quotient

\* The rate of one direction in a window of ticks.
Shown(rate, bytes, ticks) ==
  rate >= 0 /\ 2 * rate * ticks <= 2 * bytes * Second + ticks

LEMMA LessOfLess ==
  ASSUME NEW a \in Nat, NEW b \in Nat, a <= b, NEW k \in Nat
  PROVE  a * k \in Nat /\ b * k \in Nat /\ a * k <= b * k
<1>1. PICK c \in Nat : b = a + c
  <2>1. b - a \in Nat /\ b = a + (b - a)
    OBVIOUS
  <2> QED BY <2>1
<1>2. b * k = a * k + c * k
  BY <1>1
<1>3. a * k \in Nat /\ c * k \in Nat
  OBVIOUS
<1> QED BY <1>2, <1>3

LEMMA RateShown ==
  ASSUME NEW x \in Nat, NEW y \in Nat, x <= y, NEW c \in Nat, NEW d \in Nat,
         y - x <= d - c, NEW ticks \in Nat
  PROVE  /\ Shown(0, d - c, ticks)
         /\ ticks > 0 => Shown(Rounded((y - x) * Second, ticks), d - c, ticks)
<1>1. PICK a \in Nat : a = y - x
  OBVIOUS
<1>2. PICK b \in Nat : b = d - c /\ a <= b
  BY <1>1
<1>3. PICK k \in Nat : k = Second
  BY SamplerAssumption
<1>4. a * k \in Nat /\ b * k \in Nat /\ a * k <= b * k
  BY <1>2, LessOfLess
<1>5. 2 * b * k = 2 * (b * k)
  OBVIOUS
<1>6. Shown(0, b, ticks)
  <2>1. 2 * 0 * ticks = 0
    OBVIOUS
  <2>2. 0 <= 2 * (b * k) + ticks
    BY <1>4
  <2> QED BY <1>3, <1>5, <2>1, <2>2 DEF Shown
<1>7. ASSUME ticks > 0 PROVE Shown(Rounded(a * k, ticks), b, ticks)
  <2>1. PICK r : r = Rounded(a * k, ticks)
    OBVIOUS
  <2>2. r \in Nat /\ 2 * r * ticks <= 2 * (a * k) + ticks
    BY <1>4, <1>7, <2>1, Quotient
  <2>3. 2 * r * ticks \in Nat
    BY <2>2
  <2>4. 2 * r * ticks <= 2 * (b * k) + ticks
    BY <1>4, <2>2, <2>3
  <2> QED BY <1>3, <1>5, <2>1, <2>2, <2>4 DEF Shown
<1> QED BY <1>1, <1>2, <1>3, <1>6, <1>7

LEMMA FairShows ==
  ASSUME NEW w \in Seq(SampleType), NEW t, NEW bytes, NEW total, Fair(w, t, bytes, total)
  PROVE  AtMostCarried(w)
<1> SUFFICES ASSUME Len(w) >= 2
             PROVE  LET ticks == w[Len(w)].at - w[1].at
                    IN  /\ Shown(RatesOf(w).in, w[Len(w)].carried.in - w[1].carried.in, ticks)
                        /\ Shown(RatesOf(w).out, w[Len(w)].carried.out - w[1].carried.out, ticks)
  BY DEF AtMostCarried, Shown
<1>1. PICK x \in SampleType : x = w[1]
  OBVIOUS
<1>2. PICK y \in SampleType : y = w[Len(w)]
  OBVIOUS
<1>3. Follows(x, y)
  BY <1>1, <1>2 DEF Fair
<1>4. /\ x.at \in Nat /\ x.bytes.in \in Nat /\ x.bytes.out \in Nat
      /\ x.carried.in \in Nat /\ x.carried.out \in Nat
      /\ y.at \in Nat /\ y.bytes.in \in Nat /\ y.bytes.out \in Nat
      /\ y.carried.in \in Nat /\ y.carried.out \in Nat
  BY SampleParts
<1>5. /\ x.at <= y.at
      /\ x.bytes.in <= y.bytes.in /\ x.bytes.out <= y.bytes.out
      /\ y.bytes.in - x.bytes.in <= y.carried.in - x.carried.in
      /\ y.bytes.out - x.bytes.out <= y.carried.out - x.carried.out
  BY <1>3 DEF Follows
<1>6. PICK ticks \in Nat : ticks = y.at - x.at
  <2>1. PICK a \in Nat, b \in Nat : a = x.at /\ b = y.at /\ a <= b
    BY <1>4, <1>5
  <2>2. b - a \in Nat
    BY <2>1
  <2> QED BY <2>1, <2>2
<1>7. /\ Shown(0, y.carried.in - x.carried.in, ticks)
      /\ ticks > 0 => Shown(Rounded((y.bytes.in - x.bytes.in) * Second, ticks),
                            y.carried.in - x.carried.in, ticks)
  BY <1>4, <1>5, RateShown
<1>8. /\ Shown(0, y.carried.out - x.carried.out, ticks)
      /\ ticks > 0 => Shown(Rounded((y.bytes.out - x.bytes.out) * Second, ticks),
                            y.carried.out - x.carried.out, ticks)
  BY <1>4, <1>5, RateShown
<1>9. PICK rates : rates = RatesOf(w)
  OBVIOUS
<1>10. CASE y.at <= x.at
  <2>1. rates = Nothing
    BY <1>1, <1>2, <1>9, <1>10 DEF RatesOf
  <2>2. rates.in = 0 /\ rates.out = 0
    BY <2>1 DEF Nothing
  <2> QED BY <1>1, <1>2, <1>6, <1>7, <1>8, <1>9, <2>2
<1>11. CASE ~(y.at <= x.at)
  <2>1. ~(Len(w) < 2)
    OBVIOUS
  <2>2. rates = [in  |-> Rounded((y.bytes.in - x.bytes.in) * Second, y.at - x.at),
                 out |-> Rounded((y.bytes.out - x.bytes.out) * Second, y.at - x.at)]
    BY <1>1, <1>2, <1>9, <1>11, <2>1 DEF RatesOf
  <2>3. /\ rates.in = Rounded((y.bytes.in - x.bytes.in) * Second, ticks)
        /\ rates.out = Rounded((y.bytes.out - x.bytes.out) * Second, ticks)
    BY <1>6, <2>2
  <2>4. ticks > 0
    BY <1>4, <1>6, <1>11
  <2>5. /\ Shown(rates.in, y.carried.in - x.carried.in, ticks)
        /\ Shown(rates.out, y.carried.out - x.carried.out, ticks)
    BY <1>7, <1>8, <2>3, <2>4
  <2> QED BY <1>1, <1>2, <1>6, <1>9, <2>5
<1> QED BY <1>10, <1>11

LEMMA FairRates == ASSUME SamplerTypeOK, FairInv PROVE RatesAreCarried
<1>1. AtMostCarried(networkSamples)
  <2>1. networkSamples \in Seq(SampleType)
    BY DEF SamplerTypeOK
  <2>2. Fair(networkSamples, now, networkStats, networkStats)
    BY DEF FairInv
  <2> QED BY <2>1, <2>2, FairShows
<1>2. ASSUME NEW p \in Paths PROVE AtMostCarried(samples[p])
  <2>1. samples[p] \in Seq(SampleType)
    BY DEF SamplerTypeOK
  <2>2. Fair(samples[p], now, StreamBytes(p), carried[p])
    BY DEF FairInv
  <2> QED BY <2>1, <2>2, FairShows
<1> QED BY <1>1, <1>2 DEF RatesAreCarried

(***************************************************************************)
(* Roles.                                                                  *)
(***************************************************************************)

LEMMA RolesInit == SamplerInit => Roles
BY DEF SamplerInit, Roles

LEMMA RolesStep ==
  ASSUME SamplerTypeOK, Roles, [SamplerNext]_samplerVars PROVE Roles'
<1>1. CASE UNCHANGED sessionVars
  BY <1>1 DEF Roles, sessionVars
<1>2. ASSUME NEW p \in Paths, FinishPublish(p) PROVE Roles'
  <2>1. /\ publisher[p] # NoOne /\ subscribers' = subscribers
        /\ publisher' = [publisher EXCEPT ![p] = NoOne]
        /\ role' = [role EXCEPT ![publisher[p]] = After(publisher[p])]
    BY <1>2 DEF FinishPublish
  <2> QED BY <2>1 DEF SamplerTypeOK, Roles
<1>3. ASSUME NEW p \in Paths, NEW s \in Sessions, Publish(s, p) PROVE Roles'
  <2>1. /\ role[s] = "new" /\ subscribers' = subscribers
        /\ publisher' = [publisher EXCEPT ![p] = s]
        /\ role' = [role EXCEPT ![s] = "publisher"]
    BY <1>3 DEF Publish
  <2> QED BY <2>1 DEF SamplerTypeOK, Roles
<1>4. ASSUME NEW p \in Paths, NEW s \in Sessions, ResumePublish(s, p) PROVE Roles'
  <2>1. /\ role[s] = "new" /\ subscribers' = subscribers /\ publisher[p] # NoOne
        /\ publisher' = [publisher EXCEPT ![p] = s]
        /\ role' = [role EXCEPT ![s] = "publisher",
                                ![publisher[p]] = After(publisher[p])]
    BY <1>4 DEF ResumePublish
  <2>2. role[publisher[p]] = "publisher" /\ publisher[p] # s
    BY <2>1 DEF Roles
  <2> QED BY <2>1, <2>2 DEF SamplerTypeOK, Roles
<1>5. ASSUME NEW p \in Paths, NEW s \in Sessions, PostPlay(s, p) PROVE Roles'
  <2>1. /\ role[s] = "new" /\ publisher' = publisher
        /\ subscribers' = [subscribers EXCEPT ![p] = @ \cup {s}]
        /\ role' = [role EXCEPT ![s] = "player"]
    BY <1>5 DEF PostPlay
  <2> QED BY <2>1 DEF SamplerTypeOK, Roles
<1>6. ASSUME NEW p \in Paths, NEW s \in Sessions, DonePlay(s, p) PROVE Roles'
  <2>1. /\ s \in subscribers[p] /\ publisher' = publisher
        /\ subscribers' = [subscribers EXCEPT ![p] = @ \ {s}]
        /\ role' = [role EXCEPT ![s] = After(s)]
    BY <1>6 DEF DonePlay
  <2> QED BY <2>1 DEF SamplerTypeOK, Roles
<1>7. CASE Tick \/ TimerSample \/ ReadSample \/ UNCHANGED samplerVars
  <2>1. UNCHANGED sessionVars
    BY <1>7 DEF Tick, TimerSample, ReadSample, Sample, samplerVars, sessionVars
  <2> QED BY <1>1, <2>1
<1>8. ASSUME NEW s \in Sessions, NEW n \in Sizes, Receive(s, n) PROVE Roles'
  BY <1>1, <1>8 DEF Receive
<1>9. ASSUME NEW p \in Paths, NEW s \in Sessions, NEW n \in Sizes, SendBuffer(s, p, n)
      PROVE  Roles'
  BY <1>1, <1>9 DEF SendBuffer
<1> QED BY <1>2, <1>3, <1>4, <1>5, <1>6, <1>7, <1>8, <1>9 DEF SamplerNext

(***************************************************************************)
(* What the steps do to the counters of a stream.                          *)
(***************************************************************************)

InOf(who, count, p) == IF who[p] = NoOne THEN 0 ELSE count[who[p]]

LEMMA BytesNow ==
  ASSUME NEW p
  PROVE  StreamBytes(p) = [in |-> InOf(publisher, inBytes, p),
                           out |-> Sum(outBytes, subscribers[p])]
BY StreamSum DEF StreamsBytes, IsStreamBytes, InOf

LEMMA BytesThen ==
  ASSUME NEW p
  PROVE  StreamBytes(p)' = [in |-> InOf(publisher', inBytes', p),
                            out |-> Sum(outBytes', subscribers'[p])]
BY StreamSumNext DEF StreamsBytes, IsStreamBytes, InOf

LEMMA StreamBytesTypeNext ==
  ASSUME SamplerTypeOK', NEW p \in Paths PROVE StreamBytes(p)' \in ByteCounts
<1>1. Sum(outBytes', subscribers'[p]) \in Nat
  <2>1. subscribers'[p] \in SUBSET Sessions /\ outBytes' \in [Sessions -> Nat]
    BY DEF SamplerTypeOK
  <2>2. IsFiniteSet(Sessions)
    BY SamplerAssumption
  <2> QED BY <2>1, <2>2, SumType
<1>2. InOf(publisher', inBytes', p) \in Nat
  BY DEF SamplerTypeOK, InOf
<1> QED BY <1>1, <1>2, BytesThen DEF ByteCounts

\* The stream of p gains no more than what is carried on p.
Earns(p) == Gains(StreamBytes(p), carried[p], StreamBytes(p)', carried'[p])

\* No stream shows more than it did, and nothing is carried.
Fewer(p) ==
  /\ InOf(publisher', inBytes', p) <= InOf(publisher, inBytes, p)
  /\ Sum(outBytes', subscribers'[p]) <= Sum(outBytes, subscribers[p])
  /\ carried'[p] = carried[p]

LEMMA CountsAre ==
  ASSUME SamplerTypeOK, NEW p \in Paths
  PROVE  /\ InOf(publisher, inBytes, p) \in Nat
         /\ Sum(outBytes, subscribers[p]) \in Nat
         /\ carried[p] \in ByteCounts /\ carried[p].in \in Nat /\ carried[p].out \in Nat
<1>1. StreamBytes(p) \in ByteCounts
  BY StreamBytesType
<1>2. StreamBytes(p).in \in Nat /\ StreamBytes(p).out \in Nat
  BY <1>1 DEF ByteCounts
<1>3. carried[p] \in ByteCounts
  BY DEF SamplerTypeOK
<1>4. carried[p].in \in Nat /\ carried[p].out \in Nat
  BY <1>3 DEF ByteCounts
<1> QED BY <1>2, <1>3, <1>4, BytesNow

LEMMA CountsAreNext ==
  ASSUME SamplerTypeOK', NEW p \in Paths
  PROVE  /\ InOf(publisher', inBytes', p) \in Nat
         /\ Sum(outBytes', subscribers'[p]) \in Nat
<1>1. StreamBytes(p)' \in ByteCounts
  BY StreamBytesTypeNext
<1>2. StreamBytes(p)'.in \in Nat /\ StreamBytes(p)'.out \in Nat
  BY <1>1 DEF ByteCounts
<1> QED BY <1>2, BytesThen

LEMMA FewerEarns ==
  ASSUME SamplerTypeOK, SamplerTypeOK', NEW p \in Paths, Fewer(p) PROVE Earns(p)
<1>1. PICK a \in Nat, b \in Nat : /\ a = InOf(publisher, inBytes, p)
                                  /\ b = Sum(outBytes, subscribers[p])
  BY CountsAre
<1>2. PICK c \in Nat, d \in Nat : /\ c = InOf(publisher', inBytes', p)
                                  /\ d = Sum(outBytes', subscribers'[p])
  BY CountsAreNext
<1>3. PICK i \in Nat, o \in Nat : i = carried[p].in /\ o = carried[p].out
  BY CountsAre
<1>4. StreamBytes(p).in = a /\ StreamBytes(p).out = b
  BY <1>1, BytesNow
<1>5. StreamBytes(p)'.in = c /\ StreamBytes(p)'.out = d
  BY <1>2, BytesThen
<1>6. c <= a /\ d <= b /\ carried'[p].in = i /\ carried'[p].out = o
  BY <1>1, <1>2, <1>3 DEF Fewer
<1>7. c - a <= i - i /\ d - b <= o - o
  BY <1>6
<1> QED BY <1>3, <1>4, <1>5, <1>6, <1>7 DEF Earns, Gains

\* The players of p are the same, and none of them counts more.
LEMMA SameOrLess ==
  ASSUME SamplerTypeOK, SamplerTypeOK', NEW p \in Paths,
         subscribers'[p] = subscribers[p],
         \A s \in subscribers[p] : outBytes'[s] <= outBytes[s]
  PROVE  Sum(outBytes', subscribers'[p]) <= Sum(outBytes, subscribers[p])
<1>1. /\ subscribers[p] \in SUBSET Sessions
      /\ outBytes \in [Sessions -> Nat] /\ outBytes' \in [Sessions -> Nat]
  BY DEF SamplerTypeOK
<1>2. IsFiniteSet(Sessions)
  BY SamplerAssumption
<1>3. Sum(outBytes', subscribers[p]) <= Sum(outBytes, subscribers[p])
  BY <1>1, <1>2, SumAtMost
<1> QED BY <1>3

LEMMA KeptIsLess ==
  ASSUME NEW count \in [Sessions -> Nat], NEW s \in Sessions
  PROVE  /\ Kept(count, s) \in [Sessions -> Nat]
         /\ \A x \in Sessions : Kept(count, s)[x] <= count[x]
BY DEF Kept

LEMMA FinishFewer ==
  ASSUME SamplerTypeOK, SamplerTypeOK', NEW q \in Paths, FinishPublish(q),
         NEW p \in Paths
  PROVE  Fewer(p)
<1>1. /\ publisher[q] # NoOne /\ subscribers' = subscribers /\ carried' = carried
      /\ publisher' = [publisher EXCEPT ![q] = NoOne]
      /\ inBytes' = Kept(inBytes, publisher[q])
      /\ outBytes' = Kept(outBytes, publisher[q])
  BY DEF FinishPublish, Idle
<1>2. publisher[q] \in Sessions /\ publisher \in [Paths -> Sessions \cup {NoOne}]
  BY <1>1 DEF SamplerTypeOK
<1>3. \A x \in Sessions : inBytes'[x] <= inBytes[x] /\ outBytes'[x] <= outBytes[x]
  BY <1>1, <1>2, KeptIsLess DEF SamplerTypeOK
<1>4. InOf(publisher', inBytes', p) <= InOf(publisher, inBytes, p)
  <2>1. CASE publisher'[p] = NoOne
    BY <2>1, CountsAre DEF InOf
  <2>2. CASE publisher'[p] # NoOne
    <3>1. publisher'[p] = publisher[p] /\ publisher[p] \in Sessions
      BY <1>1, <1>2, <2>2
    <3> QED BY <1>3, <2>2, <3>1 DEF InOf
  <2> QED BY <2>1, <2>2
<1>5. \A s \in subscribers[p] : outBytes'[s] <= outBytes[s]
  BY <1>3 DEF SamplerTypeOK
<1> QED BY <1>1, <1>4, <1>5, SameOrLess DEF Fewer

LEMMA ResumeFewer ==
  ASSUME SamplerTypeOK, SamplerTypeOK', Roles,
         NEW q \in Paths, NEW s \in Sessions, ResumePublish(s, q), NEW p \in Paths
  PROVE  Fewer(p)
<1>1. PICK prev : prev = publisher[q]
  OBVIOUS
<1>2. /\ role[s] = "new" /\ prev # NoOne
      /\ subscribers' = subscribers /\ carried' = carried
      /\ publisher' = [publisher EXCEPT ![q] = s]
      /\ inBytes' = [Kept(inBytes, prev) EXCEPT ![s] = inBytes[prev]]
      /\ outBytes' = [Kept(outBytes, prev) EXCEPT ![s] = outBytes[prev]]
  BY <1>1 DEF ResumePublish, Idle
<1>3. prev \in Sessions /\ publisher \in [Paths -> Sessions \cup {NoOne}] /\ prev # s
  BY <1>1, <1>2 DEF SamplerTypeOK, Roles
<1>4. /\ Kept(inBytes, prev) \in [Sessions -> Nat]
      /\ Kept(outBytes, prev) \in [Sessions -> Nat]
      /\ \A x \in Sessions : /\ Kept(inBytes, prev)[x] <= inBytes[x]
                             /\ Kept(outBytes, prev)[x] <= outBytes[x]
  BY <1>3, KeptIsLess DEF SamplerTypeOK
<1>5. \A x \in Sessions : x # s => inBytes'[x] <= inBytes[x] /\ outBytes'[x] <= outBytes[x]
  BY <1>2, <1>4
<1>6. InOf(publisher', inBytes', p) <= InOf(publisher, inBytes, p)
  <2>1. CASE p = q
    <3>1. publisher'[p] = s /\ inBytes'[s] = inBytes[prev] /\ s # NoOne
      BY <1>2, <1>3, <1>4, <2>1, SamplerAssumption
    <3>2. inBytes[prev] \in Nat
      BY <1>3 DEF SamplerTypeOK
    <3> QED BY <1>1, <1>2, <2>1, <3>1, <3>2 DEF InOf
  <2>2. CASE p # q /\ publisher[p] # NoOne
    <3>1. publisher'[p] = publisher[p] /\ publisher[p] \in Sessions
      BY <1>2, <1>3, <2>2
    <3>2. publisher[p] # s
      BY <1>2, <2>2 DEF Roles
    <3> QED BY <1>5, <2>2, <3>1, <3>2 DEF InOf
  <2>3. CASE p # q /\ publisher[p] = NoOne
    <3>1. publisher'[p] = NoOne
      BY <1>2, <1>3, <2>3
    <3> QED BY <2>3, <3>1 DEF InOf
  <2> QED BY <2>1, <2>2, <2>3
<1>7. \A x \in subscribers[p] : outBytes'[x] <= outBytes[x]
  BY <1>2, <1>5 DEF SamplerTypeOK, Roles
<1> QED BY <1>2, <1>6, <1>7, SameOrLess DEF Fewer

LEMMA EarnedIs ==
  ASSUME NEW p,
         InOf(publisher', inBytes', p) - InOf(publisher, inBytes, p) <=
           carried'[p].in - carried[p].in,
         Sum(outBytes', subscribers'[p]) - Sum(outBytes, subscribers[p]) <=
           carried'[p].out - carried[p].out
  PROVE  Earns(p)
BY BytesNow, BytesThen DEF Earns, Gains

\* What a session has counted by then comes with it.
LEMMA PublishEarns ==
  ASSUME SamplerTypeOK, SamplerTypeOK', NEW q \in Paths, NEW s \in Sessions,
         Publish(s, q), NEW p \in Paths
  PROVE  Earns(p)
<1>1. /\ publisher[q] = NoOne /\ subscribers' = subscribers
      /\ publisher' = [publisher EXCEPT ![q] = s]
      /\ inBytes' = inBytes /\ outBytes' = outBytes
      /\ carried' = [carried EXCEPT ![q].in = @ + inBytes[s]]
  BY DEF Publish, Idle
<1>2. PICK b \in Nat : b = Sum(outBytes, subscribers[p])
  BY CountsAre
<1>3. Sum(outBytes', subscribers'[p]) = b
  BY <1>1, <1>2
<1>4. CASE p = q
  <2>1. PICK n \in Nat : n = inBytes[s]
    BY DEF SamplerTypeOK
  <2>2. PICK i \in Nat, o \in Nat : i = carried[p].in /\ o = carried[p].out
    BY CountsAre
  <2>3. carried'[p].in = i + n /\ carried'[p].out = o
    <3>1. carried \in [Paths -> ByteCounts]
      BY DEF SamplerTypeOK
    <3>2. PICK after : after = [carried EXCEPT ![p].in = @ + n]
      OBVIOUS
    <3>3. after[p] = [in |-> carried[p].in + n, out |-> carried[p].out]
      BY <3>1, <3>2, CarriedMore
    <3>4. carried' = after
      BY <1>1, <1>4, <2>1, <3>2
    <3> QED BY <2>2, <3>3, <3>4
  <2>4. InOf(publisher, inBytes, p) = 0
    BY <1>1, <1>4 DEF InOf
  <2>5. InOf(publisher', inBytes', p) = n
    <3>1. publisher'[p] = s /\ s # NoOne
      BY <1>1, <1>4, SamplerAssumption DEF SamplerTypeOK
    <3> QED BY <1>1, <2>1, <3>1 DEF InOf
  <2>6. n - 0 <= (i + n) - i /\ b - b <= o - o
    OBVIOUS
  <2> QED BY <1>2, <1>3, <2>2, <2>3, <2>4, <2>5, <2>6, EarnedIs
<1>5. CASE p # q
  <2>1. publisher'[p] = publisher[p] /\ carried'[p] = carried[p]
    BY <1>1, <1>5 DEF SamplerTypeOK
  <2>2. InOf(publisher', inBytes', p) = InOf(publisher, inBytes, p)
    BY <1>1, <2>1 DEF InOf
  <2>3. Fewer(p)
    BY <1>2, <1>3, <2>1, <2>2, CountsAre DEF Fewer
  <2> QED BY <2>3, FewerEarns
<1> QED BY <1>4, <1>5

LEMMA PlayEarns ==
  ASSUME SamplerTypeOK, SamplerTypeOK', Roles, NEW q \in Paths, NEW s \in Sessions,
         PostPlay(s, q), NEW p \in Paths
  PROVE  Earns(p)
<1>1. /\ publisher' = publisher /\ role[s] = "new"
      /\ subscribers' = [subscribers EXCEPT ![q] = @ \cup {s}]
      /\ inBytes' = inBytes /\ outBytes' = outBytes
      /\ carried' = [carried EXCEPT ![q].out = @ + outBytes[s]]
  BY DEF PostPlay, Idle
<1>2. PICK a \in Nat : /\ a = InOf(publisher, inBytes, p)
                       /\ a = InOf(publisher', inBytes', p)
  BY <1>1, CountsAre DEF InOf
<1>3. PICK b \in Nat : b = Sum(outBytes, subscribers[p])
  BY CountsAre
<1>4. CASE p = q
  <2>1. PICK n \in Nat : n = outBytes[s]
    BY DEF SamplerTypeOK
  <2>2. PICK i \in Nat, o \in Nat : i = carried[p].in /\ o = carried[p].out
    BY CountsAre
  <2>3. carried'[p].in = i /\ carried'[p].out = o + n
    <3>1. carried \in [Paths -> ByteCounts]
      BY DEF SamplerTypeOK
    <3>2. PICK after : after = [carried EXCEPT ![p].out = @ + n]
      OBVIOUS
    <3>3. after[p] = [in |-> carried[p].in, out |-> carried[p].out + n]
      BY <3>1, <3>2, CarriedMore
    <3>4. carried' = after
      BY <1>1, <1>4, <2>1, <3>2
    <3> QED BY <2>2, <3>3, <3>4
  <2>4. Sum(outBytes', subscribers'[p]) = b + n
    <3>1. /\ subscribers'[p] \in SUBSET Sessions /\ s \in subscribers'[p]
          /\ subscribers'[p] \ {s} = subscribers[p]
      BY <1>1, <1>4 DEF SamplerTypeOK, Roles
    <3>2. IsFiniteSet(Sessions) /\ outBytes \in [Sessions -> Nat]
      BY SamplerAssumption DEF SamplerTypeOK
    <3>3. Sum(outBytes, subscribers'[p]) =
            Sum(outBytes, subscribers'[p] \ {s}) + outBytes[s]
      BY <3>1, <3>2, SumWithout
    <3> QED BY <1>1, <1>3, <2>1, <3>1, <3>3
  <2>5. a - a <= i - i /\ (b + n) - b <= (o + n) - o
    OBVIOUS
  <2> QED BY <1>2, <1>3, <2>2, <2>3, <2>4, <2>5, EarnedIs
<1>5. CASE p # q
  <2>1. subscribers'[p] = subscribers[p] /\ carried'[p] = carried[p]
    BY <1>1, <1>5 DEF SamplerTypeOK
  <2>2. Fewer(p)
    BY <1>1, <1>2, <1>3, <2>1 DEF Fewer
  <2> QED BY <2>2, FewerEarns
<1> QED BY <1>4, <1>5

LEMMA DonePlayFewer ==
  ASSUME SamplerTypeOK, SamplerTypeOK', NEW q \in Paths, NEW s \in Sessions,
         DonePlay(s, q), NEW p \in Paths
  PROVE  Fewer(p)
<1>1. /\ publisher' = publisher /\ carried' = carried /\ s \in subscribers[q]
      /\ subscribers' = [subscribers EXCEPT ![q] = @ \ {s}]
      /\ inBytes' = Kept(inBytes, s) /\ outBytes' = Kept(outBytes, s)
  BY DEF DonePlay, Idle
<1>2. \A x \in Sessions : outBytes'[x] <= outBytes[x]
  BY <1>1, KeptIsLess DEF SamplerTypeOK
<1>3. Sum(outBytes', subscribers'[p]) <= Sum(outBytes, subscribers[p])
  <2>1. CASE p = q
    <3>1. /\ subscribers[p] \in SUBSET Sessions /\ s \in subscribers[p]
          /\ subscribers'[p] = subscribers[p] \ {s}
          /\ subscribers'[p] \in SUBSET Sessions
      BY <1>1, <2>1 DEF SamplerTypeOK
    <3>2. /\ IsFiniteSet(Sessions) /\ outBytes \in [Sessions -> Nat]
          /\ outBytes' \in [Sessions -> Nat]
      BY SamplerAssumption DEF SamplerTypeOK
    <3>3. PICK a \in Nat : a = Sum(outBytes', subscribers'[p])
      BY CountsAreNext
    <3>4. PICK b \in Nat : b = Sum(outBytes, subscribers'[p])
      BY <3>1, <3>2, SumType
    <3>5. a <= b
      <4>1. \A x \in subscribers'[p] : outBytes'[x] <= outBytes[x]
        BY <1>2, <3>1
      <4> QED BY <3>1, <3>2, <3>3, <3>4, <4>1, SumAtMost
    <3>6. Sum(outBytes, subscribers[p]) =
            Sum(outBytes, subscribers[p] \ {s}) + outBytes[s]
      BY <3>1, <3>2, SumWithout
    <3>7. PICK c \in Nat : c = outBytes[s]
      BY <3>1, <3>2
    <3>8. Sum(outBytes, subscribers[p]) = b + c
      BY <3>1, <3>4, <3>6, <3>7
    <3> QED BY <3>3, <3>5, <3>8
  <2>2. CASE p # q
    <3>1. subscribers'[p] = subscribers[p]
      BY <1>1, <2>2 DEF SamplerTypeOK
    <3>2. \A x \in subscribers[p] : outBytes'[x] <= outBytes[x]
      BY <1>2 DEF SamplerTypeOK
    <3> QED BY <3>1, <3>2, SameOrLess
  <2> QED BY <2>1, <2>2
<1>4. InOf(publisher', inBytes', p) <= InOf(publisher, inBytes, p)
  <2>1. \A x \in Sessions : inBytes'[x] <= inBytes[x]
    BY <1>1, KeptIsLess DEF SamplerTypeOK
  <2>2. publisher[p] # NoOne => publisher[p] \in Sessions
    BY DEF SamplerTypeOK
  <2> QED BY <1>1, <2>1, <2>2 DEF InOf
<1> QED BY <1>1, <1>3, <1>4 DEF Fewer

LEMMA ReceiveEarns ==
  ASSUME SamplerTypeOK, SamplerTypeOK', NEW s \in Sessions, NEW n \in Sizes,
         Receive(s, n), NEW p \in Paths
  PROVE  Earns(p)
<1>1. /\ UNCHANGED <<publisher, subscribers, outBytes>>
      /\ inBytes' = [inBytes EXCEPT ![s] = @ + n]
      /\ carried'[p] = IF publisher[p] = s THEN [carried[p] EXCEPT !.in = @ + n]
                       ELSE carried[p]
  BY DEF Receive, sessionVars
<1>2. n \in Nat
  BY SamplerAssumption
<1>3. CASE publisher[p] = s
  <2>1. PICK i \in Nat, o \in Nat : i = carried[p].in /\ o = carried[p].out
    BY CountsAre
  <2>2. PICK bytes \in ByteCounts : bytes = carried[p]
    BY CountsAre
  <2>3. PICK more : more = [bytes EXCEPT !.in = @ + n]
    OBVIOUS
  <2>4. carried'[p] = more /\ more.in = i + n /\ more.out = o
    <3>1. carried'[p] = more
      BY <1>1, <1>3, <2>2, <2>3
    <3>2. more = [in |-> bytes.in + n, out |-> bytes.out]
      BY <1>2, <2>3, MoreBytes
    <3> QED BY <2>1, <2>2, <3>1, <3>2
  <2>5. PICK a \in Nat : a = InOf(publisher, inBytes, p)
    BY CountsAre
  <2>6. InOf(publisher', inBytes', p) = a + n
    <3>1. s # NoOne
      BY SamplerAssumption
    <3> QED BY <1>1, <1>3, <2>5, <3>1 DEF InOf, SamplerTypeOK
  <2>7. PICK b \in Nat : b = Sum(outBytes, subscribers[p])
    BY CountsAre
  <2>8. Sum(outBytes', subscribers'[p]) = b
    BY <1>1, <2>7
  <2>9. (a + n) - a <= (i + n) - i /\ b - b <= o - o
    BY <1>2
  <2> QED BY <2>1, <2>4, <2>5, <2>6, <2>7, <2>8, <2>9, EarnedIs
<1>4. CASE publisher[p] # s
  <2>1. carried'[p] = carried[p]
    BY <1>1, <1>4
  <2>2. InOf(publisher', inBytes', p) = InOf(publisher, inBytes, p)
    BY <1>1, <1>4 DEF InOf, SamplerTypeOK
  <2>3. Fewer(p)
    BY <1>1, <2>1, <2>2, CountsAre DEF Fewer
  <2> QED BY <2>3, FewerEarns
<1> QED BY <1>3, <1>4

LEMMA SendEarns ==
  ASSUME SamplerTypeOK, SamplerTypeOK', Roles, NEW q \in Paths, NEW s \in Sessions,
         NEW n \in Sizes, SendBuffer(s, q, n), NEW p \in Paths
  PROVE  Earns(p)
<1>1. /\ UNCHANGED <<publisher, subscribers, inBytes>> /\ s \in subscribers[q]
      /\ outBytes' = [outBytes EXCEPT ![s] = @ + n]
      /\ carried' = [carried EXCEPT ![q].out = @ + n]
  BY DEF SendBuffer, sessionVars
<1>2. n \in Nat
  BY SamplerAssumption
<1>3. /\ IsFiniteSet(Sessions) /\ outBytes \in [Sessions -> Nat]
      /\ outBytes' \in [Sessions -> Nat] /\ subscribers[p] \in SUBSET Sessions
  BY SamplerAssumption DEF SamplerTypeOK
<1>4. PICK a \in Nat : /\ a = InOf(publisher, inBytes, p)
                       /\ a = InOf(publisher', inBytes', p)
  BY <1>1, CountsAre DEF InOf
<1>5. CASE p = q
  <2>1. PICK i \in Nat, o \in Nat : i = carried[p].in /\ o = carried[p].out
    BY CountsAre
  <2>2. PICK bytes \in ByteCounts : bytes = carried[p]
    BY CountsAre
  <2>3. PICK more : more = [bytes EXCEPT !.out = @ + n]
    OBVIOUS
  <2>4. carried'[p] = more /\ more.in = i /\ more.out = o + n
    <3>1. carried'[p] = more
      BY <1>1, <1>5, <2>2, <2>3 DEF SamplerTypeOK
    <3>2. more = [in |-> bytes.in, out |-> bytes.out + n]
      BY <1>2, <2>3, MoreBytes
    <3> QED BY <2>1, <2>2, <3>1, <3>2
  <2> DEFINE T == subscribers[p]
             R == subscribers[p] \ {s}
  <2>5. T \in SUBSET Sessions /\ s \in T /\ R \in SUBSET Sessions /\ IsFiniteSet(R)
    <3>1. T \in SUBSET Sessions /\ s \in T /\ R \in SUBSET Sessions
      BY <1>1, <1>3, <1>5
    <3> QED BY <1>3, <3>1, FS_Subset
  <2>6. /\ Sum(outBytes, T) = Sum(outBytes, R) + outBytes[s]
        /\ Sum(outBytes', T) = Sum(outBytes', R) + outBytes'[s]
    BY <1>3, <2>5, SumWithout
  <2>7. Sum(outBytes', R) = Sum(outBytes, R)
    <3>1. \A x \in R : outBytes'[x] = outBytes[x]
      BY <1>1, <1>3
    <3> QED BY <2>5, <3>1, SumSame
  <2>8. PICK b \in Nat : b = Sum(outBytes, R)
    BY <1>3, <2>5, SumType
  <2>9. PICK c \in Nat : c = outBytes[s]
    BY <1>3
  <2>10. outBytes'[s] = c + n
    BY <1>1, <1>3, <2>9
  <2>11. /\ Sum(outBytes, subscribers[p]) = b + c
         /\ Sum(outBytes', subscribers'[p]) = b + (c + n)
    BY <1>1, <2>6, <2>7, <2>8, <2>9, <2>10
  <2>12. a - a <= i - i /\ (b + (c + n)) - (b + c) <= (o + n) - o
    BY <1>2
  <2> QED BY <1>4, <2>1, <2>4, <2>11, <2>12, EarnedIs
<1>6. CASE p # q
  <2>1. carried'[p] = carried[p]
    BY <1>1, <1>6 DEF SamplerTypeOK
  <2>2. s \notin subscribers[p]
    BY <1>1, <1>6 DEF Roles
  <2>3. \A x \in subscribers[p] : outBytes'[x] <= outBytes[x]
    BY <1>1, <1>3, <2>2
  <2>4. Sum(outBytes', subscribers'[p]) <= Sum(outBytes, subscribers[p])
    BY <1>1, <2>3, SameOrLess
  <2>5. Fewer(p)
    BY <1>4, <2>1, <2>4 DEF Fewer
  <2> QED BY <2>5, FewerEarns
<1> QED BY <1>5, <1>6

(***************************************************************************)
(* The steps.                                                              *)
(***************************************************************************)

\* Samples that stay while time passes and streams earn what they show.
Passes ==
  /\ samples' = samples /\ networkSamples' = networkSamples
  /\ now <= now'
  /\ Gains(networkStats, networkStats, networkStats', networkStats')
  /\ \A p \in Paths : Earns(p)

LEMMA PassesFair ==
  ASSUME SamplerTypeOK, SamplerTypeOK', FairInv, Passes PROVE FairInv'
<1>1. now \in Nat /\ now' \in Nat /\ now <= now'
  BY DEF SamplerTypeOK, Passes
<1>2. Fair(networkSamples', now', networkStats', networkStats')
  <2>1. networkSamples \in Seq(SampleType)
    BY DEF SamplerTypeOK
  <2>2. networkStats \in ByteCounts /\ networkStats' \in ByteCounts
    BY DEF SamplerTypeOK
  <2>3. Fair(networkSamples, now, networkStats, networkStats)
    BY DEF FairInv
  <2>4. Gains(networkStats, networkStats, networkStats', networkStats')
    BY DEF Passes
  <2>5. Fair(networkSamples, now', networkStats', networkStats')
    BY <1>1, <2>1, <2>2, <2>3, <2>4, FairGains
  <2> QED BY <2>5 DEF Passes
<1>3. ASSUME NEW p \in Paths
      PROVE  Fair(samples'[p], now', StreamBytes(p)', carried'[p])
  <2>1. samples[p] \in Seq(SampleType)
    BY DEF SamplerTypeOK
  <2>2. StreamBytes(p) \in ByteCounts /\ StreamBytes(p)' \in ByteCounts
    BY StreamBytesType, StreamBytesTypeNext
  <2>3. carried[p] \in ByteCounts /\ carried'[p] \in ByteCounts
    BY DEF SamplerTypeOK
  <2>4. Fair(samples[p], now, StreamBytes(p), carried[p])
    BY <1>3 DEF FairInv, Passes
  <2>5. Gains(StreamBytes(p), carried[p], StreamBytes(p)', carried'[p])
    BY <1>3 DEF Passes, Earns
  <2>6. Fair(samples[p], now', StreamBytes(p)', carried'[p])
    BY <1>1, <2>1, <2>2, <2>3, <2>4, <2>5, FairGains
  <2> QED BY <2>6 DEF Passes
<1> QED BY <1>2, <1>3 DEF FairInv

LEMMA SampledFair ==
  ASSUME SamplerTypeOK, FairInv, Sampled PROVE FairInv'
<1>1. /\ UNCHANGED <<now, publisher, subscribers, inBytes, outBytes, networkStats,
                     carried>>
  BY DEF Sampled
<1>2. Fair(networkSamples', now', networkStats', networkStats')
  <2>1. PICK sample : sample = SampleOf(networkStats, networkStats)
    OBVIOUS
  <2>2. networkStats \in ByteCounts
    BY DEF SamplerTypeOK
  <2>3. sample \in SampleType /\ sample.at = now
    BY <2>1, <2>2, SampleAt
  <2>4. sample.bytes = networkStats /\ sample.carried = networkStats
    BY <2>1 DEF SampleOf
  <2>5. networkSamples \in Seq(SampleType)
    BY DEF SamplerTypeOK
  <2>6. Pushed(networkSamples, sample, networkSamples')
    BY <2>1 DEF Sampled
  <2>7. Fair(networkSamples, sample.at, sample.bytes, sample.carried)
    BY <2>3, <2>4 DEF FairInv
  <2>8. Fair(networkSamples', sample.at, sample.bytes, sample.carried)
    BY <2>3, <2>5, <2>6, <2>7, FairPush
  <2> QED BY <1>1, <2>3, <2>4, <2>8
<1>3. ASSUME NEW p \in Paths
      PROVE  Fair(samples'[p], now', StreamBytes(p)', carried'[p])
  <2>1. StreamBytes(p)' = StreamBytes(p)
    BY <1>1, BytesNow, BytesThen
  <2>2. CASE samples'[p] = <<>>
    BY <2>2 DEF Fair
  <2>3. CASE Pushed(samples[p], SampleOf(StreamBytes(p), carried[p]), samples'[p])
    <3>1. PICK sample : sample = SampleOf(StreamBytes(p), carried[p])
      OBVIOUS
    <3>2. StreamBytes(p) \in ByteCounts /\ carried[p] \in ByteCounts
      BY StreamBytesType DEF SamplerTypeOK
    <3>3. sample \in SampleType /\ sample.at = now
      BY <3>1, <3>2, SampleAt
    <3>4. sample.bytes = StreamBytes(p) /\ sample.carried = carried[p]
      BY <3>1 DEF SampleOf
    <3>5. samples[p] \in Seq(SampleType)
      BY DEF SamplerTypeOK
    <3>6. Pushed(samples[p], sample, samples'[p])
      BY <2>3, <3>1
    <3>7. Fair(samples[p], sample.at, sample.bytes, sample.carried)
      BY <1>1, <1>3, <3>3, <3>4 DEF FairInv
    <3>8. Fair(samples'[p], sample.at, sample.bytes, sample.carried)
      BY <3>3, <3>5, <3>6, <3>7, FairPush
    <3> QED BY <1>1, <2>1, <3>3, <3>4, <3>8
  <2> QED BY <2>2, <2>3 DEF Sampled
<1> QED BY <1>2, <1>3 DEF FairInv

\* Steps that carry nothing, but those of the clock and the sampler.
LEMMA SessionsPass ==
  ASSUME SamplerTypeOK, SamplerTypeOK', UNCHANGED <<now, networkStats, windowVars>>,
         \A p \in Paths : Earns(p)
  PROVE  Passes
<1>1. networkStats \in ByteCounts /\ now \in Nat
  BY DEF SamplerTypeOK
<1>2. networkStats.in \in Nat /\ networkStats.out \in Nat
  BY <1>1 DEF ByteCounts
<1>3. Gains(networkStats, networkStats, networkStats', networkStats')
  BY <1>2 DEF Gains
<1>4. now <= now'
  BY <1>1
<1> QED BY <1>3, <1>4 DEF Passes, windowVars

LEMMA FairInit == SamplerInit => FairInv
<1> SUFFICES ASSUME SamplerInit PROVE FairInv
  OBVIOUS
<1>1. /\ networkSamples = <<SampleOf(Nothing, Nothing)>> /\ now = 0
      /\ networkStats = Nothing
  BY DEF SamplerInit
<1>2. PICK sample : sample = SampleOf(Nothing, Nothing)
  OBVIOUS
<1>3. sample.at = 0 /\ sample.bytes = Nothing /\ sample.carried = Nothing
  BY <1>1, <1>2 DEF SampleOf
<1>4. Reaches(sample, 0, Nothing, Nothing)
  BY <1>3 DEF Reaches, Nothing
<1>5. Fair(networkSamples, now, networkStats, networkStats)
  BY <1>1, <1>2, <1>4 DEF Fair
<1>6. ASSUME NEW p \in Paths PROVE Fair(samples[p], now, StreamBytes(p), carried[p])
  <2>1. samples[p] = <<>>
    BY DEF SamplerInit
  <2> QED BY <2>1 DEF Fair
<1> QED BY <1>5, <1>6 DEF FairInv

LEMMA FairStep ==
  ASSUME SamplerTypeOK, SamplerTypeOK', Roles, FairInv, [SamplerNext]_samplerVars
  PROVE  FairInv'
<1>1. CASE TimerSample \/ ReadSample
  <2>1. Sample
    BY <1>1 DEF TimerSample, ReadSample
  <2> QED BY <2>1, SampleIs, SampledFair
<1>2. ASSUME NEW p \in Paths, FinishPublish(p) PROVE FairInv'
  <2>1. UNCHANGED <<now, networkStats, windowVars>>
    BY <1>2 DEF FinishPublish, Idle
  <2>2. \A q \in Paths : Earns(q)
    BY <1>2, FinishFewer, FewerEarns
  <2> QED BY <2>1, <2>2, SessionsPass, PassesFair
<1>3. ASSUME NEW p \in Paths, NEW s \in Sessions, Publish(s, p) PROVE FairInv'
  <2>1. UNCHANGED <<now, networkStats, windowVars>>
    BY <1>3 DEF Publish, Idle
  <2>2. \A q \in Paths : Earns(q)
    BY <1>3, PublishEarns
  <2> QED BY <2>1, <2>2, SessionsPass, PassesFair
<1>4. ASSUME NEW p \in Paths, NEW s \in Sessions, ResumePublish(s, p) PROVE FairInv'
  <2>1. UNCHANGED <<now, networkStats, windowVars>>
    BY <1>4 DEF ResumePublish, Idle
  <2>2. \A q \in Paths : Earns(q)
    BY <1>4, ResumeFewer, FewerEarns
  <2> QED BY <2>1, <2>2, SessionsPass, PassesFair
<1>5. ASSUME NEW p \in Paths, NEW s \in Sessions, PostPlay(s, p) PROVE FairInv'
  <2>1. UNCHANGED <<now, networkStats, windowVars>>
    BY <1>5 DEF PostPlay, Idle
  <2>2. \A q \in Paths : Earns(q)
    BY <1>5, PlayEarns
  <2> QED BY <2>1, <2>2, SessionsPass, PassesFair
<1>6. ASSUME NEW p \in Paths, NEW s \in Sessions, DonePlay(s, p) PROVE FairInv'
  <2>1. UNCHANGED <<now, networkStats, windowVars>>
    BY <1>6 DEF DonePlay, Idle
  <2>2. \A q \in Paths : Earns(q)
    BY <1>6, DonePlayFewer, FewerEarns
  <2> QED BY <2>1, <2>2, SessionsPass, PassesFair
<1>7. ASSUME NEW s \in Sessions, NEW n \in Sizes, Receive(s, n) PROVE FairInv'
  <2>1. UNCHANGED <<now, windowVars>>
    BY <1>7 DEF Receive
  <2>2. \A q \in Paths : Earns(q)
    BY <1>7, ReceiveEarns
  <2>3. Gains(networkStats, networkStats, networkStats', networkStats') /\ now <= now'
    <3>1. networkStats' = [networkStats EXCEPT !.in = @ + n] /\ n \in Nat
      BY <1>7, SamplerAssumption DEF Receive
    <3>2. networkStats \in ByteCounts /\ networkStats' \in ByteCounts /\ now \in Nat
      BY DEF SamplerTypeOK
    <3>3. /\ networkStats.in \in Nat /\ networkStats.out \in Nat
          /\ networkStats'.in \in Nat /\ networkStats'.out \in Nat
      BY <3>2 DEF ByteCounts
    <3> QED BY <2>1, <3>2, <3>3 DEF Gains
  <2> QED BY <2>1, <2>2, <2>3, PassesFair DEF Passes, windowVars
<1>8. ASSUME NEW p \in Paths, NEW s \in Sessions, NEW n \in Sizes, SendBuffer(s, p, n)
      PROVE  FairInv'
  <2>1. UNCHANGED <<now, windowVars>>
    BY <1>8 DEF SendBuffer
  <2>2. \A q \in Paths : Earns(q)
    BY <1>8, SendEarns
  <2>3. Gains(networkStats, networkStats, networkStats', networkStats') /\ now <= now'
    <3>1. networkStats \in ByteCounts /\ networkStats' \in ByteCounts /\ now \in Nat
      BY DEF SamplerTypeOK
    <3>2. /\ networkStats.in \in Nat /\ networkStats.out \in Nat
          /\ networkStats'.in \in Nat /\ networkStats'.out \in Nat
      BY <3>1 DEF ByteCounts
    <3> QED BY <2>1, <3>1, <3>2 DEF Gains
  <2> QED BY <2>1, <2>2, <2>3, PassesFair DEF Passes, windowVars
<1>9. CASE Tick \/ UNCHANGED samplerVars
  <2>1. /\ UNCHANGED <<publisher, subscribers, inBytes, outBytes, carried,
                       networkStats, samples, networkSamples>>
        /\ now <= now'
    BY <1>9 DEF Tick, samplerVars, sessionVars, windowVars, SamplerTypeOK
  <2>2. ASSUME NEW p \in Paths PROVE Earns(p)
    <3>1. Fewer(p)
      BY <2>1, CountsAre DEF Fewer, InOf
    <3> QED BY <3>1, FewerEarns
  <2>3. Gains(networkStats, networkStats, networkStats', networkStats')
    <3>1. networkStats \in ByteCounts
      BY DEF SamplerTypeOK
    <3>2. networkStats.in \in Nat /\ networkStats.out \in Nat
      BY <3>1 DEF ByteCounts
    <3> QED BY <2>1, <3>2 DEF Gains
  <2> QED BY <2>1, <2>2, <2>3, PassesFair DEF Passes
<1> QED BY <1>1, <1>2, <1>3, <1>4, <1>5, <1>6, <1>7, <1>8, <1>9 DEF SamplerNext

\* SamplerTypeOK, windows and counters of every session included.
THEOREM SamplerTypes == SamplerSpec => []SamplerTypeOK
BY SamplerTypeInit, SamplerTypeStep, PTL DEF SamplerSpec

\* RatesAreCarried: whoever publishes, resumes, plays and leaves, and however
\* late the timer is, no window shows more than was carried in its time and
\* brought along by the sessions that came in it.
THEOREM RatesCarried == SamplerSpec => []RatesAreCarried
<1>1. SamplerInit => SamplerTypeOK /\ Roles /\ FairInv
  BY SamplerTypeInit, RolesInit, FairInit
<1>2. SamplerTypeOK /\ Roles /\ FairInv /\ [SamplerNext]_samplerVars
        => (SamplerTypeOK /\ Roles /\ FairInv)'
  BY SamplerTypeStep, RolesStep, FairStep
<1> QED BY <1>1, <1>2, FairRates, PTL DEF SamplerSpec
=============================================================================
