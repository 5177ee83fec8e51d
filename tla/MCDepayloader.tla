---------------------------- MODULE MCDepayloader ----------------------------
(***************************************************************************)
(* Depayloader with small ranges: sequence numbers and timestamps wrap,    *)
(* and the distance from which a gap is none is a few packets.             *)
(***************************************************************************)
EXTENDS Depayloader

MediaLine(media, pts, complete) ==
  [type |-> "m", media |-> media, payloadTypes |-> pts, complete |-> complete]
Rtpmap(pt, name, rate) ==
  [type |-> "a", key |-> "rtpmap", pt |-> pt, codec |-> name, rate |-> rate,
   channels |-> 0]
Fmtp(pt) == [type |-> "a", key |-> "fmtp", pt |-> pt, params |-> "sprop"]

MCLines ==
  {MediaLine("video", <<96>>, TRUE), MediaLine("audio", <<97>>, TRUE),
   MediaLine("application", <<98>>, FALSE),
   Rtpmap(96, "H264", 1500), Rtpmap(96, "HEVC", 1500),
   Rtpmap(97, "AAC", 1500), Rtpmap(97, "OPUS", 1500),
   Fmtp(96), [type |-> "b"]}

=============================================================================
