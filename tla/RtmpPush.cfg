CONSTANTS
  RTMP_CHUNK_SIZE = 4
  RTMP_MAX_CHUNK_SIZE = 6
  ExtTime = 3
  MaxClock = 6
  Wide = {}
  Modes = {"push"}
  Remotes = {"nms"}
  Infos <- MCInfos
  Codes <- MCCodes
  Cids <- MCCids
  Lengths = {0, 6, 7}
  Times = {1, 3}
  Deltas = {1, 4}
  Sizes = {6}
  MaxMessages = 2
  MaxQuiet = 2

SPECIFICATION RtmpSpec
INVARIANT PushStays


CHECK_DEADLOCK FALSE
