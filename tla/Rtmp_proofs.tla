---------------------------- MODULE Rtmp_proofs -----------------------------
(***************************************************************************)
(* Proofs about an RTMP connection, of the client that connectAndStart     *)
(* runs and of a server, Node-Media-Server or another; and about the relay *)
(* sessions that run such clients.                                         *)
(*                                                                         *)
(* The connection: what is on its way between both ends is a sequence of   *)
(* chunks, with parts of the handshake among them.  The inductive          *)
(* invariant says how far the handshake is by what is on its way, that the *)
(* server will read all of it as questions of the client, in chunks of the *)
(* size it goes by, and that the promise connectAndStart awaits is the one *)
(* that the client keeps.                                                  *)
(***************************************************************************)
EXTENDS Relay, Chunks_proofs

(***************************************************************************)
(* The steps of the client, by the fields they change.                     *)
(***************************************************************************)
ClientFields == {"socket", "hs", "waits", "parser", "pending", "next", "streamId",
                 "quiet", "beats"}
IsSide(s) ==
  /\ DOMAIN s = {"client", "call", "out", "media"}
  /\ DOMAIN s.client = ClientFields /\ DOMAIN s.call = {"at", "result"}

\* Nothing else of the client has changed.
SameClient(s, t, fields) == \A f \in ClientFields \ fields : t.client[f] = s.client[f]

LEMMA SettledFields ==
  ASSUME NEW s, IsSide(s), NEW id, NEW r, NEW t, t = Settled(s, id, r)
  PROVE  /\ IsSide(t) /\ SameClient(s, t, {"pending"})
         /\ t.client.pending = Without(s.client.pending, id)
         /\ t.call.at = s.call.at
         /\ t.call.result = (IF s.call.at = s.client.pending[id] THEN r ELSE s.call.result)
         /\ t.out = s.out /\ t.media = s.media
  BY DEF Settled, IsSide, SameClient, ClientFields

LEMMA RejectAllFields ==
  ASSUME NEW s, IsSide(s), NEW t, t = RejectAllPending(s)
  PROVE  /\ IsSide(t) /\ SameClient(s, t, {"pending"})
         /\ t.client.pending = <<>>
         /\ t.call.at = s.call.at
         /\ t.call.result = (IF \E id \in DOMAIN s.client.pending :
                                  s.client.pending[id] = s.call.at
                             THEN Error ELSE s.call.result)
         /\ t.out = s.out /\ t.media = s.media
  BY DEF RejectAllPending, IsSide, SameClient, ClientFields

LEMMA RejectHandshakeFields ==
  ASSUME NEW s, IsSide(s), NEW t, t = RejectHandshake(s)
  PROVE  /\ IsSide(t) /\ SameClient(s, t, {"waits"})
         /\ t.client.waits = FALSE
         /\ t.call.at = s.call.at
         /\ t.call.result = (IF s.client.waits THEN Error ELSE s.call.result)
         /\ t.out = s.out /\ t.media = s.media
  BY DEF RejectHandshake, IsSide, SameClient, ClientFields

LEMMA SendCommandFields ==
  ASSUME NEW s, IsSide(s), NEW cmd, NEW sid, NEW opt, NEW t, t = SendCommand(s, cmd, sid, opt),
         NEW id, id = s.client.next
  PROVE  /\ IsSide(t) /\ SameClient(s, t, {"pending", "next"})
         /\ t.client.pending = Updated(s.client.pending, id, cmd)
         /\ t.client.next = id + 1
         /\ t.call.at = cmd /\ t.call.result = NoResult
         /\ t.out = Append(s.out, Invoke(sid, Posed(opt, cmd, id)))
         /\ t.media = s.media
  BY DEF SendCommand, Posed, IsSide, SameClient, ClientFields

\* What a signature does.
SignatureTaken(s, cell, t) ==
  /\ IsSide(t) /\ t.media = s.media /\ t.call.at = s.call.at
  /\ SameClient(s, t, {"hs", "waits", "socket"})
  /\ \/ /\ s.client.hs = "S0S1" /\ cell.sig = "S0S1"
        /\ t.client.hs = "S2" /\ t.client.waits = s.client.waits
        /\ t.client.socket = s.client.socket /\ t.call.result = s.call.result
        /\ t.out = Append(s.out, Signature("C2"))
     \/ /\ s.client.hs = "S0S1" /\ cell.sig # "S0S1"
        /\ t.client.hs = "S0S1" /\ t.client.waits = FALSE
        /\ t.client.socket = "failed"
        /\ t.call.result = (IF s.client.waits THEN Error ELSE s.call.result)
        /\ t.out = s.out
     \/ /\ s.client.hs # "S0S1"
        /\ t.client.hs = "done" /\ t.client.waits = FALSE
        /\ t.client.socket = s.client.socket /\ t.call.result = Ok(Null)
        /\ t.out = s.out

LEMMA TakeSignatureFields ==
  ASSUME NEW s, IsSide(s), NEW cell, NEW t, t = TakeSignature(s, cell)
  PROVE  SignatureTaken(s, cell, t)
<1>1. CASE s.client.hs = "S0S1" /\ cell.sig = "S0S1"
  <2>1. t = [s EXCEPT !.client.hs = "S2", !.out = Append(@, Signature("C2"))]
    BY <1>1 DEF TakeSignature
  <2>2. QED  BY <1>1, <2>1 DEF IsSide, SameClient, ClientFields, SignatureTaken
<1>2. CASE s.client.hs = "S0S1" /\ cell.sig # "S0S1"
  <2>1. PICK u : u = RejectHandshake(s)
    OBVIOUS
  <2>2. t = [u EXCEPT !.client.socket = "failed"]
    BY <1>2, <2>1 DEF TakeSignature
  <2>3. /\ IsSide(u) /\ SameClient(s, u, {"waits"})
        /\ u.client.waits = FALSE
        /\ u.call.at = s.call.at
        /\ u.call.result = (IF s.client.waits THEN Error ELSE s.call.result)
        /\ u.out = s.out /\ u.media = s.media
    BY <2>1, RejectHandshakeFields
  <2>4. /\ IsSide(t) /\ t.client.socket = "failed" /\ SameClient(u, t, {"socket"})
        /\ t.call = u.call /\ t.out = u.out /\ t.media = u.media
    BY <2>2, <2>3 DEF IsSide, SameClient, ClientFields, SignatureTaken
  <2>5. SameClient(s, t, {"hs", "waits", "socket"}) /\ t.client.hs = s.client.hs
        /\ t.client.waits = u.client.waits
    BY <2>3, <2>4 DEF SameClient, ClientFields, SignatureTaken
  <2>6. QED  BY <1>2, <2>3, <2>4, <2>5 DEF SignatureTaken
<1>3. CASE s.client.hs # "S0S1"
  <2>1. t = [s EXCEPT !.client.hs = "done", !.client.waits = FALSE, !.call.result = Ok(Null)]
    BY <1>3 DEF TakeSignature
  <2>2. PICK x : x = Ok(Null)
    OBVIOUS
  <2>3. t = [s EXCEPT !.client.hs = "done", !.client.waits = FALSE, !.call.result = x]
    BY <2>1, <2>2
  <2>4. /\ t.client = [s.client EXCEPT !.hs = "done", !.waits = FALSE]
        /\ t.call = [s.call EXCEPT !.result = x]
        /\ t.out = s.out /\ t.media = s.media /\ DOMAIN t = DOMAIN s
    BY <2>3 DEF IsSide
  <2>5. t.call.at = s.call.at /\ t.call.result = x /\ DOMAIN t.call = DOMAIN s.call
    BY <2>4 DEF IsSide
  <2>6. /\ DOMAIN t.client = ClientFields /\ SameClient(s, t, {"hs", "waits", "socket"})
        /\ t.client.hs = "done" /\ t.client.waits = FALSE
        /\ t.client.socket = s.client.socket
    BY <2>4 DEF IsSide, SameClient, ClientFields, SignatureTaken
  <2>7. QED  BY <1>3, <2>2, <2>4, <2>5, <2>6 DEF IsSide, SignatureTaken
<1>4. QED  BY <1>1, <1>2, <1>3

Outcome(r) == r = Error \/ \E x : r = Ok(x)

\* What a command does.
LEMMA InvokeHandlerIs ==
  ASSUME NEW s, NEW d
  PROVE  \/ InvokeHandler(s, d) = s
         \/ \E id \in DOMAIN s.client.pending : \E r :
              Outcome(r) /\ InvokeHandler(s, d) = Settled(s, id, r)
<1>1. PICK id, code, pending : /\ id = d.transId.number /\ code = CodeOf(d.info)
                               /\ pending = s.client.pending
  OBVIOUS
<1>2. InvokeHandler(s, d) =
        CASE d.cmd = Str("_result") /\ id \in DOMAIN pending
               -> Settled(s, id, Ok(d.info))
          [] d.cmd = Str("_error") /\ id \in DOMAIN pending
               -> Settled(s, id, Error)
          [] d.cmd = Str("onStatus")
               -> IF \E i \in DOMAIN pending : Refuses(pending[i], code)
                  THEN Settled(s, CHOOSE i \in DOMAIN pending :
                                    Refuses(pending[i], code), Error)
                  ELSE IF \E i \in DOMAIN pending : Grants(pending[i], code)
                  THEN Settled(s, CHOOSE i \in DOMAIN pending :
                                    Grants(pending[i], code), Ok(d.info))
                  ELSE s
          [] OTHER -> s
  BY <1>1, Zenon DEF InvokeHandler
<1>3. Outcome(Error) /\ Outcome(Ok(d.info))
  BY DEF Outcome
<1>4. CASE d.cmd = Str("_result") /\ id \in DOMAIN pending
  <2>1. InvokeHandler(s, d) = Settled(s, id, Ok(d.info))
    <3>1. Str("_result") # Str("_error") /\ Str("_result") # Str("onStatus")
      BY DEF Str
    <3>2. QED  BY <1>2, <1>4, <3>1
  <2>2. QED  BY <2>1, <1>1, <1>3, <1>4
<1>5. CASE d.cmd = Str("_error") /\ id \in DOMAIN pending
  <2>1. InvokeHandler(s, d) = Settled(s, id, Error)
    <3>1. Str("_result") # Str("_error") /\ Str("_error") # Str("onStatus")
      BY DEF Str
    <3>2. QED  BY <1>2, <1>5, <3>1
  <2>2. QED  BY <2>1, <1>1, <1>3, <1>5
<1>6. CASE d.cmd = Str("onStatus")
  <2>1. Str("_result") # Str("onStatus") /\ Str("_error") # Str("onStatus")
    BY DEF Str
  <2>2. PICK a : a = CHOOSE i \in DOMAIN pending : Refuses(pending[i], code)
    OBVIOUS
  <2>3. PICK b : b = CHOOSE i \in DOMAIN pending : Grants(pending[i], code)
    OBVIOUS
  <2>4. InvokeHandler(s, d) =
          IF \E i \in DOMAIN pending : Refuses(pending[i], code)
          THEN Settled(s, a, Error)
          ELSE IF \E i \in DOMAIN pending : Grants(pending[i], code)
          THEN Settled(s, b, Ok(d.info))
          ELSE s
    BY <1>2, <1>6, <2>1, <2>2, <2>3
  <2>5. (\E i \in DOMAIN pending : Refuses(pending[i], code)) => a \in DOMAIN pending
    BY <2>2
  <2>6. (\E i \in DOMAIN pending : Grants(pending[i], code)) => b \in DOMAIN pending
    BY <2>3
  <2>7. QED  BY <1>1, <1>3, <2>4, <2>5, <2>6
<1>7. CASE /\ ~(d.cmd = Str("_result") /\ id \in DOMAIN pending)
           /\ ~(d.cmd = Str("_error") /\ id \in DOMAIN pending)
           /\ d.cmd # Str("onStatus")
  BY <1>2, <1>7
<1>8. QED  BY <1>4, <1>5, <1>6, <1>7

\* What a message does.
LEMMA ClientHandlerFields ==
  ASSUME NEW s, IsSide(s), NEW h, NEW t, t = ClientHandler(s, h)
  PROVE  \/ t = s
         \/ \E id \in DOMAIN s.client.pending : \E r : Outcome(r) /\ t = Settled(s, id, r)
         \/ /\ IsSide(t) /\ t.client = s.client /\ t.call = s.call /\ t.media = s.media
            /\ t.out = Append(s.out, UserEvent("pong"))
         \/ /\ IsSide(t) /\ t.client = s.client /\ t.call = s.call /\ t.out = s.out
            /\ h.type \in {"audio", "video", "data"} /\ t.media = Append(s.media, h)
<1>1. CASE h.type = "invoke"
  <2>1. t = InvokeHandler(s, DecodeAmf0Cmd(h.payload))
    BY <1>1 DEF ClientHandler
  <2>2. PICK d : d = DecodeAmf0Cmd(h.payload)
    OBVIOUS
  <2>3. t = InvokeHandler(s, d)
    BY <2>1, <2>2
  <2>4. QED  BY <2>3, InvokeHandlerIs
<1>2. CASE h.type = "event"
  <2>1. \/ t = s \/ t = [s EXCEPT !.out = Append(@, UserEvent("pong"))]
    BY <1>2 DEF ClientHandler
  <2>2. QED  BY <2>1 DEF IsSide
<1>3. CASE h.type \in {"audio", "video", "data"}
  <2>1. t = [s EXCEPT !.media = Append(@, h)]
    BY <1>3 DEF ClientHandler
  <2>2. QED  BY <1>3, <2>1 DEF IsSide
<1>4. CASE h.type # "invoke" /\ h.type # "event" /\ h.type \notin {"audio", "video", "data"}
  BY <1>4 DEF ClientHandler
<1>5. QED  BY <1>1, <1>2, <1>3, <1>4

\* disconnect.
LEMMA DisconnectedFields ==
  ASSUME NEW s, IsSide(s), NEW t, t = Disconnected(s)
  PROVE  /\ IsSide(t) /\ t.client.pending = <<>> /\ t.client.waits = FALSE
         /\ t.client.socket = "destroyed" /\ t.client.next = 1 /\ t.client.beats = FALSE
         /\ t.client.parser = Parser
         /\ t.call.at = s.call.at
         /\ t.call.result = (IF \/ s.client.waits
                                \/ \E id \in DOMAIN s.client.pending :
                                     s.client.pending[id] = s.call.at
                             THEN Error ELSE s.call.result)
<1>1. PICK u : u = RejectAllPending(s)
  OBVIOUS
<1>2. /\ IsSide(u) /\ SameClient(s, u, {"pending"})
      /\ u.client.pending = <<>>
      /\ u.call.at = s.call.at
      /\ u.call.result = (IF \E id \in DOMAIN s.client.pending :
                               s.client.pending[id] = s.call.at
                          THEN Error ELSE s.call.result)
  BY <1>1, RejectAllFields
<1>3. PICK v : v = RejectHandshake(u)
  OBVIOUS
<1>4. /\ IsSide(v) /\ SameClient(u, v, {"waits"})
      /\ v.client.waits = FALSE
      /\ v.call.at = u.call.at
      /\ v.call.result = (IF u.client.waits THEN Error ELSE u.call.result)
  BY <1>2, <1>3, RejectHandshakeFields
<1>5. t = [v EXCEPT !.client = [ResetProtocolState(@) EXCEPT !.socket = "destroyed",
                                                             !.beats = FALSE]]
  BY <1>1, <1>3 DEF Disconnected
<1>6. PICK c : c = [ResetProtocolState(v.client) EXCEPT !.socket = "destroyed",
                                                        !.beats = FALSE]
  OBVIOUS
<1>7. /\ DOMAIN c = ClientFields /\ c.pending = <<>> /\ c.waits = FALSE /\ c.socket = "destroyed"
      /\ c.next = 1 /\ c.beats = FALSE /\ c.parser = Parser
  BY <1>4, <1>6 DEF ResetProtocolState, IsSide, ClientFields
<1>8. IsSide(t) /\ t.client = c /\ t.call = v.call
  BY <1>4, <1>5, <1>6, <1>7 DEF IsSide
<1>9. u.client.waits = s.client.waits
  BY <1>2 DEF SameClient, ClientFields
<1>10. QED  BY <1>2, <1>4, <1>7, <1>8, <1>9

(***************************************************************************)
(* A read of the client: the handshake first, then the messages.           *)
(***************************************************************************)
Alone(f, x) == \E id : DOMAIN f = {id} /\ f[id] = x

\* The promise that the call awaits, and the outcome it has.
CallOk(cl, ca) ==
  /\ Outcome(ca.result) \/ ca.result = NoResult
  /\ ca.result # NoResult => DOMAIN cl.pending = {} /\ cl.waits = FALSE
  /\ ca.result # NoResult => ca.at \in Calling \cup {"handshake"}
  /\ cl.beats => ca.at \notin Calling \cup {"handshake"}
  /\ ca.result # NoResult /\ ca.result # Error => cl.socket = "open"
  /\ ca.result = NoResult =>
       /\ ca.at \in Calling =>
            cl.waits = FALSE /\ cl.socket \in {"open", "failed"} /\ Alone(cl.pending, ca.at)
       /\ ca.at \notin Calling => DOMAIN cl.pending = {}
       /\ ca.at = "handshake" => cl.waits = TRUE
       /\ ca.at # "handshake" => cl.waits = FALSE

LEMMA Results ==
  /\ NoResult # Error /\ ~Outcome(NoResult) /\ Outcome(Error)
  /\ \A x : Ok(x) # NoResult /\ Ok(x) # Error /\ Outcome(Ok(x))
  /\ "handshake" \notin Calling /\ "started" \notin Calling /\ "failed" \notin Calling
  /\ "timedOut" \notin Calling
<1>1. \A x : Ok(x).is = "ok"
  BY DEF Ok
<1>2. NoResult.is = "none" /\ Error.is = "error"
  BY DEF NoResult, Error
<1>3. NoResult # Error /\ \A x : Ok(x) # NoResult /\ Ok(x) # Error
  BY <1>1, <1>2
<1>4. ~Outcome(NoResult) /\ Outcome(Error) /\ \A x : Outcome(Ok(x))
  BY <1>3 DEF Outcome
<1>5. /\ "handshake" \notin Calling /\ "started" \notin Calling /\ "failed" \notin Calling
      /\ "timedOut" \notin Calling
  BY DEF Calling
<1>6. QED  BY <1>3, <1>4, <1>5

\* How far the handshake is when i of the signatures on their way are read.
Shaking(cl, ca, sigs, i) ==
  \/ /\ cl.socket = "open" /\ cl.hs = "S0S1" /\ i = 0
     /\ ca.result = NoResult /\ ca.at = "handshake"
     /\ \/ Len(sigs) = 0
        \/ Len(sigs) = 2 /\ sigs[1].sig = "S0S1"
        \/ Len(sigs) = 1 /\ sigs[1].sig # "S0S1"
  \/ /\ cl.socket = "open" /\ cl.hs = "S2" /\ i + 1 = Len(sigs)
     /\ ca.result = NoResult /\ ca.at = "handshake"
  \/ cl.socket = "open" /\ cl.hs = "done" /\ i = Len(sigs)
  \/ cl.socket = "failed" /\ i = Len(sigs) /\ DOMAIN cl.pending = {}

\* None of the signatures is the first of the client.
NotFirst(sigs) == IsSeq(sigs) /\ \A i \in 1..Len(sigs) : sigs[i].sig # "C0C1"

\* What the client is in a read, and what it writes.
Side(s) == IsSide(s) /\ CallOk(s.client, s.call) /\ s.client.next \in Nat
Writing(s, p, w, sizes) ==
  /\ AllWritable(s.out) /\ NotFirst(Sigs(Written(s.out)))
  /\ Hearing(p, w, s.out, sizes)

LEMMA NotFirstMore ==
  ASSUME NEW a, NEW b, NotFirst(a), NotFirst(b)
  PROVE  NotFirst(a \o b)
<1>1. IsSeq(a) /\ IsSeq(b)
  BY DEF NotFirst
<1>2. PICK c : c = a \o b
  OBVIOUS
<1>3. PICK la \in Nat, lb \in Nat : la = Len(a) /\ lb = Len(b)
  BY <1>1, IsSeqLen
<1>4. /\ IsSeq(c) /\ Len(c) = la + lb
      /\ \A i \in 1..la : c[i] = a[i]
      /\ \A i \in 1..lb : c[la + i] = b[i]
  BY <1>1, <1>2, <1>3, Concat
<1>5. ASSUME NEW i \in 1..Len(c) PROVE c[i].sig # "C0C1"
  <2>1. CASE i \in 1..la
    BY <2>1, <1>3, <1>4 DEF NotFirst
  <2>2. CASE i \notin 1..la
    <3>1. PICK j \in 1..lb : i = la + j
      <4>1. i - la \in 1..lb /\ i = la + (i - la)
        BY <2>2, <1>3, <1>4, <1>5
      <4>2. QED  BY <4>1
    <3>2. c[i] = b[j]
      BY <3>1, <1>4
    <3>3. QED  BY <3>1, <3>2, <1>3 DEF NotFirst
  <2>3. QED  BY <2>1, <2>2
<1>6. QED  BY <1>2, <1>4, <1>5 DEF NotFirst

LEMMA NotFirstNone == NotFirst(<<>>)
  BY IsEmpty DEF NotFirst

LEMMA SignatureC2 ==
  /\ Said(Signature("C2")) /\ Signature("C2").type = "signature"
  /\ NotFirst(Sigs(Piece(Signature("C2"))))
<1>1. PICK m : m = Signature("C2")
  OBVIOUS
<1>2. m.type = "signature" /\ m.sig = "C2"
  BY <1>1 DEF Signature
<1>3. PICK c : c = [sig |-> "C2"]
  OBVIOUS
<1>4. Piece(m) = << <<c>> >>
  BY <1>2, <1>3 DEF Piece
<1>5. Sigs(<< <<[sig |-> "C2"]>> >>) = <<[sig |-> "C2"]>>
  BY SignaturePiece, Zenon
<1>6. Sigs(Piece(m)) = <<c>>
  BY <1>3, <1>4, <1>5
<1>7. IsSeq(<<c>>) /\ Len(<<c>>) = 1 /\ <<c>>[1] = c /\ c.sig # "C0C1"
  <2>1. IsSeq(<<c>>) /\ Len(<<c>>) = 1 /\ <<c>>[1] = c
    BY IsOne
  <2>2. c.sig # "C0C1"
    BY <1>3
  <2>3. QED  BY <2>1, <2>2
<1>8. NotFirst(<<c>>)
  BY <1>7 DEF NotFirst
<1>9. QED  BY <1>1, <1>2, <1>6, <1>8 DEF Said

LEMMA WriteMore ==
  ASSUME NEW s, NEW p, NEW w, NEW sizes, Writing(s, p, w, sizes), NEW m, Said(m),
         m.type # "chunkSize", NotFirst(Sigs(Piece(m))),
         m.type = "signature" \/ Len(m.payload) = 1 \/ sizes = {RTMP_MAX_CHUNK_SIZE},
         NEW t, t.out = Append(s.out, m)
  PROVE  Writing(t, p, w, sizes)
<1>1. AllWritable(s.out) /\ NotFirst(Sigs(Written(s.out))) /\ Hearing(p, w, s.out, sizes)
  BY DEF Writing
<1>2. Writable(m)
  BY SaidWritable
<1>3. PICK ms, ns : ms = s.out /\ ns = Append(ms, m)
  OBVIOUS
<1>4. AllWritable(ns) /\ Sigs(Written(ns)) = Sigs(Written(ms)) \o Sigs(Piece(m))
  BY <1>1, <1>2, <1>3, WrittenAppend
<1>5. NotFirst(Sigs(Written(ns)))
  BY <1>1, <1>3, <1>4, NotFirstMore
<1>6. Hearing(p, w, ms, sizes)
  BY <1>1, <1>3
<1>7. Hearing(p, w, Append(ms, m), sizes)
  BY <1>6, HearMore
<1>8. t.out = ns
  BY <1>3
<1>9. QED  BY <1>3, <1>4, <1>5, <1>7, <1>8 DEF Writing

\* A message of one cell.
LEMMA ShortSaid ==
  ASSUME NEW m, NEW c, Short(m, c), m.type # "invoke", m.type # "chunkSize"
  PROVE  /\ Said(m) /\ m.type # "chunkSize" /\ Len(m.payload) = 1
         /\ NotFirst(Sigs(Piece(m)))
<1>1. m.type # "signature" /\ Sendable(m) /\ Len(m.payload) = 1
  BY DEF Short
<1>2. Mail(m).type = m.type
  BY DEF Mail
<1>3. Question(Mail(m))
  BY <1>2 DEF Question
<1>4. Said(m)
  BY <1>1, <1>3 DEF Said
<1>5. Sigs(Piece(m)) = <<>>
  BY <1>1, MessagePiece
<1>6. QED  BY <1>1, <1>4, <1>5, NotFirstNone

\* One signature.
LEMMA SignatureStep ==
  ASSUME NEW s, Side(s), NEW sigs, NEW i \in Nat, i < Len(sigs), Len(sigs) \in Nat,
         Shaking(s.client, s.call, sigs, i), NEW p, NEW w, NEW sizes,
         NEW t, t = TakeSignature(s, sigs[i + 1])
  PROVE  /\ Side(t) /\ Shaking(t.client, t.call, sigs, i + 1)
         /\ t.media = s.media /\ t.client.parser = s.client.parser /\ t.call.at = s.call.at
         /\ t.client.beats = s.client.beats /\ t.client.streamId = s.client.streamId
         /\ Writing(s, p, w, sizes) => Writing(t, p, w, sizes)
<1>1. IsSide(s) /\ CallOk(s.client, s.call) /\ s.client.next \in Nat
  BY DEF Side
<1>2. PICK cell : cell = sigs[i + 1]
  OBVIOUS
<1>0. IsSide(s) /\ t = TakeSignature(s, cell)
  BY <1>1, <1>2
<1>3. /\ IsSide(t) /\ t.media = s.media /\ t.call.at = s.call.at
      /\ SameClient(s, t, {"hs", "waits", "socket"})
      /\ \/ /\ s.client.hs = "S0S1" /\ cell.sig = "S0S1"
            /\ t.client.hs = "S2" /\ t.client.waits = s.client.waits
            /\ t.client.socket = s.client.socket /\ t.call.result = s.call.result
            /\ t.out = Append(s.out, Signature("C2"))
         \/ /\ s.client.hs = "S0S1" /\ cell.sig # "S0S1"
            /\ t.client.hs = "S0S1" /\ t.client.waits = FALSE
            /\ t.client.socket = "failed"
            /\ t.call.result = (IF s.client.waits THEN Error ELSE s.call.result)
            /\ t.out = s.out
         \/ /\ s.client.hs # "S0S1"
            /\ t.client.hs = "done" /\ t.client.waits = FALSE
            /\ t.client.socket = s.client.socket /\ t.call.result = Ok(Null)
            /\ t.out = s.out
  <2>1. SignatureTaken(s, cell, t)
    BY <1>0, TakeSignatureFields
  <2>2. QED  BY <2>1 DEF SignatureTaken
<1>4. /\ t.client.pending = s.client.pending /\ t.client.next = s.client.next
      /\ t.client.parser = s.client.parser /\ t.client.beats = s.client.beats
      /\ t.client.streamId = s.client.streamId
  BY <1>3 DEF SameClient, ClientFields
<1>5. /\ s.client.socket = "open" /\ s.client.hs \in {"S0S1", "S2"}
      /\ s.call.result = NoResult /\ s.call.at = "handshake"
      /\ s.client.hs = "S0S1" => /\ i = 0
                                 /\ \/ Len(sigs) = 2 /\ sigs[1].sig = "S0S1"
                                    \/ Len(sigs) = 1 /\ sigs[1].sig # "S0S1"
      /\ s.client.hs = "S2" => i + 1 = Len(sigs)
  BY DEF Shaking
<1>6. s.client.waits = TRUE /\ DOMAIN s.client.pending = {}
  BY <1>1, <1>5, Results DEF CallOk
<1>11. t.call.at = "handshake" /\ t.call.at \in Calling \cup {"handshake"} /\ ~t.client.beats
  <2>1. s.call.at \in Calling \cup {"handshake"}
    BY <1>5
  <2>2. ~s.client.beats
    BY <1>1, <2>1 DEF CallOk
  <2>3. QED  BY <1>3, <1>4, <1>5, <2>1, <2>2
<1>7. CASE s.client.hs = "S0S1" /\ cell.sig = "S0S1"
  <2>1. /\ t.client.hs = "S2" /\ t.client.waits = TRUE
        /\ t.client.socket = "open" /\ t.call.result = NoResult
        /\ t.out = Append(s.out, Signature("C2"))
    BY <1>3, <1>5, <1>6, <1>7
  <2>2. (i + 1) + 1 = Len(sigs)
    BY <1>2, <1>5, <1>7
  <2>3. Shaking(t.client, t.call, sigs, i + 1)
    BY <2>1, <2>2, <1>3, <1>5 DEF Shaking
  <2>4. CallOk(t.client, t.call)
    BY <2>1, <1>3, <1>4, <1>5, <1>6, <1>11, Results DEF CallOk
  <2>5. Writing(s, p, w, sizes) => Writing(t, p, w, sizes)
    <3>1. PICK m : m = Signature("C2")
      OBVIOUS
    <3>2. Said(m) /\ m.type = "signature" /\ m.type # "chunkSize" /\ NotFirst(Sigs(Piece(m)))
      BY <3>1, SignatureC2
    <3>3. t.out = Append(s.out, m)
      BY <2>1, <3>1
    <3>4. QED  BY <3>2, <3>3, WriteMore
  <2>6. QED  BY <1>1, <1>3, <1>4, <2>3, <2>4, <2>5 DEF Side
<1>8. CASE s.client.hs = "S0S1" /\ cell.sig # "S0S1"
  <2>1. /\ t.client.hs = "S0S1" /\ t.client.waits = FALSE
        /\ t.client.socket = "failed" /\ t.call.result = Error
        /\ t.out = s.out
    BY <1>3, <1>5, <1>6, <1>8
  <2>2. i + 1 = Len(sigs)
    BY <1>2, <1>5, <1>8
  <2>3. Shaking(t.client, t.call, sigs, i + 1)
    BY <2>1, <2>2, <1>4, <1>6 DEF Shaking
  <2>4. CallOk(t.client, t.call)
    BY <2>1, <1>4, <1>6, <1>11, Results DEF CallOk
  <2>5. Writing(s, p, w, sizes) => Writing(t, p, w, sizes)
    BY <2>1 DEF Writing
  <2>6. QED  BY <1>1, <1>3, <1>4, <2>3, <2>4, <2>5 DEF Side
<1>9. CASE s.client.hs # "S0S1"
  <2>1. /\ t.client.hs = "done" /\ t.client.waits = FALSE
        /\ t.client.socket = "open" /\ t.call.result = Ok(Null)
        /\ t.out = s.out
    BY <1>3, <1>5, <1>9
  <2>2. i + 1 = Len(sigs)
    BY <1>5, <1>9
  <2>3. Shaking(t.client, t.call, sigs, i + 1)
    BY <2>1, <2>2 DEF Shaking
  <2>4. CallOk(t.client, t.call)
    BY <2>1, <1>4, <1>6, <1>11, Results DEF CallOk
  <2>5. Writing(s, p, w, sizes) => Writing(t, p, w, sizes)
    BY <2>1 DEF Writing
  <2>6. QED  BY <1>1, <1>3, <1>4, <2>3, <2>4, <2>5 DEF Side
<1>10. QED  BY <1>7, <1>8, <1>9

\* While a command is pending, the connection is open.
LiveClient(cl) == DOMAIN cl.pending # {} => cl.socket = "open"

\* media are messages among the first n of hs.
MediaOf(media, hs, n) ==
  IsSeq(media) /\ \A i \in 1..Len(media) :
                    \E j \in 1..n : media[i] = hs[j] /\ hs[j].type \in Media

\* What stays as it is while messages are handled.
SameCourse(s, t) ==
  /\ t.call.at = s.call.at /\ t.client.socket = s.client.socket /\ t.client.hs = s.client.hs
  /\ t.client.parser = s.client.parser /\ t.client.beats = s.client.beats
  /\ t.client.streamId = s.client.streamId

LEMMA SettledStep ==
  ASSUME NEW s, Side(s), LiveClient(s.client), NEW sigs, Shaking(s.client, s.call, sigs, 0),
         NEW id \in DOMAIN s.client.pending, NEW r, Outcome(r), NEW t, t = Settled(s, id, r)
  PROVE  /\ Side(t) /\ LiveClient(t.client) /\ Shaking(t.client, t.call, sigs, 0)
         /\ t.out = s.out /\ t.media = s.media /\ SameCourse(s, t)
<1>1. IsSide(s) /\ CallOk(s.client, s.call) /\ s.client.next \in Nat
  BY DEF Side
<1>2. /\ IsSide(t) /\ SameClient(s, t, {"pending"})
      /\ t.client.pending = Without(s.client.pending, id)
      /\ t.call.at = s.call.at
      /\ t.call.result = (IF s.call.at = s.client.pending[id] THEN r ELSE s.call.result)
      /\ t.out = s.out /\ t.media = s.media
  BY <1>1, SettledFields
<1>3. /\ t.client.socket = s.client.socket /\ t.client.hs = s.client.hs
      /\ t.client.parser = s.client.parser /\ t.client.beats = s.client.beats
      /\ t.client.streamId = s.client.streamId /\ t.client.next = s.client.next
      /\ t.client.waits = s.client.waits
  BY <1>2 DEF SameClient, ClientFields
<1>4. s.call.result = NoResult /\ s.call.at \in Calling
  BY <1>1, Results DEF CallOk
<1>5. s.client.waits = FALSE /\ Alone(s.client.pending, s.call.at) /\ s.client.socket = "open"
  BY <1>1, <1>4 DEF CallOk, LiveClient
<1>6. DOMAIN s.client.pending = {id} /\ s.client.pending[id] = s.call.at
  BY <1>5 DEF Alone
<1>7. DOMAIN t.client.pending = {}
  BY <1>2, <1>6 DEF Without
<1>8. t.call.result = r /\ r # NoResult
  BY <1>2, <1>6, Results
<1>9. CallOk(t.client, t.call)
  <2>1. t.call.at \in Calling \cup {"handshake"}
    BY <1>2, <1>4
  <2>2. ~s.client.beats
    BY <1>1, <1>4 DEF CallOk
  <2>3. ~t.client.beats
    BY <1>3, <2>2
  <2>4. QED  BY <1>3, <1>5, <1>7, <1>8, <2>1, <2>3 DEF CallOk
<1>10. s.call.at # "handshake"
  BY <1>4, Results
<1>11. Shaking(t.client, t.call, sigs, 0)
  BY <1>3, <1>6, <1>10 DEF Shaking
<1>12. QED  BY <1>1, <1>2, <1>3, <1>7, <1>9, <1>11 DEF Side, LiveClient, SameCourse

LEMMA HandlerStep ==
  ASSUME NEW s, Side(s), LiveClient(s.client), NEW sigs, Shaking(s.client, s.call, sigs, 0),
         NEW h, NEW t, t = ClientHandler(s, h), NEW p, NEW w, NEW sizes
  PROVE  /\ Side(t) /\ LiveClient(t.client) /\ Shaking(t.client, t.call, sigs, 0)
         /\ SameCourse(s, t)
         /\ Writing(s, p, w, sizes) => Writing(t, p, w, sizes)
         /\ t.media = s.media \/ (h.type \in Media /\ t.media = Append(s.media, h))
<1>1. IsSide(s)
  BY DEF Side
<1>2. \/ t = s
      \/ \E id \in DOMAIN s.client.pending : \E r : Outcome(r) /\ t = Settled(s, id, r)
      \/ /\ IsSide(t) /\ t.client = s.client /\ t.call = s.call /\ t.media = s.media
         /\ t.out = Append(s.out, UserEvent("pong"))
      \/ /\ IsSide(t) /\ t.client = s.client /\ t.call = s.call /\ t.out = s.out
         /\ h.type \in {"audio", "video", "data"} /\ t.media = Append(s.media, h)
  BY <1>1, ClientHandlerFields
<1>3. CASE t = s
  BY <1>3 DEF SameCourse
<1>4. CASE \E id \in DOMAIN s.client.pending : \E r : Outcome(r) /\ t = Settled(s, id, r)
  <2>1. PICK id, r : /\ id \in DOMAIN s.client.pending /\ Outcome(r)
                    /\ t = Settled(s, id, r)
    BY <1>4
  <2>2. /\ Side(t) /\ LiveClient(t.client) /\ Shaking(t.client, t.call, sigs, 0)
        /\ t.out = s.out /\ t.media = s.media /\ SameCourse(s, t)
    BY <2>1, SettledStep
  <2>3. QED  BY <2>2 DEF Writing
<1>5. CASE /\ IsSide(t) /\ t.client = s.client /\ t.call = s.call /\ t.media = s.media
           /\ t.out = Append(s.out, UserEvent("pong"))
  <2>1. PICK m : m = UserEvent("pong")
    OBVIOUS
  <2>2. PICK c : Short(m, c) /\ m.type = "event"
    BY <2>1, Controls
  <2>3. m.type # "invoke" /\ m.type # "chunkSize"
    BY <2>2
  <2>4. /\ Said(m) /\ m.type # "chunkSize" /\ Len(m.payload) = 1
        /\ NotFirst(Sigs(Piece(m)))
    BY <2>2, <2>3, ShortSaid
  <2>5. t.out = Append(s.out, m)
    BY <1>5, <2>1
  <2>6. Writing(s, p, w, sizes) => Writing(t, p, w, sizes)
    BY <2>4, <2>5, WriteMore
  <2>7. Side(t) /\ SameCourse(s, t)
    BY <1>5 DEF Side, SameCourse
  <2>8. QED  BY <1>5, <2>6, <2>7
<1>6. CASE /\ IsSide(t) /\ t.client = s.client /\ t.call = s.call /\ t.out = s.out
           /\ h.type \in {"audio", "video", "data"} /\ t.media = Append(s.media, h)
  <2>1. Writing(s, p, w, sizes) => Writing(t, p, w, sizes)
    BY <1>6 DEF Writing
  <2>2. Side(t) /\ SameCourse(s, t) /\ h.type \in Media
    BY <1>6 DEF Side, SameCourse, Media
  <2>3. QED  BY <1>6, <2>1, <2>2
<1>7. QED  BY <1>2, <1>3, <1>4, <1>5, <1>6

LEMMA MediaMore ==
  ASSUME NEW media, NEW hs, NEW n \in Nat, MediaOf(media, hs, n), NEW more,
         more = media \/ (hs[n + 1].type \in Media /\ more = Append(media, hs[n + 1]))
  PROVE  MediaOf(more, hs, n + 1)
<1>1. IsSeq(media)
  BY DEF MediaOf
<1>2. CASE more = media
  <2>1. 1..n \subseteq 1..(n + 1)
    OBVIOUS
  <2>2. QED  BY <2>1, <1>2 DEF MediaOf
<1>3. CASE hs[n + 1].type \in Media /\ more = Append(media, hs[n + 1])
  <2>1. PICK x : x = hs[n + 1]
    OBVIOUS
  <2>2. /\ IsSeq(Append(media, x)) /\ Len(Append(media, x)) = Len(media) + 1
        /\ \A i \in 1..Len(media) : Append(media, x)[i] = media[i]
        /\ Append(media, x)[Len(media) + 1] = x
    BY <1>1, AppendIs
  <2>3. Len(media) \in Nat
    BY <1>1, IsSeqLen
  <2>4. more = Append(media, x)
    BY <1>3, <2>1
  <2>5. ASSUME NEW i \in 1..Len(more)
        PROVE  \E j \in 1..(n + 1) : more[i] = hs[j] /\ hs[j].type \in Media
    <3>1. CASE i \in 1..Len(media)
      <4>1. PICK j \in 1..n : media[i] = hs[j] /\ hs[j].type \in Media
        BY <3>1 DEF MediaOf
      <4>2. j \in 1..(n + 1) /\ more[i] = media[i]
        BY <3>1, <2>2, <2>4
      <4>3. QED  BY <4>1, <4>2
    <3>2. CASE i \notin 1..Len(media)
      <4>1. i = Len(media) + 1
        BY <3>2, <2>2, <2>3, <2>4, <2>5
      <4>2. more[i] = hs[n + 1] /\ n + 1 \in 1..(n + 1)
        BY <4>1, <2>1, <2>2, <2>4
      <4>3. QED  BY <4>2, <1>3
    <3>3. QED  BY <3>1, <3>2
  <2>6. QED  BY <2>2, <2>4, <2>5 DEF MediaOf
<1>4. QED  BY <1>2, <1>3

\* The signatures of a read.
LEMMA SignaturesTaken ==
  ASSUME NEW s, Side(s), NEW a, NEW b, IsSeq(a), IsSeq(b),
         Shaking(s.client, s.call, a \o b, 0), NEW p, NEW w, NEW sizes,
         NEW t, t = SignatureAll(s, a)
  PROVE  /\ Side(t) /\ Shaking(t.client, t.call, b, 0)
         /\ t.media = s.media /\ t.client.parser = s.client.parser /\ t.call.at = s.call.at
         /\ t.client.beats = s.client.beats /\ t.client.streamId = s.client.streamId
         /\ Writing(s, p, w, sizes) => Writing(t, p, w, sizes)
<1>1. PICK sigs : sigs = a \o b
  OBVIOUS
<1>2. PICK n \in Nat, k \in Nat : n = Len(a) /\ k = Len(b)
  BY IsSeqLen
<1>3. /\ IsSeq(sigs) /\ Len(sigs) = n + k /\ \A i \in 1..n : sigs[i] = a[i]
  BY <1>1, <1>2, Concat
<1>4. PICK g : /\ g[0] = s
               /\ \A i \in 1..n : g[i] = TakeSignature(g[i - 1], a[i])
               /\ t = g[n]
  <2>1. PICK g : /\ g[0] = s
                 /\ \A i \in 1..Len(a) : g[i] = TakeSignature(g[i - 1], a[i])
                 /\ SignatureAll(s, a) = g[Len(a)]
    BY SignatureFold
  <2>2. QED  BY <1>2, <2>1
<1>5. PICK S : S = {i \in Nat : i <= n =>
                      /\ Side(g[i]) /\ Shaking(g[i].client, g[i].call, sigs, i)
                      /\ g[i].media = s.media /\ g[i].client.parser = s.client.parser
                      /\ g[i].call.at = s.call.at /\ g[i].client.beats = s.client.beats
                      /\ g[i].client.streamId = s.client.streamId
                      /\ Writing(s, p, w, sizes) => Writing(g[i], p, w, sizes)}
  OBVIOUS
<1>6. 0 \in S
  BY <1>1, <1>4, <1>5
<1>7. ASSUME NEW i \in Nat, i \in S PROVE i + 1 \in S
  <2>1. SUFFICES ASSUME i + 1 <= n
                 PROVE  /\ Side(g[i + 1]) /\ Shaking(g[i + 1].client, g[i + 1].call, sigs, i + 1)
                        /\ g[i + 1].media = s.media
                        /\ g[i + 1].client.parser = s.client.parser
                        /\ g[i + 1].call.at = s.call.at
                        /\ g[i + 1].client.beats = s.client.beats
                        /\ g[i + 1].client.streamId = s.client.streamId
                        /\ Writing(s, p, w, sizes) => Writing(g[i + 1], p, w, sizes)
    BY <1>5
  <2>2. /\ i <= n /\ i + 1 \in 1..n /\ (i + 1) - 1 = i /\ i < Len(sigs) /\ Len(sigs) \in Nat
    BY <2>1, <1>2, <1>3
  <2>3. PICK u, v : u = g[i] /\ v = g[i + 1]
    OBVIOUS
  <2>4. /\ Side(u) /\ Shaking(u.client, u.call, sigs, i)
        /\ u.media = s.media /\ u.client.parser = s.client.parser
        /\ u.call.at = s.call.at /\ u.client.beats = s.client.beats
        /\ u.client.streamId = s.client.streamId
        /\ Writing(s, p, w, sizes) => Writing(u, p, w, sizes)
    BY <1>5, <1>7, <2>2, <2>3
  <2>5. v = TakeSignature(u, sigs[i + 1])
    BY <1>3, <1>4, <2>2, <2>3
  <2>6. /\ Side(v) /\ Shaking(v.client, v.call, sigs, i + 1)
        /\ v.media = u.media /\ v.client.parser = u.client.parser /\ v.call.at = u.call.at
        /\ v.client.beats = u.client.beats /\ v.client.streamId = u.client.streamId
        /\ Writing(u, p, w, sizes) => Writing(v, p, w, sizes)
    BY <2>2, <2>4, <2>5, SignatureStep
  <2>7. QED  BY <2>3, <2>4, <2>6
<1>8. n \in S
  BY <1>6, <1>7, Climb
<1>9. /\ Side(t) /\ Shaking(t.client, t.call, sigs, n)
      /\ t.media = s.media /\ t.client.parser = s.client.parser
      /\ t.call.at = s.call.at /\ t.client.beats = s.client.beats
      /\ t.client.streamId = s.client.streamId
      /\ Writing(s, p, w, sizes) => Writing(t, p, w, sizes)
  <2>1. n <= n
    OBVIOUS
  <2>2. QED  BY <2>1, <1>4, <1>5, <1>8
<1>10. Shaking(t.client, t.call, b, 0)
  <2>1. n = 0 => sigs = b
    <3>1. SUFFICES ASSUME n = 0 PROVE sigs = b
      OBVIOUS
    <3>2. a = <<>>
      BY <3>1, <1>2, EmptyLen
    <3>3. QED  BY <3>2, <1>1, ConcatEmpty
  <2>2. CASE /\ t.client.socket = "open" /\ t.client.hs = "S0S1" /\ n = 0
             /\ t.call.result = NoResult /\ t.call.at = "handshake"
             /\ \/ Len(sigs) = 0
                \/ Len(sigs) = 2 /\ sigs[1].sig = "S0S1"
                \/ Len(sigs) = 1 /\ sigs[1].sig # "S0S1"
    BY <2>1, <2>2 DEF Shaking
  <2>3. CASE /\ t.client.socket = "open" /\ t.client.hs = "S2" /\ n + 1 = Len(sigs)
             /\ t.call.result = NoResult /\ t.call.at = "handshake"
    <3>1. 0 + 1 = Len(b)
      BY <2>3, <1>2, <1>3
    <3>2. QED  BY <3>1, <2>3 DEF Shaking
  <2>4. CASE t.client.socket = "open" /\ t.client.hs = "done" /\ n = Len(sigs)
    <3>1. 0 = Len(b)
      BY <2>4, <1>2, <1>3
    <3>2. QED  BY <3>1, <2>4 DEF Shaking
  <2>5. CASE t.client.socket = "failed" /\ n = Len(sigs) /\ DOMAIN t.client.pending = {}
    <3>1. 0 = Len(b)
      BY <2>5, <1>2, <1>3
    <3>2. QED  BY <3>1, <2>5 DEF Shaking
  <2>6. QED  BY <1>9, <2>2, <2>3, <2>4, <2>5 DEF Shaking
<1>11. QED  BY <1>9, <1>10

\* The messages of a read.
LEMMA MessagesHandled ==
  ASSUME NEW s, Side(s), LiveClient(s.client), NEW sigs, Shaking(s.client, s.call, sigs, 0),
         s.media = <<>>, NEW hs, IsSeq(hs), NEW p, NEW w, NEW sizes,
         NEW t, t = ClientAll(s, hs)
  PROVE  /\ Side(t) /\ LiveClient(t.client) /\ Shaking(t.client, t.call, sigs, 0)
         /\ SameCourse(s, t)
         /\ Writing(s, p, w, sizes) => Writing(t, p, w, sizes)
         /\ MediaOf(t.media, hs, Len(hs))
<1>2. PICK n \in Nat : n = Len(hs)
  BY IsSeqLen
<1>4. PICK g : /\ g[0] = s
               /\ \A i \in 1..n : g[i] = ClientHandler(g[i - 1], hs[i])
               /\ t = g[n]
  <2>1. PICK g : /\ g[0] = s
                 /\ \A i \in 1..Len(hs) : g[i] = ClientHandler(g[i - 1], hs[i])
                 /\ ClientAll(s, hs) = g[Len(hs)]
    BY ClientFold
  <2>2. QED  BY <1>2, <2>1
<1>5. PICK S : S = {i \in Nat : i <= n =>
                      /\ Side(g[i]) /\ LiveClient(g[i].client)
                      /\ Shaking(g[i].client, g[i].call, sigs, 0)
                      /\ SameCourse(s, g[i])
                      /\ Writing(s, p, w, sizes) => Writing(g[i], p, w, sizes)
                      /\ MediaOf(g[i].media, hs, i)}
  OBVIOUS
<1>6. 0 \in S
  <2>1. MediaOf(<<>>, hs, 0)
    BY IsEmpty DEF MediaOf
  <2>2. QED  BY <2>1, <1>4, <1>5 DEF SameCourse
<1>7. ASSUME NEW i \in Nat, i \in S PROVE i + 1 \in S
  <2>1. SUFFICES ASSUME i + 1 <= n
                 PROVE  /\ Side(g[i + 1]) /\ LiveClient(g[i + 1].client)
                        /\ Shaking(g[i + 1].client, g[i + 1].call, sigs, 0)
                        /\ SameCourse(s, g[i + 1])
                        /\ Writing(s, p, w, sizes) => Writing(g[i + 1], p, w, sizes)
                        /\ MediaOf(g[i + 1].media, hs, i + 1)
    BY <1>5
  <2>2. i <= n /\ i + 1 \in 1..n /\ (i + 1) - 1 = i
    BY <2>1
  <2>3. PICK u, v, h : u = g[i] /\ v = g[i + 1] /\ h = hs[i + 1]
    OBVIOUS
  <2>4. /\ Side(u) /\ LiveClient(u.client) /\ Shaking(u.client, u.call, sigs, 0)
        /\ SameCourse(s, u)
        /\ Writing(s, p, w, sizes) => Writing(u, p, w, sizes)
        /\ MediaOf(u.media, hs, i)
    BY <1>5, <1>7, <2>2, <2>3
  <2>5. v = ClientHandler(u, h)
    BY <1>4, <2>2, <2>3
  <2>6. /\ Side(v) /\ LiveClient(v.client) /\ Shaking(v.client, v.call, sigs, 0)
        /\ SameCourse(u, v)
        /\ Writing(u, p, w, sizes) => Writing(v, p, w, sizes)
        /\ v.media = u.media \/ (h.type \in Media /\ v.media = Append(u.media, h))
    BY <2>4, <2>5, HandlerStep
  <2>7. SameCourse(s, v)
    BY <2>4, <2>6 DEF SameCourse
  <2>8. MediaOf(v.media, hs, i + 1)
    <3>1. PICK a, b : a = u.media /\ b = v.media
      OBVIOUS
    <3>2. b = a \/ (hs[i + 1].type \in Media /\ b = Append(a, hs[i + 1]))
      BY <2>3, <2>6, <3>1
    <3>3. MediaOf(a, hs, i)
      BY <2>4, <3>1
    <3>4. MediaOf(b, hs, i + 1)
      BY <3>2, <3>3, MediaMore
    <3>5. QED  BY <3>1, <3>4
  <2>9. QED  BY <2>3, <2>4, <2>6, <2>7, <2>8
<1>8. n \in S
  BY <1>6, <1>7, Climb
<1>9. n <= n
  OBVIOUS
<1>10. QED  BY <1>2, <1>4, <1>5, <1>8, <1>9

LEMMA Unhandled ==
  ASSUME NEW p, IsParser(p), NEW q, q = [p EXCEPT !.handled = <<>>]
  PROVE  IsParser(q) /\ q.handled = <<>> /\ SameState(p, q)
<1>1. DOMAIN p = Fields
  BY DEF IsParser
<1>2. DOMAIN q = Fields /\ q.handled = <<>> /\ SameState(p, q)
  BY <1>1 DEF Fields, SameState
<1>3. QED  BY <1>2, IsEmpty DEF IsParser

LEMMA ReadKeeps ==
  ASSUME NEW p, IsParser(p), NEW cells, IsSeq(cells), NEW z, z = Read(p, cells)
  PROVE  IsParser(z) /\ IsSeq(z.handled)
<1>1. PICK q : q = [p EXCEPT !.handled = <<>>]
  OBVIOUS
<1>2. IsParser(q)
  BY <1>1, Unhandled
<1>3. z = ReadOn(q, cells)
  BY <1>1, ReadReads
<1>4. IsSeq(<<>>)
  BY IsEmpty
<1>5. IsSeq(q.handled)
  BY <1>2 DEF IsParser
<1>6. <<>> \o q.handled = q.handled
  BY <1>5, ConcatEmpty
<1>7. After(<<>>, q, q)
  BY <1>2, <1>4, <1>6 DEF After, SameState
<1>8. PICK e : e = <<>>
  OBVIOUS
<1>9. After(e, q, q)
  BY <1>7, <1>8
<1>10. After(e, ReadOn(q, cells), ReadOn(q, cells))
  BY <1>9, AfterRead
<1>11. IsParser(z)
  BY <1>3, <1>10 DEF After
<1>12. QED  BY <1>11 DEF IsParser

\* Where a failed handshake leaves nothing pending, the connection is open.
LEMMA ShakingLive ==
  ASSUME NEW cl, NEW ca, NEW sigs, NEW i, Shaking(cl, ca, sigs, i)
  PROVE  LiveClient(cl) /\ cl.socket \in {"open", "failed"}
  BY DEF Shaking, LiveClient

\* Handles, after the signatures.
LEMMA HandlesFields ==
  ASSUME NEW t, IsSide(t), NEW z, IsParser(z), NEW r, r = Handles(t, z)
  PROVE  \E u : /\ IsSide(u) /\ SameClient(t, u, {"parser", "quiet"})
                /\ u.client.parser = [z EXCEPT !.handled = <<>>]
                /\ u.call = t.call /\ u.out = t.out /\ u.media = t.media
                /\ r.handled = z.handled /\ r.s = ClientAll(u, z.handled)
<1>1. PICK q : q = [z EXCEPT !.handled = <<>>]
  OBVIOUS
<1>2. PICK u : u = [t EXCEPT !.client.parser = q, !.client.quiet = 0]
  OBVIOUS
<1>3. /\ DOMAIN t = {"client", "call", "out", "media"}
      /\ DOMAIN t.client = ClientFields
  BY DEF IsSide
<1>4. /\ DOMAIN u = {"client", "call", "out", "media"}
      /\ u.call = t.call /\ u.out = t.out /\ u.media = t.media
      /\ DOMAIN u.client = ClientFields
      /\ SameClient(t, u, {"parser", "quiet"}) /\ u.client.parser = q
  BY <1>2, <1>3 DEF ClientFields, SameClient
<1>5. IsSide(u)
  BY <1>4 DEF IsSide
<1>6. r.handled = z.handled
  BY DEF Handles
<1>7. r.s = ClientAll(u, z.handled)
  <2>1. r.s = FoldLeft(ClientHandler,
                       [t EXCEPT !.client.parser = [z EXCEPT !.handled = <<>>],
                                 !.client.quiet = 0], z.handled)
    BY DEF Handles
  <2>2. QED  BY <2>1, <1>1, <1>2, Zenon DEF ClientAll
<1>8. QED  BY <1>1, <1>4, <1>5, <1>6, <1>7

\* A read of the client.
ReadBy(s, r, z, rest) ==
  /\ Side(r.s) /\ Shaking(r.s.client, r.s.call, Sigs(rest), 0)
  /\ r.s.call.at = s.call.at /\ r.s.client.beats = s.client.beats
  /\ r.s.client.streamId = s.client.streamId
  /\ r.s.client.parser = [z EXCEPT !.handled = <<>>] /\ IsParser(z)
  /\ r.handled = z.handled
  /\ MediaOf(r.s.media, z.handled, Len(z.handled))

LEMMA ClientReads ==
  ASSUME NEW s, Side(s), IsParser(s.client.parser), s.media = <<>>,
         NEW chunks, NEW rest, Chunked(chunks), Chunked(rest),
         Shaking(s.client, s.call, Sigs(chunks \o rest), 0),
         NEW p, NEW w, NEW sizes, NEW z, z = Read(s.client.parser, NoSigs(chunks)),
         NEW r, r = HandleData(s, chunks)
  PROVE  ReadBy(s, r, z, rest) /\ (Writing(s, p, w, sizes) => Writing(r.s, p, w, sizes))
<1>1. PICK a, b : a = Sigs(chunks) /\ b = Sigs(rest)
  OBVIOUS
<1>2. Sigs(chunks \o rest) = a \o b /\ IsSeq(a) /\ IsSeq(b) /\ IsSeq(NoSigs(chunks))
  BY <1>1, ChunkedMore, Halves
<1>3. Shaking(s.client, s.call, a \o b, 0)
  BY <1>2
<1>4. PICK t : t = SignatureAll(s, a)
  OBVIOUS
<1>5. /\ Side(t) /\ Shaking(t.client, t.call, b, 0)
      /\ t.media = s.media /\ t.client.parser = s.client.parser /\ t.call.at = s.call.at
      /\ t.client.beats = s.client.beats /\ t.client.streamId = s.client.streamId
      /\ Writing(s, p, w, sizes) => Writing(t, p, w, sizes)
  BY <1>2, <1>3, <1>4, SignaturesTaken
<1>6. IsParser(z) /\ IsSeq(z.handled)
  BY <1>2, ReadKeeps
<1>7. r = Handles(t, z)
  BY <1>1, <1>4, Zenon DEF HandleData, SignatureAll
<1>8. IsSide(t) /\ CallOk(t.client, t.call) /\ t.client.next \in Nat
  BY <1>5 DEF Side
<1>9. PICK u : /\ IsSide(u) /\ SameClient(t, u, {"parser", "quiet"})
               /\ u.client.parser = [z EXCEPT !.handled = <<>>]
               /\ u.call = t.call /\ u.out = t.out /\ u.media = t.media
               /\ r.handled = z.handled /\ r.s = ClientAll(u, z.handled)
  BY <1>6, <1>7, <1>8, HandlesFields
<1>10. /\ u.client.socket = t.client.socket /\ u.client.hs = t.client.hs
       /\ u.client.waits = t.client.waits /\ u.client.pending = t.client.pending
       /\ u.client.next = t.client.next /\ u.client.beats = t.client.beats
       /\ u.client.streamId = t.client.streamId
  BY <1>9 DEF SameClient, ClientFields
<1>11. CallOk(u.client, u.call)
  BY <1>8, <1>9, <1>10 DEF CallOk
<1>12. Side(u)
  BY <1>8, <1>9, <1>10, <1>11 DEF Side
<1>13. Shaking(u.client, u.call, b, 0)
  BY <1>5, <1>9, <1>10 DEF Shaking
<1>14. LiveClient(u.client)
  BY <1>13, ShakingLive
<1>15. u.media = <<>>
  BY <1>5, <1>9
<1>16. PICK v, hs : v = r.s /\ hs = z.handled
  OBVIOUS
<1>17. v = ClientAll(u, hs) /\ IsSeq(hs)
  BY <1>6, <1>9, <1>16
<1>18. /\ Side(v) /\ Shaking(v.client, v.call, b, 0) /\ SameCourse(u, v)
       /\ Writing(u, p, w, sizes) => Writing(v, p, w, sizes)
       /\ MediaOf(v.media, hs, Len(hs))
  BY <1>12, <1>13, <1>14, <1>15, <1>17, MessagesHandled
<1>19. Writing(t, p, w, sizes) => Writing(u, p, w, sizes)
  BY <1>9 DEF Writing
<1>20. /\ v.call.at = s.call.at /\ v.client.beats = s.client.beats
       /\ v.client.streamId = s.client.streamId
       /\ v.client.parser = [z EXCEPT !.handled = <<>>]
  BY <1>5, <1>9, <1>10, <1>18 DEF SameCourse
<1>21. QED  BY <1>1, <1>5, <1>6, <1>9, <1>16, <1>18, <1>19, <1>20 DEF ReadBy

(***************************************************************************)
(* A read of the server.                                                   *)
(***************************************************************************)
ServerFields == {"open", "hs", "parser", "asked", "streams", "streamId", "role"}
AskedOk(a) == a = NoResult \/ \E c, n : c \in Calling /\ n \in Nat /\ Asks(a.opt, c, n)
IsServer(t) == DOMAIN t = {"server", "out"} /\ DOMAIN t.server = ServerFields

\* The server writes messages, and no part of the handshake.
Telling(s, t) ==
  /\ IsServer(t) /\ t.server.open = s.server.open /\ t.server.hs = s.server.hs
  /\ t.server.parser = s.server.parser
  /\ AskedOk(s.server.asked) => AskedOk(t.server.asked)
  /\ AllWritable(s.out) =>
       AllWritable(t.out) /\ Sigs(Written(t.out)) = Sigs(Written(s.out))

LEMMA PlainOne ==
  ASSUME NEW x, x.type # "signature", Sendable(x)
  PROVE  AllPlain(<<x>>)
<1>1. IsSeq(<<x>>) /\ Len(<<x>>) = 1 /\ <<x>>[1] = x
  BY IsOne
<1>2. PICK o : o = <<x>>
  OBVIOUS
<1>3. IsSeq(o) /\ Len(o) = 1 /\ o[1] = x
  BY <1>1, <1>2
<1>4. AllPlain(o)
  BY <1>3 DEF AllPlain
<1>5. QED  BY <1>2, <1>4

LEMMA PlainFour ==
  ASSUME NEW x, x.type # "signature", Sendable(x), NEW y, y.type # "signature", Sendable(y),
         NEW u, u.type # "signature", Sendable(u), NEW v, v.type # "signature", Sendable(v)
  PROVE  AllPlain(<<x, y, u, v>>)
<1>1. IsSeq(<<x, y, u, v>>)
  BY IsFour
<1>2. /\ Len(<<x, y, u, v>>) = 4
      /\ <<x, y, u, v>>[1] = x /\ <<x, y, u, v>>[2] = y
      /\ <<x, y, u, v>>[3] = u /\ <<x, y, u, v>>[4] = v
  BY FourIs
<1>3. PICK o : o = <<x, y, u, v>>
  OBVIOUS
<1>4. IsSeq(o) /\ Len(o) = 4 /\ o[1] = x /\ o[2] = y /\ o[3] = u /\ o[4] = v
  BY <1>1, <1>2, <1>3
<1>5. \A i \in 1..Len(o) : i = 1 \/ i = 2 \/ i = 3 \/ i = 4
  BY <1>4
<1>6. AllPlain(o)
  BY <1>4, <1>5 DEF AllPlain
<1>7. QED  BY <1>3, <1>6

\* Answers are messages.
LEMMA AnswersPlain ==
  /\ \A cmd, id, info : IsValue(id) /\ IsValue(info) =>
       Result(cmd, id, info).type = "invoke" /\ Sendable(Result(cmd, id, info))
  /\ \A sid, code : Status(sid, code).type = "invoke" /\ Sendable(Status(sid, code))
<1>1. ASSUME NEW cmd, NEW id, NEW info, IsValue(id), IsValue(info)
      PROVE  Result(cmd, id, info).type = "invoke" /\ Sendable(Result(cmd, id, info))
  <2>1. PICK opt : HasValues(opt) /\ Result(cmd, id, info) = Invoke(0, opt)
    BY <1>1, ResultIs
  <2>2. PICK m : m = Invoke(0, opt)
    OBVIOUS
  <2>3. m.type = "invoke" /\ Sendable(m)
    BY <2>1, <2>2, InvokeIs
  <2>4. QED  BY <2>1, <2>2, <2>3
<1>2. ASSUME NEW sid, NEW code
      PROVE  Status(sid, code).type = "invoke" /\ Sendable(Status(sid, code))
  <2>1. PICK opt : HasValues(opt) /\ Status(sid, code) = Invoke(sid, opt)
    BY StatusIs
  <2>2. PICK m : m = Invoke(sid, opt)
    OBVIOUS
  <2>3. m.type = "invoke" /\ Sendable(m)
    BY <2>1, <2>2, InvokeIs
  <2>4. QED  BY <2>1, <2>2, <2>3
<1>3. QED  BY <1>1, <1>2

LEMMA AccessPlain ==
  ASSUME NEW m, m = DataMessage(0, [cmd |-> Str("|RtmpSampleAccess"),
                                    bool1 |-> Bool(FALSE), bool2 |-> Bool(FALSE)])
  PROVE  m.type # "signature" /\ Sendable(m)
<1>1. PICK opt : opt = [cmd |-> Str("|RtmpSampleAccess"),
                        bool1 |-> Bool(FALSE), bool2 |-> Bool(FALSE)]
  OBVIOUS
<1>2. HasValues(opt) /\ m = DataMessage(0, opt)
  BY <1>1, SampleAccess
<1>3. QED  BY <1>2, DataIs

WithRole(v, r, sid) == [v EXCEPT !.server.role = r, !.server.streamId = sid]
LEMMA RoleSet ==
  ASSUME NEW v, IsServer(v), NEW r, NEW sid, NEW u, u = WithRole(v, r, sid)
  PROVE  /\ IsServer(u) /\ u.out = v.out
         /\ u.server.open = v.server.open /\ u.server.hs = v.server.hs
         /\ u.server.parser = v.server.parser /\ u.server.asked = v.server.asked
         /\ u.server.streams = v.server.streams
         /\ u.server.role = r /\ u.server.streamId = sid
<1>1. DOMAIN v = {"server", "out"} /\ DOMAIN v.server = ServerFields
  BY DEF IsServer
<1>2. PICK a : a = [v.server EXCEPT !.role = r]
  OBVIOUS
<1>3. DOMAIN a = ServerFields /\ a.role = r /\ \A f \in ServerFields \ {"role"} : a[f] = v.server[f]
  BY <1>1, <1>2 DEF ServerFields
<1>4. PICK b : b = [a EXCEPT !.streamId = sid]
  OBVIOUS
<1>5. /\ DOMAIN b = ServerFields /\ b.streamId = sid
      /\ \A f \in ServerFields \ {"streamId"} : b[f] = a[f]
  BY <1>3, <1>4 DEF ServerFields
<1>6. u = [v EXCEPT !.server = b]
  BY <1>1, <1>2, <1>4 DEF WithRole
<1>7. DOMAIN u = {"server", "out"} /\ u.out = v.out /\ u.server = b
  BY <1>1, <1>6
<1>8. IsServer(u)
  BY <1>5, <1>7 DEF IsServer
<1>9. QED  BY <1>3, <1>5, <1>7, <1>8 DEF ServerFields

\* The branches of NmsInvoke.
Told(t, ms) == [t EXCEPT !.out = @ \o ms]
Made(t, ms) == [Told(t, ms) EXCEPT !.server.streams = @ + 1]
Took(t, ms, role, sid) == WithRole(Told(t, ms), role, sid)
Greeting(d) ==
  <<SendWindowACK, SetPeerBandwidth, SetChunkSize(RTMP_MAX_CHUNK_SIZE),
    Result("_result", d.transId,
           Obj(<<<<"code", Str("NetConnection.Connect.Success")>>>>))>>
StartedMessages(sid) ==
  <<UserEvent("begin"), Status(sid, "NetStream.Play.Reset"),
    Status(sid, "NetStream.Play.Start"),
    DataMessage(0, [cmd |-> Str("|RtmpSampleAccess"),
                    bool1 |-> Bool(FALSE), bool2 |-> Bool(FALSE)])>>
Branches(t, sid, d) ==
  CASE d.cmd = Str("connect") -> Told(t, Greeting(d))
    [] d.cmd = Str("createStream") ->
         Made(t, <<Result("_result", d.transId, Num(t.server.streams + 1))>>)
    [] d.cmd = Str("publish") ->
         Took(t, <<Status(sid, "NetStream.Publish.Start")>>, "publish", sid)
    [] d.cmd = Str("play") -> Took(t, StartedMessages(sid), "play", sid)
    [] OTHER -> t

LEMMA NmsBranches ==
  ASSUME NEW t, NEW sid, NEW d
  PROVE  NmsInvoke(t, sid, d) = Branches(t, sid, d)
  BY Zenon DEF NmsInvoke, Branches, Told, Made, Took, WithRole, Greeting, StartedMessages

LEMMA BranchOf ==
  ASSUME NEW t, NEW sid, NEW d, NEW c, d.cmd = Str(c)
  PROVE  /\ c = "connect" => NmsInvoke(t, sid, d) = Told(t, Greeting(d))
         /\ c = "createStream" =>
              NmsInvoke(t, sid, d)
                = Made(t, <<Result("_result", d.transId, Num(t.server.streams + 1))>>)
         /\ c = "publish" =>
              NmsInvoke(t, sid, d)
                = Took(t, <<Status(sid, "NetStream.Publish.Start")>>, "publish", sid)
         /\ c = "play" => NmsInvoke(t, sid, d) = Took(t, StartedMessages(sid), "play", sid)
<1>1. \A x, y : Str(x) = Str(y) => x = y
  BY Zenon DEF Str
<1>2. /\ Str("connect") # Str("createStream") /\ Str("connect") # Str("publish")
      /\ Str("connect") # Str("play") /\ Str("createStream") # Str("publish")
      /\ Str("createStream") # Str("play") /\ Str("publish") # Str("play")
  BY <1>1
<1>3. PICK a, b, e, f : a = Str("connect") /\ b = Str("createStream") /\ e = Str("publish")
                        /\ f = Str("play")
  OBVIOUS
<1>4. a # b /\ a # e /\ a # f /\ b # e /\ b # f /\ e # f
  BY <1>2, <1>3
<1>5. NmsInvoke(t, sid, d) =
        CASE d.cmd = a -> Told(t, Greeting(d))
          [] d.cmd = b ->
               Made(t, <<Result("_result", d.transId, Num(t.server.streams + 1))>>)
          [] d.cmd = e ->
               Took(t, <<Status(sid, "NetStream.Publish.Start")>>, "publish", sid)
          [] d.cmd = f -> Took(t, StartedMessages(sid), "play", sid)
          [] OTHER -> t
  BY <1>3, NmsBranches, Zenon DEF Branches
<1>6. c = "connect" => d.cmd = a
  BY <1>3
<1>7. c = "createStream" => d.cmd = b
  BY <1>3
<1>8. c = "publish" => d.cmd = e
  BY <1>3
<1>9. c = "play" => d.cmd = f
  BY <1>3
<1>10. QED  BY <1>4, <1>5, <1>6, <1>7, <1>8, <1>9

LEMMA ToldFields ==
  ASSUME NEW t, IsServer(t), NEW ms, NEW v, v = Told(t, ms)
  PROVE  IsServer(v) /\ v.server = t.server /\ v.out = t.out \o ms
<1>1. DOMAIN t = {"server", "out"}
  BY DEF IsServer
<1>2. DOMAIN v = {"server", "out"} /\ v.server = t.server /\ v.out = t.out \o ms
  BY <1>1 DEF Told
<1>3. QED  BY <1>2 DEF IsServer

GrownBy(t, u, ms) ==
  /\ IsServer(u) /\ u.out = t.out \o ms
  /\ u.server.streams = t.server.streams + 1
  /\ u.server.open = t.server.open /\ u.server.hs = t.server.hs
  /\ u.server.parser = t.server.parser /\ u.server.asked = t.server.asked
  /\ u.server.role = t.server.role /\ u.server.streamId = t.server.streamId

LEMMA MadeFields ==
  ASSUME NEW t, IsServer(t), NEW ms, NEW u, u = Made(t, ms)
  PROVE  GrownBy(t, u, ms)
<1>1. PICK v : v = Told(t, ms)
  OBVIOUS
<1>2. IsServer(v) /\ v.server = t.server /\ v.out = t.out \o ms
  BY <1>1, ToldFields
<1>3. u = [v EXCEPT !.server.streams = @ + 1]
  BY <1>1 DEF Made
<1>4. DOMAIN v = {"server", "out"} /\ DOMAIN v.server = ServerFields
  BY <1>2 DEF IsServer
<1>5. QED  BY <1>2, <1>3, <1>4 DEF IsServer, ServerFields, GrownBy

LEMMA TookFields ==
  ASSUME NEW t, IsServer(t), NEW ms, NEW r, NEW sid, NEW u, u = Took(t, ms, r, sid)
  PROVE  /\ IsServer(u) /\ u.out = t.out \o ms
         /\ u.server.open = t.server.open /\ u.server.hs = t.server.hs
         /\ u.server.parser = t.server.parser /\ u.server.asked = t.server.asked
         /\ u.server.streams = t.server.streams
         /\ u.server.role = r /\ u.server.streamId = sid
<1>1. PICK v : v = Told(t, ms)
  OBVIOUS
<1>2. IsServer(v) /\ v.server = t.server /\ v.out = t.out \o ms
  BY <1>1, ToldFields
<1>3. u = WithRole(v, r, sid)
  BY <1>1 DEF Took
<1>4. QED  BY <1>2, <1>3, RoleSet

\* What the server says of a command.
Replied(t, d, ms, streams) ==
  /\ AllPlain(ms)
  /\ \/ d.cmd = Str("connect") /\ streams = t.server.streams /\ ms = Greeting(d)
     \/ /\ d.cmd = Str("createStream") /\ streams = t.server.streams + 1
        /\ ms = <<Result("_result", d.transId, Num(streams))>>
     \/ /\ d.cmd = Str("publish") \/ d.cmd = Str("play")
        /\ streams = t.server.streams

LEMMA NmsInvokeFields ==
  ASSUME NEW t, IsServer(t), NEW sid, NEW d, NEW c \in Calling, NEW n, Asks(d, c, n),
         NEW u, u = NmsInvoke(t, sid, d)
  PROVE  /\ Telling(t, u)
         /\ \E ms : Replied(t, d, ms, u.server.streams) /\ u.out = t.out \o ms
         /\ u.server.role = (IF c \in {"publish", "play"} THEN c ELSE t.server.role)
         /\ u.server.streamId = (IF c \in {"publish", "play"} THEN sid ELSE t.server.streamId)
<1>1. d.cmd = Str(c) /\ d.transId = Num(n) /\ IsValue(Num(n))
  BY SimpleValues DEF Asks
<1>2. \A x, y : Str(x) = Str(y) => x = y
  BY Zenon DEF Str
<1>3. c \in {"connect", "createStream", "play", "publish"}
  BY DEF Calling
<1>4. DOMAIN t = {"server", "out"} /\ DOMAIN t.server = ServerFields
  BY DEF IsServer
<1>5. ASSUME NEW ms, AllPlain(ms), u.out = t.out \o ms, IsServer(u),
             u.server.open = t.server.open, u.server.hs = t.server.hs,
             u.server.parser = t.server.parser, u.server.asked = t.server.asked
      PROVE  Telling(t, u)
  <2>1. AllWritable(t.out) => /\ AllWritable(t.out \o ms)
                              /\ Sigs(Written(t.out \o ms)) = Sigs(Written(t.out))
    BY <1>5, TellAll
  <2>2. QED  BY <1>5, <2>1 DEF Telling
<1>6. CASE c = "connect"
  <2>1. PICK ms : ms = Greeting(d)
    OBVIOUS
  <2>2. u = Told(t, ms)
    BY <1>1, <1>6, <2>1, BranchOf
  <2>3. IsServer(u) /\ u.server = t.server /\ u.out = t.out \o ms
    BY <2>2, ToldFields
  <2>4. PICK info : info = Obj(<<<<"code", Str("NetConnection.Connect.Success")>>>>)
    OBVIOUS
  <2>5. IsValue(info)
    BY <2>4, ObjectValues
  <2>6. PICK m : m = Result("_result", d.transId, info)
    OBVIOUS
  <2>7. m.type # "signature" /\ Sendable(m)
    BY <1>1, <2>5, <2>6, AnswersPlain
  <2>8. /\ SendWindowACK.type # "signature" /\ Sendable(SendWindowACK)
        /\ SetPeerBandwidth.type # "signature" /\ Sendable(SetPeerBandwidth)
        /\ SetChunkSize(RTMP_MAX_CHUNK_SIZE).type # "signature"
        /\ Sendable(SetChunkSize(RTMP_MAX_CHUNK_SIZE))
    BY Controls DEF Short
  <2>9. ms = <<SendWindowACK, SetPeerBandwidth, SetChunkSize(RTMP_MAX_CHUNK_SIZE), m>>
    BY <2>1, <2>4, <2>6 DEF Greeting
  <2>10. AllPlain(ms)
    BY <2>7, <2>8, <2>9, PlainFour
  <2>11. Telling(t, u)
    BY <1>5, <2>3, <2>10
  <2>12. c \notin {"publish", "play"}
    BY <1>6
  <2>13. d.cmd = Str("connect")
    BY <1>1, <1>6
  <2>14. Replied(t, d, ms, u.server.streams)
    BY <2>1, <2>3, <2>10, <2>13 DEF Replied
  <2>15. QED  BY <2>3, <2>11, <2>12, <2>14
<1>7. CASE c = "createStream"
  <2>1. PICK m, n2 : n2 = t.server.streams + 1 /\ m = Result("_result", d.transId, Num(n2))
    OBVIOUS
  <2>2. u = Made(t, <<m>>)
    BY <1>1, <1>7, <2>1, BranchOf
  <2>4. PICK ms : ms = <<m>>
    OBVIOUS
  <2>7. /\ IsServer(u) /\ u.out = t.out \o <<m>>
        /\ u.server.streams = n2
        /\ u.server.open = t.server.open /\ u.server.hs = t.server.hs
        /\ u.server.parser = t.server.parser /\ u.server.asked = t.server.asked
        /\ u.server.role = t.server.role /\ u.server.streamId = t.server.streamId
    <3>1. u = Made(t, ms)
      BY <2>2, <2>4
    <3>2. GrownBy(t, u, ms)
      BY <3>1, MadeFields
    <3>3. QED  BY <3>2, <2>1, <2>4 DEF GrownBy
  <2>8. IsValue(Num(n2))
    BY SimpleValues
  <2>9. m.type # "signature" /\ Sendable(m)
    BY <1>1, <2>1, <2>8, AnswersPlain
  <2>10. AllPlain(<<m>>)
    BY <2>9, PlainOne
  <2>11. Telling(t, u)
    BY <1>5, <2>7, <2>10
  <2>12. c \notin {"publish", "play"}
    BY <1>7
  <2>3. d.cmd = Str("createStream")
    BY <1>1, <1>7
  <2>13. Replied(t, d, <<m>>, u.server.streams)
    BY <2>1, <2>3, <2>7, <2>10 DEF Replied
  <2>14. QED  BY <2>7, <2>11, <2>12, <2>13
<1>8. CASE c = "publish"
  <2>1. PICK m : m = Status(sid, "NetStream.Publish.Start")
    OBVIOUS
  <2>2. u = Took(t, <<m>>, "publish", sid)
    BY <1>1, <1>8, <2>1, BranchOf
  <2>4. PICK ms : ms = <<m>>
    OBVIOUS
  <2>7. /\ IsServer(u) /\ u.out = t.out \o <<m>>
        /\ u.server.open = t.server.open /\ u.server.hs = t.server.hs
        /\ u.server.parser = t.server.parser /\ u.server.asked = t.server.asked
        /\ u.server.streams = t.server.streams
        /\ u.server.role = "publish" /\ u.server.streamId = sid
    <3>1. PICK r : r = "publish"
      OBVIOUS
    <3>2. u = Took(t, ms, r, sid)
      BY <2>2, <2>4, <3>1
    <3>3. /\ IsServer(u) /\ u.out = t.out \o ms
          /\ u.server.open = t.server.open /\ u.server.hs = t.server.hs
          /\ u.server.parser = t.server.parser /\ u.server.asked = t.server.asked
          /\ u.server.streams = t.server.streams
          /\ u.server.role = r /\ u.server.streamId = sid
      BY <3>2, TookFields
    <3>4. QED  BY <3>1, <3>3, <2>4
  <2>8. m.type # "signature" /\ Sendable(m)
    BY <2>1, AnswersPlain
  <2>9. AllPlain(<<m>>)
    BY <2>8, PlainOne
  <2>10. Telling(t, u)
    BY <1>5, <2>7, <2>9
  <2>11. c \in {"publish", "play"}
    BY <1>8
  <2>3. d.cmd = Str("publish")
    BY <1>1, <1>8
  <2>12. Replied(t, d, <<m>>, u.server.streams)
    BY <2>3, <2>7, <2>9 DEF Replied
  <2>13. QED  BY <2>7, <2>10, <2>11, <2>12, <1>8
<1>9. CASE c = "play"
  <2>1. PICK a, b, e, m : /\ a = UserEvent("begin") /\ b = Status(sid, "NetStream.Play.Reset")
                          /\ e = Status(sid, "NetStream.Play.Start")
                          /\ m = DataMessage(0, [cmd |-> Str("|RtmpSampleAccess"),
                                                 bool1 |-> Bool(FALSE),
                                                 bool2 |-> Bool(FALSE)])
    OBVIOUS
  <2>3. PICK ms : ms = StartedMessages(sid)
    OBVIOUS
  <2>4. ms = <<a, b, e, m>>
    BY <2>1, <2>3 DEF StartedMessages
  <2>5. u = Took(t, ms, "play", sid)
    BY <1>1, <1>9, <2>3, BranchOf
  <2>8. /\ IsServer(u) /\ u.out = t.out \o ms
        /\ u.server.open = t.server.open /\ u.server.hs = t.server.hs
        /\ u.server.parser = t.server.parser /\ u.server.asked = t.server.asked
        /\ u.server.streams = t.server.streams
        /\ u.server.role = "play" /\ u.server.streamId = sid
    BY <2>5, TookFields
  <2>9. a.type # "signature" /\ Sendable(a)
    BY <2>1, Controls DEF Short
  <2>10. b.type # "signature" /\ Sendable(b) /\ e.type # "signature" /\ Sendable(e)
    BY <2>1, AnswersPlain
  <2>11. m.type # "signature" /\ Sendable(m)
    BY <2>1, AccessPlain
  <2>12. AllPlain(ms)
    BY <2>4, <2>9, <2>10, <2>11, PlainFour
  <2>13. Telling(t, u)
    BY <1>5, <2>8, <2>12
  <2>14. c \in {"publish", "play"}
    BY <1>9
  <2>2. d.cmd = Str("play")
    BY <1>1, <1>9
  <2>15. Replied(t, d, ms, u.server.streams)
    BY <2>2, <2>8, <2>12 DEF Replied
  <2>16. QED  BY <2>8, <2>13, <2>14, <2>15, <1>9
<1>10. QED  BY <1>3, <1>6, <1>7, <1>8, <1>9

\* One message.
LEMMA ServerStep ==
  ASSUME NEW t, IsServer(t), NEW h, Question(h), NEW u, u = ServerHandler(t, h)
  PROVE  Telling(t, u)
<1>1. CASE h.type = "invoke"
  <2>1. PICK d : d = DecodeAmf0Cmd(h.payload)
    OBVIOUS
  <2>2. PICK c, n : c \in Calling /\ n \in Nat /\ Asks(d, c, n)
    BY <1>1, <2>1 DEF Question
  <2>3. CASE remote = "nms"
    <3>1. u = NmsInvoke(t, h.sid, d)
      BY <1>1, <2>1, <2>3 DEF ServerHandler, NmsHandler
    <3>2. QED  BY <2>2, <3>1, NmsInvokeFields
  <2>4. CASE remote # "nms"
    <3>1. PICK a : a = [opt |-> d, sid |-> h.sid]
      OBVIOUS
    <3>2. u = [t EXCEPT !.server.asked = a]
      BY <1>1, <2>1, <2>4, <3>1 DEF ServerHandler, OtherHandler
    <3>3. a.opt = d
      BY <3>1
    <3>4. AskedOk(a)
      BY <2>2, <3>3 DEF AskedOk
    <3>5. DOMAIN t = {"server", "out"} /\ DOMAIN t.server = ServerFields
      BY DEF IsServer
    <3>6. /\ DOMAIN u = {"server", "out"} /\ u.out = t.out
          /\ DOMAIN u.server = ServerFields /\ u.server.asked = a
          /\ u.server.open = t.server.open /\ u.server.hs = t.server.hs
          /\ u.server.parser = t.server.parser
      BY <3>2, <3>5 DEF ServerFields
    <3>7. QED  BY <3>4, <3>6 DEF Telling, IsServer
  <2>5. QED  BY <2>3, <2>4
<1>2. CASE h.type # "invoke"
  <2>1. Telling(t, t)
    BY DEF Telling
  <2>2. \/ u = t
        \/ u = [t EXCEPT !.out = Append(@, UserEvent("pong"))]
    BY <1>2 DEF ServerHandler, NmsHandler, OtherHandler
  <2>3. CASE u = [t EXCEPT !.out = Append(@, UserEvent("pong"))]
    <3>1. PICK m : m = UserEvent("pong")
      OBVIOUS
    <3>2. m.type # "signature" /\ Sendable(m)
      BY <3>1, Controls DEF Short
    <3>3. DOMAIN t = {"server", "out"} /\ DOMAIN t.server = ServerFields
      BY DEF IsServer
    <3>4. u = [t EXCEPT !.out = Append(@, m)]
      BY <2>3, <3>1
    <3>5. DOMAIN u = {"server", "out"} /\ u.server = t.server /\ u.out = Append(t.out, m)
      BY <3>3, <3>4
    <3>6. AllWritable(t.out) => AllWritable(u.out)
                                /\ Sigs(Written(u.out)) = Sigs(Written(t.out))
      BY <3>2, <3>5, TellMore
    <3>7. QED  BY <3>3, <3>5, <3>6 DEF Telling, IsServer
  <2>4. QED  BY <2>1, <2>2, <2>3
<1>3. QED  BY <1>1, <1>2

Emptied(p) == [p EXCEPT !.handled = <<>>]

LEMMA TellingMore ==
  ASSUME NEW a, NEW b, NEW c, Telling(a, b), Telling(b, c)
  PROVE  Telling(a, c)
  BY DEF Telling

\* The messages of a read.
LEMMA ServerReplies ==
  ASSUME NEW t, IsServer(t), NEW hs, IsSeq(hs), \A i \in 1..Len(hs) : Question(hs[i]),
         NEW u, u = ServerAll(t, hs)
  PROVE  Telling(t, u)
<1>1. PICK n \in Nat : n = Len(hs)
  BY IsSeqLen
<1>2. PICK g : /\ g[0] = t
               /\ \A i \in 1..n : g[i] = ServerHandler(g[i - 1], hs[i])
               /\ u = g[n]
  <2>1. PICK g : /\ g[0] = t
                 /\ \A i \in 1..Len(hs) : g[i] = ServerHandler(g[i - 1], hs[i])
                 /\ ServerAll(t, hs) = g[Len(hs)]
    BY ServerFold
  <2>2. QED  BY <1>1, <2>1
<1>3. PICK S : S = {i \in Nat : i <= n => Telling(t, g[i])}
  OBVIOUS
<1>4. 0 \in S
  <2>1. Telling(t, t)
    BY DEF Telling
  <2>2. QED  BY <2>1, <1>2, <1>3
<1>5. ASSUME NEW i \in Nat, i \in S PROVE i + 1 \in S
  <2>1. SUFFICES ASSUME i + 1 <= n PROVE Telling(t, g[i + 1])
    BY <1>3
  <2>2. i <= n /\ i + 1 \in 1..n /\ (i + 1) - 1 = i
    BY <2>1
  <2>3. PICK a, b, h : a = g[i] /\ b = g[i + 1] /\ h = hs[i + 1]
    OBVIOUS
  <2>4. Telling(t, a)
    BY <1>3, <1>5, <2>2, <2>3
  <2>5. IsServer(a)
    BY <2>4 DEF Telling
  <2>6. Question(h) /\ b = ServerHandler(a, h)
    BY <1>1, <1>2, <2>2, <2>3
  <2>7. Telling(a, b)
    BY <2>5, <2>6, ServerStep
  <2>8. QED  BY <2>3, <2>4, <2>7, TellingMore
<1>6. n \in S
  BY <1>4, <1>5, Climb
<1>7. n <= n
  OBVIOUS
<1>8. QED  BY <1>2, <1>3, <1>6, <1>7

\* A part of the handshake.
SameServer(t, u) ==
  /\ IsServer(u) /\ u.server.open = t.server.open /\ u.server.parser = t.server.parser
  /\ u.server.asked = t.server.asked /\ u.server.role = t.server.role
  /\ u.server.streams = t.server.streams /\ u.server.streamId = t.server.streamId

Greets == [sig |-> "C0C1"]

LEMMA DataStep ==
  ASSUME NEW t, IsServer(t), NEW cell, NEW u, u = ParserData(t, cell)
  PROVE  /\ SameServer(t, u)
         /\ cell.sig = "C0C1" => u.out = GenerateS0S1S2 /\ u.server.hs = "1"
         /\ cell.sig # "C0C1" => u.out = t.out /\ u.server.hs = "2"
<1>1. DOMAIN t = {"server", "out"} /\ DOMAIN t.server = ServerFields
  BY DEF IsServer
<1>2. CASE cell.sig = "C0C1"
  <2>1. u = [t EXCEPT !.server.hs = "1", !.out = GenerateS0S1S2]
    BY <1>2 DEF ParserData
  <2>2. QED  BY <2>1, <1>1, <1>2 DEF IsServer, SameServer, ServerFields
<1>3. CASE cell.sig # "C0C1"
  <2>1. u = [t EXCEPT !.server.hs = "2"]
    BY <1>3 DEF ParserData
  <2>2. QED  BY <2>1, <1>1, <1>3 DEF IsServer, SameServer, ServerFields
<1>4. QED  BY <1>2, <1>3

LEMMA Generated ==
  /\ AllWritable(GenerateS0S1S2)
  /\ Len(Sigs(Written(GenerateS0S1S2))) = 2
  /\ Sigs(Written(GenerateS0S1S2))[1].sig = "S0S1"
<1>1. PICK a, b : a = Signature("S0S1") /\ b = Signature("S2")
  OBVIOUS
<1>2. a.type = "signature" /\ a.sig = "S0S1" /\ b.type = "signature" /\ b.sig = "S2"
  BY <1>1 DEF Signature
<1>3. Writable(a) /\ Writable(b)
  BY <1>2 DEF Writable
<1>4. PICK x, y : x = [sig |-> "S0S1"] /\ y = [sig |-> "S2"]
  OBVIOUS
<1>5. Sigs(Piece(a)) = <<x>> /\ Sigs(Piece(b)) = <<y>>
  <2>1. Piece(a) = << <<x>> >> /\ Piece(b) = << <<y>> >>
    BY <1>2, <1>4 DEF Piece
  <2>2. Sigs(<< <<[sig |-> "S0S1"]>> >>) = <<[sig |-> "S0S1"]>>
    BY SignaturePiece, Zenon
  <2>3. Sigs(<< <<[sig |-> "S2"]>> >>) = <<[sig |-> "S2"]>>
    BY SignaturePiece, Zenon
  <2>4. QED  BY <2>1, <2>2, <2>3, <1>4
<1>6. PICK ms, ns : ms = <<a>> /\ ns = Append(ms, b)
  OBVIOUS
<1>7. AllWritable(ms) /\ Written(ms) = Piece(a)
  BY <1>3, <1>6, WrittenOne
<1>8. AllWritable(ns) /\ Sigs(Written(ns)) = Sigs(Written(ms)) \o Sigs(Piece(b))
  BY <1>3, <1>6, <1>7, WrittenAppend
<1>9. GenerateS0S1S2 = ns
  <2>1. PICK t : t = <<a, b>>
    OBVIOUS
  <2>2. IsSeq(t) /\ Len(t) = 2 /\ t[1] = a /\ t[2] = b
    BY <2>1, IsTwo
  <2>3. IsSeq(ms) /\ Len(ms) = 1 /\ ms[1] = a
    BY <1>6, IsOne
  <2>4. /\ IsSeq(Append(ms, b)) /\ Len(Append(ms, b)) = Len(ms) + 1
        /\ \A i \in 1..Len(ms) : Append(ms, b)[i] = ms[i]
        /\ Append(ms, b)[Len(ms) + 1] = b
    <3>1. Extends(Append(ms, b), ms, b)
      BY <2>3, Appended
    <3>2. QED  BY <3>1, Zenon DEF Extends
  <2>5. IsSeq(ns) /\ Len(ns) = 2 /\ ns[1] = a /\ ns[2] = b
    BY <2>3, <2>4, <1>6
  <2>6. Len(t) = Len(ns) /\ \A i \in 1..Len(t) : t[i] = ns[i]
    <3>1. \A i \in 1..2 : i = 1 \/ i = 2
      OBVIOUS
    <3>2. QED  BY <3>1, <2>2, <2>5
  <2>7. t = ns
    BY <2>2, <2>5, <2>6, SameSeq
  <2>8. QED  BY <2>1, <2>7, <1>1 DEF GenerateS0S1S2
<1>10. PICK sx, sy, s : sx = <<x>> /\ sy = <<y>> /\ s = sx \o sy
  OBVIOUS
<1>11. IsSeq(sx) /\ Len(sx) = 1 /\ sx[1] = x /\ IsSeq(sy) /\ Len(sy) = 1
  BY <1>10, IsOne
<1>12. Len(sx \o sy) = Len(sx) + Len(sy) /\ \A i \in 1..Len(sx) : (sx \o sy)[i] = sx[i]
  BY <1>11, Concat
<1>13. Len(s) = 2 /\ s[1] = x
  BY <1>10, <1>11, <1>12
<1>14. Sigs(Written(ns)) = s
  BY <1>5, <1>7, <1>8, <1>10
<1>15. x.sig = "S0S1"
  BY <1>4
<1>16. QED  BY <1>8, <1>9, <1>13, <1>14, <1>15

LEMMA DataTaken ==
  ASSUME NEW t, IsServer(t), AllWritable(t.out), NEW sigs, IsSeq(sigs),
         NEW u, u = DataAll(t, sigs)
  PROVE  /\ SameServer(t, u) /\ AllWritable(u.out)
         /\ NotFirst(sigs) => u.out = t.out /\ u.server.hs \in {t.server.hs, "2"}
         /\ sigs = <<Greets>> => u.out = GenerateS0S1S2 /\ u.server.hs = "1"
<1>1. PICK n \in Nat : n = Len(sigs)
  BY IsSeqLen
<1>2. PICK g : /\ g[0] = t
               /\ \A i \in 1..n : g[i] = ParserData(g[i - 1], sigs[i])
               /\ u = g[n]
  <2>1. PICK g : /\ g[0] = t
                 /\ \A i \in 1..Len(sigs) : g[i] = ParserData(g[i - 1], sigs[i])
                 /\ DataAll(t, sigs) = g[Len(sigs)]
    BY DataFold
  <2>2. QED  BY <1>1, <2>1
<1>3. PICK S : S = {i \in Nat : i <= n =>
                      /\ SameServer(t, g[i]) /\ AllWritable(g[i].out)
                      /\ NotFirst(sigs) =>
                           g[i].out = t.out /\ g[i].server.hs \in {t.server.hs, "2"}}
  OBVIOUS
<1>4. 0 \in S
  BY <1>2, <1>3 DEF SameServer
<1>5. ASSUME NEW i \in Nat, i \in S PROVE i + 1 \in S
  <2>1. SUFFICES ASSUME i + 1 <= n
                 PROVE  /\ SameServer(t, g[i + 1]) /\ AllWritable(g[i + 1].out)
                        /\ NotFirst(sigs) => /\ g[i + 1].out = t.out
                                             /\ g[i + 1].server.hs \in {t.server.hs, "2"}
    BY <1>3
  <2>2. i <= n /\ i + 1 \in 1..n /\ (i + 1) - 1 = i
    BY <2>1
  <2>3. PICK a, b, cell : a = g[i] /\ b = g[i + 1] /\ cell = sigs[i + 1]
    OBVIOUS
  <2>4. /\ SameServer(t, a) /\ AllWritable(a.out)
        /\ NotFirst(sigs) => a.out = t.out /\ a.server.hs \in {t.server.hs, "2"}
    BY <1>3, <1>5, <2>2, <2>3
  <2>5. IsServer(a)
    BY <2>4 DEF SameServer
  <2>6. b = ParserData(a, cell)
    BY <1>2, <2>2, <2>3
  <2>7. /\ SameServer(a, b)
        /\ cell.sig = "C0C1" => b.out = GenerateS0S1S2 /\ b.server.hs = "1"
        /\ cell.sig # "C0C1" => b.out = a.out /\ b.server.hs = "2"
    BY <2>5, <2>6, DataStep
  <2>8. SameServer(t, b)
    BY <2>4, <2>7 DEF SameServer
  <2>9. AllWritable(b.out)
    BY <2>4, <2>7, Generated
  <2>10. NotFirst(sigs) => b.out = t.out /\ b.server.hs \in {t.server.hs, "2"}
    <3>1. SUFFICES ASSUME NotFirst(sigs)
                   PROVE  b.out = t.out /\ b.server.hs \in {t.server.hs, "2"}
      OBVIOUS
    <3>2. cell.sig # "C0C1"
      BY <3>1, <2>2, <2>3, <1>1 DEF NotFirst
    <3>3. QED  BY <3>1, <3>2, <2>4, <2>7
  <2>11. QED  BY <2>3, <2>8, <2>9, <2>10
<1>6. n \in S
  BY <1>4, <1>5, Climb
<1>7. /\ SameServer(t, u) /\ AllWritable(u.out)
      /\ NotFirst(sigs) => u.out = t.out /\ u.server.hs \in {t.server.hs, "2"}
  <2>1. n <= n
    OBVIOUS
  <2>2. QED  BY <2>1, <1>2, <1>3, <1>6
<1>8. sigs = <<Greets>> => u.out = GenerateS0S1S2 /\ u.server.hs = "1"
  <2>1. SUFFICES ASSUME sigs = <<Greets>> PROVE u.out = GenerateS0S1S2 /\ u.server.hs = "1"
    OBVIOUS
  <2>2. Len(<<Greets>>) = 1 /\ <<Greets>>[1] = Greets
    BY IsOne
  <2>3. n = 1 /\ sigs[1] = Greets
    BY <2>1, <2>2, <1>1
  <2>4. 1 \in 1..n /\ 1 - 1 = 0
    BY <2>3
  <2>5. u = ParserData(t, Greets)
    BY <2>3, <2>4, <1>2
  <2>6. Greets.sig = "C0C1"
    BY DEF Greets
  <2>7. QED  BY <2>5, <2>6, DataStep
<1>9. QED  BY <1>7, <1>8

\* A read of the server.
ServedBy(sv, z, u, ts, sizes) ==
  /\ IsServer(u) /\ u.server.open = sv.open
  /\ IsParser(u.server.parser) /\ u.server.parser = Emptied(z)
  /\ Hearing(Emptied(u.server.parser), <<>>, <<>>, sizes)
  /\ Listening(Emptied(u.server.parser))
  /\ AskedOk(u.server.asked) /\ AllWritable(u.out)
  /\ NotFirst(Sigs(ts)) =>
       Sigs(Written(u.out)) = <<>> /\ u.server.hs \in {sv.hs, "2"}
  /\ Sigs(ts) = <<Greets>> =>
       /\ Len(Sigs(Written(u.out))) = 2 /\ Sigs(Written(u.out))[1].sig = "S0S1"
       /\ u.server.hs = "1"

LEMMA HearAll ==
  ASSUME NEW p, NEW w, NEW sizes, Hearing(p, w, <<>>, sizes),
         NEW z, z = ReadOn(p, NoSigs(w)), NEW q, q = Emptied(z)
  PROVE  /\ Listening(z) /\ IsParser(q) /\ Listening(Emptied(q))
         /\ Hearing(Emptied(q), <<>>, <<>>, sizes)
<1>1. Written(<<>>) = <<>> /\ AllWritable(<<>>)
  BY WrittenNone
<1>2. IsSeq(w) /\ Chunked(w)
  BY DEF Hearing, Chunked
<1>3. w \o Written(<<>>) = w
  BY <1>1, <1>2, ConcatEmpty
<1>4. Listening(z) /\ z.inChunkSize \in sizes /\ sizes \subseteq Nat \ {0}
  BY <1>3 DEF Hearing
<1>5. IsParser(z) /\ z.state = "INIT" /\ z.inStep = TRUE /\ Quiet(z)
      /\ z.inChunkSize \in Nat \ {0}
  BY <1>4 DEF Listening, AtRest
<1>6. IsParser(q) /\ q.handled = <<>> /\ SameState(z, q)
  BY <1>5, Unhandled DEF Emptied
<1>7. PICK e : e = Emptied(q)
  OBVIOUS
<1>8. IsParser(e) /\ e.handled = <<>> /\ SameState(q, e)
  BY <1>6, <1>7, Unhandled DEF Emptied
<1>9. /\ e.state = "INIT" /\ e.inStep = TRUE /\ e.inPackets = z.inPackets
      /\ e.inChunkSize = z.inChunkSize
  BY <1>5, <1>6, <1>8 DEF SameState
<1>10. AtRest(e) /\ Quiet(e)
  BY <1>5, <1>8, <1>9 DEF AtRest, Quiet
<1>11. Listening(e)
  BY <1>5, <1>8, <1>9, <1>10, IsEmpty DEF Listening
<1>12. Chunked(<<>>) /\ NoSigs(<<>>) = <<>>
  BY NoChunks
<1>13. <<>> \o Written(<<>>) = <<>>
  BY <1>1, IsEmpty, ConcatEmpty
<1>14. ReadOn(e, NoSigs(<<>> \o Written(<<>>))) = e
  BY <1>12, <1>13, ReadNothing
<1>15. e.inChunkSize \in sizes
  BY <1>4, <1>9
<1>16. Hearing(e, <<>>, <<>>, sizes)
  BY <1>1, <1>4, <1>11, <1>12, <1>13, <1>14, <1>15 DEF Hearing
<1>17. QED  BY <1>4, <1>6, <1>7, <1>11, <1>16

LEMMA ServerReads ==
  ASSUME NEW sv, DOMAIN sv = ServerFields, AskedOk(sv.asked), NEW ts, NEW sizes,
         Hearing(Emptied(sv.parser), ts, <<>>, sizes),
         NEW t, t = DataAll([server |-> sv, out |-> <<>>], Sigs(ts)),
         NEW z, z = Read(sv.parser, NoSigs(ts)),
         NEW u, u = ServerAll([t EXCEPT !.server.parser = [z EXCEPT !.handled = <<>>]],
                              z.handled)
  PROVE  ServedBy(sv, z, u, ts, sizes)
<1>1. PICK s : s = [server |-> sv, out |-> <<>>]
  OBVIOUS
<1>2. IsServer(s) /\ s.server = sv /\ s.out = <<>>
  BY <1>1 DEF IsServer
<1>3. Chunked(ts)
  BY DEF Hearing
<1>4. PICK sigs : sigs = Sigs(ts)
  OBVIOUS
<1>5. IsSeq(sigs)
  BY <1>3, <1>4, Halves
<1>6. AllWritable(<<>>) /\ Written(<<>>) = <<>> /\ Sigs(<<>>) = <<>>
  BY WrittenNone, NoChunks
<1>7. t = DataAll(s, sigs)
  BY <1>1, <1>4
<1>8. /\ SameServer(s, t) /\ AllWritable(t.out)
      /\ NotFirst(sigs) => t.out = s.out /\ t.server.hs \in {s.server.hs, "2"}
      /\ sigs = <<Greets>> => t.out = GenerateS0S1S2 /\ t.server.hs = "1"
  <2>1. AllWritable(s.out)
    BY <1>2, <1>6
  <2>2. QED  BY <2>1, <1>2, <1>5, <1>7, DataTaken
<1>9. z = ReadOn(Emptied(sv.parser), NoSigs(ts))
  BY ReadReads DEF Emptied
<1>10. PICK q : q = Emptied(z)
  OBVIOUS
<1>11. /\ Listening(z) /\ IsParser(q) /\ Listening(Emptied(q))
       /\ Hearing(Emptied(q), <<>>, <<>>, sizes)
  BY <1>9, <1>10, HearAll
<1>12. PICK v : v = [t EXCEPT !.server.parser = q]
  OBVIOUS
<1>13. DOMAIN t = {"server", "out"} /\ DOMAIN t.server = ServerFields
  BY <1>8 DEF SameServer, IsServer
<1>14. /\ IsServer(v) /\ v.out = t.out /\ v.server.parser = q
       /\ v.server.open = t.server.open /\ v.server.hs = t.server.hs
       /\ v.server.asked = t.server.asked
  BY <1>12, <1>13 DEF IsServer, ServerFields
<1>15. PICK hs : hs = z.handled
  OBVIOUS
<1>16. IsSeq(hs) /\ \A i \in 1..Len(hs) : Question(hs[i])
  BY <1>11, <1>15 DEF Listening, AtRest, IsParser
<1>17. u = ServerAll(v, hs)
  BY <1>10, <1>12, <1>15 DEF Emptied
<1>18. Telling(v, u)
  BY <1>14, <1>16, <1>17, ServerReplies
<1>19. AskedOk(v.server.asked)
  BY <1>2, <1>8, <1>14 DEF SameServer
<1>20. /\ IsServer(u) /\ u.server.open = sv.open /\ u.server.parser = q
       /\ u.server.hs = t.server.hs /\ AskedOk(u.server.asked) /\ AllWritable(u.out)
       /\ Sigs(Written(u.out)) = Sigs(Written(t.out))
  <2>1. t.server.open = sv.open
    BY <1>2, <1>8 DEF SameServer
  <2>2. QED  BY <2>1, <1>8, <1>14, <1>18, <1>19 DEF Telling
<1>21. NotFirst(sigs) => Sigs(Written(u.out)) = <<>> /\ u.server.hs \in {sv.hs, "2"}
  BY <1>2, <1>6, <1>8, <1>20
<1>22. sigs = <<Greets>> =>
         /\ Len(Sigs(Written(u.out))) = 2 /\ Sigs(Written(u.out))[1].sig = "S0S1"
         /\ u.server.hs = "1"
  BY <1>8, <1>20, Generated
<1>23. QED  BY <1>4, <1>10, <1>11, <1>20, <1>21, <1>22 DEF ServedBy

(***************************************************************************)
(* The inductive invariant.  Its parts are stated of values, so that they  *)
(* can be said of a state and of the next one.                             *)
(***************************************************************************)
SizesAt(at) ==
  IF at \in Calling \cup {"started"} THEN {RTMP_MAX_CHUNK_SIZE} ELSE Nat \ {0}

ClientOk(cl, ca) ==
  /\ DOMAIN cl = ClientFields /\ DOMAIN ca = {"at", "result"} /\ CallOk(cl, ca)
  /\ cl.next \in Nat /\ IsParser(cl.parser)
ServerOk(sv) ==
  /\ DOMAIN sv = ServerFields /\ IsParser(sv.parser) /\ Listening(Emptied(sv.parser))
  /\ AskedOk(sv.asked)
WiresOk(ca, sv, tc, ts) ==
  /\ Chunked(tc) /\ Chunked(ts)
  /\ sv.open => Hearing(Emptied(sv.parser), ts, <<>>, SizesAt(ca.at))

\* Before the handshake the server neither was asked nor says anything.
Mute(sv) == sv.asked = NoResult /\ sv.role = "none"
Before(cl, ca, sv, tc, ts) ==
  cl.socket = "connecting" =>
    /\ sv.open = TRUE /\ sv.hs = "uninit" /\ Mute(sv) /\ tc = <<>> /\ ts = <<>>
    /\ ca.at = "handshake" /\ ca.result = NoResult
Shakes(cl, ca, tc) == cl.socket = "open" => Shaking(cl, ca, Sigs(tc), 0)
Asked(cl, sv, tc, ts) ==
  sv.open =>
    /\ sv.hs = "uninit" => cl.socket \in {"connecting", "open"}
    /\ sv.hs = "uninit" /\ cl.socket = "open" =>
         cl.hs = "S0S1" /\ Mute(sv) /\ tc = <<>> /\ Sigs(ts) = <<Greets>>
    /\ sv.hs # "uninit" => NotFirst(Sigs(ts))

Whole(cl, ca, sv, tc, ts) ==
  /\ ClientOk(cl, ca) /\ ServerOk(sv) /\ WiresOk(ca, sv, tc, ts)
  /\ Before(cl, ca, sv, tc, ts) /\ Shakes(cl, ca, tc) /\ Asked(cl, sv, tc, ts)

LEMMA SizesAre ==
  /\ \A at : SizesAt(at) \subseteq Nat \ {0}
  /\ \A at \in Calling \cup {"started"} : SizesAt(at) = {RTMP_MAX_CHUNK_SIZE}
  /\ SizesAt("failed") = Nat \ {0} /\ SizesAt("timedOut") = Nat \ {0}
  /\ SizesAt("handshake") = Nat \ {0}
<1>1. RTMP_MAX_CHUNK_SIZE \in Nat \ {0}
  BY ChunksAssumption
<1>2. \A at : SizesAt(at) \subseteq Nat \ {0}
  BY <1>1 DEF SizesAt
<1>3. \A at \in Calling \cup {"started"} : SizesAt(at) = {RTMP_MAX_CHUNK_SIZE}
  BY DEF SizesAt
<1>4. /\ "failed" \notin Calling \cup {"started"} /\ "timedOut" \notin Calling \cup {"started"}
      /\ "handshake" \notin Calling \cup {"started"}
  BY DEF Calling
<1>5. QED  BY <1>2, <1>3, <1>4 DEF SizesAt

LEMMA NewParser ==
  ASSUME NEW p, p.state = "INIT", p.inStep = TRUE, p.inPackets = <<>>, p.handled = <<>>,
         DOMAIN p = Fields, p.inChunkSize \in Nat \ {0}
  PROVE  IsParser(p) /\ Listening(Emptied(p)) /\ Emptied(p).inChunkSize = p.inChunkSize
         /\ AtRest(Emptied(p)) /\ Quiet(Emptied(p))
<1>1. IsParser(p)
  BY IsEmpty DEF IsParser
<1>2. PICK e : e = Emptied(p)
  OBVIOUS
<1>3. IsParser(e) /\ e.handled = <<>> /\ SameState(p, e)
  BY <1>1, <1>2, Unhandled DEF Emptied
<1>4. DOMAIN e.inPackets = {}
  BY <1>3, IsEmpty DEF SameState
<1>5. Quiet(e)
  BY <1>4 DEF Quiet
<1>6. AtRest(e)
  BY <1>3 DEF AtRest, SameState
<1>7. e.inChunkSize = p.inChunkSize
  BY <1>3 DEF SameState
<1>8. Listening(e)
  BY <1>3, <1>5, <1>6, <1>7, IsEmpty DEF Listening
<1>9. QED  BY <1>1, <1>2, <1>5, <1>6, <1>7, <1>8

LEMMA ParserIs == IsParser(Parser) /\ Listening(Emptied(Parser))
<1>1. PICK p : p = Parser
  OBVIOUS
<1>2. /\ p.state = "INIT" /\ p.inStep = TRUE /\ p.inPackets = <<>> /\ p.handled = <<>>
      /\ DOMAIN p = Fields /\ p.inChunkSize = RTMP_CHUNK_SIZE
  BY <1>1 DEF Parser, Fields
<1>3. RTMP_CHUNK_SIZE \in Nat \ {0}
  BY ChunksAssumption
<1>4. QED  BY <1>1, <1>2, <1>3, NewParser

\* Nothing is under way.
LEMMA HearNothing ==
  ASSUME NEW e, Listening(e), NEW sizes, sizes \subseteq Nat \ {0}, e.inChunkSize \in sizes
  PROVE  Hearing(e, <<>>, <<>>, sizes)
<1>1. AllWritable(<<>>) /\ Written(<<>>) = <<>> /\ Chunked(<<>>) /\ NoSigs(<<>>) = <<>>
  BY WrittenNone, NoChunks
<1>2. <<>> \o Written(<<>>) = <<>>
  BY <1>1, IsEmpty, ConcatEmpty
<1>3. ReadOn(e, NoSigs(<<>> \o Written(<<>>))) = e
  BY <1>1, <1>2, ReadNothing
<1>4. QED  BY <1>1, <1>2, <1>3 DEF Hearing

LEMMA ServersAre ==
  /\ DOMAIN Fresh = ServerFields /\ Fresh.open = TRUE /\ Fresh.hs = "uninit"
  /\ Fresh.parser = Parser /\ Fresh.asked = NoResult /\ Fresh.role = "none"
  /\ DOMAIN Gone = ServerFields /\ Gone.open = FALSE /\ Gone.parser = Parser
  /\ Gone.asked = NoResult
  /\ ServerOk(Fresh) /\ ServerOk(Gone)
<1>1. PICK f : f = Fresh
  OBVIOUS
<1>2. /\ DOMAIN f = ServerFields /\ f.open = TRUE /\ f.hs = "uninit"
      /\ f.parser = Parser /\ f.asked = NoResult /\ f.role = "none"
  BY <1>1 DEF Fresh, ServerFields
<1>3. PICK g : g = Gone
  OBVIOUS
<1>4. g = [f EXCEPT !.open = FALSE]
  BY <1>1, <1>3 DEF Gone
<1>5. /\ DOMAIN g = ServerFields /\ g.open = FALSE /\ g.parser = Parser /\ g.asked = NoResult
  BY <1>2, <1>4 DEF ServerFields
<1>6. AskedOk(NoResult)
  BY DEF AskedOk
<1>7. ServerOk(f) /\ ServerOk(g)
  BY <1>2, <1>5, <1>6, ParserIs DEF ServerOk
<1>8. QED  BY <1>1, <1>2, <1>3, <1>5, <1>7

\* The connection has ended.
LEMMA EndsKeeps ==
  ASSUME NEW cl, NEW ca, ClientOk(cl, ca), cl.socket # "connecting", cl.socket # "open"
  PROVE  Whole(cl, ca, Gone, <<>>, <<>>)
  BY ServersAre, NoChunks DEF Whole, WiresOk, Before, Shakes, Asked

\* The client goes on writing.
SentOn(ts, sv, out) == ts \o Written(IF sv.open THEN out ELSE <<>>)

\* What the server has not read yet is heard, with what follows.
Heeded(sv, ts, s) ==
  sv.open => /\ Hearing(Emptied(sv.parser), ts, s.out, SizesAt(s.call.at))
             /\ Sigs(Written(s.out)) = <<>>

Turns(cl, sv, tc, ts, s) ==
  /\ ClientOk(s.client, s.call) /\ cl.socket # "connecting"
  /\ s.client.socket = cl.socket /\ Shakes(s.client, s.call, tc)
  /\ cl.socket = "open" /\ sv.open /\ sv.hs = "uninit" => s.client.hs = "S0S1"
  /\ Heeded(sv, ts, s)

LEMMA TurnKeeps ==
  ASSUME NEW cl, NEW ca, NEW sv, NEW tc, NEW ts, Whole(cl, ca, sv, tc, ts),
         NEW s, Turns(cl, sv, tc, ts, s), NEW u, u = SentOn(ts, sv, s.out)
  PROVE  Whole(s.client, s.call, sv, tc, u)
<1> USE DEF Turns
<1>1. Written(<<>>) = <<>>
  BY WrittenNone
<1>2. Chunked(ts) /\ Chunked(tc)
  BY DEF Whole, WiresOk
<1>3. IsSeq(ts) /\ IsSeq(Sigs(ts))
  BY <1>2, Halves DEF Chunked
<1>4. ts \o <<>> = ts /\ Sigs(ts) \o <<>> = Sigs(ts)
  BY <1>3, ConcatEmpty
<1>5. CASE sv.open
  <2>1. u = ts \o Written(s.out)
    BY <1>5 DEF SentOn
  <2>2. AllWritable(s.out) /\ Chunked(ts \o Written(s.out))
    BY <1>5 DEF Hearing, Heeded
  <2>3. PICK w : w = Written(s.out)
    OBVIOUS
  <2>4. Chunked(w)
    BY <2>2, <2>3, WrittenChunked
  <2>5. Sigs(ts \o w) = Sigs(ts) \o Sigs(w)
    BY <2>4, <1>2, ChunkedMore
  <2>6. Sigs(u) = Sigs(ts) /\ Chunked(u)
    BY <2>1, <2>2, <2>3, <2>5, <1>4, <1>5 DEF Heeded
  <2>7. PICK p, o, sizes : p = Emptied(sv.parser) /\ o = s.out /\ sizes = SizesAt(s.call.at)
    OBVIOUS
  <2>8. Hearing(p, ts, o, sizes)
    BY <2>7, <1>5 DEF Heeded
  <2>9. Hearing(p, ts \o Written(o), <<>>, sizes)
    BY <2>8, HearSent
  <2>10. WiresOk(s.call, sv, tc, u)
    BY <2>1, <2>6, <2>7, <2>9, <1>2 DEF WiresOk
  <2>11. Asked(s.client, sv, tc, u)
    BY <2>6, <1>5 DEF Whole, Asked
  <2>12. QED  BY <2>10, <2>11 DEF Whole, Before, Shakes
<1>6. CASE ~sv.open
  <2>1. u = ts
    BY <1>1, <1>4, <1>6 DEF SentOn
  <2>2. WiresOk(s.call, sv, tc, u)
    BY <2>1, <1>2, <1>6 DEF WiresOk
  <2>3. Asked(s.client, sv, tc, u)
    BY <1>6 DEF Asked
  <2>4. QED  BY <2>2, <2>3 DEF Whole, Before, Shakes
<1>7. QED  BY <1>5, <1>6

\* The server says something.
LEMMA SaysKeeps ==
  ASSUME NEW cl, NEW ca, NEW sv, NEW tc, NEW ts, Whole(cl, ca, sv, tc, ts), ~Mute(sv),
         NEW st, ServerOk(st), st.open = sv.open, st.hs = sv.hs, st.parser = sv.parser,
         NEW cs, PlainAll(cs)
  PROVE  Whole(cl, ca, st, tc \o cs, ts)
<1>1. Chunked(ts) /\ Chunked(tc)
  BY DEF Whole, WiresOk
<1>2. Chunked(cs) /\ Sigs(cs) = <<>>
  BY PlainSigs
<1>3. Chunked(tc \o cs) /\ Sigs(tc \o cs) = Sigs(tc) \o Sigs(cs)
  BY <1>1, <1>2, ChunkedMore
<1>4. IsSeq(Sigs(tc))
  BY <1>1, Halves
<1>5. Sigs(tc \o cs) = Sigs(tc)
  BY <1>2, <1>3, <1>4, ConcatEmpty
<1>6. WiresOk(ca, st, tc \o cs, ts)
  BY <1>1, <1>3 DEF Whole, WiresOk
<1>7. cl.socket # "connecting"
  BY DEF Whole, Before
<1>8. Shakes(cl, ca, tc \o cs)
  BY <1>5 DEF Whole, Shakes
<1>9. Asked(cl, st, tc \o cs, ts)
  BY DEF Whole, Asked
<1>10. QED  BY <1>6, <1>7, <1>8, <1>9 DEF Whole, Before

(***************************************************************************)
(* connectAndStart goes on.                                                *)
(***************************************************************************)
NowOf(cl, ca) == [client |-> cl, call |-> ca, out |-> <<>>, media |-> <<>>]

LEMMA NowFields ==
  ASSUME NEW cl, NEW ca, ClientOk(cl, ca), NEW s, s = NowOf(cl, ca)
  PROVE  IsSide(s) /\ Side(s) /\ s.client = cl /\ s.call = ca /\ s.out = <<>> /\ s.media = <<>>
  BY DEF NowOf, IsSide, Side, ClientOk

Resumed(cl, ca) == [NowOf(cl, ca) EXCEPT !.call.result = NoResult]
FailedOf(cl, ca) == [Resumed(cl, ca) EXCEPT !.call.at = "failed"]
StartedOf(cl, ca) ==
  [Resumed(cl, ca) EXCEPT !.call.at = "started", !.client.beats = TRUE]

LEMMA ResumedFields ==
  ASSUME NEW cl, NEW ca, ClientOk(cl, ca), NEW s, s = Resumed(cl, ca)
  PROVE  /\ IsSide(s) /\ s.client = cl /\ s.call.at = ca.at /\ s.call.result = NoResult
         /\ s.out = <<>> /\ s.media = <<>>
<1>1. PICK n : n = NowOf(cl, ca)
  OBVIOUS
<1>2. IsSide(n) /\ n.client = cl /\ n.call = ca /\ n.out = <<>> /\ n.media = <<>>
  BY <1>1, NowFields
<1>3. s = [n EXCEPT !.call.result = NoResult]
  BY <1>1 DEF Resumed
<1>4. QED  BY <1>2, <1>3 DEF IsSide

LEMMA FailedFields ==
  ASSUME NEW cl, NEW ca, ClientOk(cl, ca), NEW s, s = FailedOf(cl, ca)
  PROVE  /\ IsSide(s) /\ s.client = cl /\ s.call.at = "failed" /\ s.call.result = NoResult
         /\ s.out = <<>>
<1>1. PICK n : n = Resumed(cl, ca)
  OBVIOUS
<1>2. /\ IsSide(n) /\ n.client = cl /\ n.call.at = ca.at /\ n.call.result = NoResult
      /\ n.out = <<>>
  BY <1>1, ResumedFields
<1>3. s = [n EXCEPT !.call.at = "failed"]
  BY <1>1 DEF FailedOf
<1>4. QED  BY <1>2, <1>3 DEF IsSide

LEMMA StartedFields ==
  ASSUME NEW cl, NEW ca, ClientOk(cl, ca),
         NEW s, s = StartedOf(cl, ca)
  PROVE  /\ IsSide(s) /\ SameClient([client |-> cl], s, {"beats"})
         /\ s.call.at = "started" /\ s.call.result = NoResult /\ s.out = <<>>
<1>1. PICK n : n = Resumed(cl, ca)
  OBVIOUS
<1>2. /\ IsSide(n) /\ n.client = cl /\ n.call.at = ca.at /\ n.call.result = NoResult
      /\ n.out = <<>>
  BY <1>1, ResumedFields
<1>3. s = [n EXCEPT !.call.at = "started", !.client.beats = TRUE]
  BY <1>1 DEF StartedOf
<1>4. /\ DOMAIN n = {"client", "call", "out", "media"}
      /\ DOMAIN n.client = ClientFields /\ DOMAIN n.call = {"at", "result"}
  BY <1>2 DEF IsSide
<1>5. /\ DOMAIN s = {"client", "call", "out", "media"}
      /\ DOMAIN s.client = ClientFields /\ DOMAIN s.call = {"at", "result"}
      /\ s.call.at = "started" /\ s.call.result = NoResult /\ s.out = <<>>
      /\ \A f \in ClientFields \ {"beats"} : s.client[f] = cl[f]
  <2>1. PICK a : a = [n EXCEPT !.call.at = "started"]
    OBVIOUS
  <2>2. /\ DOMAIN a = {"client", "call", "out", "media"}
        /\ DOMAIN a.call = {"at", "result"} /\ a.client = cl
        /\ a.call.at = "started" /\ a.call.result = NoResult /\ a.out = <<>>
    BY <2>1, <1>2, <1>4
  <2>3. s = [a EXCEPT !.client.beats = TRUE]
    BY <2>1, <1>3
  <2>4. DOMAIN a.client = ClientFields
    BY <2>2, <1>2, <1>4
  <2>5. PICK b : b = [cl EXCEPT !.beats = TRUE]
    OBVIOUS
  <2>6. s = [a EXCEPT !.client = b]
    BY <2>2, <2>3, <2>5
  <2>7. /\ DOMAIN s = {"client", "call", "out", "media"}
        /\ s.client = b /\ s.call = a.call /\ s.out = a.out
    BY <2>2, <2>6
  <2>8. DOMAIN b = ClientFields /\ \A f \in ClientFields \ {"beats"} : b[f] = cl[f]
    BY <2>2, <2>4, <2>5
  <2>9. QED  BY <2>2, <2>7, <2>8
<1>6. QED  BY <1>5 DEF IsSide, SameClient

\* A command is sent.
Free(s) ==
  /\ IsSide(s) /\ s.client.next \in Nat /\ IsParser(s.client.parser)
  /\ DOMAIN s.client.pending = {} /\ s.client.waits = FALSE
  /\ s.client.socket = "open" /\ ~s.client.beats

Opts(opt) == \A x \in DOMAIN opt : IsValue(opt[x])

SentBy(s, t, cmd, p, w) ==
  /\ ClientOk(t.client, t.call) /\ t.client.socket = s.client.socket
  /\ t.client.hs = s.client.hs /\ t.client.streamId = s.client.streamId
  /\ t.client.parser = s.client.parser /\ t.media = s.media
  /\ t.call.at = cmd /\ t.call.result = NoResult
  /\ Hearing(p, w, s.out, {RTMP_MAX_CHUNK_SIZE}) =>
       /\ Hearing(p, w, t.out, {RTMP_MAX_CHUNK_SIZE})
       /\ Sigs(Written(t.out)) = Sigs(Written(s.out))

LEMMA CommandSent ==
  ASSUME NEW s, Free(s), NEW cmd \in Calling, NEW sid, NEW opt, Opts(opt),
         NEW t, t = SendCommand(s, cmd, sid, opt), NEW p, NEW w
  PROVE  SentBy(s, t, cmd, p, w)
<1>1. PICK id : id = s.client.next
  OBVIOUS
<1>2. id \in Nat /\ IsSide(s)
  BY <1>1 DEF Free
<1>3. /\ IsSide(t) /\ SameClient(s, t, {"pending", "next"})
      /\ t.client.pending = Updated(s.client.pending, id, cmd)
      /\ t.client.next = id + 1
      /\ t.call.at = cmd /\ t.call.result = NoResult
      /\ t.out = Append(s.out, Invoke(sid, Posed(opt, cmd, id)))
      /\ t.media = s.media
  BY <1>1, <1>2, SendCommandFields
<1>4. /\ t.client.socket = "open" /\ t.client.hs = s.client.hs /\ t.client.waits = FALSE
      /\ ~t.client.beats /\ t.client.streamId = s.client.streamId
      /\ t.client.parser = s.client.parser /\ s.client.socket = "open"
  BY <1>3 DEF SameClient, ClientFields, Free
<1>5. PICK f : f = s.client.pending
  OBVIOUS
<1>6. DOMAIN f = {}
  BY <1>5 DEF Free
<1>7. DOMAIN Updated(f, id, cmd) = {id} /\ Updated(f, id, cmd)[id] = cmd
  BY <1>6 DEF Updated
<1>8. DOMAIN t.client.pending = {id} /\ t.client.pending[id] = t.call.at
  BY <1>3, <1>5, <1>7
<1>9. Alone(t.client.pending, t.call.at)
  BY <1>8 DEF Alone
<1>10. t.call.at # "handshake"
  BY <1>3, Results
<1>11. CallOk(t.client, t.call)
  BY <1>3, <1>4, <1>9, <1>10, Results DEF CallOk
<1>12. IsParser(t.client.parser) /\ t.client.next \in Nat
  BY <1>2, <1>3, <1>4 DEF Free
<1>13. ClientOk(t.client, t.call)
  BY <1>3, <1>11, <1>12 DEF ClientOk, IsSide
<1>14. PICK m : m = Invoke(sid, Posed(opt, cmd, id))
  OBVIOUS
<1>15. /\ m.type = "invoke" /\ m.type # "signature" /\ m.type # "chunkSize"
       /\ Sendable(m) /\ Question(Mail(m))
  <2>1. \A x \in DOMAIN opt : IsValue(opt[x])
    BY DEF Opts
  <2>2. QED  BY <2>1, <1>2, <1>14, PosedReads
<1>16. Said(m)
  BY <1>15 DEF Said
<1>17. ASSUME Hearing(p, w, s.out, {RTMP_MAX_CHUNK_SIZE})
       PROVE  /\ Hearing(p, w, t.out, {RTMP_MAX_CHUNK_SIZE})
              /\ Sigs(Written(t.out)) = Sigs(Written(s.out))
  <2>1. PICK ms, sizes : ms = s.out /\ sizes = {RTMP_MAX_CHUNK_SIZE}
    OBVIOUS
  <2>2. Hearing(p, w, ms, sizes)
    BY <2>1, <1>17
  <2>3. Hearing(p, w, Append(ms, m), sizes)
    BY <2>1, <2>2, <1>15, <1>16, HearMore
  <2>4. AllWritable(ms)
    BY <2>2 DEF Hearing
  <2>5. Sigs(Written(Append(ms, m))) = Sigs(Written(ms))
    BY <2>4, <1>15, TellMore
  <2>6. t.out = Append(ms, m)
    BY <2>1, <1>3, <1>14
  <2>7. QED  BY <2>1, <2>3, <2>5, <2>6
<1>18. QED  BY <1>3, <1>4, <1>13, <1>17 DEF SentBy

LEMMA OptsAre ==
  /\ Opts([cmdObj |-> Obj(<<<<"app", Str("live")>>>>), args |-> Arr(<<>>)])
  /\ Opts([cmdObj |-> Null])
  /\ Opts([cmdObj |-> Null, streamName |-> Str("name"), start |-> Num(-2),
           duration |-> Num(-1), reset |-> Bool(TRUE)])
  /\ Opts([cmdObj |-> Null, streamName |-> Str("name"), type |-> Str("live")])
<1>1. PICK a, b, n, s, c, d, t : /\ a = Obj(<<<<"app", Str("live")>>>>) /\ b = Arr(<<>>) /\ n = Null
                                 /\ s = Str("name") /\ c = Num(-2) /\ d = Num(-1)
                                 /\ t = Bool(TRUE)
  OBVIOUS
<1>2. PICK l : l = Str("live")
  OBVIOUS
<1>3. IsValue(a) /\ IsValue(b)
  BY <1>1, ObjectValues
<1>4. IsValue(n) /\ IsValue(s) /\ IsValue(c) /\ IsValue(d) /\ IsValue(t) /\ IsValue(l)
  BY <1>1, <1>2, SimpleValues
<1>5. Opts([cmdObj |-> a, args |-> b])
  BY <1>3 DEF Opts
<1>6. Opts([cmdObj |-> n])
  BY <1>4 DEF Opts
<1>7. Opts([cmdObj |-> n, streamName |-> s, start |-> c, duration |-> d, reset |-> t])
  BY <1>4 DEF Opts
<1>8. Opts([cmdObj |-> n, streamName |-> s, type |-> l])
  BY <1>4 DEF Opts
<1>9. QED  BY <1>1, <1>2, <1>5, <1>6, <1>7, <1>8

\* A size that is announced is heard.
LEMMA SizeHeard ==
  ASSUME NEW p, NEW w, NEW ms, NEW sizes, Hearing(p, w, ms, sizes), NEW m, Said(m),
         m.type = "chunkSize", Len(m.payload) = 1, NEW one, one = {RTMP_MAX_CHUNK_SIZE}
  PROVE  Hearing(p, w, Append(ms, m), one)
<1>1. AllWritable(ms) /\ Chunked(w) /\ Chunked(w \o Written(ms))
  BY DEF Hearing
<1>2. Writable(m)
  BY SaidWritable
<1>3. PICK a, b, ns : a = Written(ms) /\ b = Piece(m) /\ ns = Append(ms, m)
  OBVIOUS
<1>4. AllWritable(ns) /\ Written(ns) = a \o b /\ Chunked(a) /\ Chunked(b)
  BY <1>1, <1>2, <1>3, WrittenAppend
<1>5. IsSeq(w) /\ IsSeq(a) /\ IsSeq(b)
  BY <1>1, <1>4 DEF Chunked
<1>6. (w \o a) \o b = w \o (a \o b)
  BY <1>5, Associative
<1>7. PICK u : u = w \o a
  OBVIOUS
<1>8. Chunked(u)
  BY <1>1, <1>3, <1>7
<1>9. PICK z : z = ReadOn(p, NoSigs(u))
  OBVIOUS
<1>10. Listening(z)
  BY <1>3, <1>7, <1>9 DEF Hearing
<1>11. Fitting(m, z)
  BY DEF Fitting
<1>12. Chunked(u \o b)
  BY <1>4, <1>8, ChunkedMore
<1>13. PICK f : f = ReadOn(p, NoSigs(u \o b))
  OBVIOUS
<1>14. f = ReadOn(p, NoSigs(u \o Piece(m)))
  BY <1>3, <1>13
<1>15. Listening(f) /\ f.inChunkSize = RTMP_MAX_CHUNK_SIZE
  BY <1>8, <1>9, <1>10, <1>11, <1>14, HearOne
<1>16. u \o b = w \o Written(ns)
  BY <1>4, <1>6, <1>7
<1>17. f.inChunkSize \in one /\ one \subseteq Nat \ {0}
  BY <1>15, ChunksAssumption
<1>18. Hearing(p, w, ns, one)
  BY <1>1, <1>4, <1>12, <1>13, <1>15, <1>16, <1>17 DEF Hearing
<1>19. QED  BY <1>3, <1>18

\* sendConnect announces the chunk size first.
LEMMA ConnectSent ==
  ASSUME NEW s, Free(s), NEW t, t = SendConnect(s), NEW p, NEW w, NEW sizes,
         Sigs(Written(s.out)) = <<>>
  PROVE  /\ SentBy([s EXCEPT !.out = Append(@, SetChunkSize(RTMP_MAX_CHUNK_SIZE))],
                   t, "connect", p, w)
         /\ ClientOk(t.client, t.call) /\ t.client.socket = s.client.socket
         /\ t.client.hs = s.client.hs /\ t.call.at = "connect" /\ t.call.result = NoResult
         /\ Hearing(p, w, s.out, sizes) =>
              Hearing(p, w, t.out, {RTMP_MAX_CHUNK_SIZE}) /\ Sigs(Written(t.out)) = <<>>
<1>1. PICK m : m = SetChunkSize(RTMP_MAX_CHUNK_SIZE)
  OBVIOUS
<1>2. PICK c : Short(m, c) /\ c.size = RTMP_MAX_CHUNK_SIZE /\ m.type = "chunkSize"
  BY <1>1, Controls
<1>3. PICK r : r = [s EXCEPT !.out = Append(@, m)]
  OBVIOUS
<1>4. DOMAIN s = {"client", "call", "out", "media"}
  BY DEF Free, IsSide
<1>5. /\ DOMAIN r = {"client", "call", "out", "media"}
      /\ r.client = s.client /\ r.call = s.call /\ r.media = s.media
      /\ r.out = Append(s.out, m)
  BY <1>3, <1>4
<1>6. Free(r)
  BY <1>5 DEF Free, IsSide
<1>7. PICK opt : opt = [cmdObj |-> Obj(<<<<"app", Str("live")>>>>), args |-> Arr(<<>>)]
  OBVIOUS
<1>8. Opts(opt)
  BY <1>7, OptsAre
<1>9. t = SendCommand(r, "connect", 0, opt)
  BY <1>1, <1>3, <1>7 DEF SendConnect
<1>10. PICK cmd : cmd = "connect"
  OBVIOUS
<1>11. cmd \in Calling
  BY <1>10 DEF Calling
<1>12. SentBy(r, t, cmd, p, w)
  BY <1>6, <1>8, <1>9, <1>10, <1>11, CommandSent
<1>13. m.type # "signature" /\ Sendable(m) /\ m.payload[1] = c /\ Len(m.payload) = 1
  BY <1>2, IsOne DEF Short
<1>14. Said(m)
  <2>1. Mail(m).type = m.type
    BY DEF Mail
  <2>2. Question(Mail(m))
    BY <2>1, <1>2 DEF Question
  <2>3. QED  BY <2>2, <1>2, <1>13 DEF Said
<1>15. ASSUME Hearing(p, w, s.out, sizes)
       PROVE  /\ Hearing(p, w, t.out, {RTMP_MAX_CHUNK_SIZE})
              /\ Sigs(Written(t.out)) = <<>>
  <2>1. PICK ms : ms = s.out
    OBVIOUS
  <2>2. Hearing(p, w, ms, sizes)
    BY <2>1, <1>15
  <2>3. Hearing(p, w, Append(ms, m), {RTMP_MAX_CHUNK_SIZE})
    <3>1. PICK one : one = {RTMP_MAX_CHUNK_SIZE}
      OBVIOUS
    <3>2. Hearing(p, w, Append(ms, m), one)
      BY <2>2, <3>1, <1>2, <1>13, <1>14, SizeHeard
    <3>3. QED  BY <3>1, <3>2
  <2>4. AllWritable(ms)
    BY <2>2 DEF Hearing
  <2>5. Sigs(Written(Append(ms, m))) = Sigs(Written(ms))
    BY <2>4, <1>13, TellMore
  <2>6. Hearing(p, w, r.out, {RTMP_MAX_CHUNK_SIZE}) /\ Sigs(Written(r.out)) = <<>>
    BY <2>1, <2>3, <2>5, <1>2, <1>5
  <2>7. QED  BY <2>6, <1>12 DEF SentBy
<1>16. r = [s EXCEPT !.out = Append(@, SetChunkSize(RTMP_MAX_CHUNK_SIZE))]
  BY <1>1, <1>3
<1>17. QED  BY <1>5, <1>10, <1>12, <1>15, <1>16 DEF SentBy

(***************************************************************************)
(* The connection fails, is closed or is given up.                         *)
(***************************************************************************)
\* The outcome of a call whose commands and handshake are rejected.
Rejection(cl, ca) ==
  IF cl.waits \/ (\E id \in DOMAIN cl.pending : cl.pending[id] = ca.at)
  THEN Error ELSE ca.result

LEMMA CallRejected ==
  ASSUME NEW cl, NEW ca, CallOk(cl, ca), ca.result = NoResult,
         NEW r, r = Rejection(cl, ca)
  PROVE  /\ ca.at \in Calling \cup {"handshake"} => r = Error
         /\ ca.at \notin Calling \cup {"handshake"} => r = NoResult
<1>1. CASE ca.at \in Calling
  <2>1. Alone(cl.pending, ca.at)
    BY <1>1 DEF CallOk
  <2>2. \E id \in DOMAIN cl.pending : cl.pending[id] = ca.at
    BY <2>1 DEF Alone
  <2>3. QED  BY <1>1, <2>2 DEF Rejection
<1>2. CASE ca.at = "handshake"
  BY <1>2 DEF CallOk, Rejection
<1>3. CASE ca.at \notin Calling \cup {"handshake"}
  <2>1. cl.waits = FALSE /\ DOMAIN cl.pending = {}
    BY <1>3 DEF CallOk
  <2>2. QED  BY <2>1, <1>3 DEF Rejection
<1>4. QED  BY <1>1, <1>2, <1>3

\* Nothing is pending any more.
LEMMA RejectedWhole ==
  ASSUME NEW cl, NEW ca, CallOk(cl, ca), ca.result = NoResult,
         NEW s, IsSide(s), s.client.pending = <<>>, s.client.waits = FALSE,
         s.client.beats = FALSE, s.call.at = ca.at, s.client.next \in Nat,
         IsParser(s.client.parser), s.client.socket # "connecting", s.client.socket # "open",
         s.call.result = Rejection(cl, ca)
  PROVE  Whole(s.client, s.call, Gone, <<>>, <<>>)
<1>1. PICK r : r = s.call.result
  OBVIOUS
<1>2. /\ ca.at \in Calling \cup {"handshake"} => r = Error
      /\ ca.at \notin Calling \cup {"handshake"} => r = NoResult
  BY <1>1, CallRejected
<1>3. DOMAIN s.client.pending = {}
  BY IsEmpty
<1>4. CallOk(s.client, s.call)
  BY <1>1, <1>2, <1>3, Results DEF CallOk
<1>5. ClientOk(s.client, s.call)
  BY <1>4 DEF ClientOk, IsSide
<1>6. QED  BY <1>5, EndsKeeps

LEMMA ErrorKeeps ==
  ASSUME NEW cl, NEW ca, ClientOk(cl, ca), ca.result = NoResult,
         NEW s, s = [RejectHandshake(NowOf(cl, ca)) EXCEPT !.client.socket = "failed"]
  PROVE  Whole(s.client, s.call, Gone, <<>>, <<>>)
<1>1. PICK n, t : n = NowOf(cl, ca) /\ t = RejectHandshake(n)
  OBVIOUS
<1>2. IsSide(n) /\ n.client = cl /\ n.call = ca
  BY <1>1, NowFields
<1>3. /\ IsSide(t) /\ SameClient(n, t, {"waits"})
      /\ t.client.waits = FALSE /\ t.call.at = n.call.at
      /\ t.call.result = (IF n.client.waits THEN Error ELSE n.call.result)
  BY <1>1, <1>2, RejectHandshakeFields
<1>4. s = [t EXCEPT !.client.socket = "failed"]
  BY <1>1
<1>5. /\ IsSide(s) /\ SameClient(t, s, {"socket"}) /\ s.client.socket = "failed"
      /\ s.call = t.call
  BY <1>3, <1>4 DEF IsSide, SameClient, ClientFields
<1>6. /\ s.client.waits = FALSE /\ s.client.pending = cl.pending /\ s.client.next = cl.next
      /\ s.client.parser = cl.parser /\ s.client.beats = cl.beats /\ s.call.at = ca.at
      /\ s.call.result = (IF cl.waits THEN Error ELSE ca.result)
  BY <1>2, <1>3, <1>5 DEF SameClient, ClientFields
<1>7. CallOk(cl, ca) /\ cl.next \in Nat /\ IsParser(cl.parser)
  BY DEF ClientOk
<1>8. CallOk(s.client, s.call)
  <2>1. CASE ca.at = "handshake"
    BY <2>1, <1>5, <1>6, <1>7, Results DEF CallOk
  <2>2. CASE ca.at # "handshake"
    BY <2>2, <1>5, <1>6, <1>7, Results DEF CallOk
  <2>3. QED  BY <2>1, <2>2
<1>9. ClientOk(s.client, s.call)
  BY <1>5, <1>6, <1>7, <1>8 DEF ClientOk, IsSide
<1>10. QED  BY <1>5, <1>9, EndsKeeps

LEMMA ClosedKeeps ==
  ASSUME NEW cl, NEW ca, ClientOk(cl, ca), ca.result = NoResult,
         NEW s, s = [RejectHandshake(RejectAllPending(NowOf(cl, ca)))
                       EXCEPT !.client.socket = "closed", !.client.beats = FALSE]
  PROVE  Whole(s.client, s.call, Gone, <<>>, <<>>)
<1>1. PICK n, t, u : n = NowOf(cl, ca) /\ t = RejectAllPending(n) /\ u = RejectHandshake(t)
  OBVIOUS
<1>2. IsSide(n) /\ n.client = cl /\ n.call = ca
  BY <1>1, NowFields
<1>3. /\ IsSide(t) /\ SameClient(n, t, {"pending"}) /\ t.client.pending = <<>>
      /\ t.call.at = n.call.at
      /\ t.call.result = (IF \E id \in DOMAIN n.client.pending :
                               n.client.pending[id] = n.call.at
                          THEN Error ELSE n.call.result)
  BY <1>1, <1>2, RejectAllFields
<1>4. /\ IsSide(u) /\ SameClient(t, u, {"waits"})
      /\ u.client.waits = FALSE /\ u.call.at = t.call.at
      /\ u.call.result = (IF t.client.waits THEN Error ELSE t.call.result)
  <2>1. IsSide(t)
    BY <1>3
  <2>2. u = RejectHandshake(t)
    BY <1>1
  <2>3. QED  BY <2>1, <2>2, RejectHandshakeFields
<1>5. s = [u EXCEPT !.client.socket = "closed", !.client.beats = FALSE]
  BY <1>1
<1>6. PICK v : v = [u EXCEPT !.client.socket = "closed"]
  OBVIOUS
<1>7. s = [v EXCEPT !.client.beats = FALSE]
  BY <1>5, <1>6
<1>8. /\ IsSide(v) /\ SameClient(u, v, {"socket"}) /\ v.client.socket = "closed"
      /\ v.call = u.call
  BY <1>4, <1>6 DEF IsSide, SameClient, ClientFields
<1>9. /\ IsSide(s) /\ SameClient(v, s, {"beats"}) /\ s.client.beats = FALSE
      /\ s.call = v.call
  <2>1. IsSide(v)
    BY <1>8
  <2>2. IsSide(s)
    BY <2>1, <1>7 DEF IsSide
  <2>3. s.client = [v.client EXCEPT !.beats = FALSE] /\ s.call = v.call
    BY <2>1, <1>7 DEF IsSide
  <2>4. \A f \in ClientFields \ {"beats"} : s.client[f] = v.client[f]
    BY <2>1, <2>3 DEF IsSide, ClientFields
  <2>5. s.client.beats = FALSE
    BY <2>1, <2>3 DEF IsSide, ClientFields
  <2>6. SameClient(v, s, {"beats"})
    BY <2>4 DEF SameClient
  <2>7. QED  BY <2>2, <2>3, <2>5, <2>6
<1>10. /\ s.client.waits = FALSE /\ s.client.pending = <<>> /\ s.client.next = cl.next
       /\ s.client.parser = cl.parser /\ s.call.at = ca.at /\ s.client.socket = "closed"
       /\ t.client.waits = cl.waits
  BY <1>2, <1>3, <1>4, <1>8, <1>9 DEF SameClient, ClientFields
<1>11. s.call.result = Rejection(cl, ca)
  BY <1>2, <1>3, <1>4, <1>8, <1>9, <1>10 DEF Rejection
<1>12. CallOk(cl, ca) /\ cl.next \in Nat /\ IsParser(cl.parser)
  BY DEF ClientOk
<1>13. /\ s.client.next \in Nat /\ IsParser(s.client.parser)
       /\ s.client.socket # "connecting" /\ s.client.socket # "open"
  BY <1>10, <1>12
<1>14. QED  BY <1>9, <1>10, <1>11, <1>12, <1>13, RejectedWhole

LEMMA DisconnectedRejects ==
  ASSUME NEW s, IsSide(s), NEW t, t = Disconnected(s)
  PROVE  /\ IsSide(t) /\ t.client.pending = <<>> /\ t.client.waits = FALSE
         /\ t.client.socket = "destroyed" /\ t.client.next = 1 /\ t.client.beats = FALSE
         /\ t.client.parser = Parser /\ t.call.at = s.call.at
         /\ t.call.result = Rejection(s.client, s.call)
<1>1. /\ IsSide(t) /\ t.client.pending = <<>> /\ t.client.waits = FALSE
      /\ t.client.socket = "destroyed" /\ t.client.next = 1 /\ t.client.beats = FALSE
      /\ t.client.parser = Parser
      /\ t.call.at = s.call.at
      /\ t.call.result = (IF \/ s.client.waits
                             \/ \E id \in DOMAIN s.client.pending :
                                  s.client.pending[id] = s.call.at
                          THEN Error ELSE s.call.result)
  BY DisconnectedFields, Zenon
<1>2. QED  BY <1>1, Zenon DEF Rejection

LEMMA DisconnectKeeps ==
  ASSUME NEW cl, NEW ca, ClientOk(cl, ca), ca.result = NoResult,
         NEW s, s = Disconnected(NowOf(cl, ca))
  PROVE  Whole(s.client, s.call, Gone, <<>>, <<>>)
<1>1. PICK n : n = NowOf(cl, ca)
  OBVIOUS
<1>2. IsSide(n) /\ n.client = cl /\ n.call = ca
  BY <1>1, NowFields
<1>3. /\ IsSide(s) /\ s.client.pending = <<>> /\ s.client.waits = FALSE
      /\ s.client.socket = "destroyed" /\ s.client.next = 1 /\ s.client.beats = FALSE
      /\ s.client.parser = Parser /\ s.call.at = n.call.at
      /\ s.call.result = Rejection(n.client, n.call)
  BY <1>1, <1>2, DisconnectedRejects
<1>4. CallOk(cl, ca)
  BY DEF ClientOk
<1>5. /\ s.client.next \in Nat /\ IsParser(s.client.parser)
      /\ s.client.socket # "connecting" /\ s.client.socket # "open"
  BY <1>3, ParserIs
<1>6. /\ s.call.at = ca.at
      /\ s.call.result = Rejection(cl, ca)
  BY <1>2, <1>3
<1>7. QED  BY <1>3, <1>4, <1>5, <1>6, RejectedWhole

LEMMA TimeOutKeeps ==
  ASSUME NEW cl, NEW ca, ClientOk(cl, ca), ca.result = NoResult, cl.beats,
         NEW s, s = [Disconnected(NowOf(cl, ca)) EXCEPT !.call.at = "timedOut"]
  PROVE  Whole(s.client, s.call, Gone, <<>>, <<>>)
<1>1. PICK n, t : n = NowOf(cl, ca) /\ t = Disconnected(n)
  OBVIOUS
<1>2. IsSide(n) /\ n.client = cl /\ n.call = ca
  BY <1>1, NowFields
<1>3. /\ IsSide(t) /\ t.client.pending = <<>> /\ t.client.waits = FALSE
      /\ t.client.socket = "destroyed" /\ t.client.next = 1 /\ t.client.beats = FALSE
      /\ t.client.parser = Parser /\ t.call.at = n.call.at
      /\ t.call.result = Rejection(n.client, n.call)
  <2>1. t = Disconnected(n) /\ IsSide(n)
    BY <1>1, <1>2
  <2>2. QED  BY <2>1, DisconnectedRejects, Zenon
<1>4. CallOk(cl, ca)
  BY DEF ClientOk
<1>5. PICK r : r = t.call.result
  OBVIOUS
<1>6. r = Rejection(cl, ca)
  BY <1>2, <1>3, <1>5
<1>7. ca.at \notin Calling \cup {"handshake"}
  BY <1>4 DEF CallOk
<1>8. r = NoResult
  BY <1>4, <1>6, <1>7, CallRejected
<1>9. s = [t EXCEPT !.call.at = "timedOut"]
  BY <1>1
<1>10. IsSide(s) /\ s.client = t.client /\ s.call.at = "timedOut" /\ s.call.result = NoResult
  BY <1>3, <1>5, <1>8, <1>9 DEF IsSide
<1>11. DOMAIN s.client.pending = {}
  BY <1>3, <1>10, IsEmpty
<1>12. CallOk(s.client, s.call)
  BY <1>3, <1>10, <1>11, Results DEF CallOk
<1>13. s.client.next \in Nat /\ IsParser(s.client.parser)
  BY <1>3, <1>10, ParserIs
<1>14. ClientOk(s.client, s.call)
  BY <1>10, <1>12, <1>13 DEF ClientOk, IsSide
<1>15. QED  BY <1>3, <1>10, <1>14, EndsKeeps

(***************************************************************************)
(* connectAndStart goes on, with a connection whose handshake is done.     *)
(***************************************************************************)
ContinuesTo(cl, sv, ts, s) ==
  /\ ClientOk(s.client, s.call) /\ s.client.socket = cl.socket /\ s.client.hs = cl.hs
  /\ Heeded(sv, ts, s)

LEMMA Onwards ==
  ASSUME NEW cl, NEW ca, NEW sv, NEW tc, NEW ts, Whole(cl, ca, sv, tc, ts),
         ca.result # NoResult, NEW s, ContinuesTo(cl, sv, ts, s),
         NEW u, u = SentOn(ts, sv, s.out)
  PROVE  Whole(s.client, s.call, sv, tc, u)
<1>1. CallOk(cl, ca) /\ Before(cl, ca, sv, tc, ts) /\ Shakes(cl, ca, tc) /\ Asked(cl, sv, tc, ts)
  BY DEF Whole, ClientOk
<1>2. cl.socket # "connecting"
  BY <1>1 DEF Before
<1>3. cl.socket = "open" => cl.hs = "done" /\ 0 = Len(Sigs(tc))
  BY <1>1 DEF Shakes, Shaking
<1>4. cl.socket = "open" => Shaking(s.client, s.call, Sigs(tc), 0)
  BY <1>3 DEF Shaking, ContinuesTo
<1>5. cl.socket = "open" /\ sv.open /\ sv.hs = "uninit" => s.client.hs = "S0S1"
  BY <1>1 DEF Asked, ContinuesTo
<1>6. Shakes(s.client, s.call, tc)
  BY <1>4 DEF Shakes, ContinuesTo
<1>7. Turns(cl, sv, tc, ts, s)
  BY <1>2, <1>5, <1>6 DEF Turns, ContinuesTo
<1>8. /\ Whole(cl, ca, sv, tc, ts) /\ u = SentOn(ts, sv, s.out)
  OBVIOUS
<1>9. Whole(s.client, s.call, sv, tc, u)
  BY <1>7, <1>8, TurnKeeps, Zenon
<1>10. QED  BY <1>9

\* What is already under way is heard.
LEMMA StillHeard ==
  ASSUME NEW cl, NEW ca, NEW sv, NEW tc, NEW ts, Whole(cl, ca, sv, tc, ts),
         NEW s, s.out = <<>>, SizesAt(ca.at) \subseteq SizesAt(s.call.at)
  PROVE  Heeded(sv, ts, s)
<1>1. PICK p, a, b : p = Emptied(sv.parser) /\ a = SizesAt(ca.at) /\ b = SizesAt(s.call.at)
  OBVIOUS
<1>2. sv.open => Hearing(p, ts, <<>>, a)
  BY <1>1 DEF Whole, WiresOk
<1>3. a \subseteq b /\ b \subseteq Nat \ {0}
  BY <1>1, SizesAre
<1>4. sv.open => Hearing(p, ts, <<>>, b)
  BY <1>2, <1>3, HearWider
<1>5. Sigs(Written(<<>>)) = <<>>
  BY WrittenNone, NoChunks
<1>6. QED  BY <1>1, <1>4, <1>5 DEF Heeded

LEMMA FailsKeeps ==
  ASSUME NEW cl, NEW ca, NEW sv, NEW tc, NEW ts, Whole(cl, ca, sv, tc, ts),
         ca.result # NoResult, NEW s, s = FailedOf(cl, ca),
         NEW u, u = SentOn(ts, sv, s.out)
  PROVE  Whole(s.client, s.call, sv, tc, u)
<1>1. ClientOk(cl, ca) /\ CallOk(cl, ca)
  BY DEF Whole, ClientOk
<1>2. /\ IsSide(s) /\ s.client = cl /\ s.call.at = "failed" /\ s.call.result = NoResult
      /\ s.out = <<>>
  BY <1>1, FailedFields
<1>3. CallOk(s.client, s.call)
  BY <1>1, <1>2, Results DEF CallOk
<1>4. ClientOk(s.client, s.call)
  BY <1>1, <1>2, <1>3 DEF ClientOk, IsSide
<1>5. SizesAt(ca.at) \subseteq SizesAt(s.call.at)
  <2>1. PICK at, b : at = s.call.at /\ b = "failed"
    OBVIOUS
  <2>2. SizesAt(ca.at) \subseteq Nat \ {0} /\ SizesAt("failed") = Nat \ {0}
    BY SizesAre
  <2>3. QED  BY <2>2, <1>2
<1>6. Heeded(sv, ts, s)
  BY <1>2, <1>5, StillHeard
<1>7. ContinuesTo(cl, sv, ts, s)
  BY <1>2, <1>4, <1>6 DEF ContinuesTo
<1>8. QED  BY <1>7, Onwards, Zenon

LEMMA StartsKeeps ==
  ASSUME NEW cl, NEW ca, NEW sv, NEW tc, NEW ts, Whole(cl, ca, sv, tc, ts),
         ca.result # NoResult, ca.at \in {"play", "publish"},
         NEW s, s = StartedOf(cl, ca),
         NEW u, u = SentOn(ts, sv, s.out)
  PROVE  Whole(s.client, s.call, sv, tc, u)
<1>1. ClientOk(cl, ca) /\ CallOk(cl, ca)
  BY DEF Whole, ClientOk
<1>2. /\ IsSide(s) /\ SameClient([client |-> cl], s, {"beats"})
      /\ s.call.at = "started" /\ s.call.result = NoResult /\ s.out = <<>>
  BY <1>1, StartedFields
<1>3. /\ s.client.socket = cl.socket /\ s.client.hs = cl.hs /\ s.client.waits = cl.waits
      /\ s.client.pending = cl.pending /\ s.client.next = cl.next
      /\ s.client.parser = cl.parser
  BY <1>2 DEF SameClient, ClientFields
<1>4. CallOk(s.client, s.call)
  BY <1>1, <1>2, <1>3, Results DEF CallOk
<1>5. ClientOk(s.client, s.call)
  BY <1>1, <1>2, <1>3, <1>4 DEF ClientOk, IsSide
<1>6. SizesAt(ca.at) = SizesAt(s.call.at)
  <2>1. PICK a, b : a = ca.at /\ b = s.call.at
    OBVIOUS
  <2>2. a \in Calling \cup {"started"} /\ b \in Calling \cup {"started"}
    BY <2>1, <1>2 DEF Calling
  <2>3. QED  BY <2>1, <2>2, SizesAre
<1>7. Heeded(sv, ts, s)
  BY <1>2, <1>6, StillHeard
<1>8. ContinuesTo(cl, sv, ts, s)
  BY <1>3, <1>5, <1>7 DEF ContinuesTo
<1>9. QED  BY <1>8, Onwards, Zenon

\* Where a result came that is no rejection a command can be sent.
LEMMA ResultFree ==
  ASSUME NEW cl, NEW ca, ClientOk(cl, ca), ca.result # NoResult, ca.result # Error,
         NEW s, IsSide(s), s.client.socket = cl.socket, s.client.next = cl.next,
         s.client.parser = cl.parser, s.client.pending = cl.pending,
         s.client.waits = cl.waits, s.client.beats = cl.beats
  PROVE  Free(s)
<1>1. /\ CallOk(cl, ca) /\ cl.next \in Nat /\ IsParser(cl.parser)
  BY DEF ClientOk
<1>2. ca.at \in Calling \cup {"handshake"}
  BY <1>1 DEF CallOk
<1>3. ~cl.beats
  BY <1>1, <1>2 DEF CallOk
<1>4. DOMAIN cl.pending = {} /\ cl.waits = FALSE /\ cl.socket = "open"
  BY <1>1 DEF CallOk
<1>5. QED  BY <1>1, <1>3, <1>4 DEF Free

LEMMA ConnectsKeeps ==
  ASSUME NEW cl, NEW ca, NEW sv, NEW tc, NEW ts, Whole(cl, ca, sv, tc, ts),
         ca.result # NoResult, ca.result # Error,
         NEW s, s = SendConnect(Resumed(cl, ca)),
         NEW u, u = SentOn(ts, sv, s.out)
  PROVE  Whole(s.client, s.call, sv, tc, u)
<1>1. ClientOk(cl, ca)
  BY DEF Whole
<1>2. PICK n : n = Resumed(cl, ca)
  OBVIOUS
<1>3. /\ IsSide(n) /\ n.client = cl /\ n.out = <<>>
  BY <1>1, <1>2, ResumedFields
<1>4. Free(n)
  BY <1>1, <1>3, ResultFree
<1>5. s = SendConnect(n)
  BY <1>2
<1>6. Sigs(Written(n.out)) = <<>>
  BY <1>3, WrittenNone, NoChunks
<1>7. PICK p, a : p = Emptied(sv.parser) /\ a = SizesAt(ca.at)
  OBVIOUS
<1>8. /\ ClientOk(s.client, s.call) /\ s.client.socket = n.client.socket
      /\ s.client.hs = n.client.hs /\ s.call.at = "connect" /\ s.call.result = NoResult
      /\ Hearing(p, ts, n.out, a) =>
           Hearing(p, ts, s.out, {RTMP_MAX_CHUNK_SIZE}) /\ Sigs(Written(s.out)) = <<>>
  BY <1>4, <1>5, <1>6, ConnectSent
<1>9. sv.open => Hearing(p, ts, n.out, a)
  BY <1>3, <1>7 DEF Whole, WiresOk
<1>10. SizesAt(s.call.at) = {RTMP_MAX_CHUNK_SIZE}
  <2>1. s.call.at \in Calling \cup {"started"}
    BY <1>8 DEF Calling
  <2>2. QED  BY <2>1, SizesAre
<1>11. Heeded(sv, ts, s)
  BY <1>7, <1>8, <1>9, <1>10 DEF Heeded
<1>12. ContinuesTo(cl, sv, ts, s)
  BY <1>3, <1>8, <1>11 DEF ContinuesTo
<1>13. QED  BY <1>12, Onwards, Zenon

\* createStream, play and publish.
LEMMA CommandKeeps ==
  ASSUME NEW cl, NEW ca, NEW sv, NEW tc, NEW ts, Whole(cl, ca, sv, tc, ts),
         ca.result # NoResult, ca.result # Error, ca.at \in Calling,
         NEW n, IsSide(n), SameClient([client |-> cl], n, {"streamId"}), n.out = <<>>,
         NEW cmd \in Calling, NEW sid, NEW opt, Opts(opt),
         NEW s, s = SendCommand(n, cmd, sid, opt),
         NEW u, u = SentOn(ts, sv, s.out)
  PROVE  Whole(s.client, s.call, sv, tc, u)
<1>1. ClientOk(cl, ca)
  BY DEF Whole
<1>2. /\ n.client.socket = cl.socket /\ n.client.next = cl.next /\ n.client.hs = cl.hs
      /\ n.client.parser = cl.parser /\ n.client.pending = cl.pending
      /\ n.client.waits = cl.waits /\ n.client.beats = cl.beats
  BY DEF SameClient, ClientFields
<1>3. Free(n)
  BY <1>1, <1>2, ResultFree
<1>4. PICK p, a : p = Emptied(sv.parser) /\ a = {RTMP_MAX_CHUNK_SIZE}
  OBVIOUS
<1>5. SentBy(n, s, cmd, p, ts)
  BY <1>3, CommandSent
<1>6. /\ ClientOk(s.client, s.call) /\ s.client.socket = n.client.socket
      /\ s.client.hs = n.client.hs /\ s.call.at = cmd
      /\ Hearing(p, ts, n.out, a) =>
           Hearing(p, ts, s.out, a) /\ Sigs(Written(s.out)) = Sigs(Written(n.out))
  BY <1>4, <1>5 DEF SentBy
<1>7. SizesAt(ca.at) = a /\ SizesAt(cmd) = a
  <2>1. PICK at : at = ca.at
    OBVIOUS
  <2>2. at \in Calling \cup {"started"} /\ cmd \in Calling \cup {"started"}
    BY <2>1
  <2>3. QED  BY <2>1, <2>2, <1>4, SizesAre
<1>8. sv.open => Hearing(p, ts, n.out, a)
  BY <1>4, <1>7 DEF Whole, WiresOk
<1>9. Sigs(Written(n.out)) = <<>>
  BY WrittenNone, NoChunks
<1>10. Heeded(sv, ts, s)
  BY <1>4, <1>6, <1>7, <1>8, <1>9 DEF Heeded
<1>11. ContinuesTo(cl, sv, ts, s)
  BY <1>2, <1>6, <1>10 DEF ContinuesTo
<1>12. QED  BY <1>11, Onwards, Zenon

(***************************************************************************)
(* The client connects, pings and reads.                                   *)
(***************************************************************************)
LEMMA OneHeard ==
  ASSUME NEW p, NEW w, NEW sizes, Hearing(p, w, <<>>, sizes), NEW m, Said(m),
         m.type # "chunkSize", m.type = "signature" \/ Len(m.payload) = 1
  PROVE  Hearing(p, w, <<m>>, sizes)
<1>1. PICK e, ms : e = <<>> /\ ms = <<m>>
  OBVIOUS
<1>2. IsSeq(e)
  BY <1>1, IsEmpty
<1>3. Append(e, m) = e \o <<m>>
  BY <1>2, AppendIs
<1>4. IsSeq(ms)
  BY <1>1, IsOne
<1>5. e \o ms = ms
  BY <1>1, <1>4, ConcatEmpty
<1>6. Append(e, m) = ms
  BY <1>1, <1>3, <1>5
<1>7. Hearing(p, w, e, sizes)
  BY <1>1
<1>8. PICK zz, f : /\ zz = ReadOn(p, NoSigs(w \o Written(e)))
                   /\ f = ReadOn(p, NoSigs(w \o Written(Append(e, m))))
  OBVIOUS
<1>9. m.type = "signature" \/ Len(m.payload) = 1 \/ sizes = {RTMP_MAX_CHUNK_SIZE}
  OBVIOUS
<1>10. Hearing(p, w, Append(e, m), sizes)
  BY <1>7, <1>8, <1>9, HearMore
<1>11. QED  BY <1>1, <1>6, <1>10

LEMMA OneWritten ==
  ASSUME NEW m, Said(m)
  PROVE  Written(<<m>>) = Piece(m)
<1>1. PICK e, ms, b : e = <<>> /\ ms = <<m>> /\ b = Piece(m)
  OBVIOUS
<1>2. IsSeq(e) /\ IsSeq(ms)
  BY <1>1, IsEmpty, IsOne
<1>3. Append(e, m) = e \o <<m>>
  BY <1>2, AppendIs
<1>4. Append(e, m) = ms
  BY <1>1, <1>2, <1>3, ConcatEmpty
<1>5. AllWritable(e) /\ Written(e) = <<>>
  BY <1>1, WrittenNone
<1>6. Writable(m)
  BY SaidWritable
<1>7. Written(Append(e, m)) = Written(e) \o Piece(m) /\ Chunked(Piece(m))
  BY <1>5, <1>6, WrittenAppend
<1>8. IsSeq(b)
  BY <1>1, <1>7 DEF Chunked
<1>9. <<>> \o b = b
  BY <1>8, ConcatEmpty
<1>10. QED  BY <1>1, <1>4, <1>5, <1>7, <1>9

LEMMA SignatureC0C1 ==
  /\ Said(Signature("C0C1")) /\ Signature("C0C1").type = "signature"
  /\ Piece(Signature("C0C1")) = << <<Greets>> >>
  /\ Sigs(Piece(Signature("C0C1"))) = <<Greets>>
<1>1. PICK m : m = Signature("C0C1")
  OBVIOUS
<1>2. m.type = "signature" /\ m.sig = "C0C1"
  BY <1>1 DEF Signature
<1>3. Piece(m) = << <<[sig |-> "C0C1"]>> >>
  BY <1>2 DEF Piece
<1>4. Sigs(<< <<[sig |-> "C0C1"]>> >>) = <<[sig |-> "C0C1"]>>
  BY SignaturePiece, Zenon
<1>5. Greets = [sig |-> "C0C1"]
  BY DEF Greets
<1>6. PICK g, x : g = Greets /\ x = [sig |-> "C0C1"]
  OBVIOUS
<1>7. Piece(m) = << <<x>> >> /\ Sigs(<< <<x>> >>) = <<x>> /\ g = x
  BY <1>3, <1>4, <1>5, <1>6
<1>8. QED  BY <1>1, <1>2, <1>6, <1>7 DEF Said

ConnectedOf(cl, ca) ==
  [NowOf(cl, ca) EXCEPT !.client.socket = "open", !.client.hs = "S0S1",
                        !.out = <<Signature("C0C1")>>]

LEMMA ConnectedFields ==
  ASSUME NEW cl, NEW ca, ClientOk(cl, ca), NEW s, s = ConnectedOf(cl, ca)
  PROVE  /\ IsSide(s) /\ SameClient([client |-> cl], s, {"socket", "hs"})
         /\ s.client.socket = "open" /\ s.client.hs = "S0S1" /\ s.call = ca
         /\ s.out = <<Signature("C0C1")>>
<1>1. PICK n, o : n = NowOf(cl, ca) /\ o = <<Signature("C0C1")>>
  OBVIOUS
<1>2. IsSide(n) /\ n.client = cl /\ n.call = ca
  BY <1>1, NowFields
<1>3. s = [n EXCEPT !.client.socket = "open", !.client.hs = "S0S1", !.out = o]
  BY <1>1 DEF ConnectedOf
<1>4. PICK a : a = [cl EXCEPT !.socket = "open"]
  OBVIOUS
<1>5. PICK b : b = [a EXCEPT !.hs = "S0S1"]
  OBVIOUS
<1>6. DOMAIN cl = ClientFields
  BY DEF ClientOk
<1>7. /\ DOMAIN b = ClientFields /\ b.socket = "open" /\ b.hs = "S0S1"
      /\ \A f \in ClientFields \ {"socket", "hs"} : b[f] = cl[f]
  BY <1>4, <1>5, <1>6 DEF ClientFields
<1>8. PICK c : c = [n EXCEPT !.client.socket = "open", !.client.hs = "S0S1"]
  OBVIOUS
<1>9. c = [n EXCEPT !.client = b]
  BY <1>2, <1>4, <1>5, <1>8 DEF IsSide
<1>10. s = [c EXCEPT !.out = o]
  BY <1>3, <1>8
<1>11. /\ DOMAIN s = {"client", "call", "out", "media"}
       /\ s.client = b /\ s.call = ca /\ s.out = o
  BY <1>2, <1>9, <1>10 DEF IsSide
<1>12. DOMAIN ca = {"at", "result"}
  BY DEF ClientOk
<1>13. QED  BY <1>1, <1>7, <1>11, <1>12 DEF IsSide, SameClient

LEMMA ConnectedKeeps ==
  ASSUME NEW cl, NEW ca, NEW sv, NEW tc, NEW ts, Whole(cl, ca, sv, tc, ts),
         cl.socket = "connecting", NEW s, s = ConnectedOf(cl, ca),
         NEW u, u = SentOn(ts, sv, s.out)
  PROVE  Whole(s.client, s.call, sv, tc, u)
<1>1. ClientOk(cl, ca) /\ CallOk(cl, ca) /\ ServerOk(sv)
  BY DEF Whole, ClientOk
<1>2. /\ IsSide(s) /\ SameClient([client |-> cl], s, {"socket", "hs"})
      /\ s.client.socket = "open" /\ s.client.hs = "S0S1" /\ s.call = ca
      /\ s.out = <<Signature("C0C1")>>
  BY <1>1, ConnectedFields
<1>3. /\ s.client.waits = cl.waits /\ s.client.pending = cl.pending /\ s.client.next = cl.next
      /\ s.client.parser = cl.parser /\ s.client.beats = cl.beats
  BY <1>2 DEF SameClient, ClientFields
<1>4. /\ sv.open = TRUE /\ sv.hs = "uninit" /\ Mute(sv) /\ tc = <<>> /\ ts = <<>>
      /\ ca.at = "handshake" /\ ca.result = NoResult
  BY DEF Whole, Before
<1>5. CallOk(s.client, s.call)
  BY <1>1, <1>2, <1>3, <1>4, Results DEF CallOk
<1>6. ClientOk(s.client, s.call)
  BY <1>1, <1>2, <1>3, <1>5 DEF ClientOk, IsSide
<1>7. PICK m, o : m = Signature("C0C1") /\ o = <<m>>
  OBVIOUS
<1>8. Said(m) /\ m.type = "signature" /\ Sigs(Piece(m)) = <<Greets>>
  BY <1>7, SignatureC0C1
<1>9. PICK p, sizes : p = Emptied(sv.parser) /\ sizes = SizesAt(ca.at)
  OBVIOUS
<1>10. Hearing(p, ts, <<>>, sizes)
  BY <1>4, <1>9 DEF Whole, WiresOk
<1>11. Hearing(p, ts, o, sizes)
  <2>1. m.type # "chunkSize"
    BY <1>8
  <2>2. QED  BY <2>1, <1>7, <1>8, <1>10, OneHeard
<1>12. Hearing(p, ts \o Written(o), <<>>, sizes) /\ Chunked(ts \o Written(o))
  BY <1>11, HearSent DEF Hearing
<1>13. Written(o) = Piece(m)
  BY <1>7, <1>8, OneWritten
<1>14. u = ts \o Written(o)
  BY <1>2, <1>4, <1>7 DEF SentOn
<1>15. Sigs(u) = <<Greets>>
  <2>1. AllWritable(o)
    BY <1>11 DEF Hearing
  <2>2. IsSeq(Written(o))
    BY <2>1, WrittenChunked DEF Chunked
  <2>3. PICK w : w = Written(o)
    OBVIOUS
  <2>4. <<>> \o w = w
    BY <2>2, <2>3, ConcatEmpty
  <2>5. u = w
    BY <2>3, <2>4, <1>4, <1>14
  <2>6. QED  BY <2>3, <2>5, <1>8, <1>13
<1>16. WiresOk(s.call, sv, tc, u)
  <2>1. Chunked(tc)
    BY DEF Whole, WiresOk
  <2>2. QED  BY <2>1, <1>2, <1>9, <1>12, <1>14 DEF WiresOk
<1>17. Shakes(s.client, s.call, tc)
  <2>1. Len(Sigs(tc)) = 0
    BY <1>4, NoChunks, IsEmpty
  <2>2. QED  BY <2>1, <1>2, <1>4 DEF Shakes, Shaking
<1>18. Asked(s.client, sv, tc, u)
  BY <1>2, <1>4, <1>15 DEF Asked
<1>19. Before(s.client, s.call, sv, tc, u)
  BY <1>2 DEF Before
<1>20. QED  BY <1>1, <1>6, <1>16, <1>17, <1>18, <1>19 DEF Whole

\* The heartbeat.
PingedOf(cl, ca) ==
  [NowOf(cl, ca) EXCEPT !.client.quiet = @ + 1, !.out = <<UserEvent("ping")>>]

LEMMA PingedFields ==
  ASSUME NEW cl, NEW ca, ClientOk(cl, ca), NEW s, s = PingedOf(cl, ca)
  PROVE  /\ IsSide(s) /\ SameClient([client |-> cl], s, {"quiet"})
         /\ s.call = ca /\ s.out = <<UserEvent("ping")>>
<1>1. PICK n, o : n = NowOf(cl, ca) /\ o = <<UserEvent("ping")>>
  OBVIOUS
<1>2. IsSide(n) /\ n.client = cl /\ n.call = ca
  BY <1>1, NowFields
<1>3. PICK q : q = cl.quiet + 1
  OBVIOUS
<1>4. s = [n EXCEPT !.client.quiet = q, !.out = o]
  BY <1>1, <1>2, <1>3 DEF PingedOf
<1>5. PICK b : b = [cl EXCEPT !.quiet = q]
  OBVIOUS
<1>6. DOMAIN cl = ClientFields
  BY DEF ClientOk
<1>7. DOMAIN b = ClientFields /\ \A f \in ClientFields \ {"quiet"} : b[f] = cl[f]
  BY <1>5, <1>6 DEF ClientFields
<1>8. PICK c : c = [n EXCEPT !.client.quiet = q]
  OBVIOUS
<1>9. c = [n EXCEPT !.client = b]
  BY <1>2, <1>5, <1>8 DEF IsSide
<1>10. s = [c EXCEPT !.out = o]
  BY <1>4, <1>8
<1>11. /\ DOMAIN s = {"client", "call", "out", "media"}
       /\ s.client = b /\ s.call = ca /\ s.out = o
  BY <1>2, <1>9, <1>10 DEF IsSide
<1>12. DOMAIN ca = {"at", "result"}
  BY DEF ClientOk
<1>13. QED  BY <1>1, <1>7, <1>11, <1>12 DEF IsSide, SameClient

LEMMA PingKeeps ==
  ASSUME NEW cl, NEW ca, NEW sv, NEW tc, NEW ts, Whole(cl, ca, sv, tc, ts),
         cl.socket = "open", NEW s, s = PingedOf(cl, ca),
         NEW u, u = SentOn(ts, sv, s.out)
  PROVE  Whole(s.client, s.call, sv, tc, u)
<1>1. ClientOk(cl, ca) /\ CallOk(cl, ca)
  BY DEF Whole, ClientOk
<1>2. /\ IsSide(s) /\ SameClient([client |-> cl], s, {"quiet"})
      /\ s.call = ca /\ s.out = <<UserEvent("ping")>>
  BY <1>1, PingedFields
<1>3. /\ s.client.waits = cl.waits /\ s.client.pending = cl.pending /\ s.client.next = cl.next
      /\ s.client.parser = cl.parser /\ s.client.beats = cl.beats
      /\ s.client.socket = cl.socket /\ s.client.hs = cl.hs
  BY <1>2 DEF SameClient, ClientFields
<1>4. CallOk(s.client, s.call)
  BY <1>1, <1>2, <1>3 DEF CallOk
<1>5. ClientOk(s.client, s.call)
  BY <1>1, <1>2, <1>3, <1>4 DEF ClientOk, IsSide
<1>6. PICK m, o : m = UserEvent("ping") /\ o = <<m>>
  OBVIOUS
<1>7. PICK c : Short(m, c) /\ m.type = "event"
  BY <1>6, Controls
<1>8. m.type # "invoke" /\ m.type # "chunkSize" /\ m.type # "signature"
  BY <1>7
<1>9. Said(m) /\ Len(m.payload) = 1
  BY <1>7, <1>8, ShortSaid
<1>10. PICK p, sizes : p = Emptied(sv.parser) /\ sizes = SizesAt(ca.at)
  OBVIOUS
<1>11. sv.open => Hearing(p, ts, o, sizes)
  <2>1. sv.open => Hearing(p, ts, <<>>, sizes)
    BY <1>10 DEF Whole, WiresOk
  <2>2. QED  BY <2>1, <1>6, <1>8, <1>9, OneHeard
<1>12. Sigs(Written(o)) = <<>>
  <2>1. Sendable(m)
    BY <1>8, <1>9 DEF Said
  <2>2. QED  BY <2>1, <1>6, <1>8, <1>9, OneWritten, MessagePiece
<1>13. Heeded(sv, ts, s)
  BY <1>2, <1>6, <1>10, <1>11, <1>12 DEF Heeded
<1>14. Shakes(s.client, s.call, tc)
  <2>1. Shaking(cl, ca, Sigs(tc), 0)
    BY DEF Whole, Shakes
  <2>2. QED  BY <2>1, <1>2, <1>3 DEF Shakes, Shaking
<1>15. cl.socket = "open" /\ sv.open /\ sv.hs = "uninit" => s.client.hs = "S0S1"
  BY <1>3 DEF Whole, Asked
<1>16. Turns(cl, sv, tc, ts, s)
  BY <1>3, <1>5, <1>13, <1>14, <1>15 DEF Turns
<1>17. QED  BY <1>16, TurnKeeps

(***************************************************************************)
(* The client and the server read.                                         *)
(***************************************************************************)
CutAt(cs, k, a, b) == a = SubSeq(cs, 1, k) /\ b = From(cs, k + 1)

LEMMA ChunkedSplit ==
  ASSUME NEW cs, Chunked(cs), NEW k \in Nat, k <= Len(cs),
         NEW a, NEW b, CutAt(cs, k, a, b)
  PROVE  Chunked(a) /\ Chunked(b) /\ a \o b = cs
<1>1. IsSeq(cs) /\ \A i \in 1..Len(cs) : IsSeq(cs[i]) /\ cs[i] # <<>>
  BY DEF Chunked
<1>2. Len(cs) \in Nat
  BY <1>1, IsSeqLen
<1>3. a = SubSeq(cs, 1, k) /\ b = SubSeq(cs, k + 1, Len(cs))
  BY DEF From, CutAt
<1>4. /\ cs = a \o b /\ IsSeq(a) /\ Len(a) = k /\ IsSeq(b) /\ Len(b) = Len(cs) - k
      /\ \A i \in 1..k : a[i] = cs[i]
  <2>1. /\ cs = SubSeq(cs, 1, k) \o SubSeq(cs, k + 1, Len(cs))
        /\ IsSeq(SubSeq(cs, 1, k)) /\ Len(SubSeq(cs, 1, k)) = k
        /\ IsSeq(SubSeq(cs, k + 1, Len(cs))) /\ Len(SubSeq(cs, k + 1, Len(cs))) = Len(cs) - k
        /\ \A i \in 1..k : SubSeq(cs, 1, k)[i] = cs[i]
    BY <1>1, Split
  <2>2. QED  BY <2>1, <1>3
<1>5. Chunked(a)
  <2>1. \A i \in 1..Len(a) : i \in 1..Len(cs) /\ a[i] = cs[i]
    BY <1>2, <1>4
  <2>2. QED  BY <2>1, <1>1, <1>4 DEF Chunked
<1>6. Chunked(b)
  <2>1. \A i \in 1..Len(b) : (a \o b)[Len(a) + i] = b[i]
    BY <1>4, Concat
  <2>2. \A i \in 1..Len(b) : k + i \in 1..Len(cs) /\ b[i] = cs[k + i]
    <3>1. SUFFICES ASSUME NEW i \in 1..Len(b)
                   PROVE  k + i \in 1..Len(cs) /\ b[i] = cs[k + i]
      OBVIOUS
    <3>2. k + i \in 1..Len(cs)
      BY <1>2, <1>4
    <3>3. cs[k + i] = b[i]
      BY <2>1, <1>4
    <3>4. QED  BY <3>2, <3>3
  <2>3. QED  BY <2>2, <1>1, <1>4 DEF Chunked
<1>7. QED  BY <1>4, <1>5, <1>6

LEMMA ClientReadKeeps ==
  ASSUME NEW cl, NEW ca, NEW sv, NEW tc, NEW ts, Whole(cl, ca, sv, tc, ts),
         cl.socket = "open", tc # <<>>, NEW k \in Nat, k <= Len(tc),
         NEW a, NEW rest, CutAt(tc, k, a, rest),
         NEW n, n = NowOf(cl, ca), NEW r, r = HandleData(n, a),
         NEW u, u = SentOn(ts, sv, r.s.out)
  PROVE  Whole(r.s.client, r.s.call, sv, rest, u)
<1>1. /\ ClientOk(cl, ca) /\ CallOk(cl, ca) /\ ServerOk(sv) /\ Chunked(tc) /\ Chunked(ts)
      /\ IsParser(cl.parser)
  BY DEF Whole, ClientOk, WiresOk
<1>2. IsSide(n) /\ Side(n) /\ n.client = cl /\ n.call = ca /\ n.out = <<>> /\ n.media = <<>>
  BY <1>1, NowFields
<1>3. Chunked(a) /\ Chunked(rest) /\ a \o rest = tc
  BY <1>1, ChunkedSplit
<1>4. Shaking(n.client, n.call, Sigs(a \o rest), 0)
  BY <1>2, <1>3 DEF Whole, Shakes
<1>5. PICK p, sizes : p = Emptied(sv.parser) /\ sizes = SizesAt(ca.at)
  OBVIOUS
<1>6. sv.open => Hearing(p, ts, <<>>, sizes)
  BY <1>5 DEF Whole, WiresOk
<1>7. sv.open => Writing(n, p, ts, sizes)
  <2>1. AllWritable(<<>>) /\ Sigs(Written(<<>>)) = <<>> /\ NotFirst(<<>>)
    BY WrittenNone, NoChunks, NotFirstNone
  <2>2. QED  BY <2>1, <1>2, <1>6 DEF Writing
<1>8. PICK z : z = Read(n.client.parser, NoSigs(a))
  OBVIOUS
<1>9. IsParser(n.client.parser)
  BY <1>1, <1>2
<1>10. ReadBy(n, r, z, rest) /\ (Writing(n, p, ts, sizes) => Writing(r.s, p, ts, sizes))
  BY <1>2, <1>3, <1>4, <1>8, <1>9, ClientReads
<1>11. PICK t : t = r.s
  OBVIOUS
<1>12. /\ Side(t) /\ Shaking(t.client, t.call, Sigs(rest), 0) /\ t.call.at = ca.at
       /\ t.client.parser = [z EXCEPT !.handled = <<>>] /\ IsParser(z)
  BY <1>2, <1>10, <1>11 DEF ReadBy
<1>13. IsParser(t.client.parser)
  BY <1>12, Unhandled
<1>14. ClientOk(t.client, t.call)
  BY <1>12, <1>13 DEF Side, IsSide, ClientOk
<1>15. t.client.socket \in {"open", "failed"}
  BY <1>12, ShakingLive
<1>16. /\ sv.open => Hearing(p, u, <<>>, sizes) /\ NotFirst(Sigs(Written(t.out)))
       /\ Chunked(u)
       /\ sv.open => Sigs(u) = Sigs(ts) \o Sigs(Written(t.out))
  <2>1. CASE sv.open
    <3>1. PICK o : o = t.out
      OBVIOUS
    <3>2. u = ts \o Written(o)
      BY <2>1, <3>1, <1>11 DEF SentOn
    <3>3. AllWritable(o) /\ NotFirst(Sigs(Written(o))) /\ Hearing(p, ts, o, sizes)
      BY <2>1, <3>1, <1>7, <1>10, <1>11 DEF Writing
    <3>4. Hearing(p, ts \o Written(o), <<>>, sizes)
      BY <3>3, HearSent
    <3>5. PICK w : w = Written(o)
      OBVIOUS
    <3>6. Chunked(w)
      BY <3>3, <3>5, WrittenChunked
    <3>7. Chunked(ts \o w) /\ Sigs(ts \o w) = Sigs(ts) \o Sigs(w)
      BY <3>6, <1>1, ChunkedMore
    <3>8. QED  BY <3>1, <3>2, <3>3, <3>4, <3>5, <3>7
  <2>2. CASE ~sv.open
    <3>1. u = ts \o <<>>
      BY <2>2, WrittenNone DEF SentOn
    <3>2. IsSeq(ts)
      BY <1>1 DEF Chunked
    <3>3. u = ts
      BY <3>1, <3>2, ConcatEmpty
    <3>4. QED  BY <3>3, <2>2, <1>1
  <2>3. QED  BY <2>1, <2>2
<1>17. WiresOk(t.call, sv, rest, u)
  BY <1>3, <1>5, <1>12, <1>16 DEF WiresOk
<1>18. Asked(t.client, sv, rest, u)
  <2>1. sv.open => sv.hs # "uninit" /\ NotFirst(Sigs(ts))
    BY DEF Whole, Asked
  <2>2. sv.open => NotFirst(Sigs(u))
    <3>1. PICK b, c : b = Sigs(ts) /\ c = Sigs(Written(t.out))
      OBVIOUS
    <3>2. sv.open => NotFirst(b) /\ NotFirst(c) /\ Sigs(u) = b \o c
      BY <3>1, <2>1, <1>16
    <3>3. sv.open => NotFirst(b \o c)
      BY <3>2, NotFirstMore
    <3>4. QED  BY <3>2, <3>3
  <2>3. QED  BY <2>1, <2>2 DEF Asked
<1>19. Before(t.client, t.call, sv, rest, u)
  BY <1>15 DEF Before
<1>20. Shakes(t.client, t.call, rest)
  BY <1>12 DEF Shakes
<1>21. Whole(t.client, t.call, sv, rest, u)
  BY <1>1, <1>14, <1>17, <1>18, <1>19, <1>20 DEF Whole
<1>22. QED  BY <1>11, <1>21

\* What the server makes of what it read, and what it writes.
LEMMA ServerReadKeeps ==
  ASSUME NEW cl, NEW ca, NEW sv, NEW tc, NEW ts, Whole(cl, ca, sv, tc, ts),
         sv.open, ts # <<>>, NEW z, NEW u, ServedBy(sv, z, u, ts, SizesAt(ca.at)),
         NEW nc, nc = tc \o Written(u.out)
  PROVE  Whole(cl, ca, u.server, nc, <<>>)
<1>1. PICK sizes, st : sizes = SizesAt(ca.at) /\ st = u.server
  OBVIOUS
<1>2. /\ IsServer(u) /\ st.open = sv.open /\ IsParser(st.parser)
      /\ Hearing(Emptied(st.parser), <<>>, <<>>, sizes) /\ Listening(Emptied(st.parser))
      /\ AskedOk(st.asked) /\ AllWritable(u.out)
      /\ NotFirst(Sigs(ts)) => Sigs(Written(u.out)) = <<>> /\ st.hs \in {sv.hs, "2"}
      /\ Sigs(ts) = <<Greets>> =>
           /\ Len(Sigs(Written(u.out))) = 2 /\ Sigs(Written(u.out))[1].sig = "S0S1"
           /\ st.hs = "1"
  BY <1>1 DEF ServedBy
<1>3. ServerOk(st)
  BY <1>1, <1>2 DEF ServerOk, IsServer
<1>4. PICK o : o = Written(u.out)
  OBVIOUS
<1>5. Chunked(tc) /\ Chunked(o) /\ Chunked(<<>>)
  BY <1>2, <1>4, WrittenChunked, NoChunks DEF Whole, WiresOk
<1>6. Chunked(nc) /\ Sigs(nc) = Sigs(tc) \o Sigs(o) /\ IsSeq(Sigs(tc)) /\ IsSeq(Sigs(o))
  BY <1>4, <1>5, ChunkedMore, Halves
<1>7. WiresOk(ca, st, nc, <<>>)
  BY <1>1, <1>2, <1>5, <1>6 DEF WiresOk
<1>8. cl.socket # "connecting"
  BY DEF Whole, Before
<1>9. CASE sv.hs # "uninit"
  <2>1. NotFirst(Sigs(ts))
    BY <1>9 DEF Whole, Asked
  <2>2. Sigs(o) = <<>> /\ st.hs # "uninit"
    BY <2>1, <1>2, <1>4, <1>9
  <2>3. Sigs(nc) = Sigs(tc)
    BY <2>2, <1>6, ConcatEmpty
  <2>4. Shakes(cl, ca, nc)
    BY <2>3 DEF Whole, Shakes
  <2>5. Asked(cl, st, nc, <<>>)
    BY <2>2, NoChunks, NotFirstNone DEF Asked
  <2>6. QED  BY <2>4, <2>5, <1>1, <1>3, <1>7, <1>8 DEF Whole, Before
<1>10. CASE sv.hs = "uninit"
  <2>1. /\ cl.socket = "open" /\ cl.hs = "S0S1" /\ tc = <<>> /\ Sigs(ts) = <<Greets>>
    BY <1>8, <1>10 DEF Whole, Asked
  <2>2. Len(Sigs(o)) = 2 /\ Sigs(o)[1].sig = "S0S1" /\ st.hs = "1"
    BY <2>1, <1>2, <1>4
  <2>3. Sigs(nc) = Sigs(o)
    <3>1. Sigs(tc) = <<>>
      BY <2>1, NoChunks
    <3>2. PICK b : b = Sigs(o)
      OBVIOUS
    <3>3. <<>> \o b = b
      BY <3>2, <1>6, ConcatEmpty
    <3>4. QED  BY <3>1, <3>2, <3>3, <1>6
  <2>4. ca.result = NoResult /\ ca.at = "handshake"
    BY <2>1 DEF Whole, Shakes, Shaking
  <2>5. Shakes(cl, ca, nc)
    BY <2>1, <2>2, <2>3, <2>4 DEF Shakes, Shaking
  <2>6. Asked(cl, st, nc, <<>>)
    BY <2>2, NoChunks, NotFirstNone DEF Asked
  <2>7. QED  BY <2>5, <2>6, <1>1, <1>3, <1>7, <1>8 DEF Whole, Before
<1>11. QED  BY <1>9, <1>10

\* The other version.
VersionOf(sv) == [sv EXCEPT !.hs = "1"]

LEMMA VersionKeeps ==
  ASSUME NEW cl, NEW ca, NEW sv, NEW tc, NEW ts, Whole(cl, ca, sv, tc, ts),
         sv.open, sv.hs = "uninit", ts # <<>>, NEW st, st = VersionOf(sv),
         NEW nc, nc = Written(<<Signature("other version")>>)
  PROVE  Whole(cl, ca, st, nc, <<>>)
<1>1. ServerOk(sv)
  BY DEF Whole
<1>2. /\ DOMAIN st = ServerFields /\ st.open = sv.open /\ st.hs = "1"
      /\ st.parser = sv.parser /\ st.asked = sv.asked
  BY <1>1 DEF VersionOf, ServerOk, ServerFields
<1>3. ServerOk(st)
  BY <1>1, <1>2 DEF ServerOk
<1>4. cl.socket = "open" /\ cl.hs = "S0S1"
  BY DEF Whole, Before, Asked
<1>5. ca.result = NoResult /\ ca.at = "handshake"
  BY <1>4 DEF Whole, Shakes, Shaking
<1>6. PICK m : m = Signature("other version")
  OBVIOUS
<1>7. PICK c : c = [sig |-> "other version"]
  OBVIOUS
<1>8. m.type = "signature" /\ Piece(m) = << <<c>> >>
  <2>1. m.type = "signature" /\ m.sig = "other version"
    BY <1>6 DEF Signature
  <2>2. QED  BY <2>1, <1>7 DEF Piece
<1>9. Said(m)
  BY <1>8 DEF Said
<1>10. nc = << <<c>> >>
  BY <1>6, <1>8, <1>9, OneWritten
<1>11. Chunked(<< <<[sig |-> "other version"]>> >>)
       /\ Sigs(<< <<[sig |-> "other version"]>> >>) = <<[sig |-> "other version"]>>
  BY SignaturePiece, Zenon
<1>12. Chunked(nc) /\ Sigs(nc) = <<c>>
  BY <1>7, <1>10, <1>11
<1>13. Len(<<c>>) = 1 /\ <<c>>[1] = c /\ c.sig # "S0S1"
  <2>1. Len(<<c>>) = 1 /\ <<c>>[1] = c
    BY IsOne
  <2>2. c.sig # "S0S1"
    BY <1>7
  <2>3. QED  BY <2>1, <2>2
<1>14. Shakes(cl, ca, nc)
  BY <1>4, <1>5, <1>12, <1>13 DEF Shakes, Shaking
<1>15. PICK p, sizes : p = Emptied(st.parser) /\ sizes = SizesAt(ca.at)
  OBVIOUS
<1>16. sizes = Nat \ {0}
  BY <1>5, <1>15, SizesAre
<1>17. Listening(p)
  BY <1>3, <1>15 DEF ServerOk
<1>18. p.inChunkSize \in sizes
  BY <1>16, <1>17 DEF Listening
<1>19. sizes \subseteq Nat \ {0}
  BY <1>16
<1>20. Hearing(p, <<>>, <<>>, sizes)
  BY <1>17, <1>18, <1>19, HearNothing
<1>21. WiresOk(ca, st, nc, <<>>)
  BY <1>12, <1>15, <1>20, NoChunks DEF WiresOk
<1>22. Asked(cl, st, nc, <<>>)
  BY <1>2, NoChunks, NotFirstNone DEF Asked
<1>23. QED  BY <1>3, <1>4, <1>14, <1>21, <1>22 DEF Whole, Before

(***************************************************************************)
(* What another server says.                                               *)
(***************************************************************************)
LEMMA PlainOnly == ASSUME NEW c, Plain(c), NEW cs, cs = <<c>> PROVE PlainAll(cs)
<1>1. IsSeq(cs) /\ Len(cs) = 1 /\ cs[1] = c
  BY IsOne
<1>2. QED  BY <1>1 DEF PlainAll

LEMMA FirstCount ==
  ASSUME NEW l \in Nat \ {0}, NEW size \in Nat \ {0}, NEW count,
         count = (l + size - 1) \div size
  PROVE  count \in Nat \ {0} /\ (count # 1 => size <= l)
<1>1. /\ count \in Nat \ {0}
      /\ \A i \in 1..count : i * size >= l <=> i = count
  BY CountIs
<1>2. count # 1 => ~(1 * size >= l)
  BY <1>1
<1>3. 1 * size = size
  OBVIOUS
<1>4. QED  BY <1>1, <1>2, <1>3

\* The first chunk of a message, which may have no payload.
LEMMA FirstChunk ==
  ASSUME NEW fmt \in 0..3, NEW m, HasCid(m.cid), IsSeq(m.payload), NEW size \in Nat \ {0},
         NEW c, c = InChunks(fmt, m, size)[1]
  PROVE  Plain(c)
<1>1. PICK p, l : p = m.payload /\ l = Len(p)
  OBVIOUS
<1>2. IsSeq(p) /\ l \in Nat
  BY <1>1, IsSeqLen
<1>3. PICK count : count = IF p = <<>> THEN 1 ELSE (l + size - 1) \div size
  OBVIOUS
<1>4. count \in Nat \ {0} /\ (count # 1 => size <= l)
  <2>1. CASE p = <<>>
    BY <2>1, <1>3
  <2>2. CASE p # <<>>
    <3>1. l \in Nat \ {0}
      BY <2>2, <1>1, <1>2, EmptyLen
    <3>2. count = (l + size - 1) \div size
      BY <2>2, <1>3
    <3>3. QED  BY <3>1, <3>2, FirstCount
  <2>3. QED  BY <2>1, <2>2
<1>5. InChunks(fmt, m, size) = [i \in 1..count |->
        ChunkBasicHeaderCreate(IF i = 1 THEN fmt ELSE 3, m.cid)
          \o (IF i = 1 THEN ChunkMessageHeaderCreate(fmt, m) ELSE <<>>)
          \o ExtendedTimestamp(m.time)
          \o SubSeq(p, (i - 1) * size + 1, IF i = count THEN l ELSE i * size)]
  BY <1>1, <1>3 DEF InChunks
<1>6. PICK a : a = ChunkBasicHeaderCreate(fmt, m.cid)
  OBVIOUS
<1>7. PICK b : b = ChunkMessageHeaderCreate(fmt, m)
  OBVIOUS
<1>8. PICK e : e = ExtendedTimestamp(m.time)
  OBVIOUS
<1>9. PICK d : d = SubSeq(p, (1 - 1) * size + 1, IF 1 = count THEN l ELSE 1 * size)
  OBVIOUS
<1>10. c = ((a \o b) \o e) \o d
  <2>1. 1 \in 1..count
    BY <1>4
  <2>2. QED  BY <2>1, <1>5, <1>6, <1>7, <1>8, <1>9
<1>11. Plain(a)
  BY <1>6, BasicPlain
<1>12. IsSeq(b)
  BY <1>7, MessageHeader
<1>13. IsSeq(e)
  BY <1>8, ExtendedIs
<1>14. IsSeq(d)
  <2>1. (1 - 1) * size + 1 = 1 /\ 1 * size = size
    OBVIOUS
  <2>2. PICK n : n = IF 1 = count THEN l ELSE size
    OBVIOUS
  <2>3. n \in Nat /\ n <= l
    BY <2>2, <1>2, <1>4
  <2>4. d = SubSeq(p, 1, n)
    BY <2>1, <2>2, <1>9
  <2>5. IsSeq(SubSeq(p, 1, n))
    BY <2>3, <1>1, <1>2, Split
  <2>6. QED  BY <2>4, <2>5
<1>15. Plain(a \o b)
  BY <1>11, <1>12, PlainMore
<1>16. Plain((a \o b) \o e)
  BY <1>13, <1>15, PlainMore
<1>17. Plain(((a \o b) \o e) \o d)
  BY <1>14, <1>16, PlainMore
<1>18. QED  BY <1>10, <1>17

\* The encoder of the media.
StreamOk(x) ==
  /\ DOMAIN x = {"time", "length", "left", "message"}
  /\ IsSeq(x.left) /\ x.length \in Nat
EncoderOk(en) ==
  /\ DOMAIN en = {"chunkSize", "streams", "sent"} /\ en.chunkSize \in Nat \ {0}
  /\ \A cid \in DOMAIN en.streams : cid \in Cids /\ StreamOk(en.streams[cid])

LEMMA CidsAre == ASSUME NEW cid \in Cids PROVE HasCid(cid)
<1>1. cid \in Nat /\ 4 <= cid /\ cid <= 65599
  BY RtmpAssumption, SMT
<1>2. QED  BY <1>1, SMT DEF HasCid

LEMMA NoMediaOk == EncoderOk(NoMedia)
<1>1. PICK en : en = NoMedia
  OBVIOUS
<1>2. /\ DOMAIN en = {"chunkSize", "streams", "sent"} /\ en.chunkSize = RTMP_CHUNK_SIZE
      /\ en.streams = <<>>
  BY <1>1 DEF NoMedia
<1>3. DOMAIN en.streams = {}
  BY <1>2, IsEmpty
<1>4. RTMP_CHUNK_SIZE \in Nat \ {0}
  BY ChunksAssumption
<1>5. QED  BY <1>1, <1>2, <1>3, <1>4 DEF EncoderOk

\* The cells of a stream that are sent, and what is left.
LEMMA SentIs ==
  ASSUME NEW x, StreamOk(x), NEW size \in Nat \ {0}, NEW y, y = Sent(x, size)
  PROVE  /\ StreamOk(y)
         /\ IsSeq(SubSeq(x.left, 1, Len(x.left) - Len(y.left)))
<1>1. PICK s, l : s = x.left /\ l = Len(s)
  OBVIOUS
<1>2. IsSeq(s) /\ l \in Nat
  BY <1>1, IsSeqLen DEF StreamOk
<1>3. PICK w : w = IF l > size THEN From(s, size + 1) ELSE <<>>
  OBVIOUS
<1>4. y = [x EXCEPT !.left = w]
  BY <1>1, <1>3 DEF Sent
<1>5. /\ DOMAIN y = {"time", "length", "left", "message"} /\ y.left = w
      /\ y.length = x.length
  BY <1>4 DEF StreamOk
<1>6. PICK k : k = IF l > size THEN size ELSE l
  OBVIOUS
<1>7. IsSeq(w) /\ Len(w) = l - k /\ k \in Nat /\ k <= l
  <2>1. CASE l > size
    <3>1. size <= Len(s)
      BY <2>1, <1>1, <1>2
    <3>2. IsSeq(SubSeq(s, size + 1, Len(s))) /\ Len(SubSeq(s, size + 1, Len(s))) = Len(s) - size
      BY <3>1, <1>2, Split
    <3>3. w = SubSeq(s, size + 1, Len(s))
      BY <2>1, <1>3 DEF From
    <3>4. k = size
      BY <2>1, <1>6
    <3>5. QED  BY <3>1, <3>2, <3>3, <3>4, <1>1
  <2>2. CASE ~(l > size)
    <3>1. w = <<>> /\ k = l
      BY <2>2, <1>3, <1>6
    <3>2. QED  BY <3>1, <1>2, IsEmpty
  <2>3. QED  BY <2>1, <2>2
<1>8. l - Len(w) = k
  BY <1>2, <1>7
<1>9. IsSeq(SubSeq(s, 1, k))
  BY <1>1, <1>2, <1>7, Split
<1>10. StreamOk(y)
  BY <1>5, <1>7 DEF StreamOk
<1>11. QED  BY <1>1, <1>5, <1>8, <1>9, <1>10

\* A message of another server.
LEMMA MessageKeeps ==
  ASSUME NEW cl, NEW ca, NEW sv, NEW tc, NEW ts, Whole(cl, ca, sv, tc, ts), ~Mute(sv),
         NEW st, ServerOk(st), st.open = sv.open, st.hs = sv.hs, st.parser = sv.parser,
         NEW m, Sendable(m), NEW size \in Nat \ {0}, NEW nc, nc = tc \o InChunks(0, m, size)
  PROVE  Whole(cl, ca, st, nc, ts)
<1>1. PICK cs : cs = InChunks(0, m, size)
  OBVIOUS
<1>2. PlainAll(cs)
  BY <1>1, MessagePlain
<1>3. Whole(cl, ca, st, tc \o cs, ts)
  BY <1>2, SaysKeeps
<1>4. QED  BY <1>1, <1>3

LEMMA ChunkKeeps ==
  ASSUME NEW cl, NEW ca, NEW sv, NEW tc, NEW ts, Whole(cl, ca, sv, tc, ts), ~Mute(sv),
         NEW c, Plain(c), NEW nc, nc = tc \o <<c>>
  PROVE  Whole(cl, ca, sv, nc, ts)
<1>1. PICK cs : cs = <<c>>
  OBVIOUS
<1>2. PlainAll(cs)
  BY <1>1, PlainOnly
<1>3. ServerOk(sv)
  BY DEF Whole
<1>4. Whole(cl, ca, sv, tc \o cs, ts)
  BY <1>2, <1>3, SaysKeeps
<1>5. QED  BY <1>1, <1>4

(***************************************************************************)
(* The actions of the client and of a Node-Media-Server.                   *)
(***************************************************************************)
WholeNow == Whole(client, call, server, toClient, toServer)
WholeNext == Whole(client', call', server', toClient', toServer')

TurnsTo(s) ==
  /\ client' = s.client /\ call' = s.call /\ server' = server /\ toClient' = toClient
  /\ encoder' = encoder /\ toServer' = SentOn(toServer, server, s.out)
EndsAt(s) ==
  /\ client' = s.client /\ call' = s.call /\ server' = Gone /\ toClient' = <<>>
  /\ toServer' = <<>> /\ encoder' = NoMedia

LEMMA WritesTo ==
  ASSUME NEW out, ClientWrites(out) PROVE toServer' = SentOn(toServer, server, out)
  BY DEF ClientWrites, SentOn

LEMMA TurnsIs == ASSUME NEW s, ClientTurns(s) PROVE TurnsTo(s)
<1>1. PICK out : out = s.out
  OBVIOUS
<1>2. ClientWrites(out)
  BY <1>1 DEF ClientTurns
<1>3. toServer' = SentOn(toServer, server, out)
  BY <1>2, WritesTo
<1>4. QED  BY <1>1, <1>3 DEF ClientTurns, TurnsTo

LEMMA EndsIs == ASSUME NEW s, ClientEnds(s) PROVE EndsAt(s)
  BY DEF ClientEnds, EndsAt

LEMMA NowIs == Now = NowOf(client, call)
  BY DEF Now, NowOf

\* What a value-level lemma says of s holds of the next state.
LEMMA TurnsWhole ==
  ASSUME NEW s, ClientTurns(s),
         \A u : u = SentOn(toServer, server, s.out) =>
                  Whole(s.client, s.call, server, toClient, u)
  PROVE  WholeNext /\ encoder' = encoder
<1>1. TurnsTo(s)
  BY TurnsIs
<1>2. PICK u : u = SentOn(toServer, server, s.out)
  OBVIOUS
<1>3. Whole(s.client, s.call, server, toClient, u)
  BY <1>2
<1>4. /\ client' = s.client /\ call' = s.call /\ server' = server /\ toClient' = toClient
      /\ encoder' = encoder /\ toServer' = u
  BY <1>1, <1>2 DEF TurnsTo
<1>5. QED  BY <1>3, <1>4 DEF WholeNext

LEMMA EndsWhole ==
  ASSUME NEW s, ClientEnds(s), Whole(s.client, s.call, Gone, <<>>, <<>>)
  PROVE  WholeNext /\ encoder' = NoMedia
<1>1. EndsAt(s)
  BY EndsIs
<1>2. QED  BY <1>1 DEF EndsAt, WholeNext

LEMMA ConnectedStep ==
  ASSUME WholeNow, Connected PROVE WholeNext /\ encoder' = encoder
<1>1. client.socket = "connecting"
  BY DEF Connected
<1>2. PICK s : s = ConnectedOf(client, call)
  OBVIOUS
<1>3. ClientTurns(s)
  BY <1>2, NowIs DEF Connected, ConnectedOf
<1>4. ASSUME NEW u, u = SentOn(toServer, server, s.out)
      PROVE  Whole(s.client, s.call, server, toClient, u)
  BY <1>1, <1>2, <1>4, ConnectedKeeps DEF WholeNow
<1>5. QED  BY <1>3, <1>4, TurnsWhole

LEMMA HeartbeatStep ==
  ASSUME WholeNow, Heartbeat PROVE WholeNext /\ encoder' = encoder
<1>1. client.socket = "open"
  BY DEF Heartbeat
<1>2. PICK s : s = PingedOf(client, call)
  OBVIOUS
<1>3. ClientTurns(s)
  BY <1>2, NowIs DEF Heartbeat, PingedOf
<1>4. ASSUME NEW u, u = SentOn(toServer, server, s.out)
      PROVE  Whole(s.client, s.call, server, toClient, u)
  BY <1>1, <1>2, <1>4, PingKeeps DEF WholeNow
<1>5. QED  BY <1>3, <1>4, TurnsWhole

\* The ways the connection ends.
LEMMA WaitsIs == ASSUME WholeNow, Waiting PROVE ClientOk(client, call) /\ call.result = NoResult
  BY DEF WholeNow, Whole, Waiting

LEMMA ErrorStep ==
  ASSUME WholeNow, SocketError PROVE WholeNext /\ encoder' = NoMedia
<1>1. PICK n : n = NowOf(client, call)
  OBVIOUS
<1>2. PICK s : s = [RejectHandshake(n) EXCEPT !.client.socket = "failed"]
  OBVIOUS
<1>3. ClientEnds(s)
  BY <1>1, <1>2, NowIs DEF SocketError
<1>4. ClientOk(client, call) /\ call.result = NoResult
  BY WaitsIs DEF SocketError
<1>5. Whole(s.client, s.call, Gone, <<>>, <<>>)
  BY <1>1, <1>2, <1>4, ErrorKeeps
<1>6. QED  BY <1>3, <1>5, EndsWhole

LEMMA ClosedStep ==
  ASSUME WholeNow, SocketClosed PROVE WholeNext /\ encoder' = NoMedia
<1>1. PICK n : n = NowOf(client, call)
  OBVIOUS
<1>2. PICK s : s = [RejectHandshake(RejectAllPending(n))
                      EXCEPT !.client.socket = "closed", !.client.beats = FALSE]
  OBVIOUS
<1>3. ClientEnds(s)
  BY <1>1, <1>2, NowIs DEF SocketClosed
<1>4. ClientOk(client, call) /\ call.result = NoResult
  BY WaitsIs DEF SocketClosed
<1>5. Whole(s.client, s.call, Gone, <<>>, <<>>)
  BY <1>1, <1>2, <1>4, ClosedKeeps
<1>6. QED  BY <1>3, <1>5, EndsWhole

LEMMA ClosesStep ==
  ASSUME WholeNow, SessionCloses PROVE WholeNext /\ encoder' = NoMedia
<1>1. PICK n : n = NowOf(client, call)
  OBVIOUS
<1>2. PICK s : s = Disconnected(n)
  OBVIOUS
<1>3. ClientEnds(s)
  BY <1>1, <1>2, NowIs DEF SessionCloses
<1>4. ClientOk(client, call) /\ call.result = NoResult
  BY WaitsIs DEF SessionCloses
<1>5. Whole(s.client, s.call, Gone, <<>>, <<>>)
  BY <1>1, <1>2, <1>4, DisconnectKeeps
<1>6. QED  BY <1>3, <1>5, EndsWhole

LEMMA TimedOutStep ==
  ASSUME WholeNow, TimedOut PROVE WholeNext /\ encoder' = NoMedia
<1>1. PICK n : n = NowOf(client, call)
  OBVIOUS
<1>2. PICK s : s = [Disconnected(n) EXCEPT !.call.at = "timedOut"]
  OBVIOUS
<1>3. ClientEnds(s)
  BY <1>1, <1>2, NowIs DEF TimedOut
<1>4. ClientOk(client, call) /\ call.result = NoResult /\ client.beats
  BY WaitsIs DEF TimedOut
<1>5. Whole(s.client, s.call, Gone, <<>>, <<>>)
  BY <1>1, <1>2, <1>4, TimeOutKeeps
<1>6. QED  BY <1>3, <1>5, EndsWhole

\* connectAndStart.
StreamOf(cl, ca) == [Resumed(cl, ca) EXCEPT !.client.streamId = ca.result.info.number]

LEMMA StreamFields ==
  ASSUME NEW cl, NEW ca, ClientOk(cl, ca), NEW s, s = StreamOf(cl, ca)
  PROVE  IsSide(s) /\ SameClient([client |-> cl], s, {"streamId"}) /\ s.out = <<>>
<1>1. PICK n, k : n = Resumed(cl, ca) /\ k = ca.result.info.number
  OBVIOUS
<1>2. IsSide(n) /\ n.client = cl /\ n.out = <<>>
  BY <1>1, ResumedFields
<1>3. s = [n EXCEPT !.client.streamId = k]
  BY <1>1 DEF StreamOf
<1>4. PICK b : b = [cl EXCEPT !.streamId = k]
  OBVIOUS
<1>5. DOMAIN cl = ClientFields
  BY DEF ClientOk
<1>6. DOMAIN b = ClientFields /\ \A f \in ClientFields \ {"streamId"} : b[f] = cl[f]
  BY <1>4, <1>5 DEF ClientFields
<1>7. s = [n EXCEPT !.client = b]
  BY <1>2, <1>3, <1>4
<1>8. /\ DOMAIN s = {"client", "call", "out", "media"}
      /\ s.client = b /\ s.call = n.call /\ s.out = n.out
  BY <1>2, <1>7 DEF IsSide
<1>9. IsSide(s)
  BY <1>2, <1>6, <1>8 DEF IsSide
<1>10. SameClient([client |-> cl], s, {"streamId"})
  BY <1>6, <1>8 DEF SameClient
<1>11. QED  BY <1>2, <1>8, <1>9, <1>10

Branched ==
  \/ ClientTurns(FailedOf(client, call))
  \/ /\ call.result # Error /\ call.at = "handshake"
     /\ ClientTurns(SendConnect(Resumed(client, call)))
  \/ /\ call.result # Error /\ call.at = "connect"
     /\ ClientTurns(SendCommand(Resumed(client, call), "createStream", 0, [cmdObj |-> Null]))
  \/ /\ call.result # Error /\ call.at = "createStream"
     /\ \/ ClientTurns(SendPlay(StreamOf(client, call)))
        \/ ClientTurns(SendPublish(StreamOf(client, call)))
  \/ /\ call.result # Error /\ call.at \notin {"handshake", "connect", "createStream"}
     /\ ClientTurns(StartedOf(client, call))

ContinueWith(s, info) ==
  IF call.result = Error THEN ClientTurns([s EXCEPT !.call.at = "failed"])
  ELSE CASE call.at = "handshake" -> ClientTurns(SendConnect(s))
         [] call.at = "connect" ->
              ClientTurns(SendCommand(s, "createStream", 0, [cmdObj |-> Null]))
         [] call.at = "createStream" /\ info.type # "number" ->
              ClientTurns([s EXCEPT !.call.at = "failed"])
         [] call.at = "createStream" /\ info.type = "number" ->
              ClientTurns(IF direction = "pull"
                          THEN SendPlay([s EXCEPT !.client.streamId = info.number])
                          ELSE SendPublish([s EXCEPT !.client.streamId = info.number]))
         [] OTHER ->
              \/ ClientTurns([s EXCEPT !.call.at = "failed"])
              \/ ClientTurns([s EXCEPT !.call.at = "started", !.client.beats = TRUE])

LEMMA ContinueBranches ==
  ASSUME NEW s, NEW info, NEW f, NEW b, NEW st, NEW t, NEW cmd,
         f = [s EXCEPT !.call.at = "failed"],
         b = [s EXCEPT !.call.at = "started", !.client.beats = TRUE],
         t = [s EXCEPT !.client.streamId = info.number],
         cmd = SendCommand(s, "createStream", 0, [cmdObj |-> Null]),
         ContinueWith(s, info)
  PROVE  \/ ClientTurns(f)
         \/ call.result # Error /\ call.at = "handshake" /\ ClientTurns(SendConnect(s))
         \/ call.result # Error /\ call.at = "connect" /\ ClientTurns(cmd)
         \/ /\ call.result # Error /\ call.at = "createStream"
            /\ (ClientTurns(SendPlay(t)) \/ ClientTurns(SendPublish(t)))
         \/ /\ call.result # Error /\ call.at \notin {"handshake", "connect", "createStream"}
            /\ ClientTurns(b)
<1>1. CASE call.result = Error
  BY <1>1, Zenon DEF ContinueWith
<1>2. CASE call.result # Error /\ call.at = "handshake"
  <2>1. ClientTurns(SendConnect(s))
    BY <1>2, Zenon DEF ContinueWith
  <2>2. QED  BY <1>2, <2>1
<1>3. CASE call.result # Error /\ call.at = "connect"
  <2>1. ClientTurns(cmd)
    BY <1>3, Zenon DEF ContinueWith
  <2>2. QED  BY <1>3, <2>1
<1>4. CASE call.result # Error /\ call.at = "createStream"
  <2>1. ClientTurns(f) \/ ClientTurns(SendPlay(t)) \/ ClientTurns(SendPublish(t))
    <3>1. CASE info.type # "number"
      BY <1>4, <3>1, Zenon DEF ContinueWith
    <3>2. CASE info.type = "number"
      <4>1. ClientTurns(IF direction = "pull" THEN SendPlay(t) ELSE SendPublish(t))
        BY <1>4, <3>2, Zenon DEF ContinueWith
      <4>2. QED  BY <4>1, Zenon
    <3>3. QED  BY <3>1, <3>2
  <2>2. QED  BY <1>4, <2>1
<1>5. CASE call.result # Error /\ call.at \notin {"handshake", "connect", "createStream"}
  <2>1. call.at # "handshake" /\ call.at # "connect" /\ call.at # "createStream"
    BY <1>5
  <2>2. ClientTurns(f) \/ ClientTurns(b)
    BY <1>5, <2>1, Zenon DEF ContinueWith
  <2>3. QED  BY <1>5, <2>2
<1>6. QED  BY <1>1, <1>2, <1>3, <1>4, <1>5

(***************************************************************************)
(* connectAndStart goes on, and both ends read.                            *)
(***************************************************************************)
LEMMA ContinueBranched ==
  ASSUME Continue PROVE call.result # NoResult /\ Branched
<1>1. PICK s, info : s = Resumed(client, call) /\ info = call.result.info
  OBVIOUS
<1>2. call.result # NoResult
  BY DEF Continue
<1>3. ContinueWith(Resumed(client, call), call.result.info)
  BY NowIs, Zenon DEF Continue, ContinueWith, Resumed
<1>4. ContinueWith(s, info)
  BY <1>1, <1>3
<1>5. PICK f, b, t, cmd :
         /\ f = [s EXCEPT !.call.at = "failed"]
         /\ b = [s EXCEPT !.call.at = "started", !.client.beats = TRUE]
         /\ t = [s EXCEPT !.client.streamId = info.number]
         /\ cmd = SendCommand(s, "createStream", 0, [cmdObj |-> Null])
  OBVIOUS
<1>6. \/ ClientTurns(f)
      \/ call.result # Error /\ call.at = "handshake" /\ ClientTurns(SendConnect(s))
      \/ call.result # Error /\ call.at = "connect" /\ ClientTurns(cmd)
      \/ /\ call.result # Error /\ call.at = "createStream"
         /\ (ClientTurns(SendPlay(t)) \/ ClientTurns(SendPublish(t)))
      \/ /\ call.result # Error /\ call.at \notin {"handshake", "connect", "createStream"}
         /\ ClientTurns(b)
  BY <1>4, <1>5, ContinueBranches
<1>7. f = FailedOf(client, call) /\ b = StartedOf(client, call) /\ t = StreamOf(client, call)
  BY <1>1, <1>5, Zenon DEF FailedOf, StartedOf, StreamOf
<1>8. Branched
  BY <1>1, <1>5, <1>6, <1>7, Zenon DEF Branched
<1>9. QED  BY <1>2, <1>8

\* A command that connectAndStart sends.
LEMMA CommandStep ==
  ASSUME WholeNow, call.result # NoResult, call.result # Error, call.at \in Calling,
         NEW n, IsSide(n), SameClient([client |-> client], n, {"streamId"}), n.out = <<>>,
         NEW cmd \in Calling, NEW sid, NEW opt, Opts(opt),
         NEW s, s = SendCommand(n, cmd, sid, opt), ClientTurns(s)
  PROVE  WholeNext /\ encoder' = encoder
<1>1. ASSUME NEW u, u = SentOn(toServer, server, s.out)
      PROVE  Whole(s.client, s.call, server, toClient, u)
  BY <1>1, CommandKeeps DEF WholeNow
<1>2. QED  BY <1>1, TurnsWhole

LEMMA ContinueStep ==
  ASSUME WholeNow, Continue PROVE WholeNext /\ encoder' = encoder
<1>1. call.result # NoResult /\ Branched
  BY ContinueBranched
<1>2. ClientOk(client, call)
  BY DEF WholeNow, Whole
<1>3. CASE ClientTurns(FailedOf(client, call))
  <2>1. PICK s : s = FailedOf(client, call)
    OBVIOUS
  <2>2. ASSUME NEW u, u = SentOn(toServer, server, s.out)
        PROVE  Whole(s.client, s.call, server, toClient, u)
    BY <1>1, <2>1, <2>2, FailsKeeps DEF WholeNow
  <2>3. QED  BY <1>3, <2>1, <2>2, TurnsWhole
<1>4. CASE /\ call.result # Error /\ call.at = "handshake"
           /\ ClientTurns(SendConnect(Resumed(client, call)))
  <2>1. PICK s : s = SendConnect(Resumed(client, call))
    OBVIOUS
  <2>2. ASSUME NEW u, u = SentOn(toServer, server, s.out)
        PROVE  Whole(s.client, s.call, server, toClient, u)
    BY <1>1, <1>4, <2>1, <2>2, ConnectsKeeps DEF WholeNow
  <2>3. QED  BY <1>4, <2>1, <2>2, TurnsWhole
<1>5. CASE /\ call.result # Error /\ call.at = "connect"
           /\ ClientTurns(SendCommand(Resumed(client, call), "createStream", 0,
                                      [cmdObj |-> Null]))
  <2>1. PICK n, opt : n = Resumed(client, call) /\ opt = [cmdObj |-> Null]
    OBVIOUS
  <2>2. PICK s : s = SendCommand(n, "createStream", 0, opt)
    OBVIOUS
  <2>3. IsSide(n) /\ n.client = client /\ n.out = <<>>
    BY <1>2, <2>1, ResumedFields
  <2>4. SameClient([client |-> client], n, {"streamId"})
    BY <2>3 DEF SameClient
  <2>5. Opts(opt)
    BY <2>1, OptsAre
  <2>6. call.at \in Calling /\ "createStream" \in Calling
    BY <1>5 DEF Calling
  <2>7. ClientTurns(s)
    BY <1>5, <2>1, <2>2
  <2>8. QED  BY <1>1, <1>5, <2>2, <2>3, <2>4, <2>5, <2>6, <2>7, CommandStep
<1>6. CASE /\ call.result # Error /\ call.at = "createStream"
           /\ (ClientTurns(SendPlay(StreamOf(client, call)))
                 \/ ClientTurns(SendPublish(StreamOf(client, call))))
  <2>1. PICK n : n = StreamOf(client, call)
    OBVIOUS
  <2>2. PICK sid : sid = n.client.streamId
    OBVIOUS
  <2>3. IsSide(n) /\ SameClient([client |-> client], n, {"streamId"}) /\ n.out = <<>>
    BY <1>2, <2>1, StreamFields
  <2>4. call.at \in Calling /\ "play" \in Calling /\ "publish" \in Calling
    BY <1>6 DEF Calling
  <2>5. CASE ClientTurns(SendPlay(n))
    <3>1. PICK opt : opt = [cmdObj |-> Null, streamName |-> Str("name"), start |-> Num(-2),
                            duration |-> Num(-1), reset |-> Bool(TRUE)]
      OBVIOUS
    <3>2. PICK s : s = SendCommand(n, "play", sid, opt)
      OBVIOUS
    <3>3. Opts(opt)
      BY <3>1, OptsAre
    <3>4. ClientTurns(s)
      BY <2>2, <2>5, <3>1, <3>2, Zenon DEF SendPlay
    <3>5. QED  BY <1>1, <1>6, <2>3, <2>4, <3>2, <3>3, <3>4, CommandStep
  <2>6. CASE ClientTurns(SendPublish(n))
    <3>1. PICK opt : opt = [cmdObj |-> Null, streamName |-> Str("name"), type |-> Str("live")]
      OBVIOUS
    <3>2. PICK s : s = SendCommand(n, "publish", sid, opt)
      OBVIOUS
    <3>3. Opts(opt)
      BY <3>1, OptsAre
    <3>4. ClientTurns(s)
      BY <2>2, <2>6, <3>1, <3>2, Zenon DEF SendPublish
    <3>5. QED  BY <1>1, <1>6, <2>3, <2>4, <3>2, <3>3, <3>4, CommandStep
  <2>7. ClientTurns(SendPlay(n)) \/ ClientTurns(SendPublish(n))
    BY <1>6, <2>1
  <2>8. QED  BY <2>5, <2>6, <2>7
<1>7. CASE /\ call.result # Error /\ call.at \notin {"handshake", "connect", "createStream"}
           /\ ClientTurns(StartedOf(client, call))
  <2>1. PICK s : s = StartedOf(client, call)
    OBVIOUS
  <2>2. call.at \in Calling \cup {"handshake"}
    BY <1>1, <1>2 DEF ClientOk, CallOk
  <2>3. call.at \in {"play", "publish"}
    BY <1>7, <2>2 DEF Calling
  <2>4. ASSUME NEW u, u = SentOn(toServer, server, s.out)
        PROVE  Whole(s.client, s.call, server, toClient, u)
    BY <1>1, <2>1, <2>3, <2>4, StartsKeeps DEF WholeNow
  <2>5. QED  BY <1>7, <2>1, <2>4, TurnsWhole
<1>8. \/ ClientTurns(FailedOf(client, call))
      \/ /\ call.result # Error /\ call.at = "handshake"
         /\ ClientTurns(SendConnect(Resumed(client, call)))
      \/ /\ call.result # Error /\ call.at = "connect"
         /\ ClientTurns(SendCommand(Resumed(client, call), "createStream", 0,
                                    [cmdObj |-> Null]))
      \/ /\ call.result # Error /\ call.at = "createStream"
         /\ (ClientTurns(SendPlay(StreamOf(client, call)))
               \/ ClientTurns(SendPublish(StreamOf(client, call))))
      \/ /\ call.result # Error /\ call.at \notin {"handshake", "connect", "createStream"}
         /\ ClientTurns(StartedOf(client, call))
  BY <1>1, Zenon DEF Branched
<1>9. QED  BY <1>3, <1>4, <1>5, <1>6, <1>7, <1>8

\* A read of the client.
LEMMA Cuts ==
  ASSUME NEW l \in Nat, l # 0, NEW m, m = Max({1, l - 1}), NEW k \in m..l
  PROVE  k \in Nat /\ k <= l
<1>1. CASE l = 1
  <2>1. Max({1, l - 1}) = 1
    BY <1>1, MaxOf
  <2>2. QED  BY <2>1
<1>2. CASE l # 1
  <2>1. Max({1, l - 1}) = l - 1
    <3>1. l - 1 \in {1, l - 1} /\ {1, l - 1} \subseteq Int
      OBVIOUS
    <3>2. \A y \in {1, l - 1} : l - 1 >= y
      BY <1>2
    <3>3. QED  BY <3>1, <3>2, MaxOf
  <2>2. QED  BY <2>1
<1>3. QED  BY <1>1, <1>2

LEMMA ClientReadStep ==
  ASSUME WholeNow, ClientRead PROVE WholeNext /\ encoder' = encoder
<1>1. client.socket = "open" /\ toClient # <<>> /\ server' = server /\ encoder' = encoder
  BY DEF ClientRead
<1>2. PICK k \in Max({1, Len(toClient) - 1})..Len(toClient) :
         /\ ClientTakes(HandleData(Now, SubSeq(toClient, 1, k)))
         /\ toClient' = From(toClient, k + 1)
  BY DEF ClientRead
<1>3. PICK a, rest : CutAt(toClient, k, a, rest)
  BY DEF CutAt
<1>4. PICK n : n = NowOf(client, call)
  OBVIOUS
<1>5. PICK r : r = HandleData(n, a)
  OBVIOUS
<1>6. PICK u : u = SentOn(toServer, server, r.s.out)
  OBVIOUS
<1>7. k \in Nat /\ k <= Len(toClient)
  <2>1. Chunked(toClient)
    BY DEF WholeNow, Whole, WiresOk
  <2>2. IsSeq(toClient)
    BY <2>1 DEF Chunked
  <2>3. Len(toClient) \in Nat
    BY <2>2, IsSeqLen
  <2>4. Len(toClient) # 0
    BY <1>1, <2>2, EmptyLen
  <2>5. QED  BY <1>2, <2>3, <2>4, Cuts
<1>8. Whole(r.s.client, r.s.call, server, rest, u)
  BY <1>1, <1>3, <1>4, <1>5, <1>6, <1>7, ClientReadKeeps DEF WholeNow
<1>9. ClientTakes(r) /\ toClient' = rest
  BY <1>2, <1>3, <1>4, <1>5, NowIs DEF CutAt
<1>10. PICK out : out = r.s.out
  OBVIOUS
<1>11. ClientWrites(out) /\ client' = r.s.client /\ call' = r.s.call
  BY <1>9, <1>10 DEF ClientTakes
<1>12. toServer' = u
  BY <1>6, <1>10, <1>11, WritesTo
<1>13. WholeNext
  BY <1>1, <1>8, <1>9, <1>11, <1>12 DEF WholeNext
<1>14. QED  BY <1>1, <1>13

\* A read of the server.
LEMMA ServerReadStep ==
  ASSUME WholeNow, ServerRead PROVE WholeNext /\ encoder' = encoder
<1>1. /\ server.open /\ toServer # <<>> /\ client' = client /\ call' = call
      /\ encoder' = encoder
  BY DEF ServerRead
<1>2. PICK t : t = DataAll([server |-> server, out |-> <<>>], Sigs(toServer))
  OBVIOUS
<1>3. PICK z : z = Read(server.parser, NoSigs(toServer))
  OBVIOUS
<1>4. PICK u : u = ServerAll([t EXCEPT !.server.parser = [z EXCEPT !.handled = <<>>]],
                             z.handled)
  OBVIOUS
<1>5. ServerHandles(t, z)
  BY <1>2, <1>3, Zenon DEF ServerRead, DataAll
<1>6. ServerTakes(u, z.handled)
  BY <1>4, <1>5, Zenon DEF ServerHandles, ServerAll
<1>7. server' = u.server /\ toServer' = <<>> /\ toClient' = toClient \o Written(u.out)
  BY <1>6 DEF ServerTakes
<1>8. ServerOk(server) /\ WiresOk(call, server, toClient, toServer)
  BY DEF WholeNow, Whole
<1>9. DOMAIN server = ServerFields /\ AskedOk(server.asked)
  BY <1>8 DEF ServerOk
<1>10. Hearing(Emptied(server.parser), toServer, <<>>, SizesAt(call.at))
  BY <1>1, <1>8 DEF WiresOk
<1>11. ServedBy(server, z, u, toServer, SizesAt(call.at))
  BY <1>2, <1>3, <1>4, <1>9, <1>10, ServerReads
<1>12. Whole(client, call, u.server, toClient', <<>>)
  BY <1>1, <1>7, <1>11, ServerReadKeeps DEF WholeNow
<1>13. WholeNext
  BY <1>1, <1>7, <1>12 DEF WholeNext
<1>14. QED  BY <1>1, <1>13

(***************************************************************************)
(* The other actions of servers.                                           *)
(***************************************************************************)
LEMMA VersionStep ==
  ASSUME WholeNow, OtherVersion PROVE WholeNext /\ encoder' = encoder
<1>1. /\ server.open /\ toServer # <<>> /\ server.hs = "uninit" /\ toServer' = <<>>
      /\ client' = client /\ call' = call /\ encoder' = encoder
  BY DEF OtherVersion
<1>2. PICK st : st = VersionOf(server)
  OBVIOUS
<1>3. PICK nc : nc = Written(<<Signature("other version")>>)
  OBVIOUS
<1>4. server' = st
  BY <1>2, Zenon DEF OtherVersion, VersionOf
<1>5. toClient' = nc
  BY <1>3 DEF OtherVersion
<1>6. Whole(client, call, st, nc, <<>>)
  BY <1>1, <1>2, <1>3, VersionKeeps DEF WholeNow
<1>7. QED  BY <1>1, <1>4, <1>5, <1>6 DEF WholeNext

LEMMA ServerEndsStep ==
  ASSUME WholeNow, ServerEnds PROVE WholeNext /\ encoder' = NoMedia
<1>1. /\ client.socket = "open" /\ server' = Gone /\ encoder' = NoMedia /\ toServer' = <<>>
      /\ client' = client /\ call' = call /\ toClient' = toClient
  BY DEF ServerEnds
<1>2. /\ ClientOk(client, call) /\ WiresOk(call, server, toClient, toServer)
      /\ Shakes(client, call, toClient)
  BY DEF WholeNow, Whole
<1>3. PICK g : g = Gone
  OBVIOUS
<1>4. ServerOk(g) /\ g.open = FALSE
  BY <1>3, ServersAre
<1>5. WiresOk(call, g, toClient, <<>>)
  BY <1>2, <1>4, NoChunks DEF WiresOk
<1>6. Before(client, call, g, toClient, <<>>)
  BY <1>1 DEF Before
<1>7. Asked(client, g, toClient, <<>>)
  BY <1>4 DEF Asked
<1>8. Whole(client, call, g, toClient, <<>>)
  BY <1>2, <1>4, <1>5, <1>6, <1>7 DEF Whole
<1>9. QED  BY <1>1, <1>3, <1>8 DEF WholeNext

\* What another server says is a message.
SaysTo(m) ==
  /\ client' = client /\ call' = call /\ toServer' = toServer
  /\ toClient' = toClient \o InChunks(0, m, encoder.chunkSize)

LEMMA SaysIs == ASSUME NEW m, ServerSays(m) PROVE SaysTo(m)
  BY Zenon DEF ServerSays, ServerWrites, SaysTo

LEMMA SaysStep ==
  ASSUME WholeNow, EncoderOk(encoder), ~Mute(server), NEW m, Sendable(m), ServerSays(m),
         ServerOk(server'), server'.open = server.open, server'.hs = server.hs,
         server'.parser = server.parser
  PROVE  WholeNext
<1>1. SaysTo(m)
  BY SaysIs
<1>2. encoder.chunkSize \in Nat \ {0}
  BY DEF EncoderOk
<1>3. PICK size : size = encoder.chunkSize
  OBVIOUS
<1>4. PICK nc : nc = toClient \o InChunks(0, m, size)
  OBVIOUS
<1>5. PICK st : st = server'
  OBVIOUS
<1>6. Whole(client, call, st, nc, toServer)
  BY <1>2, <1>3, <1>4, <1>5, MessageKeeps DEF WholeNow
<1>7. QED  BY <1>1, <1>3, <1>4, <1>5, <1>6 DEF SaysTo, WholeNext

\* The server is as it was.
LEMMA SaysOn ==
  ASSUME WholeNow, EncoderOk(encoder), ~Mute(server), NEW m, Sendable(m), ServerSays(m),
         server' = server
  PROVE  WholeNext
<1>1. ServerOk(server)
  BY DEF WholeNow, Whole
<1>2. QED  BY <1>1, SaysStep

LEMMA PingsStep ==
  ASSUME WholeNow, EncoderOk(encoder), OtherPings PROVE WholeNext /\ encoder' = encoder
<1>1. /\ server.asked # NoResult /\ ServerSays(UserEvent("ping"))
      /\ server' = server /\ encoder' = encoder
  BY DEF OtherPings
<1>2. PICK m : m = UserEvent("ping")
  OBVIOUS
<1>3. Sendable(m)
  BY <1>2, Controls DEF Short
<1>4. ~Mute(server)
  BY <1>1 DEF Mute
<1>5. QED  BY <1>1, <1>2, <1>3, <1>4, SaysOn

LEMMA ResizeStep ==
  ASSUME WholeNow, EncoderOk(encoder), Resize PROVE WholeNext /\ EncoderOk(encoder')
<1>1. /\ server.asked # NoResult \/ server.role = "play"
      /\ server' = server
  BY DEF Resize
<1>2. PICK size \in Sizes : /\ ServerSays(SetChunkSize(size))
                            /\ encoder' = [encoder EXCEPT !.chunkSize = size]
  BY DEF Resize
<1>3. PICK m : m = SetChunkSize(size)
  OBVIOUS
<1>4. Sendable(m)
  BY <1>3, Controls DEF Short
<1>5. ~Mute(server)
  BY <1>1 DEF Mute
<1>6. WholeNext
  BY <1>1, <1>2, <1>3, <1>4, <1>5, SaysOn
<1>7. size \in Nat \ {0}
  BY RtmpAssumption
<1>8. EncoderOk(encoder')
  BY <1>2, <1>7 DEF EncoderOk
<1>9. QED  BY <1>6, <1>8

\* An answer, to the number of the question.
AnsweredBy(sv, role) ==
  [sv EXCEPT !.asked = NoResult, !.role = role, !.streamId = sv.asked.sid]

LEMMA AnsweredIs ==
  ASSUME NEW sv, ServerOk(sv), NEW role, NEW st, st = AnsweredBy(sv, role)
  PROVE  /\ ServerOk(st) /\ st.open = sv.open /\ st.hs = sv.hs /\ st.parser = sv.parser
<1>1. DOMAIN sv = ServerFields
  BY DEF ServerOk
<1>2. PICK sid : sid = sv.asked.sid
  OBVIOUS
<1>3. PICK a : a = [sv EXCEPT !.asked = NoResult]
  OBVIOUS
<1>4. PICK b : b = [a EXCEPT !.role = role]
  OBVIOUS
<1>5. st = [b EXCEPT !.streamId = sid]
  BY <1>2, <1>3, <1>4, Zenon DEF AnsweredBy
<1>6. /\ DOMAIN a = ServerFields /\ a.open = sv.open /\ a.hs = sv.hs
      /\ a.parser = sv.parser /\ a.asked = NoResult
  BY <1>1, <1>3 DEF ServerFields
<1>7. /\ DOMAIN b = ServerFields /\ b.open = sv.open /\ b.hs = sv.hs
      /\ b.parser = sv.parser /\ b.asked = NoResult
  BY <1>4, <1>6 DEF ServerFields
<1>8. /\ DOMAIN st = ServerFields /\ st.open = sv.open /\ st.hs = sv.hs
      /\ st.parser = sv.parser /\ st.asked = NoResult
  BY <1>5, <1>7 DEF ServerFields
<1>9. QED  BY <1>8 DEF ServerOk, AskedOk

AnswersOf(id, infos, cmd, sid) ==
  {Result("_result", id, info) : info \in infos}
    \cup {Result("_error", id, Null), Result("_result", Num(9), Null)}
    \cup (IF cmd \notin {"play", "publish"} THEN {} ELSE {Status(sid, code) : code \in Codes})
ResultsOf(cmd) ==
  IF cmd = "createStream" THEN {Num(1), Null} ELSE IF cmd = "connect" THEN Infos ELSE {}

LEMMA AnswerSendable ==
  ASSUME NEW id, IsValue(id), NEW infos, \A info \in infos : IsValue(info),
         NEW cmd, NEW sid, NEW m \in AnswersOf(id, infos, cmd, sid)
  PROVE  Sendable(m)
<1>1. \/ \E info \in infos : m = Result("_result", id, info)
      \/ m = Result("_error", id, Null) \/ m = Result("_result", Num(9), Null)
      \/ \E code \in Codes : m = Status(sid, code)
  <2>1. \/ m \in {Result("_result", id, info) : info \in infos}
        \/ m = Result("_error", id, Null) \/ m = Result("_result", Num(9), Null)
        \/ m \in IF cmd \notin {"play", "publish"} THEN {}
                 ELSE {Status(sid, code) : code \in Codes}
    BY Zenon DEF AnswersOf
  <2>2. QED  BY <2>1, Zenon
<1>2. IsValue(Null) /\ IsValue(Num(9))
  BY SimpleValues
<1>3. ASSUME NEW info \in infos, m = Result("_result", id, info) PROVE Sendable(m)
  BY <1>3, AnswersPlain
<1>4. ASSUME NEW code \in Codes, m = Status(sid, code) PROVE Sendable(m)
  BY <1>4, AnswersPlain
<1>5. ASSUME m = Result("_error", id, Null) PROVE Sendable(m)
  BY <1>2, <1>5, AnswersPlain
<1>6. ASSUME m = Result("_result", Num(9), Null) PROVE Sendable(m)
  BY <1>2, <1>6, AnswersPlain
<1>7. QED  BY <1>1, <1>3, <1>4, <1>5, <1>6

LEMMA ResultsAre == ASSUME NEW cmd, NEW info \in ResultsOf(cmd) PROVE IsValue(info)
<1>1. info \in {Num(1), Null} \/ info \in Infos
  BY Zenon DEF ResultsOf
<1>2. IsValue(Num(1)) /\ IsValue(Null)
  BY SimpleValues
<1>3. \A x \in Infos : IsValue(x)
  BY RtmpAssumption
<1>4. QED  BY <1>1, <1>2, <1>3, Zenon

AnswersWith(cmd, id, sid) ==
  \E answer \in AnswersOf(id, ResultsOf(cmd), cmd, sid) :
    /\ ServerSays(answer)
    /\ \E role : server' = AnsweredBy(server, role)

LEMMA AnswersIs ==
  ASSUME OtherAnswers
  PROVE  /\ server.asked # NoResult /\ encoder' = encoder
         /\ AnswersWith(server.asked.opt.cmd.text, server.asked.opt.transId, server.asked.sid)
<1>1. server.asked # NoResult /\ encoder' = encoder
  BY DEF OtherAnswers
<1>2. PICK cmd, id, sid : /\ cmd = server.asked.opt.cmd.text
                          /\ id = server.asked.opt.transId /\ sid = server.asked.sid
  OBVIOUS
<1>3. \E answer \in AnswersOf(id, ResultsOf(cmd), cmd, sid) :
        /\ ServerSays(answer)
        /\ server' = [server EXCEPT !.asked = NoResult,
                        !.role = IF answer = Status(sid, "NetStream.Play.Start")
                                    /\ cmd = "play" THEN "play" ELSE server.role,
                        !.streamId = sid]
  BY <1>2, Zenon DEF OtherAnswers, AnswersOf, ResultsOf
<1>4. AnswersWith(cmd, id, sid)
  BY <1>2, <1>3, Zenon DEF AnswersWith, AnsweredBy
<1>5. QED  BY <1>1, <1>2, <1>4

LEMMA AnswersStep ==
  ASSUME WholeNow, EncoderOk(encoder), OtherAnswers PROVE WholeNext /\ encoder' = encoder
<1>1. PICK cmd, id, sid : /\ cmd = server.asked.opt.cmd.text
                          /\ id = server.asked.opt.transId /\ sid = server.asked.sid
  OBVIOUS
<1>2. server.asked # NoResult /\ encoder' = encoder /\ AnswersWith(cmd, id, sid)
  BY <1>1, AnswersIs
<1>3. ServerOk(server)
  BY DEF WholeNow, Whole
<1>4. AskedOk(server.asked)
  BY <1>3 DEF ServerOk
<1>5. PICK c, n : Asks(server.asked.opt, c, n)
  BY <1>2, <1>4 DEF AskedOk
<1>6. id = Num(n)
  BY <1>1, <1>5 DEF Asks
<1>7. IsValue(id)
  BY <1>6, SimpleValues
<1>8. \A info \in ResultsOf(cmd) : IsValue(info)
  BY ResultsAre
<1>9. PICK m \in AnswersOf(id, ResultsOf(cmd), cmd, sid) :
         ServerSays(m) /\ \E role : server' = AnsweredBy(server, role)
  BY <1>2 DEF AnswersWith
<1>10. Sendable(m)
  BY <1>7, <1>8, AnswerSendable
<1>11. /\ ServerOk(server') /\ server'.open = server.open /\ server'.hs = server.hs
       /\ server'.parser = server.parser
  BY <1>3, <1>9, AnsweredIs
<1>12. ~Mute(server)
  BY <1>2 DEF Mute
<1>13. WholeNext
  BY <1>9, <1>10, <1>11, <1>12, SaysStep
<1>14. QED  BY <1>2, <1>13

(***************************************************************************)
(* The media of another server.                                            *)
(***************************************************************************)

PacketOf(cid, time, payload) ==
  [type |-> TypeOf(cid), time |-> time, sid |-> server.streamId, cid |-> cid,
   payload |-> payload]
StreamMade(time, length, payload, message) ==
  [time |-> time, length |-> length, left |-> payload, message |-> message]
MediaBegun(cid, fmt, length, time) ==
  \E message :
    /\ ServerWrites(<<InChunks(fmt, PacketOf(cid, time, MediaCells(length)),
                               encoder.chunkSize)[1]>>,
                    Completed(Sent(StreamMade(time, length, MediaCells(length), message),
                                   encoder.chunkSize)))
    /\ encoder' = [encoder EXCEPT !.sent = @ + 1,
                     !.streams = Updated(@, cid,
                       Sent(StreamMade(time, length, MediaCells(length), message),
                            encoder.chunkSize))]

LEMMA BegunIs ==
  ASSUME NEW cid, NEW fmt, NEW old, NEW length, NEW time, Begins(fmt, cid, old, length, time)
  PROVE  MediaBegun(cid, fmt, length, time)
<1>1. PICK p : p = MediaCells(length)
  OBVIOUS
<1>2. PICK k : k = PacketOf(cid, time, p)
  OBVIOUS
<1>3. PICK clock : clock = IF fmt = 0 THEN time ELSE old.message.clock + time
  OBVIOUS
<1>4. PICK message : message = [type |-> k.type, sid |-> k.sid, clock |-> clock,
                                payload |-> k.payload]
  OBVIOUS
<1>5. PICK y : y = Sent([time |-> time, length |-> length, left |-> k.payload,
                         message |-> message], encoder.chunkSize)
  OBVIOUS
<1>6. /\ ServerWrites(<<InChunks(fmt, k, encoder.chunkSize)[1]>>, Completed(y))
      /\ encoder' = [encoder EXCEPT !.sent = @ + 1, !.streams = Updated(@, cid, y)]
  BY <1>1, <1>2, <1>3, <1>4, <1>5, Zenon DEF Begins, PacketOf
<1>7. k.payload = p
  BY <1>2 DEF PacketOf
<1>8. y = Sent(StreamMade(time, length, p, message), encoder.chunkSize)
  BY <1>5, <1>7 DEF StreamMade
<1>9. QED  BY <1>1, <1>2, <1>6, <1>8, Zenon DEF MediaBegun

LEMMA BeginsWith ==
  ASSUME BeginMessage
  PROVE  \E cid \in Cids, fmt \in 0..3 :
           /\ fmt > 0 => cid \in DOMAIN encoder.streams
           /\ \E length \in LengthsAfter(fmt, encoder.streams[cid]) :
                \E time : MediaBegun(cid, fmt, length, time)
<1>1. PICK cid \in Cids \ Busy, fmt \in 0..3 :
        /\ fmt > 0 => cid \in DOMAIN encoder.streams
        /\ \E length \in LengthsAfter(fmt, encoder.streams[cid]) :
             \E time \in TimesAfter(fmt, encoder.streams[cid]) :
               Begins(fmt, cid, encoder.streams[cid], length, time)
  BY DEF BeginMessage
<1>2. \E length \in LengthsAfter(fmt, encoder.streams[cid]) :
        \E time : MediaBegun(cid, fmt, length, time)
  BY <1>1, BegunIs
<1>3. QED  BY <1>1, <1>2

\* What a chunk that the server writes does.
WritesOn(c) ==
  /\ client' = client /\ call' = call /\ toServer' = toServer
  /\ toClient' = toClient \o <<c>>

LEMMA WritesChunk == ASSUME NEW c, NEW ms, ServerWrites(<<c>>, ms) PROVE WritesOn(c)
  BY Zenon DEF ServerWrites, WritesOn

LEMMA ChunkStep ==
  ASSUME WholeNow, server.role = "play", NEW c, Plain(c), NEW ms, ServerWrites(<<c>>, ms),
         server' = server
  PROVE  WholeNext
<1>1. WritesOn(c)
  BY WritesChunk
<1>2. PICK nc : nc = toClient \o <<c>>
  OBVIOUS
<1>3. ~Mute(server)
  BY DEF Mute
<1>4. Whole(client, call, server, nc, toServer)
  BY <1>2, <1>3, ChunkKeeps DEF WholeNow
<1>5. QED  BY <1>1, <1>2, <1>4 DEF WritesOn, WholeNext

LEMMA PayloadIs ==
  ASSUME NEW length \in Nat, NEW p, p = MediaCells(length) PROVE IsSeq(p)
<1>1. DOMAIN p = 1..length /\ p = [i \in 1..length |-> p[i]]
  BY DEF MediaCells
<1>2. QED  BY <1>1, IsSeqFcn

LEMMA StreamsMore ==
  ASSUME NEW en, EncoderOk(en), NEW cid \in Cids, NEW x, StreamOk(x), NEW e,
         e = [en EXCEPT !.sent = @ + 1, !.streams = Updated(@, cid, x)]
  PROVE  EncoderOk(e)
<1>1. PICK ss, n : ss = Updated(en.streams, cid, x) /\ n = en.sent + 1
  OBVIOUS
<1>2. PICK a : a = [en EXCEPT !.sent = n]
  OBVIOUS
<1>3. DOMAIN en = {"chunkSize", "streams", "sent"} /\ en.chunkSize \in Nat \ {0}
  BY DEF EncoderOk
<1>4. /\ DOMAIN a = {"chunkSize", "streams", "sent"} /\ a.chunkSize = en.chunkSize
      /\ a.streams = en.streams
  BY <1>2, <1>3
<1>5. e = [a EXCEPT !.streams = ss]
  BY <1>1, <1>2, <1>3
<1>6. /\ DOMAIN e = {"chunkSize", "streams", "sent"} /\ e.chunkSize = en.chunkSize
      /\ e.streams = ss
  BY <1>4, <1>5
<1>7. ASSUME NEW c \in DOMAIN ss PROVE c \in Cids /\ StreamOk(ss[c])
  <2>1. CASE c = cid
    <3>1. ss[c] = x
      BY <1>1, <2>1 DEF Updated
    <3>2. QED  BY <2>1, <3>1
  <2>2. CASE c # cid
    <3>1. c \in DOMAIN en.streams /\ ss[c] = en.streams[c]
      BY <1>1, <1>7, <2>2 DEF Updated
    <3>2. QED  BY <3>1 DEF EncoderOk
  <2>3. QED  BY <2>1, <2>2
<1>8. QED  BY <1>3, <1>6, <1>7 DEF EncoderOk

LEMMA BeginStep ==
  ASSUME WholeNow, EncoderOk(encoder), BeginMessage PROVE WholeNext /\ EncoderOk(encoder')
<1>1. server.role = "play" /\ server' = server
  BY DEF BeginMessage, Streaming
<1>2. PICK cid \in Cids, fmt \in 0..3 :
        /\ fmt > 0 => cid \in DOMAIN encoder.streams
        /\ \E length \in LengthsAfter(fmt, encoder.streams[cid]) :
             \E time : MediaBegun(cid, fmt, length, time)
  BY BeginsWith
<1>3. PICK length, time : /\ length \in LengthsAfter(fmt, encoder.streams[cid])
                          /\ MediaBegun(cid, fmt, length, time)
  BY <1>2
<1>4. length \in Nat
  <2>1. CASE fmt <= 1
    <3>1. length \in Lengths
      BY <1>3, <2>1 DEF LengthsAfter
    <3>2. QED  BY <3>1, RtmpAssumption
  <2>2. CASE ~(fmt <= 1)
    <3>1. length = encoder.streams[cid].length
      BY <1>3, <2>2 DEF LengthsAfter
    <3>2. cid \in DOMAIN encoder.streams
      BY <1>2, <2>2
    <3>3. StreamOk(encoder.streams[cid])
      BY <3>2 DEF EncoderOk
    <3>4. QED  BY <3>1, <3>3 DEF StreamOk
  <2>3. QED  BY <2>1, <2>2
<1>5. PICK p : p = MediaCells(length)
  OBVIOUS
<1>6. IsSeq(p)
  BY <1>4, <1>5, PayloadIs
<1>7. PICK k, size : k = PacketOf(cid, time, p) /\ size = encoder.chunkSize
  OBVIOUS
<1>8. PICK c : c = InChunks(fmt, k, size)[1]
  OBVIOUS
<1>9. size \in Nat \ {0}
  BY <1>7 DEF EncoderOk
<1>10. Plain(c)
  <2>1. k.cid = cid /\ k.payload = p
    BY <1>7 DEF PacketOf
  <2>2. HasCid(k.cid)
    BY <2>1, CidsAre
  <2>3. IsSeq(k.payload)
    BY <1>6, <2>1
  <2>4. QED  BY <1>2, <1>8, <1>9, <2>2, <2>3, FirstChunk
<1>11. PICK message :
         /\ ServerWrites(<<c>>, Completed(Sent(StreamMade(time, length, p, message), size)))
         /\ encoder' = [encoder EXCEPT !.sent = @ + 1,
                          !.streams = Updated(@, cid,
                                              Sent(StreamMade(time, length, p, message), size))]
  BY <1>3, <1>5, <1>7, <1>8, Zenon DEF MediaBegun
<1>12. PICK x : x = StreamMade(time, length, p, message)
  OBVIOUS
<1>13. PICK y : y = Sent(x, size)
  OBVIOUS
<1>14. StreamOk(x)
  BY <1>4, <1>6, <1>12 DEF StreamMade, StreamOk
<1>15. StreamOk(y)
  BY <1>9, <1>13, <1>14, SentIs
<1>16. PICK ms : ms = Completed(y)
  OBVIOUS
<1>17. ServerWrites(<<c>>, ms)
  BY <1>11, <1>12, <1>13, <1>16
<1>18. encoder' = [encoder EXCEPT !.sent = @ + 1, !.streams = Updated(@, cid, y)]
  BY <1>11, <1>12, <1>13
<1>19. WholeNext
  BY <1>1, <1>10, <1>17, ChunkStep
<1>20. EncoderOk(encoder')
  BY <1>15, <1>18, StreamsMore
<1>21. QED  BY <1>19, <1>20

\* The chunk that goes on with a message.
More(cid, stream, part) ==
  ChunkBasicHeaderCreate(3, cid) \o ExtendedTimestamp(stream.time) \o part
PartOf(stream, next) == SubSeq(stream.left, 1, Len(stream.left) - Len(next.left))

LEMMA MorePlain ==
  ASSUME NEW cid, HasCid(cid), NEW stream, NEW part, IsSeq(part)
  PROVE  Plain(More(cid, stream, part))
<1>1. Plain(ChunkBasicHeaderCreate(3, cid))
  BY BasicPlain
<1>2. PICK b, x : b = ChunkBasicHeaderCreate(3, cid) /\ x = ExtendedTimestamp(stream.time)
  OBVIOUS
<1>3. IsSeq(x)
  BY <1>2, ExtendedIs
<1>4. Plain(b \o x)
  BY <1>1, <1>2, <1>3, PlainMore
<1>5. Plain((b \o x) \o part)
  BY <1>4, PlainMore
<1>6. QED  BY <1>2, <1>5 DEF More

LEMMA ContinueMessageStep ==
  ASSUME WholeNow, EncoderOk(encoder), ContinueMessage
  PROVE  WholeNext /\ EncoderOk(encoder')
<1>1. server.role = "play" /\ server' = server
  BY DEF ContinueMessage, Streaming
<1>2. \E cid \in Busy :
         /\ ServerWrites(<<More(cid, encoder.streams[cid],
                                PartOf(encoder.streams[cid],
                                       Sent(encoder.streams[cid], encoder.chunkSize)))>>,
                         Completed(Sent(encoder.streams[cid], encoder.chunkSize)))
         /\ encoder' = [encoder EXCEPT !.streams[cid] =
                          Sent(encoder.streams[cid], encoder.chunkSize)]
  BY Zenon DEF ContinueMessage, More, PartOf
<1>3. PICK cid \in Busy :
         /\ ServerWrites(<<More(cid, encoder.streams[cid],
                                PartOf(encoder.streams[cid],
                                       Sent(encoder.streams[cid], encoder.chunkSize)))>>,
                         Completed(Sent(encoder.streams[cid], encoder.chunkSize)))
         /\ encoder' = [encoder EXCEPT !.streams[cid] =
                          Sent(encoder.streams[cid], encoder.chunkSize)]
  BY <1>2
<1>4. PICK x, size : x = encoder.streams[cid] /\ size = encoder.chunkSize
  OBVIOUS
<1>5. PICK y : y = Sent(x, size)
  OBVIOUS
<1>6. PICK part : part = PartOf(x, y)
  OBVIOUS
<1>7. PICK c, ms : c = More(cid, x, part) /\ ms = Completed(y)
  OBVIOUS
<1>8. ServerWrites(<<c>>, ms)
  BY <1>3, <1>4, <1>5, <1>6, <1>7
<1>9. cid \in DOMAIN encoder.streams
  BY DEF Busy
<1>10. StreamOk(x) /\ size \in Nat \ {0} /\ cid \in Cids
  BY <1>4, <1>9 DEF EncoderOk
<1>11. StreamOk(y) /\ IsSeq(part)
  <2>1. /\ StreamOk(y)
        /\ IsSeq(SubSeq(x.left, 1, Len(x.left) - Len(y.left)))
    BY <1>5, <1>10, SentIs
  <2>2. QED  BY <1>6, <2>1 DEF PartOf
<1>12. Plain(c)
  <2>1. HasCid(cid)
    BY <1>10, CidsAre
  <2>2. QED  BY <1>7, <1>11, <2>1, MorePlain
<1>13. WholeNext
  BY <1>1, <1>8, <1>12, ChunkStep
<1>14. PICK ss : ss = [encoder.streams EXCEPT ![cid] = y]
  OBVIOUS
<1>15. encoder' = [encoder EXCEPT !.streams = ss]
  BY <1>3, <1>4, <1>5, <1>14
<1>16. ASSUME NEW d \in DOMAIN ss PROVE d \in Cids /\ StreamOk(ss[d])
  BY <1>10, <1>11, <1>14, <1>16 DEF EncoderOk
<1>17. /\ DOMAIN encoder' = {"chunkSize", "streams", "sent"}
       /\ encoder'.chunkSize = encoder.chunkSize /\ encoder'.streams = ss
  BY <1>15 DEF EncoderOk
<1>18. EncoderOk(encoder')
  BY <1>16, <1>17 DEF EncoderOk
<1>19. QED  BY <1>13, <1>18

(***************************************************************************)
(* The invariant holds, and no promise is lost.                            *)
(***************************************************************************)
RtmpInv == WholeNow /\ EncoderOk(encoder)

LEMMA FirstClient ==
  ASSUME RtmpInit
  PROVE  /\ ClientOk(client, call) /\ client.socket = "connecting"
         /\ call.at = "handshake" /\ call.result = NoResult
<1>1. /\ DOMAIN client = ClientFields /\ DOMAIN call = {"at", "result"}
      /\ client.socket = "connecting" /\ call.at = "handshake" /\ call.result = NoResult
      /\ client.pending = <<>> /\ client.waits = TRUE /\ client.beats = FALSE
      /\ client.next = 1 /\ client.parser = Parser
  BY DEF RtmpInit, ClientFields
<1>2. DOMAIN client.pending = {}
  BY <1>1
<1>3. CallOk(client, call)
  BY <1>1, <1>2, Results DEF CallOk
<1>4. IsParser(client.parser)
  BY <1>1, ParserIs
<1>5. QED  BY <1>1, <1>3, <1>4 DEF ClientOk

LEMMA FirstWhole ==
  ASSUME RtmpInit PROVE RtmpInv
<1>1. /\ ClientOk(client, call) /\ client.socket = "connecting"
      /\ call.at = "handshake" /\ call.result = NoResult
  BY FirstClient
<1>2. server = Fresh /\ toClient = <<>> /\ toServer = <<>> /\ encoder = NoMedia
  BY DEF RtmpInit
<1>3. PICK f : f = Fresh
  OBVIOUS
<1>4. /\ ServerOk(f) /\ f.open = TRUE /\ f.hs = "uninit" /\ f.parser = Parser
      /\ f.asked = NoResult /\ f.role = "none"
  BY <1>3, ServersAre
<1>5. Hearing(Emptied(f.parser), <<>>, <<>>, SizesAt(call.at))
  <2>1. PICK e : e = Emptied(f.parser)
    OBVIOUS
  <2>2. Listening(e)
    BY <1>4, <2>1, ParserIs
  <2>3. e.inChunkSize \in Nat \ {0}
    BY <2>2 DEF Listening
  <2>4. PICK sizes : sizes = SizesAt(call.at)
    OBVIOUS
  <2>5. sizes = Nat \ {0}
    BY <1>1, <2>4, SizesAre
  <2>6. Hearing(e, <<>>, <<>>, sizes)
    BY <2>2, <2>3, <2>5, HearNothing
  <2>7. QED  BY <2>1, <2>4, <2>6
<1>6. WiresOk(call, f, <<>>, <<>>)
  BY <1>5, NoChunks DEF WiresOk
<1>7. Before(client, call, f, <<>>, <<>>)
  BY <1>1, <1>4 DEF Before, Mute
<1>8. Shakes(client, call, <<>>)
  BY <1>1 DEF Shakes
<1>9. Asked(client, f, <<>>, <<>>)
  BY <1>1, <1>4 DEF Asked
<1>10. Whole(client, call, f, <<>>, <<>>)
  BY <1>1, <1>4, <1>6, <1>7, <1>8, <1>9 DEF Whole
<1>11. WholeNow
  BY <1>2, <1>3, <1>10 DEF WholeNow
<1>12. EncoderOk(encoder)
  BY <1>2, NoMediaOk
<1>13. QED  BY <1>11, <1>12 DEF RtmpInv

LEMMA StaysWhole ==
  ASSUME RtmpInv, [RtmpNext]_rtmpVars PROVE RtmpInv'
<1>1. WholeNow /\ EncoderOk(encoder)
  BY DEF RtmpInv
<1>2. ASSUME WholeNext, encoder' = encoder \/ encoder' = NoMedia \/ EncoderOk(encoder')
      PROVE  RtmpInv'
  <2>1. WholeNow'
    BY <1>2 DEF WholeNow, WholeNext
  <2>2. EncoderOk(encoder')
    BY <1>1, <1>2, NoMediaOk
  <2>3. QED  BY <2>1, <2>2 DEF RtmpInv
<1>3. CASE Connected
  BY <1>1, <1>2, <1>3, ConnectedStep
<1>4. CASE ClientRead
  BY <1>1, <1>2, <1>4, ClientReadStep
<1>5. CASE Continue
  BY <1>1, <1>2, <1>5, ContinueStep
<1>6. CASE SocketError
  BY <1>1, <1>2, <1>6, ErrorStep
<1>7. CASE SocketClosed
  BY <1>1, <1>2, <1>7, ClosedStep
<1>8. CASE SessionCloses
  BY <1>1, <1>2, <1>8, ClosesStep
<1>9. CASE Heartbeat
  BY <1>1, <1>2, <1>9, HeartbeatStep
<1>10. CASE TimedOut
  BY <1>1, <1>2, <1>10, TimedOutStep
<1>11. CASE ServerRead
  BY <1>1, <1>2, <1>11, ServerReadStep
<1>12. CASE OtherVersion
  BY <1>1, <1>2, <1>12, VersionStep
<1>13. CASE OtherAnswers
  BY <1>1, <1>2, <1>13, AnswersStep
<1>14. CASE OtherPings
  BY <1>1, <1>2, <1>14, PingsStep
<1>15. CASE ServerEnds
  BY <1>1, <1>2, <1>15, ServerEndsStep
<1>16. CASE BeginMessage
  BY <1>1, <1>2, <1>16, BeginStep
<1>17. CASE ContinueMessage
  BY <1>1, <1>2, <1>17, ContinueMessageStep
<1>18. CASE Resize
  BY <1>1, <1>2, <1>18, ResizeStep
<1>19. CASE UNCHANGED rtmpVars
  <2>1. /\ client' = client /\ call' = call /\ server' = server /\ encoder' = encoder
        /\ toClient' = toClient /\ toServer' = toServer
    BY <1>19 DEF rtmpVars, wires
  <2>2. WholeNext
    BY <1>1, <2>1 DEF WholeNow, WholeNext
  <2>3. QED  BY <1>2, <2>1, <2>2
<1>20. QED
  BY <1>3, <1>4, <1>5, <1>6, <1>7, <1>8, <1>9, <1>10, <1>11, <1>12, <1>13, <1>14, <1>15,
     <1>16, <1>17, <1>18, <1>19 DEF RtmpNext

LEMMA PromiseKept ==
  ASSUME RtmpInv PROVE NoPromiseLost
<1>1. CallOk(client, call)
  BY DEF RtmpInv, WholeNow, Whole, ClientOk
<1>2. SUFFICES ASSUME call.result = NoResult
               PROVE  LET awaited == {id \in DOMAIN client.pending :
                                        client.pending[id] = call.at}
                      IN /\ awaited = DOMAIN client.pending
                         /\ Cardinality(awaited) = IF call.at \in Calling THEN 1 ELSE 0
                         /\ call.at \in Calling => client.socket \in {"open", "failed"}
                         /\ client.waits <=> call.at = "handshake"
  BY DEF NoPromiseLost
<1>3. PICK awaited : awaited = {id \in DOMAIN client.pending : client.pending[id] = call.at}
  OBVIOUS
<1>4. client.waits <=> call.at = "handshake"
  BY <1>1, <1>2 DEF CallOk
<1>5. CASE call.at \in Calling
  <2>1. Alone(client.pending, call.at) /\ client.socket \in {"open", "failed"}
    BY <1>1, <1>2, <1>5 DEF CallOk
  <2>2. PICK id : DOMAIN client.pending = {id} /\ client.pending[id] = call.at
    BY <2>1 DEF Alone
  <2>3. awaited = DOMAIN client.pending /\ awaited = {id}
    BY <1>3, <2>2
  <2>4. Cardinality(awaited) = 1
    BY <2>3, FS_Singleton
  <2>5. QED  BY <1>3, <1>4, <1>5, <2>1, <2>3, <2>4
<1>6. CASE call.at \notin Calling
  <2>1. DOMAIN client.pending = {}
    BY <1>1, <1>2, <1>6 DEF CallOk
  <2>2. awaited = DOMAIN client.pending /\ awaited = {}
    BY <1>3, <2>1
  <2>3. Cardinality(awaited) = 0
    BY <2>2, FS_EmptySet
  <2>4. QED  BY <1>3, <1>4, <1>6, <2>2, <2>3
<1>7. QED  BY <1>5, <1>6

\* The inductive invariant holds in every state of a connection, whatever the
\* other end is and says.
THEOREM AlwaysWhole == RtmpSpec => []RtmpInv
<1>1. RtmpInit => RtmpInv
  BY FirstWhole
<1>2. RtmpInv /\ [RtmpNext]_rtmpVars => RtmpInv'
  BY StaysWhole
<1>3. QED  BY <1>1, <1>2, PTL DEF RtmpSpec

\* While connectAndStart waits for a connection that is over or for the answer to
\* a command that nothing can settle any more, it would wait for ever: it never
\* does.  Whenever it waits, its promise is the one that is kept, and a socket
\* that fails, closes or is destroyed settles it.
THEOREM PromisesSettled == RtmpSpec => []NoPromiseLost
<1>1. RtmpInv => NoPromiseLost
  BY PromiseKept
<1>2. QED  BY <1>1, AlwaysWhole, PTL

(***************************************************************************)
(* The viewer of a pull.  What it is sent comes from a parser that never   *)
(* hands on media without payload, however another server mixes its chunk  *)
(* streams; so it reads every message, each at the end of what it is sent  *)
(* for it.                                                                 *)
(***************************************************************************)
Stretch(t, s, a, b) ==
  a \in Nat /\ b \in Nat /\ a <= b /\ b <= Len(s) /\ t = SubSeq(s, a + 1, b)

LEMMA CellsSub ==
  ASSUME NEW s, Cells(s), NEW a, NEW b, NEW t, Stretch(t, s, a, b) PROVE Cells(t)
<1>0. a \in Nat /\ b \in Nat /\ a <= b /\ b <= Len(s) /\ t = SubSeq(s, a + 1, b)
  BY DEF Stretch
<1>1. IsSeq(s)
  BY DEF Cells
<1>2. PICK l : l = Len(s)
  OBVIOUS
<1>3. l \in Nat /\ b <= l
  BY <1>0, <1>1, <1>2, IsSeqLen
<1>4. IsSeq(t) /\ Len(t) = b - a /\ \A i \in 1..(b - a) : t[i] = s[a + i]
  BY <1>0, <1>1, SubNext
<1>5. ASSUME NEW i \in 1..(b - a) PROVE IsPayload(t[i])
  <2>1. a + i \in 1..l
    BY <1>0, <1>3
  <2>2. IsPayload(s[a + i])
    BY <1>2, <2>1 DEF Cells
  <2>3. QED  BY <1>4, <2>2
<1>6. QED  BY <1>4, <1>5 DEF Cells

\* A chunk stream of the encoder, of messages with payload.
FineStream(x) == StreamOk(x) /\ x.length # 0 /\ x.time \in Nat /\ Cells(x.left)
FineStreams(f) == \A cid \in DOMAIN f : FineStream(f[cid])

LEMMA FineSent ==
  ASSUME NEW x, FineStream(x), NEW size \in Nat \ {0}, NEW y, y = Sent(x, size)
  PROVE  FineStream(y) /\ Cells(PartOf(x, y))
<1>1. PICK s, l : s = x.left /\ l = Len(s)
  OBVIOUS
<1>2. Cells(s) /\ IsSeq(s) /\ l \in Nat
  BY <1>1, IsSeqLen DEF FineStream, Cells
<1>3. PICK w : w = IF l > size THEN From(s, size + 1) ELSE <<>>
  OBVIOUS
<1>4. y = [x EXCEPT !.left = w]
  BY <1>1, <1>3 DEF Sent
<1>5. /\ DOMAIN y = {"time", "length", "left", "message"} /\ y.left = w
      /\ y.length = x.length /\ y.time = x.time
  BY <1>4 DEF FineStream, StreamOk
<1>6. PICK k : k = IF l > size THEN size ELSE l
  OBVIOUS
<1>7. k \in Nat /\ k <= l
  BY <1>2, <1>6
<1>8. Cells(w) /\ Len(w) = l - k
  <2>1. CASE l > size
    <3>1. w = SubSeq(s, size + 1, l) /\ k = size
      BY <1>1, <1>3, <1>6, <2>1 DEF From
    <3>2. size <= l
      BY <1>2, <2>1
    <3>3. Stretch(w, s, size, l)
      BY <1>1, <1>2, <3>1, <3>2 DEF Stretch
    <3>4. Cells(w)
      BY <1>2, <3>3, CellsSub
    <3>5. Len(SubSeq(s, size + 1, l)) = l - size
      BY <1>1, <1>2, <3>2, Split
    <3>6. QED  BY <3>1, <3>4, <3>5
  <2>2. CASE ~(l > size)
    <3>1. w = <<>> /\ k = l
      BY <2>2, <1>3, <1>6
    <3>2. l - k = 0
      BY <1>2, <3>1
    <3>3. QED  BY <3>1, <3>2, NoCells, IsEmpty
  <2>3. QED  BY <2>1, <2>2
<1>9. FineStream(y)
  BY <1>5, <1>8 DEF FineStream, StreamOk, Cells
<1>10. PICK part : part = PartOf(x, y)
  OBVIOUS
<1>11. l - Len(w) = k
  BY <1>2, <1>7, <1>8
<1>12. part = SubSeq(s, 1, k)
  BY <1>1, <1>5, <1>10, <1>11 DEF PartOf
<1>13. part = SubSeq(s, 0 + 1, k)
  BY <1>12
<1>14. Cells(part)
  <2>1. Stretch(part, s, 0, k)
    BY <1>1, <1>7, <1>13 DEF Stretch
  <2>2. QED  BY <2>1, <1>2, CellsSub
<1>15. QED  BY <1>9, <1>10, <1>14

\* The first chunk of a message.
LEMMA FineFirst ==
  ASSUME NEW fmt \in 0..3, NEW m, m.time \in Nat, Cells(m.payload), m.payload # <<>>,
         NEW size \in Nat \ {0}, NEW c, c = InChunks(fmt, m, size)[1]
  PROVE  FineCells(c)
<1>1. PICK p, l : p = m.payload /\ l = Len(p)
  OBVIOUS
<1>2. IsSeq(p) /\ l \in Nat \ {0}
  BY <1>1, IsSeqLen, EmptyLen DEF Cells
<1>3. PICK count : count = (l + size - 1) \div size
  OBVIOUS
<1>4. count \in Nat \ {0} /\ (count # 1 => size <= l)
  BY <1>2, <1>3, FirstCount
<1>5. InChunks(fmt, m, size) = [i \in 1..count |->
        ChunkBasicHeaderCreate(IF i = 1 THEN fmt ELSE 3, m.cid)
          \o (IF i = 1 THEN ChunkMessageHeaderCreate(fmt, m) ELSE <<>>)
          \o ExtendedTimestamp(m.time)
          \o SubSeq(p, (i - 1) * size + 1, IF i = count THEN l ELSE i * size)]
  BY <1>1, <1>3 DEF InChunks
<1>6. PICK d : d = SubSeq(p, (1 - 1) * size + 1, IF 1 = count THEN l ELSE 1 * size)
  OBVIOUS
<1>7. PICK a : a = ChunkBasicHeaderCreate(fmt, m.cid)
  OBVIOUS
<1>8. PICK b : b = ChunkMessageHeaderCreate(fmt, m)
  OBVIOUS
<1>9. PICK e : e = ExtendedTimestamp(m.time)
  OBVIOUS
<1>10. c = ((a \o b) \o e) \o d
  <2>1. 1 \in 1..count
    BY <1>4
  <2>2. QED  BY <2>1, <1>5, <1>6, <1>7, <1>8, <1>9
<1>11. Cells(d)
  <2>1. (1 - 1) * size + 1 = 0 + 1 /\ 1 * size = size
    OBVIOUS
  <2>2. PICK n : n = IF 1 = count THEN l ELSE size
    OBVIOUS
  <2>3. n \in Nat /\ n <= l
    BY <2>2, <1>2, <1>4
  <2>4. d = SubSeq(p, 0 + 1, n)
    BY <2>1, <2>2, <1>6
  <2>5. Stretch(d, p, 0, n)
    BY <2>3, <2>4, <1>1 DEF Stretch
  <2>6. QED  BY <2>5, <1>1, CellsSub
<1>12. FineCells(a)
  BY <1>7, FineBasicHeader
<1>13. FineCells(b)
  BY <1>1, <1>2, <1>8, FineMessageHeader
<1>14. FineCells(e)
  BY <1>9, FineTime
<1>15. FineCells(d)
  BY <1>11, PayloadsFine
<1>16. FineCells(((a \o b) \o e) \o d)
  BY <1>12, <1>13, <1>14, <1>15, FineConcat
<1>17. QED  BY <1>10, <1>16

\* The chunk that goes on with one.
LEMMA FineNext ==
  ASSUME NEW cid, NEW x, FineStream(x), NEW part, Cells(part), NEW c, c = More(cid, x, part)
  PROVE  FineCells(c)
<1>1. PICK b, e : b = ChunkBasicHeaderCreate(3, cid) /\ e = ExtendedTimestamp(x.time)
  OBVIOUS
<1>2. FineCells(b)
  BY <1>1, FineBasicHeader
<1>3. x.time \in Nat
  BY DEF FineStream
<1>4. FineCells(e)
  BY <1>1, <1>3, FineTime
<1>5. FineCells(part)
  BY PayloadsFine
<1>6. FineCells((b \o e) \o part)
  BY <1>2, <1>4, <1>5, FineConcat
<1>7. QED  BY <1>1, <1>6 DEF More

LEMMA FineMedia ==
  ASSUME NEW length \in Nat, NEW p, p = MediaCells(length)
  PROVE  Cells(p) /\ (length # 0 => p # <<>>)
<1>1. PICK n : n = encoder.sent + 1
  OBVIOUS
<1>2. DOMAIN p = 1..length /\ p = [i \in 1..length |-> [media |-> <<n, i>>]]
  BY <1>1 DEF MediaCells
<1>3. IsSeq(p) /\ Len(p) = length
  BY <1>2, IsSeqFcn
<1>4. ASSUME NEW i \in 1..length PROVE IsPayload(p[i])
  BY <1>2, ValueCells
<1>5. QED  BY <1>3, <1>4, EmptyLen DEF Cells

LEMMA FineOneMore ==
  ASSUME NEW cs, FineChunks(cs), NEW c, FineCells(c) PROVE FineChunks(cs \o <<c>>)
<1>1. PICK d : d = <<c>>
  OBVIOUS
<1>2. IsSeq(d) /\ Len(d) = 1 /\ d[1] = c
  BY <1>1, IsOne
<1>3. FineChunks(d)
  BY <1>2 DEF FineChunks
<1>4. QED  BY <1>1, <1>3, FineMore

\* What is forwarded: media, each with payload.
Forwarded(sent) == FineMails(sent) /\ \A i \in 1..Len(sent) : sent[i].type \in Media
\* The message that is written for one.
Copy(h) ==
  [type |-> h.type, time |-> h.clock, sid |-> 0,
   cid |-> CASE h.type = "audio" -> RTMP_CHANNEL_AUDIO
             [] h.type = "video" -> RTMP_CHANNEL_VIDEO
             [] OTHER -> RTMP_CHANNEL_DATA,
   payload |-> h.payload]

\* The parser of a viewer, where the last message ends.
Resting(v) == AtRest(v) /\ Quiet(v) /\ v.inChunkSize = RTMP_MAX_CHUNK_SIZE

LEMMA CopyIs ==
  ASSUME NEW h, FineMail(h), h.type \in Media, NEW m, m = Copy(h)
  PROVE  /\ Sendable(m) /\ m.type # "chunkSize"
         /\ Mail(m) = [h EXCEPT !.sid = 0]
         /\ CreateMessage([type |-> h.type, dts |-> h.clock, payload |-> h.payload])
              = InChunks(0, m, RTMP_MAX_CHUNK_SIZE)
<1>1. /\ m.type = h.type /\ m.time = h.clock /\ m.sid = 0 /\ m.payload = h.payload
      /\ m.cid = CASE h.type = "audio" -> RTMP_CHANNEL_AUDIO
                   [] h.type = "video" -> RTMP_CHANNEL_VIDEO
                   [] OTHER -> RTMP_CHANNEL_DATA
  BY DEF Copy
<1>2. m.cid \in {4, 5, 6}
  BY <1>1 DEF RTMP_CHANNEL_AUDIO, RTMP_CHANNEL_VIDEO, RTMP_CHANNEL_DATA
<1>3. HasCid(m.cid)
  BY <1>2 DEF HasCid
<1>4. /\ h.clock \in Nat /\ ~(h.clock > MaxClock) /\ Cells(h.payload) /\ h.payload # <<>>
      /\ h = Handed(h)
  BY DEF FineMail
<1>5. Sendable(m)
  BY <1>1, <1>3, <1>4 DEF Sendable
<1>6. m.type # "chunkSize"
  BY <1>1 DEF Media
<1>7. Mail(m) = [h EXCEPT !.sid = 0]
  <2>1. Mail(m) = [type |-> h.type, sid |-> 0, clock |-> h.clock, payload |-> h.payload]
    BY <1>1 DEF Mail
  <2>2. h = [type |-> h.type, sid |-> h.sid, clock |-> h.clock, payload |-> h.payload]
    BY <1>4 DEF Handed
  <2>3. [h EXCEPT !.sid = 0]
          = [type |-> h.type, sid |-> 0, clock |-> h.clock, payload |-> h.payload]
    BY <2>2
  <2>4. QED  BY <2>1, <2>3
<1>8. CreateMessage([type |-> h.type, dts |-> h.clock, payload |-> h.payload])
        = ChunksCreate(m)
  <2>1. PICK v : v = [type |-> h.type, dts |-> h.clock, payload |-> h.payload]
    OBVIOUS
  <2>2. v.type = h.type /\ v.dts = h.clock /\ v.payload = h.payload
    BY <2>1
  <2>3. CreateMessage(v) = ChunksCreate(m)
    BY <2>2 DEF CreateMessage, Copy
  <2>4. QED  BY <2>1, <2>3
<1>9. ChunksCreate(m) = InChunks(0, m, RTMP_MAX_CHUNK_SIZE)
  BY <1>1, <1>4 DEF ChunksCreate
<1>10. QED  BY <1>5, <1>6, <1>7, <1>8, <1>9

\* The first n messages have been read.
SeenSoFar(v, sent, n) ==
  /\ Resting(v) /\ IsSeq(v.handled) /\ Len(v.handled) = n
  /\ \A i \in 1..n : v.handled[i] = [sent[i] EXCEPT !.sid = 0]

LEMMA SeesOne ==
  ASSUME NEW v, NEW sent, Forwarded(sent), NEW n \in Nat, n < Len(sent),
         SeenSoFar(v, sent, n), NEW h, h = sent[n + 1],
         NEW e, e = ReadOn(v, FlattenSeq(InChunks(0, Copy(h), RTMP_MAX_CHUNK_SIZE)))
  PROVE  SeenSoFar(e, sent, n + 1)
<1>1. PICK m : m = Copy(h)
  OBVIOUS
<1>2. IsSeq(sent)
  BY DEF Forwarded, FineMails
<1>3. FineMail(h) /\ h.type \in Media
  <2>1. n + 1 \in 1..Len(sent)
    BY <1>2, IsSeqLen
  <2>2. QED  BY <2>1 DEF Forwarded, FineMails
<1>4. Sendable(m) /\ m.type # "chunkSize" /\ Mail(m) = [h EXCEPT !.sid = 0]
  BY <1>1, <1>3, CopyIs
<1>5. AtRest(v) /\ Quiet(v) /\ v.inChunkSize = RTMP_MAX_CHUNK_SIZE
  BY DEF SeenSoFar, Resting
<1>6. RTMP_MAX_CHUNK_SIZE \in Nat \ {0}
  BY ChunksAssumption
<1>7. Reads(v, m, RTMP_MAX_CHUNK_SIZE)
  BY <1>4, <1>5, <1>6 DEF Reads
<1>8. Delivered(v, ReadOn(v, FlattenSeq(InChunks(0, m, RTMP_MAX_CHUNK_SIZE))), m)
  BY <1>7, MessageReads
<1>9. Delivered(v, e, m)
  BY <1>1, <1>8
<1>10. Quiet(e) /\ AtRest(e)
  BY <1>4, <1>5, <1>9, DeliveredQuiet
<1>11. e.inChunkSize = RTMP_MAX_CHUNK_SIZE
  BY <1>4, <1>5, <1>9 DEF Delivered
<1>12. PICK hs, d : hs = v.handled /\ d = Mail(m)
  OBVIOUS
<1>13. e.handled = Append(hs, d)
  BY <1>9, <1>12 DEF Delivered
<1>14. IsSeq(hs) /\ Len(hs) = n /\ \A i \in 1..n : hs[i] = [sent[i] EXCEPT !.sid = 0]
  BY <1>12 DEF SeenSoFar
<1>15. PICK t : t = e.handled
  OBVIOUS
<1>16. Extends(t, hs, d)
  <2>1. IsSeq(hs)
    BY <1>14
  <2>2. Extends(Append(hs, d), hs, d)
    BY <2>1, Appended
  <2>3. QED  BY <2>2, <1>13, <1>15, Zenon
<1>17. IsSeq(t) /\ Len(t) = n + 1 /\ (\A i \in 1..n : t[i] = hs[i]) /\ t[n + 1] = d
  BY <1>14, <1>16 DEF Extends
<1>18. ASSUME NEW i \in 1..(n + 1) PROVE t[i] = [sent[i] EXCEPT !.sid = 0]
  <2>1. CASE i = n + 1
    <3>1. t[i] = d /\ sent[i] = h
      BY <2>1, <1>17
    <3>2. QED  BY <3>1, <1>4, <1>12
  <2>2. CASE i # n + 1
    <3>1. i \in 1..n
      BY <2>2
    <3>2. QED  BY <3>1, <1>14, <1>17
  <2>3. QED  BY <2>1, <2>2
<1>19. QED  BY <1>10, <1>11, <1>15, <1>17, <1>18 DEF SeenSoFar, Resting

\* What a viewer is sent for messages, and what it makes of that.
CopiesOf(sent) ==
  [i \in DOMAIN sent |->
     CreateMessage([type |-> sent[i].type, dts |-> sent[i].clock,
                    payload |-> sent[i].payload])]
Sees(v, sent, seen) ==
  Resting(seen) /\ seen.handled = [i \in DOMAIN sent |-> [sent[i] EXCEPT !.sid = 0]]

LEMMA CopiesIs ==
  ASSUME NEW sent, Forwarded(sent), NEW css, css = CopiesOf(sent), NEW n, n = Len(sent)
  PROVE  /\ n \in Nat /\ IsSeq(css) /\ Len(css) = n
         /\ \A i \in 1..n : /\ css[i] = InChunks(0, Copy(sent[i]), RTMP_MAX_CHUNK_SIZE)
                            /\ PlainAll(css[i])
<1>1. IsSeq(sent) /\ n \in Nat /\ DOMAIN sent = 1..n
  BY IsSeqLen DEF Forwarded, FineMails
<1>2. DOMAIN css = 1..n /\ css = [i \in 1..n |-> css[i]]
  BY <1>1 DEF CopiesOf
<1>3. IsSeq(css) /\ Len(css) = n
  BY <1>1, <1>2, IsSeqFcn
<1>4. ASSUME NEW i \in 1..n
      PROVE  /\ css[i] = InChunks(0, Copy(sent[i]), RTMP_MAX_CHUNK_SIZE)
             /\ PlainAll(css[i])
  <2>1. PICK h : h = sent[i]
    OBVIOUS
  <2>2. FineMail(h) /\ h.type \in Media
    BY <2>1 DEF Forwarded, FineMails
  <2>3. PICK m : m = Copy(h)
    OBVIOUS
  <2>4. /\ Sendable(m)
        /\ CreateMessage([type |-> h.type, dts |-> h.clock, payload |-> h.payload])
             = InChunks(0, m, RTMP_MAX_CHUNK_SIZE)
    BY <2>2, <2>3, CopyIs
  <2>5. css[i] = CreateMessage([type |-> h.type, dts |-> h.clock, payload |-> h.payload])
    BY <1>1, <2>1 DEF CopiesOf
  <2>6. RTMP_MAX_CHUNK_SIZE \in Nat \ {0}
    BY ChunksAssumption
  <2>7. PlainAll(InChunks(0, m, RTMP_MAX_CHUNK_SIZE))
    BY <2>4, <2>6, MessagePlain
  <2>8. QED  BY <2>1, <2>3, <2>4, <2>5, <2>7
<1>5. QED  BY <1>1, <1>3, <1>4

\* A viewer that is where a message ends, and is written any media messages with
\* payload, understands those messages and no others, each with its type, time and
\* content, and is again where a message ends: createMessage and the parser agree on the
\* chunk size, on extended timestamps and on where a chunk is full.
THEOREM ViewerSees ==
  ASSUME NEW v, Resting(v), NEW sent, Forwarded(sent),
         NEW seen, seen = Read(v, FlattenSeq(FlattenSeq(CopiesOf(sent))))
  PROVE  Sees(v, sent, seen)
<1>1. PICK n : n = Len(sent)
  OBVIOUS
<1>2. PICK css : css = CopiesOf(sent)
  OBVIOUS
<1>3. /\ n \in Nat /\ IsSeq(css) /\ Len(css) = n
      /\ \A i \in 1..n : /\ css[i] = InChunks(0, Copy(sent[i]), RTMP_MAX_CHUNK_SIZE)
                         /\ PlainAll(css[i])
  BY <1>1, <1>2, CopiesIs
<1>4. PICK z : z = Emptied(v)
  OBVIOUS
<1>5. seen = ReadOn(z, FlattenSeq(FlattenSeq(css)))
  BY <1>2, <1>4, ReadReads DEF Emptied
<1>6. IsParser(v) /\ v.state = "INIT" /\ v.inStep = TRUE
  BY DEF Resting, AtRest
<1>7. IsParser(z) /\ z.handled = <<>> /\ SameState(v, z)
  BY <1>4, <1>6, Unhandled DEF Emptied
<1>8. Resting(z)
  <2>1. /\ z.state = "INIT" /\ z.inStep = TRUE /\ z.inPackets = v.inPackets
        /\ z.inChunkSize = v.inChunkSize
    BY <1>6, <1>7 DEF SameState
  <2>2. QED  BY <2>1, <1>7 DEF Resting, AtRest, Quiet
<1>9. SeenSoFar(z, sent, 0)
  BY <1>7, <1>8, IsEmpty DEF SeenSoFar
<1>10. PICK g : /\ g[0] = z
                /\ \A i \in 1..n : g[i] = ReadOn(g[i - 1], FlattenSeq(css[i]))
                /\ ReadOn(z, FlattenSeq(FlattenSeq(css))) = g[n]
  <2>1. \A i \in 1..Len(css) : PlainAll(css[i])
    BY <1>3
  <2>2. \E g : /\ g[0] = z
               /\ \A i \in 1..Len(css) : g[i] = ReadOn(g[i - 1], FlattenSeq(css[i]))
               /\ ReadOn(z, FlattenSeq(FlattenSeq(css))) = g[Len(css)]
    BY <1>3, <2>1, ReadMessages
  <2>3. QED  BY <2>2, <1>3
<1>11. PICK S : S = {i \in Nat : i <= n => SeenSoFar(g[i], sent, i)}
  OBVIOUS
<1>12. 0 \in S
  BY <1>9, <1>10, <1>11
<1>13. ASSUME NEW i \in Nat, i \in S PROVE i + 1 \in S
  <2>1. CASE i + 1 <= n
    <3>1. SeenSoFar(g[i], sent, i) /\ i < n
      BY <1>3, <1>11, <1>13, <2>1
    <3>2. PICK j : j = i + 1
      OBVIOUS
    <3>3. j \in 1..n /\ j - 1 = i
      BY <1>3, <2>1, <3>2
    <3>4. g[j] = ReadOn(g[i], FlattenSeq(css[j]))
      BY <1>10, <3>3
    <3>5. PICK h, e, w : h = sent[i + 1] /\ e = g[j] /\ w = g[i]
      OBVIOUS
    <3>6. e = ReadOn(w, FlattenSeq(InChunks(0, Copy(h), RTMP_MAX_CHUNK_SIZE)))
      BY <1>3, <3>2, <3>3, <3>4, <3>5
    <3>7. SeenSoFar(w, sent, i)
      BY <3>1, <3>5
    <3>8. SeenSoFar(e, sent, i + 1)
      BY <1>1, <3>1, <3>5, <3>6, <3>7, SeesOne
    <3>9. QED  BY <1>11, <3>2, <3>5, <3>8
  <2>2. CASE ~(i + 1 <= n)
    BY <1>11, <2>2
  <2>3. QED  BY <2>1, <2>2
<1>14. n \in S
  BY <1>3, <1>12, <1>13, Climb
<1>15. SeenSoFar(seen, sent, n)
  BY <1>3, <1>5, <1>10, <1>11, <1>14
<1>16. PICK c : c = [i \in DOMAIN sent |-> [sent[i] EXCEPT !.sid = 0]]
  OBVIOUS
<1>17. DOMAIN sent = 1..n
  BY <1>1, IsSeqLen DEF Forwarded, FineMails
<1>18. IsSeq(c) /\ Len(c) = n
  <2>1. DOMAIN c = 1..n /\ c = [i \in 1..n |-> c[i]]
    BY <1>16, <1>17
  <2>2. QED  BY <1>3, <2>1, IsSeqFcn
<1>19. PICK t : t = seen.handled
  OBVIOUS
<1>20. IsSeq(t) /\ Len(t) = n /\ \A i \in 1..n : t[i] = c[i]
  BY <1>15, <1>16, <1>17, <1>19 DEF SeenSoFar
<1>21. t = c
  BY <1>18, <1>20, SameSeq
<1>22. QED  BY <1>15, <1>16, <1>19, <1>21 DEF Sees, SeenSoFar

(***************************************************************************)
(* As long as no media message is empty, all that is under way has         *)
(* payload, and a viewer is where a message ends.                          *)
(***************************************************************************)
FullOf(p, tc, f, v, sh) ==
  /\ FineParser(p) /\ FineChunks(tc) /\ FineStreams(f) /\ Resting(v) /\ sh.seen = sh.sent
FullNow == FullOf(client.parser, toClient, encoder.streams, viewer, shown)
FullNext == FullOf(client'.parser, toClient', encoder'.streams, viewer', shown')
FullMedia == "empty" \notin oddities => FullNow

LEMMA FineEmptied ==
  ASSUME NEW z, FineParser(z), NEW e, e = [z EXCEPT !.handled = <<>>] PROVE FineParser(e)
<1>1. DOMAIN z = Fields
  BY DEF FineParser
<1>2. /\ DOMAIN e = Fields /\ e.handled = <<>> /\ e.state = z.state /\ e.buffer = z.buffer
      /\ e.basicBytes = z.basicBytes /\ e.cid = z.cid /\ e.inPackets = z.inPackets
  BY <1>1 DEF Fields
<1>3. FineMails(e.handled)
  BY <1>2, NoMails
<1>4. QED  BY <1>2, <1>3 DEF FineParser

LEMMA FineNew == FineParser(Parser)
<1>1. PICK p : p = Parser
  OBVIOUS
<1>2. /\ DOMAIN p = Fields /\ p.state = "INIT" /\ p.buffer = <<>> /\ p.inPackets = <<>>
      /\ p.handled = <<>>
  BY <1>1 DEF Parser, Fields
<1>3. FineCells(p.buffer) /\ FineMails(p.handled)
  BY <1>2, FineNothing, NoMails
<1>4. DOMAIN p.inPackets = {}
  BY <1>2, IsEmpty
<1>5. FinePackets(p.inPackets)
  BY <1>4 DEF FinePackets
<1>6. FineState(p.state, p.buffer, p.basicBytes, p.cid, p.inPackets)
  BY <1>2 DEF FineState
<1>7. QED  BY <1>1, <1>2, <1>3, <1>5, <1>6 DEF FineParser

LEMMA NothingFine == FineChunks(<<>>) /\ FineStreams(<<>>) /\ Forwarded(<<>>)
<1>1. PICK s : s = <<>> /\ IsSeq(s) /\ Len(s) = 0
  BY IsEmpty
<1>2. DOMAIN s = {}
  BY <1>1
<1>3. FineStreams(s)
  BY <1>2 DEF FineStreams
<1>4. FineChunks(s)
  BY <1>1 DEF FineChunks
<1>5. Forwarded(s)
  BY <1>1, NoMails DEF Forwarded
<1>6. QED  BY <1>1, <1>3, <1>4, <1>5

LEMMA RestingOn ==
  ASSUME NEW v, Resting(v), NEW w, w = [v EXCEPT !.handled = <<>>] PROVE Resting(w)
<1>1. IsParser(v) /\ v.state = "INIT" /\ v.inStep = TRUE
  BY DEF Resting, AtRest
<1>2. IsParser(w) /\ SameState(v, w)
  BY <1>1, Unhandled
<1>3. /\ w.state = "INIT" /\ w.inStep = TRUE /\ w.inPackets = v.inPackets
      /\ w.inChunkSize = v.inChunkSize
  BY <1>1, <1>2 DEF SameState
<1>4. QED  BY <1>2, <1>3 DEF Resting, AtRest, Quiet

LEMMA FirstFull == ASSUME RtmpInit PROVE FullMedia
<1>1. /\ client.parser = Parser /\ toClient = <<>> /\ encoder.streams = <<>>
      /\ shown.seen = shown.sent
  BY DEF RtmpInit, NoMedia
<1>2. PICK v : v = viewer
  OBVIOUS
<1>3. v = [Parser EXCEPT !.inChunkSize = RTMP_MAX_CHUNK_SIZE]
  BY <1>2 DEF RtmpInit
<1>4. /\ DOMAIN v = Fields /\ v.state = "INIT" /\ v.inStep = TRUE /\ v.inPackets = <<>>
      /\ v.handled = <<>> /\ v.inChunkSize = RTMP_MAX_CHUNK_SIZE
  BY <1>3 DEF Parser, Fields
<1>5. DOMAIN v.inPackets = {}
  BY <1>4, IsEmpty
<1>6. Quiet(v)
  BY <1>5 DEF Quiet
<1>7. IsParser(v)
  BY <1>4, IsEmpty DEF IsParser
<1>8. Resting(v)
  BY <1>4, <1>6, <1>7 DEF Resting, AtRest
<1>9. FineParser(client.parser)
  BY <1>1, FineNew
<1>10. FineChunks(toClient) /\ FineStreams(encoder.streams)
  BY <1>1, NothingFine
<1>11. QED  BY <1>1, <1>2, <1>8, <1>9, <1>10 DEF FullMedia, FullNow, FullOf

\* Nothing is read.
LEMMA SilentFull ==
  ASSUME FullNow, Silence, viewer' = viewer, FineParser(client'.parser), FineChunks(toClient'),
         FineStreams(encoder'.streams)
  PROVE  FullNext
<1>1. shown'.seen = shown'.sent
  BY DEF Silence
<1>2. Resting(viewer')
  BY DEF FullNow, FullOf
<1>3. QED  BY <1>1, <1>2 DEF FullNext, FullOf

LEMMA TurnsFull ==
  ASSUME FullNow, NEW s, ClientTurns(s), s.client.parser = client.parser
  PROVE  FullNext /\ oddities' = oddities
<1>1. /\ client' = s.client /\ toClient' = toClient /\ encoder' = encoder
      /\ viewer' = viewer /\ oddities' = oddities /\ Silence
  BY DEF ClientTurns
<1>2. FineParser(client'.parser) /\ FineChunks(toClient') /\ FineStreams(encoder'.streams)
  BY <1>1 DEF FullNow, FullOf
<1>3. QED  BY <1>1, <1>2, SilentFull

LEMMA EndsFull ==
  ASSUME FullNow, NEW s, ClientEnds(s), FineParser(s.client.parser)
  PROVE  FullNext /\ oddities' = oddities
<1>1. /\ client' = s.client /\ toClient' = <<>> /\ encoder' = NoMedia
      /\ viewer' = viewer /\ oddities' = oddities /\ Silence
  BY DEF ClientEnds
<1>2. encoder'.streams = <<>>
  BY <1>1 DEF NoMedia
<1>3. FineParser(client'.parser) /\ FineChunks(toClient') /\ FineStreams(encoder'.streams)
  BY <1>1, <1>2, NothingFine
<1>4. QED  BY <1>1, <1>3, SilentFull

LEMMA ConnectedFull ==
  ASSUME WholeNow, FullNow, Connected PROVE FullNext /\ oddities' = oddities
<1>1. PICK s : s = ConnectedOf(client, call)
  OBVIOUS
<1>2. ClientTurns(s)
  BY <1>1, NowIs DEF Connected, ConnectedOf
<1>3. ClientOk(client, call)
  BY DEF WholeNow, Whole
<1>4. SameClient([client |-> client], s, {"socket", "hs"})
  BY <1>1, <1>3, ConnectedFields
<1>5. s.client.parser = client.parser
  BY <1>4 DEF SameClient, ClientFields
<1>6. QED  BY <1>2, <1>5, TurnsFull

LEMMA HeartbeatFull ==
  ASSUME WholeNow, FullNow, Heartbeat PROVE FullNext /\ oddities' = oddities
<1>1. PICK s : s = PingedOf(client, call)
  OBVIOUS
<1>2. ClientTurns(s)
  BY <1>1, NowIs DEF Heartbeat, PingedOf
<1>3. ClientOk(client, call)
  BY DEF WholeNow, Whole
<1>4. SameClient([client |-> client], s, {"quiet"})
  BY <1>1, <1>3, PingedFields
<1>5. s.client.parser = client.parser
  BY <1>4 DEF SameClient, ClientFields
<1>6. QED  BY <1>2, <1>5, TurnsFull

\* The ways the connection ends.
LEMMA ErrorFull ==
  ASSUME WholeNow, FullNow, SocketError PROVE FullNext /\ oddities' = oddities
<1>1. PICK n : n = NowOf(client, call)
  OBVIOUS
<1>2. PICK t : t = RejectHandshake(n)
  OBVIOUS
<1>3. PICK s : s = [t EXCEPT !.client.socket = "failed"]
  OBVIOUS
<1>4. ClientEnds(s)
  BY <1>1, <1>2, <1>3, NowIs DEF SocketError
<1>5. IsSide(n) /\ n.client = client
  BY <1>1, WaitsIs, NowFields DEF SocketError
<1>6. IsSide(t) /\ SameClient(n, t, {"waits"})
  BY <1>2, <1>5, RejectHandshakeFields
<1>7. t.client.parser = client.parser
  BY <1>5, <1>6 DEF SameClient, ClientFields
<1>8. s.client.parser = t.client.parser
  BY <1>3, <1>6 DEF IsSide, ClientFields
<1>9. FineParser(s.client.parser)
  BY <1>7, <1>8 DEF FullNow, FullOf
<1>10. QED  BY <1>4, <1>9, EndsFull

LEMMA ClosedFull ==
  ASSUME WholeNow, FullNow, SocketClosed PROVE FullNext /\ oddities' = oddities
<1>1. PICK n : n = NowOf(client, call)
  OBVIOUS
<1>2. PICK u : u = RejectAllPending(n)
  OBVIOUS
<1>3. PICK t : t = RejectHandshake(u)
  OBVIOUS
<1>4. PICK s : s = [t EXCEPT !.client.socket = "closed", !.client.beats = FALSE]
  OBVIOUS
<1>5. ClientEnds(s)
  BY <1>1, <1>2, <1>3, <1>4, NowIs DEF SocketClosed
<1>6. IsSide(n) /\ n.client = client
  BY <1>1, WaitsIs, NowFields DEF SocketClosed
<1>7. IsSide(u) /\ SameClient(n, u, {"pending"})
  BY <1>2, <1>6, RejectAllFields
<1>8. IsSide(t) /\ SameClient(u, t, {"waits"})
  BY <1>3, <1>7, RejectHandshakeFields
<1>9. u.client.parser = client.parser
  BY <1>6, <1>7 DEF SameClient, ClientFields
<1>10. t.client.parser = u.client.parser
  BY <1>8 DEF SameClient, ClientFields
<1>11. s.client.parser = t.client.parser
  <2>1. PICK a : a = [t EXCEPT !.client.socket = "closed"]
    OBVIOUS
  <2>2. DOMAIN t = {"client", "call", "out", "media"} /\ DOMAIN t.client = ClientFields
    BY <1>8 DEF IsSide
  <2>3. PICK b : b = [t.client EXCEPT !.socket = "closed"]
    OBVIOUS
  <2>4. a = [t EXCEPT !.client = b] /\ DOMAIN b = ClientFields /\ b.parser = t.client.parser
    BY <2>1, <2>2, <2>3 DEF ClientFields
  <2>5. DOMAIN a = {"client", "call", "out", "media"} /\ a.client = b
    BY <2>2, <2>4
  <2>6. s = [a EXCEPT !.client.beats = FALSE]
    BY <1>4, <2>1
  <2>7. s.client = [b EXCEPT !.beats = FALSE]
    BY <2>5, <2>6
  <2>8. QED  BY <2>4, <2>7 DEF ClientFields
<1>12. FineParser(s.client.parser)
  BY <1>9, <1>10, <1>11 DEF FullNow, FullOf
<1>13. QED  BY <1>5, <1>12, EndsFull

LEMMA ClosesFull ==
  ASSUME WholeNow, FullNow, SessionCloses PROVE FullNext /\ oddities' = oddities
<1>1. PICK n : n = NowOf(client, call)
  OBVIOUS
<1>2. PICK s : s = Disconnected(n)
  OBVIOUS
<1>3. ClientEnds(s)
  BY <1>1, <1>2, NowIs DEF SessionCloses
<1>4. IsSide(n)
  BY <1>1, WaitsIs, NowFields DEF SessionCloses
<1>5. s.client.parser = Parser
  BY <1>2, <1>4, DisconnectedFields
<1>6. FineParser(s.client.parser)
  BY <1>5, FineNew
<1>7. QED  BY <1>3, <1>6, EndsFull

LEMMA TimedOutFull ==
  ASSUME WholeNow, FullNow, TimedOut PROVE FullNext /\ oddities' = oddities
<1>1. PICK n : n = NowOf(client, call)
  OBVIOUS
<1>2. PICK t : t = Disconnected(n)
  OBVIOUS
<1>3. PICK s : s = [t EXCEPT !.call.at = "timedOut"]
  OBVIOUS
<1>4. ClientEnds(s)
  BY <1>1, <1>2, <1>3, NowIs DEF TimedOut
<1>5. IsSide(n)
  BY <1>1, WaitsIs, NowFields DEF TimedOut
<1>6. IsSide(t) /\ t.client.parser = Parser
  BY <1>2, <1>5, DisconnectedFields
<1>7. s.client = t.client
  BY <1>3, <1>6 DEF IsSide
<1>8. FineParser(s.client.parser)
  BY <1>6, <1>7, FineNew
<1>9. QED  BY <1>4, <1>8, EndsFull

\* connectAndStart goes on.
LEMMA CommandFull ==
  ASSUME FullNow, NEW n, IsSide(n), n.client.parser = client.parser,
         NEW cmd, NEW sid, NEW opt, NEW s, s = SendCommand(n, cmd, sid, opt), ClientTurns(s)
  PROVE  FullNext /\ oddities' = oddities
<1>1. PICK id : id = n.client.next
  OBVIOUS
<1>2. SameClient(n, s, {"pending", "next"})
  BY <1>1, SendCommandFields
<1>3. s.client.parser = client.parser
  BY <1>2 DEF SameClient, ClientFields
<1>4. QED  BY <1>3, TurnsFull

LEMMA ContinueFull ==
  ASSUME WholeNow, FullNow, Continue PROVE FullNext /\ oddities' = oddities
<1>1. Branched
  BY ContinueBranched
<1>2. ClientOk(client, call)
  BY DEF WholeNow, Whole
<1>3. CASE ClientTurns(FailedOf(client, call))
  <2>1. PICK s : s = FailedOf(client, call)
    OBVIOUS
  <2>2. s.client.parser = client.parser
    BY <1>2, <2>1, FailedFields
  <2>3. QED  BY <1>3, <2>1, <2>2, TurnsFull
<1>4. CASE ClientTurns(SendConnect(Resumed(client, call)))
  <2>1. PICK n : n = Resumed(client, call)
    OBVIOUS
  <2>2. IsSide(n) /\ n.client = client
    BY <1>2, <2>1, ResumedFields
  <2>3. PICK r : r = [n EXCEPT !.out = Append(@, SetChunkSize(RTMP_MAX_CHUNK_SIZE))]
    OBVIOUS
  <2>4. IsSide(r) /\ r.client = client
    BY <2>2, <2>3 DEF IsSide
  <2>5. PICK opt : opt = [cmdObj |-> Obj(<<<<"app", Str("live")>>>>), args |-> Arr(<<>>)]
    OBVIOUS
  <2>6. PICK s : s = SendCommand(r, "connect", 0, opt)
    OBVIOUS
  <2>7. ClientTurns(s)
    BY <1>4, <2>1, <2>3, <2>5, <2>6, Zenon DEF SendConnect
  <2>8. QED  BY <2>4, <2>6, <2>7, CommandFull
<1>5. CASE ClientTurns(SendCommand(Resumed(client, call), "createStream", 0,
                                   [cmdObj |-> Null]))
  <2>1. PICK n, opt : n = Resumed(client, call) /\ opt = [cmdObj |-> Null]
    OBVIOUS
  <2>2. PICK s : s = SendCommand(n, "createStream", 0, opt)
    OBVIOUS
  <2>3. IsSide(n) /\ n.client = client
    BY <1>2, <2>1, ResumedFields
  <2>4. ClientTurns(s)
    BY <1>5, <2>1, <2>2
  <2>5. QED  BY <2>2, <2>3, <2>4, CommandFull
<1>6. CASE \/ ClientTurns(SendPlay(StreamOf(client, call)))
           \/ ClientTurns(SendPublish(StreamOf(client, call)))
  <2>1. PICK n : n = StreamOf(client, call)
    OBVIOUS
  <2>2. PICK sid : sid = n.client.streamId
    OBVIOUS
  <2>3. IsSide(n) /\ SameClient([client |-> client], n, {"streamId"})
    BY <1>2, <2>1, StreamFields
  <2>4. n.client.parser = client.parser
    BY <2>3 DEF SameClient, ClientFields
  <2>5. CASE ClientTurns(SendPlay(n))
    <3>1. PICK opt : opt = [cmdObj |-> Null, streamName |-> Str("name"), start |-> Num(-2),
                            duration |-> Num(-1), reset |-> Bool(TRUE)]
      OBVIOUS
    <3>2. PICK s : s = SendCommand(n, "play", sid, opt)
      OBVIOUS
    <3>3. ClientTurns(s)
      BY <2>2, <2>5, <3>1, <3>2, Zenon DEF SendPlay
    <3>4. QED  BY <2>3, <2>4, <3>2, <3>3, CommandFull
  <2>6. CASE ClientTurns(SendPublish(n))
    <3>1. PICK opt : opt = [cmdObj |-> Null, streamName |-> Str("name"), type |-> Str("live")]
      OBVIOUS
    <3>2. PICK s : s = SendCommand(n, "publish", sid, opt)
      OBVIOUS
    <3>3. ClientTurns(s)
      BY <2>2, <2>6, <3>1, <3>2, Zenon DEF SendPublish
    <3>4. QED  BY <2>3, <2>4, <3>2, <3>3, CommandFull
  <2>7. QED  BY <1>6, <2>1, <2>5, <2>6
<1>7. CASE ClientTurns(StartedOf(client, call))
  <2>1. PICK s : s = StartedOf(client, call)
    OBVIOUS
  <2>2. SameClient([client |-> client], s, {"beats"})
    BY <1>2, <2>1, StartedFields
  <2>3. s.client.parser = client.parser
    BY <2>2 DEF SameClient, ClientFields
  <2>4. QED  BY <1>7, <2>1, <2>3, TurnsFull
<1>8. QED  BY <1>1, <1>3, <1>4, <1>5, <1>6, <1>7, Zenon DEF Branched

(***************************************************************************)
(* A read: what was under way has payload, so what is handed on has; and   *)
(* a viewer that reads it is again where a message ends.                   *)
(***************************************************************************)
LEMMA FineCut ==
  ASSUME NEW cs, FineChunks(cs), NEW k \in Nat, k <= Len(cs), NEW a, NEW b, CutAt(cs, k, a, b)
  PROVE  FineChunks(a) /\ FineChunks(b)
<1>1. IsSeq(cs) /\ \A i \in 1..Len(cs) : FineCells(cs[i])
  BY DEF FineChunks
<1>2. PICK n : n = Len(cs)
  OBVIOUS
<1>3. n \in Nat
  BY <1>1, <1>2, IsSeqLen
<1>4. a = SubSeq(cs, 0 + 1, k) /\ b = SubSeq(cs, k + 1, n)
  BY <1>2 DEF CutAt, From
<1>5. IsSeq(a) /\ Len(a) = k - 0 /\ \A i \in 1..(k - 0) : a[i] = cs[0 + i]
  BY <1>1, <1>2, <1>3, <1>4, SubNext
<1>6. IsSeq(b) /\ Len(b) = n - k /\ \A i \in 1..(n - k) : b[i] = cs[k + i]
  BY <1>1, <1>2, <1>3, <1>4, SubNext
<1>7. ASSUME NEW i \in 1..Len(a) PROVE FineCells(a[i])
  <2>1. i \in 1..n /\ a[i] = cs[i]
    BY <1>2, <1>3, <1>5
  <2>2. QED  BY <2>1, <1>1, <1>2
<1>8. ASSUME NEW i \in 1..Len(b) PROVE FineCells(b[i])
  <2>1. k + i \in 1..n /\ b[i] = cs[k + i]
    BY <1>2, <1>3, <1>6
  <2>2. QED  BY <2>1, <1>1, <1>2
<1>9. QED  BY <1>5, <1>6, <1>7, <1>8 DEF FineChunks

LEMMA FineReads ==
  ASSUME NEW p, FineParser(p), NEW cells, FineCells(cells), NEW z, z = Read(p, cells)
  PROVE  FineParser(z)
<1>1. PICK q : q = [p EXCEPT !.handled = <<>>]
  OBVIOUS
<1>2. FineParser(q)
  BY <1>1, FineEmptied
<1>3. z = ReadOn(q, cells)
  BY <1>1, ReadReads
<1>4. QED  BY <1>2, <1>3, FineRead

LEMMA ForwardedOf ==
  ASSUME NEW hs, FineMails(hs), NEW media, MediaOf(media, hs, Len(hs)) PROVE Forwarded(media)
<1>1. IsSeq(media)
  BY DEF MediaOf
<1>2. ASSUME NEW i \in 1..Len(media) PROVE FineMail(media[i]) /\ media[i].type \in Media
  <2>1. PICK j \in 1..Len(hs) : media[i] = hs[j] /\ hs[j].type \in Media
    BY DEF MediaOf
  <2>2. QED  BY <2>1 DEF FineMails
<1>3. QED  BY <1>1, <1>2 DEF Forwarded, FineMails

LEMMA ViewsFull ==
  ASSUME Resting(viewer), NEW sent, Forwarded(sent), Views(sent, Shown(sent))
  PROVE  Resting(viewer') /\ shown'.seen = shown'.sent
<1>1. PICK v : v = viewer
  OBVIOUS
<1>2. PICK seen : seen = Shown(sent)
  OBVIOUS
<1>3. seen = Read(v, FlattenSeq(FlattenSeq(CopiesOf(sent))))
  BY <1>1, <1>2, Zenon DEF Shown, CopiesOf
<1>4. Resting(v)
  BY <1>1
<1>5. Sees(v, sent, seen)
  BY <1>3, <1>4, ViewerSees
<1>6. PICK c : c = [i \in DOMAIN sent |-> [sent[i] EXCEPT !.sid = 0]]
  OBVIOUS
<1>7. Resting(seen) /\ seen.handled = c
  BY <1>5, <1>6 DEF Sees
<1>8. viewer' = [seen EXCEPT !.handled = <<>>] /\ shown' = [sent |-> c, seen |-> seen.handled]
  BY <1>2, <1>6 DEF Views
<1>9. Resting(viewer')
  BY <1>7, <1>8, RestingOn
<1>10. QED  BY <1>7, <1>8, <1>9

LEMMA ClientReadFull ==
  ASSUME WholeNow, FullNow, ClientRead PROVE FullNext /\ oddities' = oddities
<1>1. /\ client.socket = "open" /\ toClient # <<>> /\ encoder' = encoder
      /\ oddities' = oddities
  BY DEF ClientRead
<1>2. PICK k \in Max({1, Len(toClient) - 1})..Len(toClient) :
         /\ ClientTakes(HandleData(Now, SubSeq(toClient, 1, k)))
         /\ toClient' = From(toClient, k + 1)
  BY DEF ClientRead
<1>3. PICK a, rest : CutAt(toClient, k, a, rest)
  BY DEF CutAt
<1>4. PICK n : n = NowOf(client, call)
  OBVIOUS
<1>5. PICK r : r = HandleData(n, a)
  OBVIOUS
<1>6. Chunked(toClient) /\ ClientOk(client, call) /\ Shakes(client, call, toClient)
  BY DEF WholeNow, Whole, WiresOk
<1>7. k \in Nat /\ k <= Len(toClient)
  <2>1. IsSeq(toClient)
    BY <1>6 DEF Chunked
  <2>2. Len(toClient) \in Nat
    BY <2>1, IsSeqLen
  <2>3. Len(toClient) # 0
    BY <1>1, <2>1, EmptyLen
  <2>4. QED  BY <1>2, <2>2, <2>3, Cuts
<1>8. ClientTakes(r) /\ toClient' = rest
  BY <1>2, <1>3, <1>4, <1>5, NowIs DEF CutAt
<1>9. Chunked(a) /\ Chunked(rest) /\ a \o rest = toClient
  BY <1>3, <1>6, <1>7, ChunkedSplit
<1>10. Side(n) /\ n.client = client /\ n.call = call /\ n.media = <<>>
  BY <1>4, <1>6, NowFields
<1>11. Shaking(n.client, n.call, Sigs(a \o rest), 0)
  BY <1>1, <1>6, <1>9, <1>10 DEF Shakes
<1>12. PICK z : z = Read(n.client.parser, NoSigs(a))
  OBVIOUS
<1>13. IsParser(n.client.parser)
  BY <1>6, <1>10 DEF ClientOk
<1>14. ReadBy(n, r, z, rest)
  BY <1>5, <1>9, <1>10, <1>11, <1>12, <1>13, ClientReads
<1>15. FineParser(client.parser) /\ FineChunks(toClient) /\ FineStreams(encoder.streams)
       /\ Resting(viewer)
  BY DEF FullNow, FullOf
<1>16. FineChunks(a) /\ FineChunks(rest)
  BY <1>3, <1>7, <1>15, FineCut
<1>17. FineParser(z)
  <2>1. FineCells(NoSigs(a))
    BY <1>16, FineNoSigs
  <2>2. PICK p, cells : p = n.client.parser /\ cells = NoSigs(a)
    OBVIOUS
  <2>3. FineParser(p) /\ FineCells(cells) /\ z = Read(p, cells)
    BY <2>1, <2>2, <1>10, <1>12, <1>15
  <2>4. QED  BY <2>3, FineReads
<1>18. PICK s, hs : s = r.s /\ hs = z.handled
  OBVIOUS
<1>19. s.client.parser = [z EXCEPT !.handled = <<>>] /\ MediaOf(s.media, hs, Len(hs))
  BY <1>14, <1>18 DEF ReadBy
<1>20. FineParser(s.client.parser)
  BY <1>17, <1>19, FineEmptied
<1>21. FineMails(hs)
  BY <1>17, <1>18 DEF FineParser
<1>22. Forwarded(s.media)
  BY <1>19, <1>21, ForwardedOf
<1>23. PICK sent : sent = Viewed(s)
  OBVIOUS
<1>24. Forwarded(sent)
  BY <1>22, <1>23, NothingFine DEF Viewed
<1>25. client' = s.client /\ Views(sent, Shown(sent))
  BY <1>8, <1>18, <1>23 DEF ClientTakes
<1>26. Resting(viewer') /\ shown'.seen = shown'.sent
  BY <1>15, <1>24, <1>25, ViewsFull
<1>27. FineParser(client'.parser) /\ FineChunks(toClient') /\ FineStreams(encoder'.streams)
  BY <1>1, <1>8, <1>15, <1>16, <1>20, <1>25
<1>28. QED  BY <1>1, <1>26, <1>27 DEF FullNext, FullOf

(***************************************************************************)
(* What servers write.                                                     *)
(***************************************************************************)
LEMMA ServerReadFull ==
  ASSUME WholeNow, FullNow, ServerRead PROVE FullNext /\ oddities' = oddities
<1>1. /\ server.open /\ client' = client /\ encoder' = encoder /\ viewer' = viewer
      /\ oddities' = oddities /\ shown' = [sent |-> <<>>, seen |-> <<>>]
  BY DEF ServerRead
<1>2. PICK t : t = DataAll([server |-> server, out |-> <<>>], Sigs(toServer))
  OBVIOUS
<1>3. PICK z : z = Read(server.parser, NoSigs(toServer))
  OBVIOUS
<1>4. PICK u : u = ServerAll([t EXCEPT !.server.parser = [z EXCEPT !.handled = <<>>]],
                             z.handled)
  OBVIOUS
<1>5. ServerHandles(t, z)
  BY <1>2, <1>3, Zenon DEF ServerRead, DataAll
<1>6. ServerTakes(u, z.handled)
  BY <1>4, <1>5, Zenon DEF ServerHandles, ServerAll
<1>7. toClient' = toClient \o Written(u.out)
  BY <1>6 DEF ServerTakes
<1>8. ServerOk(server) /\ WiresOk(call, server, toClient, toServer)
  BY DEF WholeNow, Whole
<1>9. DOMAIN server = ServerFields /\ AskedOk(server.asked)
  BY <1>8 DEF ServerOk
<1>10. Hearing(Emptied(server.parser), toServer, <<>>, SizesAt(call.at))
  BY <1>1, <1>8 DEF WiresOk
<1>11. ServedBy(server, z, u, toServer, SizesAt(call.at))
  BY <1>2, <1>3, <1>4, <1>9, <1>10, ServerReads
<1>12. AllWritable(u.out)
  BY <1>11 DEF ServedBy
<1>13. PICK w : w = Written(u.out)
  OBVIOUS
<1>14. FineChunks(w)
  BY <1>12, <1>13, FineWritten
<1>15. /\ FineParser(client.parser) /\ FineChunks(toClient) /\ FineStreams(encoder.streams)
       /\ Resting(viewer)
  BY DEF FullNow, FullOf
<1>16. FineChunks(toClient \o w)
  BY <1>14, <1>15, FineMore
<1>17. FineChunks(toClient') /\ shown'.seen = shown'.sent
  BY <1>1, <1>7, <1>13, <1>16
<1>18. QED  BY <1>1, <1>15, <1>17 DEF FullNext, FullOf

LEMMA VersionFull ==
  ASSUME FullNow, OtherVersion PROVE FullNext /\ oddities' = oddities
<1>1. /\ client' = client /\ encoder' = encoder /\ viewer' = viewer /\ oddities' = oddities
      /\ Silence
  BY Zenon DEF OtherVersion
<1>2. PICK m : m = Signature("other version")
  BY Zenon
<1>3. toClient' = Written(<<m>>)
  BY <1>2, Zenon DEF OtherVersion
<1>4. Writable(m)
  BY <1>2, Zenon DEF Signature, Writable
<1>5. AllWritable(<<m>>)
  BY <1>4, WrittenOne
<1>6. PICK ms : ms = <<m>>
  OBVIOUS
<1>7. FineChunks(Written(ms))
  BY <1>5, <1>6, FineWritten
<1>8. FineParser(client'.parser) /\ FineChunks(toClient') /\ FineStreams(encoder'.streams)
  BY <1>1, <1>3, <1>6, <1>7 DEF FullNow, FullOf
<1>9. QED  BY <1>1, <1>8, SilentFull

LEMMA ServerEndsFull ==
  ASSUME FullNow, ServerEnds PROVE FullNext /\ oddities' = oddities
<1>1. /\ client' = client /\ toClient' = toClient /\ encoder' = NoMedia
      /\ viewer' = viewer /\ oddities' = oddities /\ Silence
  BY DEF ServerEnds
<1>2. encoder'.streams = <<>>
  BY <1>1 DEF NoMedia
<1>3. FineParser(client'.parser) /\ FineChunks(toClient') /\ FineStreams(encoder'.streams)
  BY <1>1, <1>2, NothingFine DEF FullNow, FullOf
<1>4. QED  BY <1>1, <1>3, SilentFull

\* More is written to the client.
LEMMA WritesFull ==
  ASSUME FullNow, NEW chunks, FineChunks(chunks), NEW ms, ServerWrites(chunks, ms),
         FineStreams(encoder'.streams)
  PROVE  FullNext
<1>1. /\ toClient' = toClient \o chunks /\ client' = client /\ viewer' = viewer /\ Silence
  BY DEF ServerWrites
<1>2. FineParser(client.parser) /\ FineChunks(toClient)
  BY DEF FullNow, FullOf
<1>3. FineChunks(toClient \o chunks)
  BY <1>2, FineMore
<1>4. FineParser(client'.parser) /\ FineChunks(toClient')
  BY <1>1, <1>2, <1>3
<1>5. QED  BY <1>1, <1>4, SilentFull

LEMMA SaysFull ==
  ASSUME FullNow, EncoderOk(encoder), NEW m, Sendable(m), ServerSays(m),
         FineStreams(encoder'.streams)
  PROVE  FullNext
<1>1. PICK size : size = encoder.chunkSize
  OBVIOUS
<1>2. size \in Nat \ {0}
  BY <1>1 DEF EncoderOk
<1>3. PICK chunks, ms : chunks = InChunks(0, m, size) /\ ms = <<Meaning(m)>>
  OBVIOUS
<1>4. FineChunks(chunks)
  BY <1>2, <1>3, FineInChunks
<1>5. ServerWrites(chunks, ms)
  BY <1>1, <1>3 DEF ServerSays
<1>6. QED  BY <1>4, <1>5, WritesFull

LEMMA PingsFull ==
  ASSUME FullNow, EncoderOk(encoder), OtherPings PROVE FullNext /\ oddities' = oddities
<1>1. ServerSays(UserEvent("ping")) /\ encoder' = encoder /\ oddities' = oddities
  BY DEF OtherPings
<1>2. PICK m : m = UserEvent("ping")
  OBVIOUS
<1>3. Sendable(m)
  BY <1>2, Controls DEF Short
<1>4. FineStreams(encoder'.streams)
  BY <1>1 DEF FullNow, FullOf
<1>5. QED  BY <1>1, <1>2, <1>3, <1>4, SaysFull

LEMMA ResizeFull ==
  ASSUME FullNow, EncoderOk(encoder), Resize
  PROVE  FullNext /\ ("empty" \in oddities => "empty" \in oddities')
<1>1. PICK size \in Sizes : /\ ServerSays(SetChunkSize(size))
                            /\ encoder' = [encoder EXCEPT !.chunkSize = size]
  BY DEF Resize
<1>2. PICK m : m = SetChunkSize(size)
  OBVIOUS
<1>3. Sendable(m)
  BY <1>2, Controls DEF Short
<1>4. encoder'.streams = encoder.streams
  BY <1>1 DEF EncoderOk
<1>5. FineStreams(encoder'.streams)
  BY <1>4 DEF FullNow, FullOf
<1>6. FullNext
  BY <1>1, <1>2, <1>3, <1>5, SaysFull
<1>7. "empty" \in oddities => "empty" \in oddities'
  BY DEF Resize
<1>8. QED  BY <1>6, <1>7

LEMMA AnswersFull ==
  ASSUME WholeNow, FullNow, EncoderOk(encoder), OtherAnswers
  PROVE  FullNext /\ oddities' = oddities
<1>1. PICK cmd, id, sid : /\ cmd = server.asked.opt.cmd.text
                          /\ id = server.asked.opt.transId /\ sid = server.asked.sid
  OBVIOUS
<1>2. server.asked # NoResult /\ encoder' = encoder /\ AnswersWith(cmd, id, sid)
  BY <1>1, AnswersIs
<1>3. AskedOk(server.asked)
  BY DEF WholeNow, Whole, ServerOk
<1>4. PICK c, n : Asks(server.asked.opt, c, n)
  BY <1>2, <1>3 DEF AskedOk
<1>5. id = Num(n)
  BY <1>1, <1>4 DEF Asks
<1>6. IsValue(id)
  BY <1>5, SimpleValues
<1>7. \A info \in ResultsOf(cmd) : IsValue(info)
  BY ResultsAre
<1>8. PICK m \in AnswersOf(id, ResultsOf(cmd), cmd, sid) : ServerSays(m)
  BY <1>2 DEF AnswersWith
<1>9. Sendable(m)
  BY <1>6, <1>7, AnswerSendable
<1>10. FineStreams(encoder'.streams)
  BY <1>2 DEF FullNow, FullOf
<1>11. FullNext
  BY <1>8, <1>9, <1>10, SaysFull
<1>12. oddities' = oddities
  BY DEF OtherAnswers
<1>13. QED  BY <1>11, <1>12

(***************************************************************************)
(* The media of another server: it begins a message, and goes on with one. *)
(***************************************************************************)
TimeFits(fmt, cid, time) ==
  IF fmt = 0 THEN time \in Times
  ELSE IF fmt = 3 THEN time = encoder.streams[cid].time ELSE time \in Deltas
BegunWith(cid, fmt, length, time) ==
  /\ fmt > 0 => cid \in DOMAIN encoder.streams
  /\ length \in LengthsAfter(fmt, encoder.streams[cid])
  /\ TimeFits(fmt, cid, time)
  /\ MediaBegun(cid, fmt, length, time)
  /\ oddities' = IF length = 0 THEN oddities \cup {"empty"} ELSE oddities

LEMMA BeginsIs ==
  ASSUME BeginMessage
  PROVE  \E cid \in Cids, fmt \in 0..3 : \E length, time : BegunWith(cid, fmt, length, time)
<1>1. PICK cid \in Cids \ Busy, fmt \in 0..3 :
        /\ fmt > 0 => cid \in DOMAIN encoder.streams
        /\ \E length \in LengthsAfter(fmt, encoder.streams[cid]) :
             \E time \in TimesAfter(fmt, encoder.streams[cid]) :
               Begins(fmt, cid, encoder.streams[cid], length, time)
  BY DEF BeginMessage
<1>2. PICK length, time :
        /\ length \in LengthsAfter(fmt, encoder.streams[cid])
        /\ time \in TimesAfter(fmt, encoder.streams[cid])
        /\ Begins(fmt, cid, encoder.streams[cid], length, time)
  BY <1>1
<1>3. MediaBegun(cid, fmt, length, time)
  BY <1>2, BegunIs
<1>4. oddities' = IF length = 0 THEN oddities \cup {"empty"} ELSE oddities
  BY <1>2, Zenon DEF Begins
<1>5. TimeFits(fmt, cid, time)
  BY <1>2 DEF TimesAfter, TimeFits
<1>6. BegunWith(cid, fmt, length, time)
  BY <1>1, <1>2, <1>3, <1>4, <1>5 DEF BegunWith
<1>7. QED  BY <1>6

LEMMA StreamsPut ==
  ASSUME NEW f, FineStreams(f), NEW cid, NEW x, FineStream(x), NEW g, g = Updated(f, cid, x)
  PROVE  FineStreams(g)
<1>1. ASSUME NEW d \in DOMAIN g PROVE FineStream(g[d])
  <2>1. CASE d = cid
    <3>1. g[d] = x
      BY <2>1 DEF Updated
    <3>2. QED  BY <3>1
  <2>2. CASE d # cid
    <3>1. d \in DOMAIN f /\ g[d] = f[d]
      BY <1>1, <2>2 DEF Updated
    <3>2. QED  BY <3>1 DEF FineStreams
  <2>3. QED  BY <2>1, <2>2
<1>2. QED  BY <1>1 DEF FineStreams

\* The length and the time of a message: of its header, or of the one before.
LEMMA BegunFits ==
  ASSUME EncoderOk(encoder), FineStreams(encoder.streams), NEW cid \in Cids, NEW fmt \in 0..3,
         NEW length, NEW time, BegunWith(cid, fmt, length, time)
  PROVE  length \in Nat /\ time \in Nat
<1>1. ASSUME fmt > 0 PROVE FineStream(encoder.streams[cid])
  BY <1>1 DEF BegunWith, FineStreams
<1>2. length \in Nat
  <2>1. CASE fmt <= 1
    <3>1. length \in Lengths
      BY <2>1 DEF BegunWith, LengthsAfter
    <3>2. QED  BY <3>1, RtmpAssumption
  <2>2. CASE ~(fmt <= 1)
    <3>1. length = encoder.streams[cid].length
      BY <2>2 DEF BegunWith, LengthsAfter
    <3>2. FineStream(encoder.streams[cid])
      BY <1>1, <2>2
    <3>3. QED  BY <3>1, <3>2 DEF FineStream, StreamOk
  <2>3. QED  BY <2>1, <2>2
<1>3. time \in Nat
  <2>1. TimeFits(fmt, cid, time)
    BY DEF BegunWith
  <2>2. CASE fmt = 0
    <3>1. time \in Times
      BY <2>1, <2>2 DEF TimeFits
    <3>2. QED  BY <3>1, RtmpAssumption
  <2>3. CASE fmt = 3
    <3>1. time = encoder.streams[cid].time
      BY <2>1, <2>3 DEF TimeFits
    <3>2. FineStream(encoder.streams[cid])
      BY <1>1, <2>3
    <3>3. QED  BY <3>1, <3>2 DEF FineStream
  <2>4. CASE fmt # 0 /\ fmt # 3
    <3>1. time \in Deltas
      BY <2>1, <2>4 DEF TimeFits
    <3>2. QED  BY <3>1, RtmpAssumption
  <2>5. QED  BY <2>2, <2>3, <2>4
<1>4. QED  BY <1>2, <1>3

LEMMA BeginFull ==
  ASSUME FullNow, EncoderOk(encoder), BeginMessage, "empty" \notin oddities'
  PROVE  FullNext
<1>1. FineStreams(encoder.streams)
  BY DEF FullNow, FullOf
<1>2. PICK cid \in Cids, fmt \in 0..3 : \E length, time : BegunWith(cid, fmt, length, time)
  BY BeginsIs
<1>3. PICK length, time : BegunWith(cid, fmt, length, time)
  BY <1>2
<1>4. length \in Nat /\ time \in Nat
  BY <1>1, <1>3, BegunFits
<1>5. length # 0
  BY <1>3 DEF BegunWith
<1>6. PICK p : p = MediaCells(length)
  OBVIOUS
<1>7. Cells(p) /\ p # <<>>
  BY <1>4, <1>5, <1>6, FineMedia
<1>8. PICK k, size : k = PacketOf(cid, time, p) /\ size = encoder.chunkSize
  OBVIOUS
<1>9. PICK c : c = InChunks(fmt, k, size)[1]
  OBVIOUS
<1>10. size \in Nat \ {0}
  BY <1>8 DEF EncoderOk
<1>11. FineCells(c)
  <2>1. k.time = time /\ k.payload = p
    BY <1>8 DEF PacketOf
  <2>2. k.time \in Nat /\ Cells(k.payload) /\ k.payload # <<>>
    BY <2>1, <1>4, <1>7
  <2>3. QED  BY <2>2, <1>9, <1>10, FineFirst
<1>12. PICK message :
         /\ ServerWrites(<<c>>, Completed(Sent(StreamMade(time, length, p, message), size)))
         /\ encoder' = [encoder EXCEPT !.sent = @ + 1,
                          !.streams = Updated(@, cid,
                                              Sent(StreamMade(time, length, p, message), size))]
  BY <1>3, <1>6, <1>8, <1>9, Zenon DEF BegunWith, MediaBegun
<1>13. PICK x : x = StreamMade(time, length, p, message)
  OBVIOUS
<1>14. PICK y : y = Sent(x, size)
  OBVIOUS
<1>15. FineStream(x)
  BY <1>4, <1>5, <1>7, <1>13 DEF StreamMade, FineStream, StreamOk, Cells
<1>16. FineStream(y)
  BY <1>10, <1>14, <1>15, FineSent
<1>17. PICK ms, cs : ms = Completed(y) /\ cs = <<c>>
  OBVIOUS
<1>18. ServerWrites(cs, ms)
  BY <1>12, <1>13, <1>14, <1>17
<1>19. FineChunks(cs)
  <2>1. IsSeq(cs) /\ Len(cs) = 1 /\ cs[1] = c
    BY <1>17, IsOne
  <2>2. QED  BY <2>1, <1>11 DEF FineChunks
<1>20. PICK g : g = Updated(encoder.streams, cid, y)
  OBVIOUS
<1>21. encoder'.streams = g
  <2>1. encoder' = [encoder EXCEPT !.sent = @ + 1, !.streams = Updated(@, cid, y)]
    BY <1>12, <1>13, <1>14
  <2>2. PICK n, e : n = encoder.sent + 1 /\ e = [encoder EXCEPT !.sent = n]
    OBVIOUS
  <2>3. DOMAIN e = {"chunkSize", "streams", "sent"} /\ e.streams = encoder.streams
    BY <2>2 DEF EncoderOk
  <2>4. encoder' = [e EXCEPT !.streams = g]
    BY <2>1, <2>2, <1>20 DEF EncoderOk
  <2>5. QED  BY <2>3, <2>4
<1>22. FineStreams(encoder'.streams)
  BY <1>1, <1>16, <1>20, <1>21, StreamsPut
<1>23. QED  BY <1>18, <1>19, <1>22, WritesFull

LEMMA ContinueMessageFull ==
  ASSUME FullNow, EncoderOk(encoder), ContinueMessage PROVE FullNext /\ oddities' = oddities
<1>1. oddities' = oddities
  BY DEF ContinueMessage
<1>2. FineStreams(encoder.streams)
  BY DEF FullNow, FullOf
<1>3. \E cid \in Busy :
         /\ ServerWrites(<<More(cid, encoder.streams[cid],
                                PartOf(encoder.streams[cid],
                                       Sent(encoder.streams[cid], encoder.chunkSize)))>>,
                         Completed(Sent(encoder.streams[cid], encoder.chunkSize)))
         /\ encoder' = [encoder EXCEPT !.streams[cid] =
                          Sent(encoder.streams[cid], encoder.chunkSize)]
  BY Zenon DEF ContinueMessage, More, PartOf
<1>4. PICK cid \in Busy :
         /\ ServerWrites(<<More(cid, encoder.streams[cid],
                                PartOf(encoder.streams[cid],
                                       Sent(encoder.streams[cid], encoder.chunkSize)))>>,
                         Completed(Sent(encoder.streams[cid], encoder.chunkSize)))
         /\ encoder' = [encoder EXCEPT !.streams[cid] =
                          Sent(encoder.streams[cid], encoder.chunkSize)]
  BY <1>3
<1>5. PICK x, size : x = encoder.streams[cid] /\ size = encoder.chunkSize
  OBVIOUS
<1>6. PICK y : y = Sent(x, size)
  OBVIOUS
<1>7. PICK part : part = PartOf(x, y)
  OBVIOUS
<1>8. PICK c, ms : c = More(cid, x, part) /\ ms = Completed(y)
  OBVIOUS
<1>9. PICK cs : cs = <<c>>
  OBVIOUS
<1>10. ServerWrites(cs, ms)
  BY <1>4, <1>5, <1>6, <1>7, <1>8, <1>9
<1>11. cid \in DOMAIN encoder.streams
  BY DEF Busy
<1>12. FineStream(x) /\ size \in Nat \ {0}
  BY <1>2, <1>5, <1>11 DEF FineStreams, EncoderOk
<1>13. FineStream(y) /\ Cells(part)
  <2>1. FineStream(y) /\ Cells(PartOf(x, y))
    BY <1>6, <1>12, FineSent
  <2>2. QED  BY <2>1, <1>7
<1>14. FineCells(c)
  BY <1>8, <1>12, <1>13, FineNext
<1>15. FineChunks(cs)
  <2>1. IsSeq(cs) /\ Len(cs) = 1 /\ cs[1] = c
    BY <1>9, IsOne
  <2>2. QED  BY <2>1, <1>14 DEF FineChunks
<1>16. PICK ss : ss = [encoder.streams EXCEPT ![cid] = y]
  OBVIOUS
<1>17. encoder' = [encoder EXCEPT !.streams = ss]
  BY <1>4, <1>5, <1>6, <1>16
<1>18. encoder'.streams = ss
  BY <1>17 DEF EncoderOk
<1>19. ASSUME NEW d \in DOMAIN ss PROVE FineStream(ss[d])
  BY <1>2, <1>13, <1>16, <1>19 DEF FineStreams
<1>20. FineStreams(encoder'.streams)
  BY <1>18, <1>19 DEF FineStreams
<1>21. FullNext
  BY <1>10, <1>15, <1>20, WritesFull
<1>22. QED  BY <1>1, <1>21

(***************************************************************************)
(* The invariant holds, and viewers keep step.                             *)
(***************************************************************************)
LEMMA StaysFull ==
  ASSUME RtmpInv, FullMedia, [RtmpNext]_rtmpVars PROVE FullMedia'
<1>1. SUFFICES ASSUME "empty" \notin oddities' PROVE FullNext
  BY DEF FullMedia, FullNow, FullNext
<1>2. WholeNow /\ EncoderOk(encoder)
  BY DEF RtmpInv
<1>3. "empty" \notin oddities
  <2>1. "empty" \in oddities => "empty" \in oddities'
    <3>1. CASE BeginMessage
      <4>1. PICK cid, fmt, length, time : BegunWith(cid, fmt, length, time)
        BY <3>1, BeginsIs
      <4>2. QED  BY <4>1 DEF BegunWith
    <3>2. CASE Resize
      BY <3>2 DEF Resize
    <3>3. CASE UNCHANGED rtmpVars
      BY <3>3 DEF rtmpVars, ghosts
    <3>4. CASE Connected \/ Heartbeat \/ SocketError \/ SocketClosed \/ SessionCloses \/ TimedOut
      BY <3>4 DEF Connected, Heartbeat, SocketError, SocketClosed, SessionCloses, TimedOut,
                  ClientTurns, ClientEnds
    <3>5. CASE Continue
      <4>1. Branched
        BY <3>5, ContinueBranched
      <4>2. PICK s : ClientTurns(s)
        BY <4>1, Zenon DEF Branched
      <4>3. QED  BY <4>2 DEF ClientTurns
    <3>6. CASE ClientRead \/ ServerRead \/ OtherAnswers \/ OtherPings \/ ServerEnds
               \/ ContinueMessage
      BY <3>6, Zenon DEF ClientRead, ServerRead, OtherAnswers, OtherPings, ServerEnds, ContinueMessage
    <3>7. CASE OtherVersion
      BY <3>7, Zenon DEF OtherVersion
    <3>8. QED  BY <3>1, <3>2, <3>3, <3>4, <3>5, <3>6, <3>7 DEF RtmpNext
  <2>2. QED  BY <2>1, <1>1
<1>4. FullNow
  BY <1>3 DEF FullMedia
<1>5. CASE Connected
  BY <1>2, <1>4, <1>5, ConnectedFull
<1>6. CASE ClientRead
  BY <1>2, <1>4, <1>6, ClientReadFull
<1>7. CASE Continue
  BY <1>2, <1>4, <1>7, ContinueFull
<1>8. CASE SocketError
  BY <1>2, <1>4, <1>8, ErrorFull
<1>9. CASE SocketClosed
  BY <1>2, <1>4, <1>9, ClosedFull
<1>10. CASE SessionCloses
  BY <1>2, <1>4, <1>10, ClosesFull
<1>11. CASE Heartbeat
  BY <1>2, <1>4, <1>11, HeartbeatFull
<1>12. CASE TimedOut
  BY <1>2, <1>4, <1>12, TimedOutFull
<1>13. CASE ServerRead
  BY <1>2, <1>4, <1>13, ServerReadFull
<1>14. CASE OtherVersion
  BY <1>4, <1>14, VersionFull
<1>15. CASE OtherAnswers
  BY <1>2, <1>4, <1>15, AnswersFull
<1>16. CASE OtherPings
  BY <1>2, <1>4, <1>16, PingsFull
<1>17. CASE ServerEnds
  BY <1>4, <1>17, ServerEndsFull
<1>18. CASE BeginMessage
  BY <1>1, <1>2, <1>4, <1>18, BeginFull
<1>19. CASE ContinueMessage
  BY <1>2, <1>4, <1>19, ContinueMessageFull
<1>20. CASE Resize
  BY <1>2, <1>4, <1>20, ResizeFull
<1>21. CASE UNCHANGED rtmpVars
  <2>1. /\ client' = client /\ toClient' = toClient /\ encoder' = encoder
        /\ viewer' = viewer /\ shown' = shown
    BY <1>21 DEF rtmpVars, wires, ghosts
  <2>2. QED  BY <1>4, <2>1 DEF FullNow, FullNext
<1>22. QED
  BY <1>5, <1>6, <1>7, <1>8, <1>9, <1>10, <1>11, <1>12, <1>13, <1>14, <1>15, <1>16, <1>17,
     <1>18, <1>19, <1>20, <1>21 DEF RtmpNext

\* What a pull hands on of another server's media is written to a viewer so that
\* the viewer reads the same messages, however the server mixes its chunk streams,
\* leaves fields out of headers, or announces a size within a message, and wherever
\* the client cuts what it reads; unless a message was empty.
THEOREM ViewersKeepStep == RtmpSpec => []ViewersInStep
<1>1. RtmpInit => FullMedia
  BY FirstFull
<1>2. RtmpInv /\ FullMedia /\ [RtmpNext]_rtmpVars => FullMedia'
  BY StaysFull
<1>3. FullMedia => ViewersInStep
  BY DEF FullMedia, FullNow, FullOf, Resting, AtRest, ViewersInStep
<1>4. RtmpInit /\ [][RtmpNext]_rtmpVars /\ []RtmpInv => []FullMedia
  BY <1>1, <1>2, PTL
<1>5. QED  BY <1>3, <1>4, AlwaysWhole, PTL DEF RtmpSpec

(***************************************************************************)
(* The relay sessions, for every set of sessions and clients and every     *)
(* configuration of a task: types.                                         *)
(***************************************************************************)
LEMMA TypeInit == Init => TypeOK
<1> SUFFICES ASSUME Init PROVE TypeOK
  OBVIOUS
<1>1. 0 \in 0..MaxStarts
  BY RelayAssumption
<1>2. attempts = [s \in Relays |-> 0]
  BY DEF Init
<1>3. attempts \in [Relays -> Nat]
  BY <1>2
<1>4. maxReconnectAttempts > 0 =>
        \A s \in Relays : attempts[s] <= maxReconnectAttempts
  BY <1>2, RelayAssumption
<1> QED BY <1>1, <1>3, <1>4 DEF Init, TypeOK

\* Attempts are counted up to the limit and no further.
LEMMA ReconnectType ==
  ASSUME TypeOK, NEW s \in Relays, handleReconnect(s, publisher)
  PROVE  /\ timer' \in [Relays -> BOOLEAN]
         /\ attempts' \in [Relays -> Nat]
         /\ maxReconnectAttempts > 0 =>
              \A r \in Relays : attempts'[r] <= maxReconnectAttempts
         /\ isRunning' \in [Relays -> BOOLEAN]
<1>1. attempts' \in [Relays -> Nat]
  BY DEF handleReconnect, TypeOK
<1>2. maxReconnectAttempts > 0 =>
        \A r \in Relays : attempts'[r] <= maxReconnectAttempts
  BY RelayAssumption DEF handleReconnect, GivesUp, TypeOK
<1>3. MayReconnect(s) \in BOOLEAN /\ GivesUp(s, publisher) \in BOOLEAN
  BY DEF MayReconnect, GivesUp
<1> QED BY <1>1, <1>2, <1>3 DEF handleReconnect, TypeOK

LEMMA UnregisterType ==
  ASSUME TypeOK, NEW s \in Relays, unregisterBroadcast(s)
  PROVE  /\ isRegistered' \in [Relays -> BOOLEAN]
         /\ publisher' \in Relays \cup {Other, None}
         /\ graceTimer' \in BOOLEAN
         /\ players' \subseteq Relays
BY DEF unregisterBroadcast, TypeOK

LEMMA ConnectType ==
  ASSUME TypeOK, NEW s \in Relays, NEW c \in Clients, Connects(s, c)
  PROVE  /\ rtmpClient' \in [Relays -> Clients \cup {None}]
         /\ session' \in [Clients -> Relays \cup {None}]
         /\ socket' \in [Clients -> {"new", "open", "destroyed", "closed"}]
         /\ awaits' \in [Clients -> {"nothing", "handshake", "command"}]
         /\ awaitsOn' \in [Clients -> Clients \cup {None}]
BY DEF Connects, TypeOK

LEMMA DisconnectType ==
  ASSUME TypeOK, NEW s \in Relays, Disconnect(s)
  PROVE  /\ socket' \in [Clients -> {"new", "open", "destroyed", "closed"}]
         /\ awaits' \in [Clients -> {"nothing", "handshake", "command"}]
BY DEF Disconnect, TypeOK

(***************************************************************************)
(* Who belongs to whom.  A client that was made has a session, for good;   *)
(* a call waits for a client of its own session.                           *)
(***************************************************************************)

ClientsBound ==
  /\ \A c \in Clients : socket[c] = "new" <=> session[c] = None
  /\ \A s \in Relays : rtmpClient[s] \in Clients => session[rtmpClient[s]] = s
  /\ \A c \in Clients, s \in Relays : session[c] = s => rtmpClient[s] # None
  /\ \A k \in Clients : awaits[k] # "nothing" =>
       /\ session[k] \in Relays /\ awaitsOn[k] \in Clients
       /\ session[awaitsOn[k]] = session[k]

\* A session without a client was not started.
Unstarted ==
  \A s \in Relays : rtmpClient[s] = None =>
    /\ ~isRunning[s] /\ ~isClosing[s] /\ ~isRegistered[s]
    /\ ~timer[s] /\ ~watchdog[s] /\ task # s

LEMMA TypeStep == TypeOK /\ ClientsBound /\ [Next]_vars => TypeOK'
<1> SUFFICES ASSUME TypeOK, ClientsBound, [Next]_vars PROVE TypeOK'
  OBVIOUS
<1> USE DEF taskVars, sessionVars, clientVars, streamVars
<1>1. ASSUME NEW s \in Relays, NEW c \in Clients, addTask(s, c) PROVE TypeOK'
  BY <1>1, ConnectType DEF addTask, Runs, TypeOK
<1>2. ASSUME NEW s \in Relays, NEW c \in Clients, ReconnectFires(s, c)
      PROVE  TypeOK'
  BY <1>2, ConnectType DEF ReconnectFires, TypeOK
<1>3. ASSUME NEW s \in Relays, Silent(s) PROVE TypeOK'
  BY <1>3, DisconnectType, ReconnectType DEF Silent, TypeOK
<1>4. ASSUME NEW k \in Clients, NextCommand(k) PROVE TypeOK'
  <2>1. session[k] \in Relays
    BY <1>4 DEF NextCommand, ClientsBound
  <2> QED BY <1>4, <2>1, ReconnectType DEF NextCommand, Open, TypeOK
<1>5. ASSUME NEW k \in Clients, Started(k) PROVE TypeOK'
  <2>1. session[k] \in Relays
    BY <1>5 DEF Started, ClientsBound
  <2>2. CASE Accepted(session[k])
    <3>1. attempts' = [attempts EXCEPT ![session[k]] = 0]
      BY <1>5, <2>2 DEF Started, Register
    <3>2. attempts' \in [Relays -> Nat]
      BY <3>1, <2>1 DEF TypeOK
    <3>3. maxReconnectAttempts > 0 =>
            \A s \in Relays : attempts'[s] <= maxReconnectAttempts
      BY <3>1, <2>1, RelayAssumption DEF TypeOK
    <3>4. Register(session[k]) /\ UNCHANGED <<timer, isRunning>>
      BY <1>5, <2>2 DEF Started
    <3>5. publisher' \in Relays \cup {Other, None} /\ graceTimer' \in BOOLEAN
          /\ players' \subseteq Relays
      BY <2>1, <3>4 DEF Register, TypeOK
    <3>6. isRegistered' \in [Relays -> BOOLEAN] /\ watchdog' \in [Relays -> BOOLEAN]
      BY <2>1, <3>4 DEF Register, TypeOK
    <3> QED BY <1>5, <3>2, <3>3, <3>4, <3>5, <3>6 DEF Started, TypeOK
  <2>3. CASE ~Accepted(session[k])
    BY <1>5, <2>1, <2>3, ReconnectType DEF Started, TypeOK
  <2> QED BY <2>2, <2>3
<1>6. ASSUME NEW k \in Clients, Refused(k) PROVE TypeOK'
  <2>1. session[k] \in Relays
    BY <1>6 DEF Refused, ClientsBound
  <2> QED BY <1>6, <2>1, ReconnectType DEF Refused, TypeOK
<1>7. ASSUME NEW c \in Clients, SocketCloses(c) PROVE TypeOK'
  <2>1. session[c] \in Relays
    BY <1>7 DEF SocketCloses, ClientsBound, TypeOK
  <2> QED
    BY <1>7, <2>1, ReconnectType, UnregisterType
    DEF SocketCloses, onConnectionClose, TypeOK
<1>8. ASSUME NEW c \in Clients, RemoteClose(c) PROVE TypeOK'
  <2>1. session[c] \in Relays
    BY <1>8 DEF RemoteClose, Open, ClientsBound, TypeOK
  <2> QED
    BY <1>8, <2>1, ReconnectType, UnregisterType
    DEF RemoteClose, onConnectionClose, TypeOK
<1>9. CASE removeTask
  BY <1>9, DisconnectType, UnregisterType
  DEF removeTask, close, TimerCleared, RowDropped, TypeOK
<1>10. CASE Boot
  <2>1. starts' \in 0..MaxStarts
    BY <1>10, RelayAssumption DEF Boot, TypeOK
  <2> QED BY <1>10, <2>1, ConnectType DEF Boot, Runs, TypeOK
<1>11. CASE Stop
  BY <1>11 DEF Stop, TypeOK
<1>12. CASE OtherPublishes \/ OtherLeaves \/ GraceExpires
  BY <1>12 DEF OtherPublishes, OtherLeaves, GraceExpires, TypeOK
<1>13. CASE UNCHANGED vars
  BY <1>13 DEF vars, TypeOK
<1> QED
  BY <1>1, <1>2, <1>3, <1>4, <1>5, <1>6, <1>7, <1>8, <1>9, <1>10, <1>11, <1>12,
     <1>13
  DEF Next

(***************************************************************************)
(* Clients stay with their sessions.                                       *)
(***************************************************************************)

BoundInv == TypeOK /\ ClientsBound /\ Unstarted

LEMMA BoundInit == Init => BoundInv
<1> SUFFICES ASSUME Init PROVE BoundInv
  OBVIOUS
<1> QED
  BY TypeInit, RelayAssumption DEF Init, BoundInv, ClientsBound, Unstarted

\* A new client becomes the one of its session.
LEMMA ConnectBound ==
  ASSUME BoundInv, NEW s \in Relays, NEW c \in Clients, Connects(s, c)
  PROVE  /\ ClientsBound'
         /\ \A r \in Relays :
              rtmpClient'[r] = IF r = s THEN c ELSE rtmpClient[r]
<1> USE DEF BoundInv
<1>1. \A d \in Clients : /\ session'[d] = IF d = c THEN s ELSE session[d]
                         /\ socket'[d] = IF d = c THEN "open" ELSE socket[d]
                         /\ awaits'[d] = IF d = c THEN "handshake" ELSE awaits[d]
                         /\ awaitsOn'[d] = IF d = c THEN c ELSE awaitsOn[d]
  BY DEF Connects, TypeOK
<1>2. \A r \in Relays : rtmpClient'[r] = IF r = s THEN c ELSE rtmpClient[r]
  BY DEF Connects, TypeOK
<1>3. session[c] = None /\ socket[c] = "new" /\ s # None
  BY RelayAssumption DEF Connects, ClientsBound
<1>4. \A d \in Clients : socket'[d] = "new" <=> session'[d] = None
  BY <1>1, <1>3 DEF ClientsBound
<1>5. \A r \in Relays : rtmpClient'[r] \in Clients => session'[rtmpClient'[r]] = r
  BY <1>1, <1>2, <1>3, RelayAssumption DEF ClientsBound
<1>6. \A d \in Clients, r \in Relays : session'[d] = r => rtmpClient'[r] # None
  BY <1>1, <1>2, RelayAssumption DEF ClientsBound
<1>7. ASSUME NEW k \in Clients, awaits'[k] # "nothing"
      PROVE  /\ session'[k] \in Relays /\ awaitsOn'[k] \in Clients
             /\ session'[awaitsOn'[k]] = session'[k]
  <2>1. CASE k = c
    BY <1>1, <2>1
  <2>2. CASE k # c
    <3>1. /\ session[k] \in Relays /\ awaitsOn[k] \in Clients
          /\ session[awaitsOn[k]] = session[k]
      BY <1>1, <1>7, <2>2 DEF ClientsBound
    <3>2. awaitsOn[k] # c
      BY <3>1, <1>3, RelayAssumption
    <3> QED BY <1>1, <2>2, <3>1, <3>2
  <2> QED BY <2>1, <2>2
<1> QED BY <1>2, <1>4, <1>5, <1>6, <1>7 DEF ClientsBound

\* Closing sockets and ending calls leaves the others where they are.
LEMMA FewerBound ==
  ASSUME BoundInv, UNCHANGED <<rtmpClient, session, awaitsOn>>,
         TypeOK',
         \A c \in Clients : socket'[c] = "new" <=> socket[c] = "new",
         \A k \in Clients : awaits'[k] # "nothing" => awaits[k] # "nothing"
  PROVE  ClientsBound'
BY DEF BoundInv, ClientsBound

\* A session that reconnects or leaves the path leaves the others alone.
LEMMA OthersKept ==
  ASSUME TypeOK, NEW s \in Relays
  PROVE  /\ handleReconnect(s, publisher) =>
              \A r \in Relays \ {s} : /\ timer'[r] = timer[r]
                                     /\ isRunning'[r] = isRunning[r]
         /\ unregisterBroadcast(s) =>
              \A r \in Relays \ {s} : isRegistered'[r] = isRegistered[r]
         /\ Register(s) =>
              \A r \in Relays \ {s} : /\ isRegistered'[r] = isRegistered[r]
                                     /\ watchdog'[r] = watchdog[r]
BY DEF handleReconnect, unregisterBroadcast, Register, TypeOK

\* A step of a session that was started keeps Unstarted.
LEMMA StartedOnly ==
  ASSUME Unstarted, NEW s \in Relays, rtmpClient[s] # None, rtmpClient' = rtmpClient,
         task' \in {task, None},
         \A r \in Relays \ {s} :
           /\ isRunning'[r] = isRunning[r] /\ isClosing'[r] = isClosing[r]
           /\ isRegistered'[r] = isRegistered[r]
           /\ timer'[r] = timer[r] /\ watchdog'[r] = watchdog[r]
  PROVE  Unstarted'
BY RelayAssumption DEF Unstarted

LEMMA BoundStep == BoundInv /\ [Next]_vars => BoundInv'
<1> SUFFICES ASSUME BoundInv, [Next]_vars PROVE ClientsBound' /\ Unstarted'
  BY TypeStep DEF BoundInv
<1> DEFINE StillThere == ClientsBound' /\ Unstarted'
<1> USE DEF taskVars, sessionVars, clientVars, streamVars
<1>t. TypeOK /\ TypeOK' /\ ClientsBound /\ Unstarted
  BY TypeStep DEF BoundInv
<1>1. ASSUME NEW s \in Relays, NEW c \in Clients, Runs(s, c),
             UNCHANGED <<isClosing, isRegistered, timer, watchdog>>
      PROVE  StillThere
  <2>1. Connects(s, c) /\ task' = s /\ isRunning' = [isRunning EXCEPT ![s] = TRUE]
    BY <1>1 DEF Runs
  <2>2. ClientsBound'
        /\ \A r \in Relays : rtmpClient'[r] = IF r = s THEN c ELSE rtmpClient[r]
    BY <2>1, ConnectBound
  <2> QED BY <1>1, <2>1, <2>2, <1>t, RelayAssumption DEF Unstarted, TypeOK
<1>2. ASSUME NEW s \in Relays, NEW c \in Clients, ReconnectFires(s, c)
      PROVE  StillThere
  <2>1. /\ Connects(s, c) /\ timer' = [timer EXCEPT ![s] = FALSE]
        /\ UNCHANGED <<task, isRunning, isClosing, isRegistered, watchdog>>
    BY <1>2 DEF ReconnectFires
  <2>2. ClientsBound'
        /\ \A r \in Relays : rtmpClient'[r] = IF r = s THEN c ELSE rtmpClient[r]
    BY <2>1, ConnectBound
  <2> QED BY <2>1, <2>2, <1>t, RelayAssumption DEF Unstarted, TypeOK
<1>3. ASSUME NEW s \in Relays, Silent(s) PROVE StillThere
  <2>1. rtmpClient[s] # None
    BY <1>3, <1>t DEF Silent, Unstarted
  <2>2. ClientsBound'
    BY <1>3, <1>t, FewerBound DEF Silent, Disconnect, Open, TypeOK
  <2>3. \A r \in Relays \ {s} : timer'[r] = timer[r] /\ isRunning'[r] = isRunning[r]
    BY <1>3, <1>t, OthersKept DEF Silent
  <2> QED BY <1>3, <1>t, <2>1, <2>2, <2>3, StartedOnly DEF Silent
<1>4. ASSUME NEW k \in Clients, NextCommand(k) PROVE StillThere
  <2>1. session[k] \in Relays /\ rtmpClient[session[k]] # None
    BY <1>4, <1>t DEF NextCommand, ClientsBound
  <2>2. \A r \in Relays \ {session[k]} :
          timer'[r] = timer[r] /\ isRunning'[r] = isRunning[r]
    BY <1>4, <1>t, <2>1, OthersKept DEF NextCommand
  <2>3. Unstarted'
    BY <1>4, <1>t, <2>1, <2>2, StartedOnly DEF NextCommand
  <2>4. CASE Open(rtmpClient[session[k]])
    <3>1. /\ awaits' = [awaits EXCEPT ![k] = "command"]
          /\ awaitsOn' = [awaitsOn EXCEPT ![k] = rtmpClient[session[k]]]
          /\ UNCHANGED <<rtmpClient, session, socket>>
      BY <1>4, <2>4 DEF NextCommand
    <3>2. session[rtmpClient[session[k]]] = session[k]
          /\ rtmpClient[session[k]] \in Clients
      BY <1>t, <2>1, <2>4 DEF ClientsBound, Open
    <3> QED BY <1>t, <2>1, <2>3, <3>1, <3>2 DEF ClientsBound, TypeOK
  <2>5. CASE ~Open(rtmpClient[session[k]])
    <3>1. awaits' = [awaits EXCEPT ![k] = "nothing"]
          /\ UNCHANGED <<rtmpClient, session, socket, awaitsOn>>
      BY <1>4, <2>5 DEF NextCommand
    <3> QED BY <1>t, <2>3, <3>1, FewerBound DEF TypeOK
  <2> QED BY <2>4, <2>5
<1>5. ASSUME NEW k \in Clients, Started(k) \/ Refused(k) PROVE StillThere
  <2>1. session[k] \in Relays /\ rtmpClient[session[k]] # None
    BY <1>5, <1>t DEF Started, Refused, ClientsBound
  <2>2. /\ awaits' = [awaits EXCEPT ![k] = "nothing"]
        /\ UNCHANGED <<task, isClosing, rtmpClient, session, socket, awaitsOn>>
    BY <1>5 DEF Started, Refused
  <2>3. ClientsBound'
    BY <1>t, <2>2, FewerBound DEF TypeOK
  <2>4. \A r \in Relays \ {session[k]} :
          /\ timer'[r] = timer[r] /\ isRunning'[r] = isRunning[r]
          /\ isRegistered'[r] = isRegistered[r] /\ watchdog'[r] = watchdog[r]
    BY <1>5, <1>t, <2>1, OthersKept DEF Started, Refused
  <2> QED BY <1>t, <2>1, <2>2, <2>3, <2>4, StartedOnly
<1>6. ASSUME NEW c \in Clients, SocketCloses(c) \/ RemoteClose(c) PROVE StillThere
  <2>1. session[c] \in Relays /\ rtmpClient[session[c]] # None
    BY <1>6, <1>t DEF SocketCloses, RemoteClose, Open, ClientsBound, TypeOK
  <2>2. /\ UNCHANGED <<task, isClosing, rtmpClient, session, awaitsOn>>
        /\ \A d \in Clients : socket'[d] = "new" <=> socket[d] = "new"
        /\ \A k \in Clients : awaits'[k] # "nothing" => awaits[k] # "nothing"
    BY <1>6, <1>t DEF SocketCloses, RemoteClose, TypeOK
  <2>3. ClientsBound'
    BY <1>t, <2>2, FewerBound
  <2>4. \A r \in Relays \ {session[c]} :
          /\ timer'[r] = timer[r] /\ isRunning'[r] = isRunning[r]
          /\ isRegistered'[r] = isRegistered[r] /\ watchdog'[r] = watchdog[r]
    <3>1. /\ unregisterBroadcast(session[c])
          /\ handleReconnect(session[c], publisher)
          /\ watchdog' = [watchdog EXCEPT ![session[c]] = FALSE]
      BY <1>6 DEF SocketCloses, RemoteClose, onConnectionClose
    <3>2. \A r \in Relays \ {session[c]} : watchdog'[r] = watchdog[r]
      BY <1>t, <3>1 DEF TypeOK
    <3> QED BY <1>t, <2>1, <3>1, <3>2, OthersKept
  <2> QED BY <1>t, <2>1, <2>2, <2>3, <2>4, StartedOnly
<1>7. CASE removeTask
  <2>1. PICK s \in Relays : s = task /\ close(s)
    BY <1>7 DEF removeTask
  <2>2. rtmpClient[s] # None
    BY <2>1, <1>t DEF Unstarted
  <2>3. ClientsBound'
    BY <2>1, <1>t, FewerBound DEF close, Disconnect, Open, TypeOK
  <2>4. \A r \in Relays \ {s} :
          /\ isRunning'[r] = isRunning[r] /\ isClosing'[r] = isClosing[r]
          /\ isRegistered'[r] = isRegistered[r]
          /\ timer'[r] = timer[r] /\ watchdog'[r] = watchdog[r]
    BY <2>1, <1>t, OthersKept DEF close, TimerCleared, TypeOK
  <2>5. task' = None /\ rtmpClient' = rtmpClient
    BY <1>7, <2>1 DEF removeTask, close
  <2> QED BY <1>t, <2>2, <2>3, <2>4, <2>5, StartedOnly
<1>8. CASE Boot
  <2>1. CASE persisted
    BY <1>8, <2>1, <1>1 DEF Boot
  <2>2. CASE ~persisted
    BY <1>8, <2>2, <1>t DEF Boot, ClientsBound, Unstarted
  <2> QED BY <2>1, <2>2
<1>9. CASE Stop
  <2>1. ClientsBound'
    BY <1>9, <1>t, FewerBound DEF Stop, TypeOK
  <2> QED BY <1>9, <1>t, <2>1, RelayAssumption DEF Stop, Unstarted
<1>10. CASE OtherPublishes \/ OtherLeaves \/ GraceExpires \/ UNCHANGED vars
  BY <1>10, <1>t
  DEF OtherPublishes, OtherLeaves, GraceExpires, vars, ClientsBound, Unstarted
<1>11. ASSUME NEW s \in Relays, NEW c \in Clients, addTask(s, c) PROVE StillThere
  BY <1>11, <1>1 DEF addTask
<1> QED
  BY <1>2, <1>3, <1>4, <1>5, <1>6, <1>7, <1>8, <1>9, <1>10, <1>11 DEF Next

\* Every variable keeps its type; the attempts stay within their limit.
THEOREM RelayTypeCorrect == Spec => []TypeOK
<1>1. BoundInv => TypeOK
  BY DEF BoundInv
<1> QED BY <1>1, BoundInit, BoundStep, PTL DEF Spec

(***************************************************************************)
(* The hold on the local path.                                             *)
(***************************************************************************)

\* A task only pulls or only pushes.
Roles ==
  /\ mode = "push" => publisher \notin Relays
  /\ mode = "pull" => players = {}

HoldsInv == BoundInv /\ Roles /\ HoldsWhileConnected

Live(c) == socket[c] \in {"open", "destroyed"}

LEMMA HoldsInit == Init => HoldsInv
<1> SUFFICES ASSUME Init PROVE HoldsInv
  OBVIOUS
<1>1. BoundInv
  BY BoundInit
<1> QED
  BY <1>1, RelayAssumption DEF Init, HoldsInv, Roles, HoldsWhileConnected

\* Steps that leave the path alone and close no connection.
LEMMA LivingHold ==
  ASSUME HoldsInv, UNCHANGED <<mode, publisher, graceTimer, players, isRegistered>>,
         \A c \in Clients : Live(c) => Live(c)' /\ session'[c] = session[c]
  PROVE  Roles' /\ HoldsWhileConnected'
BY DEF HoldsInv, Roles, HoldsWhileConnected, Live

\* A session that leaves the path may lose its connections.
LEMMA UnregisterHold ==
  ASSUME HoldsInv, NEW s \in Relays, unregisterBroadcast(s),
         UNCHANGED <<mode, session>>,
         \A c \in Clients : Live(c) /\ session[c] # s => Live(c)'
  PROVE  Roles' /\ HoldsWhileConnected'
<1> USE DEF HoldsInv, BoundInv
<1>1. /\ publisher' = publisher /\ players' \subseteq players
      /\ ~isRegistered'[s]
      /\ \A r \in Relays \ {s} : isRegistered'[r] = isRegistered[r]
  BY DEF unregisterBroadcast, TypeOK
<1>2. Roles'
  BY <1>1 DEF Roles
<1>3. ASSUME NEW r \in Relays, isRegistered'[r]
      PROVE  /\ IF mode = "pull" THEN publisher' = r /\ ~graceTimer'
                ELSE r \in players'
             /\ \E c \in Clients : session'[c] = r /\ Live(c)'
  <2>1. r # s /\ isRegistered[r]
    BY <1>1, <1>3
  <2>2. \E c \in Clients : session[c] = r /\ Live(c)
    BY <2>1 DEF HoldsWhileConnected, Live
  <2>3. CASE mode = "pull"
    <3>1. publisher = r /\ ~graceTimer
      BY <2>1, <2>3 DEF HoldsWhileConnected
    <3>2. ~graceTimer'
      BY <2>1, <3>1 DEF unregisterBroadcast, TypeOK
    <3> QED BY <1>1, <2>1, <2>2, <2>3, <3>1, <3>2
  <2>4. CASE mode # "pull"
    <3>1. r \in players
      BY <2>1, <2>4 DEF HoldsWhileConnected
    <3>2. r \in players'
      BY <2>1, <3>1 DEF unregisterBroadcast
    <3> QED BY <2>1, <2>2, <2>4, <3>2
  <2> QED BY <2>3, <2>4
<1>4. ASSUME publisher' \in Relays, ~graceTimer' PROVE isRegistered'[publisher']
  <2>1. mode = "pull"
    BY <1>1, <1>4 DEF Roles, TypeOK
  <2>2. ~graceTimer
    BY <1>4 DEF unregisterBroadcast
  <2>3. isRegistered[publisher]
    BY <1>1, <1>4, <2>2 DEF HoldsWhileConnected
  <2>4. publisher # s
    BY <1>4, <2>1, <2>3 DEF unregisterBroadcast
  <2> QED BY <1>1, <1>4, <2>3, <2>4
<1>5. ASSUME NEW r \in players' PROVE isRegistered'[r]
  <2>1. r \in players /\ isRegistered[r] /\ r \in Relays
    BY <1>1 DEF HoldsWhileConnected, TypeOK
  <2>2. r # s
    BY <1>5, <2>1 DEF unregisterBroadcast
  <2> QED BY <1>1, <2>1, <2>2
<1> QED BY <1>2, <1>3, <1>4, <1>5 DEF HoldsWhileConnected, Live

\* A call that has had its last answer registers its session.
LEMMA RegisterHolds ==
  ASSUME HoldsInv, NEW k \in Clients, awaits[k] = "command", Open(awaitsOn[k]),
         Accepted(session[k]), Register(session[k]),
         UNCHANGED <<mode, session, socket>>
  PROVE  Roles' /\ HoldsWhileConnected'
<1> USE DEF HoldsInv, BoundInv
<1> DEFINE s == session[k]
<1>1. s \in Relays /\ awaitsOn[k] \in Clients /\ session[awaitsOn[k]] = s
      /\ Live(awaitsOn[k])
  BY DEF ClientsBound, Open, Live
<1> HIDE DEF s
<1>2. /\ isRegistered'[s]
      /\ \A r \in Relays \ {s} : isRegistered'[r] = isRegistered[r]
      /\ IF mode = "pull"
         THEN publisher' = s /\ ~graceTimer' /\ players' = players
         ELSE players' = players \cup {s} /\ UNCHANGED <<publisher, graceTimer>>
  BY <1>1 DEF Register, TypeOK, s
<1>3. \A r \in Relays : isRegistered'[r] =>
        \E c \in Clients : session'[c] = r /\ Live(c)'
  BY <1>1, <1>2 DEF HoldsWhileConnected, Live
<1>4. CASE mode = "pull"
  <2>1. \A r \in Relays : ~isRegistered[r]
    BY <1>4, RelayAssumption DEF HoldsWhileConnected, Accepted
  <2> QED BY <1>1, <1>2, <1>3, <1>4, <2>1 DEF Roles, HoldsWhileConnected, Live
<1>5. CASE mode # "pull"
  <2>1. mode = "push" /\ publisher \notin Relays
    BY <1>5 DEF TypeOK, Roles
  <2> QED
    BY <1>1, <1>2, <1>3, <1>5, <2>1 DEF Roles, HoldsWhileConnected, Live, TypeOK
<1> QED BY <1>4, <1>5

LEMMA HoldsStep == HoldsInv /\ [Next]_vars => HoldsInv'
<1> SUFFICES ASSUME HoldsInv, [Next]_vars PROVE Roles' /\ HoldsWhileConnected'
  BY BoundStep DEF HoldsInv
<1> DEFINE StillThere == Roles' /\ HoldsWhileConnected'
<1> USE DEF taskVars, sessionVars, clientVars, streamVars
<1>t. TypeOK /\ ClientsBound /\ Roles /\ HoldsWhileConnected
  BY DEF HoldsInv, BoundInv
<1>1. ASSUME NEW s \in Relays, NEW c \in Clients, Connects(s, c),
             UNCHANGED <<mode, publisher, graceTimer, players, isRegistered>>
      PROVE  StillThere
  BY <1>1, <1>t, LivingHold DEF Connects, Live, TypeOK
<1>2. ASSUME NEW s \in Relays, NEW c \in Clients, addTask(s, c) PROVE StillThere
  BY <1>1, <1>2 DEF addTask, Runs
<1>3. ASSUME NEW s \in Relays, NEW c \in Clients, ReconnectFires(s, c)
      PROVE  StillThere
  BY <1>1, <1>3 DEF ReconnectFires
<1>4. ASSUME NEW s \in Relays, Silent(s) PROVE StillThere
  BY <1>4, <1>t, LivingHold DEF Silent, Disconnect, Live, TypeOK
<1>5. ASSUME NEW k \in Clients, NextCommand(k) \/ Refused(k) PROVE StillThere
  BY <1>5, LivingHold DEF NextCommand, Refused, Live
<1>6. ASSUME NEW k \in Clients, Started(k) PROVE StillThere
  <2>1. CASE Accepted(session[k])
    BY <1>6, <2>1, RegisterHolds DEF Started
  <2>2. CASE ~Accepted(session[k])
    BY <1>6, <2>2, LivingHold DEF Started, Live
  <2> QED BY <2>1, <2>2
<1>7. ASSUME NEW c \in Clients, SocketCloses(c) PROVE StillThere
  <2>1. session[c] \in Relays /\ unregisterBroadcast(session[c])
    BY <1>7, <1>t DEF SocketCloses, onConnectionClose, ClientsBound, TypeOK
  <2>2. \A d \in Clients : Live(d) /\ session[d] # session[c] => Live(d)'
    BY <1>7, <1>t DEF SocketCloses, Live, TypeOK
  <2> QED BY <1>7, <2>1, <2>2, UnregisterHold DEF SocketCloses
<1>8. ASSUME NEW c \in Clients, RemoteClose(c) PROVE StillThere
  <2>1. session[c] \in Relays /\ unregisterBroadcast(session[c])
    BY <1>8, <1>t DEF RemoteClose, Open, onConnectionClose, ClientsBound, TypeOK
  <2> QED BY <1>8, <2>1, UnregisterHold DEF RemoteClose, Live
<1>9. CASE removeTask
  <2>1. PICK s \in Relays : close(s)
    BY <1>9 DEF removeTask
  <2>2. \A d \in Clients : Live(d) => Live(d)'
    BY <2>1, <1>t DEF close, Disconnect, Live, TypeOK
  <2> QED BY <1>9, <2>1, <2>2, UnregisterHold DEF removeTask, close
<1>10. CASE Boot
  <2>1. CASE persisted
    BY <1>10, <2>1, <1>1 DEF Boot, Runs
  <2>2. CASE ~persisted
    BY <1>10, <2>2, LivingHold DEF Boot, Live
  <2> QED BY <2>1, <2>2
<1>11. CASE Stop
  BY <1>11, RelayAssumption DEF Stop, Roles, HoldsWhileConnected
<1>12. CASE OtherPublishes \/ OtherLeaves \/ GraceExpires
  <2>1. /\ \A r \in Relays : isRegistered[r] => mode = "push"
        /\ publisher' \notin Relays /\ players' = players
        /\ UNCHANGED <<mode, isRegistered, session, socket>>
    BY <1>12, <1>t, RelayAssumption
    DEF OtherPublishes, OtherLeaves, GraceExpires, HoldsWhileConnected, TypeOK
  <2> QED BY <1>t, <2>1 DEF Roles, HoldsWhileConnected
<1>13. CASE UNCHANGED vars
  BY <1>13, LivingHold DEF vars, Live
<1> QED
  BY <1>2, <1>3, <1>4, <1>5, <1>6, <1>7, <1>8, <1>9, <1>10, <1>11, <1>12, <1>13
  DEF Next

\* However reconnections overlap, a session that is registered for the path
\* holds it through a connection, and the path knows no session that is not.
THEOREM HoldIsConnected == Spec => []HoldsWhileConnected
<1>1. HoldsInv => HoldsWhileConnected
  BY DEF HoldsInv
<1> QED BY <1>1, HoldsInit, HoldsStep, PTL DEF Spec

(***************************************************************************)
(* What runs and what has ended.                                           *)
(***************************************************************************)

\* Nothing goes on in a process that is down.
Down == ~up => task = None /\ \A s \in Relays : ~isRunning[s]

ControlInv == BoundInv /\ Down /\ ClosedStaysClosed /\ RowOfTask /\ NeverIdle

\* Session s waits for an answer that may still come.
Connecting(s) ==
  \E k \in Clients : session[k] = s /\ awaits[k] # "nothing" /\ Open(awaitsOn[k])

LEMMA ControlInit == Init => ControlInv
<1> SUFFICES ASSUME Init PROVE ControlInv
  OBVIOUS
<1>1. BoundInv
  BY BoundInit
<1> QED
  BY <1>1
  DEF Init, ControlInv, Down, ClosedStaysClosed, RowOfTask, NeverIdle

\* Whoever asks for a reconnection, for a session that is not closed, leaves it
\* with a timer or ends it.
LEMMA ReconnectAsked ==
  ASSUME TypeOK, NEW s \in Relays, handleReconnect(s, publisher)
  PROVE  /\ isClosing[s] => timer'[s] = timer[s] /\ isRunning'[s] = isRunning[s]
         /\ ~isClosing[s] => timer'[s] \/ ~isRunning'[s]
         /\ isRunning'[s] => isRunning[s]
         /\ \A r \in Relays \ {s} : timer'[r] = timer[r] /\ isRunning'[r] = isRunning[r]
<1>1. timer'[s] = (timer[s] \/ (MayReconnect(s) /\ ~GivesUp(s, publisher)))
  BY DEF handleReconnect, TypeOK
<1>2. isRunning'[s] = (isRunning[s] /\ ~(MayReconnect(s) /\ GivesUp(s, publisher)))
  BY DEF handleReconnect, TypeOK
<1>3. MayReconnect(s) <=> ~isClosing[s] /\ ~timer[s]
  BY DEF MayReconnect
<1>4. \A r \in Relays \ {s} : timer'[r] = timer[r] /\ isRunning'[r] = isRunning[r]
  BY DEF handleReconnect, TypeOK
<1> QED BY <1>1, <1>2, <1>3, <1>4 DEF TypeOK

\* A step of one session that starts nothing: the others keep their calls, and
\* this one, if it runs still, has a reason.
LEMMA OneSession ==
  ASSUME ControlInv, NEW s \in Relays,
         UNCHANGED <<up, task, persisted, isClosing, rtmpClient, session>>,
         isRunning'[s] => isRunning[s],
         isClosing[s] => timer'[s] = timer[s],
         isRunning'[s] => isRegistered'[s] \/ timer'[s] \/ Connecting(s)',
         \A r \in Relays \ {s} :
           /\ isRunning'[r] = isRunning[r] /\ timer'[r] = timer[r]
           /\ isRegistered'[r] = isRegistered[r]
           /\ Connecting(r) => Connecting(r)',
         \A c \in Clients : Open(c)' => Open(c)
  PROVE  Down' /\ ClosedStaysClosed' /\ RowOfTask' /\ NeverIdle'
<1>1. Down' /\ RowOfTask'
  BY DEF ControlInv, Down, RowOfTask
<1>2. ClosedStaysClosed'
  <2>1. ASSUME NEW r \in Relays, isClosing'[r]
        PROVE  ~timer'[r] /\ ~isRunning'[r] /\ ~Open(rtmpClient[r])'
    <3>1. ~timer[r] /\ ~isRunning[r] /\ ~Open(rtmpClient[r])
      BY <2>1 DEF ControlInv, ClosedStaysClosed
    <3>2. ~Open(rtmpClient[r])'
      BY <3>1 DEF Open
    <3>3. CASE r = s
      BY <2>1, <3>1, <3>2, <3>3
    <3>4. CASE r # s
      BY <3>1, <3>2, <3>4
    <3> QED BY <3>3, <3>4
  <2> QED BY <2>1 DEF ClosedStaysClosed
<1>3. NeverIdle'
  <2>1. ASSUME NEW r \in Relays, isRunning'[r], r # s
        PROVE  isRegistered'[r] \/ timer'[r] \/ Connecting(r)'
    <3>1. isRegistered[r] \/ timer[r] \/ Connecting(r)
      BY <2>1 DEF ControlInv, NeverIdle, Connecting
    <3> QED BY <2>1, <3>1
  <2> QED BY <2>1 DEF NeverIdle, Connecting
<1> QED BY <1>1, <1>2, <1>3

\* Calls of other sessions wait for other clients.
LEMMA OthersConnect ==
  ASSUME BoundInv, NEW s \in Relays, NEW r \in Relays, r # s, Connecting(r),
         UNCHANGED session,
         \A k \in Clients : session[k] # s =>
           /\ socket'[k] = socket[k] /\ awaitsOn'[k] = awaitsOn[k]
           /\ awaits[k] # "nothing" => awaits'[k] # "nothing"
  PROVE  Connecting(r)'
<1>1. PICK k \in Clients : session[k] = r /\ awaits[k] # "nothing" /\ Open(awaitsOn[k])
  BY DEF Connecting
<1>2. awaitsOn[k] \in Clients /\ session[awaitsOn[k]] = r
  BY <1>1 DEF BoundInv, ClientsBound
<1> QED BY <1>1, <1>2 DEF Connecting, Open

\* What disconnect() does, seen from a client.
LEMMA DisconnectFacts ==
  ASSUME BoundInv, NEW s \in Relays, Disconnect(s), UNCHANGED <<rtmpClient, session, awaitsOn>>
  PROVE  /\ ~Open(rtmpClient[s])'
         /\ \A c \in Clients : Open(c)' => Open(c)
         /\ \A k \in Clients : session[k] # s =>
              socket'[k] = socket[k] /\ awaits'[k] = awaits[k]
         /\ Rejected(rtmpClient[s]) = {} => (Connecting(s) => Connecting(s)')
<1> USE DEF BoundInv
<1>1. \A c \in Clients : socket'[c] =
        IF c = rtmpClient[s] /\ Open(c) THEN "destroyed" ELSE socket[c]
  BY DEF Disconnect
<1>2. \A k \in Clients : awaits'[k] =
        IF k \in Rejected(rtmpClient[s]) THEN "nothing" ELSE awaits[k]
  BY DEF Disconnect
<1>3. ~Open(rtmpClient[s])' /\ \A c \in Clients : Open(c)' => Open(c)
  BY <1>1 DEF Open
<1>4. ASSUME NEW k \in Clients, session[k] # s
      PROVE  socket'[k] = socket[k] /\ awaits'[k] = awaits[k]
  <2>1. k # rtmpClient[s]
    BY <1>4 DEF ClientsBound
  <2>2. k \notin Rejected(rtmpClient[s])
    BY <1>4 DEF Rejected, ClientsBound
  <2> QED BY <1>1, <1>2, <2>1, <2>2
<1>5. ASSUME Rejected(rtmpClient[s]) = {}, Connecting(s) PROVE Connecting(s)'
  <2>1. PICK k \in Clients : session[k] = s /\ awaits[k] # "nothing" /\ Open(awaitsOn[k])
    BY <1>5 DEF Connecting
  <2>2. awaitsOn[k] # rtmpClient[s]
    BY <1>5, <2>1 DEF Rejected
  <2> QED BY <1>1, <1>2, <1>5, <2>1, <2>2 DEF Connecting, Open
<1> QED BY <1>3, <1>4, <1>5

LEMMA ControlStep == ControlInv /\ [Next]_vars => ControlInv'
<1> DEFINE StillThere == Down' /\ ClosedStaysClosed' /\ RowOfTask' /\ NeverIdle'
<1> SUFFICES ASSUME ControlInv, [Next]_vars PROVE StillThere
  BY BoundStep DEF ControlInv
<1> USE DEF taskVars, sessionVars, clientVars, streamVars
<1>b. BoundInv
  BY DEF ControlInv
<1>t. /\ TypeOK /\ ClientsBound /\ Unstarted /\ BoundInv'
      /\ Down /\ ClosedStaysClosed /\ RowOfTask /\ NeverIdle
  BY BoundStep DEF ControlInv, BoundInv
\* A new call.
<1>c. ASSUME NEW s \in Relays, NEW c \in Clients, Connects(s, c)
      PROVE  /\ Connecting(s)'
             /\ \A r \in Relays \ {s} : Connecting(r) => Connecting(r)'
             /\ \A r \in Relays \ {s} : ~Open(rtmpClient[r]) => ~Open(rtmpClient[r])'
  <2>1. \A d \in Clients : /\ session'[d] = IF d = c THEN s ELSE session[d]
                           /\ socket'[d] = IF d = c THEN "open" ELSE socket[d]
                           /\ awaits'[d] = IF d = c THEN "handshake" ELSE awaits[d]
                           /\ awaitsOn'[d] = IF d = c THEN c ELSE awaitsOn[d]
    BY <1>c, <1>t DEF Connects, TypeOK
  <2>2. socket[c] = "new" /\ session[c] = None
    BY <1>c, <1>t DEF Connects, ClientsBound
  <2>3. Connecting(s)'
    BY <2>1 DEF Connecting, Open
  <2>4. ASSUME NEW r \in Relays \ {s}, Connecting(r) PROVE Connecting(r)'
    <3>1. PICK k \in Clients : session[k] = r /\ awaits[k] # "nothing" /\ Open(awaitsOn[k])
      BY <2>4 DEF Connecting
    <3>2. k # c /\ awaitsOn[k] # c /\ awaitsOn[k] \in Clients
      BY <3>1, <2>2, RelayAssumption DEF Open
    <3> QED BY <2>1, <3>1, <3>2 DEF Connecting, Open
  <2>5. ASSUME NEW r \in Relays \ {s}, ~Open(rtmpClient[r])
        PROVE  ~Open(rtmpClient[r])'
    <3>1. rtmpClient'[r] = rtmpClient[r]
      BY <1>c, <1>t DEF Connects, TypeOK
    <3>2. rtmpClient[r] # c
      BY <2>2, RelayAssumption, <1>t DEF ClientsBound
    <3> QED BY <2>1, <2>5, <3>1, <3>2 DEF Open
  <2> QED BY <2>3, <2>4, <2>5
\* A session that is run, in a process that is up.
<1>1. ASSUME NEW s \in Relays, NEW c \in Clients, Runs(s, c), task = None, up',
             UNCHANGED <<isClosing, isRegistered, timer>>,
             \A r \in Relays : ~isRunning[r]
      PROVE  StillThere
  <2>1. /\ Connects(s, c) /\ rtmpClient[s] = None /\ task' = s /\ persisted'
        /\ \A r \in Relays : isRunning'[r] = (r = s)
    BY <1>1, <1>t DEF Runs, TypeOK
  <2>2. ~isClosing[s]
    BY <2>1, <1>t DEF Unstarted
  <2>3. Down' /\ RowOfTask'
    BY <1>1, <2>1, RelayAssumption DEF Down, RowOfTask
  <2>4. NeverIdle'
    <3>1. Connecting(s)'
      BY <1>c, <2>1
    <3>2. ASSUME NEW r \in Relays, isRunning'[r]
          PROVE  isRegistered'[r] \/ timer'[r] \/ Connecting(r)'
      BY <2>1, <3>1, <3>2
    <3> QED BY <3>2 DEF NeverIdle, Connecting
  <2>5. ClosedStaysClosed'
    BY <1>1, <1>c, <1>t, <2>1, <2>2 DEF ClosedStaysClosed
  <2> QED BY <2>3, <2>4, <2>5
<1>2. ASSUME NEW s \in Relays, NEW c \in Clients, addTask(s, c) PROVE StillThere
  <2>1. up /\ up' /\ task = None /\ Runs(s, c)
        /\ UNCHANGED <<isClosing, isRegistered, timer>>
    BY <1>2 DEF addTask
  <2>2. \A r \in Relays : ~isRunning[r]
    BY <2>1, <1>t, RelayAssumption DEF RowOfTask
  <2> QED BY <1>1, <2>1, <2>2
<1>3. CASE Boot
  <2>1. up' /\ task = None /\ (\A r \in Relays : ~isRunning[r])
        /\ UNCHANGED <<isClosing, isRegistered, timer>>
    BY <1>3, <1>t DEF Boot, Down
  <2>2. CASE persisted
    BY <1>1, <1>3, <2>1, <2>2 DEF Boot
  <2>3. CASE ~persisted
    BY <1>3, <1>t, <2>1, <2>3
    DEF Boot, Down, ClosedStaysClosed, RowOfTask, NeverIdle, Open
  <2> QED BY <2>2, <2>3
<1>4. ASSUME NEW s \in Relays, NEW c \in Clients, ReconnectFires(s, c)
      PROVE  StillThere
  <2>1. /\ Connects(s, c) /\ timer[s] /\ up
        /\ \A r \in Relays : timer'[r] = (timer[r] /\ r # s)
        /\ UNCHANGED <<up, task, persisted, isRunning, isClosing, isRegistered>>
    BY <1>4, <1>t DEF ReconnectFires, TypeOK
  <2>2. ~isClosing[s]
    BY <2>1, <1>t DEF ClosedStaysClosed
  <2>3. ClosedStaysClosed'
    BY <1>c, <1>t, <2>1, <2>2 DEF ClosedStaysClosed
  <2>4. NeverIdle'
    <3>1. ASSUME NEW r \in Relays, isRunning'[r]
          PROVE  isRegistered'[r] \/ timer'[r] \/ Connecting(r)'
      <4>1. isRegistered[r] \/ timer[r] \/ Connecting(r)
        BY <2>1, <3>1, <1>t DEF NeverIdle, Connecting
      <4> QED BY <1>c, <2>1, <4>1
    <3> QED BY <3>1 DEF NeverIdle, Connecting
  <2> QED BY <1>t, <2>1, <2>3, <2>4 DEF Down, RowOfTask
<1>5. ASSUME NEW s \in Relays, Silent(s) PROVE StillThere
  <2>1. /\ Disconnect(s)
        /\ UNCHANGED <<up, task, persisted, isClosing, isRegistered, rtmpClient,
                       session, awaitsOn>>
        /\ IF Rejected(rtmpClient[s]) # {} THEN handleReconnect(s, publisher)
           ELSE UNCHANGED <<timer, isRunning>>
        /\ Open(rtmpClient[s])
    BY <1>5 DEF Silent
  <2>2. ~isClosing[s]
    BY <2>1, <1>t DEF ClosedStaysClosed
  <2>3. /\ \A c \in Clients : Open(c)' => Open(c)
        /\ \A k \in Clients : session[k] # s =>
             socket'[k] = socket[k] /\ awaits'[k] = awaits[k]
        /\ Rejected(rtmpClient[s]) = {} => (Connecting(s) => Connecting(s)')
    BY <1>b, <2>1, DisconnectFacts
  <2>4. \A r \in Relays \ {s} : Connecting(r) => Connecting(r)'
    BY <1>b, <2>1, <2>3, OthersConnect
  <2>5. CASE Rejected(rtmpClient[s]) # {}
    <3>1. /\ timer'[s] \/ ~isRunning'[s]
          /\ isRunning'[s] => isRunning[s]
          /\ \A r \in Relays \ {s} : timer'[r] = timer[r] /\ isRunning'[r] = isRunning[r]
      BY <1>t, <2>1, <2>2, <2>5, ReconnectAsked
    <3> QED BY <2>1, <2>2, <2>3, <2>4, <3>1, OneSession
  <2>6. CASE Rejected(rtmpClient[s]) = {}
    <3>1. isRunning[s] => isRegistered[s] \/ timer[s] \/ Connecting(s)
      BY <1>t DEF NeverIdle, Connecting
    <3>2. UNCHANGED <<timer, isRunning>>
      BY <2>1, <2>6
    <3>3. isRunning'[s] => isRegistered'[s] \/ timer'[s] \/ Connecting(s)'
      BY <2>1, <2>3, <2>6, <3>1, <3>2
    <3> QED BY <2>1, <2>3, <2>4, <3>2, <3>3, OneSession
  <2> QED BY <2>5, <2>6
<1>6. ASSUME NEW k \in Clients, NextCommand(k) PROVE StillThere
  <2>0. PICK s \in Relays : s = session[k]
    BY <1>6, <1>t DEF NextCommand, ClientsBound
  <2>1. /\ s \in Relays
        /\ UNCHANGED <<up, task, persisted, isClosing, isRegistered, rtmpClient,
                       session, socket>>
    BY <1>6 DEF NextCommand
  <2>2. \A c \in Clients : Open(c)' => Open(c)
    BY <2>1 DEF Open
  <2>3. \A d \in Clients \ {k} : awaits'[d] = awaits[d] /\ awaitsOn'[d] = awaitsOn[d]
    BY <1>6, <1>t DEF NextCommand, TypeOK
  <2>4. \A r \in Relays \ {s} : Connecting(r) => Connecting(r)'
    BY <1>b, <2>0, <2>1, <2>3, OthersConnect
  <2>5. CASE Open(rtmpClient[s])
    <3>1. Connecting(s)'
      BY <1>6, <1>t, <2>0, <2>5 DEF NextCommand, Connecting, Open, TypeOK
    <3>2. UNCHANGED <<timer, isRunning>>
      BY <1>6, <2>0, <2>5 DEF NextCommand
    <3>3. \A r \in Relays :
            /\ isRunning'[r] = isRunning[r] /\ timer'[r] = timer[r]
            /\ isRegistered'[r] = isRegistered[r]
      BY <2>1, <3>2
    <3> QED BY <2>1, <2>2, <2>4, <3>1, <3>3, OneSession
  <2>6. CASE ~Open(rtmpClient[s])
    <3>1. handleReconnect(s, publisher)
      BY <1>6, <2>0, <2>6 DEF NextCommand
    <3>2. /\ isClosing[s] => timer'[s] = timer[s] /\ isRunning'[s] = isRunning[s]
          /\ ~isClosing[s] => timer'[s] \/ ~isRunning'[s]
          /\ isRunning'[s] => isRunning[s]
          /\ \A r \in Relays \ {s} : timer'[r] = timer[r] /\ isRunning'[r] = isRunning[r]
      BY <1>t, <2>1, <3>1, ReconnectAsked
    <3>3. isRunning'[s] => timer'[s]
      BY <1>t, <2>1, <3>2 DEF ClosedStaysClosed
    <3> QED BY <2>1, <2>2, <2>4, <3>2, <3>3, OneSession
  <2> QED BY <2>5, <2>6
<1>7. ASSUME NEW k \in Clients, Started(k) \/ Refused(k) PROVE StillThere
  <2> DEFINE s == session[k]
  <2>1. /\ s \in Relays
        /\ UNCHANGED <<up, task, persisted, isClosing, rtmpClient, session, socket,
                       awaitsOn>>
        /\ \A d \in Clients \ {k} : awaits'[d] = awaits[d]
    BY <1>7, <1>t DEF Started, Refused, ClientsBound, TypeOK
  <2>2. \A c \in Clients : Open(c)' => Open(c)
    BY <2>1 DEF Open
  <2>3. \A r \in Relays \ {s} : Connecting(r) => Connecting(r)'
    BY <1>b, <2>1, OthersConnect
  <2>4. CASE handleReconnect(s, publisher) /\ UNCHANGED isRegistered
    <3> HIDE DEF s
    <3>1. /\ isClosing[s] => timer'[s] = timer[s] /\ isRunning'[s] = isRunning[s]
          /\ ~isClosing[s] => timer'[s] \/ ~isRunning'[s]
          /\ isRunning'[s] => isRunning[s]
          /\ \A r \in Relays \ {s} : timer'[r] = timer[r] /\ isRunning'[r] = isRunning[r]
      BY <1>t, <2>1, <2>4, ReconnectAsked
    <3>2. isRunning'[s] => timer'[s]
      BY <1>t, <2>1, <3>1 DEF ClosedStaysClosed
    <3> QED BY <2>1, <2>2, <2>3, <2>4, <3>1, <3>2, OneSession
  <2>5. CASE Register(s) /\ UNCHANGED <<timer, isRunning>>
    <3>1. isRegistered'[s] /\ \A r \in Relays \ {s} : isRegistered'[r] = isRegistered[r]
      BY <1>t, <2>1, <2>5 DEF Register, TypeOK
    <3> HIDE DEF s
    <3> QED BY <2>1, <2>2, <2>3, <2>5, <3>1, OneSession
  <2>6. \/ handleReconnect(s, publisher) /\ UNCHANGED isRegistered
        \/ Register(s) /\ UNCHANGED <<timer, isRunning>>
    BY <1>7 DEF Started, Refused
  <2> QED BY <2>4, <2>5, <2>6
<1>8. ASSUME NEW c \in Clients, SocketCloses(c) \/ RemoteClose(c) PROVE StillThere
  <2> DEFINE s == session[c]
  <2>1. /\ s \in Relays
        /\ UNCHANGED <<up, task, persisted, isClosing, rtmpClient, session, awaitsOn>>
        /\ unregisterBroadcast(s) /\ handleReconnect(s, publisher)
    BY <1>8, <1>t
    DEF SocketCloses, RemoteClose, onConnectionClose, Open, ClientsBound, TypeOK
  <2>2. \A d \in Clients : Open(d)' => Open(d)
    BY <1>8, <1>t DEF SocketCloses, RemoteClose, Open, TypeOK
  <2>3. ASSUME NEW d \in Clients, session[d] # s
        PROVE  /\ socket'[d] = socket[d]
               /\ awaits[d] # "nothing" => awaits'[d] # "nothing"
    <3>1. d # c /\ d \notin Rejected(c)
      BY <2>3, <1>t DEF Rejected, ClientsBound
    <3> QED BY <1>8, <1>t, <3>1 DEF SocketCloses, RemoteClose, TypeOK
  <2>4. \A r \in Relays \ {s} : Connecting(r) => Connecting(r)'
    BY <1>b, <2>1, <2>3, OthersConnect
  <2> HIDE DEF s
  <2>5. /\ isClosing[s] => timer'[s] = timer[s] /\ isRunning'[s] = isRunning[s]
        /\ ~isClosing[s] => timer'[s] \/ ~isRunning'[s]
        /\ isRunning'[s] => isRunning[s]
        /\ \A r \in Relays \ {s} : timer'[r] = timer[r] /\ isRunning'[r] = isRunning[r]
    BY <1>t, <2>1, ReconnectAsked
  <2>6. isRunning'[s] => timer'[s]
    BY <1>t, <2>1, <2>5 DEF ClosedStaysClosed
  <2>7. \A r \in Relays \ {s} : isRegistered'[r] = isRegistered[r]
    BY <1>t, <2>1, OthersKept
  <2> QED BY <2>1, <2>2, <2>4, <2>5, <2>6, <2>7, OneSession
<1>9. CASE removeTask
  <2>1. PICK s \in Relays : s = task /\ close(s)
    BY <1>9 DEF removeTask
  <2>2. /\ up' = up /\ up /\ task' = None /\ ~persisted'
        /\ UNCHANGED <<rtmpClient, session, awaitsOn>>
    BY <1>9, <2>1 DEF removeTask, close, RowDropped
  <2>3. /\ \A r \in Relays : isClosing'[r] = (isClosing[r] \/ r = s)
        /\ \A r \in Relays : isRunning'[r] = (isRunning[r] /\ r # s)
        /\ \A r \in Relays : timer'[r] = (timer[r] /\ r # s)
    BY <2>1, <1>t DEF close, TimerCleared, TypeOK
  <2>4. ~Open(rtmpClient[s])' /\ \A c \in Clients : Open(c)' => Open(c)
    BY <1>b, <2>1, <2>2, DisconnectFacts DEF close
  <2>5. \A r \in Relays : ~isRunning'[r]
    BY <2>1, <2>2, <2>3, <1>t DEF RowOfTask
  <2>6. ClosedStaysClosed'
    <3>1. ASSUME NEW r \in Relays, isClosing'[r]
          PROVE  ~timer'[r] /\ ~Open(rtmpClient[r])'
      <4>1. CASE r = s
        BY <2>3, <2>4, <4>1
      <4>2. CASE r # s
        <5>1. ~timer[r] /\ ~Open(rtmpClient[r])
          BY <2>3, <3>1, <4>2, <1>t DEF ClosedStaysClosed
        <5>2. ~Open(rtmpClient[r])'
          BY <2>2, <2>4, <5>1 DEF Open
        <5> QED BY <2>3, <5>1, <5>2
      <4> QED BY <4>1, <4>2
    <3> QED BY <2>5, <3>1 DEF ClosedStaysClosed
  <2> QED BY <2>2, <2>5, <2>6 DEF Down, RowOfTask, NeverIdle
<1>10. CASE Stop
  <2>1. ~up' /\ task' = None /\ \A s \in Relays : ~isRunning'[s] /\ ~timer'[s]
    BY <1>10 DEF Stop
  <2>2. \A c \in Clients : ~Open(c)'
    BY <1>10 DEF Stop, Open
  <2> QED
    BY <2>1, <2>2, <1>t DEF Down, ClosedStaysClosed, RowOfTask, NeverIdle, Open
<1>11. CASE OtherPublishes \/ OtherLeaves \/ GraceExpires \/ UNCHANGED vars
  BY <1>11, <1>t
  DEF OtherPublishes, OtherLeaves, GraceExpires, vars, Down, ClosedStaysClosed,
      RowOfTask, NeverIdle, Open
<1> QED
  BY <1>2, <1>3, <1>4, <1>5, <1>6, <1>7, <1>8, <1>9, <1>10, <1>11 DEF Next

\* A running task is registered, connecting or waiting for its timer, in every
\* configuration: no callback that is late or comes twice leaves it idle.
THEOREM TaskNeverIdle == Spec => []NeverIdle
<1>1. ControlInv => NeverIdle
  BY DEF ControlInv
<1> QED BY <1>1, ControlInit, ControlStep, PTL DEF Spec

\* A closed session has no timer and does not reconnect.
THEOREM ClosedIsClosed == Spec => []ClosedStaysClosed
<1>1. ControlInv => ClosedStaysClosed
  BY DEF ControlInv
<1> QED BY <1>1, ControlInit, ControlStep, PTL DEF Spec

\* The row of a task lives as long as the task, over restarts.
THEOREM RowFollowsTask == Spec => []RowOfTask
<1>1. ControlInv => RowOfTask
  BY DEF ControlInv
<1> QED BY <1>1, ControlInit, ControlStep, PTL DEF Spec

\* A session lives as long as its task, and its end is final.
THEOREM LivesWithTask == Spec => []TaskLifetime
<1>1. ClosedStaysClosed /\ RowOfTask => TaskLifetime
  BY DEF TaskLifetime
<1> QED BY <1>1, ClosedIsClosed, RowFollowsTask, PTL

=============================================================================
