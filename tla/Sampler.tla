------------------------------ MODULE Sampler ------------------------------
(***************************************************************************)
(* The byte rates of streams and of the network: core/rate_sampler.js, on  *)
(* the counters of the sessions that publish and play.                     *)
(*                                                                         *)
(* Module Broadcast says how sessions get the slot of a path and lose it;  *)
(* here a path has a publisher or not, and a set of players.  A session    *)
(* counts what its socket brings before it comes to a path, too: an RTMP   *)
(* client its handshake and commands, a relay session, which comes back,   *)
(* all it has counted before.  A session of a client publishes or plays    *)
(* once.  Time is counted in ticks, Second of them a second.               *)
(***************************************************************************)
EXTENDS Integers, Sequences, FiniteSets, FiniteSetsExt

CONSTANTS
  Paths, Sessions,
  Relays,      \* the relay sessions
  NoOne,
  Window,      \* samples kept
  Interval,    \* ticks between two samples of the timer
  Second,      \* ticks of a second
  Sizes,       \* sizes of what comes at a time
  MaxBytes,    \* bound: bytes the network carries, in and out
  MaxCarried,  \* bound: bytes counted for a path, in and out
  MaxTicks     \* bound: ticks

ASSUME SamplerAssumption ==
  /\ IsFiniteSet(Sessions) /\ Relays \subseteq Sessions /\ NoOne \notin Sessions
  /\ Sizes \subseteq Nat
  /\ Window \in Nat /\ Window >= 2
  /\ Interval \in Nat \ {0} /\ Second \in Nat \ {0}

VARIABLES
  now,          \* the clock, which does not go back
  role,         \* of each session: "new", "publisher", "player" or "gone"
  publisher, subscribers,
  inBytes, outBytes,
  networkStats,
  networkSamples,
  samples,      \* of the streams that the sampler knows
  lastSample,
  due,          \* the next tick of the timer
  \* The rest only records what happened, for the properties.
  carried       \* bytes that came in and went out on each path, and those its
                \* sessions had counted when they came to it

samplerVars == <<now, role, publisher, subscribers, inBytes, outBytes, networkStats,
                 networkSamples, samples, lastSample, due, carried>>

sessionVars == <<role, publisher, subscribers>>
windowVars == <<networkSamples, samples, lastSample, due>>

Nothing == [in |-> 0, out |-> 0]

Listed(p) == publisher[p] # NoOne \/ subscribers[p] # {}

-----------------------------------------------------------------------------
\* Slip: a counter that has decreased goes on in the same window.
PushAnySample(old, sample) ==
  LET all == Append(old, sample)
  IN  IF Len(all) > Window THEN Tail(all) ELSE all

\* _pushSample: a counter that has decreased begins a new window.
PushSample(old, sample) ==
  LET last   == old[Len(old)].bytes
      rebase == old # <<>> /\ (sample.bytes.in < last.in \/ sample.bytes.out < last.out)
      all    == IF rebase THEN <<sample>> ELSE Append(old, sample)
  IN  IF Len(all) > Window THEN Tail(all) ELSE all

Rounded(a, b) == (2 * a + b) \div (2 * b)

\* _ratesOf: bytes a second, over the whole window.
RatesOf(window) ==
  IF Len(window) < 2 \/ window[Len(window)].at <= window[1].at THEN Nothing
  ELSE LET first == window[1]
           last  == window[Len(window)]
           ticks == last.at - first.at
       IN  [in  |-> Rounded((last.bytes.in - first.bytes.in) * Second, ticks),
            out |-> Rounded((last.bytes.out - first.bytes.out) * Second, ticks)]

\* What a stream has in its counters: those of the sessions it has now.
StreamBytes(p) ==
  [in  |-> IF publisher[p] = NoOne THEN 0 ELSE inBytes[publisher[p]],
   out |-> MapThenSumSet(LAMBDA s : outBytes[s], subscribers[p])]

\* A sample, with what had been carried by then.
SampleOf(bytes, total) == [at |-> now, bytes |-> bytes, carried |-> total]

\* sample(): streams that are gone lose their windows.
Sample ==
  /\ lastSample' = now
  /\ networkSamples' =
       PushSample(networkSamples, SampleOf(networkStats, networkStats))
  /\ samples' = [p \in Paths |->
                   IF Listed(p)
                     THEN PushSample(samples[p], SampleOf(StreamBytes(p), carried[p]))
                     ELSE <<>>]
  /\ UNCHANGED <<now, sessionVars, inBytes, outBytes, networkStats, carried>>

\* The interval timer, on time or late.
TimerSample == now >= due /\ due' = now + Interval /\ Sample

\* Slip: every read takes a sample.
AnyTime == now > lastSample

\* _ensureFresh: the last sample is an interval old.
Stale == now - lastSample >= Interval

\* getNetworkRates and getStreamRates.
ReadSample == Stale /\ Sample /\ UNCHANGED due

Tick ==
  /\ now < MaxTicks
  /\ now' = now + 1
  /\ UNCHANGED <<sessionVars, inBytes, outBytes, networkStats, windowVars, carried>>

-----------------------------------------------------------------------------
\* The bound on what the network carries.
Room(n) == networkStats.in + networkStats.out + n <= MaxBytes

Idle == UNCHANGED <<now, networkStats, windowVars>>

\* postPublish in a free slot, with what the session has counted by then.
Publish(s, p) ==
  /\ role[s] = "new" /\ publisher[p] = NoOne
  /\ carried[p].in + inBytes[s] <= MaxCarried
  /\ role' = [role EXCEPT ![s] = "publisher"]
  /\ publisher' = [publisher EXCEPT ![p] = s]
  /\ carried' = [carried EXCEPT ![p].in = @ + inBytes[s]]
  /\ UNCHANGED <<subscribers, inBytes, outBytes>> /\ Idle

\* A relay session may come back.
After(s) == IF s \in Relays THEN "new" ELSE "gone"

\* The counters of a session that is gone go with it.
Kept(count, s) == IF After(s) = "gone" THEN [count EXCEPT ![s] = 0] ELSE count

\* _resumePublish: the new session takes over the counters of the old one, and
\* loses its own.
ResumePublish(s, p) ==
  /\ role[s] = "new" /\ publisher[p] # NoOne
  /\ LET prev == publisher[p]
     IN  /\ role' = [role EXCEPT ![s] = "publisher", ![prev] = After(prev)]
         /\ inBytes' = [Kept(inBytes, prev) EXCEPT ![s] = inBytes[prev]]
         /\ outBytes' = [Kept(outBytes, prev) EXCEPT ![s] = outBytes[prev]]
  /\ publisher' = [publisher EXCEPT ![p] = s]
  /\ UNCHANGED <<subscribers, carried>> /\ Idle

\* _finishPublish, when the grace window of a publisher that left is over.
FinishPublish(p) ==
  /\ publisher[p] # NoOne
  /\ role' = [role EXCEPT ![publisher[p]] = After(publisher[p])]
  /\ publisher' = [publisher EXCEPT ![p] = NoOne]
  /\ inBytes' = Kept(inBytes, publisher[p])
  /\ outBytes' = Kept(outBytes, publisher[p])
  /\ UNCHANGED <<subscribers, carried>> /\ Idle

PostPlay(s, p) ==
  /\ role[s] = "new"
  /\ carried[p].out + outBytes[s] <= MaxCarried
  /\ role' = [role EXCEPT ![s] = "player"]
  /\ subscribers' = [subscribers EXCEPT ![p] = @ \cup {s}]
  /\ carried' = [carried EXCEPT ![p].out = @ + outBytes[s]]
  /\ UNCHANGED <<publisher, inBytes, outBytes>> /\ Idle

DonePlay(s, p) ==
  /\ s \in subscribers[p]
  /\ role' = [role EXCEPT ![s] = After(s)]
  /\ subscribers' = [subscribers EXCEPT ![p] = @ \ {s}]
  /\ inBytes' = Kept(inBytes, s)
  /\ outBytes' = Kept(outBytes, s)
  /\ UNCHANGED <<publisher, carried>> /\ Idle

\* A session counts all its socket brings, whether it publishes, plays or has
\* done neither so far, and the network with it.
Receive(s, n) ==
  /\ role[s] # "gone" /\ Room(n)
  /\ inBytes' = [inBytes EXCEPT ![s] = @ + n]
  /\ networkStats' = [networkStats EXCEPT !.in = @ + n]
  /\ carried' = [p \in Paths |->
                   IF publisher[p] = s THEN [carried[p] EXCEPT !.in = @ + n]
                   ELSE carried[p]]
  /\ UNCHANGED <<now, sessionVars, outBytes, windowVars>>

SendBuffer(s, p, n) ==
  /\ s \in subscribers[p] /\ Room(n)
  /\ outBytes' = [outBytes EXCEPT ![s] = @ + n]
  /\ networkStats' = [networkStats EXCEPT !.out = @ + n]
  /\ carried' = [carried EXCEPT ![p].out = @ + n]
  /\ UNCHANGED <<now, sessionVars, inBytes, windowVars>>

-----------------------------------------------------------------------------
\* The constructor of the server starts the timer with a first sample.
SamplerInit ==
  /\ now = 0
  /\ role = [s \in Sessions |-> "new"]
  /\ publisher = [p \in Paths |-> NoOne]
  /\ subscribers = [p \in Paths |-> {}]
  /\ inBytes = [s \in Sessions |-> 0] /\ outBytes = [s \in Sessions |-> 0]
  /\ networkStats = Nothing
  /\ networkSamples = <<SampleOf(Nothing, Nothing)>>
  /\ samples = [p \in Paths |-> <<>>]
  /\ lastSample = 0 /\ due = Interval
  /\ carried = [p \in Paths |-> Nothing]

SamplerNext ==
  \/ Tick \/ TimerSample \/ ReadSample
  \/ \E s \in Sessions, n \in Sizes : Receive(s, n)
  \/ \E p \in Paths :
       \/ FinishPublish(p)
       \/ \E s \in Sessions :
            \/ Publish(s, p) \/ ResumePublish(s, p) \/ PostPlay(s, p) \/ DonePlay(s, p)
            \/ \E n \in Sizes : SendBuffer(s, p, n)

SamplerSpec == SamplerInit /\ [][SamplerNext]_samplerVars

-----------------------------------------------------------------------------
ByteCounts == [in : Nat, out : Nat]
SampleType == [at : Nat, bytes : ByteCounts, carried : ByteCounts]

SamplerTypeOK ==
  /\ now \in Nat /\ lastSample \in 0..now /\ due \in Nat
  /\ role \in [Sessions -> {"new", "publisher", "player", "gone"}]
  /\ publisher \in [Paths -> Sessions \cup {NoOne}]
  /\ subscribers \in [Paths -> SUBSET Sessions]
  /\ inBytes \in [Sessions -> Nat] /\ outBytes \in [Sessions -> Nat]
  /\ networkStats \in ByteCounts /\ carried \in [Paths -> ByteCounts]
  /\ networkSamples \in Seq(SampleType) /\ samples \in [Paths -> Seq(SampleType)]

\* A window and the rates of it, half a byte aside for rounding: they are not
\* negative and not more than what was carried in the ticks of the window, by
\* sessions that have gone since included.
AtMostCarried(w) ==
  Len(w) >= 2 =>
    LET ticks == w[Len(w)].at - w[1].at
        Shows(rate, bytes) ==
          rate >= 0 /\ 2 * rate * ticks <= 2 * bytes * Second + ticks
    IN  /\ Shows(RatesOf(w).in, w[Len(w)].carried.in - w[1].carried.in)
        /\ Shows(RatesOf(w).out, w[Len(w)].carried.out - w[1].carried.out)

\* Sessions come and go, resume and are replaced, timers are late: no stream
\* shows more than what came and went on it in the ticks of the window and what
\* the sessions that came to it in those ticks had counted by then, each once.
RatesAreCarried ==
  /\ AtMostCarried(networkSamples)
  /\ \A p \in Paths : AtMostCarried(samples[p])

\* The timer and the readers together do not crowd the window: of three samples
\* in a row the last is an interval after the first.
SamplesAreSpread ==
  \A w \in {samples[p] : p \in Paths} \cup {networkSamples} :
    \A i \in 3..Len(w) : w[i].at - w[i - 2].at >= Interval
=============================================================================
