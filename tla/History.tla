------------------------------ MODULE History ------------------------------
(***************************************************************************)
(* The publish history: server/history_server.js and                       *)
(* api/handlers/history.js on top of the collection "stream_history", with *)
(* the publishes whose ends it listens to, the start and the end of the    *)
(* process, and a client that walks through the pages.                     *)
(*                                                                         *)
(* A row has the id of the session that ended the publish.  Sessions of    *)
(* clients are made anew for each connection; a relay pull keeps its       *)
(* session over all its connections.  A path is the set of the terms it    *)
(* contains (see Query).                                                   *)
(***************************************************************************)
EXTENDS Collection

CONSTANTS
  Relays,     \* sessions of relay pulls; the ids of all sessions are Ids
  PathOf,     \* the stream path of a session
  AddressOf,  \* its ip
  None,
  Requests,   \* queries of the API
  PageSizes,
  Walks,      \* the query and the size of the pages of a walk
  MaxTime,    \* bound: sessions that begin a publish
  MaxRuns     \* bound: processes, and connections of a relay session

Paths == {PathOf[s] : s \in Ids}
Addresses == {AddressOf[s] : s \in Ids}

\* Paths and addresses are texts, whatever texts are.
ASSUME HistoryAssumption ==
  /\ Relays \subseteq Ids /\ None \notin Ids
  /\ {None, Null, Missing} \cap (Nat \cup Paths \cup Addresses) = {}
  /\ MaxTime \in Nat /\ MaxRuns \in Nat
  /\ Docs = [startTime : 1..MaxTime, streamPath : Paths, ip : Addresses]
  /\ \A request \in Requests : {request.start, request.end} \subseteq Nat \cup {None}
  /\ PageSizes \subseteq Nat \ {0}
  /\ \A of \in Walks : of.request \in Requests /\ of.size \in Nat \ {0}

VARIABLES
  running,    \* the process runs
  listening,  \* the history server listens to donePublish
  slot,       \* the publisher of each path, and whether it is disconnected
  createTime, \* of the sessions that have published
  walk,       \* a client of the API that reads page after page
  \* The rest only records what happened, for the properties and the bounds.
  time,       \* the start of the last publish
  runs,       \* processes so far
  ended,      \* publishes of each session that ended while the server listened
  recorded    \* rows inserted for it

collectionVars == vars
historyVars == <<running, listening, slot, createTime, walk, time, runs, ended,
                 recorded>>
allVars == <<collectionVars, historyVars>>

Free == [by |-> None, grace |-> FALSE]
Gone == 0   \* the session of a process that has ended

-----------------------------------------------------------------------------
\* The filter that listHistory builds from a query that it does not refuse, one
\* clause a parameter.
Asked(request, name, clause) == IF request[name] = None THEN {} ELSE {clause}

FilterOf(request) ==
  UNION {
    Asked(request, "start",
          [op |-> "$gte", field |-> "startTime", operand |-> request.start]),
    Asked(request, "end",
          [op |-> "$lte", field |-> "startTime", operand |-> request.end]),
    Asked(request, "streamPath",
          [op |-> "$eq", field |-> "streamPath", operand |-> request.streamPath]),
    Asked(request, "ip",
          [op |-> "$eq", field |-> "ip", operand |-> request.ip]),
    Asked(request, "search",
          [op |-> "$or", filters |->
             {{[op |-> "$contains", field |-> f, operand |-> request.search]} :
                f \in {"streamPath", "ip"}}])}

NewestFirst == <<<<"startTime", -1>>>>

\* The sort is stable: documents that tie keep the order of the collection.
Precedes(order, x, y) ==
  \/ SortsBefore(order, x.doc, y.doc)
  \/ Tied(order, x.doc, y.doc) /\ x.at < y.at

Sorted(entries, order) ==
  LET place == [e \in entries |->
                  1 + Cardinality({x \in entries : Precedes(order, x, e)})]
  IN  [k \in 1..Cardinality(entries) |-> CHOOSE e \in entries : place[e] = k]

Smaller(a, b) == IF a < b THEN a ELSE b

\* Slip: the limit is taken for the end of the slice.
FindUpTo(filter, order, skip, limit) ==
  LET results == Sorted(Matching(docs, filter), order)
  IN  SubSeq(results, skip + 1, Smaller(limit, Len(results)))

\* find() with its options.
Find(filter, order, skip, limit) ==
  LET results == Sorted(Matching(docs, filter), order)
  IN  SubSeq(results, skip + 1, Smaller(skip + limit, Len(results)))

Count(filter) == Cardinality(Matching(docs, filter))

\* The items of a page of listHistory.
Page(request, page, size) ==
  Find(FilterOf(request), NewestFirst, (page - 1) * size, size)

-----------------------------------------------------------------------------
NoWalk == [page |-> 0, of |-> None, seen |-> {}, there |-> {},
           shrunk |-> FALSE, over |-> FALSE]

\* What a step of the collection means to a walk: which of the documents that it
\* began with are still there, and whether any has gone.
Watched ==
  walk' = IF walk.page = 0 THEN walk
          ELSE [walk EXCEPT !.there  = @ \cap IdsOf(docs'),
                            !.shrunk = @ \/ ~(IdsOf(docs) \subseteq IdsOf(docs'))]

\* Steps of the store that the history takes no part in.
Unwatched == Watched /\ UNCHANGED <<running, listening, slot, createTime, time, runs,
                                    ended, recorded>>

-----------------------------------------------------------------------------
\* The servers for RTMP and HTTP run before the store is open.
Start ==
  /\ ~running /\ runs < MaxRuns
  /\ running' = TRUE
  /\ runs' = runs + 1
  /\ UNCHANGED <<collectionVars, listening, slot, createTime, walk, time, ended,
                 recorded>>

\* run() goes on at once when open() has resolved.
Ready ==
  /\ running
  /\ Open
  /\ listening' = TRUE
  /\ Watched
  /\ UNCHANGED <<running, slot, createTime, time, runs, ended, recorded>>

\* Slip: the session of a client publishes again under its old id.
BeginsAgain(s) ==
  IF createTime[s] = None
    THEN /\ time < MaxTime
         /\ time' = time + 1
         /\ createTime' = [createTime EXCEPT ![s] = time + 1]
    ELSE /\ createTime[s] # Gone
         /\ UNCHANGED <<time, createTime>>

\* What a client's session has before it publishes; a relay session is given
\* its start by run(), once.
Begins(s) ==
  IF createTime[s] = None
    THEN /\ time < MaxTime
         /\ time' = time + 1
         /\ createTime' = [createTime EXCEPT ![s] = time + 1]
    ELSE /\ s \in Relays /\ createTime[s] # Gone
         /\ UNCHANGED <<time, createTime>>

Publish(s) ==
  /\ running
  /\ slot[PathOf[s]] = Free
  /\ Begins(s)
  /\ ended[s] < MaxRuns
  /\ slot' = [slot EXCEPT ![PathOf[s]] = [by |-> s, grace |-> FALSE]]
  /\ UNCHANGED <<collectionVars, running, listening, walk, runs, ended, recorded>>

\* donePublish: the slot is kept for the grace window.
Disconnect(path) ==
  /\ slot[path].by # None /\ ~slot[path].grace
  /\ slot' = [slot EXCEPT ![path].grace = TRUE]
  /\ UNCHANGED <<collectionVars, running, listening, createTime, walk, time, runs,
                 ended, recorded>>

\* _resumePublish: a new session of the client continues the publish, or the
\* relay session its own.
Resume(path, s) ==
  /\ slot[path].grace
  /\ PathOf[s] = path /\ AddressOf[s] = AddressOf[slot[path].by]
  /\ s = slot[path].by => s \in Relays
  /\ s # slot[path].by => createTime[s] = None
  /\ createTime' = [createTime EXCEPT ![s] = createTime[slot[path].by]]
  /\ slot' = [slot EXCEPT ![path] = [by |-> s, grace |-> FALSE]]
  /\ UNCHANGED <<collectionVars, running, listening, walk, time, runs, ended,
                 recorded>>

RowOf(s) ==
  [startTime |-> createTime[s], streamPath |-> PathOf[s], ip |-> AddressOf[s]]

\* _finishPublish with its listener, which catches the exception of insert().
Finish(path) ==
  /\ slot[path].grace
  /\ slot' = [slot EXCEPT ![path] = Free]
  /\ LET s == slot[path].by
     IN  IF ~listening
           THEN UNCHANGED <<collectionVars, ended, recorded>>
           ELSE /\ ended' = [ended EXCEPT ![s] = @ + 1]
                /\ \/ /\ Insert(s, RowOf(s))
                      /\ recorded' = [recorded EXCEPT ![s] = @ + 1]
                   \/ Has(s) /\ UNCHANGED <<collectionVars, recorded>>
  /\ Watched
  /\ UNCHANGED <<running, listening, createTime, time, runs>>

\* deleteHistory, with and without a path.
DeletePath(path) ==
  DeleteMany({[op |-> "$eq", field |-> "streamPath", operand |-> path]})
    /\ Unwatched

DeleteAll == Clear /\ Unwatched

Flushes == (BeginFlush \/ \E p \in Partitions : Written(p)) /\ Unwatched

\* stop() or a crash.  Publishes that go on, or whose grace window is open, are
\* not finished: their timers do not keep the process.
Ends ==
  /\ running
  /\ running' = FALSE /\ listening' = FALSE
  /\ slot' = [p \in Paths |-> Free]
  /\ IF opened THEN Close ELSE UNCHANGED collectionVars
  /\ walk' = NoWalk
  /\ createTime' = [s \in Ids |-> IF createTime[s] = None THEN None ELSE Gone]
  /\ UNCHANGED <<time, runs, ended, recorded>>

\* A client asks for one page after the other until it has as many as the count
\* that came with the last.
BeginWalk(of) ==
  /\ opened /\ walk.page = 0
  /\ walk' = [NoWalk EXCEPT !.page = 1, !.of = of,
                            !.there = IdsOf(Matching(docs, FilterOf(of.request)))]
  /\ UNCHANGED <<collectionVars, running, listening, slot, createTime, time, runs,
                 ended, recorded>>

ReadPage ==
  /\ opened /\ walk.page > 0 /\ ~walk.over
  /\ LET items == Page(walk.of.request, walk.page, walk.of.size)
     IN  walk' = [walk EXCEPT !.seen = @ \cup {items[k].id : k \in DOMAIN items},
                              !.page = @ + 1,
                              !.over = walk.page * walk.of.size
                                         >= Count(FilterOf(walk.of.request))]
  /\ UNCHANGED <<collectionVars, running, listening, slot, createTime, time, runs,
                 ended, recorded>>

-----------------------------------------------------------------------------
HistoryInit ==
  /\ Init
  /\ running = FALSE /\ listening = FALSE
  /\ slot = [p \in Paths |-> Free]
  /\ createTime = [s \in Ids |-> None]
  /\ walk = NoWalk
  /\ time = 0 /\ runs = 0
  /\ ended = [s \in Ids |-> 0] /\ recorded = [s \in Ids |-> 0]

HistoryNext ==
  \/ Start \/ Ready \/ Ends
  \/ \E s \in Ids : Publish(s)
  \/ \E path \in Paths :
       \/ Disconnect(path) \/ Finish(path) \/ DeletePath(path)
       \/ \E s \in Ids : Resume(path, s)
  \/ DeleteAll
  \/ Flushes
  \/ \E of \in Walks : BeginWalk(of)
  \/ ReadPage

HistorySpec == HistoryInit /\ [][HistoryNext]_allVars

-----------------------------------------------------------------------------
WalkRecord ==
  [page : Nat, of : Walks \cup {None}, seen : SUBSET Ids, there : SUBSET Ids,
   shrunk : BOOLEAN, over : BOOLEAN]

\* The types of the history's own variables.
HistoryTypeOK ==
  /\ running \in BOOLEAN /\ listening \in BOOLEAN
  /\ slot \in [Paths -> [by : Ids \cup {None}, grace : BOOLEAN]]
  /\ createTime \in [Ids -> 0..MaxTime \cup {None}]
  /\ walk \in WalkRecord
  /\ time \in 0..MaxTime /\ runs \in 0..MaxRuns
  /\ ended \in [Ids -> Nat] /\ recorded \in [Ids -> Nat]

\* What a query asks for, in words of its own.
Wanted(row, request) ==
  /\ request.start # None => request.start <= row.startTime
  /\ request.end # None => row.startTime <= request.end
  /\ request.streamPath # None => row.streamPath = request.streamPath
  /\ request.ip # None => row.ip = request.ip
  /\ request.search # None => request.search \in row.streamPath \cup row.ip

\* Whatever the query and the size of a page, each place of a page has a row
\* that no more newer ones precede than there are places before it, and no fewer
\* but for rows of the same time; the pages hold every row that is asked for, and
\* as many places as there are rows, which is the count that comes with them.
PagesCover ==
  opened => \A request \in Requests, size \in PageSizes :
    LET rows     == {e \in docs : Wanted(e.doc, request)}
        n        == Cardinality(rows)
        pages    == 1..(1 + n \div size)
        Newer(e)   == {x \in rows : x.doc.startTime > e.doc.startTime}
        Earlier(e) == {x \in rows : x.doc.startTime < e.doc.startTime}
    IN  /\ Count(FilterOf(request)) = n
        /\ \A k \in pages :
             LET before == (k - 1) * size
                 items  == Page(request, k, size)
             IN  /\ Len(items) = Smaller(size, n - before)
                 /\ \A i \in DOMAIN items :
                      /\ Cardinality(Newer(items[i])) < before + i
                      /\ Cardinality(Earlier(items[i])) <= n - (before + i)
        /\ UNION {Ranged(Page(request, k, size)) : k \in pages} = rows

\* A client that walks through the pages while publishes end sees every row that
\* was there all the time, unless a row was deleted or made room meanwhile.
WalkSeesAll == walk.over /\ ~walk.shrunk => walk.there \subseteq walk.seen

\* Both of them: a client that turns the pages misses nothing.
PagesMissNothing == PagesCover /\ WalkSeesAll

\* The publish of a client that ends while the history server listens is
\* recorded, over as many connections as it had.
ClientsRecorded == \A s \in Ids \ Relays : recorded[s] = ended[s]

\* server/history_server.js:16 says that relay pulls are recorded too: each of
\* their publishes that ends has a row.  It has not: a pull keeps its session,
\* whose id has a row since its first publish ended.
AllRecorded == recorded = ended

\* docs/api.md:485: the history is capped at store.maxHistory entries.  After a
\* restart it is not: the collection was loaded without options.
HistoryIsCapped == opened => Cardinality(docs) <= Cap
=============================================================================
