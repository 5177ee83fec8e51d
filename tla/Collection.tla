----------------------------- MODULE Collection -----------------------------
(***************************************************************************)
(* One collection of the document store: store/collection.js with the      *)
(* marks, the snapshots and the loading of store/lightweight_store.js.     *)
(*                                                                         *)
(* A collection is a JavaScript Map: documents by id, in the order in      *)
(* which their ids were inserted.  It is a set of entries here, and the    *)
(* stamp of an entry is its place in that order.  The files hold the       *)
(* entries of one partition each.  Module Store says when and in which     *)
(* steps a file is written; here a write succeeds or fails as a whole, and *)
(* mutations go on meanwhile.                                              *)
(***************************************************************************)
EXTENDS Query, Sequences

CONSTANTS
  Ids,
  Docs,          \* documents, without their ids
  Changes,       \* partial documents, for update()
  Filters,       \* filters of deleteMany()
  Partitions,
  PartitionOf,   \* partitionIndexForId
  Cap,           \* maxDocs
  MaxBatch,      \* bound: documents of one insertMany()
  MaxOps         \* bound: calls that change the collection

ASSUME CollectionAssumption ==
  /\ IsFiniteSet(Ids)
  /\ PartitionOf \in [Ids -> Partitions]
  /\ Cap \in Nat \ {0}
  /\ MaxBatch \in Nat /\ MaxOps \in Nat

VARIABLES
  opened,    \* the store is open
  docs,      \* the entries in memory
  next,      \* the stamp of the last one inserted
  maxDocs,   \* of the collection object
  dirtyPartitions,
  marked,    \* _dirty of the store, for this collection
  writing,   \* the partitions a flush is writing
  snapshot,  \* what it is writing to them
  file,      \* the entries of each partition on disk
  \* The rest only records what happened, for the properties and the bounds.
  unmarked,  \* documents that an insertMany() which threw has left behind
  untrimmed, \* nothing has trimmed the collection since
  ops        \* calls so far

vars == <<opened, docs, next, maxDocs, dirtyPartitions, marked, writing, snapshot,
          file, unmarked, untrimmed, ops>>

Infinity == -1

Entries == [id : Ids, at : Nat, doc : Docs]

IdsOf(entries) == {e.id : e \in entries}

Has(id) == id \in IdsOf(docs)

Part(entries, p) == {e \in entries : PartitionOf[e.id] = p}

Ranged(ids) == {ids[n] : n \in DOMAIN ids}

PartitionsOf(ids) == {PartitionOf[id] : id \in ids}

-----------------------------------------------------------------------------
\* New ids come behind all others, in the order of the call.
Brought(ids, doc) ==
  {[id |-> ids[n], at |-> next + n, doc |-> doc] : n \in DOMAIN ids}

\* Map.set of a known id leaves its place alone.
Replaced(entries, id, doc) ==
  {IF e.id = id THEN [e EXCEPT !.doc = doc] ELSE e : e \in entries}

Excess(entries) ==
  IF maxDocs = Infinity \/ Cardinality(entries) <= maxDocs
    THEN 0 ELSE Cardinality(entries) - maxDocs

Older(entries, e) == {x \in entries : x.at < e.at}

\* Slip: one document too many stays.
EvictedBefore(entries) ==
  {e \in entries : Cardinality(Older(entries, e)) + 1 < Excess(entries)}

\* Slip: the newest documents go.
EvictedNewest(entries) ==
  {e \in entries :
     Cardinality({x \in entries : x.at > e.at}) < Excess(entries)}

\* _trim: as many of the oldest as there are too many.
Evicted(entries) ==
  {e \in entries : Cardinality(Older(entries, e)) < Excess(entries)}

-----------------------------------------------------------------------------
\* Slip: the partitions of evicted documents are not marked.
MarkDirtyOnly(ids, evicted) ==
  /\ dirtyPartitions' = dirtyPartitions \cup PartitionsOf(ids)
  /\ marked' = IF ids = {} THEN marked ELSE marked \cup dirtyPartitions'

\* _markDirty and _onCollectionDirty: the store takes over every mark of the
\* collection, those that _trim has set included.
MarkDirty(ids, evicted) ==
  /\ dirtyPartitions' =
       dirtyPartitions \cup PartitionsOf(ids) \cup PartitionsOf(evicted)
  /\ marked' = IF ids = {} THEN marked ELSE marked \cup dirtyPartitions'

Call == opened /\ ops < MaxOps /\ ops' = ops + 1

\* insert() and insertMany() of ids that are new.
InsertAll(ids, doc) ==
  LET entries == docs \cup Brought(ids, doc)
  IN  /\ docs' = entries \ Evicted(entries)
      /\ next' = next + Len(ids)
      /\ MarkDirty(Ranged(ids), IdsOf(Evicted(entries)))
      /\ untrimmed' = FALSE
      /\ UNCHANGED <<opened, maxDocs, writing, snapshot, file, unmarked>>

Insert(id, doc) == Call /\ ~Has(id) /\ InsertAll(<<id>>, doc)

Replace(id, doc) ==
  LET entries == Replaced(docs, id, doc)
  IN  /\ docs' = entries \ Evicted(entries)
      /\ MarkDirty({id}, IdsOf(Evicted(entries)))
      /\ untrimmed' = FALSE
      /\ UNCHANGED <<opened, next, maxDocs, writing, snapshot, file, unmarked>>

Set(id, doc) ==
  Call /\ IF Has(id) THEN Replace(id, doc) ELSE InsertAll(<<id>>, doc)

\* The places of a batch with an id that is known by then.
Clashes(ids) ==
  {n \in DOMAIN ids : Has(ids[n]) \/ \E m \in 1..(n - 1) : ids[m] = ids[n]}

InsertMany(ids, doc) == Call /\ Clashes(ids) = {} /\ InsertAll(ids, doc)

\* A duplicate id throws: what was inserted before it stays, untrimmed and
\* unmarked.
InsertManyThrows(ids, doc) ==
  /\ Call
  /\ \E n \in Clashes(ids) :
       LET before == SubSeq(ids, 1, n - 1)
       IN  /\ \A m \in Clashes(ids) : n <= m
           /\ docs' = docs \cup Brought(before, doc)
           /\ next' = next + (n - 1)
           /\ unmarked' = unmarked \cup Ranged(before)
  /\ untrimmed' = TRUE
  /\ UNCHANGED <<opened, maxDocs, dirtyPartitions, marked, writing, snapshot,
                 file>>

\* The fields of changes replace those of the document.
Merged(doc, changes) ==
  [f \in DOMAIN doc |-> IF f \in DOMAIN changes THEN changes[f] ELSE doc[f]]

ASSUME ChangesAssumption ==
  \A changes \in Changes, doc \in Docs : Merged(doc, changes) \in Docs

Update(id, changes) ==
  /\ Call
  /\ \E e \in docs :
       /\ e.id = id
       /\ docs' = Replaced(docs, id, Merged(e.doc, changes))
  /\ MarkDirty({id}, {})
  /\ UNCHANGED <<opened, next, maxDocs, writing, snapshot, file, unmarked,
                 untrimmed>>

Matching(entries, filter) == {e \in entries : MatchesFilter(e.doc, filter)}

\* delete() is the removal of one id, deleteMany() of those that match.
Remove(gone) ==
  /\ Call
  /\ gone # {}
  /\ docs' = docs \ gone
  /\ MarkDirty(IdsOf(gone), {})
  /\ UNCHANGED <<opened, next, maxDocs, writing, snapshot, file, unmarked,
                 untrimmed>>

Delete(id) == Remove({e \in docs : e.id = id})

DeleteMany(filter) == Remove(Matching(docs, filter))

Clear ==
  /\ Call
  /\ docs # {}
  /\ docs' = {}
  /\ dirtyPartitions' = Partitions
  /\ marked' = Partitions
  /\ UNCHANGED <<opened, next, maxDocs, writing, snapshot, file, unmarked,
                 untrimmed>>

-----------------------------------------------------------------------------
\* _runFlushOnce: each marked partition with its documents.  Rounds come one
\* after another.
BeginFlush ==
  /\ opened
  /\ marked # {} /\ writing = {}
  /\ writing' = marked
  /\ marked' = {}
  /\ snapshot' = [p \in Partitions |->
                    IF p \in marked THEN Part(docs, p) ELSE snapshot[p]]
  /\ unmarked' = {id \in unmarked : PartitionOf[id] \notin marked}
  /\ UNCHANGED <<opened, docs, next, maxDocs, dirtyPartitions, file,
                 untrimmed, ops>>

Written(p) ==
  /\ opened
  /\ p \in writing
  /\ writing' = writing \ {p}
  /\ file' = [file EXCEPT ![p] = snapshot[p]]
  /\ dirtyPartitions' = dirtyPartitions \ {p}
  /\ UNCHANGED <<opened, docs, next, maxDocs, marked, snapshot, unmarked, untrimmed,
                 ops>>

\* What a failed write of a partition leaves marked.
Remarked(p) == marked \cup {p}

WriteFails(p) ==
  /\ opened
  /\ p \in writing
  /\ writing' = writing \ {p}
  /\ marked' = Remarked(p)
  /\ UNCHANGED <<opened, docs, next, maxDocs, dirtyPartitions, snapshot, file,
                 unmarked, untrimmed, ops>>

\* close() after a flush that left nothing, or a process that dies: a file that
\* is being written is the old one or the new one.
Close ==
  /\ opened
  /\ opened' = FALSE
  /\ \E done \in SUBSET writing :
       file' = [p \in Partitions |-> IF p \in done THEN snapshot[p] ELSE file[p]]
  /\ docs' = {} /\ next' = 0 /\ writing' = {} /\ marked' = {} /\ dirtyPartitions' = {}
  /\ snapshot' = [p \in Partitions |-> {}]
  /\ unmarked' = {} /\ untrimmed' = FALSE
  /\ UNCHANGED <<maxDocs, ops>>

\* The files are read side by side, so the order of documents of different
\* partitions is any; stamps are given anew.
Restamped(entries, stamp) ==
  {[e EXCEPT !.at = stamp[e.id]] : e \in entries}

KeepsOrder(stamp) ==
  /\ \A i, j \in DOMAIN stamp : i # j => stamp[i] # stamp[j]
  /\ \A p \in Partitions : \A x, y \in file[p] :
       x.at < y.at => stamp[x.id] < stamp[y.id]

\* open() creates a collection it loads without options, and collection() takes
\* the options for a new collection only.
LoadedCap == IF \A p \in Partitions : file[p] = {} THEN Cap ELSE Infinity

Open ==
  /\ ~opened
  /\ opened' = TRUE
  /\ LET all == UNION {file[p] : p \in Partitions}
         n   == Cardinality(IdsOf(all))
     IN  \E stamp \in [IdsOf(all) -> 1..n] :
           /\ KeepsOrder(stamp)
           /\ docs' = Restamped(all, stamp)
           /\ next' = n
           /\ file' = [p \in Partitions |-> Restamped(file[p], stamp)]
  /\ maxDocs' = LoadedCap
  /\ UNCHANGED <<dirtyPartitions, marked, writing, snapshot, unmarked,
                 untrimmed, ops>>

-----------------------------------------------------------------------------
Init ==
  /\ opened = FALSE
  /\ docs = {} /\ next = 0 /\ maxDocs = Cap
  /\ dirtyPartitions = {} /\ marked = {} /\ writing = {}
  /\ snapshot = [p \in Partitions |-> {}]
  /\ file = [p \in Partitions |-> {}]
  /\ unmarked = {} /\ untrimmed = FALSE /\ ops = 0

Batches == UNION {[1..n -> Ids] : n \in 1..MaxBatch}

Next ==
  \/ Open \/ Close
  \/ \E id \in Ids, doc \in Docs : Insert(id, doc) \/ Set(id, doc)
  \/ \E ids \in Batches, doc \in Docs :
       InsertMany(ids, doc) \/ InsertManyThrows(ids, doc)
  \/ \E id \in Ids, changes \in Changes : Update(id, changes)
  \/ \E id \in Ids : Delete(id)
  \/ \E filter \in Filters : DeleteMany(filter)
  \/ Clear
  \/ BeginFlush
  \/ \E p \in Partitions : Written(p) \/ WriteFails(p)

Spec == Init /\ [][Next]_vars

-----------------------------------------------------------------------------
\* Each id has one entry and each entry a place of its own.
Ordered(entries) ==
  \A x, y \in entries : x.id = y.id \/ x.at = y.at => x = y

\* The entries of one partition each.
Parted(parts) ==
  /\ parts \in [Partitions -> SUBSET Entries]
  /\ \A p \in Partitions : Ordered(parts[p]) /\ Part(parts[p], p) = parts[p]

\* The types of all variables; entries are in order, in memory and on disk, and
\* those on disk in the file of their partition.
TypeOK ==
  /\ opened \in BOOLEAN /\ untrimmed \in BOOLEAN
  /\ docs \subseteq Entries /\ Ordered(docs)
  /\ next \in Nat /\ \A e \in docs : e.at <= next
  /\ maxDocs \in {Cap, Infinity}
  /\ dirtyPartitions \subseteq Partitions
  /\ marked \subseteq Partitions /\ writing \subseteq Partitions
  /\ Parted(snapshot) /\ Parted(file)
  /\ unmarked \subseteq Ids /\ ops \in Nat

\* What is on disk of a partition, or will be when the flush that writes it has
\* succeeded.
Saved(p) == IF p \in writing THEN snapshot[p] ELSE file[p]

\* A partition that is not marked is on disk, or being written, as it is in
\* memory: no call forgets to mark what it changed, evicted documents included,
\* and no flush forgets a change made or a write failed meanwhile.  What an
\* insertMany() that threw has inserted is the exception.
UnmarkedIsSaved ==
  opened => \A p \in Partitions \ marked :
              Saved(p) = {e \in Part(docs, p) : e.id \notin unmarked}

\* A collection with a cap stays within it, but for what an insertMany() that
\* threw has inserted, until the next document is.
CapHolds ==
  opened /\ maxDocs # Infinity /\ ~untrimmed => Cardinality(docs) <= maxDocs

Inserts(ids) ==
  \E doc \in Docs :
    \/ InsertMany(ids, doc)
    \/ Len(ids) = 1 /\ (Insert(ids[1], doc) \/ Set(ids[1], doc))

Stays(e) == e.id \in IdsOf(docs')

\* A call that inserts makes room by dropping documents that are older than all
\* that stay, no more than it has to, and none that it brings while one that was
\* there before stays.
OldestFirst ==
  \A ids \in Batches : Inserts(ids) =>
    /\ \A e, x \in docs : ~Stays(e) /\ Stays(x) => e.at < x.at
    /\ (\E e \in docs : ~Stays(e)) => Cardinality(docs') = maxDocs
    /\ (\E x \in docs : Stays(x)) => Ranged(ids) \ IdsOf(docs) \subseteq IdsOf(docs')

OldestGoFirst == [][OldestFirst]_vars
=============================================================================
