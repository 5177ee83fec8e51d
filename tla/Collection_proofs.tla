------------------------- MODULE Collection_proofs -------------------------
(***************************************************************************)
(* Proofs about modules Collection and History, for every finite set of    *)
(* ids, every division into partitions, every cap, and every set of        *)
(* queries, page sizes and walks.                                          *)
(***************************************************************************)
EXTENDS History, FiniteSetTheorems, SequenceTheorems, TLAPS

(***************************************************************************)
(* Sets of entries.                                                        *)
(***************************************************************************)

\* Entries that are in order are as many as their ids, and finitely many.
LEMMA AsManyAsIds ==
  ASSUME NEW E \in SUBSET Entries, Ordered(E)
  PROVE  /\ IsFiniteSet(E) /\ Cardinality(E) \in Nat
         /\ IsFiniteSet(IdsOf(E)) /\ Cardinality(IdsOf(E)) = Cardinality(E)
<1> DEFINE f == [e \in E |-> e.id]
<1>1. f \in Injection(E, IdsOf(E)) /\ f \in Surjection(E, IdsOf(E))
  BY DEF Injection, IsInjective, Surjection, IdsOf, Ordered, Entries
<1>2. IdsOf(E) \in SUBSET Ids
  BY DEF IdsOf, Entries
<1>3. IsFiniteSet(IdsOf(E))
  BY <1>2, CollectionAssumption, FS_Subset
<1>4. IsFiniteSet(E) /\ Cardinality(E) = Cardinality(IdsOf(E))
  BY <1>1, <1>3, FS_Injection
<1> QED BY <1>3, <1>4, FS_CardinalityType

\* The number of older entries is below the number of all, and grows with the
\* stamp.
LEMMA OlderCounts ==
  ASSUME NEW E \in SUBSET Entries, Ordered(E), NEW e \in E
  PROVE  /\ IsFiniteSet(Older(E, e))
         /\ Cardinality(Older(E, e)) \in 0..(Cardinality(E) - 1)
         /\ \A x \in E : x.at < e.at
              => Cardinality(Older(E, x)) < Cardinality(Older(E, e))
<1>1. IsFiniteSet(E) /\ Cardinality(E) \in Nat
  BY AsManyAsIds
<1>2. \A x \in E : /\ IsFiniteSet(Older(E, x))
                   /\ Cardinality(Older(E, x)) \in Nat
  BY <1>1, FS_Subset, FS_CardinalityType DEF Older
<1>3. Cardinality(Older(E, e)) < Cardinality(E)
  <2>1. Older(E, e) \in SUBSET (E \ {e})
    BY DEF Older, Entries
  <2>2. IsFiniteSet(E \ {e}) /\ Cardinality(E \ {e}) = Cardinality(E) - 1
    BY <1>1, FS_RemoveElement
  <2> QED BY <1>1, <1>2, <2>1, <2>2, FS_Subset
<1>4. ASSUME NEW x \in E, x.at < e.at
      PROVE  Cardinality(Older(E, x)) < Cardinality(Older(E, e))
  <2>1. x \in Older(E, e) /\ Older(E, x) \in SUBSET (Older(E, e) \ {x})
    BY <1>4 DEF Older, Entries
  <2>2. /\ IsFiniteSet(Older(E, e) \ {x})
        /\ Cardinality(Older(E, e) \ {x}) = Cardinality(Older(E, e)) - 1
    BY <1>2, <2>1, FS_RemoveElement
  <2> QED BY <1>2, <2>1, <2>2, FS_Subset
<1> QED BY <1>1, <1>2, <1>3, <1>4

LEMMA Interval ==
  ASSUME NEW n \in Nat
  PROVE  IsFiniteSet(0..(n - 1)) /\ Cardinality(0..(n - 1)) = n
<1>1. n - 1 \in Int /\ 0 \in Int
  OBVIOUS
<1>2. /\ IsFiniteSet(0..(n - 1))
      /\ Cardinality(0..(n - 1)) = IF 0 > n - 1 THEN 0 ELSE (n - 1) - 0 + 1
  BY <1>1, FS_Interval
<1> QED BY <1>2

\* As many entries have fewer than n older ones as n says.
LEMMA OldestCount ==
  ASSUME NEW E \in SUBSET Entries, Ordered(E), NEW n \in 0..Cardinality(E)
  PROVE  Cardinality({e \in E : Cardinality(Older(E, e)) < n}) = n
<1> DEFINE rank == [e \in E |-> Cardinality(Older(E, e))]
           last == Cardinality(E) - 1
           Oldest == {e \in E : Cardinality(Older(E, e)) < n}
           place == [e \in Oldest |-> rank[e]]
<1>1. IsFiniteSet(E) /\ Cardinality(E) \in Nat
  BY AsManyAsIds
<1>2. \A e \in E : rank[e] \in 0..last
  BY OlderCounts
<1>3. ASSUME NEW x \in E, NEW y \in E, rank[x] = rank[y] PROVE x = y
  <2>1. ~(x.at < y.at) /\ ~(y.at < x.at)
    <3>1. /\ x.at < y.at => rank[x] < rank[y]
          /\ y.at < x.at => rank[y] < rank[x]
      BY OlderCounts
    <3> QED BY <1>2, <1>3, <3>1
  <2>2. x.at \in Nat /\ y.at \in Nat
    BY DEF Entries
  <2> QED BY <2>1, <2>2 DEF Ordered
<1>4. rank \in Injection(E, 0..last)
  BY <1>2, <1>3 DEF Injection, IsInjective
<1>5. IsFiniteSet(0..last) /\ Cardinality(0..last) = Cardinality(E)
  BY <1>1, Interval
<1>6. rank \in Surjection(E, 0..last)
  BY <1>4, <1>5, FS_Injection
<1>7. place \in Injection(Oldest, 0..(n - 1))
  BY <1>1, <1>2, <1>3 DEF Injection, IsInjective
<1>8. place \in Surjection(Oldest, 0..(n - 1))
  <2>1. \A k \in 0..(n - 1) : \E e \in E : rank[e] = k
    <3>1. \A k \in 0..last : \E e \in E : rank[e] = k
      BY <1>6 DEF Surjection
    <3> HIDE DEF rank
    <3> QED BY <1>1, <3>1
  <2>2. \A k \in 0..(n - 1) : \E e \in Oldest : place[e] = k
    BY <1>1, <2>1
  <2>3. place \in [Oldest -> 0..(n - 1)]
    BY <1>7 DEF Injection
  <2> QED BY <2>2, <2>3 DEF Surjection
<1>9. IsFiniteSet(0..(n - 1)) /\ Cardinality(0..(n - 1)) = n
  BY <1>1, Interval
<1> QED BY <1>7, <1>8, <1>9, FS_Injection

LEMMA ExcessType ==
  ASSUME NEW E \in SUBSET Entries, Ordered(E), maxDocs \in {Cap, Infinity}
  PROVE  /\ Excess(E) \in 0..Cardinality(E)
         /\ maxDocs # Infinity => Cardinality(E) - Excess(E) <= maxDocs
         /\ Excess(E) > 0 => Cardinality(E) - Excess(E) = maxDocs
BY AsManyAsIds, CollectionAssumption DEF Excess, Infinity

\* What _trim leaves of a collection.
LEMMA Trimmed ==
  ASSUME NEW E \in SUBSET Entries, Ordered(E), maxDocs \in {Cap, Infinity}
  PROVE  /\ Cardinality(E \ Evicted(E)) \in Nat
         /\ maxDocs # Infinity => Cardinality(E \ Evicted(E)) <= maxDocs
         /\ Evicted(E) # {} => Cardinality(E \ Evicted(E)) = maxDocs
         /\ \A e \in Evicted(E), x \in E \ Evicted(E) : e.at < x.at
<1>1. IsFiniteSet(E) /\ Cardinality(E) \in Nat
  BY AsManyAsIds
<1>2. Excess(E) \in 0..Cardinality(E)
  BY ExcessType
<1>3. Cardinality(Evicted(E)) = Excess(E)
  BY <1>2, OldestCount DEF Evicted
<1>4. Cardinality(E \ Evicted(E)) = Cardinality(E) - Excess(E)
  <2>1. E \cap Evicted(E) = Evicted(E)
    BY DEF Evicted
  <2> QED BY <1>1, <1>3, <2>1, FS_Difference
<1>5. Evicted(E) # {} => Excess(E) > 0
  <2>1. \A e \in E : Cardinality(Older(E, e)) \in Nat
    BY OlderCounts, <1>1
  <2> QED BY <1>2, <2>1 DEF Evicted
<1>6. ASSUME NEW e \in Evicted(E), NEW x \in E \ Evicted(E) PROVE e.at < x.at
  <2>1. e \in E /\ x \in E /\ e.at \in Nat /\ x.at \in Nat /\ e # x
    BY DEF Evicted, Entries
  <2>2. /\ Cardinality(Older(E, e)) < Excess(E)
        /\ ~(Cardinality(Older(E, x)) < Excess(E))
    BY DEF Evicted
  <2>3. Cardinality(Older(E, e)) \in Nat /\ Cardinality(Older(E, x)) \in Nat
    BY <1>1, <2>1, OlderCounts
  <2>4. x.at < e.at => Cardinality(Older(E, x)) < Cardinality(Older(E, e))
    BY <2>1, OlderCounts
  <2>5. e.at # x.at
    BY <2>1 DEF Ordered
  <2> QED BY <1>2, <2>1, <2>2, <2>3, <2>4, <2>5
<1> QED BY <1>1, <1>2, <1>4, <1>5, <1>6, ExcessType

(***************************************************************************)
(* What the calls do to the entries.                                       *)
(***************************************************************************)

LEMMA OneId ==
  ASSUME NEW id \in Ids
  PROVE  /\ <<id>> \in Seq(Ids) /\ Len(<<id>>) = 1 /\ <<id>>[1] = id
         /\ Ranged(<<id>>) = {id}
         /\ ~Has(id) => Clashes(<<id>>) = {}
BY DEF Ranged, Clashes

LEMMA BatchType == \A ids \in Batches : ids \in Seq(Ids) /\ ids # <<>>
<1> SUFFICES ASSUME NEW ids \in Batches PROVE ids \in Seq(Ids) /\ ids # <<>>
  OBVIOUS
<1>1. PICK n \in 1..MaxBatch : ids \in [1..n -> Ids]
  BY DEF Batches
<1>2. n \in Nat /\ 1 \in DOMAIN ids
  BY <1>1, CollectionAssumption
<1> QED BY <1>1, <1>2, SeqDef

\* A call that inserts, one that replaces or one that removes.
InsertsNew(ids, doc) ==
  ids \in Seq(Ids) /\ ids # <<>> /\ Clashes(ids) = {} /\ Call /\ InsertAll(ids, doc)

Replaces(id, doc) == Call /\ Has(id) /\ Replace(id, doc)

Removes(gone) == gone \subseteq docs /\ Remove(gone)

LEMMA Kinds ==
  ASSUME Next
  PROVE  \/ Open \/ Close \/ Clear \/ BeginFlush
         \/ \E ids \in Seq(Ids), doc \in Docs :
              InsertsNew(ids, doc) \/ InsertManyThrows(ids, doc)
         \/ \E id \in Ids, doc \in Docs : Replaces(id, doc)
         \/ \E id \in Ids, changes \in Changes : Update(id, changes)
         \/ \E gone : Removes(gone)
         \/ \E p \in Partitions : Written(p) \/ WriteFails(p)
<1>1. ASSUME NEW id \in Ids, NEW doc \in Docs, Insert(id, doc) \/ Set(id, doc)
      PROVE  InsertsNew(<<id>>, doc) \/ Replaces(id, doc)
  <2>1. <<id>> # <<>>
    OBVIOUS
  <2> QED BY <1>1, <2>1, OneId DEF Insert, Set, InsertsNew, Replaces
<1>2. ASSUME NEW ids \in Batches, NEW doc \in Docs,
             InsertMany(ids, doc) \/ InsertManyThrows(ids, doc)
      PROVE  ids \in Seq(Ids) /\ (InsertsNew(ids, doc) \/ InsertManyThrows(ids, doc))
  BY <1>2, BatchType DEF InsertMany, InsertsNew
<1>3. ASSUME NEW id \in Ids, Delete(id) PROVE \E gone : Removes(gone)
  BY <1>3 DEF Delete, Removes
<1>4. ASSUME NEW filter \in Filters, DeleteMany(filter)
      PROVE  \E gone : Removes(gone)
  BY <1>4 DEF DeleteMany, Removes, Matching
<1>5. \A id \in Ids : <<id>> \in Seq(Ids)
  BY OneId
<1> QED BY <1>1, <1>2, <1>3, <1>4, <1>5 DEF Next

\* New ids come behind all others.
LEMMA WithBrought ==
  ASSUME TypeOK, NEW ids \in Seq(Ids), NEW doc \in Docs, Clashes(ids) = {},
         NEW E, E = docs \cup Brought(ids, doc)
  PROVE  /\ E \in SUBSET Entries /\ Ordered(E)
         /\ next + Len(ids) \in Nat
         /\ \A e \in E : e.at <= next + Len(ids)
         /\ \A e \in Brought(ids, doc) :
              e.at > next /\ e.id \in Ranged(ids) /\ ~Has(e.id)
<1>1. Len(ids) \in Nat /\ DOMAIN ids = 1..Len(ids) /\ next \in Nat
  BY LenProperties DEF TypeOK
<1>2. \A n \in 1..Len(ids) : ids[n] \in Ids /\ ~Has(ids[n])
  BY <1>1 DEF Clashes
<1>3. \A n, m \in 1..Len(ids) : ids[n] = ids[m] => n = m
  <2> SUFFICES ASSUME NEW n \in 1..Len(ids), NEW m \in 1..Len(ids),
                      ids[n] = ids[m], m < n
               PROVE  FALSE
    BY <1>1
  <2>1. n \in Clashes(ids)
    BY <1>1 DEF Clashes
  <2> QED BY <2>1
<1>4. ASSUME NEW e \in Brought(ids, doc)
      PROVE  /\ e \in Entries /\ e.at > next /\ e.at <= next + Len(ids)
             /\ e.id \in Ranged(ids) /\ ~Has(e.id)
  <2>1. PICK n \in 1..Len(ids) : e = [id |-> ids[n], at |-> next + n, doc |-> doc]
    BY <1>1, <1>4 DEF Brought
  <2> QED BY <1>1, <1>2, <2>1 DEF Entries, Ranged
<1>5. ASSUME NEW x \in Brought(ids, doc), NEW y \in Brought(ids, doc),
             x.id = y.id \/ x.at = y.at
      PROVE  x = y
  <2>1. PICK n \in 1..Len(ids) : x = [id |-> ids[n], at |-> next + n, doc |-> doc]
    BY <1>1 DEF Brought
  <2>2. PICK m \in 1..Len(ids) : y = [id |-> ids[m], at |-> next + m, doc |-> doc]
    BY <1>1 DEF Brought
  <2> QED BY <1>1, <1>3, <1>5, <2>1, <2>2
<1>6. ASSUME NEW x \in docs, NEW y \in Brought(ids, doc)
      PROVE  x.id # y.id /\ x.at # y.at
  <2>1. x.at <= next /\ x.at \in Nat
    BY DEF TypeOK, Entries
  <2>2. y.at > next /\ y.at \in Nat /\ ~Has(y.id)
    BY <1>4 DEF Entries
  <2> QED BY <1>1, <2>1, <2>2 DEF Has, IdsOf
<1>7. Ordered(E)
  BY <1>5, <1>6 DEF Ordered, TypeOK
<1>8. \A e \in docs : e.at <= next + Len(ids)
  BY <1>1 DEF TypeOK, Entries
<1> QED BY <1>1, <1>4, <1>7, <1>8 DEF TypeOK

\* Replacing a document keeps ids and places.
LEMMA WithReplaced ==
  ASSUME NEW D \in SUBSET Entries, Ordered(D), NEW id \in Ids, NEW doc \in Docs,
         NEW E, E = Replaced(D, id, doc)
  PROVE  /\ E \in SUBSET Entries /\ Ordered(E) /\ IdsOf(E) = IdsOf(D)
         /\ \A e \in E : \E x \in D : e.id = x.id /\ e.at = x.at
         /\ \A x \in D : \E e \in E : e.id = x.id /\ e.at = x.at
         /\ \A x : x.id # id => (x \in E <=> x \in D)
<1> DEFINE New(x) == IF x.id = id THEN [x EXCEPT !.doc = doc] ELSE x
<1>1. \A x \in D : /\ New(x) \in Entries
                   /\ New(x).id = x.id /\ New(x).at = x.at
  BY DEF Entries
<1>2. E = {New(x) : x \in D}
  BY DEF Replaced
<1>3. \A e \in E : \E x \in D : e = New(x)
  BY <1>2
<1>4. \A x \in D : New(x) \in E
  BY <1>2
<1>5. \A x \in D : x.id # id => New(x) = x
  OBVIOUS
<1> HIDE DEF New
<1>6. /\ \A e \in E : \E x \in D : e.id = x.id /\ e.at = x.at
      /\ \A x \in D : \E e \in E : e.id = x.id /\ e.at = x.at
  BY <1>1, <1>3, <1>4
<1>7. IdsOf(E) = IdsOf(D)
  BY <1>6 DEF IdsOf
<1>8. Ordered(E)
  BY <1>1, <1>3 DEF Ordered
<1>9. \A x : x.id # id => (x \in E <=> x \in D)
  BY <1>1, <1>3, <1>4, <1>5
<1> QED BY <1>1, <1>3, <1>6, <1>7, <1>8, <1>9

\* What is taken from entries in order leaves them in order.
LEMMA SubOrdered ==
  ASSUME NEW E \in SUBSET Entries, Ordered(E), NEW D \in SUBSET E
  PROVE  D \in SUBSET Entries /\ Ordered(D)
BY DEF Ordered

\* The documents of an insertMany() that threw: those before the first clash.
LEMMA BeforeClash ==
  ASSUME NEW ids \in Seq(Ids), NEW n \in Clashes(ids),
         \A m \in Clashes(ids) : n <= m
  PROVE  LET before == SubSeq(ids, 1, n - 1)
         IN  /\ before \in Seq(Ids) /\ Len(before) = n - 1
             /\ Clashes(before) = {}
<1> DEFINE before == SubSeq(ids, 1, n - 1)
<1>1. Len(ids) \in Nat /\ n \in 1..Len(ids)
  BY LenProperties DEF Clashes
<1>2. /\ before \in Seq(Ids) /\ Len(before) = n - 1
      /\ \A m \in 1..(n - 1) : before[m] = ids[m]
  BY <1>1
<1>3. ASSUME NEW m \in Clashes(before) PROVE FALSE
  <2>1. m \in 1..(n - 1)
    BY <1>1, <1>2, LenProperties DEF Clashes
  <2>2. before[m] = ids[m] /\ \A k \in 1..(m - 1) : before[k] = ids[k]
    BY <1>1, <1>2, <2>1
  <2>3. m \in Clashes(ids)
    BY <1>1, <1>3, <2>1, <2>2, LenProperties DEF Clashes
  <2> QED BY <1>1, <2>1, <2>3
<1> QED BY <1>2, <1>3

(***************************************************************************)
(* Types, and a closed store that has nothing marked.                      *)
(***************************************************************************)

ClosedIsClean == ~opened => marked = {} /\ writing = {} /\ unmarked = {}

TypeInv == TypeOK /\ ClosedIsClean

LEMMA MarkType ==
  ASSUME TypeOK, NEW ids \in SUBSET Ids, ids # {}, NEW evicted \in SUBSET Ids,
         MarkDirty(ids, evicted)
  PROVE  /\ dirtyPartitions' \subseteq Partitions
         /\ marked' \subseteq Partitions /\ marked \subseteq marked'
         /\ PartitionsOf(ids) \cup PartitionsOf(evicted) \subseteq marked'
BY CollectionAssumption DEF TypeOK, MarkDirty, PartitionsOf

LEMMA RangedType ==
  ASSUME NEW ids \in Seq(Ids)
  PROVE  /\ Ranged(ids) \in SUBSET Ids
         /\ ids # <<>> => Ranged(ids) # {}
<1>1. Len(ids) \in Nat /\ ids \in [1..Len(ids) -> Ids] /\ DOMAIN ids = 1..Len(ids)
  BY LenProperties
<1>2. ids # <<>> => 1 \in 1..Len(ids)
  BY EmptySeq
<1> QED BY <1>1, <1>2 DEF Ranged

LEMMA IdsOfType ==
  ASSUME NEW E \in SUBSET Entries
  PROVE  IdsOf(E) \in SUBSET Ids /\ \A D \in SUBSET E : IdsOf(D) \in SUBSET Ids
BY DEF IdsOf, Entries

LEMMA EvictedType == \A E : Evicted(E) \in SUBSET E
BY DEF Evicted

LEMMA PartedEmpty == Parted([p \in Partitions |-> {}])
BY DEF Parted, Part, Ordered

\* The part of a partition, written or loaded.
LEMMA PartedParts ==
  ASSUME NEW E \in SUBSET Entries, Ordered(E), NEW p \in Partitions
  PROVE  /\ Part(E, p) \in SUBSET Entries /\ Ordered(Part(E, p))
         /\ Part(Part(E, p), p) = Part(E, p)
BY DEF Part, Ordered

LEMMA TypeInit == Init => TypeInv
<1> SUFFICES ASSUME Init PROVE TypeInv
  OBVIOUS
<1>1. Parted(snapshot) /\ Parted(file)
  BY PartedEmpty DEF Init
<1>2. docs \subseteq Entries /\ Ordered(docs)
  BY DEF Init, Ordered
<1>3. TypeOK
  BY <1>1, <1>2 DEF Init, TypeOK
<1>4. ClosedIsClean
  BY DEF Init, ClosedIsClean
<1> QED BY <1>3, <1>4 DEF TypeInv

LEMMA InsertsType ==
  ASSUME TypeInv, NEW ids \in Seq(Ids), NEW doc \in Docs, InsertsNew(ids, doc)
  PROVE  TypeInv'
<1> DEFINE E == docs \cup Brought(ids, doc)
<1> USE DEF TypeInv
<1>1. E \in SUBSET Entries /\ Ordered(E) /\ next + Len(ids) \in Nat
      /\ \A e \in E : e.at <= next + Len(ids)
  BY WithBrought DEF InsertsNew
<1>2. docs' = E \ Evicted(E) /\ next' = next + Len(ids) /\ untrimmed' = FALSE
  BY DEF InsertsNew, InsertAll
<1>3. docs' \in SUBSET Entries /\ Ordered(docs')
  BY <1>1, <1>2, SubOrdered
<1>4. \A e \in docs' : e.at <= next'
  BY <1>1, <1>2
<1>5. dirtyPartitions' \subseteq Partitions /\ marked' \subseteq Partitions
  <2>1. MarkDirty(Ranged(ids), IdsOf(Evicted(E)))
    BY DEF InsertsNew, InsertAll
  <2>2. IdsOf(Evicted(E)) \in SUBSET Ids
    BY <1>1, EvictedType, IdsOfType
  <2> QED BY <2>1, <2>2, RangedType, MarkType DEF InsertsNew
<1> HIDE DEF E
<1>6. Parted(snapshot') /\ Parted(file')
  BY DEF InsertsNew, InsertAll, TypeOK
<1>7. opened' /\ opened' \in BOOLEAN /\ untrimmed' \in BOOLEAN
  BY DEF InsertsNew, InsertAll, Call, TypeOK
<1>8. /\ maxDocs' = maxDocs /\ writing' = writing /\ unmarked' = unmarked
      /\ ops' \in Nat /\ next' \in Nat
  BY <1>1, <1>2 DEF InsertsNew, InsertAll, Call, TypeOK
<1>9. TypeOK'
  BY <1>3, <1>4, <1>5, <1>6, <1>7, <1>8 DEF TypeOK
<1> QED BY <1>7, <1>9 DEF ClosedIsClean

LEMMA ReplacesType ==
  ASSUME TypeInv, NEW id \in Ids, NEW doc \in Docs, Replaces(id, doc)
  PROVE  TypeInv'
<1> DEFINE E == Replaced(docs, id, doc)
<1> USE DEF TypeInv
<1>1. E \in SUBSET Entries /\ Ordered(E)
      /\ \A e \in E : \E x \in docs : e.at = x.at
  BY WithReplaced DEF TypeOK
<1>2. docs' = E \ Evicted(E) /\ next' = next
  BY DEF Replaces, Replace
<1>3. docs' \in SUBSET Entries /\ Ordered(docs')
  BY <1>1, <1>2, SubOrdered
<1>4. \A e \in docs' : e.at <= next'
  BY <1>1, <1>2 DEF TypeOK
<1>5. dirtyPartitions' \subseteq Partitions /\ marked' \subseteq Partitions
  <2>1. MarkDirty({id}, IdsOf(Evicted(E)))
    BY DEF Replaces, Replace
  <2>2. IdsOf(Evicted(E)) \in SUBSET Ids
    BY <1>1, EvictedType, IdsOfType
  <2> QED BY <2>1, <2>2, MarkType
<1> HIDE DEF E
<1>6. Parted(snapshot') /\ Parted(file')
  BY DEF Replaces, Replace, TypeOK
<1>7. opened' /\ opened' \in BOOLEAN /\ untrimmed' \in BOOLEAN
  BY DEF Replaces, Replace, Call, TypeOK
<1>8. TypeOK'
  BY <1>2, <1>3, <1>4, <1>5, <1>6, <1>7 DEF Replaces, Replace, Call, TypeOK
<1> QED BY <1>7, <1>8 DEF ClosedIsClean

LEMMA ThrowsType ==
  ASSUME TypeInv, NEW ids \in Seq(Ids), NEW doc \in Docs,
         InsertManyThrows(ids, doc)
  PROVE  TypeInv'
<1> USE DEF TypeInv
<1>1. PICK n \in Clashes(ids) :
        LET before == SubSeq(ids, 1, n - 1)
        IN  /\ \A m \in Clashes(ids) : n <= m
            /\ docs' = docs \cup Brought(before, doc)
            /\ next' = next + (n - 1)
            /\ unmarked' = unmarked \cup Ranged(before)
  BY DEF InsertManyThrows
<1> DEFINE before == SubSeq(ids, 1, n - 1)
<1>2. before \in Seq(Ids) /\ Len(before) = n - 1 /\ Clashes(before) = {}
  BY <1>1, BeforeClash
<1>3. /\ docs' \in SUBSET Entries /\ Ordered(docs')
      /\ next' \in Nat /\ \A e \in docs' : e.at <= next'
  <2>1. docs' = docs \cup Brought(before, doc) /\ next' = next + Len(before)
    BY <1>1, <1>2
  <2> HIDE DEF before
  <2> QED BY <1>2, <2>1, WithBrought
<1>4. unmarked' \subseteq Ids
  BY <1>1, <1>2, RangedType DEF TypeOK
<1>5. Parted(snapshot') /\ Parted(file')
  BY DEF InsertManyThrows, TypeOK
<1>6. opened' /\ opened' \in BOOLEAN /\ untrimmed' \in BOOLEAN
  BY DEF InsertManyThrows, Call, TypeOK
<1>7. TypeOK'
  BY <1>3, <1>4, <1>5, <1>6 DEF InsertManyThrows, Call, TypeOK
<1> QED BY <1>6, <1>7 DEF ClosedIsClean

LEMMA UpdateType ==
  ASSUME TypeInv, NEW id \in Ids, NEW changes \in Changes, Update(id, changes)
  PROVE  TypeInv'
<1> USE DEF TypeInv
<1>1. PICK d \in docs :
        /\ d.id = id /\ docs' = Replaced(docs, id, Merged(d.doc, changes))
  BY DEF Update
<1>2. Merged(d.doc, changes) \in Docs
  BY ChangesAssumption DEF TypeOK, Entries
<1>3. /\ docs' \in SUBSET Entries /\ Ordered(docs')
      /\ \A e \in docs' : \E x \in docs : e.at = x.at
  BY <1>1, <1>2, WithReplaced DEF TypeOK
<1>4. next' = next /\ \A e \in docs' : e.at <= next'
  BY <1>3 DEF Update, TypeOK
<1>5. dirtyPartitions' \subseteq Partitions /\ marked' \subseteq Partitions
  BY MarkType DEF Update
<1>6. Parted(snapshot') /\ Parted(file')
  BY DEF Update, TypeOK
<1>7. opened' /\ opened' \in BOOLEAN /\ untrimmed' \in BOOLEAN
  BY DEF Update, Call, TypeOK
<1>8. /\ maxDocs' = maxDocs /\ writing' = writing /\ unmarked' = unmarked
      /\ ops' \in Nat
  BY DEF Update, Call, TypeOK
<1>9. TypeOK'
  BY <1>3, <1>4, <1>5, <1>6, <1>7, <1>8 DEF TypeOK
<1> QED BY <1>7, <1>9 DEF ClosedIsClean

LEMMA RemovesType ==
  ASSUME TypeInv, NEW gone, Removes(gone)
  PROVE  TypeInv'
<1> USE DEF TypeInv
<1>1. docs' = docs \ gone /\ next' = next
  BY DEF Removes, Remove
<1>2. docs' \in SUBSET Entries /\ Ordered(docs')
  BY <1>1, SubOrdered DEF TypeOK
<1>3. dirtyPartitions' \subseteq Partitions /\ marked' \subseteq Partitions
  <2>1. IdsOf(gone) \in SUBSET Ids /\ IdsOf(gone) # {}
    <3>1. IdsOf(gone) \in SUBSET Ids
      BY IdsOfType DEF Removes, TypeOK
    <3>2. IdsOf(gone) # {}
      BY DEF Removes, Remove, IdsOf
    <3> QED BY <3>1, <3>2
  <2>2. MarkDirty(IdsOf(gone), {})
    BY DEF Removes, Remove
  <2> QED BY <2>1, <2>2, MarkType
<1>4. Parted(snapshot') /\ Parted(file')
  BY DEF Removes, Remove, TypeOK
<1>5. opened' /\ opened' \in BOOLEAN /\ untrimmed' \in BOOLEAN
  BY DEF Removes, Remove, Call, TypeOK
<1>6. /\ maxDocs' = maxDocs /\ writing' = writing /\ unmarked' = unmarked
      /\ ops' \in Nat
  BY DEF Removes, Remove, Call, TypeOK
<1>7. TypeOK'
  BY <1>1, <1>2, <1>3, <1>4, <1>5, <1>6 DEF TypeOK
<1> QED BY <1>5, <1>7 DEF ClosedIsClean

LEMMA ClearType ==
  ASSUME TypeInv, Clear
  PROVE  TypeInv'
<1> USE DEF TypeInv
<1>1. Parted(snapshot') /\ Parted(file')
  BY DEF Clear, TypeOK
<1>2. opened' /\ opened' \in BOOLEAN /\ untrimmed' \in BOOLEAN
  BY DEF Clear, Call, TypeOK
<1>3. docs' = {} /\ Ordered(docs')
  BY DEF Clear, Ordered
<1>4. /\ next' = next /\ maxDocs' = maxDocs /\ writing' = writing
      /\ unmarked' = unmarked /\ ops' \in Nat
      /\ dirtyPartitions' = Partitions /\ marked' = Partitions
  BY DEF Clear, Call, TypeOK
<1>5. TypeOK'
  BY <1>1, <1>2, <1>3, <1>4 DEF TypeOK
<1> QED BY <1>2, <1>5 DEF ClosedIsClean

LEMMA BeginFlushType ==
  ASSUME TypeInv, BeginFlush
  PROVE  TypeInv'
<1> USE DEF TypeInv
<1>1. \A p \in Partitions :
        snapshot'[p] = IF p \in marked THEN Part(docs, p) ELSE snapshot[p]
  BY DEF BeginFlush
<1>2. \A p \in Partitions :
        /\ snapshot'[p] \in SUBSET Entries /\ Ordered(snapshot'[p])
        /\ Part(snapshot'[p], p) = snapshot'[p]
  BY <1>1, PartedParts DEF TypeOK, Parted
<1>3. snapshot' \in [Partitions -> SUBSET Entries]
  BY <1>1, <1>2 DEF BeginFlush
<1>4. Parted(snapshot') /\ Parted(file')
  <2>1. Parted(snapshot')
    BY <1>2, <1>3 DEF Parted
  <2>2. Parted(file')
    BY DEF BeginFlush, TypeOK
  <2> QED BY <2>1, <2>2
<1>5. opened' /\ opened' \in BOOLEAN /\ untrimmed' \in BOOLEAN
  BY DEF BeginFlush, TypeOK
<1>6. /\ docs' = docs /\ next' = next /\ maxDocs' = maxDocs /\ ops' = ops
      /\ writing' = marked /\ marked' = {} /\ unmarked' \subseteq unmarked
      /\ dirtyPartitions' = dirtyPartitions
  BY DEF BeginFlush
<1>7. TypeOK'
  BY <1>4, <1>5, <1>6 DEF TypeOK
<1> QED BY <1>5, <1>7 DEF ClosedIsClean

LEMMA WrittenType ==
  ASSUME TypeInv, NEW p \in Partitions, Written(p)
  PROVE  TypeInv'
<1> USE DEF TypeInv
<1>1. \A q \in Partitions : file'[q] = IF q = p THEN snapshot[q] ELSE file[q]
  BY DEF Written, TypeOK, Parted
<1>2. file' \in [Partitions -> SUBSET Entries]
  BY DEF Written, TypeOK, Parted
<1>3. Parted(snapshot') /\ Parted(file')
  <2>1. Parted(file')
    BY <1>1, <1>2 DEF TypeOK, Parted
  <2>2. Parted(snapshot')
    BY DEF Written, TypeOK
  <2> QED BY <2>1, <2>2
<1>4. opened' /\ opened' \in BOOLEAN /\ untrimmed' \in BOOLEAN
  BY DEF Written, TypeOK
<1>5. /\ docs' = docs /\ next' = next /\ maxDocs' = maxDocs /\ ops' = ops
      /\ writing' = writing \ {p} /\ marked' = marked /\ unmarked' = unmarked
      /\ dirtyPartitions' = dirtyPartitions \ {p}
  BY DEF Written
<1>6. TypeOK'
  BY <1>3, <1>4, <1>5 DEF TypeOK
<1> QED BY <1>4, <1>6 DEF ClosedIsClean

LEMMA WriteFailsType ==
  ASSUME TypeInv, NEW p \in Partitions, WriteFails(p)
  PROVE  TypeInv'
<1> USE DEF TypeInv
<1>1. Parted(snapshot') /\ Parted(file')
  BY DEF WriteFails, TypeOK
<1>2. opened' /\ opened' \in BOOLEAN /\ untrimmed' \in BOOLEAN
  BY DEF WriteFails, TypeOK
<1>3. /\ docs' = docs /\ next' = next /\ maxDocs' = maxDocs /\ ops' = ops
      /\ writing' = writing \ {p} /\ marked' = marked \cup {p}
      /\ unmarked' = unmarked /\ dirtyPartitions' = dirtyPartitions
  BY DEF WriteFails, Remarked
<1>4. TypeOK'
  BY <1>1, <1>2, <1>3 DEF TypeOK
<1> QED BY <1>2, <1>4 DEF ClosedIsClean

LEMMA CloseType ==
  ASSUME TypeInv, Close
  PROVE  TypeInv'
<1> USE DEF TypeInv
<1>1. PICK done \in SUBSET writing :
        file' = [p \in Partitions |-> IF p \in done THEN snapshot[p] ELSE file[p]]
  BY DEF Close
<1>2. Parted(snapshot') /\ Parted(file')
  <2>1. Parted(snapshot')
    BY PartedEmpty DEF Close
  <2>2. Parted(file')
    BY <1>1 DEF TypeOK, Parted
  <2> QED BY <2>1, <2>2
<1>3. /\ opened' = FALSE /\ untrimmed' = FALSE
      /\ docs' = {} /\ Ordered(docs') /\ next' = 0
      /\ writing' = {} /\ marked' = {} /\ dirtyPartitions' = {}
      /\ unmarked' = {} /\ maxDocs' = maxDocs /\ ops' = ops
  BY DEF Close, Ordered
<1>4. TypeOK'
  BY <1>2, <1>3 DEF TypeOK
<1> QED BY <1>3, <1>4 DEF ClosedIsClean

\* What open() makes of the files.
LEMMA Loaded ==
  ASSUME Parted(file), NEW all, all = UNION {file[p] : p \in Partitions},
         NEW stamp \in [IdsOf(all) -> 1..Cardinality(IdsOf(all))],
         KeepsOrder(stamp)
  PROVE  /\ Cardinality(IdsOf(all)) \in Nat
         /\ Restamped(all, stamp) \in SUBSET Entries
         /\ Ordered(Restamped(all, stamp))
         /\ \A e \in Restamped(all, stamp) : e.at <= Cardinality(IdsOf(all))
         /\ Parted([p \in Partitions |-> Restamped(file[p], stamp)])
         /\ \A p \in Partitions :
              Part(Restamped(all, stamp), p) = Restamped(file[p], stamp)
<1> DEFINE New(x) == [x EXCEPT !.at = stamp[x.id]]
           n == Cardinality(IdsOf(all))
<1>1. \A p \in Partitions : file[p] \in SUBSET all
  OBVIOUS
<1>2. all \in SUBSET Entries
  BY DEF Parted
<1>3. n \in Nat
  BY <1>2, IdsOfType, CollectionAssumption, FS_Subset, FS_CardinalityType
<1>4. \A x \in all : x.id \in IdsOf(all)
  BY DEF IdsOf
<1>5. \A x \in all : /\ New(x) \in Entries
                     /\ New(x).id = x.id /\ New(x).at = stamp[x.id]
                     /\ stamp[x.id] \in 1..n
  BY <1>2, <1>3, <1>4 DEF Entries
<1>6. \A x, y \in all : x.id = y.id => x = y
  <2> SUFFICES ASSUME NEW x \in all, NEW y \in all, x.id = y.id PROVE x = y
    OBVIOUS
  <2>1. PICK p \in Partitions : x \in file[p]
    OBVIOUS
  <2>2. PICK q \in Partitions : y \in file[q]
    OBVIOUS
  <2>3. p = q
    BY <2>1, <2>2 DEF Parted, Part
  <2> QED BY <2>1, <2>2, <2>3 DEF Parted, Ordered
<1>7. \A x, y \in all : New(x).id = New(y).id \/ New(x).at = New(y).at => x = y
  BY <1>4, <1>5, <1>6 DEF KeepsOrder
<1>8. ASSUME NEW E
      PROVE  /\ \A e \in Restamped(E, stamp) : \E x \in E : e = New(x)
             /\ \A x \in E : New(x) \in Restamped(E, stamp)
  BY DEF Restamped
<1> HIDE DEF New
<1>9. ASSUME NEW E \in SUBSET all
      PROVE  Restamped(E, stamp) \in SUBSET Entries /\ Ordered(Restamped(E, stamp))
  <2>1. \A e \in Restamped(E, stamp) : \E x \in all : e = New(x)
    BY <1>8
  <2>2. Restamped(E, stamp) \in SUBSET Entries
    BY <1>5, <2>1
  <2>3. ASSUME NEW e \in Restamped(E, stamp), NEW f \in Restamped(E, stamp),
               e.id = f.id \/ e.at = f.at
        PROVE  e = f
    <3>1. PICK x \in all : e = New(x)
      BY <2>1
    <3>2. PICK y \in all : f = New(y)
      BY <2>1
    <3> QED BY <1>7, <2>3, <3>1, <3>2
  <2> QED BY <2>2, <2>3 DEF Ordered
<1>10. ASSUME NEW e \in Restamped(all, stamp) PROVE e.at <= n
  <2>1. PICK x \in all : e = New(x)
    BY <1>8
  <2>2. e.at = stamp[x.id] /\ stamp[x.id] \in 1..n
    BY <1>5, <2>1
  <2> HIDE DEF n
  <2> QED BY <1>3, <2>2
<1>11. ASSUME NEW p \in Partitions
       PROVE  /\ Part(Restamped(all, stamp), p) = Restamped(file[p], stamp)
              /\ Part(Restamped(file[p], stamp), p) = Restamped(file[p], stamp)
  <2>1. \A x \in all : x \in file[p] <=> PartitionOf[x.id] = p
    BY DEF Parted, Part
  <2>2. ASSUME NEW e \in Part(Restamped(all, stamp), p)
        PROVE  e \in Restamped(file[p], stamp)
    <3>1. PICK x \in all : e = New(x)
      BY <1>8 DEF Part
    <3>2. x \in file[p]
      BY <1>5, <2>1, <3>1 DEF Part
    <3> QED BY <1>8, <3>1, <3>2
  <2>3. ASSUME NEW e \in Restamped(file[p], stamp)
        PROVE  e \in Part(Restamped(all, stamp), p)
    <3>1. PICK x \in file[p] : e = New(x)
      BY <1>8
    <3>2. x \in all /\ PartitionOf[x.id] = p
      BY <1>1, <2>1
    <3>3. e \in Restamped(all, stamp) /\ e.id = x.id
      BY <1>5, <1>8, <3>1, <3>2
    <3> QED BY <3>2, <3>3 DEF Part
  <2>4. Part(Restamped(all, stamp), p) = Restamped(file[p], stamp)
    BY <2>2, <2>3
  <2> QED BY <2>4 DEF Part
<1>12. Parted([p \in Partitions |-> Restamped(file[p], stamp)])
  BY <1>1, <1>9, <1>11 DEF Parted
<1> QED BY <1>3, <1>9, <1>10, <1>11, <1>12

\* What Open does, said of the entries of the files.
LEMMA Opening ==
  ASSUME TypeOK, Open
  PROVE  /\ docs' \in SUBSET Entries /\ Ordered(docs')
         /\ next' \in Nat /\ \A e \in docs' : e.at <= next'
         /\ Parted(file')
         /\ \A p \in Partitions : file'[p] = Part(docs', p)
<1> DEFINE all == UNION {file[p] : p \in Partitions}
<1>1. PICK stamp \in [IdsOf(all) -> 1..Cardinality(IdsOf(all))] :
        /\ KeepsOrder(stamp)
        /\ docs' = Restamped(all, stamp)
        /\ next' = Cardinality(IdsOf(all))
        /\ file' = [p \in Partitions |-> Restamped(file[p], stamp)]
  BY DEF Open
<1>2. Parted(file)
  BY DEF TypeOK
<1> HIDE DEF all
<1>3. all = UNION {file[p] : p \in Partitions}
  BY DEF all
<1>4. /\ Cardinality(IdsOf(all)) \in Nat
      /\ Restamped(all, stamp) \in SUBSET Entries
      /\ Ordered(Restamped(all, stamp))
      /\ \A e \in Restamped(all, stamp) : e.at <= Cardinality(IdsOf(all))
      /\ Parted([p \in Partitions |-> Restamped(file[p], stamp)])
      /\ \A p \in Partitions :
           Part(Restamped(all, stamp), p) = Restamped(file[p], stamp)
  BY <1>1, <1>2, <1>3, Loaded
<1> QED BY <1>1, <1>4

LEMMA OpenType ==
  ASSUME TypeInv, Open
  PROVE  TypeInv'
<1> USE DEF TypeInv
<1>1. Parted(snapshot') /\ Parted(file')
  <2>1. Parted(snapshot')
    BY DEF Open, TypeOK
  <2> QED BY <2>1, Opening
<1>2. opened' /\ opened' \in BOOLEAN /\ untrimmed' \in BOOLEAN
  BY DEF Open, TypeOK
<1>3. /\ ops' = ops /\ writing' = writing /\ marked' = marked
      /\ unmarked' = unmarked /\ dirtyPartitions' = dirtyPartitions
      /\ maxDocs' \in {Cap, Infinity}
  BY DEF Open, LoadedCap
<1>4. TypeOK'
  BY <1>1, <1>2, <1>3, Opening DEF TypeOK
<1> QED BY <1>2, <1>4 DEF ClosedIsClean

LEMMA TypeStep == TypeInv /\ [Next]_vars => TypeInv'
<1> SUFFICES ASSUME TypeInv, [Next]_vars PROVE TypeInv'
  OBVIOUS
<1>1. CASE Next
  BY <1>1, Kinds, OpenType, CloseType, ClearType, BeginFlushType, InsertsType,
     ThrowsType, ReplacesType, UpdateType, RemovesType, WrittenType,
     WriteFailsType
<1>2. CASE UNCHANGED vars
  <2>1. Parted(snapshot') /\ Parted(file') /\ Ordered(docs')
    BY <1>2 DEF TypeInv, TypeOK, vars
  <2> QED BY <1>2, <2>1 DEF TypeInv, TypeOK, ClosedIsClean, vars
<1> QED BY <1>1, <1>2

\* Every variable keeps its type: ids stay unique and places distinct, in memory
\* and on disk, and a document never gets into the file of another partition.
THEOREM CollectionTypeCorrect == Spec => []TypeOK
<1>1. TypeInv => TypeOK
  BY DEF TypeInv
<1> QED BY <1>1, TypeInit, TypeStep, PTL DEF Spec

(***************************************************************************)
(* What is not marked is saved.                                            *)
(***************************************************************************)

SavedInv == TypeInv /\ UnmarkedIsSaved

\* A call keeps it that marks the partitions it changes.
LEMMA MarkedEnough ==
  ASSUME UnmarkedIsSaved, opened, marked \subseteq marked',
         \A p \in Partitions \ marked' : Part(docs', p) = Part(docs, p),
         writing' = writing, snapshot' = snapshot, file' = file,
         unmarked' = unmarked
  PROVE  UnmarkedIsSaved'
BY DEF UnmarkedIsSaved, Saved

\* Entries of other partitions than those of some ids.
LEMMA ApartFrom ==
  ASSUME NEW D, NEW p, p \notin PartitionsOf(IdsOf(D)), NEW e \in D
  PROVE  PartitionOf[e.id] # p
BY DEF PartitionsOf, IdsOf

LEMMA InsertsSaved ==
  ASSUME SavedInv, NEW ids \in Seq(Ids), NEW doc \in Docs, InsertsNew(ids, doc)
  PROVE  UnmarkedIsSaved'
<1> DEFINE E == docs \cup Brought(ids, doc)
<1>1. E \in SUBSET Entries /\ \A e \in Brought(ids, doc) : e.id \in Ranged(ids)
  BY WithBrought DEF InsertsNew, SavedInv, TypeInv
<1>2. docs' = E \ Evicted(E)
  BY DEF InsertsNew, InsertAll
<1>3. /\ marked \subseteq marked'
      /\ PartitionsOf(Ranged(ids)) \subseteq marked'
      /\ PartitionsOf(IdsOf(Evicted(E))) \subseteq marked'
  <2>1. MarkDirty(Ranged(ids), IdsOf(Evicted(E)))
    BY DEF InsertsNew, InsertAll
  <2>2. IdsOf(Evicted(E)) \in SUBSET Ids
    BY <1>1, EvictedType, IdsOfType
  <2> QED BY <2>1, <2>2, RangedType, MarkType DEF InsertsNew, SavedInv, TypeInv
<1>4. ASSUME NEW p \in Partitions \ marked'
      PROVE  Part(docs', p) = Part(docs, p)
  <2>1. \A e \in Evicted(E) : PartitionOf[e.id] # p
    BY <1>3, ApartFrom
  <2>2. \A e \in Brought(ids, doc) : PartitionOf[e.id] # p
    BY <1>1, <1>3 DEF PartitionsOf
  <2> QED BY <1>2, <2>1, <2>2, EvictedType DEF Part
<1>5. opened /\ UnmarkedIsSaved
  BY DEF InsertsNew, Call, SavedInv
<1>6. /\ writing' = writing /\ snapshot' = snapshot /\ file' = file
      /\ unmarked' = unmarked
  BY DEF InsertsNew, InsertAll
<1> QED BY <1>3, <1>4, <1>5, <1>6, MarkedEnough

LEMMA ReplacesSaved ==
  ASSUME SavedInv, NEW id \in Ids, NEW doc \in Docs, Replaces(id, doc)
  PROVE  UnmarkedIsSaved'
<1> DEFINE E == Replaced(docs, id, doc)
<1>1. E \in SUBSET Entries /\ \A x : x.id # id => (x \in E <=> x \in docs)
  BY WithReplaced DEF SavedInv, TypeInv, TypeOK
<1>2. docs' = E \ Evicted(E)
  BY DEF Replaces, Replace
<1>3. /\ marked \subseteq marked'
      /\ PartitionsOf({id}) \subseteq marked'
      /\ PartitionsOf(IdsOf(Evicted(E))) \subseteq marked'
  <2>1. MarkDirty({id}, IdsOf(Evicted(E)))
    BY DEF Replaces, Replace
  <2>2. IdsOf(Evicted(E)) \in SUBSET Ids
    BY <1>1, EvictedType, IdsOfType
  <2> QED BY <2>1, <2>2, MarkType DEF SavedInv, TypeInv
<1>4. ASSUME NEW p \in Partitions \ marked'
      PROVE  Part(docs', p) = Part(docs, p)
  <2>1. \A e \in Evicted(E) : PartitionOf[e.id] # p
    BY <1>3, ApartFrom
  <2>2. PartitionOf[id] # p
    BY <1>3 DEF PartitionsOf
  <2> QED BY <1>1, <1>2, <2>1, <2>2, EvictedType DEF Part
<1>5. opened /\ UnmarkedIsSaved
  BY DEF Replaces, Call, SavedInv
<1>6. /\ writing' = writing /\ snapshot' = snapshot /\ file' = file
      /\ unmarked' = unmarked
  BY DEF Replaces, Replace
<1> QED BY <1>3, <1>4, <1>5, <1>6, MarkedEnough

LEMMA UpdateSaved ==
  ASSUME SavedInv, NEW id \in Ids, NEW changes \in Changes, Update(id, changes)
  PROVE  UnmarkedIsSaved'
<1>1. PICK d \in docs :
        /\ d.id = id /\ docs' = Replaced(docs, id, Merged(d.doc, changes))
  BY DEF Update
<1>2. Merged(d.doc, changes) \in Docs
  BY ChangesAssumption DEF SavedInv, TypeInv, TypeOK, Entries
<1>3. \A x : x.id # id => (x \in docs' <=> x \in docs)
  BY <1>1, <1>2, WithReplaced DEF SavedInv, TypeInv, TypeOK
<1>4. marked \subseteq marked' /\ PartitionsOf({id}) \subseteq marked'
  BY MarkType DEF Update, SavedInv, TypeInv
<1>5. ASSUME NEW p \in Partitions \ marked'
      PROVE  Part(docs', p) = Part(docs, p)
  <2>1. PartitionOf[id] # p
    BY <1>4 DEF PartitionsOf
  <2> QED BY <1>3, <2>1 DEF Part
<1>6. opened /\ UnmarkedIsSaved
  BY DEF Update, Call, SavedInv
<1>7. /\ writing' = writing /\ snapshot' = snapshot /\ file' = file
      /\ unmarked' = unmarked
  BY DEF Update
<1> QED BY <1>4, <1>5, <1>6, <1>7, MarkedEnough

LEMMA RemovesSaved ==
  ASSUME SavedInv, NEW gone, Removes(gone)
  PROVE  UnmarkedIsSaved'
<1>1. docs' = docs \ gone
  BY DEF Removes, Remove
<1>2. marked \subseteq marked' /\ PartitionsOf(IdsOf(gone)) \subseteq marked'
  <2>1. IdsOf(gone) \in SUBSET Ids
    BY IdsOfType DEF Removes, SavedInv, TypeInv, TypeOK
  <2>2. IdsOf(gone) # {} /\ MarkDirty(IdsOf(gone), {})
    BY DEF Removes, Remove, IdsOf
  <2> QED BY <2>1, <2>2, MarkType DEF SavedInv, TypeInv
<1>3. ASSUME NEW p \in Partitions \ marked'
      PROVE  Part(docs', p) = Part(docs, p)
  <2>1. \A e \in gone : PartitionOf[e.id] # p
    BY <1>2, ApartFrom
  <2> QED BY <1>1, <2>1 DEF Part
<1>4. opened /\ UnmarkedIsSaved
  BY DEF Removes, Remove, Call, SavedInv
<1>5. /\ writing' = writing /\ snapshot' = snapshot /\ file' = file
      /\ unmarked' = unmarked
  BY DEF Removes, Remove
<1> QED BY <1>2, <1>3, <1>4, <1>5, MarkedEnough

\* What an insertMany() that throws leaves behind is the exception.
LEMMA ThrowsSaved ==
  ASSUME SavedInv, NEW ids \in Seq(Ids), NEW doc \in Docs,
         InsertManyThrows(ids, doc)
  PROVE  UnmarkedIsSaved'
<1>1. PICK n \in Clashes(ids) :
        LET before == SubSeq(ids, 1, n - 1)
        IN  /\ \A m \in Clashes(ids) : n <= m
            /\ docs' = docs \cup Brought(before, doc)
            /\ unmarked' = unmarked \cup Ranged(before)
  BY DEF InsertManyThrows
<1> DEFINE before == SubSeq(ids, 1, n - 1)
<1>2. before \in Seq(Ids) /\ Clashes(before) = {}
  BY <1>1, BeforeClash
<1>3. docs' = docs \cup Brought(before, doc)
      /\ unmarked' = unmarked \cup Ranged(before)
  BY <1>1
<1> HIDE DEF before
<1>4. \A e \in Brought(before, doc) : e.id \in Ranged(before) /\ ~Has(e.id)
  BY <1>2, WithBrought DEF SavedInv, TypeInv
<1>5. \A id \in Ranged(before) : ~Has(id)
  BY <1>2, LenProperties DEF Clashes, Ranged
<1>6. \A e \in docs : e.id \notin Ranged(before)
  BY <1>5 DEF Has, IdsOf
<1>7. \A p \in Partitions :
        {e \in Part(docs', p) : e.id \notin unmarked'}
          = {e \in Part(docs, p) : e.id \notin unmarked}
  BY <1>3, <1>4, <1>6 DEF Part
<1> QED
  BY <1>7 DEF InsertManyThrows, Call, SavedInv, UnmarkedIsSaved, Saved

LEMMA BeginFlushSaved ==
  ASSUME SavedInv, BeginFlush
  PROVE  UnmarkedIsSaved'
<1> SUFFICES ASSUME NEW p \in Partitions
             PROVE  Saved(p)' = {e \in Part(docs', p) : e.id \notin unmarked'}
  BY DEF UnmarkedIsSaved
<1>1. /\ docs' = docs /\ file' = file /\ writing = {} /\ writing' = marked
      /\ unmarked' = {id \in unmarked : PartitionOf[id] \notin marked}
      /\ snapshot'[p] = IF p \in marked THEN Part(docs, p) ELSE snapshot[p]
  BY DEF BeginFlush
<1>2. CASE p \in marked
  <2>1. \A e \in Part(docs, p) : e.id \notin unmarked'
    BY <1>1, <1>2 DEF Part
  <2> QED BY <1>1, <1>2, <2>1 DEF Saved
<1>3. CASE p \notin marked
  <2>1. Saved(p) = {e \in Part(docs, p) : e.id \notin unmarked}
    BY <1>3 DEF SavedInv, UnmarkedIsSaved, BeginFlush
  <2>2. \A e \in Part(docs, p) : e.id \in unmarked' <=> e.id \in unmarked
    BY <1>1, <1>3 DEF Part
  <2>3. Saved(p)' = Saved(p)
    BY <1>1, <1>3 DEF Saved
  <2> QED BY <1>1, <2>1, <2>2, <2>3
<1> QED BY <1>2, <1>3

LEMMA WrittenSaved ==
  ASSUME SavedInv, NEW p \in Partitions, Written(p)
  PROVE  UnmarkedIsSaved'
<1>1. /\ opened /\ docs' = docs /\ marked' = marked /\ unmarked' = unmarked
      /\ writing' = writing \ {p} /\ snapshot' = snapshot /\ p \in writing
      /\ \A q \in Partitions : file'[q] = IF q = p THEN snapshot[q] ELSE file[q]
  BY DEF Written, SavedInv, TypeInv, TypeOK, Parted
<1>2. \A q \in Partitions : Saved(q)' = Saved(q)
  BY <1>1 DEF Saved
<1> QED BY <1>1, <1>2 DEF UnmarkedIsSaved, SavedInv

LEMMA WriteFailsSaved ==
  ASSUME SavedInv, NEW p \in Partitions, WriteFails(p)
  PROVE  UnmarkedIsSaved'
<1>1. /\ opened /\ docs' = docs /\ marked' = marked \cup {p}
      /\ unmarked' = unmarked /\ writing' = writing \ {p}
      /\ snapshot' = snapshot /\ file' = file
  BY DEF WriteFails, Remarked
<1>2. \A q \in Partitions \ marked' : Saved(q)' = Saved(q)
  BY <1>1 DEF Saved
<1> QED BY <1>1, <1>2 DEF UnmarkedIsSaved, SavedInv

LEMMA OpenSaved ==
  ASSUME SavedInv, Open
  PROVE  UnmarkedIsSaved'
<1>1. \A p \in Partitions : file'[p] = Part(docs', p)
  BY Opening DEF SavedInv, TypeInv
<1>2. unmarked' = {} /\ writing' = {}
  BY DEF Open, SavedInv, TypeInv, ClosedIsClean
<1> QED BY <1>1, <1>2 DEF UnmarkedIsSaved, Saved

LEMMA SavedStep == SavedInv /\ [Next]_vars => SavedInv'
<1> SUFFICES ASSUME SavedInv, [Next]_vars PROVE UnmarkedIsSaved'
  BY TypeStep DEF SavedInv
<1>1. CASE Next
  <2>1. Close => UnmarkedIsSaved'
    BY DEF Close, UnmarkedIsSaved
  <2>2. Clear => UnmarkedIsSaved'
    BY DEF Clear, UnmarkedIsSaved
  <2> QED
    BY <1>1, <2>1, <2>2, Kinds, OpenSaved, BeginFlushSaved, InsertsSaved,
       ThrowsSaved, ReplacesSaved, UpdateSaved, RemovesSaved, WrittenSaved,
       WriteFailsSaved
<1>2. CASE UNCHANGED vars
  BY <1>2 DEF SavedInv, UnmarkedIsSaved, Saved, vars
<1> QED BY <1>1, <1>2

\* For every collection and any number of partitions, calls and failed writes:
\* what is not marked is on disk, or being written, as it is in memory, but for
\* what an insertMany() that threw has left behind.
THEOREM NothingForgotten == Spec => []UnmarkedIsSaved
<1>1. Init => SavedInv
  BY TypeInit DEF Init, SavedInv, UnmarkedIsSaved
<1>2. SavedInv => UnmarkedIsSaved
  BY DEF SavedInv
<1> QED BY <1>1, <1>2, SavedStep, PTL DEF Spec

(***************************************************************************)
(* The cap.                                                                *)
(***************************************************************************)

CapInv == TypeInv /\ CapHolds

\* Documents do not get more.
LEMMA NoMore ==
  ASSUME CapInv, TypeInv', opened, maxDocs' = maxDocs, untrimmed' = untrimmed,
         IdsOf(docs') \subseteq IdsOf(docs)
  PROVE  CapHolds'
<1>1. /\ Cardinality(docs) = Cardinality(IdsOf(docs)) /\ IsFiniteSet(IdsOf(docs))
      /\ Cardinality(docs) \in Nat
  BY AsManyAsIds DEF CapInv, TypeInv, TypeOK
<1>2. docs' \in SUBSET Entries /\ Ordered(docs')
  BY DEF TypeInv, TypeOK
<1>3. Cardinality(docs') = Cardinality(IdsOf(docs')) /\ Cardinality(docs') \in Nat
  BY <1>2, AsManyAsIds
<1>4. Cardinality(IdsOf(docs')) <= Cardinality(IdsOf(docs))
  BY <1>1, FS_Subset
<1>5. maxDocs # Infinity => maxDocs \in Nat
  BY CollectionAssumption DEF CapInv, TypeInv, TypeOK
<1>6. maxDocs # Infinity /\ ~untrimmed => Cardinality(docs) <= maxDocs
  BY DEF CapInv, CapHolds
<1>7. maxDocs' # Infinity /\ ~untrimmed' => Cardinality(docs') <= maxDocs'
  BY <1>1, <1>3, <1>4, <1>5, <1>6
<1> QED BY <1>7 DEF CapHolds

LEMMA InsertsCap ==
  ASSUME CapInv, NEW ids \in Seq(Ids), NEW doc \in Docs, InsertsNew(ids, doc)
  PROVE  CapHolds'
<1> DEFINE E == docs \cup Brought(ids, doc)
<1>1. E \in SUBSET Entries /\ Ordered(E)
  BY WithBrought DEF InsertsNew, CapInv, TypeInv
<1>2. docs' = E \ Evicted(E) /\ maxDocs' = maxDocs
  BY DEF InsertsNew, InsertAll
<1>3. maxDocs # Infinity => Cardinality(E \ Evicted(E)) <= maxDocs
  BY <1>1, Trimmed DEF CapInv, TypeInv, TypeOK
<1> QED BY <1>2, <1>3 DEF CapHolds

LEMMA ReplacesCap ==
  ASSUME CapInv, NEW id \in Ids, NEW doc \in Docs, Replaces(id, doc)
  PROVE  CapHolds'
<1> DEFINE E == Replaced(docs, id, doc)
<1>1. E \in SUBSET Entries /\ Ordered(E)
  BY WithReplaced DEF CapInv, TypeInv, TypeOK
<1>2. docs' = E \ Evicted(E) /\ maxDocs' = maxDocs
  BY DEF Replaces, Replace
<1>3. maxDocs # Infinity => Cardinality(E \ Evicted(E)) <= maxDocs
  BY <1>1, Trimmed DEF CapInv, TypeInv, TypeOK
<1> QED BY <1>2, <1>3 DEF CapHolds

\* A collection that is loaded has a cap only when there is nothing to load.
LEMMA OpenCap ==
  ASSUME CapInv, Open
  PROVE  CapHolds'
<1> SUFFICES ASSUME maxDocs' # Infinity PROVE Cardinality(docs') <= maxDocs'
  BY DEF CapHolds
<1>1. maxDocs' = Cap /\ \A p \in Partitions : file[p] = {}
  BY DEF Open, LoadedCap
<1> DEFINE all == UNION {file[p] : p \in Partitions}
<1>2. \E stamp : docs' = Restamped(all, stamp)
  BY DEF Open
<1>3. docs' = {}
  BY <1>1, <1>2 DEF Restamped
<1> QED BY <1>1, <1>3, FS_EmptySet, CollectionAssumption

LEMMA CapStep == CapInv /\ [Next]_vars => CapInv'
<1> SUFFICES ASSUME CapInv, [Next]_vars PROVE CapHolds'
  BY TypeStep DEF CapInv
<1>1. TypeInv'
  BY TypeStep DEF CapInv
<1>2. CASE Next
  <2>1. Close => CapHolds'
    BY DEF Close, CapHolds
  <2>2. Clear => CapHolds'
    <3> SUFFICES ASSUME Clear PROVE CapHolds'
      OBVIOUS
    <3>1. opened /\ maxDocs' = maxDocs /\ untrimmed' = untrimmed
          /\ IdsOf(docs') \subseteq IdsOf(docs)
      BY DEF Clear, Call, IdsOf
    <3> QED BY <1>1, <3>1, NoMore
  <2>3. ASSUME NEW ids \in Seq(Ids), NEW doc \in Docs, InsertManyThrows(ids, doc)
        PROVE  CapHolds'
    BY <2>3 DEF InsertManyThrows, CapHolds
  <2>4. ASSUME NEW id \in Ids, NEW changes \in Changes, Update(id, changes)
        PROVE  CapHolds'
    <3>1. PICK d \in docs :
            /\ d.id = id /\ docs' = Replaced(docs, id, Merged(d.doc, changes))
      BY <2>4 DEF Update
    <3>2. Merged(d.doc, changes) \in Docs
      BY ChangesAssumption DEF CapInv, TypeInv, TypeOK, Entries
    <3>3. IdsOf(docs') = IdsOf(docs)
      BY <3>1, <3>2, WithReplaced DEF CapInv, TypeInv, TypeOK
    <3>4. opened /\ maxDocs' = maxDocs /\ untrimmed' = untrimmed
      BY <2>4 DEF Update, Call
    <3> QED BY <1>1, <3>3, <3>4, NoMore
  <2>5. ASSUME NEW gone, Removes(gone) PROVE CapHolds'
    <3>1. opened /\ maxDocs' = maxDocs /\ untrimmed' = untrimmed
          /\ IdsOf(docs') \subseteq IdsOf(docs)
      BY <2>5 DEF Removes, Remove, Call, IdsOf
    <3> QED BY <1>1, <3>1, NoMore
  <2>6. BeginFlush \/ (\E p \in Partitions : Written(p) \/ WriteFails(p))
          => CapHolds'
    <3> SUFFICES ASSUME
                   BeginFlush \/ \E p \in Partitions : Written(p) \/ WriteFails(p)
                 PROVE  CapHolds'
      OBVIOUS
    <3>1. opened /\ maxDocs' = maxDocs /\ untrimmed' = untrimmed /\ docs' = docs
      BY DEF BeginFlush, Written, WriteFails
    <3>2. IdsOf(docs') \subseteq IdsOf(docs)
      BY <3>1
    <3> QED BY <1>1, <3>1, <3>2, NoMore
  <2> QED
    BY <1>2, <2>1, <2>2, <2>3, <2>4, <2>5, <2>6, Kinds, OpenCap, InsertsCap,
       ReplacesCap
<1>3. CASE UNCHANGED vars
  BY <1>3 DEF CapInv, CapHolds, vars
<1> QED BY <1>2, <1>3

\* A collection that has a cap is within it after every call but an insertMany()
\* that throws.
THEOREM WithinCap == Spec => []CapHolds
<1>1. Init => CapInv
  BY TypeInit DEF Init, CapInv, CapHolds
<1>2. CapInv => CapHolds
  BY DEF CapInv
<1> QED BY <1>1, <1>2, CapStep, PTL DEF Spec

(***************************************************************************)
(* Who makes room.                                                         *)
(***************************************************************************)

\* What OldestFirst says of a call that inserts some ids.
MakesRoom(ids) ==
  /\ \A e, x \in docs : ~Stays(e) /\ Stays(x) => e.at < x.at
  /\ (\E e \in docs : ~Stays(e)) => Cardinality(docs') = maxDocs
  /\ (\E x \in docs : Stays(x)) => ids \ IdsOf(docs) \subseteq IdsOf(docs')

LEMMA InsertsMakesRoom ==
  ASSUME TypeInv, NEW ids \in Seq(Ids), NEW doc \in Docs, InsertsNew(ids, doc)
  PROVE  MakesRoom(Ranged(ids))
<1> DEFINE E == docs \cup Brought(ids, doc)
<1>1. /\ E \in SUBSET Entries /\ Ordered(E)
      /\ \A e \in Brought(ids, doc) : e.at > next
  BY WithBrought DEF InsertsNew, TypeInv
<1>2. docs' = E \ Evicted(E)
  BY DEF InsertsNew, InsertAll
<1>3. /\ Evicted(E) # {} => Cardinality(E \ Evicted(E)) = maxDocs
      /\ \A e \in Evicted(E), x \in E \ Evicted(E) : e.at < x.at
  BY <1>1, Trimmed DEF TypeInv, TypeOK
<1>4. \A e \in docs : IF Stays(e) THEN e \in E \ Evicted(E) ELSE e \in Evicted(E)
  BY <1>1, <1>2 DEF Stays, IdsOf, Ordered
<1>5. ASSUME NEW x \in docs, Stays(x), NEW id \in Ranged(ids)
      PROVE  id \in IdsOf(docs')
  <2>1. PICK n \in DOMAIN ids : id = ids[n]
    BY DEF Ranged
  <2> DEFINE new == [id |-> ids[n], at |-> next + n, doc |-> doc]
  <2>2. PICK e \in Brought(ids, doc) : e.id = id
    <3>1. new \in Brought(ids, doc) /\ new.id = id
      BY <2>1 DEF Brought
    <3> HIDE DEF new
    <3> QED BY <3>1
  <2>3. e.at > next /\ x.at <= next /\ next \in Nat /\ e.at \in Nat /\ x.at \in Nat
    BY <1>1 DEF TypeInv, TypeOK, Entries
  <2>4. e \notin Evicted(E)
    <3>1. x \in E \ Evicted(E)
      BY <1>4, <1>5
    <3>2. e \in Evicted(E) => e.at < x.at
      BY <1>3, <3>1
    <3> QED BY <2>3, <3>2
  <2> QED BY <1>2, <2>2, <2>4 DEF IdsOf
<1> QED BY <1>2, <1>3, <1>4, <1>5 DEF MakesRoom

LEMMA ReplacesMakesRoom ==
  ASSUME TypeInv, NEW id \in Ids, NEW doc \in Docs, Replaces(id, doc)
  PROVE  MakesRoom({id})
<1> DEFINE E == Replaced(docs, id, doc)
<1>1. /\ E \in SUBSET Entries /\ Ordered(E)
      /\ \A e \in E : \E x \in docs : e.id = x.id /\ e.at = x.at
      /\ \A x \in docs : \E e \in E : e.id = x.id /\ e.at = x.at
  BY WithReplaced DEF TypeInv, TypeOK
<1>2. docs' = E \ Evicted(E)
  BY DEF Replaces, Replace
<1>3. /\ Evicted(E) # {} => Cardinality(E \ Evicted(E)) = maxDocs
      /\ \A e \in Evicted(E), x \in E \ Evicted(E) : e.at < x.at
  BY <1>1, Trimmed DEF TypeInv, TypeOK
<1>4. ASSUME NEW x \in docs
      PROVE  \E e \in E : /\ e.at = x.at
                          /\ IF Stays(x) THEN e \in E \ Evicted(E)
                                         ELSE e \in Evicted(E)
  <2>1. PICK e \in E : e.id = x.id /\ e.at = x.at
    BY <1>1
  <2>2. e \in docs' <=> Stays(x)
    <3>1. e \in docs' => Stays(x)
      BY <2>1 DEF Stays, IdsOf
    <3>2. ASSUME Stays(x) PROVE e \in docs'
      <4>1. PICK y \in docs' : y.id = x.id
        BY <3>2 DEF Stays, IdsOf
      <4>2. y = e
        BY <1>1, <1>2, <2>1, <4>1 DEF Ordered
      <4> QED BY <4>1, <4>2
    <3> QED BY <3>1, <3>2
  <2> QED BY <1>2, <2>1, <2>2
<1>5. \A e, x \in docs : ~Stays(e) /\ Stays(x) => e.at < x.at
  BY <1>3, <1>4
<1>6. (\E e \in docs : ~Stays(e)) => Cardinality(docs') = maxDocs
  BY <1>2, <1>3, <1>4
<1>7. {id} \ IdsOf(docs) = {}
  BY DEF Replaces, Has
<1> QED BY <1>5, <1>6, <1>7 DEF MakesRoom

LEMMA RoomStep ==
  ASSUME TypeInv
  PROVE  OldestFirst
<1> SUFFICES ASSUME NEW ids \in Batches, Inserts(ids) PROVE MakesRoom(Ranged(ids))
  BY DEF OldestFirst, MakesRoom
<1>1. PICK doc \in Docs :
        \/ InsertMany(ids, doc)
        \/ Len(ids) = 1 /\ (Insert(ids[1], doc) \/ Set(ids[1], doc))
  BY DEF Inserts
<1>2. ids \in Seq(Ids) /\ ids # <<>>
  BY BatchType
<1>3. CASE InsertMany(ids, doc)
  <2>1. InsertsNew(ids, doc)
    BY <1>2, <1>3 DEF InsertMany, InsertsNew
  <2> QED BY <1>2, <2>1, InsertsMakesRoom
<1>4. CASE Len(ids) = 1 /\ (Insert(ids[1], doc) \/ Set(ids[1], doc))
  <2>1. ids[1] \in Ids /\ DOMAIN ids = 1..1
    BY <1>2, <1>4, LenProperties
  <2>2. Ranged(ids) = {ids[1]} /\ Ranged(<<ids[1]>>) = {ids[1]}
    BY <2>1, OneId DEF Ranged
  <2>3. InsertsNew(<<ids[1]>>, doc) \/ Replaces(ids[1], doc)
    <3>1. <<ids[1]>> # <<>>
      OBVIOUS
    <3> QED BY <1>4, <2>1, <3>1, OneId DEF Insert, Set, InsertsNew, Replaces
  <2>4. <<ids[1]>> \in Seq(Ids)
    BY <2>1, OneId
  <2>5. InsertsNew(<<ids[1]>>, doc) => MakesRoom(Ranged(ids))
    BY <2>2, <2>4, InsertsMakesRoom
  <2>6. Replaces(ids[1], doc) => MakesRoom(Ranged(ids))
    BY <2>1, <2>2, ReplacesMakesRoom
  <2> QED BY <2>3, <2>5, <2>6
<1> QED BY <1>1, <1>3, <1>4

\* Whatever is inserted, by whichever call: the documents that make room are
\* older than all that stay, and no more than have to.
THEOREM OldestMakeRoom == Spec => OldestGoFirst
<1>1. TypeInv /\ [Next]_vars => [OldestFirst]_vars
  BY RoomStep
<1> QED BY <1>1, TypeInit, TypeStep, PTL DEF Spec, OldestGoFirst

(***************************************************************************)
(* Module History: what a query asks for, and the places of the rows.      *)
(***************************************************************************)

LEMMA RowTypes ==
  ASSUME NEW doc \in Docs
  PROVE  /\ DOMAIN doc = {"startTime", "streamPath", "ip"}
         /\ doc.startTime \in 1..MaxTime /\ doc.startTime \in Nat
         /\ doc.streamPath \in Paths /\ doc.ip \in Addresses
         /\ \A field \in DOMAIN doc :
              FieldOf(doc, field) = doc[field] /\ ~Absent(doc[field])
<1>1. doc \in [startTime : 1..MaxTime, streamPath : Paths, ip : Addresses]
  BY HistoryAssumption
<1>2. /\ DOMAIN doc = {"startTime", "streamPath", "ip"}
      /\ doc.startTime \in 1..MaxTime /\ doc.startTime \in Nat
      /\ doc.streamPath \in Paths /\ doc.ip \in Addresses
  BY <1>1, HistoryAssumption
<1>3. /\ ~Absent(doc.startTime) /\ ~Absent(doc.streamPath) /\ ~Absent(doc.ip)
  BY <1>2, HistoryAssumption DEF Absent
<1> QED BY <1>2, <1>3 DEF FieldOf

\* The filter that listHistory builds matches what the query asks for.
LEMMA FilterIsWanted ==
  ASSUME NEW request \in Requests, NEW doc \in Docs
  PROVE  MatchesFilter(doc, FilterOf(request)) <=> Wanted(doc, request)
<1> DEFINE since  == [op |-> "$gte", field |-> "startTime",
                      operand |-> request.start]
           until  == [op |-> "$lte", field |-> "startTime",
                      operand |-> request.end]
           onPath == [op |-> "$eq", field |-> "streamPath",
                      operand |-> request.streamPath]
           from   == [op |-> "$eq", field |-> "ip", operand |-> request.ip]
           in(f)  == [op |-> "$contains", field |-> f, operand |-> request.search]
           either == [op |-> "$or",
                      filters |-> {{in(f)} : f \in {"streamPath", "ip"}}]
<1>1. FilterOf(request) =
        UNION {IF request.start = None THEN {} ELSE {since},
               IF request.end = None THEN {} ELSE {until},
               IF request.streamPath = None THEN {} ELSE {onPath},
               IF request.ip = None THEN {} ELSE {from},
               IF request.search = None THEN {} ELSE {either}}
  BY DEF FilterOf, Asked
<1>2. MatchClause(doc, since) <=> doc.startTime >= request.start
  BY RowTypes DEF MatchClause, MatchCondition, MatchOperator
<1>3. MatchClause(doc, until) <=> doc.startTime <= request.end
  BY RowTypes DEF MatchClause, MatchCondition, MatchOperator
<1>4. MatchClause(doc, onPath) <=> doc.streamPath = request.streamPath
  BY RowTypes DEF MatchClause, MatchCondition, MatchOperator
<1>5. MatchClause(doc, from) <=> doc.ip = request.ip
  BY RowTypes DEF MatchClause, MatchCondition, MatchOperator
<1>6. MatchClause(doc, either)
        <=> request.search \in doc.streamPath \cup doc.ip
  <2>1. \A f \in {"streamPath", "ip"} :
          MatchAll(doc, {in(f)}) <=> request.search \in doc[f]
    BY RowTypes DEF MatchAll, MatchCondition, MatchOperator
  <2>2. MatchClause(doc, either) <=>
          \E f \in {"streamPath", "ip"} : MatchAll(doc, {in(f)})
    <3> HIDE DEF in
    <3>1. either.op = "$or" /\ either.filters = {{in(f)} : f \in {"streamPath", "ip"}}
      OBVIOUS
    <3> HIDE DEF either
    <3> QED BY <3>1 DEF MatchClause
  <2> QED BY <2>1, <2>2
<1> HIDE DEF since, until, onPath, from, either
<1>7. MatchesFilter(doc, FilterOf(request)) <=>
        /\ request.start # None => MatchClause(doc, since)
        /\ request.end # None => MatchClause(doc, until)
        /\ request.streamPath # None => MatchClause(doc, onPath)
        /\ request.ip # None => MatchClause(doc, from)
        /\ request.search # None => MatchClause(doc, either)
  BY <1>1 DEF MatchesFilter
<1>8. /\ request.start # None => request.start \in Nat
      /\ request.end # None => request.end \in Nat
      /\ doc.startTime \in Nat
  BY HistoryAssumption, RowTypes
<1>9. request.start # None =>
        (doc.startTime >= request.start <=> request.start <= doc.startTime)
  BY <1>8
<1> QED BY <1>2, <1>3, <1>4, <1>5, <1>6, <1>7, <1>9 DEF Wanted

\* Newest first, and those of the same time in the order of the collection.
LEMMA NewestOrder ==
  ASSUME NEW x \in Entries, NEW y \in Entries
  PROVE  Precedes(NewestFirst, x, y) <=>
           \/ x.doc.startTime > y.doc.startTime
           \/ x.doc.startTime = y.doc.startTime /\ x.at < y.at
<1> DEFINE a == x.doc.startTime
           b == y.doc.startTime
<1>1. /\ x.doc \in Docs /\ y.doc \in Docs /\ a \in Nat /\ b \in Nat
      /\ FieldOf(x.doc, "startTime") = a /\ FieldOf(y.doc, "startTime") = b
      /\ ~Absent(a) /\ ~Absent(b)
  BY RowTypes DEF Entries
<1> HIDE DEF a, b
<1>2. /\ DOMAIN NewestFirst = 1..1
      /\ NewestFirst[1][1] = "startTime" /\ NewestFirst[1][2] = -1
  BY DEF NewestFirst
<1>3. CompareForSort(a, b) = a - b
  BY <1>1 DEF CompareForSort
<1>4. Differ(NewestFirst, x.doc, y.doc, 1) = b - a
  BY <1>1, <1>2, <1>3 DEF Differ
<1>5. SortsBefore(NewestFirst, x.doc, y.doc) <=> a > b
  BY <1>1, <1>2, <1>4 DEF SortsBefore
<1>6. Tied(NewestFirst, x.doc, y.doc) <=> a = b
  BY <1>1, <1>2, <1>4 DEF Tied
<1> QED BY <1>5, <1>6 DEF Precedes, a, b

\* The entries that are listed before one.
Ahead(E, e) == {x \in E : Precedes(NewestFirst, x, e)}

LEMMA AheadCounts ==
  ASSUME NEW E \in SUBSET Entries, Ordered(E)
  PROVE  /\ IsFiniteSet(E) /\ Cardinality(E) \in Nat
         /\ \A e \in E : /\ IsFiniteSet(Ahead(E, e))
                         /\ Cardinality(Ahead(E, e)) \in 0..(Cardinality(E) - 1)
         /\ \A x, e \in E : x \in Ahead(E, e)
              => Cardinality(Ahead(E, x)) < Cardinality(Ahead(E, e))
         /\ \A x, e \in E :
              Cardinality(Ahead(E, x)) = Cardinality(Ahead(E, e)) => x = e
<1>1. IsFiniteSet(E) /\ Cardinality(E) \in Nat
  BY AsManyAsIds
<1>2. \A e \in E : IsFiniteSet(Ahead(E, e)) /\ Cardinality(Ahead(E, e)) \in Nat
  BY <1>1, FS_Subset, FS_CardinalityType DEF Ahead
<1>3. \A x \in E : x.at \in Nat /\ x.doc.startTime \in Nat
  BY RowTypes DEF Entries
<1>4. ASSUME NEW e \in E PROVE Cardinality(Ahead(E, e)) < Cardinality(E)
  <2>1. Ahead(E, e) \in SUBSET (E \ {e})
    BY <1>3, NewestOrder DEF Ahead
  <2>2. IsFiniteSet(E \ {e}) /\ Cardinality(E \ {e}) = Cardinality(E) - 1
    BY <1>1, FS_RemoveElement
  <2> QED BY <1>1, <1>2, <2>1, <2>2, FS_Subset
<1>5. ASSUME NEW x \in E, NEW e \in E, x \in Ahead(E, e)
      PROVE  Cardinality(Ahead(E, x)) < Cardinality(Ahead(E, e))
  <2>1. Ahead(E, x) \in SUBSET (Ahead(E, e) \ {x})
    BY <1>3, <1>5, NewestOrder DEF Ahead
  <2>2. /\ IsFiniteSet(Ahead(E, e) \ {x})
        /\ Cardinality(Ahead(E, e) \ {x}) = Cardinality(Ahead(E, e)) - 1
    BY <1>2, <1>5, FS_RemoveElement
  <2> QED BY <1>2, <2>1, <2>2, FS_Subset
<1>6. ASSUME NEW x \in E, NEW e \in E,
             Cardinality(Ahead(E, x)) = Cardinality(Ahead(E, e))
      PROVE  x = e
  <2>1. x \notin Ahead(E, e) /\ e \notin Ahead(E, x)
    BY <1>2, <1>5, <1>6
  <2>2. x.at = e.at
    BY <1>3, <2>1, NewestOrder DEF Ahead
  <2> QED BY <2>2 DEF Ordered
<1> QED BY <1>1, <1>2, <1>4, <1>5, <1>6

\* The sorted sequence has each entry at the place that its rank gives it.
LEMMA SortedPlaces ==
  ASSUME NEW E \in SUBSET Entries, Ordered(E),
         NEW list, list = Sorted(E, NewestFirst)
  PROVE  /\ list \in Seq(E) /\ Len(list) = Cardinality(E)
         /\ \A k \in 1..Cardinality(E) :
              list[k] \in E /\ Cardinality(Ahead(E, list[k])) = k - 1
         /\ \A e \in E : list[1 + Cardinality(Ahead(E, e))] = e
<1> DEFINE n == Cardinality(E)
           place == [e \in E |-> 1 + Cardinality(Ahead(E, e))]
<1>1. /\ IsFiniteSet(E) /\ n \in Nat
      /\ \A e \in E : Cardinality(Ahead(E, e)) \in 0..(n - 1)
      /\ \A x, e \in E :
           Cardinality(Ahead(E, x)) = Cardinality(Ahead(E, e)) => x = e
  BY AheadCounts
<1>2. \A e \in E : place[e] \in 1..n /\ place[e] = 1 + Cardinality(Ahead(E, e))
  BY <1>1
<1>3. \A x, e \in E : place[x] = place[e] => x = e
  BY <1>1
<1>4. list = [k \in 1..n |-> CHOOSE e \in E : place[e] = k]
  BY DEF Sorted, Ahead
<1>5. place \in [E -> 1..n]
  BY <1>2
<1> HIDE DEF place
<1>6. \A k \in 1..n : \E e \in E : place[e] = k
  <2>1. IsFiniteSet(1..n) /\ Cardinality(1..n) = n
    <3>1. /\ IsFiniteSet(1..n)
          /\ Cardinality(1..n) = IF 1 > n THEN 0 ELSE n - 1 + 1
      BY <1>1, FS_Interval
    <3> QED BY <1>1, <3>1
  <2>2. place \in Injection(E, 1..n)
    BY <1>3, <1>5 DEF Injection, IsInjective
  <2>3. place \in Surjection(E, 1..n)
    BY <1>1, <2>1, <2>2, FS_Injection
  <2> QED BY <2>3 DEF Surjection
<1>7. \A k \in 1..n : list[k] \in E /\ place[list[k]] = k
  BY <1>4, <1>6
<1>8. list \in Seq(E) /\ Len(list) = n
  <2>1. list \in [1..n -> E]
    BY <1>4, <1>7
  <2> HIDE DEF n
  <2>2. list \in Seq(E)
    BY <1>1, <2>1, SeqDef
  <2>3. DOMAIN list = 1..n /\ DOMAIN list = 1..Len(list) /\ Len(list) \in Nat
    BY <2>1, <2>2, LenProperties
  <2>4. \A k \in Int : k \in 1..n <=> k \in 1..Len(list)
    BY <2>3
  <2>5. Len(list) = n
    BY <1>1, <2>3, <2>4
  <2> QED BY <2>2, <2>5
<1>9. \A e \in E : list[place[e]] = e
  BY <1>3, <1>5, <1>7
<1>10. \A e \in E : list[1 + Cardinality(Ahead(E, e))] = e
  BY <1>2, <1>9
<1>11. ASSUME NEW k \in 1..n PROVE Cardinality(Ahead(E, list[k])) = k - 1
  <2>1. PICK e \in E : e = list[k]
    BY <1>7
  <2>2. k = 1 + Cardinality(Ahead(E, e))
    BY <1>2, <1>7, <2>1
  <2> QED BY <1>1, <2>1, <2>2
<1> QED BY <1>7, <1>8, <1>10, <1>11

\* The entries of E whose ranks are those of a slice, in their order.
IsSlice(items, E, skip, limit) ==
  /\ items \in Seq(E)
  /\ skip <= Cardinality(E) => Len(items) = Smaller(limit, Cardinality(E) - skip)
  /\ \A i \in DOMAIN items : Cardinality(Ahead(E, items[i])) = skip + i - 1
  /\ \A e \in E :
       skip <= Cardinality(Ahead(E, e)) /\ Cardinality(Ahead(E, e)) < skip + limit
       => e \in Ranged(items)

\* What find() answers.
LEMMA Found ==
  ASSUME docs \in SUBSET Entries, Ordered(docs), NEW filter,
         NEW skip \in Nat, NEW limit \in Nat
  PROVE  IsSlice(Find(filter, NewestFirst, skip, limit), Matching(docs, filter),
                 skip, limit)
<1> DEFINE E == Matching(docs, filter)
           items == Find(filter, NewestFirst, skip, limit)
           list == Sorted(E, NewestFirst)
           n == Cardinality(E)
           last == Smaller(skip + limit, n)
           Rank(e) == Cardinality(Ahead(E, e))
<1>1. E \in SUBSET Entries /\ Ordered(E)
  BY DEF Matching, Ordered
<1>2. /\ list \in Seq(E) /\ Len(list) = n
      /\ \A k \in 1..n : list[k] \in E /\ Rank(list[k]) = k - 1
      /\ \A e \in E : list[1 + Rank(e)] = e
  BY <1>1, SortedPlaces
<1>3. n \in Nat /\ \A e \in E : Rank(e) \in 0..(n - 1)
  BY <1>1, AheadCounts
<1> HIDE DEF Rank, list, n
<1>4. items = SubSeq(list, skip + 1, last)
  BY <1>2 DEF Find, list, n
<1> HIDE DEF items, E
<1>5. last \in Int /\ last <= n /\ last <= skip + limit
      /\ (last = n \/ last = skip + limit)
  BY <1>3 DEF Smaller
<1> HIDE DEF last
<1>6. \A k \in (skip + 1)..last : list[k] \in E
  BY <1>2, <1>3, <1>5
<1>7. /\ items \in Seq(E)
      /\ Len(items) = IF skip + 1 <= last THEN last - (skip + 1) + 1 ELSE 0
      /\ \A i \in 1..(last - (skip + 1) + 1) : items[i] = list[skip + 1 + i - 1]
  BY <1>4, <1>5, <1>6, SubSeqProperties
<1>8. /\ DOMAIN items = 1..Len(items)
      /\ Len(items) = IF skip + 1 <= last THEN last - skip ELSE 0
      /\ \A i \in 1..(last - skip) : items[i] = list[skip + i]
  <2>1. last - (skip + 1) + 1 = last - skip /\ \A i \in Int : skip + 1 + i - 1 = skip + i
    BY <1>5
  <2> QED BY <1>7, <2>1, LenProperties
<1>9. skip <= n => Len(items) = Smaller(limit, n - skip)
  BY <1>3, <1>5, <1>8 DEF Smaller, last
<1>10. ASSUME NEW i \in DOMAIN items PROVE Rank(items[i]) = skip + i - 1
  <2>1. i \in 1..(last - skip) /\ skip + i \in 1..n
    BY <1>3, <1>5, <1>8
  <2>2. items[i] = list[skip + i]
    BY <1>8, <2>1
  <2> QED BY <1>2, <2>1, <2>2
<1>11. ASSUME NEW e \in E, skip <= Rank(e), Rank(e) < skip + limit
       PROVE  e \in Ranged(items)
  <2>1. PICK r \in 0..(n - 1) : r = Rank(e)
    BY <1>3
  <2>2. PICK i \in 1..(last - skip) : skip + i = 1 + r
    <3>1. r - skip + 1 \in 1..(last - skip) /\ skip + (r - skip + 1) = 1 + r
      BY <1>3, <1>5, <1>11, <2>1
    <3> QED BY <3>1
  <2>3. i \in DOMAIN items
    BY <1>5, <1>8, <2>2
  <2>4. items[i] = e
    BY <1>2, <1>8, <2>1, <2>2
  <2> QED BY <2>3, <2>4 DEF Ranged
<1>12. IsSlice(items, E, skip, limit)
  BY <1>7, <1>9, <1>10, <1>11 DEF Rank, n, IsSlice
<1> QED BY <1>12 DEF items, E

LEMMA Times ==
  ASSUME NEW a \in Nat, NEW b \in Nat, NEW c \in Nat, a <= b
  PROVE  a * c \in Nat /\ b * c \in Nat /\ a * c <= b * c
OBVIOUS

LEMMA Quotient ==
  ASSUME NEW n \in Nat, NEW d \in Nat \ {0}
  PROVE  /\ n \div d \in Nat
         /\ (n \div d) * d \in Nat /\ (n \div d) * d <= n
         /\ n < (n \div d) * d + d
         /\ \A m \in 0..n : m \div d <= n \div d
OBVIOUS

\* How many rows are newer than one at some place, and how many are older.
LEMMA NewerAndEarlier ==
  ASSUME NEW E \in SUBSET Entries, Ordered(E), NEW e \in E, NEW r \in Nat,
         Cardinality(Ahead(E, e)) = r
  PROVE  /\ Cardinality({x \in E : x.doc.startTime > e.doc.startTime}) <= r
         /\ Cardinality({x \in E : x.doc.startTime < e.doc.startTime})
              <= Cardinality(E) - (r + 1)
<1> DEFINE Newer == {x \in E : x.doc.startTime > e.doc.startTime}
           Earlier == {x \in E : x.doc.startTime < e.doc.startTime}
           Others == (E \ Ahead(E, e)) \ {e}
<1>1. /\ IsFiniteSet(E) /\ Cardinality(E) \in Nat
      /\ IsFiniteSet(Ahead(E, e))
  BY AheadCounts
<1>2. \A x \in E : x.doc.startTime \in Nat /\ x.at \in Nat
  BY RowTypes DEF Entries
<1>3. Newer \in SUBSET Ahead(E, e)
  BY NewestOrder DEF Ahead
<1>4. Earlier \in SUBSET Others
  BY <1>2, NewestOrder DEF Ahead
<1>5. e \in E \ Ahead(E, e)
  BY <1>2, NewestOrder DEF Ahead
<1>6. /\ IsFiniteSet(E \ Ahead(E, e))
      /\ Cardinality(E \ Ahead(E, e)) = Cardinality(E) - r
  <2>1. E \cap Ahead(E, e) = Ahead(E, e)
    BY DEF Ahead
  <2> QED BY <1>1, <2>1, FS_Difference
<1>7. IsFiniteSet(Others) /\ Cardinality(Others) = Cardinality(E) - r - 1
  BY <1>5, <1>6, FS_RemoveElement
<1>8. Cardinality(Newer) <= r
  BY <1>1, <1>3, FS_Subset
<1>9. Cardinality(Earlier) <= Cardinality(Others)
  BY <1>4, <1>7, FS_Subset
<1> QED BY <1>1, <1>7, <1>8, <1>9

LEMMA PagesAreFull ==
  ASSUME TypeOK
  PROVE  PagesCover
<1> SUFFICES ASSUME NEW request \in Requests, NEW size \in PageSizes
             PROVE  LET rows     == {e \in docs : Wanted(e.doc, request)}
                        n        == Cardinality(rows)
                        pages    == 1..(1 + n \div size)
                        Newer(e) ==
                          {x \in rows : x.doc.startTime > e.doc.startTime}
                        Earlier(e) ==
                          {x \in rows : x.doc.startTime < e.doc.startTime}
                    IN  /\ Count(FilterOf(request)) = n
                        /\ \A k \in pages :
                             LET before == (k - 1) * size
                                 items  == Page(request, k, size)
                             IN  /\ Len(items) = Smaller(size, n - before)
                                 /\ \A i \in DOMAIN items :
                                      /\ Cardinality(Newer(items[i])) < before + i
                                      /\ Cardinality(Earlier(items[i]))
                                           <= n - (before + i)
                        /\ UNION {Ranged(Page(request, k, size)) : k \in pages}
                             = rows
  BY DEF PagesCover
<1> DEFINE rows == {e \in docs : Wanted(e.doc, request)}
           n == Cardinality(rows)
           Before(k) == (k - 1) * size
           Items(k) == Page(request, k, size)
           Newer(e) == {x \in rows : x.doc.startTime > e.doc.startTime}
           Earlier(e) == {x \in rows : x.doc.startTime < e.doc.startTime}
<1>1. docs \in SUBSET Entries /\ Ordered(docs) /\ size \in Nat \ {0}
  BY HistoryAssumption DEF TypeOK
<1>2. rows = Matching(docs, FilterOf(request))
  <2>1. \A e \in docs : e.doc \in Docs
    BY <1>1 DEF Entries
  <2> QED BY <2>1, FilterIsWanted DEF Matching
<1>3. rows \in SUBSET Entries /\ Ordered(rows)
  BY <1>1 DEF Ordered
<1>4. n \in Nat /\ \A e \in rows : Cardinality(Ahead(rows, e)) \in 0..(n - 1)
  BY <1>3, AheadCounts
<1> HIDE DEF rows, n
<1>5. n \div size \in Nat /\ (n \div size) * size <= n
  BY <1>1, <1>4, Quotient
<1>6. ASSUME NEW k \in 1..(1 + n \div size)
      PROVE  /\ Before(k) \in Nat /\ Before(k) <= n
             /\ Items(k) \in Seq(rows)
             /\ Len(Items(k)) = Smaller(size, n - Before(k))
             /\ \A i \in DOMAIN Items(k) :
                  Cardinality(Ahead(rows, Items(k)[i])) = Before(k) + i - 1
             /\ \A e \in rows :
                  Before(k) <= Cardinality(Ahead(rows, e))
                    /\ Cardinality(Ahead(rows, e)) < Before(k) + size
                  => e \in Ranged(Items(k))
  <2>1. Before(k) \in Nat /\ Before(k) <= n
    <3>1. k - 1 \in Nat /\ k - 1 <= n \div size
      BY <1>5
    <3>2. /\ (k - 1) * size \in Nat /\ (n \div size) * size \in Nat
          /\ (k - 1) * size <= (n \div size) * size
      BY <1>1, <1>5, <3>1, Times
    <3> QED BY <1>4, <1>5, <3>2
  <2>2. Items(k) = Find(FilterOf(request), NewestFirst, Before(k), size)
    BY DEF Page
  <2> HIDE DEF Before, Items
  <2>3. size \in Nat
    BY <1>1
  <2>4. IsSlice(Items(k), rows, Before(k), size)
    BY <1>1, <1>2, <2>1, <2>2, <2>3, Found
  <2> QED BY <2>1, <2>4 DEF n, IsSlice
<1> HIDE DEF Before, Items
<1>7. ASSUME NEW k \in 1..(1 + n \div size), NEW i \in DOMAIN Items(k)
      PROVE  /\ Items(k)[i] \in rows
             /\ Cardinality(Newer(Items(k)[i])) < Before(k) + i
             /\ Cardinality(Earlier(Items(k)[i])) <= n - (Before(k) + i)
  <2>1. Items(k) \in Seq(rows) /\ Before(k) \in Nat
    BY <1>6
  <2>2. i \in Nat \ {0} /\ Items(k)[i] \in rows
    BY <2>1, LenProperties
  <2>3. PICK e \in rows : e = Items(k)[i]
    BY <2>2
  <2>4. PICK r \in Nat : r = Before(k) + i - 1 /\ Cardinality(Ahead(rows, e)) = r
    BY <1>6, <2>1, <2>2, <2>3
  <2>5. /\ Cardinality(Newer(e)) <= r /\ Cardinality(Earlier(e)) <= n - (r + 1)
        /\ Cardinality(Newer(e)) \in Nat /\ Cardinality(Earlier(e)) \in Nat
    <3>1. Cardinality(Newer(e)) <= r /\ Cardinality(Earlier(e)) <= n - (r + 1)
      BY <1>3, <2>4, NewerAndEarlier DEF n
    <3>2. IsFiniteSet(rows)
      BY <1>3, AheadCounts
    <3>3. Newer(e) \in SUBSET rows /\ Earlier(e) \in SUBSET rows
      OBVIOUS
    <3> QED BY <3>1, <3>2, <3>3, FS_Subset, FS_CardinalityType
  <2>6. Before(k) + i = r + 1
    BY <2>1, <2>2, <2>4
  <2>7. /\ Newer(Items(k)[i]) = Newer(e) /\ Earlier(Items(k)[i]) = Earlier(e)
    BY <2>3
  <2> HIDE DEF Newer, Earlier
  <2>8. Cardinality(Newer(e)) < r + 1
    BY <2>5
  <2> QED BY <2>2, <2>5, <2>6, <2>7, <2>8
<1>8. UNION {Ranged(Items(k)) : k \in 1..(1 + n \div size)} = rows
  <2>1. ASSUME NEW k \in 1..(1 + n \div size) PROVE Ranged(Items(k)) \in SUBSET rows
    BY <1>7 DEF Ranged
  <2>2. ASSUME NEW e \in rows
        PROVE  \E k \in 1..(1 + n \div size) : e \in Ranged(Items(k))
    <3>1. PICK r \in 0..(n - 1) : Cardinality(Ahead(rows, e)) = r
      BY <1>4
    <3>2. /\ r \in Nat /\ r \div size \in Nat /\ (r \div size) * size \in Nat
          /\ (r \div size) * size <= r /\ r < (r \div size) * size + size
          /\ r \div size <= n \div size
      <4>1. r \in Nat /\ r \in 0..n
        BY <1>4
      <4> QED BY <1>1, <1>4, <4>1, Quotient
    <3>3. PICK k \in 1..(1 + n \div size) : k - 1 = r \div size
      <4>1. 1 + r \div size \in 1..(1 + n \div size)
        BY <1>5, <3>2
      <4>2. (1 + r \div size) - 1 = r \div size
        BY <3>2
      <4> QED BY <4>1, <4>2
    <3>4. Before(k) = (r \div size) * size
      BY <3>3 DEF Before
    <3> QED BY <1>6, <3>1, <3>2, <3>4
  <2> QED BY <2>1, <2>2
<1>9. Count(FilterOf(request)) = n
  BY <1>2 DEF Count, n
<1> QED BY <1>6, <1>7, <1>8, <1>9 DEF rows, n, Before, Items

(***************************************************************************)
(* Module History: types, and publishes that have no row yet.              *)
(***************************************************************************)

\* A step of the history removes or moves entries, or inserts one.
Touches ==
  \/ UNCHANGED vars \/ Open \/ Close \/ Clear \/ BeginFlush
  \/ \E p \in Partitions : Written(p)
  \/ \E gone : Removes(gone)

Records(s) == \E doc \in Docs : InsertsNew(<<s>>, doc)

LEMMA TouchesType ==
  ASSUME TypeInv, Touches \/ \E s \in Ids : Records(s)
  PROVE  TypeInv'
<1>1. UNCHANGED vars => TypeInv'
  BY TypeStep
<1>2. Touches => TypeInv'
  BY <1>1, OpenType, CloseType, ClearType, BeginFlushType, WrittenType, RemovesType
  DEF Touches
<1>3. ASSUME NEW s \in Ids, Records(s) PROVE TypeInv'
  BY <1>3, OneId, InsertsType DEF Records
<1> QED BY <1>2, <1>3

\* An id has an entry in memory, on disk or on its way there.
Held(id) ==
  \/ Has(id)
  \/ \E p \in Partitions : id \in IdsOf(snapshot[p]) \cup IdsOf(file[p])

LEMMA NothingNew ==
  ASSUME TypeInv, Touches, NEW id, ~Held(id)
  PROVE  ~Held(id)'
<1>1. /\ \A e \in docs : e.id # id
      /\ \A p \in Partitions : \A e \in snapshot[p] \cup file[p] : e.id # id
  BY DEF Held, Has, IdsOf
<1> SUFFICES /\ \A e \in docs' : e.id # id
             /\ \A p \in Partitions : \A e \in snapshot'[p] \cup file'[p] : e.id # id
  BY DEF Held, Has, IdsOf
<1>2. CASE UNCHANGED vars
  BY <1>1, <1>2 DEF vars
<1>3. CASE Open
  <2> DEFINE all == UNION {file[p] : p \in Partitions}
  <2>1. PICK stamp :
          /\ docs' = Restamped(all, stamp)
          /\ file' = [p \in Partitions |-> Restamped(file[p], stamp)]
    BY <1>3 DEF Open
  <2>2. \A e \in all : e.id # id /\ e \in Entries
    BY <1>1 DEF TypeInv, TypeOK, Parted
  <2>3. \A E \in SUBSET all : \A e \in Restamped(E, stamp) : e.id # id
    BY <2>2 DEF Restamped, Entries
  <2>4. \A p \in Partitions : file[p] \in SUBSET all
    OBVIOUS
  <2> HIDE DEF all
  <2>5. \A e \in docs' : e.id # id
    BY <2>1, <2>3
  <2>6. \A p \in Partitions : \A e \in file'[p] : e.id # id
    BY <2>1, <2>3, <2>4
  <2> QED BY <1>1, <1>3, <2>5, <2>6 DEF Open
<1>4. CASE Close
  <2>1. PICK done \in SUBSET writing :
          file' = [p \in Partitions |-> IF p \in done THEN snapshot[p] ELSE file[p]]
    BY <1>4 DEF Close
  <2>2. docs' = {} /\ \A p \in Partitions : snapshot'[p] = {}
    BY <1>4 DEF Close
  <2> QED BY <1>1, <2>1, <2>2
<1>5. CASE Clear
  BY <1>1, <1>5 DEF Clear
<1>6. CASE BeginFlush
  <2>1. \A p \in Partitions : snapshot'[p] \subseteq docs \cup snapshot[p]
    BY <1>6 DEF BeginFlush, Part
  <2> QED BY <1>1, <1>6, <2>1 DEF BeginFlush
<1>7. ASSUME NEW q \in Partitions, Written(q)
      PROVE  /\ \A e \in docs' : e.id # id
             /\ \A p \in Partitions :
                  \A e \in snapshot'[p] \cup file'[p] : e.id # id
  <2>1. \A p \in Partitions : file'[p] \subseteq snapshot[p] \cup file[p]
    BY <1>7 DEF Written, TypeInv, TypeOK, Parted
  <2> QED BY <1>1, <1>7, <2>1 DEF Written
<1>8. ASSUME NEW gone, Removes(gone)
      PROVE  /\ \A e \in docs' : e.id # id
             /\ \A p \in Partitions :
                  \A e \in snapshot'[p] \cup file'[p] : e.id # id
  BY <1>1, <1>8 DEF Removes, Remove
<1> QED BY <1>2, <1>3, <1>4, <1>5, <1>6, <1>7, <1>8 DEF Touches

LEMMA OneNew ==
  ASSUME TypeInv, NEW s \in Ids, Records(s), NEW id, id # s, ~Held(id)
  PROVE  ~Held(id)'
<1>1. PICK doc \in Docs : InsertsNew(<<s>>, doc)
  BY DEF Records
<1>2. /\ docs' \subseteq docs \cup Brought(<<s>>, doc)
      /\ snapshot' = snapshot /\ file' = file
  BY <1>1 DEF InsertsNew, InsertAll
<1>3. \A e \in Brought(<<s>>, doc) : e.id = s
  BY DEF Brought
<1> QED BY <1>2, <1>3 DEF Held, Has, IdsOf

\* A publisher has its path, and a start that no end of a process has taken; the
\* server listens, and a client reads pages, while the store is open.
SlotsInOrder ==
  /\ listening = opened
  /\ walk.page # 0 => opened /\ walk.of \in Walks
  /\ \A path \in Paths :
       /\ slot[path].grace => slot[path].by # None
       /\ slot[path].by # None =>
            /\ PathOf[slot[path].by] = path
            /\ createTime[slot[path].by] \in 1..MaxTime

\* A client that publishes, or has not yet published, has no row.
NewcomersAreNew ==
  \A s \in Ids \ Relays :
    createTime[s] = None \/ slot[PathOf[s]].by = s => ~Held(s)

TypesInv == TypeInv /\ HistoryTypeOK /\ SlotsInOrder

RecordsInv == TypesInv /\ NewcomersAreNew /\ ClientsRecorded

LEMMA Sessions ==
  /\ \A s \in Ids : s # None /\ PathOf[s] \in Paths
  /\ None \notin Nat /\ Gone \in 0..MaxTime
  /\ Free.by = None /\ Free.grace = FALSE
  /\ Free \in [by : Ids \cup {None}, grace : BOOLEAN]
BY HistoryAssumption DEF Paths, Gone, Free

LEMMA RowType ==
  ASSUME NEW s \in Ids, createTime[s] \in 1..MaxTime
  PROVE  RowOf(s) \in Docs
BY HistoryAssumption DEF RowOf, Paths, Addresses

LEMMA DeletesTouch ==
  ASSUME NEW path, DeletePath(path)
  PROVE  Touches /\ Unwatched
BY DEF DeletePath, DeleteMany, Touches, Removes, Matching

LEMMA WatchedType ==
  ASSUME walk \in WalkRecord, Watched
  PROVE  /\ walk' \in WalkRecord /\ walk'.page = walk.page /\ walk'.of = walk.of
         /\ walk.page # 0 =>
              /\ walk'.there = walk.there \cap IdsOf(docs')
              /\ walk'.seen = walk.seen /\ walk'.over = walk.over
              /\ walk'.shrunk =
                   (walk.shrunk \/ ~(IdsOf(docs) \subseteq IdsOf(docs')))
<1>1. CASE walk.page = 0
  BY <1>1 DEF Watched
<1>2. CASE walk.page # 0
  <2>1. walk' = [walk EXCEPT
                   !.there  = walk.there \cap IdsOf(docs'),
                   !.shrunk = walk.shrunk \/ ~(IdsOf(docs) \subseteq IdsOf(docs'))]
    BY <1>2 DEF Watched
  <2> DEFINE s == walk.shrunk \/ ~(IdsOf(docs) \subseteq IdsOf(docs'))
  <2>2. s \in BOOLEAN
    OBVIOUS
  <2> HIDE DEF s
  <2>3. walk' = [walk EXCEPT !.there = walk.there \cap IdsOf(docs'), !.shrunk = s]
    BY <2>1 DEF s
  <2>4. /\ walk' \in WalkRecord /\ walk'.page = walk.page /\ walk'.of = walk.of
        /\ walk'.there = walk.there \cap IdsOf(docs') /\ walk'.shrunk = s
        /\ walk'.seen = walk.seen /\ walk'.over = walk.over
    BY <2>2, <2>3 DEF WalkRecord
  <2> QED BY <2>4 DEF s
<1> QED BY <1>1, <1>2

LEMMA TypesInit == HistoryInit => TypesInv
<1> SUFFICES ASSUME HistoryInit PROVE TypesInv
  OBVIOUS
<1>1. TypeInv
  BY TypeInit DEF HistoryInit
<1>2. HistoryTypeOK
  <2>1. walk \in WalkRecord
    BY DEF HistoryInit, NoWalk, WalkRecord
  <2>2. slot \in [Paths -> [by : Ids \cup {None}, grace : BOOLEAN]]
    BY Sessions DEF HistoryInit
  <2>3. /\ createTime \in [Ids -> 0..MaxTime \cup {None}]
        /\ ended \in [Ids -> Nat] /\ recorded \in [Ids -> Nat]
    BY DEF HistoryInit
  <2>4. time \in 0..MaxTime /\ runs \in 0..MaxRuns
    BY HistoryAssumption DEF HistoryInit
  <2> QED BY <2>1, <2>2, <2>3, <2>4 DEF HistoryInit, HistoryTypeOK
<1>3. SlotsInOrder
  BY Sessions DEF HistoryInit, Init, SlotsInOrder, NoWalk
<1> QED BY <1>1, <1>2, <1>3 DEF TypesInv

\* Steps that leave the slots and the sessions alone.
LEMMA IdleTypes ==
  ASSUME TypesInv, Touches, Watched,
         UNCHANGED <<slot, createTime, time, runs, ended, recorded, running>>,
         listening' = opened', opened => opened'
  PROVE  TypesInv'
<1> USE DEF TypesInv
<1>1. TypeInv'
  BY TouchesType
<1>2. walk' \in WalkRecord /\ walk'.page = walk.page /\ walk'.of = walk.of
  BY WatchedType DEF HistoryTypeOK
<1>3. listening' \in BOOLEAN
  BY <1>1 DEF TypeInv, TypeOK
<1>4. HistoryTypeOK'
  BY <1>2, <1>3 DEF HistoryTypeOK
<1>5. SlotsInOrder'
  BY <1>2 DEF SlotsInOrder
<1> QED BY <1>1, <1>4, <1>5

LEMMA PublishTypes ==
  ASSUME TypesInv, NEW s \in Ids, Publish(s)
  PROVE  TypesInv'
<1> USE DEF TypesInv
<1>1. Touches /\ UNCHANGED vars
  BY DEF Publish, collectionVars, Touches
<1>2. TypeInv'
  BY <1>1, TouchesType
<1>3. /\ PathOf[s] \in Paths
      /\ slot' = [slot EXCEPT ![PathOf[s]] = [by |-> s, grace |-> FALSE]]
      /\ slot' \in [Paths -> [by : Ids \cup {None}, grace : BOOLEAN]]
  BY Sessions DEF Publish, HistoryTypeOK
<1>4. /\ createTime' \in [Ids -> 0..MaxTime \cup {None}]
      /\ createTime'[s] \in 1..MaxTime /\ time' \in 0..MaxTime
      /\ \A t \in Ids \ {s} : createTime'[t] = createTime[t]
  <2>1. CASE createTime[s] = None
    <3>1. /\ time < MaxTime /\ time' = time + 1
          /\ createTime' = [createTime EXCEPT ![s] = time + 1]
      BY <2>1 DEF Publish, Begins
    <3>2. time + 1 \in 1..MaxTime
      BY <3>1, HistoryAssumption DEF HistoryTypeOK
    <3> QED BY <3>1, <3>2 DEF HistoryTypeOK
  <2>2. CASE createTime[s] # None
    <3>1. createTime[s] # 0 /\ time' = time /\ createTime' = createTime
      BY <2>2 DEF Publish, Begins, Gone
    <3> QED BY <2>2, <3>1, HistoryAssumption DEF HistoryTypeOK
  <2> QED BY <2>1, <2>2
<1>5. HistoryTypeOK'
  BY <1>3, <1>4 DEF Publish, HistoryTypeOK
<1>6. SlotsInOrder'
  <2>1. ASSUME NEW path \in Paths
        PROVE  /\ slot'[path].grace => slot'[path].by # None
               /\ slot'[path].by # None =>
                    /\ PathOf[slot'[path].by] = path
                    /\ createTime'[slot'[path].by] \in 1..MaxTime
    <3>1. CASE path = PathOf[s]
      BY <1>3, <1>4, <3>1 DEF HistoryTypeOK
    <3>2. CASE path # PathOf[s]
      <4>1. slot'[path] = slot[path]
        BY <1>3, <3>2 DEF HistoryTypeOK
      <4>2. slot[path].by # None => slot[path].by # s /\ slot[path].by \in Ids
        BY <3>2 DEF SlotsInOrder, HistoryTypeOK
      <4> QED BY <1>4, <4>1, <4>2 DEF SlotsInOrder
    <3> QED BY <3>1, <3>2
  <2> QED BY <1>1, <2>1 DEF SlotsInOrder, Publish, vars
<1> QED BY <1>2, <1>5, <1>6

LEMMA DisconnectTypes ==
  ASSUME TypesInv, NEW path \in Paths, Disconnect(path)
  PROVE  TypesInv'
<1> USE DEF TypesInv
<1>1. Touches /\ UNCHANGED vars
  BY DEF Disconnect, collectionVars, Touches
<1>2. TypeInv'
  BY <1>1, TouchesType
<1>3. /\ slot[path].by # None
      /\ slot' \in [Paths -> [by : Ids \cup {None}, grace : BOOLEAN]]
      /\ \A p \in Paths : slot'[p].by = slot[p].by
      /\ \A p \in Paths \ {path} : slot'[p] = slot[p]
  BY DEF Disconnect, HistoryTypeOK
<1>4. HistoryTypeOK'
  BY <1>3 DEF Disconnect, HistoryTypeOK
<1>5. SlotsInOrder'
  BY <1>1, <1>3 DEF SlotsInOrder, Disconnect, vars
<1> QED BY <1>2, <1>4, <1>5

LEMMA ResumeTypes ==
  ASSUME TypesInv, NEW path \in Paths, NEW s \in Ids, Resume(path, s)
  PROVE  TypesInv'
<1> USE DEF TypesInv
<1>1. Touches /\ UNCHANGED vars
  BY DEF Resume, collectionVars, Touches
<1>2. TypeInv'
  BY <1>1, TouchesType
<1>3. PICK by \in Ids : by = slot[path].by /\ createTime[by] \in 1..MaxTime
  BY DEF Resume, SlotsInOrder, HistoryTypeOK
<1>4. /\ PathOf[s] = path
      /\ slot' = [slot EXCEPT ![path] = [by |-> s, grace |-> FALSE]]
      /\ createTime' = [createTime EXCEPT ![s] = createTime[by]]
  BY <1>3 DEF Resume
<1>5. HistoryTypeOK'
  BY <1>3, <1>4 DEF Resume, HistoryTypeOK
<1>6. SlotsInOrder'
  <2>1. ASSUME NEW p \in Paths
        PROVE  /\ slot'[p].grace => slot'[p].by # None
               /\ slot'[p].by # None =>
                    /\ PathOf[slot'[p].by] = p
                    /\ createTime'[slot'[p].by] \in 1..MaxTime
    <3>1. CASE p = path
      BY <1>3, <1>4, <3>1, Sessions DEF HistoryTypeOK
    <3>2. CASE p # path
      <4>1. slot'[p] = slot[p]
        BY <1>4, <3>2 DEF HistoryTypeOK
      <4>2. slot[p].by # None => slot[p].by # s /\ slot[p].by \in Ids
        BY <1>4, <3>2 DEF SlotsInOrder, HistoryTypeOK
      <4> QED BY <1>4, <4>1, <4>2 DEF SlotsInOrder, HistoryTypeOK
    <3> QED BY <3>1, <3>2
  <2> QED BY <1>1, <2>1 DEF SlotsInOrder, Resume, vars
<1> QED BY <1>2, <1>5, <1>6

\* A publish that ends inserts its row, or does nothing to the collection.
LEMMA FinishKinds ==
  ASSUME TypesInv, NEW path \in Paths, Finish(path)
  PROVE  \E s \in Ids :
           /\ s = slot[path].by /\ PathOf[s] = path /\ createTime[s] # None
           /\ \/ UNCHANGED <<vars, ended, recorded>>
              \/ /\ ended' = [ended EXCEPT ![s] = @ + 1]
                 /\ Records(s) /\ recorded' = [recorded EXCEPT ![s] = @ + 1]
              \/ /\ ended' = [ended EXCEPT ![s] = @ + 1]
                 /\ Has(s) /\ UNCHANGED <<vars, recorded>>
<1>1. PICK s \in Ids :
        s = slot[path].by /\ PathOf[s] = path /\ createTime[s] \in 1..MaxTime
  BY DEF TypesInv, Finish, SlotsInOrder, HistoryTypeOK
<1>2. RowOf(s) \in Docs
  BY <1>1, RowType
<1>3. Insert(s, RowOf(s)) => Records(s)
  <2>1. <<s>> # <<>>
    OBVIOUS
  <2> QED BY <1>2, <2>1, OneId DEF Insert, Records, InsertsNew
<1>4. createTime[s] # None
  BY <1>1, HistoryAssumption
<1>5. \/ UNCHANGED <<vars, ended, recorded>>
      \/ /\ ended' = [ended EXCEPT ![s] = @ + 1]
         /\ Insert(s, RowOf(s)) /\ recorded' = [recorded EXCEPT ![s] = @ + 1]
      \/ /\ ended' = [ended EXCEPT ![s] = @ + 1]
         /\ Has(s) /\ UNCHANGED <<vars, recorded>>
  BY <1>1 DEF Finish, collectionVars
<1> QED BY <1>1, <1>3, <1>4, <1>5

LEMMA FinishTypes ==
  ASSUME TypesInv, NEW path \in Paths, Finish(path)
  PROVE  TypesInv'
<1> USE DEF TypesInv
<1>1. PICK s \in Ids :
        \/ UNCHANGED <<vars, ended, recorded>>
        \/ /\ ended' = [ended EXCEPT ![s] = @ + 1]
           /\ Records(s) /\ recorded' = [recorded EXCEPT ![s] = @ + 1]
        \/ /\ ended' = [ended EXCEPT ![s] = @ + 1]
           /\ Has(s) /\ UNCHANGED <<vars, recorded>>
  BY FinishKinds
<1>2. TypeInv' /\ opened' = opened
  <2>1. UNCHANGED vars => TypeInv' /\ opened' = opened
    BY TypeStep DEF vars
  <2>2. Records(s) => TypeInv' /\ opened' = opened
    BY TouchesType DEF Records, InsertsNew, InsertAll
  <2> QED BY <1>1, <2>1, <2>2
<1>3. ended' \in [Ids -> Nat] /\ recorded' \in [Ids -> Nat]
  BY <1>1 DEF HistoryTypeOK
<1>4. walk' \in WalkRecord /\ walk'.page = walk.page /\ walk'.of = walk.of
  BY WatchedType DEF Finish, HistoryTypeOK
<1>5. slot' = [slot EXCEPT ![path] = Free]
      /\ slot' \in [Paths -> [by : Ids \cup {None}, grace : BOOLEAN]]
  BY Sessions DEF Finish, HistoryTypeOK
<1>6. HistoryTypeOK'
  BY <1>3, <1>4, <1>5 DEF Finish, HistoryTypeOK
<1>7. SlotsInOrder'
  <2>1. \A p \in Paths : slot'[p] = IF p = path THEN Free ELSE slot[p]
    BY <1>5 DEF HistoryTypeOK
  <2>2. listening' = listening /\ createTime' = createTime
    BY DEF Finish
  <2> QED BY <1>2, <1>4, <2>1, <2>2, Sessions DEF SlotsInOrder
<1> QED BY <1>2, <1>6, <1>7

LEMMA EndsTypes ==
  ASSUME TypesInv, Ends
  PROVE  TypesInv'
<1> USE DEF TypesInv
<1>1. Touches /\ ~opened'
  <2>1. CASE opened
    BY <2>1 DEF Ends, Touches, Close
  <2>2. CASE ~opened
    BY <2>2 DEF Ends, Touches, collectionVars, vars
  <2> QED BY <2>1, <2>2
<1>2. TypeInv'
  BY <1>1, TouchesType
<1>3. /\ slot' = [p \in Paths |-> Free] /\ walk' = NoWalk
      /\ walk' \in WalkRecord /\ walk'.page = 0
      /\ createTime' \in [Ids -> 0..MaxTime \cup {None}]
  BY Sessions DEF Ends, NoWalk, WalkRecord
<1>4. HistoryTypeOK'
  <2>1. slot' \in [Paths -> [by : Ids \cup {None}, grace : BOOLEAN]]
    BY <1>3, Sessions
  <2> QED BY <1>3, <2>1 DEF Ends, HistoryTypeOK
<1>5. SlotsInOrder'
  <2>1. opened' = FALSE /\ listening' = FALSE
    BY <1>1, <1>2 DEF Ends, TypeInv, TypeOK
  <2> QED BY <1>3, <2>1, Sessions DEF SlotsInOrder
<1> QED BY <1>2, <1>4, <1>5

LEMMA BeginWalkTypes ==
  ASSUME TypesInv, NEW of \in Walks, BeginWalk(of)
  PROVE  TypesInv' /\ UNCHANGED vars
<1> USE DEF TypesInv
<1>1. Touches /\ UNCHANGED vars
  BY DEF BeginWalk, collectionVars, Touches
<1>2. TypeInv'
  BY <1>1, TouchesType
<1>3. IdsOf(Matching(docs, FilterOf(of.request))) \in SUBSET Ids
  BY IdsOfType DEF Matching, TypeInv, TypeOK
<1>4. walk' \in WalkRecord /\ walk'.page = 1 /\ walk'.of = of
  <2> DEFINE ids == IdsOf(Matching(docs, FilterOf(of.request)))
  <2>1. walk' = [NoWalk EXCEPT !.page = 1, !.of = of, !.there = ids]
    BY DEF BeginWalk
  <2>2. ids \in SUBSET Ids
    BY <1>3
  <2> HIDE DEF ids
  <2> QED BY <2>1, <2>2 DEF NoWalk, WalkRecord
<1>5. HistoryTypeOK'
  BY <1>4 DEF BeginWalk, HistoryTypeOK
<1>6. SlotsInOrder'
  BY <1>1, <1>4 DEF BeginWalk, SlotsInOrder, vars
<1> QED BY <1>1, <1>2, <1>5, <1>6

\* What a page shows, and how the walk goes on.
LEMMA PageIsSlice ==
  ASSUME TypesInv, walk.page # 0, NEW filter, filter = FilterOf(walk.of.request),
         NEW size, size = walk.of.size
  PROVE  /\ size \in Nat \ {0} /\ walk.page \in Nat \ {0}
         /\ (walk.page - 1) * size \in Nat
         /\ walk.page * size = (walk.page - 1) * size + size
         /\ IsSlice(Page(walk.of.request, walk.page, walk.of.size),
                    Matching(docs, filter), (walk.page - 1) * size, size)
         /\ Matching(docs, filter) \in SUBSET Entries
         /\ Ordered(Matching(docs, filter))
<1>1. size \in Nat \ {0} /\ walk.page \in Nat \ {0}
  BY HistoryAssumption DEF TypesInv, SlotsInOrder, HistoryTypeOK, WalkRecord
<1>2. (walk.page - 1) * size \in Nat
  <2>1. PICK k \in Nat : k = walk.page - 1
    BY <1>1
  <2> QED BY <1>1, <2>1, Times
<1>3. walk.page * size = (walk.page - 1) * size + size
  BY <1>1
<1>4. docs \in SUBSET Entries /\ Ordered(docs)
  BY DEF TypesInv, TypeInv, TypeOK
<1>5. IsSlice(Page(walk.of.request, walk.page, walk.of.size),
              Matching(docs, filter), (walk.page - 1) * size, size)
  BY <1>1, <1>2, <1>4, Found DEF Page
<1>6. Matching(docs, filter) \in SUBSET Entries /\ Ordered(Matching(docs, filter))
  BY <1>4 DEF Matching, Ordered
<1> QED BY <1>1, <1>2, <1>3, <1>5, <1>6

ReadFrom(items) == {items[k].id : k \in DOMAIN items}

LEMMA ReadPageTypes ==
  ASSUME TypesInv, ReadPage
  PROVE  /\ TypesInv' /\ UNCHANGED vars
         /\ walk'.page = walk.page + 1
         /\ walk'.of = walk.of /\ walk'.there = walk.there
         /\ walk'.shrunk = walk.shrunk
         /\ walk'.seen = walk.seen
              \cup ReadFrom(Page(walk.of.request, walk.page, walk.of.size))
         /\ walk'.over <=> walk.page * walk.of.size
                             >= Count(FilterOf(walk.of.request))
<1> USE DEF TypesInv
<1> DEFINE items == Page(walk.of.request, walk.page, walk.of.size)
           ends == walk.page * walk.of.size >= Count(FilterOf(walk.of.request))
<1>1. Touches /\ UNCHANGED vars
  BY DEF ReadPage, collectionVars, Touches
<1>2. TypeInv'
  BY <1>1, TouchesType
<1>3. walk.page # 0 /\ walk \in WalkRecord
  BY DEF ReadPage, HistoryTypeOK
<1>4. ReadFrom(items) \in SUBSET Ids
  <2>1. PICK E \in SUBSET Entries : items \in Seq(E)
    BY <1>3, PageIsSlice DEF IsSlice
  <2> HIDE DEF items
  <2>2. \A k \in DOMAIN items : items[k] \in Entries
    BY <2>1, LenProperties
  <2> QED BY <2>2 DEF ReadFrom, Entries
<1>5. walk' = [walk EXCEPT !.seen = walk.seen \cup ReadFrom(items),
                           !.page = walk.page + 1, !.over = ends]
  BY DEF ReadPage, ReadFrom
<1>6. ends \in BOOLEAN
  OBVIOUS
<1> HIDE DEF items, ends
<1>7. /\ walk' \in WalkRecord
      /\ walk'.page = walk.page + 1 /\ walk'.of = walk.of
      /\ walk'.there = walk.there /\ walk'.shrunk = walk.shrunk
      /\ walk'.seen = walk.seen \cup ReadFrom(items) /\ walk'.over = ends
  <2>1. PICK k \in Nat : k = walk.page + 1
    BY <1>3 DEF WalkRecord
  <2>2. PICK ids \in SUBSET Ids : ids = walk.seen \cup ReadFrom(items)
    BY <1>3, <1>4 DEF WalkRecord
  <2>3. walk' = [walk EXCEPT !.seen = ids, !.page = k, !.over = ends]
    BY <1>5, <2>1, <2>2
  <2>4. /\ walk' \in WalkRecord
        /\ walk'.page = k /\ walk'.of = walk.of
        /\ walk'.there = walk.there /\ walk'.shrunk = walk.shrunk
        /\ walk'.seen = ids /\ walk'.over = ends
    BY <1>3, <1>6, <2>3 DEF WalkRecord
  <2> QED BY <2>1, <2>2, <2>4
<1>8. HistoryTypeOK'
  BY <1>7 DEF ReadPage, HistoryTypeOK
<1>9. SlotsInOrder'
  BY <1>1, <1>3, <1>7 DEF ReadPage, SlotsInOrder, vars
<1> QED BY <1>1, <1>2, <1>7, <1>8, <1>9 DEF items, ends

LEMMA StartTypes ==
  ASSUME TypesInv, Start
  PROVE  TypesInv' /\ UNCHANGED <<vars, slot, createTime, ended, recorded, walk>>
<1> USE DEF TypesInv
<1>1. UNCHANGED <<vars, slot, createTime, ended, recorded, walk>>
  BY DEF Start, collectionVars
<1>2. TypeInv'
  BY <1>1, TypeStep
<1>3. HistoryTypeOK'
  <2>1. runs' \in 0..MaxRuns
    BY HistoryAssumption DEF Start, HistoryTypeOK
  <2> QED BY <1>1, <2>1 DEF Start, HistoryTypeOK
<1>4. SlotsInOrder'
  BY <1>1 DEF Start, SlotsInOrder, vars
<1> QED BY <1>1, <1>2, <1>3, <1>4

\* Steps of the store that have nothing to do with publishes.
StoreStep ==
  \/ Ready \/ DeleteAll \/ Flushes
  \/ \E path \in Paths : DeletePath(path)

LEMMA StoreStepIsIdle ==
  ASSUME StoreStep
  PROVE  /\ Touches /\ Watched
         /\ UNCHANGED <<slot, createTime, time, runs, ended, recorded, running>>
         /\ opened => opened'
         /\ listening = opened => listening' = opened'
<1>1. Ready => /\ Touches /\ Watched
               /\ UNCHANGED <<slot, createTime, time, runs, ended, recorded, running>>
               /\ opened' /\ listening' = opened'
  BY DEF Ready, Open, Touches
<1>2. DeleteAll => Touches /\ Unwatched /\ opened' = opened
  BY DEF DeleteAll, Clear, Touches
<1>3. Flushes => Touches /\ Unwatched /\ opened' = opened
  BY DEF Flushes, BeginFlush, Written, Touches
<1>4. \A path \in Paths :
        DeletePath(path) => Touches /\ Unwatched /\ opened' = opened
  BY DeletesTouch DEF DeletePath, DeleteMany, Remove
<1> QED BY <1>1, <1>2, <1>3, <1>4 DEF StoreStep, Unwatched

LEMMA TypesStep == TypesInv /\ [HistoryNext]_allVars => TypesInv'
<1> SUFFICES ASSUME TypesInv, [HistoryNext]_allVars PROVE TypesInv'
  OBVIOUS
<1>1. CASE UNCHANGED allVars
  <2>1. UNCHANGED vars /\ UNCHANGED historyVars
    BY <1>1 DEF allVars, collectionVars
  <2>2. TypeInv'
    BY <2>1, TypeStep DEF TypesInv
  <2>3. HistoryTypeOK' /\ SlotsInOrder'
    BY <2>1 DEF TypesInv, HistoryTypeOK, SlotsInOrder, historyVars, vars
  <2> QED BY <2>2, <2>3 DEF TypesInv
<1>2. CASE StoreStep
  <2>1. listening' = opened'
    BY <1>2, StoreStepIsIdle DEF TypesInv, SlotsInOrder
  <2> QED BY <1>2, <2>1, StoreStepIsIdle, IdleTypes
<1> QED
  BY <1>1, <1>2, StartTypes, EndsTypes, PublishTypes, DisconnectTypes, FinishTypes,
     ResumeTypes, BeginWalkTypes, ReadPageTypes
  DEF HistoryNext, StoreStep

\* Every session, publish and row of every history has its type, over any number
\* of processes.
THEOREM HistoryTypes == HistorySpec => [](TypeOK /\ HistoryTypeOK)
<1>1. TypesInv => TypeOK /\ HistoryTypeOK
  BY DEF TypesInv, TypeInv
<1> QED BY <1>1, TypesInit, TypesStep, PTL DEF HistorySpec

(***************************************************************************)
(* Module History: the publishes of clients are recorded.                  *)
(***************************************************************************)

\* A step that begins, ends or resumes no publish keeps the records, if it brings
\* no entry.
LEMMA IdleRecords ==
  ASSUME RecordsInv, TypesInv', Touches, UNCHANGED <<ended, recorded>>,
         \A s \in Ids \ Relays :
           createTime'[s] = None \/ slot'[PathOf[s]].by = s
           => createTime[s] = None \/ slot[PathOf[s]].by = s
  PROVE  RecordsInv'
<1>1. NewcomersAreNew'
  BY NothingNew DEF RecordsInv, TypesInv, NewcomersAreNew
<1> QED BY <1>1 DEF RecordsInv, ClientsRecorded

LEMMA PublishRecords ==
  ASSUME RecordsInv, TypesInv', NEW s \in Ids, Publish(s)
  PROVE  RecordsInv'
<1>1. Touches /\ UNCHANGED <<ended, recorded>>
  BY DEF Publish, collectionVars, Touches
<1>2. ASSUME NEW c \in Ids \ Relays,
             createTime'[c] = None \/ slot'[PathOf[c]].by = c
      PROVE  createTime[c] = None \/ slot[PathOf[c]].by = c
  <2>1. CASE c = s
    BY <1>2, <2>1 DEF Publish, Begins
  <2>2. CASE c # s
    BY <1>2, <2>2, Sessions
    DEF Publish, Begins, RecordsInv, TypesInv, HistoryTypeOK
  <2> QED BY <2>1, <2>2
<1> QED BY <1>1, <1>2, IdleRecords

LEMMA ResumeRecords ==
  ASSUME RecordsInv, TypesInv', NEW path \in Paths, NEW s \in Ids, Resume(path, s)
  PROVE  RecordsInv'
<1>1. Touches /\ UNCHANGED <<ended, recorded>>
  BY DEF Resume, collectionVars, Touches
<1>2. ASSUME NEW c \in Ids \ Relays,
             createTime'[c] = None \/ slot'[PathOf[c]].by = c
      PROVE  createTime[c] = None \/ slot[PathOf[c]].by = c
  <2>1. CASE c = s
    BY <2>1 DEF Resume
  <2>2. CASE c # s
    BY <1>2, <2>2, Sessions DEF Resume, RecordsInv, TypesInv, HistoryTypeOK
  <2> QED BY <2>1, <2>2
<1> QED BY <1>1, <1>2, IdleRecords

LEMMA FinishRecords ==
  ASSUME RecordsInv, TypesInv', NEW path \in Paths, Finish(path)
  PROVE  RecordsInv'
<1> USE DEF RecordsInv
<1>1. PICK s \in Ids :
        /\ s = slot[path].by /\ PathOf[s] = path /\ createTime[s] # None
        /\ \/ UNCHANGED <<vars, ended, recorded>>
           \/ /\ ended' = [ended EXCEPT ![s] = @ + 1]
              /\ Records(s) /\ recorded' = [recorded EXCEPT ![s] = @ + 1]
           \/ /\ ended' = [ended EXCEPT ![s] = @ + 1]
              /\ Has(s) /\ UNCHANGED <<vars, recorded>>
  BY FinishKinds
<1>2. /\ createTime' = createTime
      /\ \A p \in Paths : slot'[p] = IF p = path THEN Free ELSE slot[p]
  BY DEF Finish, TypesInv, HistoryTypeOK
<1>3. ASSUME NEW c \in Ids \ Relays,
             createTime'[c] = None \/ slot'[PathOf[c]].by = c
      PROVE  c # s /\ ~Held(c)
  BY <1>1, <1>2, <1>3, Sessions DEF NewcomersAreNew
<1>4. ASSUME NEW c \in Ids \ Relays,
             createTime'[c] = None \/ slot'[PathOf[c]].by = c
      PROVE  ~Held(c)'
  <2>1. c # s /\ ~Held(c)
    BY <1>3, <1>4
  <2>2. UNCHANGED vars => Touches
    BY DEF Touches
  <2>3. UNCHANGED vars \/ Records(s)
    BY <1>1
  <2> QED BY <2>1, <2>2, <2>3, NothingNew, OneNew DEF TypesInv
<1>5. NewcomersAreNew'
  BY <1>4 DEF NewcomersAreNew
<1>6. s \in Ids \ Relays => ~Has(s)
  BY <1>1 DEF NewcomersAreNew, Held
<1>7. ClientsRecorded'
  BY <1>1, <1>6 DEF ClientsRecorded, TypesInv, HistoryTypeOK
<1> QED BY <1>5, <1>7

LEMMA RecordsStep == RecordsInv /\ [HistoryNext]_allVars => RecordsInv'
<1> SUFFICES ASSUME RecordsInv, [HistoryNext]_allVars PROVE RecordsInv'
  OBVIOUS
<1>1. TypesInv /\ TypesInv'
  BY TypesStep DEF RecordsInv
<1> DEFINE Quiet == Touches /\ UNCHANGED <<slot, createTime, ended, recorded>>
<1>2. Quiet => RecordsInv'
  BY <1>1, IdleRecords
<1>3. UNCHANGED vars => Touches
  BY DEF Touches
<1>4. UNCHANGED allVars => Quiet
  BY <1>3 DEF allVars, historyVars, collectionVars
<1>5. StoreStep => Quiet
  BY StoreStepIsIdle
<1>6. /\ Start => Quiet
      /\ \A of \in Walks : BeginWalk(of) => Quiet
      /\ ReadPage => Quiet
  <2>1. Start => Quiet
    BY <1>3 DEF Start, collectionVars
  <2>2. \A of \in Walks : BeginWalk(of) => Quiet
    BY <1>3 DEF BeginWalk, collectionVars
  <2>3. ReadPage => Quiet
    BY <1>3 DEF ReadPage, collectionVars
  <2> QED BY <2>1, <2>2, <2>3
<1>7. ASSUME NEW path \in Paths, Disconnect(path) PROVE RecordsInv'
  <2>1. \A p \in Paths : slot'[p].by = slot[p].by
    BY <1>1, <1>7 DEF Disconnect, TypesInv, HistoryTypeOK
  <2>2. Touches /\ UNCHANGED <<createTime, ended, recorded>>
    BY <1>3, <1>7 DEF Disconnect, collectionVars
  <2> QED BY <1>1, <2>1, <2>2, Sessions, IdleRecords
<1>8. ASSUME Ends PROVE RecordsInv'
  <2>1. Touches /\ UNCHANGED <<ended, recorded>>
    BY <1>3, <1>8 DEF Ends, Touches, collectionVars
  <2>2. /\ \A p \in Paths : slot'[p] = Free
        /\ \A s \in Ids :
             createTime'[s] = IF createTime[s] = None THEN None ELSE Gone
    BY <1>8 DEF Ends
  <2>3. None # Gone
    BY Sessions, HistoryAssumption
  <2> QED BY <1>1, <2>1, <2>2, <2>3, Sessions, IdleRecords
<1> HIDE DEF Quiet
<1> QED
  BY <1>1, <1>2, <1>4, <1>5, <1>6, <1>7, <1>8, PublishRecords, ResumeRecords,
     FinishRecords
  DEF HistoryNext, StoreStep

\* Over any number of sessions, reconnects, deletions, flushes and processes:
\* every publish of a client that ends while the server listens gets its row, for
\* no row has its id before.
THEOREM ClientsAreRecorded == HistorySpec => []ClientsRecorded
<1>1. HistoryInit => RecordsInv
  <2> SUFFICES ASSUME HistoryInit PROVE NewcomersAreNew /\ ClientsRecorded
    BY TypesInit DEF RecordsInv
  <2>1. \A id : ~Held(id)
    BY DEF HistoryInit, Init, Held, Has, IdsOf
  <2> QED BY <2>1 DEF HistoryInit, NewcomersAreNew, ClientsRecorded
<1>2. RecordsInv => ClientsRecorded
  BY DEF RecordsInv
<1> QED BY <1>1, <1>2, RecordsStep, PTL DEF HistorySpec

(***************************************************************************)
(* Module History: a walk through the pages.                               *)
(***************************************************************************)

\* A step that leaves no id out leaves every entry as it is.
LEMMA NoneGone ==
  ASSUME TypeInv, Touches \/ \E s \in Ids : Records(s), opened, opened',
         IdsOf(docs) \subseteq IdsOf(docs')
  PROVE  docs \subseteq docs'
<1> SUFFICES ASSUME NEW e \in docs PROVE e \in docs'
  OBVIOUS
<1>1. PICK x \in docs' : x.id = e.id
  BY DEF IdsOf
<1>2. docs' \subseteq docs => x = e
  BY <1>1 DEF TypeInv, TypeOK, Ordered
<1>3. CASE Touches
  <2>1. ~Open /\ ~Close
    BY DEF Open, Close
  <2>2. docs' \subseteq docs
    BY <1>3, <2>1 DEF Touches, vars, Clear, BeginFlush, Written, Removes, Remove
  <2> QED BY <1>1, <1>2, <2>2
<1>4. ASSUME NEW s \in Ids, Records(s) PROVE e \in docs'
  <2>1. PICK doc \in Docs : InsertsNew(<<s>>, doc)
    BY <1>4 DEF Records
  <2>2. docs' \subseteq docs \cup Brought(<<s>>, doc)
    BY <2>1 DEF InsertsNew, InsertAll
  <2>3. \A y \in Brought(<<s>>, doc) : ~Has(y.id)
    BY <2>1, WithBrought DEF InsertsNew, TypeInv
  <2>4. x \in docs
    BY <1>1, <2>2, <2>3 DEF Has, IdsOf
  <2> QED BY <1>1, <2>4 DEF TypeInv, TypeOK, Ordered
<1> QED BY <1>3, <1>4

\* As long as nothing has gone, what the walk began with is still asked for, and
\* what ranks before the next page has been seen: rows that are inserted push
\* others back, never forward.
WalkInOrder ==
  /\ walk.page = 0 => ~walk.over
  /\ walk.page # 0 /\ ~walk.shrunk =>
       LET rows == Matching(docs, FilterOf(walk.of.request))
       IN  /\ walk.there \subseteq IdsOf(rows)
           /\ \A e \in rows :
                /\ e.id \in walk.there
                /\ Cardinality(Ahead(rows, e)) < (walk.page - 1) * walk.of.size
                => e.id \in walk.seen

WalkInv == TypesInv /\ WalkInOrder /\ WalkSeesAll

LEMMA WatchedWalk ==
  ASSUME WalkInv, TypesInv', Watched, Touches \/ \E s \in Ids : Records(s)
  PROVE  WalkInv'
<1> USE DEF WalkInv
<1>1. walk' \in WalkRecord /\ walk'.page = walk.page /\ walk'.of = walk.of
  BY WatchedType DEF TypesInv, HistoryTypeOK
<1>2. CASE walk.page = 0
  <2>1. walk' = walk
    BY <1>2 DEF Watched
  <2>2. ~walk'.over /\ walk'.page = 0
    BY <1>2, <2>1 DEF WalkInOrder
  <2>3. WalkInOrder'
    BY <2>2 DEF WalkInOrder
  <2>4. WalkSeesAll'
    BY <2>2 DEF WalkSeesAll
  <2> QED BY <2>3, <2>4
<1>3. CASE walk.page # 0
  <2>1. /\ walk'.there = walk.there \cap IdsOf(docs') /\ walk'.seen = walk.seen
        /\ walk'.over = walk.over
        /\ walk'.shrunk =
             (walk.shrunk \/ ~(IdsOf(docs) \subseteq IdsOf(docs')))
    BY <1>3, WatchedType DEF TypesInv, HistoryTypeOK
  <2>2. ASSUME ~walk'.shrunk
        PROVE  LET rows == Matching(docs', FilterOf(walk.of.request))
               IN  /\ walk'.there \subseteq IdsOf(rows)
                   /\ \A e \in rows :
                        /\ e.id \in walk'.there
                        /\ Cardinality(Ahead(rows, e))
                             < (walk.page - 1) * walk.of.size
                        => e.id \in walk'.seen
    <3> DEFINE filter == FilterOf(walk.of.request)
               rows == Matching(docs, filter)
               more == Matching(docs', filter)
               read == (walk.page - 1) * walk.of.size
    <3>1. ~walk.shrunk /\ IdsOf(docs) \subseteq IdsOf(docs')
      BY <2>1, <2>2
    <3>2. opened /\ opened'
      BY <1>1, <1>3 DEF TypesInv, SlotsInOrder
    <3>3. docs \subseteq docs'
      BY <3>1, <3>2, NoneGone DEF TypesInv
    <3>4. rows \subseteq more
      BY <3>3 DEF Matching
    <3>5. more \in SUBSET Entries /\ Ordered(more)
      BY DEF TypesInv, TypeInv, TypeOK, Matching, Ordered
    <3>6. rows \in SUBSET Entries /\ Ordered(rows)
      BY <3>4, <3>5 DEF Ordered
    <3>7. /\ walk.there \subseteq IdsOf(rows)
          /\ \A e \in rows :
               e.id \in walk.there /\ Cardinality(Ahead(rows, e)) < read
               => e.id \in walk.seen
      BY <1>3, <3>1 DEF WalkInOrder
    <3>8. read \in Nat
      BY <1>3, PageIsSlice
    <3> HIDE DEF rows, more, read
    <3>9. walk'.there \subseteq IdsOf(more)
      BY <2>1, <3>4, <3>7 DEF IdsOf
    <3>10. ASSUME NEW e \in more, e.id \in walk'.there,
                  Cardinality(Ahead(more, e)) < read
           PROVE  e.id \in walk'.seen
      <4>1. PICK x \in rows : x.id = e.id
        BY <2>1, <3>7, <3>10 DEF IdsOf
      <4>2. e \in rows
        BY <3>4, <3>5, <3>10, <4>1 DEF Ordered
      <4>3. Ahead(rows, e) \in SUBSET Ahead(more, e)
        BY <3>4 DEF Ahead
      <4>4. IsFiniteSet(Ahead(more, e)) /\ Cardinality(Ahead(more, e)) \in Nat
        BY <3>5, AheadCounts
      <4>5. /\ Cardinality(Ahead(rows, e)) <= Cardinality(Ahead(more, e))
            /\ Cardinality(Ahead(rows, e)) \in Nat
        BY <4>3, <4>4, FS_Subset, FS_CardinalityType
      <4>6. Cardinality(Ahead(rows, e)) < read
        BY <3>8, <3>10, <4>4, <4>5
      <4>7. e.id \in walk.there
        BY <2>1, <3>10
      <4> QED BY <2>1, <3>7, <4>2, <4>6, <4>7
    <3> QED BY <3>9, <3>10 DEF more, read
  <2>3. WalkInOrder'
    BY <1>1, <1>3, <2>2 DEF WalkInOrder
  <2>4. WalkSeesAll'
    BY <2>1 DEF WalkSeesAll
  <2> QED BY <2>3, <2>4
<1> QED BY <1>2, <1>3

LEMMA BeginWalkWalk ==
  ASSUME WalkInv, NEW of \in Walks, BeginWalk(of)
  PROVE  WalkInv'
<1>1. TypesInv' /\ docs' = docs
  BY BeginWalkTypes DEF WalkInv, vars
<1> DEFINE rows == Matching(docs, FilterOf(of.request))
<1>2. /\ walk'.page = 1 /\ walk'.of = of /\ walk'.there = IdsOf(rows)
      /\ walk'.over = FALSE
  BY DEF BeginWalk, NoWalk
<1>3. rows \in SUBSET Entries /\ Ordered(rows)
  BY DEF WalkInv, TypesInv, TypeInv, TypeOK, Matching, Ordered
<1>4. \A e \in rows : Cardinality(Ahead(rows, e)) \in Nat
  BY <1>3, AheadCounts
<1>5. (walk'.page - 1) * of.size = 0
  BY <1>2, HistoryAssumption
<1>6. \A e \in rows : ~(Cardinality(Ahead(rows, e)) < (walk'.page - 1) * of.size)
  BY <1>4, <1>5
<1>7. WalkInOrder'
  BY <1>1, <1>2, <1>6 DEF WalkInOrder
<1>8. WalkSeesAll'
  BY <1>2 DEF WalkSeesAll
<1> QED BY <1>1, <1>7, <1>8 DEF WalkInv

LEMMA ReadPageWalk ==
  ASSUME WalkInv, ReadPage
  PROVE  WalkInv'
<1> DEFINE filter == FilterOf(walk.of.request)
           rows == Matching(docs, filter)
           size == walk.of.size
           items == Page(walk.of.request, walk.page, size)
           read == (walk.page - 1) * size
<1>1. /\ TypesInv' /\ docs' = docs
      /\ walk'.page = walk.page + 1 /\ walk'.of = walk.of
      /\ walk'.there = walk.there /\ walk'.shrunk = walk.shrunk
      /\ walk'.seen = walk.seen \cup ReadFrom(items)
      /\ walk'.over <=> walk.page * size >= Cardinality(rows)
  BY ReadPageTypes DEF WalkInv, vars, Count
<1>2. walk.page # 0 /\ walk.page \in Nat
  BY DEF ReadPage, WalkInv, TypesInv, HistoryTypeOK, WalkRecord
<1>3. /\ size \in Nat \ {0} /\ read \in Nat /\ walk.page * size = read + size
      /\ rows \in SUBSET Entries /\ Ordered(rows)
      /\ \A e \in rows :
           read <= Cardinality(Ahead(rows, e))
             /\ Cardinality(Ahead(rows, e)) < read + size
           => e \in Ranged(items)
  BY <1>2, PageIsSlice DEF WalkInv, IsSlice
<1>4. /\ Cardinality(rows) \in Nat
      /\ \A e \in rows : /\ Cardinality(Ahead(rows, e)) \in Nat
                         /\ Cardinality(Ahead(rows, e)) < Cardinality(rows)
  BY <1>3, AheadCounts
<1>5. (walk'.page - 1) * size = read + size
  <2>1. walk'.page - 1 = walk.page
    BY <1>1, <1>2
  <2> QED BY <1>3, <2>1
<1>6. ~walk.shrunk =>
        /\ walk.there \subseteq IdsOf(rows)
        /\ \A e \in rows :
             e.id \in walk.there /\ Cardinality(Ahead(rows, e)) < read
             => e.id \in walk.seen
  BY <1>2 DEF WalkInv, WalkInOrder
<1> HIDE DEF rows, read, items, size
<1>7. ASSUME ~walk.shrunk, NEW e \in rows, e.id \in walk.there,
             Cardinality(Ahead(rows, e)) < read + size
      PROVE  e.id \in walk'.seen
  <2>1. CASE Cardinality(Ahead(rows, e)) < read
    BY <1>1, <1>6, <1>7, <2>1
  <2>2. CASE ~(Cardinality(Ahead(rows, e)) < read)
    <3>1. read <= Cardinality(Ahead(rows, e))
      BY <1>3, <1>4, <2>2
    <3>2. e \in Ranged(items)
      BY <1>3, <1>7, <3>1
    <3>3. e.id \in ReadFrom(items)
      BY <3>2 DEF Ranged, ReadFrom
    <3> QED BY <1>1, <3>3
  <2> QED BY <2>1, <2>2
<1>8. WalkInOrder'
  BY <1>1, <1>2, <1>5, <1>6, <1>7 DEF WalkInOrder, rows, size
<1>9. WalkSeesAll'
  <2> SUFFICES ASSUME walk'.over, ~walk.shrunk, NEW id \in walk.there
               PROVE  id \in walk'.seen
    BY <1>1 DEF WalkSeesAll
  <2>1. PICK e \in rows : e.id = id
    BY <1>6 DEF IdsOf
  <2>2. Cardinality(rows) <= read + size
    BY <1>1, <1>3, <1>4
  <2>3. Cardinality(Ahead(rows, e)) < read + size
    BY <1>3, <1>4, <2>2
  <2> QED BY <1>7, <2>1, <2>3
<1> QED BY <1>1, <1>8, <1>9 DEF WalkInv

LEMMA WalkStep == WalkInv /\ [HistoryNext]_allVars => WalkInv'
<1> SUFFICES ASSUME WalkInv, [HistoryNext]_allVars PROVE WalkInv'
  OBVIOUS
<1>1. TypesInv /\ TypesInv'
  BY TypesStep DEF WalkInv
<1>2. UNCHANGED <<vars, walk>> => WalkInv'
  BY <1>1 DEF WalkInv, WalkInOrder, WalkSeesAll, vars
<1>3. /\ UNCHANGED allVars => UNCHANGED <<vars, walk>>
      /\ Start => UNCHANGED <<vars, walk>>
      /\ \A s \in Ids : Publish(s) => UNCHANGED <<vars, walk>>
      /\ \A path \in Paths : Disconnect(path) => UNCHANGED <<vars, walk>>
      /\ \A path \in Paths, s \in Ids : Resume(path, s) => UNCHANGED <<vars, walk>>
  BY DEF allVars, historyVars, collectionVars, Start, Publish, Disconnect, Resume
<1>4. StoreStep => WalkInv'
  BY <1>1, StoreStepIsIdle, WatchedWalk
<1>5. ASSUME NEW path \in Paths, Finish(path) PROVE WalkInv'
  <2>1. Watched
    BY <1>5 DEF Finish
  <2>2. Touches \/ \E s \in Ids : Records(s)
    BY <1>1, <1>5, FinishKinds DEF Touches
  <2> QED BY <1>1, <2>1, <2>2, WatchedWalk
<1>6. ASSUME Ends PROVE WalkInv'
  <2>1. walk' = NoWalk
    BY <1>6 DEF Ends
  <2> QED BY <1>1, <2>1 DEF WalkInv, WalkInOrder, WalkSeesAll, NoWalk
<1> QED
  BY <1>2, <1>3, <1>4, <1>5, <1>6, BeginWalkWalk, ReadPageWalk
  DEF HistoryNext, StoreStep

\* Whatever the query, the size of the pages and the rows: the pages hold every
\* row that is asked for, newest first; and a client that turns them while
\* publishes end misses none that was there all the time, unless a row went.
THEOREM NothingIsMissed == HistorySpec => []PagesMissNothing
<1>1. HistoryInit => WalkInv
  BY TypesInit DEF HistoryInit, WalkInv, WalkInOrder, WalkSeesAll, NoWalk
<1>2. WalkInv => PagesMissNothing
  BY PagesAreFull DEF WalkInv, TypesInv, TypeInv, PagesMissNothing
<1> QED BY <1>1, <1>2, WalkStep, PTL DEF HistorySpec
=============================================================================
