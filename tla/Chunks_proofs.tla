--------------------------- MODULE Chunks_proofs ----------------------------
(***************************************************************************)
(* What the parser and the writer of RTMP chunks do, for every parser,     *)
(* message, chunk size and cell: sequences, and folds over them; the       *)
(* rounds in which a parser reads, by the fields they change; a header, a  *)
(* payload and a chunk, read cell by cell; what AMF0 writes, and how it is *)
(* read.  Then a message in chunks is read whole, a command is read as it  *)
(* was written, and a server reads what a client has said; and no media    *)
(* without payload is handed on, if none is sent, whatever else is read.   *)
(***************************************************************************)
EXTENDS Rtmp, SequenceTheorems, FiniteSetTheorems, TLAPS

(***************************************************************************)
(* Numbers.                                                                *)
(***************************************************************************)
\* A set of numbers that is not empty has a least one.
LEMMA Least == ASSUME NEW T \in SUBSET Nat, T # {} PROVE \E x \in T : \A y \in T : x <= y
<1>1. PICK x \in T : \A y \in T : ~(<<y,x>> \in OpToRel(<,Nat))
  BY NatLessThanWellFounded, WFMin
<1>2. \A y \in T : ~(y < x)
  BY <1>1 DEF OpToRel
<1> QED BY <1>2

\* Induction: a set of numbers that has 0, and with a number the next one.
LEMMA Climb ==
  ASSUME NEW S, 0 \in S, \A i \in Nat : i \in S => i + 1 \in S
  PROVE  Nat \subseteq S
<1> SUFFICES ASSUME NEW k \in Nat, k \notin S PROVE FALSE
  OBVIOUS
<1> DEFINE T == {i \in Nat : i \notin S}
<1>1. PICK x \in T : \A y \in T : x <= y
  <2>1. T \in SUBSET Nat /\ T # {}
    OBVIOUS
  <2> QED BY <2>1, Least
<1>2. x \in Nat /\ x \notin S /\ x # 0
  BY <1>1
<1>3. x - 1 \in Nat /\ x - 1 \in S
  BY <1>1, <1>2
<1> QED BY <1>2, <1>3

(***************************************************************************)
(* Sequences, of whatever elements.                                        *)
(***************************************************************************)
IsSeq(s) == s \in Seq({s[i] : i \in DOMAIN s})

LEMMA SeqIs == ASSUME NEW S, NEW s \in Seq(S) PROVE IsSeq(s)
<1>1. Len(s) \in Nat /\ s \in [1..Len(s) -> S] /\ DOMAIN s = 1..Len(s)
  BY LenProperties
<1>2. s \in [1..Len(s) -> {s[i] : i \in DOMAIN s}]
  BY <1>1
<1> HIDE DEF IsSeq
<1> QED BY <1>1, <1>2, SeqDef DEF IsSeq

LEMMA IsSeqLen == ASSUME NEW s, IsSeq(s) PROVE Len(s) \in Nat /\ DOMAIN s = 1..Len(s)
BY LenProperties DEF IsSeq

LEMMA IsSeqFcn ==
  ASSUME NEW n \in Nat, NEW s, DOMAIN s = 1..n, s = [i \in 1..n |-> s[i]]
  PROVE  IsSeq(s) /\ Len(s) = n
<1>1. s \in [1..n -> {s[i] : i \in DOMAIN s}]
  OBVIOUS
<1>2. s \in Seq({s[i] : i \in DOMAIN s})
  BY <1>1, SeqDef
<1>3. Len(s) \in Nat /\ DOMAIN s = 1..Len(s)
  BY <1>2, LenProperties
<1>4. Len(s) = n
  <2>1. n \in Nat /\ Len(s) \in Nat /\ 1..n = 1..Len(s)
    BY <1>3
  <2> QED BY <2>1
<1> QED BY <1>2, <1>4 DEF IsSeq

\* Two sequences are sequences of the elements of both.
LEMMA Common ==
  ASSUME NEW s, NEW t, IsSeq(s), IsSeq(t)
  PROVE  \E S : s \in Seq(S) /\ t \in Seq(S)
<1> DEFINE A == {s[i] : i \in DOMAIN s}
           B == {t[i] : i \in DOMAIN t}
<1>1. s \in Seq(A) /\ t \in Seq(B)
  BY DEF IsSeq
<1>2. A \subseteq A \cup B /\ B \subseteq A \cup B
  OBVIOUS
<1> HIDE DEF A, B
<1>3. s \in Seq(A \cup B)
  BY <1>1, <1>2, SeqMonotonic
<1>4. t \in Seq(A \cup B)
  BY <1>1, <1>2, SeqMonotonic
<1> QED BY <1>3, <1>4

LEMMA IsEmpty == IsSeq(<<>>) /\ Len(<<>>) = 0 /\ DOMAIN <<>> = {}
<1>1. <<>> \in Seq({0}) /\ Len(<<>>) = 0
  BY EmptySeq
<1>2. IsSeq(<<>>)
  BY <1>1, SeqIs
<1>3. DOMAIN <<>> = {}
  OBVIOUS
<1> QED BY <1>1, <1>2, <1>3

LEMMA IsOne == ASSUME NEW x PROVE IsSeq(<<x>>) /\ Len(<<x>>) = 1 /\ <<x>>[1] = x
<1>1. <<x>> \in Seq({x})
  OBVIOUS
<1> QED BY <1>1, SeqIs

LEMMA EmptyLen == ASSUME NEW s, IsSeq(s) PROVE s = <<>> <=> Len(s) = 0
<1> DEFINE S == {s[i] : i \in DOMAIN s}
<1>1. s \in Seq(S)
  BY DEF IsSeq
<1> HIDE DEF S
<1>2. s # <<>> => Len(s) \in Nat \ {0}
  BY <1>1, EmptySeq
<1>3. Len(<<>>) = 0
  BY IsEmpty
<1> QED BY <1>2, <1>3

LEMMA Concat ==
  ASSUME NEW s, NEW t, IsSeq(s), IsSeq(t)
  PROVE  /\ IsSeq(s \o t) /\ Len(s \o t) = Len(s) + Len(t)
         /\ \A i \in 1..Len(s) : (s \o t)[i] = s[i]
         /\ \A i \in 1..Len(t) : (s \o t)[Len(s) + i] = t[i]
<1>1. PICK S : s \in Seq(S) /\ t \in Seq(S)
  BY Common
<1>2. Len(s) \in Nat /\ Len(t) \in Nat
  BY IsSeqLen
<1>3. /\ s \o t \in Seq(S) /\ Len(s \o t) = Len(s) + Len(t)
      /\ \A i \in 1..(Len(s) + Len(t)) :
           (s \o t)[i] = IF i <= Len(s) THEN s[i] ELSE t[i - Len(s)]
  BY <1>1, ConcatProperties
<1>4. ASSUME NEW i \in 1..Len(t) PROVE (s \o t)[Len(s) + i] = t[i]
  <2>1. Len(s) + i \in 1..(Len(s) + Len(t)) /\ ~(Len(s) + i <= Len(s)) /\ (Len(s) + i) - Len(s) = i
    BY <1>2
  <2> QED BY <1>3, <2>1
<1>5. ASSUME NEW i \in 1..Len(s) PROVE (s \o t)[i] = s[i]
  <2>1. i \in 1..(Len(s) + Len(t)) /\ i <= Len(s)
    BY <1>2
  <2> QED BY <1>3, <2>1
<1>6. IsSeq(s \o t)
  BY <1>3, SeqIs
<1> QED BY <1>3, <1>4, <1>5, <1>6

\* Three sequences may be put together in either order.
Regroups(s, t, u) == (s \o t) \o u = s \o (t \o u)

LEMMA Regrouped ==
  ASSUME NEW s, NEW t, NEW u, IsSeq(s), IsSeq(t), IsSeq(u)
  PROVE  Regroups(s, t, u)
<1> DEFINE A == {s[i] : i \in DOMAIN s}
           B == {t[i] : i \in DOMAIN t}
           C == {u[i] : i \in DOMAIN u}
           D == A \cup B \cup C
<1>1. /\ s \in Seq(A) /\ t \in Seq(B) /\ u \in Seq(C)
      /\ A \subseteq D /\ B \subseteq D /\ C \subseteq D
  BY DEF IsSeq
<1> HIDE DEF A, B, C, D
<1>2. s \in Seq(D) /\ t \in Seq(D) /\ u \in Seq(D)
  BY <1>1, SeqMonotonic
<1>3. (s \o t) \o u = s \o (t \o u)
  BY <1>2, ConcatAssociative
<1> QED BY <1>3 DEF Regroups

LEMMA Associative ==
  ASSUME NEW s, NEW t, NEW u, IsSeq(s), IsSeq(t), IsSeq(u)
  PROVE  (s \o t) \o u = s \o (t \o u)
<1>1. Regroups(s, t, u)
  BY Regrouped
<1> QED BY <1>1 DEF Regroups

LEMMA ConcatEmpty == ASSUME NEW s, IsSeq(s) PROVE s \o <<>> = s /\ <<>> \o s = s
BY ConcatEmptySeq DEF IsSeq

LEMMA AppendIs ==
  ASSUME NEW s, NEW x, IsSeq(s)
  PROVE  /\ Append(s, x) = s \o <<x>>
         /\ IsSeq(Append(s, x)) /\ Len(Append(s, x)) = Len(s) + 1
         /\ \A i \in 1..Len(s) : Append(s, x)[i] = s[i]
         /\ Append(s, x)[Len(s) + 1] = x
<1>1. IsSeq(<<x>>) /\ Len(<<x>>) = 1 /\ <<x>>[1] = x
  BY IsOne
<1>2. PICK S : s \in Seq(S) /\ <<x>> \in Seq(S)
  BY Common, <1>1
<1>3. x \in S
  BY <1>1, <1>2, ElementOfSeq
<1>4. Append(s, x) = s \o <<x>>
  BY <1>2, <1>3
<1>5. /\ IsSeq(s \o <<x>>) /\ Len(s \o <<x>>) = Len(s) + Len(<<x>>)
      /\ \A i \in 1..Len(s) : (s \o <<x>>)[i] = s[i]
      /\ \A i \in 1..Len(<<x>>) : (s \o <<x>>)[Len(s) + i] = <<x>>[i]
  BY <1>1, Concat
<1>6. (s \o <<x>>)[Len(s) + 1] = x
  <2>1. 1 \in 1..Len(<<x>>)
    BY <1>1
  <2> QED BY <1>1, <1>5, <2>1
<1> QED BY <1>1, <1>4, <1>5, <1>6

\* t is s and then x.
Extends(t, s, x) ==
  /\ t = s \o <<x>> /\ IsSeq(t) /\ Len(t) = Len(s) + 1
  /\ \A i \in 1..Len(s) : t[i] = s[i]
  /\ t[Len(s) + 1] = x

LEMMA Appended ==
  ASSUME NEW s, NEW x, IsSeq(s)
  PROVE  Extends(Append(s, x), s, x)
BY AppendIs DEF Extends

LEMMA SubIs ==
  ASSUME NEW s, IsSeq(s), NEW m \in Nat, NEW n \in Nat, 1 <= m, n <= Len(s)
  PROVE  /\ IsSeq(SubSeq(s, m, n))
         /\ Len(SubSeq(s, m, n)) = IF m <= n THEN (n - m) + 1 ELSE 0
         /\ \A i \in 1..((n - m) + 1) : SubSeq(s, m, n)[i] = s[(m + i) - 1]
<1> DEFINE S == {s[i] : i \in DOMAIN s}
<1>1. Len(s) \in Nat /\ DOMAIN s = 1..Len(s)
  BY IsSeqLen
<1>2. \A i \in m..n : s[i] \in S
  BY <1>1
<1> HIDE DEF S
<1>3. /\ SubSeq(s, m, n) \in Seq(S)
      /\ Len(SubSeq(s, m, n)) = IF m <= n THEN (n - m) + 1 ELSE 0
      /\ \A i \in 1..((n - m) + 1) : SubSeq(s, m, n)[i] = s[(m + i) - 1]
  BY <1>2, SubSeqProperties
<1> QED BY <1>3, SeqIs

\* A sequence is its first n elements and the others.
LEMMA Split ==
  ASSUME NEW s, IsSeq(s), NEW n \in Nat, n <= Len(s)
  PROVE  /\ s = SubSeq(s, 1, n) \o SubSeq(s, n + 1, Len(s))
         /\ IsSeq(SubSeq(s, 1, n)) /\ Len(SubSeq(s, 1, n)) = n
         /\ IsSeq(SubSeq(s, n + 1, Len(s))) /\ Len(SubSeq(s, n + 1, Len(s))) = Len(s) - n
         /\ \A i \in 1..n : SubSeq(s, 1, n)[i] = s[i]
<1> DEFINE S == {s[i] : i \in DOMAIN s}
<1>1. Len(s) \in Nat /\ s \in Seq(S)
  BY IsSeqLen DEF IsSeq
<1> HIDE DEF S
<1>2. s = SubSeq(s, 1, Len(s))
  BY <1>1, SubSeqFull
<1>3. SubSeq(s, 1, n) \o SubSeq(s, n + 1, Len(s)) = SubSeq(s, 1, Len(s))
  <2>1. 1 \in 1..(Len(s) + 1) /\ n \in (1 - 1)..Len(s) /\ Len(s) \in n..Len(s)
    BY <1>1
  <2> QED BY <1>1, <2>1, ConcatAdjacentSubSeq
<1>4. /\ IsSeq(SubSeq(s, 1, n))
      /\ Len(SubSeq(s, 1, n)) = IF 1 <= n THEN (n - 1) + 1 ELSE 0
      /\ \A i \in 1..((n - 1) + 1) : SubSeq(s, 1, n)[i] = s[(1 + i) - 1]
  BY SubIs
<1>5. /\ IsSeq(SubSeq(s, n + 1, Len(s)))
      /\ Len(SubSeq(s, n + 1, Len(s))) = IF n + 1 <= Len(s) THEN (Len(s) - (n + 1)) + 1 ELSE 0
  <2>1. n + 1 \in Nat /\ 1 <= n + 1 /\ Len(s) <= Len(s)
    BY <1>1
  <2> QED BY <1>1, <2>1, SubIs
<1>6. Len(SubSeq(s, 1, n)) = n /\ Len(SubSeq(s, n + 1, Len(s))) = Len(s) - n
  BY <1>1, <1>4, <1>5
<1>7. \A i \in 1..n : SubSeq(s, 1, n)[i] = s[i]
  BY <1>4
<1> QED BY <1>2, <1>3, <1>4, <1>5, <1>6, <1>7

\* The last element of a sequence, and those before it.
LEMMA FrontLast ==
  ASSUME NEW s, IsSeq(s), s # <<>>
  PROVE  \E t, x : IsSeq(t) /\ s = Append(t, x) /\ Len(t) = Len(s) - 1
<1>1. Len(s) \in Nat /\ Len(s) # 0
  BY IsSeqLen, EmptyLen
<1> DEFINE n == Len(s) - 1
           t == SubSeq(s, 1, n)
           u == SubSeq(s, n + 1, Len(s))
<1>2. n \in Nat /\ n <= Len(s) /\ Len(s) - n = 1
  BY <1>1
<1> HIDE DEF n
<1>3. s = t \o u /\ IsSeq(t) /\ Len(t) = n /\ IsSeq(u) /\ Len(u) = 1
  BY <1>2, Split
<1> HIDE DEF t, u
<1>4. u = <<u[1]>>
  <2>1. DOMAIN u = 1..1 /\ u \in Seq({u[i] : i \in DOMAIN u})
    BY <1>3, IsSeqLen DEF IsSeq
  <2>2. <<u[1]>> \in Seq({u[i] : i \in DOMAIN u}) /\ Len(<<u[1]>>) = 1
    BY <2>1
  <2> QED BY <1>3, <2>1, <2>2, SeqEqual
<1>5. Append(t, u[1]) = t \o <<u[1]>>
  BY <1>3, AppendIs
<1> QED BY <1>2, <1>3, <1>4, <1>5 DEF n

LEMMA SameSeq ==
  ASSUME NEW s, NEW t, IsSeq(s), IsSeq(t), Len(s) = Len(t),
         \A i \in 1..Len(s) : s[i] = t[i]
  PROVE  s = t
<1>1. PICK S : s \in Seq(S) /\ t \in Seq(S)
  BY Common
<1> QED BY <1>1, SeqEqual

(***************************************************************************)
(* Reading a buffer, cell by cell.                                         *)
(***************************************************************************)
ReadOn(p, cells) ==
  LET after[i \in 0..Len(cells)] ==
        IF i = 0 THEN p ELSE ChunkRead(after[i - 1], cells[i])
  IN after[Len(cells)]

LEMMA ReadReads ==
  ASSUME NEW p, NEW cells PROVE Read(p, cells) = ReadOn([p EXCEPT !.handled = <<>>], cells)
BY DEF Read, ReadOn

Follows(f, p, cells, n) ==
  f = [i \in 0..n |-> IF i = 0 THEN p ELSE ChunkRead(f[i - 1], cells[i])]

LEMMA Followed ==
  ASSUME NEW p, NEW cells
  PROVE  \A n \in Nat : \E f : Follows(f, p, cells, n)
<1> DEFINE S == {n \in Nat : \E f : Follows(f, p, cells, n)}
<1>1. 0 \in S
  <2> DEFINE f == [i \in 0..0 |-> p]
  <2>1. \A i \in 0..0 : i = 0
    OBVIOUS
  <2>2. Follows(f, p, cells, 0)
    BY <2>1 DEF Follows
  <2> QED BY <2>2
<1>2. ASSUME NEW n \in Nat, n \in S PROVE n + 1 \in S
  <2>1. PICK f : Follows(f, p, cells, n)
    BY <1>2
  <2> DEFINE g == [i \in 0..(n + 1) |->
                     IF i = n + 1 THEN ChunkRead(f[n], cells[n + 1]) ELSE f[i]]
  <2>2. ASSUME NEW i \in 0..(n + 1)
        PROVE  g[i] = IF i = 0 THEN p ELSE ChunkRead(g[i - 1], cells[i])
    <3>1. CASE i = n + 1
      <4>1. i # 0 /\ i - 1 = n /\ n \in 0..(n + 1) /\ n # n + 1
        BY <3>1
      <4>2. g[i] = ChunkRead(f[n], cells[n + 1])
        BY <3>1
      <4>3. g[i - 1] = f[n]
        BY <4>1
      <4> HIDE DEF g
      <4> QED BY <3>1, <4>1, <4>2, <4>3
    <3>2. CASE i # n + 1 /\ i # 0
      <4>1. i \in 0..n /\ i - 1 \in 0..(n + 1) /\ i - 1 # n + 1
        BY <3>2
      <4>2. f[i] = ChunkRead(f[i - 1], cells[i])
        BY <2>1, <3>2, <4>1 DEF Follows
      <4>3. g[i] = f[i] /\ g[i - 1] = f[i - 1]
        BY <3>2, <4>1
      <4> HIDE DEF g
      <4> QED BY <3>2, <4>2, <4>3
    <3>3. CASE i = 0
      <4>1. 0 \in 0..n /\ i # n + 1
        BY <3>3
      <4>2. f[0] = p
        BY <2>1, <4>1 DEF Follows
      <4> QED BY <3>3, <4>1, <4>2
    <3> QED BY <3>1, <3>2, <3>3
  <2>3. g = [i \in 0..(n + 1) |-> g[i]]
    OBVIOUS
  <2> HIDE DEF g
  <2>4. Follows(g, p, cells, n + 1)
    BY <2>2, <2>3 DEF Follows
  <2> QED BY <2>4
<1> HIDE DEF S
<1>3. Nat \subseteq S
  BY <1>1, <1>2, Climb
<1> QED BY <1>3 DEF S

\* What is read is the last of any states that follow one another.
LEMMA ReadIs ==
  ASSUME NEW p, NEW cells, IsSeq(cells), NEW g, g[0] = p,
         \A i \in 1..Len(cells) : g[i] = ChunkRead(g[i - 1], cells[i])
  PROVE  ReadOn(p, cells) = g[Len(cells)]
<1>1. PICK n \in Nat : n = Len(cells)
  BY IsSeqLen
<1>2. PICK f : f = (CHOOSE h : Follows(h, p, cells, n)) /\ ReadOn(p, cells) = f[n]
  BY <1>1 DEF ReadOn, Follows
<1>3. Follows(f, p, cells, n)
  BY <1>2, Followed
<1> DEFINE S == {i \in Nat : i <= n => f[i] = g[i]}
<1>4. 0 \in S
  <2>1. 0 \in 0..n
    OBVIOUS
  <2> QED BY <1>3, <2>1 DEF Follows
<1>5. ASSUME NEW i \in Nat, i \in S PROVE i + 1 \in S
  <2> SUFFICES ASSUME i + 1 <= n PROVE f[i + 1] = g[i + 1]
    OBVIOUS
  <2>1. i + 1 \in 0..n /\ i + 1 # 0 /\ (i + 1) - 1 = i /\ i <= n /\ i + 1 \in 1..n
    OBVIOUS
  <2>2. f[i + 1] = ChunkRead(f[i], cells[i + 1])
    BY <1>3, <2>1 DEF Follows
  <2>3. g[i + 1] = ChunkRead(g[i], cells[i + 1])
    BY <1>1, <2>1
  <2>4. f[i] = g[i]
    BY <1>5, <2>1
  <2> QED BY <2>2, <2>3, <2>4
<1> HIDE DEF S
<1>6. n \in S
  BY <1>4, <1>5, Climb
<1> QED BY <1>1, <1>2, <1>6 DEF S

\* The states while a buffer is read.
LEMMA ReadStates ==
  ASSUME NEW p, NEW cells, IsSeq(cells)
  PROVE  \E g : /\ g[0] = p
                /\ \A i \in 1..Len(cells) : g[i] = ChunkRead(g[i - 1], cells[i])
                /\ ReadOn(p, cells) = g[Len(cells)]
<1>1. PICK n \in Nat : n = Len(cells)
  BY IsSeqLen
<1>2. PICK f : Follows(f, p, cells, n)
  BY Followed
<1>3. f[0] = p
  <2>1. 0 \in 0..n
    OBVIOUS
  <2> QED BY <1>2, <2>1 DEF Follows
<1>4. ASSUME NEW i \in 1..n PROVE f[i] = ChunkRead(f[i - 1], cells[i])
  <2>1. i \in 0..n /\ i # 0
    OBVIOUS
  <2> QED BY <1>2, <2>1 DEF Follows
<1>5. ReadOn(p, cells) = f[Len(cells)]
  BY <1>1, <1>3, <1>4, ReadIs
<1> QED BY <1>1, <1>3, <1>4, <1>5

LEMMA ReadNothing == ASSUME NEW p PROVE ReadOn(p, <<>>) = p
<1>1. PICK g : /\ g[0] = p
               /\ \A i \in 1..Len(<<>>) : g[i] = ChunkRead(g[i - 1], <<>>[i])
               /\ ReadOn(p, <<>>) = g[Len(<<>>)]
  BY IsEmpty, ReadStates
<1> QED BY <1>1, IsEmpty

LEMMA ReadMore ==
  ASSUME NEW p, NEW s, IsSeq(s), NEW x
  PROVE  ReadOn(p, Append(s, x)) = ChunkRead(ReadOn(p, s), x)
<1>1. PICK n \in Nat : n = Len(s)
  BY IsSeqLen
<1>2. PICK g : /\ g[0] = p
               /\ \A i \in 1..Len(s) : g[i] = ChunkRead(g[i - 1], s[i])
               /\ ReadOn(p, s) = g[Len(s)]
  BY ReadStates
<1> DEFINE t == Append(s, x)
           h == [i \in 0..(n + 1) |-> IF i = n + 1 THEN ChunkRead(g[n], x) ELSE g[i]]
<1>3. IsSeq(t) /\ Len(t) = n + 1 /\ (\A i \in 1..n : t[i] = s[i]) /\ t[n + 1] = x
  BY <1>1, AppendIs
<1>4. h[0] = p
  <2>1. 0 \in 0..(n + 1) /\ 0 # n + 1
    OBVIOUS
  <2> QED BY <1>2, <2>1
<1>5. ASSUME NEW i \in 1..(n + 1) PROVE h[i] = ChunkRead(h[i - 1], t[i])
  <2>1. i \in 0..(n + 1) /\ i - 1 \in 0..(n + 1) /\ i - 1 # n + 1
    OBVIOUS
  <2>2. h[i - 1] = g[i - 1]
    BY <2>1
  <2>3. CASE i = n + 1
    <3>1. h[i] = ChunkRead(g[n], x) /\ i - 1 = n
      BY <2>1, <2>3
    <3> HIDE DEF h, t
    <3> QED BY <1>3, <2>2, <2>3, <3>1
  <2>4. CASE i # n + 1
    <3>1. h[i] = g[i] /\ i \in 1..n
      BY <2>1, <2>4
    <3> HIDE DEF h, t
    <3> QED BY <1>1, <1>2, <1>3, <2>2, <3>1
  <2> QED BY <2>3, <2>4
<1>6. h[n + 1] = ChunkRead(g[n], x)
  <2>1. n + 1 \in 0..(n + 1)
    OBVIOUS
  <2> QED BY <2>1
<1> HIDE DEF h, t
<1>7. ReadOn(p, t) = h[n + 1]
  BY <1>3, <1>4, <1>5, ReadIs
<1> QED BY <1>1, <1>2, <1>6, <1>7 DEF t

\* A buffer is read like its two parts, one after the other: where TCP cuts the
\* cells of a connection makes no difference to what Rtmp.parserData leaves.
THEOREM ReadParts ==
  ASSUME NEW p, NEW s, NEW t, IsSeq(s), IsSeq(t)
  PROVE  ReadOn(p, s \o t) = ReadOn(ReadOn(p, s), t)
<1> DEFINE S == {n \in Nat : \A u : IsSeq(u) /\ Len(u) = n =>
                    ReadOn(p, s \o u) = ReadOn(ReadOn(p, s), u)}
<1>1. 0 \in S
  <2> SUFFICES ASSUME NEW u, IsSeq(u), Len(u) = 0
               PROVE  ReadOn(p, s \o u) = ReadOn(ReadOn(p, s), u)
    OBVIOUS
  <2>1. u = <<>> /\ s \o u = s
    BY EmptyLen, ConcatEmpty
  <2> QED BY <2>1, ReadNothing
<1>2. ASSUME NEW n \in Nat, n \in S PROVE n + 1 \in S
  <2> SUFFICES ASSUME NEW u, IsSeq(u), Len(u) = n + 1
               PROVE  ReadOn(p, s \o u) = ReadOn(ReadOn(p, s), u)
    OBVIOUS
  <2>1. u # <<>>
    BY EmptyLen
  <2>2. PICK v, x : IsSeq(v) /\ u = Append(v, x) /\ Len(v) = Len(u) - 1
    BY <2>1, FrontLast
  <2>3. Len(v) = n
    BY <2>2
  <2>4. ReadOn(p, s \o v) = ReadOn(ReadOn(p, s), v)
    BY <1>2, <2>2, <2>3
  <2>5. s \o u = Append(s \o v, x)
    <3>1. u = v \o <<x>> /\ IsSeq(<<x>>) /\ IsSeq(s \o v)
      BY <2>2, AppendIs, IsOne, Concat
    <3>2. Append(s \o v, x) = (s \o v) \o <<x>>
      BY <3>1, AppendIs
    <3>3. (s \o v) \o <<x>> = s \o (v \o <<x>>)
      <4>1. PICK y : y = <<x>>
        OBVIOUS
      <4>2. IsSeq(s) /\ IsSeq(v) /\ IsSeq(y)
        BY <2>2, <3>1, <4>1
      <4>3. Regroups(s, v, y)
        BY <4>2, Regrouped
      <4> QED BY <4>1, <4>3 DEF Regroups
    <3> QED BY <3>1, <3>2, <3>3
  <2>6. IsSeq(s \o v)
    BY <2>2, Concat
  <2> QED BY <2>2, <2>4, <2>5, <2>6, ReadMore
<1> HIDE DEF S
<1>3. PICK n \in Nat : n = Len(t)
  BY IsSeqLen
<1>4. n \in S
  BY <1>1, <1>2, Climb
<1> QED BY <1>3, <1>4 DEF S

LEMMA ReadOne == ASSUME NEW p, NEW x PROVE ReadOn(p, <<x>>) = ChunkRead(p, x)
<1>1. IsSeq(<<>>) /\ Append(<<>>, x) = <<x>>
  <2>1. Append(<<>>, x) = <<>> \o <<x>> /\ IsSeq(<<x>>)
    BY IsEmpty, AppendIs, IsOne
  <2> QED BY <2>1, IsEmpty, ConcatEmpty
<1>2. ReadOn(p, Append(<<>>, x)) = ChunkRead(ReadOn(p, <<>>), x)
  BY <1>1, ReadMore
<1> QED BY <1>1, <1>2, ReadNothing

(***************************************************************************)
(* The fields of a parser, after each round.                               *)
(***************************************************************************)
Fields == {"state", "buffer", "basicBytes", "cid", "inPackets", "inChunkSize",
           "handled", "inStep"}
IsParser(p) == DOMAIN p = Fields /\ IsSeq(p.handled)

LEMMA Put ==
  ASSUME NEW c, NEW k, NEW f
  PROVE  /\ DOMAIN Updated(f, c, k) = {c} \cup DOMAIN f
         /\ Updated(f, c, k)[c] = k
         /\ \A d \in DOMAIN f : d # c => Updated(f, c, k)[d] = f[d]
BY DEF Updated

\* All fields but inPackets, state, cid, handled, inChunkSize are the same.
SameBuffer(p, q) == q.buffer = p.buffer /\ q.basicBytes = p.basicBytes /\ q.inStep = p.inStep
SameRest(p, q) == q.handled = p.handled /\ q.inChunkSize = p.inChunkSize

LEMMA WithPacketFields ==
  ASSUME NEW p, DOMAIN p = Fields, NEW k
  PROVE  /\ DOMAIN WithPacket(p, k) = Fields
         /\ WithPacket(p, k).inPackets = Updated(p.inPackets, p.cid, k)
         /\ WithPacket(p, k).state = p.state /\ WithPacket(p, k).cid = p.cid
         /\ SameBuffer(p, WithPacket(p, k)) /\ SameRest(p, WithPacket(p, k))
<1> DEFINE f == Updated(p.inPackets, p.cid, k)
<1>1. WithPacket(p, k) = [p EXCEPT !.inPackets = f]
  BY DEF WithPacket
<1> HIDE DEF f
<1>2. DOMAIN [p EXCEPT !.inPackets = f] = Fields /\ [p EXCEPT !.inPackets = f].inPackets = f
  BY DEF Fields
<1> QED BY <1>1, <1>2 DEF f, SameBuffer, SameRest, Fields

LEMMA StateFields ==
  ASSUME NEW p, DOMAIN p = Fields, NEW st
  PROVE  /\ DOMAIN [p EXCEPT !.state = st] = Fields
         /\ [p EXCEPT !.state = st].state = st
         /\ [p EXCEPT !.state = st].cid = p.cid
         /\ [p EXCEPT !.state = st].inPackets = p.inPackets
         /\ SameBuffer(p, [p EXCEPT !.state = st]) /\ SameRest(p, [p EXCEPT !.state = st])
BY DEF SameBuffer, SameRest, Fields

Parsed(p) ==
  LET cid == Cid(p)
      old == IF cid \in DOMAIN p.inPackets THEN p.inPackets[cid] ELSE RtmpPacket
      at == p.basicBytes
      fmt == Fmt(p)
  IN [old EXCEPT
          !.time   = IF fmt <= 2 THEN p.buffer[at + 1].time ELSE @,
          !.length = IF fmt <= 1 THEN p.buffer[at + 2].lengthType[1] ELSE @,
          !.type   = IF fmt <= 1 THEN p.buffer[at + 2].lengthType[2] ELSE @,
          !.sid    = IF fmt = 0 THEN p.buffer[at + 3].streamId ELSE @]

LEMMA PacketParseFields ==
  ASSUME NEW p, DOMAIN p = Fields
  PROVE  /\ DOMAIN PacketParse(p) = Fields
         /\ PacketParse(p).inPackets = Updated(p.inPackets, Cid(p), Parsed(p))
         /\ PacketParse(p).cid = Cid(p)
         /\ PacketParse(p).state = p.state
         /\ SameBuffer(p, PacketParse(p)) /\ SameRest(p, PacketParse(p))
<1> DEFINE q == [p EXCEPT !.cid = Cid(p)]
<1>1. /\ DOMAIN q = Fields /\ q.cid = Cid(p) /\ q.inPackets = p.inPackets
      /\ q.state = p.state /\ SameBuffer(p, q) /\ SameRest(p, q)
  <2> DEFINE c == Cid(p)
  <2> HIDE DEF c
  <2>1. /\ DOMAIN [p EXCEPT !.cid = c] = Fields /\ [p EXCEPT !.cid = c].cid = c
        /\ [p EXCEPT !.cid = c].inPackets = p.inPackets
        /\ [p EXCEPT !.cid = c].state = p.state
        /\ SameBuffer(p, [p EXCEPT !.cid = c]) /\ SameRest(p, [p EXCEPT !.cid = c])
    BY DEF Fields, SameBuffer, SameRest
  <2> QED BY <2>1 DEF c
<1>2. PacketParse(p) = WithPacket(q, Parsed(p))
  BY DEF PacketParse, Parsed
<1> HIDE DEF q
<1>3. /\ DOMAIN WithPacket(q, Parsed(p)) = Fields
      /\ WithPacket(q, Parsed(p)).inPackets = Updated(q.inPackets, q.cid, Parsed(p))
      /\ WithPacket(q, Parsed(p)).state = q.state /\ WithPacket(q, Parsed(p)).cid = q.cid
      /\ SameBuffer(q, WithPacket(q, Parsed(p))) /\ SameRest(q, WithPacket(q, Parsed(p)))
  BY <1>1, WithPacketFields
<1> QED BY <1>1, <1>2, <1>3 DEF SameBuffer, SameRest

\* What packetHandler is called with.
Handed(k) == [type |-> k.type, sid |-> k.sid, clock |-> k.clock, payload |-> k.payload]

LEMMA PacketHandlerFields ==
  ASSUME NEW p, DOMAIN p = Fields, NEW k, k = ParserPacket(p)
  PROVE  /\ DOMAIN PacketHandler(p) = Fields
         /\ PacketHandler(p).state = "INIT" /\ PacketHandler(p).cid = p.cid
         /\ PacketHandler(p).inPackets =
              Updated(p.inPackets, p.cid, [k EXCEPT !.payload = <<>>])
         /\ SameBuffer(p, PacketHandler(p))
         /\ k.clock > MaxClock => SameRest(p, PacketHandler(p))
         /\ ~(k.clock > MaxClock) =>
              /\ PacketHandler(p).handled = Append(p.handled, Handed(k))
              /\ PacketHandler(p).inChunkSize = IF k.type = "chunkSize"
                                                THEN k.payload[1].size
                                                ELSE p.inChunkSize
<1> DEFINE a == [p EXCEPT !.state = "INIT"]
           done == WithPacket(a, [k EXCEPT !.payload = <<>>])
           size == IF k.type = "chunkSize" THEN k.payload[1].size ELSE p.inChunkSize
           sized == [done EXCEPT !.inChunkSize = size]
           more == Append(p.handled, Handed(k))
           heardOf == [sized EXCEPT !.handled = more]
<1>1. /\ DOMAIN a = Fields /\ a.state = "INIT" /\ a.cid = p.cid
      /\ a.inPackets = p.inPackets /\ SameBuffer(p, a) /\ SameRest(p, a)
  BY StateFields
<1>2. /\ DOMAIN done = Fields
      /\ done.inPackets = Updated(a.inPackets, a.cid, [k EXCEPT !.payload = <<>>])
      /\ done.state = a.state /\ done.cid = a.cid
      /\ SameBuffer(a, done) /\ SameRest(a, done)
  <2> HIDE DEF a
  <2> QED BY <1>1, WithPacketFields
<1>3. done.handled = p.handled /\ done.inChunkSize = p.inChunkSize
  BY <1>1, <1>2 DEF SameRest
<1>4. PacketHandler(p) = IF k.clock > MaxClock THEN done ELSE heardOf
  <2>1. sized = [done EXCEPT !.inChunkSize = IF k.type = "chunkSize"
                                             THEN k.payload[1].size ELSE @]
    BY <1>3, <1>2 DEF Fields
  <2>2. heardOf = [sized EXCEPT !.handled = Append(@, Handed(k))]
    <3>1. sized.handled = p.handled
      <4> HIDE DEF size, done
      <4> QED BY <1>2, <1>3 DEF Fields
    <3> HIDE DEF sized
    <3> QED BY <3>1
  <2>3. PacketHandler(p) =
          IF k.clock > MaxClock THEN done
          ELSE [[done EXCEPT !.inChunkSize = IF k.type = "chunkSize"
                                             THEN k.payload[1].size ELSE @]
                 EXCEPT !.handled = Append(@, Handed(k))]
    BY DEF PacketHandler, Handed
  <2> HIDE DEF done, sized, heardOf
  <2> QED BY <2>1, <2>2, <2>3
<1> HIDE DEF a, done, size, more
<1>5. /\ DOMAIN heardOf = Fields /\ heardOf.handled = more /\ heardOf.inChunkSize = size
      /\ heardOf.state = done.state /\ heardOf.cid = done.cid
      /\ heardOf.inPackets = done.inPackets /\ SameBuffer(done, heardOf)
  BY <1>2 DEF Fields, SameBuffer
<1> HIDE DEF heardOf
<1>6. CASE k.clock > MaxClock
  BY <1>1, <1>2, <1>4, <1>6 DEF SameBuffer, SameRest
<1>7. CASE ~(k.clock > MaxClock)
  BY <1>1, <1>2, <1>4, <1>5, <1>7 DEF SameBuffer, SameRest, size, more
<1> QED BY <1>6, <1>7

(***************************************************************************)
(* What a parser reads does not depend on what it has handled before.      *)
(***************************************************************************)
SameState(a, b) ==
  /\ b.state = a.state /\ b.buffer = a.buffer /\ b.basicBytes = a.basicBytes
  /\ b.cid = a.cid /\ b.inPackets = a.inPackets
  /\ b.inChunkSize = a.inChunkSize /\ b.inStep = a.inStep
\* b is as a, but handled the messages h before.
After(h, a, b) ==
  /\ IsParser(a) /\ IsParser(b) /\ IsSeq(h)
  /\ SameState(a, b) /\ b.handled = h \o a.handled

LEMMA AfterWithPacket ==
  ASSUME NEW a, NEW b, NEW h, NEW k, After(h, a, b)
  PROVE  After(h, WithPacket(a, k), WithPacket(b, k))
<1>1. DOMAIN a = Fields /\ DOMAIN b = Fields /\ SameState(a, b)
  BY DEF After, IsParser
<1>2. /\ DOMAIN WithPacket(a, k) = Fields
      /\ WithPacket(a, k).inPackets = Updated(a.inPackets, a.cid, k)
      /\ WithPacket(a, k).state = a.state /\ WithPacket(a, k).cid = a.cid
      /\ SameBuffer(a, WithPacket(a, k)) /\ SameRest(a, WithPacket(a, k))
  BY <1>1, WithPacketFields
<1>3. /\ DOMAIN WithPacket(b, k) = Fields
      /\ WithPacket(b, k).inPackets = Updated(b.inPackets, b.cid, k)
      /\ WithPacket(b, k).state = b.state /\ WithPacket(b, k).cid = b.cid
      /\ SameBuffer(b, WithPacket(b, k)) /\ SameRest(b, WithPacket(b, k))
  BY <1>1, WithPacketFields
<1>4. SameState(WithPacket(a, k), WithPacket(b, k))
  BY <1>1, <1>2, <1>3 DEF SameState, SameBuffer, SameRest
<1>5. WithPacket(a, k).handled = a.handled /\ WithPacket(b, k).handled = b.handled
  BY <1>2, <1>3 DEF SameRest
<1> QED BY <1>2, <1>3, <1>4, <1>5 DEF After, IsParser

LEMMA AfterState ==
  ASSUME NEW a, NEW b, NEW h, NEW st, After(h, a, b)
  PROVE  After(h, [a EXCEPT !.state = st], [b EXCEPT !.state = st])
<1>1. DOMAIN a = Fields /\ DOMAIN b = Fields /\ SameState(a, b)
  BY DEF After, IsParser
<1> DEFINE c == [a EXCEPT !.state = st]
           d == [b EXCEPT !.state = st]
<1>2. DOMAIN c = Fields /\ c.state = st /\ c.cid = a.cid /\ c.inPackets = a.inPackets
      /\ SameBuffer(a, c) /\ SameRest(a, c)
  BY <1>1, StateFields
<1>3. DOMAIN d = Fields /\ d.state = st /\ d.cid = b.cid /\ d.inPackets = b.inPackets
      /\ SameBuffer(b, d) /\ SameRest(b, d)
  BY <1>1, StateFields
<1> HIDE DEF c, d
<1>4. SameState(c, d)
  BY <1>1, <1>2, <1>3 DEF SameState, SameBuffer, SameRest
<1>5. c.handled = a.handled /\ d.handled = b.handled
  BY <1>2, <1>3 DEF SameRest
<1>6. After(h, c, d)
  BY <1>2, <1>3, <1>4, <1>5 DEF After, IsParser
<1> QED BY <1>6 DEF c, d

LEMMA AfterParse ==
  ASSUME NEW a, NEW b, NEW h, After(h, a, b)
  PROVE  After(h, PacketParse(a), PacketParse(b))
<1>1. DOMAIN a = Fields /\ DOMAIN b = Fields /\ SameState(a, b)
  BY DEF After, IsParser
<1>2. Cid(b) = Cid(a) /\ Parsed(b) = Parsed(a)
  <2>1. Cid(b) = Cid(a)
    BY <1>1 DEF Cid, SameState
  <2>2. Fmt(b) = Fmt(a)
    BY <1>1 DEF Fmt, SameState
  <2> QED BY <1>1, <2>1, <2>2 DEF Parsed, SameState
<1>3. /\ DOMAIN PacketParse(a) = Fields
      /\ PacketParse(a).inPackets = Updated(a.inPackets, Cid(a), Parsed(a))
      /\ PacketParse(a).cid = Cid(a) /\ PacketParse(a).state = a.state
      /\ SameBuffer(a, PacketParse(a)) /\ SameRest(a, PacketParse(a))
  BY <1>1, PacketParseFields
<1>4. /\ DOMAIN PacketParse(b) = Fields
      /\ PacketParse(b).inPackets = Updated(b.inPackets, Cid(b), Parsed(b))
      /\ PacketParse(b).cid = Cid(b) /\ PacketParse(b).state = b.state
      /\ SameBuffer(b, PacketParse(b)) /\ SameRest(b, PacketParse(b))
  BY <1>1, PacketParseFields
<1>5. SameState(PacketParse(a), PacketParse(b))
  BY <1>1, <1>2, <1>3, <1>4 DEF SameState, SameBuffer, SameRest
<1>6. PacketParse(a).handled = a.handled /\ PacketParse(b).handled = b.handled
  BY <1>3, <1>4 DEF SameRest
<1> QED BY <1>3, <1>4, <1>5, <1>6 DEF After, IsParser

LEMMA AfterHandler ==
  ASSUME NEW a, NEW b, NEW h, After(h, a, b)
  PROVE  After(h, PacketHandler(a), PacketHandler(b))
<1>1. DOMAIN a = Fields /\ DOMAIN b = Fields /\ SameState(a, b)
      /\ IsSeq(a.handled) /\ IsSeq(b.handled) /\ IsSeq(h) /\ b.handled = h \o a.handled
  BY DEF After, IsParser
<1>2. PICK k : k = ParserPacket(a) /\ k = ParserPacket(b)
  BY <1>1 DEF ParserPacket, SameState
<1> DEFINE c == PacketHandler(a)
           d == PacketHandler(b)
           size(p) == IF k.type = "chunkSize" THEN k.payload[1].size ELSE p.inChunkSize
           kept == [k EXCEPT !.payload = <<>>]
<1>3. /\ DOMAIN c = Fields /\ c.state = "INIT" /\ c.cid = a.cid
      /\ c.inPackets = Updated(a.inPackets, a.cid, kept)
      /\ SameBuffer(a, c)
      /\ k.clock > MaxClock => SameRest(a, c)
      /\ ~(k.clock > MaxClock) =>
           c.handled = Append(a.handled, Handed(k)) /\ c.inChunkSize = size(a)
  BY <1>1, <1>2, PacketHandlerFields
<1>4. /\ DOMAIN d = Fields /\ d.state = "INIT" /\ d.cid = b.cid
      /\ d.inPackets = Updated(b.inPackets, b.cid, kept)
      /\ SameBuffer(b, d)
      /\ k.clock > MaxClock => SameRest(b, d)
      /\ ~(k.clock > MaxClock) =>
           d.handled = Append(b.handled, Handed(k)) /\ d.inChunkSize = size(b)
  BY <1>1, <1>2, PacketHandlerFields
<1>5. size(a) = size(b)
  BY <1>1 DEF SameState
<1> HIDE DEF c, d, size, kept
<1>6. SameState(c, d)
  <2>1. c.inChunkSize = d.inChunkSize
    BY <1>1, <1>3, <1>4, <1>5 DEF SameRest, SameState
  <2> QED BY <1>1, <1>3, <1>4, <2>1 DEF SameState, SameBuffer
<1>7. IsSeq(c.handled) /\ IsSeq(d.handled) /\ d.handled = h \o c.handled
  <2>1. CASE k.clock > MaxClock
    BY <1>1, <1>3, <1>4, <2>1 DEF SameRest
  <2>2. CASE ~(k.clock > MaxClock)
    <3>1. PICK m : m = <<Handed(k)>> /\ IsSeq(m)
      BY IsOne
    <3>2. PICK u, v : u = a.handled /\ v = b.handled
      OBVIOUS
    <3>3. IsSeq(u) /\ IsSeq(v) /\ v = h \o u
      BY <1>1, <3>2
    <3>4. IsSeq(Append(u, Handed(k))) /\ Append(u, Handed(k)) = u \o m
      BY <3>1, <3>3, AppendIs
    <3>5. IsSeq(Append(v, Handed(k))) /\ Append(v, Handed(k)) = v \o m
      BY <3>1, <3>3, AppendIs
    <3>6. (h \o u) \o m = h \o (u \o m)
      <4>1. IsSeq(h) /\ IsSeq(u) /\ IsSeq(m)
        BY <1>1, <3>1, <3>3
      <4> QED BY <4>1, Associative
    <3>7. c.handled = Append(u, Handed(k))
      BY <1>3, <2>2, <3>2
    <3>8. d.handled = Append(v, Handed(k))
      BY <1>4, <2>2, <3>2
    <3>9. IsSeq(c.handled) /\ IsSeq(d.handled)
      BY <3>4, <3>5, <3>7, <3>8
    <3>10. d.handled = (h \o u) \o m /\ c.handled = u \o m
      BY <3>3, <3>4, <3>5, <3>7, <3>8, Zenon
    <3>11. d.handled = h \o c.handled
      BY <3>6, <3>10, Zenon
    <3> QED BY <3>9, <3>11
  <2> QED BY <2>1, <2>2
<1>8. After(h, c, d)
  BY <1>1, <1>3, <1>4, <1>6, <1>7 DEF After, IsParser
<1> QED BY <1>8 DEF c, d

LEMMA AfterPayload ==
  ASSUME NEW a, NEW b, NEW h, After(h, a, b)
  PROVE  After(h, PayloadRead(a), PayloadRead(b))
<1>1. SameState(a, b)
  BY DEF After
<1>2. ParserPacket(a) = ParserPacket(b)
  BY <1>1 DEF ParserPacket, SameState
<1>3. After(h, PacketHandler(a), PacketHandler(b))
  BY AfterHandler
<1>4. After(h, [a EXCEPT !.state = "INIT"], [b EXCEPT !.state = "INIT"])
  BY AfterState
<1> QED BY <1>1, <1>2, <1>3, <1>4 DEF PayloadRead, SameState

LEMMA AfterSettle ==
  ASSUME NEW a, NEW b, NEW h, After(h, a, b)
  PROVE  After(h, Settle(a), Settle(b))
<1>1. ASSUME NEW c, NEW d, After(h, c, d)
      PROVE  After(h, BasicHeaderRead(c), BasicHeaderRead(d))
  <2>1. After(h, [c EXCEPT !.state = "MESSAGE_HEADER"], [d EXCEPT !.state = "MESSAGE_HEADER"])
    BY <1>1, AfterState
  <2>2. SameState(c, d)
    BY <1>1 DEF After
  <2> QED BY <1>1, <2>1, <2>2 DEF BasicHeaderRead, SameState
<1>2. ASSUME NEW c, NEW d, After(h, c, d)
      PROVE  After(h, MessageHeaderRead(c), MessageHeaderRead(d))
  <2>1. After(h, PacketParse(c), PacketParse(d))
    BY <1>2, AfterParse
  <2>2. After(h, [PacketParse(c) EXCEPT !.state = "EXTENDED_TIMESTAMP"],
                 [PacketParse(d) EXCEPT !.state = "EXTENDED_TIMESTAMP"])
    BY <2>1, AfterState
  <2>3. SameState(c, d)
    BY <1>2 DEF After
  <2>4. HeaderSize(c) = HeaderSize(d)
    BY <2>3 DEF HeaderSize, Fmt, SameState
  <2> QED BY <1>2, <2>2, <2>3, <2>4 DEF MessageHeaderRead, SameState
<1>3. ASSUME NEW c, NEW d, After(h, c, d)
      PROVE  After(h, ExtendedTimestampRead(c), ExtendedTimestampRead(d))
  <2>1. SameState(c, d)
    BY <1>3 DEF After
  <2>2. HeaderSize(c) = HeaderSize(d) /\ ParserPacket(c) = ParserPacket(d)
        /\ Extended(c) = Extended(d) /\ Fmt(c) = Fmt(d)
    BY <2>1 DEF HeaderSize, Fmt, SameState, ParserPacket, Extended
  <2>3. PICK t : /\ t = IF Extended(c) THEN Last(c.buffer).ext ELSE ParserPacket(c).time
                 /\ t = IF Extended(d) THEN Last(d.buffer).ext ELSE ParserPacket(d).time
    BY <2>1, <2>2 DEF SameState
  <2>4. PICK k : k = ClockOf(c, t) /\ k = ClockOf(d, t)
    BY <2>2 DEF ClockOf
  <2>5. After(h, [c EXCEPT !.state = "PAYLOAD"], [d EXCEPT !.state = "PAYLOAD"])
    BY <1>3, AfterState
  <2>6. After(h, WithPacket([c EXCEPT !.state = "PAYLOAD"], k),
                 WithPacket([d EXCEPT !.state = "PAYLOAD"], k))
    BY <2>5, AfterWithPacket
  <2>7. ExtendedTimestampRead(c) =
          IF c.state # "EXTENDED_TIMESTAMP" \/ (Extended(c) /\ Len(c.buffer) = HeaderSize(c))
          THEN c ELSE WithPacket([c EXCEPT !.state = "PAYLOAD"], k)
    BY <2>3, <2>4, Zenon DEF ExtendedTimestampRead
  <2>8. ExtendedTimestampRead(d) =
          IF d.state # "EXTENDED_TIMESTAMP" \/ (Extended(d) /\ Len(d.buffer) = HeaderSize(d))
          THEN d ELSE WithPacket([d EXCEPT !.state = "PAYLOAD"], k)
    BY <2>3, <2>4, Zenon DEF ExtendedTimestampRead
  <2> QED BY <1>3, <2>1, <2>2, <2>6, <2>7, <2>8 DEF SameState
<1>4. ASSUME NEW c, NEW d, After(h, c, d)
      PROVE  After(h, EmptyPayload(c), EmptyPayload(d))
  <2>1. SameState(c, d)
    BY <1>4 DEF After
  <2>2. ParserPacket(c) = ParserPacket(d)
    BY <2>1 DEF SameState, ParserPacket
  <2>3. After(h, PayloadRead(c), PayloadRead(d))
    BY <1>4, AfterPayload
  <2> QED BY <1>4, <2>1, <2>2, <2>3 DEF EmptyPayload, SameState
<1>5. After(h, BasicHeaderRead(a), BasicHeaderRead(b))
  BY <1>1
<1>6. After(h, MessageHeaderRead(BasicHeaderRead(a)), MessageHeaderRead(BasicHeaderRead(b)))
  BY <1>2, <1>5
<1>7. After(h, ExtendedTimestampRead(MessageHeaderRead(BasicHeaderRead(a))),
               ExtendedTimestampRead(MessageHeaderRead(BasicHeaderRead(b))))
  BY <1>3, <1>6
<1>8. After(h, EmptyPayload(ExtendedTimestampRead(MessageHeaderRead(BasicHeaderRead(a)))),
               EmptyPayload(ExtendedTimestampRead(MessageHeaderRead(BasicHeaderRead(b)))))
  BY <1>4, <1>7
<1> QED BY <1>8 DEF Settle

\* The cell that a chunk begins with, one of its header, and one of its payload.
Begun(p, cell) ==
  [p EXCEPT !.state = "BASIC_HEADER", !.buffer = <<cell>>,
            !.basicBytes = CASE cell.basic[2] = 0 -> 2
                             [] cell.basic[2] = 1 -> 3
                             [] OTHER -> 1]
Longer(p, cell) == [p EXCEPT !.buffer = Append(@, cell)]
Taken(p, cell) == WithPacket(p, [ParserPacket(p) EXCEPT !.payload = Append(@, cell)])

LEMMA TakeCases ==
  ASSUME NEW p, NEW cell
  PROVE  TakeCell(p, cell) =
           IF ~p.inStep \/ ~Expects(p, cell) THEN [p EXCEPT !.inStep = FALSE]
           ELSE IF p.state = "INIT" THEN Begun(p, cell)
           ELSE IF p.state # "PAYLOAD" THEN Longer(p, cell)
           ELSE PayloadRead(Taken(p, cell))
BY Zenon DEF TakeCell, Begun, Longer, Taken

LEMMA BegunFields ==
  ASSUME NEW p, DOMAIN p = Fields, NEW cell
  PROVE  LET q == Begun(p, cell)
         IN /\ DOMAIN q = Fields /\ q.state = "BASIC_HEADER" /\ q.buffer = <<cell>>
            /\ q.basicBytes = CASE cell.basic[2] = 0 -> 2
                             [] cell.basic[2] = 1 -> 3
                             [] OTHER -> 1
            /\ q.cid = p.cid /\ q.inPackets = p.inPackets /\ q.inStep = p.inStep
            /\ SameRest(p, q)
<1> DEFINE n == CASE cell.basic[2] = 0 -> 2 [] cell.basic[2] = 1 -> 3 [] OTHER -> 1
           u == <<cell>>
           q == [p EXCEPT !.state = "BASIC_HEADER", !.buffer = u, !.basicBytes = n]
<1>1. Begun(p, cell) = q
  BY DEF Begun
<1> HIDE DEF n, u
<1>2. DOMAIN q = Fields /\ q.state = "BASIC_HEADER" /\ q.buffer = u /\ q.basicBytes = n
      /\ q.cid = p.cid /\ q.inPackets = p.inPackets /\ q.inStep = p.inStep
      /\ SameRest(p, q)
  BY DEF Fields, SameRest
<1> HIDE DEF q
<1> QED BY <1>1, <1>2 DEF n, u

LEMMA LongerFields ==
  ASSUME NEW p, DOMAIN p = Fields, NEW cell
  PROVE  LET q == Longer(p, cell)
         IN /\ DOMAIN q = Fields /\ q.state = p.state
            /\ q.buffer = Append(p.buffer, cell) /\ q.basicBytes = p.basicBytes
            /\ q.cid = p.cid /\ q.inPackets = p.inPackets /\ q.inStep = p.inStep
            /\ SameRest(p, q)
<1> DEFINE u == Append(p.buffer, cell)
           q == [p EXCEPT !.buffer = u]
<1>1. Longer(p, cell) = q
  BY DEF Longer
<1> HIDE DEF u
<1>2. DOMAIN q = Fields /\ q.state = p.state /\ q.buffer = u /\ q.basicBytes = p.basicBytes
      /\ q.cid = p.cid /\ q.inPackets = p.inPackets /\ q.inStep = p.inStep
      /\ SameRest(p, q)
  BY DEF Fields, SameRest
<1> HIDE DEF q
<1> QED BY <1>1, <1>2 DEF u

LEMMA LostFields ==
  ASSUME NEW p, DOMAIN p = Fields
  PROVE  LET q == [p EXCEPT !.inStep = FALSE]
         IN /\ DOMAIN q = Fields /\ q.state = p.state
            /\ q.buffer = p.buffer /\ q.basicBytes = p.basicBytes
            /\ q.cid = p.cid /\ q.inPackets = p.inPackets /\ q.inStep = FALSE
            /\ SameRest(p, q)
BY DEF Fields, SameRest

LEMMA AfterCell ==
  ASSUME NEW a, NEW b, NEW h, NEW cell, After(h, a, b)
  PROVE  After(h, ChunkRead(a, cell), ChunkRead(b, cell))
<1>1. ASSUME NEW c, NEW d, After(h, c, d)
      PROVE  After(h, TakeCell(c, cell), TakeCell(d, cell))
  <2>1. SameState(c, d) /\ IsParser(c) /\ IsParser(d) /\ IsSeq(h) /\ d.handled = h \o c.handled
        /\ DOMAIN c = Fields /\ DOMAIN d = Fields
    BY <1>1 DEF After, IsParser
  <2>2. Expects(c, cell) = Expects(d, cell)
    BY <2>1 DEF Expects, Fmt, SameState
  <2>3. After(h, Begun(c, cell), Begun(d, cell))
    <3>0. PICK n, u : n = (CASE cell.basic[2] = 0 -> 2 [] cell.basic[2] = 1 -> 3 [] OTHER -> 1)
                      /\ u = <<cell>>
      OBVIOUS
    <3> DEFINE e == Begun(c, cell)
               f == Begun(d, cell)
    <3>1. /\ DOMAIN e = Fields /\ e.state = "BASIC_HEADER" /\ e.buffer = u
          /\ e.basicBytes = n /\ e.cid = c.cid /\ e.inPackets = c.inPackets
          /\ e.inStep = c.inStep /\ SameRest(c, e)
      BY <2>1, <3>0, BegunFields
    <3>2. /\ DOMAIN f = Fields /\ f.state = "BASIC_HEADER" /\ f.buffer = u
          /\ f.basicBytes = n /\ f.cid = d.cid /\ f.inPackets = d.inPackets
          /\ f.inStep = d.inStep /\ SameRest(d, f)
      BY <2>1, <3>0, BegunFields
    <3> HIDE DEF e, f
    <3>3. After(h, e, f)
      BY <2>1, <3>1, <3>2 DEF After, IsParser, SameState, SameRest
    <3> QED BY <3>3 DEF e, f
  <2>4. After(h, Longer(c, cell), Longer(d, cell))
    <3>0. PICK u : u = Append(c.buffer, cell) /\ u = Append(d.buffer, cell)
      BY <2>1 DEF SameState
    <3> DEFINE e == Longer(c, cell)
               f == Longer(d, cell)
    <3>1. /\ DOMAIN e = Fields /\ e.state = c.state /\ e.buffer = u
          /\ e.basicBytes = c.basicBytes /\ e.cid = c.cid /\ e.inPackets = c.inPackets
          /\ e.inStep = c.inStep /\ SameRest(c, e)
      BY <2>1, <3>0, LongerFields
    <3>2. /\ DOMAIN f = Fields /\ f.state = d.state /\ f.buffer = u
          /\ f.basicBytes = d.basicBytes /\ f.cid = d.cid /\ f.inPackets = d.inPackets
          /\ f.inStep = d.inStep /\ SameRest(d, f)
      BY <2>1, <3>0, LongerFields
    <3> HIDE DEF e, f
    <3>3. After(h, e, f)
      BY <2>1, <3>1, <3>2 DEF After, IsParser, SameState, SameRest
    <3> QED BY <3>3 DEF e, f
  <2>5. After(h, [c EXCEPT !.inStep = FALSE], [d EXCEPT !.inStep = FALSE])
    <3> DEFINE e == [c EXCEPT !.inStep = FALSE]
               f == [d EXCEPT !.inStep = FALSE]
    <3>1. /\ DOMAIN e = Fields /\ e.state = c.state
          /\ e.buffer = c.buffer /\ e.basicBytes = c.basicBytes
          /\ e.cid = c.cid /\ e.inPackets = c.inPackets /\ e.inStep = FALSE
          /\ SameRest(c, e)
      BY <2>1, LostFields
    <3>2. /\ DOMAIN f = Fields /\ f.state = d.state
          /\ f.buffer = d.buffer /\ f.basicBytes = d.basicBytes
          /\ f.cid = d.cid /\ f.inPackets = d.inPackets /\ f.inStep = FALSE
          /\ SameRest(d, f)
      BY <2>1, LostFields
    <3> HIDE DEF e, f
    <3>3. After(h, e, f)
      BY <2>1, <3>1, <3>2 DEF After, IsParser, SameState, SameRest
    <3> QED BY <3>3 DEF e, f
  <2>6. After(h, PayloadRead(Taken(c, cell)), PayloadRead(Taken(d, cell)))
    <3>1. PICK k : /\ k = [ParserPacket(c) EXCEPT !.payload = Append(@, cell)]
                   /\ k = [ParserPacket(d) EXCEPT !.payload = Append(@, cell)]
      <4>1. ParserPacket(c) = ParserPacket(d)
        BY <2>1 DEF ParserPacket, SameState
      <4> QED BY <4>1
    <3>2. After(h, WithPacket(c, k), WithPacket(d, k))
      BY <1>1, AfterWithPacket
    <3>3. After(h, PayloadRead(WithPacket(c, k)), PayloadRead(WithPacket(d, k)))
      BY <3>2, AfterPayload
    <3> QED BY <3>1, <3>3 DEF Taken
  <2>7. c.inStep = d.inStep /\ c.state = d.state
    BY <2>1 DEF SameState
  <2> QED BY <2>2, <2>3, <2>4, <2>5, <2>6, <2>7, TakeCases, Zenon
<1>2. a.inStep = b.inStep
  BY DEF After, SameState
<1>3. After(h, Settle(a), Settle(b))
  BY AfterSettle
<1>4. After(h, IF a.inStep THEN Settle(a) ELSE a, IF b.inStep THEN Settle(b) ELSE b)
  BY <1>2, <1>3
<1> QED BY <1>1, <1>4 DEF ChunkRead

\* What a parser reads does not depend on the messages that it has handled
\* before: parsers that are alike read the same messages of the same cells.
THEOREM AfterRead ==
  ASSUME NEW a, NEW b, NEW h, NEW cells, IsSeq(cells), After(h, a, b)
  PROVE  After(h, ReadOn(a, cells), ReadOn(b, cells))
<1> DEFINE S == {n \in Nat : \A u : IsSeq(u) /\ Len(u) = n =>
                    After(h, ReadOn(a, u), ReadOn(b, u))}
<1>1. 0 \in S
  <2> SUFFICES ASSUME NEW u, IsSeq(u), Len(u) = 0
               PROVE  After(h, ReadOn(a, u), ReadOn(b, u))
    OBVIOUS
  <2>1. u = <<>>
    BY EmptyLen
  <2> QED BY <2>1, ReadNothing
<1>2. ASSUME NEW n \in Nat, n \in S PROVE n + 1 \in S
  <2> SUFFICES ASSUME NEW u, IsSeq(u), Len(u) = n + 1
               PROVE  After(h, ReadOn(a, u), ReadOn(b, u))
    OBVIOUS
  <2>1. u # <<>>
    BY EmptyLen
  <2>2. PICK v, x : IsSeq(v) /\ u = Append(v, x) /\ Len(v) = Len(u) - 1
    BY <2>1, FrontLast
  <2>3. After(h, ReadOn(a, v), ReadOn(b, v))
    <3>1. Len(v) = n
      BY <2>2
    <3> QED BY <1>2, <2>2, <3>1
  <2>4. After(h, ChunkRead(ReadOn(a, v), x), ChunkRead(ReadOn(b, v), x))
    BY <2>3, AfterCell
  <2> QED BY <2>2, <2>4, ReadMore
<1> HIDE DEF S
<1>3. PICK n \in Nat : n = Len(cells)
  BY IsSeqLen
<1>4. n \in S
  BY <1>1, <1>2, Climb
<1> QED BY <1>3, <1>4 DEF S

(***************************************************************************)
(* Numbers, and functions that are changed twice.                          *)
(***************************************************************************)
LEMMA DivMod ==
  ASSUME NEW a \in Nat, NEW b \in Nat \ {0}
  PROVE  \E q \in Nat, r \in 0..(b - 1) : q = a \div b /\ r = a % b /\ a = q * b + r
<1>1. a % b \in 0..(b - 1)
  OBVIOUS
<1>2. a \div b \in Nat
  OBVIOUS
<1>3. a % b = a - b * (a \div b)
  BY SMTT(30)
<1>4. PICK q \in Nat, r \in 0..(b - 1) : q = a \div b /\ r = a % b
  BY <1>1, <1>2
<1>5. r = a - b * q
  BY <1>3, <1>4
<1>6. a = q * b + r
  BY <1>5
<1> QED BY <1>4, <1>6, Zenon

LEMMA AtLeast == ASSUME NEW x \in Int, NEW s \in Nat \ {0}, x >= 1 PROVE x * s >= s
OBVIOUS

LEMMA Remainder ==
  ASSUME NEW a \in Nat, NEW b \in Nat \ {0}, NEW i \in 0..b, a % b = 0
  PROVE  (a + i) % b = 0 <=> i \in {0, b}
<1>1. PICK m \in Nat : a = m * b
  <2>1. PICK q \in Nat, r \in 0..(b - 1) : r = a % b /\ a = q * b + r
    BY DivMod
  <2> QED BY <2>1
<1>2. PICK q \in Nat, r \in 0..(b - 1) : a + i = q * b + r /\ r = (a + i) % b
  <2>1. PICK n \in Nat : n = a + i
    OBVIOUS
  <2>2. PICK q \in Nat, r \in 0..(b - 1) : q = n \div b /\ r = n % b /\ n = q * b + r
    BY DivMod, Zenon
  <2>3. a + i = q * b + r
    BY <2>1, <2>2
  <2>4. r = (a + i) % b
    BY <2>1, <2>2, Zenon
  <2> QED BY <2>3, <2>4
<1>3. (q - m) * b = i - r
  BY <1>1, <1>2
<1>4. (q - m) \in Int /\ (m - q) \in Int /\ (m - q) * b = r - i
  BY <1>1, <1>2
<1>5. CASE q - m >= 1
  <2>1. (q - m) * b >= b
    BY <1>4, <1>5, AtLeast
  <2>2. i - r >= b
    BY <1>3, <2>1
  <2>3. i = b /\ r = 0
    BY <2>2, <1>2
  <2> QED BY <2>3, <1>2
<1>6. CASE m - q >= 1
  <2>1. (m - q) * b >= b
    BY <1>4, <1>6, AtLeast
  <2>2. r - i >= b
    BY <1>4, <2>1
  <2> QED BY <2>2, <1>2
<1>7. CASE q = m
  <2>1. i = r
    BY <1>3, <1>7, <1>2
  <2> QED BY <2>1, <1>2
<1> QED BY <1>1, <1>2, <1>5, <1>6, <1>7

LEMMA PutTwice ==
  ASSUME NEW f, NEW c, NEW j, NEW k
  PROVE  Updated(Updated(f, c, j), c, k) = Updated(f, c, k)
<1>1. DOMAIN Updated(f, c, j) = DOMAIN f \cup {c}
      /\ \A d \in DOMAIN f : d # c => Updated(f, c, j)[d] = f[d]
  BY DEF Updated
<1> QED BY <1>1 DEF Updated

LEMMA AppendConcat ==
  ASSUME NEW s, NEW t, NEW x, IsSeq(s), IsSeq(t)
  PROVE  s \o Append(t, x) = Append(s \o t, x)
<1>1. PICK y : y = <<x>> /\ IsSeq(y)
  BY IsOne
<1>2. Append(t, x) = t \o y
  BY <1>1, AppendIs
<1>3. PICK u : u = s \o t /\ IsSeq(u)
  BY Concat
<1>4. Append(u, x) = u \o y
  BY <1>1, <1>3, AppendIs
<1>5. (s \o t) \o y = s \o (t \o y)
  BY <1>1, Associative
<1> QED BY <1>2, <1>3, <1>4, <1>5

\* The first element of a sequence, and those after it.
LEMMA HeadTail ==
  ASSUME NEW s, IsSeq(s), s # <<>>
  PROVE  \E t : /\ s = <<s[1]>> \o t /\ IsSeq(t) /\ Len(t) = Len(s) - 1
               /\ \A i \in 1..(Len(s) - 1) : t[i] = s[i + 1]
<1>1. Len(s) \in Nat /\ Len(s) # 0
  BY IsSeqLen, EmptyLen
<1>2. PICK j \in Nat, k \in Nat : j = 1 /\ k = 2 /\ j + 1 = k /\ j <= Len(s)
  BY <1>1
<1> DEFINE x == SubSeq(s, 1, j)
           t == SubSeq(s, j + 1, Len(s))
<1>3. /\ s = x \o t /\ IsSeq(x) /\ Len(x) = j /\ IsSeq(t) /\ Len(t) = Len(s) - j
      /\ \A i \in 1..j : x[i] = s[i]
  BY <1>2, Split
<1>4. \A i \in 1..((Len(s) - k) + 1) : t[i] = s[(k + i) - 1]
  <2>1. t = SubSeq(s, k, Len(s)) /\ 1 <= k /\ Len(s) <= Len(s)
    BY <1>1, <1>2
  <2> HIDE DEF t
  <2> QED BY <1>1, <2>1, SubIs
<1> HIDE DEF x, t
<1>5. \A i \in 1..(Len(s) - 1) : t[i] = s[i + 1]
  <2>1. (Len(s) - k) + 1 = Len(s) - 1 /\ \A i \in Int : (k + i) - 1 = i + 1
    BY <1>1, <1>2
  <2> QED BY <1>4, <2>1
<1>6. x = <<s[1]>>
  <2>1. PICK y : y = <<s[1]>> /\ IsSeq(y) /\ Len(y) = 1 /\ y[1] = s[1]
    BY IsOne
  <2>2. x[1] = s[1] /\ Len(x) = 1
    BY <1>2, <1>3
  <2>3. x = y
    BY <1>3, <2>1, <2>2, SameSeq
  <2> QED BY <2>1, <2>3
<1>7. Len(t) = Len(s) - 1
  BY <1>2, <1>3
<1> QED BY <1>3, <1>5, <1>6, <1>7

(***************************************************************************)
(* The rounds that a parser goes on by itself.                             *)
(***************************************************************************)
LEMMA SettleInit == ASSUME NEW p, p.state = "INIT" PROVE Settle(p) = p
<1>1. BasicHeaderRead(p) = p
  BY DEF BasicHeaderRead
<1>2. MessageHeaderRead(p) = p
  BY DEF MessageHeaderRead
<1>3. ExtendedTimestampRead(p) = p
  BY DEF ExtendedTimestampRead
<1>4. EmptyPayload(p) = p
  BY DEF EmptyPayload, PayloadRead
<1> QED BY <1>1, <1>2, <1>3, <1>4 DEF Settle

LEMMA SettleBasic ==
  ASSUME NEW p, p.state = "BASIC_HEADER", Len(p.buffer) # p.basicBytes
  PROVE  Settle(p) = p
<1>1. BasicHeaderRead(p) = p
  BY DEF BasicHeaderRead
<1>2. MessageHeaderRead(p) = p
  BY DEF MessageHeaderRead
<1>3. ExtendedTimestampRead(p) = p
  BY DEF ExtendedTimestampRead
<1>4. EmptyPayload(p) = p
  BY DEF EmptyPayload, PayloadRead
<1> QED BY <1>1, <1>2, <1>3, <1>4 DEF Settle

LEMMA SettleHeader ==
  ASSUME NEW p, p.state = "MESSAGE_HEADER", Len(p.buffer) # HeaderSize(p)
  PROVE  Settle(p) = p
<1>1. BasicHeaderRead(p) = p
  BY DEF BasicHeaderRead
<1>2. MessageHeaderRead(p) = p
  BY DEF MessageHeaderRead
<1>3. ExtendedTimestampRead(p) = p
  BY DEF ExtendedTimestampRead
<1>4. EmptyPayload(p) = p
  BY DEF EmptyPayload, PayloadRead
<1> QED BY <1>1, <1>2, <1>3, <1>4 DEF Settle

LEMMA SettleExtended ==
  ASSUME NEW p, p.state = "EXTENDED_TIMESTAMP"
  PROVE  Settle(p) = EmptyPayload(ExtendedTimestampRead(p))
<1>1. BasicHeaderRead(p) = p
  BY DEF BasicHeaderRead
<1>2. MessageHeaderRead(p) = p
  BY DEF MessageHeaderRead
<1> QED BY <1>1, <1>2 DEF Settle

LEMMA SettlePayload ==
  ASSUME NEW p, p.state = "PAYLOAD", ParserPacket(p).length > 0
  PROVE  Settle(p) = p
<1>1. BasicHeaderRead(p) = p
  BY DEF BasicHeaderRead
<1>2. MessageHeaderRead(p) = p
  BY DEF MessageHeaderRead
<1>3. ExtendedTimestampRead(p) = p
  BY DEF ExtendedTimestampRead
<1>4. EmptyPayload(p) = p
  BY DEF EmptyPayload
<1> QED BY <1>1, <1>2, <1>3, <1>4 DEF Settle

\* What has settled is read from like what it settled from.
LEMMA SettleFirst ==
  ASSUME NEW p, NEW cells, IsSeq(cells), cells # <<>>, p.inStep,
         Settle(p).inStep, Settle(Settle(p)) = Settle(p)
  PROVE  ReadOn(p, cells) = ReadOn(Settle(p), cells)
<1>1. Len(cells) \in Nat /\ Len(cells) # 0
  BY IsSeqLen, EmptyLen
<1> DEFINE s == SubSeq(cells, 1, 1)
           t == SubSeq(cells, 2, Len(cells))
<1>2. cells = s \o t /\ IsSeq(s) /\ Len(s) = 1 /\ IsSeq(t)
  <2>1. 1 \in Nat /\ 1 <= Len(cells)
    BY <1>1
  <2>2. /\ cells = SubSeq(cells, 1, 1) \o SubSeq(cells, 1 + 1, Len(cells))
        /\ IsSeq(SubSeq(cells, 1, 1)) /\ Len(SubSeq(cells, 1, 1)) = 1
        /\ IsSeq(SubSeq(cells, 1 + 1, Len(cells)))
    <3> HIDE DEF s, t
    <3> QED BY <2>1, Split, Zenon
  <2> QED BY <2>2
<1> HIDE DEF s, t
<1>3. s = <<s[1]>>
  <2>1. IsSeq(<<s[1]>>) /\ Len(<<s[1]>>) = 1 /\ <<s[1]>>[1] = s[1]
    BY IsOne
  <2> QED BY <1>2, <2>1, SameSeq
<1>4. ReadOn(p, s) = ReadOn(Settle(p), s)
  <2>1. ChunkRead(p, s[1]) = ChunkRead(Settle(p), s[1])
    BY DEF ChunkRead
  <2> QED BY <1>3, <2>1, ReadOne
<1>5. ReadOn(p, cells) = ReadOn(ReadOn(p, s), t)
  BY <1>2, ReadParts
<1>6. ReadOn(Settle(p), cells) = ReadOn(ReadOn(Settle(p), s), t)
  BY <1>2, ReadParts
<1> QED BY <1>4, <1>5, <1>6

(***************************************************************************)
(* The cells of a header.                                                  *)
(***************************************************************************)
LEMMA IsTwo ==
  ASSUME NEW x, NEW y
  PROVE  IsSeq(<<x, y>>) /\ Len(<<x, y>>) = 2 /\ <<x, y>>[1] = x /\ <<x, y>>[2] = y
<1>1. <<x, y>> \in Seq({x, y})
  OBVIOUS
<1>2. IsSeq(<<x, y>>)
  BY <1>1, SeqIs
<1> QED BY <1>2

LEMMA IsThree ==
  ASSUME NEW x, NEW y, NEW u
  PROVE  /\ IsSeq(<<x, y, u>>) /\ Len(<<x, y, u>>) = 3
         /\ <<x, y, u>>[1] = x /\ <<x, y, u>>[2] = y /\ <<x, y, u>>[3] = u
<1>1. <<x, y, u>> \in Seq({x, y, u})
  OBVIOUS
<1>2. IsSeq(<<x, y, u>>)
  BY <1>1, SeqIs
<1> QED BY <1>2

\* The chunk stream that a reader takes a basic header for, and its size.
LowByte(cid) == (cid - 64) % 256
HighByte(cid) == ((cid - 64) \div 256) % 256
CidRead(cid) ==
  IF cid < 64 + 255 THEN cid ELSE (64 + LowByte(cid) + HighByte(cid)) * 256
BasicSize(cid) == IF cid < 64 THEN 1 ELSE IF cid < 64 + 255 THEN 2 ELSE 3
HasCid(cid) == cid \in Nat /\ 2 <= cid /\ cid <= 65599

LEMMA BasicHeader ==
  ASSUME NEW fmt, NEW cid, HasCid(cid)
  PROVE  LET u == ChunkBasicHeaderCreate(fmt, cid)
             n == BasicSize(cid)
         IN /\ IsSeq(u) /\ Len(u) = n /\ n \in 1..3
            /\ "basic" \in DOMAIN u[1] /\ u[1].basic[1] = fmt
            /\ n = CASE u[1].basic[2] = 0 -> 2 [] u[1].basic[2] = 1 -> 3 [] OTHER -> 1
            /\ \A i \in 2..n : "more" \in DOMAIN u[i]
            /\ \A p : /\ p.basicBytes = n /\ \A i \in 1..n : p.buffer[i] = u[i]
                      => Cid(p) = CidRead(cid)
<1> DEFINE u == ChunkBasicHeaderCreate(fmt, cid)
           n == BasicSize(cid)
<1>1. cid \in Nat /\ cid # 0 /\ cid # 1
  BY DEF HasCid
<1>2. CASE cid < 64
  <2>1. PICK a : a = [basic |-> <<fmt, cid>>]
    OBVIOUS
  <2>2. u = <<a>> /\ n = 1
    BY <1>2, <2>1 DEF ChunkBasicHeaderCreate, BasicSize
  <2>3. IsSeq(u) /\ Len(u) = 1 /\ u[1] = a
    BY <2>2, IsOne
  <2>4. "basic" \in DOMAIN a /\ a.basic[1] = fmt /\ a.basic[2] = cid
    BY <2>1
  <2>5. ASSUME NEW p, p.basicBytes = 1, p.buffer[1] = a
        PROVE  Cid(p) = cid
    BY <2>4, <2>5 DEF Cid
  <2>6. CidRead(cid) = cid
    BY <1>1, <1>2 DEF CidRead
  <2>7. \A i \in 2..1 : FALSE
    OBVIOUS
  <2> HIDE DEF u, n
  <2>8. 1 = CASE u[1].basic[2] = 0 -> 2 [] u[1].basic[2] = 1 -> 3 [] OTHER -> 1
    BY <1>1, <2>3, <2>4
  <2>9. \A p : p.basicBytes = n /\ (\A i \in 1..n : p.buffer[i] = u[i])
               => Cid(p) = CidRead(cid)
    <3> SUFFICES ASSUME NEW p, p.basicBytes = n, \A i \in 1..n : p.buffer[i] = u[i]
                 PROVE  Cid(p) = CidRead(cid)
      OBVIOUS
    <3>1. p.buffer[1] = a
      BY <2>2, <2>3
    <3> QED BY <2>2, <2>5, <2>6, <3>1
  <2> QED BY <2>2, <2>3, <2>4, <2>7, <2>8, <2>9 DEF u, n
<1>3. CASE ~(cid < 64) /\ cid < 64 + 255
  <2>1. PICK a, b : a = [basic |-> <<fmt, 0>>] /\ b = [more |-> cid - 64]
    OBVIOUS
  <2>2. u = <<a, b>> /\ n = 2
    BY <1>3, <2>1 DEF ChunkBasicHeaderCreate, BasicSize
  <2>3. IsSeq(u) /\ Len(u) = 2 /\ u[1] = a /\ u[2] = b
    BY <2>2, IsTwo
  <2>4. "basic" \in DOMAIN a /\ a.basic[1] = fmt /\ a.basic[2] = 0
        /\ "more" \in DOMAIN b /\ b.more = cid - 64
    BY <2>1
  <2>5. ASSUME NEW p, p.basicBytes = 2, p.buffer[2] = b
        PROVE  Cid(p) = 64 + (cid - 64)
    BY <2>4, <2>5 DEF Cid
  <2>6. CidRead(cid) = 64 + (cid - 64)
    BY <1>1, <1>3 DEF CidRead
  <2>7. \A i \in 2..2 : i = 2
    OBVIOUS
  <2> HIDE DEF u, n
  <2>8. 2 = CASE u[1].basic[2] = 0 -> 2 [] u[1].basic[2] = 1 -> 3 [] OTHER -> 1
    BY <2>3, <2>4
  <2>9. \A p : p.basicBytes = n /\ (\A i \in 1..n : p.buffer[i] = u[i])
               => Cid(p) = CidRead(cid)
    <3> SUFFICES ASSUME NEW p, p.basicBytes = n, \A i \in 1..n : p.buffer[i] = u[i]
                 PROVE  Cid(p) = CidRead(cid)
      OBVIOUS
    <3>1. p.buffer[2] = b
      <4>1. 2 \in 1..n
        BY <2>2
      <4> QED BY <4>1, <2>3
    <3> QED BY <2>2, <2>5, <2>6, <3>1
  <2>10. \A i \in 2..n : "more" \in DOMAIN u[i]
    BY <2>2, <2>3, <2>4, <2>7
  <2> QED BY <2>2, <2>3, <2>4, <2>8, <2>9, <2>10 DEF u, n
<1>4. CASE ~(cid < 64) /\ ~(cid < 64 + 255)
  <2> DEFINE m == LowByte(cid)
             k == HighByte(cid)
  <2>1. PICK a, b, c : a = [basic |-> <<fmt, 1>>] /\ b = [more |-> m] /\ c = [more |-> k]
    OBVIOUS
  <2>2. u = <<a, b, c>> /\ n = 3
    BY <1>4, <2>1 DEF ChunkBasicHeaderCreate, BasicSize, LowByte, HighByte
  <2>6. CidRead(cid) = (64 + m + k) * 256
    BY <1>1, <1>4 DEF CidRead
  <2> HIDE DEF m, k
  <2>3. IsSeq(u) /\ Len(u) = 3 /\ u[1] = a /\ u[2] = b /\ u[3] = c
    BY <2>2, IsThree
  <2>4. "basic" \in DOMAIN a /\ a.basic[1] = fmt /\ a.basic[2] = 1
        /\ "more" \in DOMAIN b /\ b.more = m
        /\ "more" \in DOMAIN c /\ c.more = k
    BY <2>1
  <2>5. ASSUME NEW p, p.basicBytes = 3, p.buffer[2] = b, p.buffer[3] = c
        PROVE  Cid(p) = (64 + m + k) * 256
    BY <2>4, <2>5 DEF Cid
  <2>7. \A i \in 2..3 : i = 2 \/ i = 3
    OBVIOUS
  <2> HIDE DEF u, n
  <2>8. 3 = CASE u[1].basic[2] = 0 -> 2 [] u[1].basic[2] = 1 -> 3 [] OTHER -> 1
    BY <2>3, <2>4
  <2>9. \A p : p.basicBytes = n /\ (\A i \in 1..n : p.buffer[i] = u[i])
               => Cid(p) = CidRead(cid)
    <3> SUFFICES ASSUME NEW p, p.basicBytes = n, \A i \in 1..n : p.buffer[i] = u[i]
                 PROVE  Cid(p) = CidRead(cid)
      OBVIOUS
    <3>1. p.buffer[2] = b /\ p.buffer[3] = c
      <4>1. 2 \in 1..n /\ 3 \in 1..n
        BY <2>2
      <4> QED BY <4>1, <2>3
    <3>2. Cid(p) = (64 + m + k) * 256
      BY <2>2, <2>5, <3>1
    <3> QED BY <2>6, <3>2, Zenon
  <2>10. \A i \in 2..n : "more" \in DOMAIN u[i]
    BY <2>2, <2>3, <2>4, <2>7
  <2> QED BY <2>2, <2>3, <2>4, <2>8, <2>9, <2>10 DEF u, n
<1> QED BY <1>1, <1>2, <1>3, <1>4

\* The field that a cell of a header has to have: the j-th, of n cells of a
\* basic header and 3 - fmt after it.
Fits(cell, j, n) ==
  IF j <= n THEN "more" \in DOMAIN cell
  ELSE <<"time", "lengthType", "streamId">>[j - n] \in DOMAIN cell
TimeShown(time) == IF time >= ExtTime THEN ExtTime ELSE time

LEMMA FieldsOfHeader ==
  ASSUME NEW fmt \in 0..3
  PROVE  /\ Len(HeaderFields(fmt)) = 3 - fmt
         /\ \A i \in 1..(3 - fmt) :
              HeaderFields(fmt)[i] = <<"time", "lengthType", "streamId">>[i]
<1>0. IsSeq(<<"time", "lengthType", "streamId">>)
      /\ Len(<<"time", "lengthType", "streamId">>) = 3
  BY IsThree
<1>1. PICK s : s = <<"time", "lengthType", "streamId">> /\ IsSeq(s) /\ Len(s) = 3
  BY <1>0
<1>2. PICK n \in Nat : n = 3 - fmt /\ n <= Len(s)
  BY <1>1
<1>3. HeaderFields(fmt) = SubSeq(s, 1, n)
  BY <1>1, <1>2 DEF HeaderFields
<1>4. Len(SubSeq(s, 1, n)) = n /\ \A i \in 1..n : SubSeq(s, 1, n)[i] = s[i]
  BY <1>1, <1>2, Split
<1> QED BY <1>1, <1>2, <1>3, <1>4

LEMMA MessageHeader ==
  ASSUME NEW fmt \in 0..3, NEW packet
  PROVE  LET w == ChunkMessageHeaderCreate(fmt, packet)
         IN /\ IsSeq(w) /\ Len(w) = 3 - fmt
            /\ fmt <= 2 => w[1] = [time |-> TimeShown(packet.time)]
            /\ fmt <= 1 => w[2] = [lengthType |-> <<Len(packet.payload), packet.type>>]
            /\ fmt = 0 => w[3] = [streamId |-> packet.sid]
            /\ \A i \in 1..(3 - fmt) :
                 <<"time", "lengthType", "streamId">>[i] \in DOMAIN w[i]
<1>1. PICK a, b, c : /\ a = [time |-> TimeShown(packet.time)]
                     /\ b = [lengthType |-> <<Len(packet.payload), packet.type>>]
                     /\ c = [streamId |-> packet.sid]
  OBVIOUS
<1>0. IsSeq(<<a, b, c>>) /\ Len(<<a, b, c>>) = 3
      /\ <<a, b, c>>[1] = a /\ <<a, b, c>>[2] = b /\ <<a, b, c>>[3] = c
  BY IsThree
<1>2. PICK s : s = <<a, b, c>> /\ IsSeq(s) /\ Len(s) = 3 /\ s[1] = a /\ s[2] = b /\ s[3] = c
  BY <1>0, Zenon
<1>3. PICK n \in Nat : n = 3 - fmt /\ n <= Len(s)
  BY <1>2
<1>4. PICK w : w = ChunkMessageHeaderCreate(fmt, packet)
  OBVIOUS
<1>5. w = SubSeq(s, 1, n)
  BY <1>1, <1>2, <1>3, <1>4 DEF ChunkMessageHeaderCreate, TimeShown
<1>6. IsSeq(w) /\ Len(w) = n /\ \A i \in 1..n : w[i] = s[i]
  BY <1>2, <1>3, <1>5, Split
<1>7. \A i \in 1..3 : <<"time", "lengthType", "streamId">>[i] \in DOMAIN s[i]
  <2>1. "time" \in DOMAIN a /\ "lengthType" \in DOMAIN b /\ "streamId" \in DOMAIN c
    BY <1>1
  <2>2. \A i \in 1..3 : i = 1 \/ i = 2 \/ i = 3
    OBVIOUS
  <2> QED BY <1>2, <2>1, <2>2
<1>8. \A i \in 1..n : <<"time", "lengthType", "streamId">>[i] \in DOMAIN w[i]
  <2>1. \A i \in 1..n : i \in 1..3
    BY <1>3
  <2> QED BY <1>6, <1>7, <2>1
<1>9. (fmt <= 2 => 1 \in 1..n) /\ (fmt <= 1 => 2 \in 1..n) /\ (fmt = 0 => 3 \in 1..n)
  BY <1>3
<1>10. /\ fmt <= 2 => w[1] = a
       /\ fmt <= 1 => w[2] = b
       /\ fmt = 0 => w[3] = c
  BY <1>2, <1>6, <1>9
<1> QED BY <1>1, <1>3, <1>4, <1>6, <1>8, <1>10

LEMMA ExtendedIs ==
  ASSUME NEW time
  PROVE  /\ IsSeq(ExtendedTimestamp(time))
         /\ time >= ExtTime => ExtendedTimestamp(time) = <<[ext |-> time]>>
         /\ ~(time >= ExtTime) => ExtendedTimestamp(time) = <<>>
BY IsEmpty, IsOne DEF ExtendedTimestamp

(***************************************************************************)
(* Reading a header.                                                       *)
(***************************************************************************)
\* A parser at rest between two chunks.
AtRest(p) == IsParser(p) /\ p.state = "INIT" /\ p.inStep = TRUE

\* p is z with the cells w of a header of a chunk, whose basic header has n.
Reading(z, p, w, n) ==
  /\ DOMAIN p = Fields /\ IsSeq(w) /\ p.buffer = w /\ p.basicBytes = n
  /\ p.inPackets = z.inPackets /\ p.inStep = TRUE /\ SameRest(z, p)
  /\ p.state = IF Len(w) <= n THEN "BASIC_HEADER" ELSE "MESSAGE_HEADER"
HeaderOf(w, n, fmt) == n \in 1..3 /\ fmt \in 0..3 /\ Len(w) >= 1 /\ w[1].basic[1] = fmt

LEMMA HeaderBegins ==
  ASSUME NEW z, AtRest(z), NEW cell, "basic" \in DOMAIN cell, NEW n,
         n = CASE cell.basic[2] = 0 -> 2 [] cell.basic[2] = 1 -> 3 [] OTHER -> 1
  PROVE  Reading(z, ChunkRead(z, cell), <<cell>>, n)
<1>1. DOMAIN z = Fields /\ z.state = "INIT" /\ z.inStep = TRUE
  BY DEF AtRest, IsParser
<1>2. ChunkRead(z, cell) = TakeCell(z, cell)
  BY <1>1, SettleInit DEF ChunkRead
<1>3. Expects(z, cell)
  BY <1>1 DEF Expects
<1>4. ChunkRead(z, cell) = Begun(z, cell)
  BY <1>1, <1>2, <1>3, TakeCases
<1>5. PICK w : w = <<cell>> /\ IsSeq(w) /\ Len(w) = 1
  BY IsOne
<1>6. PICK q : q = Begun(z, cell)
  OBVIOUS
<1>7. /\ DOMAIN q = Fields /\ q.state = "BASIC_HEADER" /\ q.buffer = w
      /\ q.basicBytes = n /\ q.inPackets = z.inPackets /\ q.inStep = z.inStep
      /\ SameRest(z, q)
  BY <1>1, <1>5, <1>6, BegunFields
<1>8. n \in 1..3
  OBVIOUS
<1>9. Reading(z, q, w, n)
  BY <1>1, <1>5, <1>7, <1>8 DEF Reading
<1> QED BY <1>4, <1>5, <1>6, <1>9

LEMMA HeaderCell ==
  ASSUME NEW z, NEW p, NEW w, NEW n, NEW fmt, NEW cell,
         Reading(z, p, w, n), HeaderOf(w, n, fmt),
         Len(w) < n + (3 - fmt), Fits(cell, Len(w) + 1, n)
  PROVE  /\ Reading(z, ChunkRead(p, cell), Append(w, cell), n)
         /\ HeaderOf(Append(w, cell), n, fmt)
<1>1. /\ DOMAIN p = Fields /\ IsSeq(w) /\ p.buffer = w /\ p.basicBytes = n
      /\ p.inPackets = z.inPackets /\ p.inStep = TRUE /\ SameRest(z, p)
      /\ p.state = IF Len(w) <= n THEN "BASIC_HEADER" ELSE "MESSAGE_HEADER"
  BY DEF Reading
<1>2. /\ n \in 1..3 /\ fmt \in 0..3 /\ Len(w) >= 1 /\ w[1].basic[1] = fmt
      /\ Len(w) \in Nat
  BY <1>1, IsSeqLen DEF HeaderOf
<1>3. Fmt(p) = fmt
  BY <1>1, <1>2 DEF Fmt
<1>4. Len(HeaderFields(fmt)) = 3 - fmt
      /\ \A i \in 1..(3 - fmt) :
           HeaderFields(fmt)[i] = <<"time", "lengthType", "streamId">>[i]
  BY <1>2, FieldsOfHeader
<1>5. HeaderSize(p) = n + (3 - fmt)
  BY <1>1, <1>3, <1>4 DEF HeaderSize
<1>6. PICK v : v = Append(w, cell) /\ IsSeq(v) /\ Len(v) = Len(w) + 1 /\ v[1] = w[1]
  <2>1. /\ IsSeq(Append(w, cell)) /\ Len(Append(w, cell)) = Len(w) + 1
        /\ \A i \in 1..Len(w) : Append(w, cell)[i] = w[i]
    <3>1. IsSeq(w)
      BY <1>1
    <3> QED BY <3>1, AppendIs
  <2>2. 1 \in 1..Len(w)
    BY <1>2
  <2>3. Append(w, cell)[1] = w[1]
    BY <2>1, <2>2
  <2>4. PICK v : v = Append(w, cell)
    OBVIOUS
  <2> QED BY <2>1, <2>3, <2>4
\* A parser of the same header, about to take a cell of a known kind.
<1>7. ASSUME NEW q, DOMAIN q = Fields, q.buffer = w, q.basicBytes = n,
             q.inPackets = z.inPackets, q.inStep = TRUE, SameRest(z, q),
             Settle(p) = q, Expects(q, cell),
             q.state = IF Len(v) <= n THEN "BASIC_HEADER" ELSE "MESSAGE_HEADER"
      PROVE  Reading(z, ChunkRead(p, cell), v, n)
  <2>1. ChunkRead(p, cell) = TakeCell(q, cell)
    BY <1>1, <1>7 DEF ChunkRead
  <2>2. q.state # "INIT" /\ q.state # "PAYLOAD"
    BY <1>7
  <2>3. TakeCell(q, cell) = Longer(q, cell)
    BY <1>7, <2>2, TakeCases
  <2>4. PICK r : r = Longer(q, cell)
    OBVIOUS
  <2>5. /\ DOMAIN r = Fields /\ r.state = q.state
        /\ r.buffer = Append(q.buffer, cell) /\ r.basicBytes = q.basicBytes
        /\ r.inPackets = q.inPackets /\ r.inStep = q.inStep
        /\ SameRest(q, r)
    BY <1>7, <2>4, LongerFields
  <2>6. Reading(z, r, v, n)
    BY <1>6, <1>7, <2>5 DEF Reading, SameRest
  <2> QED BY <2>1, <2>3, <2>4, <2>6
<1>8. CASE Len(w) < n
  <2>1. Settle(p) = p
    BY <1>1, <1>2, <1>8, SettleBasic
  <2>2. Expects(p, cell)
    BY <1>1, <1>2, <1>8 DEF Expects, Fits
  <2>3. p.state = IF Len(v) <= n THEN "BASIC_HEADER" ELSE "MESSAGE_HEADER"
    BY <1>1, <1>2, <1>6, <1>8
  <2>4. Reading(z, ChunkRead(p, cell), v, n)
    BY <1>1, <1>7, <2>1, <2>2, <2>3
  <2> QED BY <1>2, <1>6, <2>4 DEF HeaderOf
<1>9. CASE ~(Len(w) < n)
  <2>1. PICK j \in 1..(3 - fmt) : j = (Len(w) - n) + 1 /\ j = (Len(w) + 1) - n
    BY <1>2, <1>9
  <2>2. HeaderFields(fmt)[j] \in DOMAIN cell
    <3>1. <<"time", "lengthType", "streamId">>[j] \in DOMAIN cell
      BY <1>2, <1>9, <2>1 DEF Fits
    <3> QED BY <1>4, <3>1
  <2>3. PICK q : /\ DOMAIN q = Fields /\ q.buffer = w /\ q.basicBytes = n
                 /\ q.inPackets = z.inPackets /\ q.inStep = TRUE /\ SameRest(z, q)
                 /\ Settle(p) = q /\ q.state = "MESSAGE_HEADER"
    <3>1. CASE Len(w) = n
      <4>1. PICK q : q = [p EXCEPT !.state = "MESSAGE_HEADER"]
        OBVIOUS
      <4>2. /\ DOMAIN q = Fields /\ q.state = "MESSAGE_HEADER" /\ q.inPackets = p.inPackets
            /\ SameBuffer(p, q) /\ SameRest(p, q)
        BY <1>1, <4>1, StateFields
      <4>3. BasicHeaderRead(p) = q
        BY <1>1, <1>2, <3>1, <4>1 DEF BasicHeaderRead
      <4>4. HeaderSize(q) = n + (3 - fmt) /\ q.buffer = w
        BY <1>1, <1>5, <4>2 DEF HeaderSize, Fmt, SameBuffer
      <4>5. Settle(q) = q
        BY <1>2, <4>2, <4>4, SettleHeader
      <4>6. BasicHeaderRead(q) = q
        BY <4>2 DEF BasicHeaderRead
      <4>7. Settle(p) = Settle(q)
        BY <4>3, <4>6 DEF Settle
      <4> QED BY <1>1, <4>2, <4>5, <4>7 DEF SameBuffer, SameRest
    <3>2. CASE Len(w) # n
      <4>1. p.state = "MESSAGE_HEADER"
        BY <1>1, <1>2, <1>9, <3>2
      <4>2. Settle(p) = p
        BY <1>1, <1>2, <1>5, <4>1, SettleHeader
      <4> QED BY <1>1, <4>1, <4>2
    <3> QED BY <3>1, <3>2
  <2>4. Expects(q, cell)
    <3>1. Fmt(q) = fmt
      BY <1>2, <2>3 DEF Fmt
    <3> QED BY <2>1, <2>2, <2>3, <3>1 DEF Expects
  <2>5. ~(Len(v) <= n)
    BY <1>2, <1>6, <1>9
  <2>6. Reading(z, ChunkRead(p, cell), v, n)
    BY <1>7, <2>3, <2>4, <2>5
  <2> QED BY <1>2, <1>6, <2>6 DEF HeaderOf
<1> QED BY <1>8, <1>9

LEMMA HeaderCells ==
  ASSUME NEW z, NEW p, NEW w, NEW n, NEW fmt, NEW cells, IsSeq(cells),
         Reading(z, p, w, n), HeaderOf(w, n, fmt),
         Len(w) + Len(cells) <= n + (3 - fmt),
         \A i \in 1..Len(cells) : Fits(cells[i], Len(w) + i, n)
  PROVE  /\ Reading(z, ReadOn(p, cells), w \o cells, n)
         /\ HeaderOf(w \o cells, n, fmt)
<1>1. IsSeq(w) /\ Len(w) \in Nat /\ n \in 1..3 /\ fmt \in 0..3
  BY IsSeqLen DEF Reading, HeaderOf
<1> DEFINE Good(u) == /\ Reading(z, ReadOn(p, u), w \o u, n)
                      /\ HeaderOf(w \o u, n, fmt)
           Fine(u) == /\ IsSeq(u) /\ Len(w) + Len(u) <= n + (3 - fmt)
                      /\ \A i \in 1..Len(u) : Fits(u[i], Len(w) + i, n)
           S == {k \in Nat : \A u : Fine(u) /\ Len(u) = k => Good(u)}
<1>2. 0 \in S
  <2> SUFFICES ASSUME NEW u, Fine(u), Len(u) = 0 PROVE Good(u)
    OBVIOUS
  <2>1. u = <<>> /\ w \o u = w
    BY <1>1, EmptyLen, ConcatEmpty
  <2> QED BY <2>1, ReadNothing
<1>3. ASSUME NEW k \in Nat, k \in S PROVE k + 1 \in S
  <2> SUFFICES ASSUME NEW u, Fine(u), Len(u) = k + 1 PROVE Good(u)
    OBVIOUS
  <2>0. IsSeq(u) /\ u # <<>>
    BY EmptyLen
  <2>1. PICK v, x : IsSeq(v) /\ u = Append(v, x) /\ Len(v) = Len(u) - 1
    BY <2>0, FrontLast
  <2>2. Len(v) = k
    BY <2>1
  <2>3. (\A i \in 1..k : u[i] = v[i]) /\ u[k + 1] = x
    <3>1. (\A i \in 1..Len(v) : Append(v, x)[i] = v[i]) /\ Append(v, x)[Len(v) + 1] = x
      BY <2>1, AppendIs
    <3> QED BY <2>1, <2>2, <3>1
  <2>4. Fine(v)
    <3>1. Len(w) + Len(v) <= n + (3 - fmt)
      BY <1>1, <2>2
    <3>2. ASSUME NEW i \in 1..k PROVE Fits(v[i], Len(w) + i, n)
      <4>1. i \in 1..Len(u)
        OBVIOUS
      <4>2. Fits(u[i], Len(w) + i, n)
        BY <4>1
      <4> QED BY <2>3, <4>2
    <3> QED BY <2>1, <2>2, <3>1, <3>2
  <2>5. Good(v)
    BY <1>3, <2>2, <2>4
  <2>6. IsSeq(w \o v) /\ Len(w \o v) = Len(w) + k
    BY <1>1, <2>1, <2>2, Concat
  <2>7. Fits(x, (Len(w) + k) + 1, n)
    <3>1. k + 1 \in 1..Len(u) /\ Len(w) + (k + 1) = (Len(w) + k) + 1
      BY <1>1
    <3>2. Fits(u[k + 1], Len(w) + (k + 1), n)
      BY <3>1
    <3> QED BY <2>3, <3>1, <3>2
  <2>8. Len(w) + k < n + (3 - fmt)
    BY <1>1
  <2> HIDE DEF Fine, S
  <2>9. PICK s : s = w \o v
    OBVIOUS
  <2>10. /\ Reading(z, ChunkRead(ReadOn(p, v), x), Append(s, x), n)
         /\ HeaderOf(Append(s, x), n, fmt)
    <3>1. /\ Reading(z, ReadOn(p, v), s, n) /\ HeaderOf(s, n, fmt)
          /\ Len(s) < n + (3 - fmt) /\ Fits(x, Len(s) + 1, n)
      BY <2>5, <2>6, <2>7, <2>8, <2>9
    <3> HIDE DEF Good
    <3> QED BY <3>1, HeaderCell
  <2>11. Append(s, x) = w \o u
    <3>1. PICK y : y = <<x>> /\ IsSeq(y)
      BY IsOne
    <3>2. u = v \o y
      BY <2>1, <3>1, AppendIs
    <3>3. Append(s, x) = s \o y
      BY <2>6, <2>9, <3>1, AppendIs
    <3>4. (w \o v) \o y = w \o (v \o y)
      <4>1. IsSeq(w) /\ IsSeq(v) /\ IsSeq(y)
        BY <1>1, <2>1, <3>1
      <4>2. Regroups(w, v, y)
        BY <4>1, Regrouped
      <4> QED BY <4>2 DEF Regroups
    <3> QED BY <2>9, <3>2, <3>3, <3>4
  <2>12. ReadOn(p, u) = ChunkRead(ReadOn(p, v), x)
    BY <2>1, ReadMore
  <2> QED BY <2>10, <2>11, <2>12
<1>4. PICK k \in Nat : k = Len(cells)
  BY IsSeqLen
<1>5. Fine(cells)
  OBVIOUS
<1> HIDE DEF S
<1>6. k \in S
  BY <1>2, <1>3, Climb
<1>7. Good(cells)
  <2> HIDE DEF Good, Fine
  <2> QED BY <1>4, <1>5, <1>6 DEF S
<1> QED BY <1>7

\* p is z with a header of chunk stream c; what it says of the message is k.
Headed(z, p, c, k) ==
  /\ DOMAIN p = Fields /\ p.cid = c /\ p.inPackets = Updated(z.inPackets, c, k)
  /\ p.inStep = TRUE /\ SameRest(z, p)

LEMMA HeadedPacket ==
  ASSUME NEW z, NEW p, NEW c, NEW k, Headed(z, p, c, k)
  PROVE  ParserPacket(p) = k
<1>1. p.cid = c /\ p.inPackets = Updated(z.inPackets, c, k)
  BY DEF Headed
<1>2. Updated(z.inPackets, c, k)[c] = k
  BY Put
<1> QED BY <1>1, <1>2 DEF ParserPacket

LEMMA HeaderDone ==
  ASSUME NEW z, NEW p, NEW w, NEW n, NEW fmt,
         Reading(z, p, w, n), HeaderOf(w, n, fmt), Len(w) = n + (3 - fmt)
  PROVE  \E h : /\ Headed(z, h, Cid(p), Parsed(p))
                /\ h.buffer = w /\ h.basicBytes = n /\ h.state = "EXTENDED_TIMESTAMP"
                /\ Settle(p) = EmptyPayload(ExtendedTimestampRead(h))
<1>1. /\ DOMAIN p = Fields /\ IsSeq(w) /\ p.buffer = w /\ p.basicBytes = n
      /\ p.inPackets = z.inPackets /\ p.inStep = TRUE /\ SameRest(z, p)
      /\ p.state = IF Len(w) <= n THEN "BASIC_HEADER" ELSE "MESSAGE_HEADER"
  BY DEF Reading
<1>2. /\ n \in 1..3 /\ fmt \in 0..3 /\ Len(w) >= 1 /\ w[1].basic[1] = fmt
      /\ Len(w) \in Nat
  BY <1>1, IsSeqLen DEF HeaderOf
<1>3. Len(HeaderFields(fmt)) = 3 - fmt
  BY <1>2, FieldsOfHeader
<1>4. PICK q : /\ DOMAIN q = Fields /\ q.buffer = w /\ q.basicBytes = n
               /\ q.inPackets = z.inPackets /\ q.inStep = TRUE /\ SameRest(z, q)
               /\ BasicHeaderRead(p) = q /\ q.state = "MESSAGE_HEADER"
  <2>1. CASE Len(w) = n
    <3>1. PICK q : q = [p EXCEPT !.state = "MESSAGE_HEADER"]
      OBVIOUS
    <3>2. /\ DOMAIN q = Fields /\ q.state = "MESSAGE_HEADER" /\ q.inPackets = p.inPackets
          /\ SameBuffer(p, q) /\ SameRest(p, q)
      BY <1>1, <3>1, StateFields
    <3>3. BasicHeaderRead(p) = q
      BY <1>1, <1>2, <2>1, <3>1 DEF BasicHeaderRead
    <3> QED BY <1>1, <3>2, <3>3 DEF SameBuffer, SameRest
  <2>2. CASE Len(w) # n
    <3>1. p.state = "MESSAGE_HEADER"
      BY <1>1, <1>2, <2>2
    <3>2. BasicHeaderRead(p) = p
      BY <3>1 DEF BasicHeaderRead
    <3> QED BY <1>1, <3>1, <3>2
  <2> QED BY <2>1, <2>2
<1>5. HeaderSize(q) = Len(q.buffer)
  <2>1. Fmt(q) = fmt
    BY <1>2, <1>4 DEF Fmt
  <2> QED BY <1>3, <1>4, <2>1 DEF HeaderSize
<1>6. PICK k, c : k = Parsed(q) /\ k = Parsed(p) /\ c = Cid(q) /\ c = Cid(p)
  <2>1. Cid(q) = Cid(p)
    BY <1>1, <1>4 DEF Cid
  <2>2. Fmt(q) = Fmt(p)
    BY <1>1, <1>4 DEF Fmt
  <2>3. Parsed(q) = Parsed(p)
    BY <1>1, <1>4, <2>1, <2>2 DEF Parsed
  <2> QED BY <2>1, <2>3
<1>7. PICK r : r = PacketParse(q)
  OBVIOUS
<1>8. /\ DOMAIN r = Fields /\ r.inPackets = Updated(q.inPackets, c, k) /\ r.cid = c
      /\ SameBuffer(q, r) /\ SameRest(q, r)
  BY <1>4, <1>6, <1>7, PacketParseFields
<1>9. PICK h : h = [r EXCEPT !.state = "EXTENDED_TIMESTAMP"]
  OBVIOUS
<1>10. /\ DOMAIN h = Fields /\ h.state = "EXTENDED_TIMESTAMP" /\ h.inPackets = r.inPackets
       /\ h.cid = r.cid /\ SameBuffer(r, h) /\ SameRest(r, h)
  BY <1>8, <1>9, StateFields
<1>11. MessageHeaderRead(q) = h
  BY <1>4, <1>5, <1>7, <1>9 DEF MessageHeaderRead
<1>12. Settle(p) = EmptyPayload(ExtendedTimestampRead(h))
  BY <1>4, <1>11 DEF Settle
<1>13. Headed(z, h, c, k) /\ h.buffer = w /\ h.basicBytes = n
  BY <1>4, <1>8, <1>10 DEF Headed, SameBuffer, SameRest
<1> QED BY <1>6, <1>10, <1>12, <1>13

\* The message that begins or goes on, once its time is known.
Clocked(k, fmt, time) ==
  IF k.payload # <<>> THEN k
  ELSE [k EXCEPT !.clock = IF fmt = 0 THEN time ELSE @ + time]

LEMMA TimeRead ==
  ASSUME NEW z, NEW h, NEW c, NEW k, Headed(z, h, c, k),
         h.state = "EXTENDED_TIMESTAMP",
         ~(k.time = ExtTime /\ Len(h.buffer) = HeaderSize(h)), NEW time,
         time = IF k.time = ExtTime THEN Last(h.buffer).ext ELSE k.time
  PROVE  LET q == ExtendedTimestampRead(h)
         IN Headed(z, q, c, Clocked(k, Fmt(h), time)) /\ q.state = "PAYLOAD"
<1>1. ParserPacket(h) = k
  BY HeadedPacket
<1>2. Extended(h) <=> k.time = ExtTime
  BY <1>1 DEF Extended
<1>3. PICK k1 : k1 = Clocked(k, Fmt(h), time) /\ k1 = ClockOf(h, time)
  BY <1>1 DEF ClockOf, Clocked
<1>4. PICK g : g = [h EXCEPT !.state = "PAYLOAD"]
  OBVIOUS
<1>5. /\ DOMAIN g = Fields /\ g.state = "PAYLOAD" /\ g.inPackets = h.inPackets
      /\ g.cid = h.cid /\ SameBuffer(h, g) /\ SameRest(h, g)
  BY <1>4, StateFields DEF Headed
<1>6. PICK q : q = WithPacket(g, k1)
  OBVIOUS
<1>7. /\ DOMAIN q = Fields /\ q.inPackets = Updated(g.inPackets, g.cid, k1)
      /\ q.state = g.state /\ q.cid = g.cid /\ SameBuffer(g, q) /\ SameRest(g, q)
  BY <1>5, <1>6, WithPacketFields
<1>8. Updated(Updated(z.inPackets, c, k), c, k1) = Updated(z.inPackets, c, k1)
  BY PutTwice
<1>9. Headed(z, q, c, k1) /\ q.state = "PAYLOAD"
  BY <1>5, <1>7, <1>8 DEF Headed, SameBuffer, SameRest
<1>10. ExtendedTimestampRead(h) = q
  <2>1. time = IF Extended(h) THEN Last(h.buffer).ext ELSE ParserPacket(h).time
    BY <1>1, <1>2
  <2>2. ~(h.state # "EXTENDED_TIMESTAMP" \/ (Extended(h) /\ Len(h.buffer) = HeaderSize(h)))
    BY <1>2
  <2>3. ExtendedTimestampRead(h) = WithPacket([h EXCEPT !.state = "PAYLOAD"], ClockOf(h, time))
    BY <2>1, <2>2, Zenon DEF ExtendedTimestampRead
  <2> QED BY <1>3, <1>4, <1>6, <2>3
<1> QED BY <1>3, <1>9, <1>10

\* A chunk, and what its header says: old is what was said before of the
\* message on its chunk stream.
HeaderChunk(fmt, packet) ==
  (ChunkBasicHeaderCreate(fmt, packet.cid) \o ChunkMessageHeaderCreate(fmt, packet))
    \o ExtendedTimestamp(packet.time)
Chunk(fmt, packet, part) == HeaderChunk(fmt, packet) \o part
PacketRec(a, b, t, s, c, p) ==
  [time |-> a, length |-> b, type |-> t, sid |-> s, clock |-> c, payload |-> p]
PacketKeys == {"time", "length", "type", "sid", "clock", "payload"}
IsPacket(k) == DOMAIN k = PacketKeys /\ IsSeq(k.payload)
OldOf(z, c) == IF c \in DOMAIN z.inPackets THEN z.inPackets[c] ELSE RtmpPacket
Header(fmt, packet, old) ==
  [time |-> IF fmt <= 2 THEN TimeShown(packet.time) ELSE old.time,
   length |-> IF fmt <= 1 THEN Len(packet.payload) ELSE old.length,
   type |-> IF fmt <= 1 THEN packet.type ELSE old.type,
   sid |-> IF fmt = 0 THEN packet.sid ELSE old.sid,
   clock |-> IF old.payload # <<>> THEN old.clock
             ELSE IF fmt = 0 THEN packet.time ELSE old.clock + packet.time,
   payload |-> old.payload]

LEMMA PacketSame ==
  ASSUME NEW k, DOMAIN k = PacketKeys, k = [d \in PacketKeys |-> k[d]]
  PROVE  k = PacketRec(k.time, k.length, k.type, k.sid, k.clock, k.payload)
BY DEF PacketKeys, PacketRec

\* The cells of p after n hold this header.
Says(p, n, fmt, packet) ==
  /\ fmt <= 2 => p.buffer[n + 1] = [time |-> TimeShown(packet.time)]
  /\ fmt <= 1 => p.buffer[n + 2] = [lengthType |-> <<Len(packet.payload), packet.type>>]
  /\ fmt = 0 => p.buffer[n + 3] = [streamId |-> packet.sid]

LEMMA ParsedIs ==
  ASSUME NEW p, NEW fmt \in 0..3, NEW packet, NEW old, IsPacket(old), NEW n \in 1..3,
         p.basicBytes = n, Fmt(p) = fmt, OldOf(p, Cid(p)) = old,
         Says(p, n, fmt, packet),
         NEW time, time = packet.time
  PROVE  /\ Clocked(Parsed(p), fmt, time) = Header(fmt, packet, old)
         /\ Parsed(p).time = Header(fmt, packet, old).time
<1>1. PICK a, b, t, s :
        /\ a = IF fmt <= 2 THEN TimeShown(packet.time) ELSE old.time
        /\ b = IF fmt <= 1 THEN Len(packet.payload) ELSE old.length
        /\ t = IF fmt <= 1 THEN packet.type ELSE old.type
        /\ s = IF fmt = 0 THEN packet.sid ELSE old.sid
  OBVIOUS
<1>2. /\ a = IF fmt <= 2 THEN p.buffer[n + 1].time ELSE old.time
      /\ b = IF fmt <= 1 THEN p.buffer[n + 2].lengthType[1] ELSE old.length
      /\ t = IF fmt <= 1 THEN p.buffer[n + 2].lengthType[2] ELSE old.type
      /\ s = IF fmt = 0 THEN p.buffer[n + 3].streamId ELSE old.sid
  BY <1>1 DEF Says
<1>3. Parsed(p) = [old EXCEPT
          !.time   = IF fmt <= 2 THEN p.buffer[n + 1].time ELSE @,
          !.length = IF fmt <= 1 THEN p.buffer[n + 2].lengthType[1] ELSE @,
          !.type   = IF fmt <= 1 THEN p.buffer[n + 2].lengthType[2] ELSE @,
          !.sid    = IF fmt = 0 THEN p.buffer[n + 3].streamId ELSE @]
  BY Zenon DEF Parsed, OldOf
<1>4. Parsed(p) = [old EXCEPT !.time = a, !.length = b, !.type = t, !.sid = s]
  BY <1>2, <1>3
<1>5. PICK k : /\ k = Parsed(p)
               /\ k = [time |-> a, length |-> b, type |-> t, sid |-> s,
                       clock |-> old.clock, payload |-> old.payload]
  <2>1. PICK k : k = Parsed(p)
    OBVIOUS
  <2>2. /\ DOMAIN k = PacketKeys /\ k.time = a /\ k.length = b /\ k.type = t /\ k.sid = s
        /\ k.clock = old.clock /\ k.payload = old.payload
    BY <1>4, <2>1 DEF PacketKeys, IsPacket
  <2>3. k = [d \in PacketKeys |-> k[d]]
    BY <1>4, <2>1 DEF IsPacket
  <2>4. k = PacketRec(k.time, k.length, k.type, k.sid, k.clock, k.payload)
    BY <2>2, <2>3, PacketSame
  <2> QED BY <2>1, <2>2, <2>4 DEF PacketRec
<1>6. PICK u : u = IF fmt = 0 THEN time ELSE old.clock + time
  OBVIOUS
<1>8. Clocked(k, fmt, time) = IF old.payload # <<>> THEN k ELSE [k EXCEPT !.clock = u]
  BY <1>5, <1>6 DEF Clocked
<1>9. Header(fmt, packet, old) =
        [time |-> a, length |-> b, type |-> t, sid |-> s,
         clock |-> IF old.payload # <<>> THEN old.clock ELSE u, payload |-> old.payload]
  BY <1>1, <1>6 DEF Header
<1>10. Clocked(k, fmt, time) = Header(fmt, packet, old)
  <2>1. CASE old.payload # <<>>
    BY <1>5, <1>8, <1>9, <2>1
  <2>2. CASE old.payload = <<>>
    BY <1>5, <1>8, <1>9, <2>2
  <2> QED BY <2>1, <2>2
<1>11. Header(fmt, packet, old).time = a
  BY <1>9
<1> QED BY <1>5, <1>10, <1>11

\* A header that fits to a reader at rest.
HeaderFits(z, fmt, packet, c, old) ==
  /\ AtRest(z) /\ fmt \in 0..3 /\ HasCid(packet.cid) /\ packet.time \in Nat
  /\ c = CidRead(packet.cid) /\ old = OldOf(z, c) /\ IsPacket(old)
  /\ fmt = 3 => old.time = TimeShown(packet.time)

LEMMA HeaderRead ==
  ASSUME NEW z, NEW fmt, NEW packet, NEW c, NEW old, HeaderFits(z, fmt, packet, c, old)
  PROVE  LET cells == HeaderChunk(fmt, packet)
         IN /\ IsSeq(cells) /\ cells # <<>>
            /\ ReadOn(z, cells).inStep = TRUE /\ SameRest(z, ReadOn(z, cells))
            /\ \E q : /\ Headed(z, q, c, Header(fmt, packet, old)) /\ q.state = "PAYLOAD"
                      /\ Settle(ReadOn(z, cells)) = EmptyPayload(q)
<1>0. /\ AtRest(z) /\ fmt \in 0..3 /\ HasCid(packet.cid) /\ packet.time \in Nat
      /\ c = CidRead(packet.cid) /\ old = OldOf(z, c) /\ IsPacket(old)
      /\ fmt = 3 => old.time = TimeShown(packet.time)
  BY DEF HeaderFits
<1> USE <1>0
<1>22. PICK cells : cells = HeaderChunk(fmt, packet)
  OBVIOUS
<1>1. PICK b, m, e, n, w : /\ b = ChunkBasicHeaderCreate(fmt, packet.cid)
                           /\ m = ChunkMessageHeaderCreate(fmt, packet)
                           /\ e = ExtendedTimestamp(packet.time)
                           /\ n = BasicSize(packet.cid) /\ w = b \o m
  OBVIOUS
<1>23. cells = w \o e
  BY <1>1, <1>22 DEF HeaderChunk
<1>2. /\ IsSeq(b) /\ Len(b) = n /\ n \in 1..3
      /\ "basic" \in DOMAIN b[1] /\ b[1].basic[1] = fmt
      /\ n = CASE b[1].basic[2] = 0 -> 2 [] b[1].basic[2] = 1 -> 3 [] OTHER -> 1
      /\ \A i \in 2..n : "more" \in DOMAIN b[i]
      /\ \A p : p.basicBytes = n /\ (\A i \in 1..n : p.buffer[i] = b[i]) => Cid(p) = c
  BY <1>1, BasicHeader
<1>3. /\ IsSeq(m) /\ Len(m) = 3 - fmt
      /\ fmt <= 2 => m[1] = [time |-> TimeShown(packet.time)]
      /\ fmt <= 1 => m[2] = [lengthType |-> <<Len(packet.payload), packet.type>>]
      /\ fmt = 0 => m[3] = [streamId |-> packet.sid]
      /\ \A i \in 1..(3 - fmt) :
           <<"time", "lengthType", "streamId">>[i] \in DOMAIN m[i]
  BY <1>1, MessageHeader
<1>4. /\ IsSeq(w) /\ Len(w) = n + (3 - fmt)
      /\ (\A i \in 1..n : w[i] = b[i]) /\ (\A i \in 1..(3 - fmt) : w[n + i] = m[i])
  <2>1. IsSeq(b) /\ IsSeq(m)
    BY <1>2, <1>3
  <2>2. /\ IsSeq(b \o m) /\ Len(b \o m) = Len(b) + Len(m)
        /\ \A i \in 1..Len(b) : (b \o m)[i] = b[i]
        /\ \A i \in 1..Len(m) : (b \o m)[Len(b) + i] = m[i]
    BY <2>1, Concat
  <2>3. PICK k, l : k = Len(b) /\ l = Len(m) /\ k = n /\ l = 3 - fmt
    BY <1>2, <1>3
  <2> QED BY <1>1, <2>2, <2>3
<1>5. PICK x, t : /\ x = <<b[1]>> /\ w = x \o t /\ IsSeq(x) /\ Len(x) = 1
                  /\ IsSeq(t) /\ Len(t) = Len(w) - 1
                  /\ \A i \in 1..(Len(w) - 1) : t[i] = w[i + 1]
  <2>1. w # <<>>
    BY <1>2, <1>4, EmptyLen
  <2>2. PICK t : /\ w = <<w[1]>> \o t /\ IsSeq(t) /\ Len(t) = Len(w) - 1
                 /\ \A i \in 1..(Len(w) - 1) : t[i] = w[i + 1]
    BY <1>4, <2>1, HeadTail
  <2>3. w[1] = b[1]
    BY <1>2, <1>4
  <2>4. PICK x : x = <<b[1]>> /\ IsSeq(x) /\ Len(x) = 1
    BY IsOne
  <2> QED BY <2>2, <2>3, <2>4
<1>6. x = <<b[1]>>
  BY <1>5
<1>7. Reading(z, ReadOn(z, x), x, n) /\ HeaderOf(x, n, fmt)
  <2>1. Reading(z, ChunkRead(z, b[1]), <<b[1]>>, n)
    BY <1>2, HeaderBegins
  <2>2. ReadOn(z, x) = ChunkRead(z, b[1])
    BY <1>6, ReadOne
  <2>3. x[1] = b[1]
    BY <1>6
  <2> QED BY <1>2, <1>5, <1>6, <2>1, <2>2, <2>3 DEF HeaderOf
<1>8. ASSUME NEW i \in 1..Len(t) PROVE Fits(t[i], Len(x) + i, n)
  <2>1. i \in 1..(Len(w) - 1) /\ i + 1 \in 2..(n + (3 - fmt)) /\ Len(x) + i = i + 1
    BY <1>2, <1>4, <1>5
  <2>2. t[i] = w[i + 1]
    BY <1>5, <2>1
  <2>3. CASE i + 1 <= n
    <3>1. i + 1 \in 2..n /\ i + 1 \in 1..n
      BY <1>2, <2>1, <2>3
    <3> QED BY <1>2, <1>4, <2>1, <2>2, <2>3, <3>1 DEF Fits
  <2>4. CASE ~(i + 1 <= n)
    <3>1. PICK j \in 1..(3 - fmt) : j = (i + 1) - n /\ n + j = i + 1
      BY <1>2, <2>1, <2>4
    <3>2. w[i + 1] = m[j]
      BY <1>4, <3>1
    <3>3. <<"time", "lengthType", "streamId">>[j] \in DOMAIN t[i]
      BY <1>3, <2>2, <3>2
    <3> QED BY <2>1, <2>4, <3>1, <3>3 DEF Fits
  <2> QED BY <2>3, <2>4
<1>9. PICK p : p = ReadOn(z, w)
  OBVIOUS
<1>10. Reading(z, p, w, n) /\ HeaderOf(w, n, fmt)
  <2>1. Len(x) + Len(t) <= n + (3 - fmt)
    BY <1>2, <1>4, <1>5
  <2>2. Reading(z, ReadOn(ReadOn(z, x), t), x \o t, n) /\ HeaderOf(x \o t, n, fmt)
    BY <1>5, <1>7, <1>8, <2>1, HeaderCells
  <2>3. ReadOn(z, x \o t) = ReadOn(ReadOn(z, x), t)
    BY <1>5, ReadParts
  <2> QED BY <1>5, <1>9, <2>2, <2>3
<1>11. PICK h : /\ Headed(z, h, Cid(p), Parsed(p))
                /\ h.buffer = w /\ h.basicBytes = n /\ h.state = "EXTENDED_TIMESTAMP"
                /\ Settle(p) = EmptyPayload(ExtendedTimestampRead(h))
  BY <1>4, <1>10, HeaderDone
<1>12. /\ p.inStep = TRUE /\ p.inPackets = z.inPackets /\ p.buffer = w /\ p.basicBytes = n
       /\ SameRest(z, p)
  BY <1>10 DEF Reading
<1>13. Cid(p) = c
  BY <1>2, <1>4, <1>12
<1>14. Fmt(p) = fmt /\ Fmt(h) = fmt
  <2>1. w[1] = b[1]
    BY <1>2, <1>4
  <2> QED BY <1>2, <1>11, <1>12, <2>1 DEF Fmt
<1>15. PICK k, s, time : /\ k = Header(fmt, packet, old) /\ s = Parsed(p)
                         /\ time = packet.time /\ time \in Nat
  OBVIOUS
<1>16. Clocked(s, fmt, time) = k /\ s.time = TimeShown(time)
  <2>1. OldOf(p, Cid(p)) = old
    BY <1>12, <1>13 DEF OldOf
  <2>2. /\ fmt <= 2 => w[n + 1] = [time |-> TimeShown(packet.time)]
        /\ fmt <= 1 => w[n + 2] = [lengthType |-> <<Len(packet.payload), packet.type>>]
        /\ fmt = 0 => w[n + 3] = [streamId |-> packet.sid]
    <3>1. (fmt <= 2 => 1 \in 1..(3 - fmt)) /\ (fmt <= 1 => 2 \in 1..(3 - fmt))
          /\ (fmt = 0 => 3 \in 1..(3 - fmt))
      OBVIOUS
    <3> QED BY <1>3, <1>4, <3>1
  <2>3. Clocked(Parsed(p), fmt, time) = Header(fmt, packet, old)
        /\ Parsed(p).time = Header(fmt, packet, old).time
    <3>1. Says(p, n, fmt, packet)
      BY <1>12, <2>2 DEF Says
    <3>2. n \in 1..3 /\ p.basicBytes = n
      BY <1>2, <1>12
    <3> QED BY <1>14, <1>15, <2>1, <3>1, <3>2, ParsedIs
  <2>4. Header(fmt, packet, old).time = TimeShown(time)
    BY <1>15 DEF Header
  <2> QED BY <1>15, <2>3, <2>4
<1>17. Headed(z, h, c, s)
  BY <1>11, <1>13, <1>15
<1>18. HeaderSize(h) = Len(w)
  <2>1. Len(HeaderFields(fmt)) = 3 - fmt
    BY FieldsOfHeader
  <2> QED BY <1>4, <1>11, <1>14, <2>1 DEF HeaderSize
<1>19. ExtTime \in Nat
  BY ChunksAssumption
<1>20. CASE ~(time >= ExtTime)
  <2>1. e = <<>>
    BY <1>1, <1>15, <1>20, ExtendedIs
  <2>2. cells = w
    BY <1>4, <1>23, <2>1, ConcatEmpty
  <2>3. s.time = time /\ s.time # ExtTime
    BY <1>15, <1>16, <1>19, <1>20 DEF TimeShown
  <2>4. PICK q : q = ExtendedTimestampRead(h)
    OBVIOUS
  <2>5. Headed(z, q, c, Clocked(s, Fmt(h), time)) /\ q.state = "PAYLOAD"
    BY <1>11, <1>17, <2>3, <2>4, TimeRead
  <2>6. w # <<>>
    BY <1>2, <1>4, EmptyLen
  <2> QED BY <1>4, <1>9, <1>11, <1>12, <1>14, <1>22, <1>15, <1>16, <2>2, <2>4, <2>5, <2>6
<1>21. CASE time >= ExtTime
  <2>1. PICK y : y = [ext |-> time] /\ e = <<y>> /\ IsSeq(e) /\ Len(e) = 1
    BY <1>1, <1>15, <1>21, ExtendedIs, IsOne
  <2>2. cells = w \o e /\ IsSeq(cells) /\ Len(cells) = Len(w) + 1
    BY <1>4, <1>23, <2>1, Concat
  <2>3. cells # <<>>
    BY <1>2, <1>4, <2>2, EmptyLen
  <2>4. s.time = ExtTime
    BY <1>16, <1>21 DEF TimeShown
  <2>5. ExtendedTimestampRead(h) = h
    <3>1. ParserPacket(h) = s
      BY <1>17, HeadedPacket
    <3> QED BY <1>11, <1>18, <2>4, <3>1 DEF ExtendedTimestampRead, Extended
  <2>6. Settle(p) = h
    BY <1>11, <2>5 DEF EmptyPayload, PayloadRead
  <2>7. PICK g : g = Longer(h, y)
    OBVIOUS
  <2>8. ReadOn(z, cells) = g
    <3>1. ReadOn(z, cells) = ReadOn(p, e)
      BY <1>4, <1>9, <2>1, <2>2, ReadParts
    <3>2. ReadOn(p, e) = ChunkRead(p, y)
      BY <2>1, ReadOne
    <3>3. ChunkRead(p, y) = TakeCell(h, y)
      BY <1>12, <2>6 DEF ChunkRead
    <3>4. Expects(h, y)
      BY <1>11, <2>1 DEF Expects
    <3>5. h.inStep = TRUE
      BY <1>17 DEF Headed
    <3>6. TakeCell(h, y) = g
      BY <1>11, <2>7, <3>4, <3>5, TakeCases
    <3> QED BY <3>1, <3>2, <3>3, <3>6
  <2>9. /\ DOMAIN g = Fields /\ g.state = h.state
        /\ g.buffer = Append(h.buffer, y) /\ g.basicBytes = h.basicBytes
        /\ g.cid = h.cid /\ g.inPackets = h.inPackets /\ g.inStep = h.inStep
        /\ SameRest(h, g)
    BY <1>17, <2>7, LongerFields DEF Headed
  <2>10. Headed(z, g, c, s) /\ g.state = "EXTENDED_TIMESTAMP" /\ g.inStep = TRUE
    BY <1>11, <1>17, <2>9 DEF Headed, SameRest
  <2>11. PICK v : v = Append(w, y) /\ IsSeq(v) /\ Len(v) = Len(w) + 1 /\ v[1] = w[1]
                  /\ v[Len(w) + 1] = y
    <3>1. IsSeq(w) /\ 1 \in 1..Len(w)
      BY <1>2, <1>4
    <3>0. Extends(Append(w, y), w, y)
      BY <3>1, Appended
    <3>2. /\ IsSeq(Append(w, y)) /\ Len(Append(w, y)) = Len(w) + 1
          /\ \A i \in 1..Len(w) : Append(w, y)[i] = w[i]
          /\ Append(w, y)[Len(w) + 1] = y
      BY <3>0, Zenon DEF Extends
    <3>3. Append(w, y)[1] = w[1]
      BY <3>1, <3>2
    <3>4. PICK v : v = Append(w, y)
      OBVIOUS
    <3> QED BY <3>2, <3>3, <3>4
  <2>12. g.buffer = v
    BY <1>11, <2>9, <2>11
  <2>13. Fmt(g) = fmt /\ HeaderSize(g) = Len(w)
    <3>1. Fmt(g) = fmt
      BY <1>11, <1>14, <2>11, <2>12 DEF Fmt
    <3> QED BY <1>14, <1>18, <2>9, <3>1 DEF HeaderSize
  <2>14. Last(g.buffer).ext = time
    BY <2>1, <2>11, <2>12 DEF Last
  <2>15. ~(s.time = ExtTime /\ Len(g.buffer) = HeaderSize(g))
    <3>1. Len(w) \in Nat
      BY <1>4, IsSeqLen
    <3> QED BY <2>11, <2>12, <2>13, <3>1
  <2>16. PICK q : q = ExtendedTimestampRead(g)
    OBVIOUS
  <2>17. Headed(z, q, c, Clocked(s, Fmt(g), time)) /\ q.state = "PAYLOAD"
    <3>1. time = IF s.time = ExtTime THEN Last(g.buffer).ext ELSE s.time
      BY <2>4, <2>14
    <3> QED BY <2>10, <2>15, <2>16, <3>1, TimeRead
  <2>18. Settle(g) = EmptyPayload(q)
    BY <2>10, <2>16, SettleExtended
  <2>19. SameRest(z, g)
    BY <2>10 DEF Headed
  <2>20. Clocked(s, Fmt(g), time) = Header(fmt, packet, old)
    BY <1>15, <1>16, <2>13
  <2> QED BY <1>22, <2>2, <2>3, <2>8, <2>10, <2>17, <2>18, <2>19, <2>20
<1> QED BY <1>20, <1>21, <1>22

(***************************************************************************)
(* Reading a payload, and the end of a chunk.                              *)
(***************************************************************************)
WithPayload(k, payload) == PacketRec(k.time, k.length, k.type, k.sid, k.clock, payload)

LEMMA PayloadSet ==
  ASSUME NEW k, IsPacket(k), NEW u, k = WithPayload(k, k.payload)
  PROVE  [k EXCEPT !.payload = u] = WithPayload(k, u)
<1>1. PICK j : j = [k EXCEPT !.payload = u]
  OBVIOUS
<1>2. /\ DOMAIN j = PacketKeys /\ j.time = k.time /\ j.length = k.length /\ j.type = k.type
      /\ j.sid = k.sid /\ j.clock = k.clock /\ j.payload = u
  BY <1>1 DEF IsPacket, PacketKeys
<1>3. j = [d \in PacketKeys |-> j[d]]
  BY <1>1 DEF IsPacket
<1>4. j = PacketRec(j.time, j.length, j.type, j.sid, j.clock, j.payload)
  BY <1>2, <1>3, PacketSame
<1> QED BY <1>1, <1>2, <1>4 DEF WithPayload

\* The fields of a packet of which the payload is given.
LEMMA WithPayloadFields ==
  ASSUME NEW k, NEW u, IsSeq(u), NEW j, j = WithPayload(k, u)
  PROVE  /\ IsPacket(j) /\ j = WithPayload(j, j.payload) /\ j.payload = u
         /\ j.time = k.time /\ j.length = k.length /\ j.type = k.type
         /\ j.sid = k.sid /\ j.clock = k.clock
         /\ \A v : WithPayload(j, v) = WithPayload(k, v)
<1>1. /\ DOMAIN j = PacketKeys
      /\ j.time = k.time /\ j.length = k.length /\ j.type = k.type
      /\ j.sid = k.sid /\ j.clock = k.clock /\ j.payload = u
  BY DEF WithPayload, PacketRec, PacketKeys
<1>2. \A v : WithPayload(j, v) = WithPayload(k, v)
  BY <1>1 DEF WithPayload
<1> QED BY <1>1, <1>2 DEF IsPacket

\* q is z after a message k on its chunk stream c.
Finished(z, c, k, q) ==
  /\ AtRest(q) /\ q.inPackets = Updated(z.inPackets, c, WithPayload(k, <<>>))
  /\ k.clock > MaxClock => SameRest(z, q)
  /\ ~(k.clock > MaxClock) =>
       /\ q.handled = Append(z.handled, Handed(k))
       /\ q.inChunkSize = IF k.type = "chunkSize" THEN k.payload[1].size ELSE z.inChunkSize

LEMMA Finishes ==
  ASSUME NEW z, IsParser(z), NEW p, NEW c, NEW k, Headed(z, p, c, k), IsPacket(k),
         k = WithPayload(k, k.payload)
  PROVE  Finished(z, c, k, PacketHandler(p))
<1>1. ParserPacket(p) = k /\ DOMAIN p = Fields
  BY HeadedPacket DEF Headed
<1>2. PICK q : q = PacketHandler(p)
  OBVIOUS
<1>3. PICK e : e = WithPayload(k, <<>>)
  OBVIOUS
<1>4. [k EXCEPT !.payload = <<>>] = e
  BY <1>3, PayloadSet
<1>5. /\ DOMAIN q = Fields /\ q.state = "INIT" /\ q.cid = p.cid
      /\ q.inPackets = Updated(p.inPackets, p.cid, e)
      /\ SameBuffer(p, q)
      /\ k.clock > MaxClock => SameRest(p, q)
      /\ ~(k.clock > MaxClock) =>
           /\ q.handled = Append(p.handled, Handed(k))
           /\ q.inChunkSize = IF k.type = "chunkSize" THEN k.payload[1].size ELSE p.inChunkSize
  BY <1>1, <1>2, <1>4, PacketHandlerFields
<1>6. Updated(Updated(z.inPackets, c, k), c, e) = Updated(z.inPackets, c, e)
  BY PutTwice
<1>7. p.inPackets = Updated(z.inPackets, c, k) /\ p.cid = c /\ p.inStep = TRUE /\ SameRest(z, p)
  BY DEF Headed
<1>8. q.inPackets = Updated(z.inPackets, c, e)
  BY <1>5, <1>6, <1>7
<1>9. IsSeq(q.handled)
  <2>1. PICK h : h = z.handled /\ IsSeq(h) /\ h = p.handled
    BY <1>7 DEF IsParser, SameRest
  <2>2. IsSeq(Append(h, Handed(k)))
    BY <2>1, AppendIs
  <2> QED BY <1>5, <2>1, <2>2 DEF SameRest
<1>10. q.inStep = TRUE
  BY <1>5, <1>7 DEF SameBuffer
<1>11. /\ k.clock > MaxClock => SameRest(z, q)
       /\ ~(k.clock > MaxClock) =>
            /\ q.handled = Append(z.handled, Handed(k))
            /\ q.inChunkSize = IF k.type = "chunkSize" THEN k.payload[1].size ELSE z.inChunkSize
  BY <1>5, <1>7 DEF SameRest
<1> QED BY <1>2, <1>3, <1>5, <1>8, <1>9, <1>10, <1>11 DEF Finished, AtRest, IsParser

LEMMA PayloadCell ==
  ASSUME NEW z, NEW p, NEW c, NEW k, Headed(z, p, c, k), p.state = "PAYLOAD",
         IsPacket(k), k = WithPayload(k, k.payload), k.length > 0,
         NEW cell, IsPayload(cell)
  PROVE  \E q : /\ Headed(z, q, c, WithPayload(k, Append(k.payload, cell)))
                /\ q.state = "PAYLOAD" /\ ChunkRead(p, cell) = PayloadRead(q)
<1>1. ParserPacket(p) = k /\ DOMAIN p = Fields /\ p.inStep = TRUE
  BY HeadedPacket DEF Headed
<1>2. ChunkRead(p, cell) = TakeCell(p, cell)
  BY <1>1, SettlePayload DEF ChunkRead
<1>3. Expects(p, cell)
  BY DEF Expects
<1>4. TakeCell(p, cell) = PayloadRead(Taken(p, cell))
  BY <1>1, <1>3, TakeCases
<1>5. PICK u, j : u = Append(k.payload, cell) /\ j = WithPayload(k, u)
  OBVIOUS
<1>6. [k EXCEPT !.payload = u] = j
  BY <1>5, PayloadSet
<1>7. PICK q : q = WithPacket(p, j)
  OBVIOUS
<1>8. Taken(p, cell) = q
  <2>1. [ParserPacket(p) EXCEPT !.payload = Append(@, cell)] = [k EXCEPT !.payload = u]
    BY <1>1, <1>5
  <2> QED BY <1>6, <1>7, <2>1 DEF Taken
<1>9. /\ DOMAIN q = Fields /\ q.inPackets = Updated(p.inPackets, p.cid, j)
      /\ q.state = p.state /\ q.cid = p.cid /\ SameBuffer(p, q) /\ SameRest(p, q)
  BY <1>1, <1>7, WithPacketFields
<1>10. Updated(Updated(z.inPackets, c, k), c, j) = Updated(z.inPackets, c, j)
  BY PutTwice
<1>11. Headed(z, q, c, j) /\ q.state = "PAYLOAD"
  BY <1>9, <1>10 DEF Headed, SameBuffer, SameRest
<1> QED BY <1>2, <1>4, <1>5, <1>8, <1>11

\* How much of a chunk there may be: no more than its size or its message.
Part(k, part, size) ==
  /\ IsSeq(part) /\ \A i \in 1..Len(part) : IsPayload(part[i])
  /\ Len(part) <= size /\ Len(k.payload) + Len(part) <= k.length

LEMMA PayloadCells ==
  ASSUME NEW z, NEW p, NEW c, NEW k, Headed(z, p, c, k), p.state = "PAYLOAD",
         IsPacket(k), k = WithPayload(k, k.payload), k.length \in Nat,
         z.inChunkSize \in Nat \ {0}, Len(k.payload) % z.inChunkSize = 0,
         NEW part, IsSeq(part), \A i \in 1..Len(part) : IsPayload(part[i]),
         Len(part) < z.inChunkSize, Len(k.payload) + Len(part) < k.length
  PROVE  /\ Headed(z, ReadOn(p, part), c, WithPayload(k, k.payload \o part))
         /\ ReadOn(p, part).state = "PAYLOAD"
<1>1. PICK a \in Nat, size \in Nat \ {0} : a = Len(k.payload) /\ size = z.inChunkSize
                                          /\ IsSeq(k.payload) /\ a % size = 0
  BY IsSeqLen DEF IsPacket
<1> DEFINE Good(u) == /\ Headed(z, ReadOn(p, u), c, WithPayload(k, k.payload \o u))
                      /\ ReadOn(p, u).state = "PAYLOAD"
           Fine(u) == /\ IsSeq(u) /\ \A i \in 1..Len(u) : IsPayload(u[i])
                      /\ Len(u) < size /\ a + Len(u) < k.length
           S == {n \in Nat : \A u : Fine(u) /\ Len(u) = n => Good(u)}
<1>2. 0 \in S
  <2> SUFFICES ASSUME NEW u, Fine(u), Len(u) = 0 PROVE Good(u)
    OBVIOUS
  <2>1. u = <<>> /\ k.payload \o u = k.payload
    BY <1>1, EmptyLen, ConcatEmpty
  <2> QED BY <2>1, ReadNothing
<1>3. ASSUME NEW n \in Nat, n \in S PROVE n + 1 \in S
  <2> SUFFICES ASSUME NEW u, Fine(u), Len(u) = n + 1 PROVE Good(u)
    OBVIOUS
  <2>0. IsSeq(u) /\ u # <<>>
    BY EmptyLen
  <2>1. PICK v, x : IsSeq(v) /\ u = Append(v, x) /\ Len(v) = Len(u) - 1
    BY <2>0, FrontLast
  <2>2. Len(v) = n
    BY <2>1
  <2>3. (\A i \in 1..n : u[i] = v[i]) /\ u[n + 1] = x
    <3>1. (\A i \in 1..Len(v) : Append(v, x)[i] = v[i]) /\ Append(v, x)[Len(v) + 1] = x
      BY <2>1, AppendIs
    <3> QED BY <2>1, <2>2, <3>1
  <2>4. Fine(v)
    <3>1. Len(v) < size /\ a + Len(v) < k.length
      BY <2>2
    <3>2. ASSUME NEW i \in 1..n PROVE IsPayload(v[i])
      <4>1. i \in 1..Len(u)
        OBVIOUS
      <4> QED BY <2>3, <4>1
    <3> QED BY <2>1, <2>2, <3>1, <3>2
  <2>5. Good(v)
    BY <1>3, <2>2, <2>4
  <2>6. IsPayload(x)
    <3>1. n + 1 \in 1..Len(u)
      OBVIOUS
    <3> QED BY <2>3, <3>1
  <2>7. k.length > 0 /\ Len(u) \in Nat /\ Len(u) < size /\ a + Len(u) < k.length /\ Len(u) # 0
    <3>1. Len(u) < size /\ a + Len(u) < k.length
      OBVIOUS
    <3> QED BY <3>1
  <2>8. PICK f, w : /\ f = k.payload \o v /\ IsSeq(f) /\ Len(f) = a + n
                    /\ w = k.payload \o u /\ IsSeq(w) /\ Len(w) = a + (n + 1)
                    /\ w = Append(f, x)
    <3>1. PICK l : l = k.payload /\ IsSeq(l) /\ Len(l) = a
      BY <1>1
    <3>2. IsSeq(l \o v) /\ Len(l \o v) = Len(l) + Len(v)
      BY <2>1, <3>1, Concat
    <3>3. IsSeq(l \o u) /\ Len(l \o u) = Len(l) + Len(u)
      BY <2>0, <3>1, Concat
    <3>4. l \o Append(v, x) = Append(l \o v, x)
      <4> HIDE DEF Good, Fine, S
      <4>1. IsSeq(l) /\ IsSeq(v)
        BY <2>1, <3>1
      <4> QED BY <4>1, AppendConcat
    <3>5. PICK f, w : f = l \o v /\ w = l \o u
      OBVIOUS
    <3>6. w = Append(f, x)
      BY <2>1, <3>4, <3>5
    <3> QED BY <2>2, <3>1, <3>2, <3>3, <3>5, <3>6
  <2>9. PICK j : j = WithPayload(k, f)
    OBVIOUS
  <2>10. /\ IsPacket(j) /\ j = WithPayload(j, j.payload) /\ j.payload = f
         /\ j.length = k.length /\ WithPayload(j, w) = WithPayload(k, w)
    <3>1. IsSeq(f)
      BY <2>8
    <3>2. /\ IsPacket(j) /\ j = WithPayload(j, j.payload) /\ j.payload = f
          /\ j.length = k.length
      BY <2>9, <3>1, WithPayloadFields
    <3>3. \A y : WithPayload(j, y) = WithPayload(k, y)
      BY <2>9, <3>1, WithPayloadFields
    <3> QED BY <3>2, <3>3
  <2>11. PICK r : r = ReadOn(p, v) /\ Headed(z, r, c, j) /\ r.state = "PAYLOAD"
    BY <2>5, <2>8, <2>9
  <2>12. PICK q : /\ Headed(z, q, c, WithPayload(j, Append(j.payload, x)))
                  /\ q.state = "PAYLOAD" /\ ChunkRead(r, x) = PayloadRead(q)
    <3>1. j.length > 0
      BY <2>7, <2>10
    <3> QED BY <2>6, <2>10, <2>11, <3>1, PayloadCell
  <2>13. Headed(z, q, c, WithPayload(k, w))
    BY <2>8, <2>10, <2>12
  <2>14. PayloadRead(q) = q
    <3>0. PICK g : g = WithPayload(k, w)
      OBVIOUS
    <3>1. g = WithPayload(k, w) /\ g.payload = w /\ g.length = k.length
      <4>1. IsSeq(w)
        BY <2>8
      <4> QED BY <3>0, <4>1, WithPayloadFields
    <3>2. ParserPacket(q) = g
      BY <2>13, <3>1, HeadedPacket
    <3>3. q.inChunkSize = size
      BY <1>1, <2>13 DEF Headed, SameRest
    <3>4. Len(g.payload) = a + (n + 1)
      BY <2>8, <3>1
    <3>5. ~(Len(g.payload) >= g.length)
      BY <2>7, <3>1, <3>4
    <3>6. (a + (n + 1)) % size # 0
      <4>1. n + 1 \in 0..size /\ n + 1 \notin {0, size}
        BY <2>7
      <4> QED BY <1>1, <4>1, Remainder
    <3>7. ~(Len(g.payload) % q.inChunkSize = 0)
      BY <3>3, <3>4, <3>6
    <3> QED BY <2>12, <3>2, <3>5, <3>7 DEF PayloadRead
  <2>15. ReadOn(p, u) = q
    <3>1. ReadOn(p, u) = ChunkRead(ReadOn(p, v), x)
      BY <2>1, ReadMore
    <3> QED BY <2>11, <2>12, <2>14, <3>1
  <2> QED BY <2>8, <2>12, <2>13, <2>15
<1>4. PICK n \in Nat : n = Len(part)
  BY IsSeqLen
<1>5. Fine(part)
  BY <1>1
<1> HIDE DEF S
<1>6. n \in S
  BY <1>2, <1>3, Climb
<1>7. Good(part)
  <2> HIDE DEF Good, Fine
  <2> QED BY <1>4, <1>5, <1>6 DEF S
<1> QED BY <1>7

LEMMA HeaderPacket ==
  ASSUME NEW fmt, NEW packet, NEW old, IsPacket(old), NEW k, k = Header(fmt, packet, old)
  PROVE  IsPacket(k) /\ k = WithPayload(k, k.payload) /\ k.payload = old.payload
<1>1. PICK a, b, t, s, d, u : k = PacketRec(a, b, t, s, d, u) /\ u = old.payload
  BY DEF Header, PacketRec
<1>2. k.payload = u /\ DOMAIN k = PacketKeys
  BY <1>1 DEF PacketRec, PacketKeys
<1>3. k = WithPayload(k, k.payload)
  BY <1>1 DEF WithPayload, PacketRec
<1> QED BY <1>1, <1>2, <1>3 DEF IsPacket

\* A chunk ends: the message is whole, or what is there of it is a multiple of
\* the chunk size.
ChunkEnd(z, j) ==
  /\ z.inChunkSize \in Nat \ {0} /\ j.length \in Nat
  /\ IsPacket(j) /\ j = WithPayload(j, j.payload)
  /\ \/ Len(j.payload) = j.length
     \/ Len(j.payload) < j.length /\ Len(j.payload) % z.inChunkSize = 0

LEMMA ChunkEnds ==
  ASSUME NEW z, IsParser(z), NEW q, NEW c, NEW j, Headed(z, q, c, j), q.state = "PAYLOAD",
         ChunkEnd(z, j)
  PROVE  /\ Len(j.payload) = j.length => Finished(z, c, j, PayloadRead(q))
         /\ Len(j.payload) < j.length =>
              /\ AtRest(PayloadRead(q)) /\ SameRest(z, PayloadRead(q))
              /\ PayloadRead(q).inPackets = Updated(z.inPackets, c, j)
<1>0. PICK size \in Nat \ {0} :
        /\ size = z.inChunkSize /\ j.length \in Nat
        /\ IsPacket(j) /\ j = WithPayload(j, j.payload)
        /\ \/ Len(j.payload) = j.length
           \/ Len(j.payload) < j.length /\ Len(j.payload) % size = 0
  BY DEF ChunkEnd
<1>1. ParserPacket(q) = j /\ DOMAIN q = Fields /\ q.inStep = TRUE
  BY HeadedPacket DEF Headed
<1>2. q.inChunkSize = size
  BY <1>0 DEF Headed, SameRest
<1>3. PICK a \in Nat : a = Len(j.payload)
  BY <1>0, IsSeqLen DEF IsPacket
<1>4. CASE a = j.length
  <2>1. PayloadRead(q) = PacketHandler(q)
    BY <1>0, <1>1, <1>3, <1>4 DEF PayloadRead
  <2>2. Finished(z, c, j, PacketHandler(q))
    BY <1>0, Finishes
  <2> QED BY <1>3, <1>4, <2>1, <2>2
<1>5. CASE a < j.length
  <2>1. PICK r : r = [q EXCEPT !.state = "INIT"]
    OBVIOUS
  <2>2. PayloadRead(q) = r
    BY <1>0, <1>1, <1>2, <1>3, <1>5, <2>1 DEF PayloadRead
  <2>3. /\ DOMAIN r = Fields /\ r.state = "INIT" /\ r.inPackets = q.inPackets
        /\ SameBuffer(q, r) /\ SameRest(q, r)
    BY <1>1, <2>1, StateFields
  <2>4. r.inStep = TRUE /\ r.inPackets = Updated(z.inPackets, c, j) /\ SameRest(z, r)
    BY <2>3 DEF Headed, SameBuffer, SameRest
  <2>5. AtRest(r)
    BY <2>3, <2>4 DEF AtRest, IsParser, SameRest
  <2> QED BY <1>3, <1>5, <2>2, <2>4, <2>5
<1> QED BY <1>0, <1>3, <1>4, <1>5

\* A part of a payload that a chunk may have, after that of k: of the chunk
\* size, or the last of its message.
PartFits(k, part, size) ==
  /\ size \in Nat \ {0} /\ k.length \in Nat /\ Len(k.payload) % size = 0
  /\ Part(k, part, size) /\ (k.length > 0 => part # <<>>)
  /\ Len(part) = size \/ Len(k.payload) + Len(part) = k.length

\* What is read of a payload that is not empty.
LEMMA ChunkPayload ==
  ASSUME NEW z, NEW q, NEW c, NEW k, Headed(z, q, c, k), q.state = "PAYLOAD",
         IsPacket(k), k = WithPayload(k, k.payload),
         NEW part, PartFits(k, part, z.inChunkSize), k.length > 0
  PROVE  \E p : /\ Headed(z, p, c, WithPayload(k, k.payload \o part))
                /\ p.state = "PAYLOAD" /\ ReadOn(q, part) = PayloadRead(p)
<1>1. /\ z.inChunkSize \in Nat \ {0} /\ k.length \in Nat
      /\ Len(k.payload) % z.inChunkSize = 0
      /\ IsSeq(part) /\ \A i \in 1..Len(part) : IsPayload(part[i])
      /\ Len(part) <= z.inChunkSize /\ Len(k.payload) + Len(part) <= k.length
      /\ part # <<>> /\ IsSeq(k.payload)
  BY DEF PartFits, Part, IsPacket
<1>2. PICK v, x : IsSeq(v) /\ part = Append(v, x) /\ Len(v) = Len(part) - 1
  BY <1>1, FrontLast
<1>3. (\A i \in 1..Len(v) : part[i] = v[i]) /\ part[Len(v) + 1] = x /\ Len(v) \in Nat
      /\ Len(part) = Len(v) + 1
  <2>1. /\ Len(Append(v, x)) = Len(v) + 1
        /\ \A i \in 1..Len(v) : Append(v, x)[i] = v[i]
        /\ Append(v, x)[Len(v) + 1] = x
    BY <1>2, AppendIs
  <2>2. Len(v) \in Nat
    BY <1>2, IsSeqLen
  <2> QED BY <1>2, <2>1, <2>2
<1>4. (\A i \in 1..Len(v) : IsPayload(v[i])) /\ IsPayload(x)
  BY <1>1, <1>3
<1>5. Len(v) < z.inChunkSize /\ Len(k.payload) + Len(v) < k.length
  <2>1. PICK a \in Nat, b \in Nat, size \in Nat, length \in Nat :
          /\ a = Len(k.payload) /\ b = Len(v) /\ size = z.inChunkSize /\ length = k.length
    <3>1. IsSeq(k.payload)
      BY <1>1
    <3>2. Len(k.payload) \in Nat
      BY <3>1, IsSeqLen
    <3> QED BY <1>1, <1>3, <3>2
  <2>2. Len(part) = b + 1 /\ Len(part) <= size /\ a + Len(part) <= length
    BY <1>1, <1>3, <2>1
  <2>3. b < size /\ a + b < length
    BY <2>2
  <2> QED BY <2>1, <2>3
<1>6. PICK r, j : r = ReadOn(q, v) /\ j = WithPayload(k, k.payload \o v)
  OBVIOUS
<1>7. Headed(z, r, c, j) /\ r.state = "PAYLOAD"
  BY <1>1, <1>2, <1>4, <1>5, <1>6, PayloadCells
<1>8. PICK l, f : l = k.payload /\ IsSeq(l) /\ f = l \o v /\ IsSeq(f)
  BY <1>1, <1>2, Concat
<1>9. /\ IsPacket(j) /\ j = WithPayload(j, j.payload) /\ j.payload = f
      /\ j.length = k.length /\ \A y : WithPayload(j, y) = WithPayload(k, y)
  <2>1. j = WithPayload(k, f) /\ IsSeq(f)
    BY <1>6, <1>8
  <2>2. IsPacket(j) /\ j = WithPayload(j, j.payload) /\ j.payload = f /\ j.length = k.length
    BY <2>1, WithPayloadFields
  <2>3. \A y : WithPayload(j, y) = WithPayload(k, y)
    BY <2>1, WithPayloadFields
  <2> QED BY <2>2, <2>3
<1>10. PICK p : /\ Headed(z, p, c, WithPayload(j, Append(j.payload, x)))
                /\ p.state = "PAYLOAD" /\ ChunkRead(r, x) = PayloadRead(p)
  <2>1. j.length > 0
    BY <1>9
  <2> QED BY <1>4, <1>7, <1>9, <2>1, PayloadCell
<1>11. k.payload \o part = Append(f, x)
  <2>1. IsSeq(l) /\ IsSeq(v)
    BY <1>2, <1>8
  <2>2. l \o Append(v, x) = Append(l \o v, x)
    BY <2>1, AppendConcat
  <2> QED BY <1>2, <1>8, <2>2
<1>12. ReadOn(q, part) = ChunkRead(r, x)
  BY <1>2, <1>6, ReadMore
<1> QED BY <1>9, <1>10, <1>11, <1>12

\* A chunk is read that does not complete its message.
Kept(z, c, j, e) ==
  AtRest(e) /\ SameRest(z, e) /\ e.inPackets = Updated(z.inPackets, c, j)

\* A chunk of a packet that fits what the reader z knows of its chunk stream:
\* it has k of the message before the part, j after it, and is then in state e.
ChunkFits(z, fmt, packet, c, old, k, part, j, e) ==
  /\ HeaderFits(z, fmt, packet, c, old) /\ k = Header(fmt, packet, old)
  /\ PartFits(k, part, z.inChunkSize) /\ j = WithPayload(k, k.payload \o part)
  /\ e = ReadOn(z, Chunk(fmt, packet, part))

\* A chunk that Rtmp.chunksCreate writes, read by a parser between two chunks: a
\* message that it completes is handled, whole and once; otherwise the parser
\* keeps the part it has and is between two chunks again.
THEOREM ChunkReads ==
  ASSUME NEW z, NEW fmt, NEW packet, NEW c, NEW old, NEW k, NEW part, NEW j, NEW e,
         ChunkFits(z, fmt, packet, c, old, k, part, j, e)
  PROVE  /\ k.length > 0 /\ Len(j.payload) = k.length => Finished(z, c, j, e)
         /\ k.length = 0 => /\ e.inStep = TRUE /\ SameRest(z, e)
                            /\ Finished(z, c, j, Settle(e))
         /\ Len(j.payload) < k.length => Kept(z, c, j, e)
<1>0. /\ HeaderFits(z, fmt, packet, c, old) /\ k = Header(fmt, packet, old)
      /\ PartFits(k, part, z.inChunkSize) /\ j = WithPayload(k, k.payload \o part)
      /\ e = ReadOn(z, Chunk(fmt, packet, part))
  BY DEF ChunkFits
<1> USE <1>0
<1>1. PICK cells, r, q :
           /\ IsSeq(cells) /\ cells # <<>> /\ r = ReadOn(z, cells)
           /\ Chunk(fmt, packet, part) = cells \o part
           /\ r.inStep = TRUE /\ SameRest(z, r)
           /\ Headed(z, q, c, k) /\ q.state = "PAYLOAD" /\ Settle(r) = EmptyPayload(q)
  <2>1. PICK cells : cells = HeaderChunk(fmt, packet)
    OBVIOUS
  <2>2. Chunk(fmt, packet, part) = cells \o part
    BY <2>1 DEF Chunk
  <2>3. /\ IsSeq(cells) /\ cells # <<>>
        /\ ReadOn(z, cells).inStep = TRUE /\ SameRest(z, ReadOn(z, cells))
        /\ \E q : /\ Headed(z, q, c, Header(fmt, packet, old)) /\ q.state = "PAYLOAD"
                  /\ Settle(ReadOn(z, cells)) = EmptyPayload(q)
    BY <2>1, HeaderRead
  <2> QED BY <2>2, <2>3
<1>2. IsPacket(old) /\ AtRest(z) /\ IsParser(z)
  BY DEF HeaderFits, AtRest
<1>3. IsPacket(k) /\ k = WithPayload(k, k.payload) /\ IsSeq(k.payload)
  BY <1>2, HeaderPacket DEF IsPacket
<1>4. ParserPacket(q) = k /\ q.inStep = TRUE
  BY <1>1, HeadedPacket DEF Headed
<1>5. PICK a \in Nat, l \in Nat, size \in Nat \ {0} :
                                 /\ a = Len(k.payload) /\ l = Len(part) /\ IsSeq(part)
                                 /\ size = z.inChunkSize /\ k.length \in Nat
                                 /\ l <= size /\ a + l <= k.length
                                 /\ (l = size \/ a + l = k.length) /\ a % size = 0
  BY <1>3, IsSeqLen DEF Part, PartFits
<1>6. PICK g, u : g = k.payload /\ u = g \o part /\ IsSeq(u) /\ Len(u) = a + l
  <2>1. PICK g : g = k.payload /\ IsSeq(g) /\ Len(g) = a
    BY <1>3, <1>5
  <2>2. IsSeq(g \o part) /\ Len(g \o part) = Len(g) + Len(part)
    BY <1>5, <2>1, Concat
  <2> QED BY <1>5, <2>1, <2>2
<1>7. /\ IsPacket(j) /\ j = WithPayload(j, j.payload) /\ j.payload = u /\ j.length = k.length
  <2>1. IsSeq(u) /\ j = WithPayload(k, u)
    BY <1>6
  <2> QED BY <2>1, WithPayloadFields
<1>8. e = ReadOn(r, part)
  BY <1>1, <1>5, ReadParts
<1>9. CASE k.length = 0
  <2>1. a = 0 /\ l = 0
    BY <1>5, <1>9
  <2>2. part = <<>> /\ e = r
    BY <1>5, <1>8, <2>1, EmptyLen, ReadNothing
  <2>3. EmptyPayload(q) = PacketHandler(q)
    BY <1>1, <1>4, <1>5, <1>9, <2>1 DEF EmptyPayload, PayloadRead
  <2>4. j = k
    <3>1. k.payload \o part = k.payload
      BY <1>3, <2>2, ConcatEmpty
    <3> QED BY <1>3, <3>1
  <2>5. Finished(z, c, k, PacketHandler(q))
    BY <1>1, <1>2, <1>3, Finishes
  <2>6. Finished(z, c, j, Settle(e))
    BY <1>1, <2>2, <2>3, <2>4, <2>5
  <2>7. e.inStep = TRUE /\ SameRest(z, e)
    BY <1>1, <2>2
  <2>8. ~(Len(j.payload) < k.length)
    BY <1>6, <1>7, <1>9, <2>1
  <2> QED BY <1>9, <2>6, <2>7, <2>8
<1>10. CASE k.length > 0
  <2>1. Settle(r) = q
    BY <1>1, <1>4, <1>10 DEF EmptyPayload
  <2>2. Settle(q) = q
    BY <1>1, <1>4, <1>10, SettlePayload
  <2>3. part # <<>>
    BY <1>10 DEF PartFits
  <2>4. ReadOn(r, part) = ReadOn(q, part)
    BY <1>1, <1>4, <1>5, <2>1, <2>2, <2>3, SettleFirst
  <2>5. PICK p : /\ Headed(z, p, c, j) /\ p.state = "PAYLOAD"
                 /\ ReadOn(q, part) = PayloadRead(p)
    BY <1>1, <1>3, <1>10, ChunkPayload
  <2>6. e = PayloadRead(p)
    BY <1>8, <2>4, <2>5
  <2>7. Len(j.payload) = a + l
    BY <1>6, <1>7
  <2>8. Len(j.payload) = j.length \/ (Len(j.payload) < j.length /\ Len(j.payload) % size = 0)
    <3>1. CASE a + l = k.length
      BY <1>7, <2>7, <3>1
    <3>2. CASE a + l # k.length
      <4>1. l = size /\ a + l < k.length
        BY <1>5, <3>2
      <4>2. (a + size) % size = 0
        <5>1. size \in 0..size /\ a % size = 0
          BY <1>5
        <5>2. (a + size) % size = 0 <=> size \in {0, size}
          BY <5>1, Remainder
        <5> QED BY <5>2
      <4> QED BY <1>7, <2>7, <4>1, <4>2
    <3> QED BY <3>1, <3>2
  <2>9. /\ Len(j.payload) = j.length => Finished(z, c, j, PayloadRead(p))
        /\ Len(j.payload) < j.length =>
              /\ AtRest(PayloadRead(p)) /\ SameRest(z, PayloadRead(p))
              /\ PayloadRead(p).inPackets = Updated(z.inPackets, c, j)
    <3>1. ChunkEnd(z, j)
      BY <1>5, <1>7, <2>8 DEF ChunkEnd
    <3> QED BY <1>2, <2>5, <3>1, ChunkEnds
  <2>10. k.length # 0
    BY <1>10
  <2>11. j.length = k.length
    BY <1>7
  <2> QED BY <2>6, <2>9, <2>10, <2>11 DEF Kept
<1>11. k.length = 0 \/ k.length > 0
  BY <1>5
<1> QED BY <1>9, <1>10, <1>11

(***************************************************************************)
(* Sequences of sequences, put together.                                   *)
(***************************************************************************)
Nested(ss) == IsSeq(ss) /\ \A i \in 1..Len(ss) : IsSeq(ss[i])

\* f holds the sequences that the first elements of ss make.
Flattens(f, ss, n) ==
  f = [i \in 1..n |-> IF i = 1 THEN ss[i] ELSE f[i - 1] \o ss[i]]

LEMMA FlattenUnfold ==
  ASSUME NEW ss, NEW n, n = Len(ss), n # 0
  PROVE  FlattenSeq(ss) = (CHOOSE f : Flattens(f, ss, n))[n]
BY DEF FlattenSeq, Flattens

LEMMA Flattened ==
  ASSUME NEW ss
  PROVE  \A n \in Nat : \E f : Flattens(f, ss, n)
<1> DEFINE S == {n \in Nat : \E f : Flattens(f, ss, n)}
<1>1. 0 \in S
  <2> DEFINE f == [i \in 1..0 |-> ss]
  <2>1. \A i : i \notin 1..0
    OBVIOUS
  <2>2. Flattens(f, ss, 0)
    BY <2>1 DEF Flattens
  <2> HIDE DEF f
  <2> QED BY <2>2
<1>2. ASSUME NEW n \in Nat, n \in S PROVE n + 1 \in S
  <2>1. PICK f : Flattens(f, ss, n)
    BY <1>2
  <2> DEFINE g == [i \in 1..(n + 1) |->
                     IF i = n + 1 THEN (IF i = 1 THEN ss[i] ELSE f[n] \o ss[i]) ELSE f[i]]
             body(i) == IF i = 1 THEN ss[i] ELSE g[i - 1] \o ss[i]
  <2>2. ASSUME NEW i \in 1..(n + 1) PROVE g[i] = body(i)
    <3>1. CASE i = n + 1
      <4>1. CASE n = 0
        BY <3>1, <4>1
      <4>2. CASE n # 0
        <5>1. n \in 1..(n + 1) /\ n # n + 1 /\ i # 1 /\ i - 1 = n
          BY <3>1, <4>2
        <5>2. g[n] = f[n]
          BY <5>1
        <5>3. g[i] = f[n] \o ss[i]
          BY <3>1, <5>1
        <5> HIDE DEF g
        <5> QED BY <5>1, <5>2, <5>3
      <4> QED BY <4>1, <4>2
    <3>2. CASE i # n + 1
      <4>1. i \in 1..n /\ (i # 1 => i - 1 \in 1..n /\ i - 1 # n + 1 /\ i - 1 \in 1..(n + 1))
        BY <3>2
      <4>2. f[i] = IF i = 1 THEN ss[i] ELSE f[i - 1] \o ss[i]
        BY <2>1, <4>1 DEF Flattens
      <4>3. g[i] = f[i] /\ (i # 1 => g[i - 1] = f[i - 1])
        BY <3>2, <4>1
      <4> HIDE DEF g
      <4> QED BY <4>2, <4>3
    <3> QED BY <3>1, <3>2
  <2>3. g = [i \in 1..(n + 1) |-> g[i]]
    OBVIOUS
  <2>4. g = [i \in 1..(n + 1) |-> body(i)]
    <3> HIDE DEF g, body
    <3> QED BY <2>2, <2>3
  <2>5. Flattens(g, ss, n + 1)
    <3> HIDE DEF g
    <3> QED BY <2>4 DEF Flattens
  <2> HIDE DEF g
  <2> QED BY <2>5
<1> HIDE DEF S
<1>3. Nat \subseteq S
  BY <1>1, <1>2, Climb
<1> QED BY <1>3 DEF S

\* What is put together is the last of any sequences made one from the other.
LEMMA FlattenStates ==
  ASSUME NEW ss, NEW n \in Nat, n = Len(ss), n # 0
  PROVE  \E f : /\ f[1] = ss[1] /\ \A i \in 2..n : f[i] = f[i - 1] \o ss[i]
                /\ FlattenSeq(ss) = f[n]
<1>1. PICK f : f = (CHOOSE g : Flattens(g, ss, n)) /\ FlattenSeq(ss) = f[n]
  BY FlattenUnfold
<1>2. Flattens(f, ss, n)
  BY <1>1, Flattened
<1>3. f[1] = ss[1]
  <2>1. 1 \in 1..n
    OBVIOUS
  <2> QED BY <1>2, <2>1 DEF Flattens
<1>4. ASSUME NEW i \in 2..n PROVE f[i] = f[i - 1] \o ss[i]
  <2>1. i \in 1..n /\ i # 1
    OBVIOUS
  <2> QED BY <1>2, <2>1 DEF Flattens
<1> QED BY <1>1, <1>3, <1>4

\* f puts the first n elements of ss together.
Accumulates(f, ss, n) == f[1] = ss[1] /\ \A i \in 2..n : f[i] = f[i - 1] \o ss[i]

\* Any such functions come to the same.
LEMMA FlattenOf ==
  ASSUME NEW ss, NEW n \in Nat, n = Len(ss), n # 0, NEW f, Accumulates(f, ss, n)
  PROVE  FlattenSeq(ss) = f[n]
<1>0. f[1] = ss[1] /\ \A i \in 2..n : f[i] = f[i - 1] \o ss[i]
  BY Zenon DEF Accumulates
<1>1. PICK g : /\ g[1] = ss[1] /\ \A i \in 2..n : g[i] = g[i - 1] \o ss[i]
               /\ FlattenSeq(ss) = g[n]
  BY FlattenStates
<1> DEFINE S == {i \in Nat : i + 1 <= n => f[i + 1] = g[i + 1]}
<1>2. 0 \in S
  BY <1>0, <1>1
<1>3. ASSUME NEW i \in Nat, i \in S PROVE i + 1 \in S
  <2> SUFFICES ASSUME (i + 1) + 1 <= n PROVE f[(i + 1) + 1] = g[(i + 1) + 1]
    OBVIOUS
  <2>1. f[i + 1] = g[i + 1]
    BY <1>3
  <2>2. PICK j \in 2..n : j = (i + 1) + 1 /\ j - 1 = i + 1
    OBVIOUS
  <2>3. f[j] = f[j - 1] \o ss[j] /\ g[j] = g[j - 1] \o ss[j]
    BY <1>0, <1>1
  <2> QED BY <2>1, <2>2, <2>3
<1> HIDE DEF S
<1>4. n - 1 \in S
  <2>1. n - 1 \in Nat
    OBVIOUS
  <2> QED BY <1>2, <1>3, <2>1, Climb
<1>5. f[n] = g[n]
  <2>1. (n - 1) + 1 = n
    OBVIOUS
  <2> QED BY <1>4, <2>1 DEF S
<1> QED BY <1>1, <1>5

LEMMA FlattenEmpty == FlattenSeq(<<>>) = <<>>
BY IsEmpty DEF FlattenSeq

LEMMA FlattenMore ==
  ASSUME NEW ss, Nested(ss), NEW s, IsSeq(s)
  PROVE  Nested(Append(ss, s)) /\ FlattenSeq(Append(ss, s)) = FlattenSeq(ss) \o s
<1>0. PICK n \in Nat : n = Len(ss) /\ IsSeq(ss)
  BY IsSeqLen DEF Nested
<1>1. PICK tt : n = Len(ss) /\ IsSeq(ss) /\ tt = Append(ss, s)
  BY <1>0
<1>2. /\ IsSeq(tt) /\ Len(tt) = n + 1 /\ tt[n + 1] = s
      /\ \A i \in 1..n : tt[i] = ss[i]
  <2>1. Extends(tt, ss, s)
    BY <1>1, Appended
  <2>2. QED  BY <1>1, <2>1, Zenon DEF Extends
<1>3. Nested(tt)
  <2> SUFFICES ASSUME NEW i \in 1..(n + 1) PROVE IsSeq(tt[i])
    BY <1>2 DEF Nested
  <2>1. i \in 1..n \/ i = n + 1
    OBVIOUS
  <2> QED BY <1>1, <1>2, <2>1 DEF Nested
<1>4. CASE n = 0
  <2>1. ss = <<>>
    BY <1>1, <1>4, EmptyLen
  <2>2. FlattenSeq(tt) = s
    <3>1. PICK m \in Nat : m = Len(tt) /\ m = 1 /\ m # 0
      BY <1>2, <1>4
    <3>2. PICK f : f[1] = tt[1] /\ FlattenSeq(tt) = f[m]
      <4>1. PICK f : /\ f[1] = tt[1] /\ \A i \in 2..m : f[i] = f[i - 1] \o tt[i]
                     /\ FlattenSeq(tt) = f[m]
        BY <3>1, FlattenStates
      <4> QED BY <4>1
    <3> QED BY <1>2, <1>4, <3>1, <3>2
  <2>3. FlattenSeq(ss) \o s = s
    BY <2>1, FlattenEmpty, ConcatEmpty
  <2> QED BY <1>1, <1>3, <2>2, <2>3
<1>5. CASE n # 0
  <2>1. PICK m \in Nat : m = Len(tt) /\ m = n + 1 /\ m # 0
    BY <1>2
  <2>2. PICK f : /\ f[1] = tt[1] /\ \A i \in 2..m : f[i] = f[i - 1] \o tt[i]
                 /\ FlattenSeq(tt) = f[m]
    BY <2>1, FlattenStates
  <2>3. f[1] = ss[1] /\ \A i \in 2..n : f[i] = f[i - 1] \o ss[i]
    <3>1. 1 \in 1..n /\ \A i \in 2..n : i \in 2..m /\ i \in 1..n
      BY <1>5, <2>1
    <3> QED BY <1>2, <2>2, <3>1
  <2>4. FlattenSeq(ss) = f[n]
    <3>1. Accumulates(f, ss, n)
      BY <2>3, Zenon DEF Accumulates
    <3> QED BY <1>0, <1>5, <3>1, FlattenOf
  <2>5. f[m] = f[n] \o s
    <3>1. m \in 2..m /\ m - 1 = n
      BY <1>5, <2>1
    <3> QED BY <1>2, <2>1, <2>2, <3>1
  <2> QED BY <1>1, <1>3, <2>2, <2>4, <2>5
<1> QED BY <1>4, <1>5

LEMMA FlattenOne == ASSUME NEW s, IsSeq(s) PROVE FlattenSeq(<<s>>) = s /\ Nested(<<s>>)
<1>1. Nested(<<>>) /\ Append(<<>>, s) = <<s>>
  <2>1. Append(<<>>, s) = <<>> \o <<s>> /\ <<>> \o <<s>> = <<s>>
    BY IsEmpty, IsOne, AppendIs, ConcatEmpty
  <2> QED BY <2>1, IsEmpty DEF Nested
<1>2. FlattenSeq(Append(<<>>, s)) = FlattenSeq(<<>>) \o s /\ Nested(Append(<<>>, s))
  BY <1>1, FlattenMore
<1>3. FlattenSeq(<<>>) \o s = s
  BY FlattenEmpty, ConcatEmpty
<1> QED BY <1>1, <1>2, <1>3

LEMMA FlattenSeqs ==
  ASSUME NEW ss, Nested(ss)
  PROVE  IsSeq(FlattenSeq(ss))
<1> DEFINE S == {n \in Nat : \A uu : Nested(uu) /\ Len(uu) = n => IsSeq(FlattenSeq(uu))}
<1>1. 0 \in S
  <2> SUFFICES ASSUME NEW uu, Nested(uu), Len(uu) = 0 PROVE IsSeq(FlattenSeq(uu))
    OBVIOUS
  <2>1. IsSeq(uu)
    BY DEF Nested
  <2>2. uu = <<>>
    BY <2>1, EmptyLen
  <2> QED BY <2>2, FlattenEmpty, IsEmpty
<1>2. ASSUME NEW n \in Nat, n \in S PROVE n + 1 \in S
  <2> SUFFICES ASSUME NEW uu, Nested(uu), Len(uu) = n + 1 PROVE IsSeq(FlattenSeq(uu))
    OBVIOUS
  <2>1. PICK vv, x : Nested(vv) /\ IsSeq(x) /\ uu = Append(vv, x) /\ Len(vv) = n
    <3>1. IsSeq(uu) /\ uu # <<>>
      BY EmptyLen DEF Nested
    <3>2. PICK vv, x : IsSeq(vv) /\ uu = Append(vv, x) /\ Len(vv) = Len(uu) - 1
      BY <3>1, FrontLast
    <3>3. Len(vv) = n
      BY <3>2
    <3>4. (\A i \in 1..n : uu[i] = vv[i]) /\ uu[n + 1] = x
      BY <3>2, <3>3, AppendIs
    <3>5. ASSUME NEW i \in 1..n PROVE IsSeq(vv[i])
      <4>1. i \in 1..(n + 1)
        OBVIOUS
      <4> QED BY <3>4, <4>1 DEF Nested
    <3>6. IsSeq(x)
      <4>1. n + 1 \in 1..(n + 1)
        OBVIOUS
      <4> QED BY <3>4, <4>1 DEF Nested
    <3> QED BY <3>2, <3>3, <3>5, <3>6 DEF Nested
  <2>2. IsSeq(FlattenSeq(vv))
    BY <1>2, <2>1
  <2> HIDE DEF S
  <2>3. FlattenSeq(uu) = FlattenSeq(vv) \o x
    BY <2>1, FlattenMore
  <2> QED BY <2>1, <2>2, <2>3, Concat
<1>3. PICK n \in Nat : n = Len(ss)
  BY IsSeqLen DEF Nested
<1> HIDE DEF S
<1>4. n \in S
  BY <1>1, <1>2, Climb
<1> QED BY <1>3, <1>4 DEF S

LEMMA FlattenConcat ==
  ASSUME NEW ss, Nested(ss), NEW tt, Nested(tt)
  PROVE  Nested(ss \o tt) /\ FlattenSeq(ss \o tt) = FlattenSeq(ss) \o FlattenSeq(tt)
<1> DEFINE Good(uu) == /\ Nested(ss \o uu)
                       /\ FlattenSeq(ss \o uu) = FlattenSeq(ss) \o FlattenSeq(uu)
           S == {n \in Nat : \A uu : Nested(uu) /\ Len(uu) = n => Good(uu)}
<1>0. IsSeq(ss) /\ IsSeq(FlattenSeq(ss))
  BY FlattenSeqs DEF Nested
<1>1. 0 \in S
  <2> SUFFICES ASSUME NEW uu, Nested(uu), Len(uu) = 0 PROVE Good(uu)
    OBVIOUS
  <2>1. IsSeq(uu)
    BY DEF Nested
  <2>2. uu = <<>>
    BY <2>1, EmptyLen
  <2>3. ss \o uu = ss /\ FlattenSeq(uu) = <<>>
    BY <1>0, <2>2, ConcatEmpty, FlattenEmpty
  <2>4. FlattenSeq(ss) \o FlattenSeq(uu) = FlattenSeq(ss)
    BY <1>0, <2>3, ConcatEmpty
  <2> QED BY <2>3, <2>4
<1>2. ASSUME NEW n \in Nat, n \in S PROVE n + 1 \in S
  <2> SUFFICES ASSUME NEW uu, Nested(uu), Len(uu) = n + 1 PROVE Good(uu)
    OBVIOUS
  <2>1. PICK vv, x : Nested(vv) /\ IsSeq(x) /\ uu = Append(vv, x) /\ Len(vv) = n
    <3>1. IsSeq(uu) /\ uu # <<>>
      BY EmptyLen DEF Nested
    <3>2. PICK vv, x : IsSeq(vv) /\ uu = Append(vv, x) /\ Len(vv) = Len(uu) - 1
      BY <3>1, FrontLast
    <3>3. Len(vv) = n
      BY <3>2
    <3>4. (\A i \in 1..n : uu[i] = vv[i]) /\ uu[n + 1] = x
      BY <3>2, <3>3, AppendIs
    <3>5. ASSUME NEW i \in 1..n PROVE IsSeq(vv[i])
      <4>1. i \in 1..(n + 1)
        OBVIOUS
      <4> QED BY <3>4, <4>1 DEF Nested
    <3>6. IsSeq(x)
      <4>1. n + 1 \in 1..(n + 1)
        OBVIOUS
      <4> QED BY <3>4, <4>1 DEF Nested
    <3> QED BY <3>2, <3>3, <3>5, <3>6 DEF Nested
  <2>2. Good(vv)
    BY <1>2, <2>1
  <2> HIDE DEF S
  <2>3. FlattenSeq(uu) = FlattenSeq(vv) \o x
    <3> HIDE DEF Good
    <3> QED BY <2>1, FlattenMore
  <2>4. ss \o uu = Append(ss \o vv, x)
    <3>1. IsSeq(ss) /\ IsSeq(vv)
      BY <1>0, <2>1 DEF Nested
    <3>2. ss \o Append(vv, x) = Append(ss \o vv, x)
      <4> HIDE DEF Good
      <4> QED BY <3>1, AppendConcat
    <3> HIDE DEF Good
    <3> QED BY <2>1, <3>2
  <2>5. PICK ww : ww = ss \o vv /\ Nested(ww) /\ FlattenSeq(ww) = FlattenSeq(ss) \o FlattenSeq(vv)
    BY <2>2
  <2>6. Nested(Append(ww, x)) /\ FlattenSeq(Append(ww, x)) = FlattenSeq(ww) \o x
    <3> HIDE DEF Good
    <3> QED BY <2>1, <2>5, FlattenMore
  <2>7. (FlattenSeq(ss) \o FlattenSeq(vv)) \o x = FlattenSeq(ss) \o (FlattenSeq(vv) \o x)
    <3>1. PICK a, b : a = FlattenSeq(ss) /\ b = FlattenSeq(vv) /\ IsSeq(a) /\ IsSeq(b)
      BY <1>0, <2>1, FlattenSeqs
    <3>2. (a \o b) \o x = a \o (b \o x)
      <4> HIDE DEF Good
      <4> QED BY <2>1, <3>1, Associative
    <3> HIDE DEF Good
    <3> QED BY <3>1, <3>2
  <2> QED BY <2>3, <2>4, <2>5, <2>6, <2>7
<1>3. PICK n \in Nat : n = Len(tt)
  BY IsSeqLen DEF Nested
<1> HIDE DEF S
<1>4. n \in S
  <2> HIDE DEF Good
  <2> QED BY <1>1, <1>2, Climb
<1>5. Good(tt)
  <2> HIDE DEF Good
  <2> QED BY <1>3, <1>4 DEF S
<1> QED BY <1>5

(***************************************************************************)
(* Folds over a sequence: of the handlers of both ends, of the parts of a   *)
(* handshake, of the values of a command.                                  *)
(***************************************************************************)
Step(k, s, x) ==
  CASE k = "client"    -> ClientHandler(s, x)
    [] k = "server"    -> ServerHandler(s, x)
    [] k = "signature" -> TakeSignature(s, x)
    [] k = "data"      -> ParserData(s, x)
    [] OTHER           -> NextValue(s, x)

LEMMA Kinds ==
  /\ "server" # "client" /\ "signature" # "client" /\ "data" # "client"
  /\ "signature" # "server" /\ "data" # "server" /\ "data" # "signature"
  /\ "value" # "client" /\ "value" # "server" /\ "value" # "signature" /\ "value" # "data"
OBVIOUS

LEMMA MaxOf ==
  ASSUME NEW S, NEW m \in S, S \subseteq Int, \A y \in S : m >= y
  PROVE  Max(S) = m
<1>1. \A x \in S : (\A y \in S : x >= y) <=> x = m
  OBVIOUS
<1>2. Max(S) \in S /\ \A y \in S : Max(S) >= y
  BY <1>1, Zenon DEF Max
<1> QED BY <1>1, <1>2

\* What FoldLeft does with the places in s, for each set s of places.
Recursion(k, f, start, xs, n) ==
  f = [s \in SUBSET (1..n) |->
        IF s = {} THEN start ELSE Step(k, f[s \ {Max(s)}], xs[Max(s)])]

LEMMA Largest ==
  ASSUME NEW i \in Nat, NEW s \in SUBSET (1..(i + 1))
  PROVE /\ i + 1 \in s => Max(s) = i + 1 /\ s \ {Max(s)} \in SUBSET (1..i)
        /\ i + 1 \notin s => s \in SUBSET (1..i)
<1>1. ASSUME i + 1 \in s PROVE Max(s) = i + 1
  <2>1. s \subseteq Int /\ \A y \in s : i + 1 >= y
    OBVIOUS
  <2> QED BY <1>1, <2>1, MaxOf
<1>2. \A x \in 1..(i+1) : x # i + 1 => x \in 1..i
  OBVIOUS
<1> QED BY <1>1, <1>2

LEMMA Recursive ==
  ASSUME NEW k, NEW start, NEW xs
  PROVE  \A n \in Nat : \E f : Recursion(k, f, start, xs, n)
<1> DEFINE S == {n \in Nat : \E f : Recursion(k, f, start, xs, n)}
<1>1. 0 \in S
  <2> DEFINE f == [s \in SUBSET (1..0) |-> start]
  <2>1. \A s \in SUBSET (1..0) : s = {}
    OBVIOUS
  <2>2. Recursion(k, f, start, xs, 0)
    BY <2>1 DEF Recursion
  <2> QED BY <2>2
<1>2. ASSUME NEW i \in Nat, i \in S PROVE i + 1 \in S
  <2>1. PICK f : Recursion(k, f, start, xs, i)
    BY <1>2
  <2> DEFINE g == [s \in SUBSET (1..(i + 1)) |->
                     IF i + 1 \in s THEN Step(k, f[s \ {i + 1}], xs[i + 1])
                     ELSE f[s]]
             body(s) == IF s = {} THEN start
                        ELSE Step(k, g[s \ {Max(s)}], xs[Max(s)])
  <2>2. ASSUME NEW s \in SUBSET (1..i) PROVE g[s] = f[s] /\ s \in SUBSET (1..(i + 1))
    <3>1. i + 1 \notin s /\ s \in SUBSET (1..(i + 1))
      OBVIOUS
    <3> QED BY <3>1
  <2>3. ASSUME NEW s \in SUBSET (1..(i + 1)) PROVE g[s] = body(s)
    <3>1. CASE i + 1 \in s
      <4>1. Max(s) = i + 1 /\ s \ {i + 1} \in SUBSET (1..i) /\ s # {}
        BY <3>1, Largest
      <4>2. g[s \ {i + 1}] = f[s \ {i + 1}]
        BY <2>2, <4>1
      <4>3. g[s] = Step(k, f[s \ {i + 1}], xs[i + 1])
        BY <3>1
      <4> HIDE DEF g
      <4> QED BY <4>1, <4>2, <4>3
    <3>2. CASE i + 1 \notin s
      <4>1. s \in SUBSET (1..i)
        BY <3>2, Largest
      <4>2. g[s] = f[s]
        BY <2>2, <4>1
      <4>3. f[s] = IF s = {} THEN start ELSE Step(k, f[s \ {Max(s)}], xs[Max(s)])
        BY <2>1, <4>1 DEF Recursion
      <4>4. g[s \ {Max(s)}] = f[s \ {Max(s)}]
        <5>1. s \ {Max(s)} \in SUBSET (1..i)
          BY <4>1
        <5> QED BY <2>2, <5>1
      <4> HIDE DEF g
      <4> QED BY <4>2, <4>3, <4>4
    <3> QED BY <3>1, <3>2
  <2>4. g = [s \in SUBSET (1..(i + 1)) |-> g[s]]
    OBVIOUS
  <2>5. g = [s \in SUBSET (1..(i + 1)) |-> body(s)]
    <3> HIDE DEF g, body
    <3> QED BY <2>3, <2>4
  <2>6. Recursion(k, g, start, xs, i + 1)
    <3> HIDE DEF g
    <3> QED BY <2>5 DEF Recursion
  <2> HIDE DEF g
  <2> QED BY <2>6
<1> HIDE DEF S
<1>3. Nat \subseteq S
  BY <1>1, <1>2, Climb
<1> QED BY <1>3 DEF S

\* A fold of one of these operators, element by element.
Folded(k, start, xs, n, r) == \E f : f = (CHOOSE g : Recursion(k, g, start, xs, n)) /\ r = f[1..n]

ByRounds(k, start, xs, n, r) ==
  \E g : /\ g[0] = start
         /\ \A i \in 1..n : g[i] = Step(k, g[i - 1], xs[i])
         /\ r = g[n]

LEMMA Rounds ==
  ASSUME NEW k, NEW start, NEW xs, NEW n \in Nat, NEW r, Folded(k, start, xs, n, r)
  PROVE  ByRounds(k, start, xs, n, r)
<1>1. PICK f : f = (CHOOSE g : Recursion(k, g, start, xs, n)) /\ r = f[1..n]
  BY DEF Folded
<1>2. Recursion(k, f, start, xs, n)
  BY <1>1, Recursive
<1> DEFINE g == [i \in 0..n |-> f[1..i]]
<1>3. g[0] = start
  <2>1. 1..0 \in SUBSET (1..n) /\ 1..0 = {}
    OBVIOUS
  <2>2. f[1..0] = start
    BY <1>2, <2>1 DEF Recursion
  <2> QED BY <2>2
<1>4. ASSUME NEW i \in 1..n PROVE g[i] = Step(k, g[i - 1], xs[i])
  <2>1. 1..i \in SUBSET (1..n) /\ 1..i # {} /\ i - 1 \in 0..n /\ i \in 0..n
    <3>1. i \in 1..i /\ i - 1 \in 0..n /\ i \in 0..n
      OBVIOUS
    <3>2. \A j \in 1..i : j \in 1..n
      OBVIOUS
    <3> QED BY <3>1, <3>2
  <2>2. Max(1..i) = i
    <3>1. i \in 1..i /\ 1..i \subseteq Int /\ \A y \in 1..i : i >= y
      OBVIOUS
    <3> QED BY <3>1, MaxOf
  <2>3. (1..i) \ {i} = 1..(i - 1)
    <3>1. \A j \in Int : j \in (1..i) \ {i} <=> j \in 1..(i - 1)
      OBVIOUS
    <3>2. (1..i) \ {i} \subseteq Int /\ 1..(i - 1) \subseteq Int
      OBVIOUS
    <3> QED BY <3>1, <3>2
  <2>4. f[1..i] = Step(k, f[1..(i - 1)], xs[i])
    BY <1>2, <2>1, <2>2, <2>3 DEF Recursion
  <2> QED BY <2>1, <2>4
<1>5. r = g[n]
  BY <1>1
<1> HIDE DEF g
<1> QED BY <1>3, <1>4, <1>5 DEF ByRounds

\* The folds of the model.
ClientAll(start, xs) == FoldLeft(ClientHandler, start, xs)
ServerAll(start, xs) == FoldLeft(ServerHandler, start, xs)
SignatureAll(start, xs) == FoldLeft(TakeSignature, start, xs)
DataAll(start, xs) == FoldLeft(ParserData, start, xs)
ValueAll(start, xs) == FoldLeft(NextValue, start, xs)

LEMMA ClientFold ==
  ASSUME NEW start, NEW xs, IsSeq(xs)
  PROVE  \E g : /\ g[0] = start
                /\ \A i \in 1..Len(xs) : g[i] = ClientHandler(g[i - 1], xs[i])
                /\ ClientAll(start, xs) = g[Len(xs)]
<1>1. PICK n \in Nat : n = Len(xs) /\ DOMAIN xs = 1..n
  BY IsSeqLen
<1>2. PICK r : r = ClientAll(start, xs)
  OBVIOUS
<1>3. Folded("client", start, xs, n, r)
  BY <1>1, <1>2, Kinds, Zenon DEF ClientAll, Folded, FoldLeft, MapThenFoldSet, Recursion, Step
<1>4. ByRounds("client", start, xs, n, r)
  BY <1>1, <1>3, Rounds
<1>5. PICK g : /\ g[0] = start
               /\ \A i \in 1..n : g[i] = Step("client", g[i - 1], xs[i])
               /\ r = g[n]
  BY <1>4 DEF ByRounds
<1>6. \A s, x : Step("client", s, x) = ClientHandler(s, x)
  BY DEF Step
<1> QED BY <1>1, <1>2, <1>5, <1>6

LEMMA ServerFold ==
  ASSUME NEW start, NEW xs, IsSeq(xs)
  PROVE  \E g : /\ g[0] = start
                /\ \A i \in 1..Len(xs) : g[i] = ServerHandler(g[i - 1], xs[i])
                /\ ServerAll(start, xs) = g[Len(xs)]
<1>1. PICK n \in Nat : n = Len(xs) /\ DOMAIN xs = 1..n
  BY IsSeqLen
<1>2. PICK r : r = ServerAll(start, xs)
  OBVIOUS
<1>3. Folded("server", start, xs, n, r)
  BY <1>1, <1>2, Kinds, Zenon DEF ServerAll, Folded, FoldLeft, MapThenFoldSet, Recursion, Step
<1>4. ByRounds("server", start, xs, n, r)
  BY <1>1, <1>3, Rounds
<1>5. PICK g : /\ g[0] = start
               /\ \A i \in 1..n : g[i] = Step("server", g[i - 1], xs[i])
               /\ r = g[n]
  BY <1>4 DEF ByRounds
<1>6. \A s, x : Step("server", s, x) = ServerHandler(s, x)
  BY DEF Step
<1> QED BY <1>1, <1>2, <1>5, <1>6

LEMMA SignatureFold ==
  ASSUME NEW start, NEW xs, IsSeq(xs)
  PROVE  \E g : /\ g[0] = start
                /\ \A i \in 1..Len(xs) : g[i] = TakeSignature(g[i - 1], xs[i])
                /\ SignatureAll(start, xs) = g[Len(xs)]
<1>1. PICK n \in Nat : n = Len(xs) /\ DOMAIN xs = 1..n
  BY IsSeqLen
<1>2. PICK r : r = SignatureAll(start, xs)
  OBVIOUS
<1>3. Folded("signature", start, xs, n, r)
  BY <1>1, <1>2, Kinds, Zenon DEF SignatureAll, Folded, FoldLeft, MapThenFoldSet, Recursion, Step
<1>4. ByRounds("signature", start, xs, n, r)
  BY <1>1, <1>3, Rounds
<1>5. PICK g : /\ g[0] = start
               /\ \A i \in 1..n : g[i] = Step("signature", g[i - 1], xs[i])
               /\ r = g[n]
  BY <1>4 DEF ByRounds
<1>6. \A s, x : Step("signature", s, x) = TakeSignature(s, x)
  BY DEF Step
<1> QED BY <1>1, <1>2, <1>5, <1>6

LEMMA DataFold ==
  ASSUME NEW start, NEW xs, IsSeq(xs)
  PROVE  \E g : /\ g[0] = start
                /\ \A i \in 1..Len(xs) : g[i] = ParserData(g[i - 1], xs[i])
                /\ DataAll(start, xs) = g[Len(xs)]
<1>1. PICK n \in Nat : n = Len(xs) /\ DOMAIN xs = 1..n
  BY IsSeqLen
<1>2. PICK r : r = DataAll(start, xs)
  OBVIOUS
<1>3. Folded("data", start, xs, n, r)
  BY <1>1, <1>2, Kinds, Zenon DEF DataAll, Folded, FoldLeft, MapThenFoldSet, Recursion, Step
<1>4. ByRounds("data", start, xs, n, r)
  BY <1>1, <1>3, Rounds
<1>5. PICK g : /\ g[0] = start
               /\ \A i \in 1..n : g[i] = Step("data", g[i - 1], xs[i])
               /\ r = g[n]
  BY <1>4 DEF ByRounds
<1>6. \A s, x : Step("data", s, x) = ParserData(s, x)
  BY DEF Step
<1> QED BY <1>1, <1>2, <1>5, <1>6

LEMMA ValueFold ==
  ASSUME NEW start, NEW xs, IsSeq(xs)
  PROVE  \E g : /\ g[0] = start
                /\ \A i \in 1..Len(xs) : g[i] = NextValue(g[i - 1], xs[i])
                /\ ValueAll(start, xs) = g[Len(xs)]
<1>1. PICK n \in Nat : n = Len(xs) /\ DOMAIN xs = 1..n
  BY IsSeqLen
<1>2. PICK r : r = ValueAll(start, xs)
  OBVIOUS
<1>3. Folded("value", start, xs, n, r)
  BY <1>1, <1>2, Kinds, Zenon DEF ValueAll, Folded, FoldLeft, MapThenFoldSet, Recursion, Step
<1>4. ByRounds("value", start, xs, n, r)
  BY <1>1, <1>3, Rounds
<1>5. PICK g : /\ g[0] = start
               /\ \A i \in 1..n : g[i] = Step("value", g[i - 1], xs[i])
               /\ r = g[n]
  BY <1>4 DEF ByRounds
<1>6. \A s, x : Step("value", s, x) = NextValue(s, x)
  BY DEF Step
<1> QED BY <1>1, <1>2, <1>5, <1>6

(***************************************************************************)
(* AMF values are written as cells of a payload.                           *)
(***************************************************************************)
Cells(s) == IsSeq(s) /\ \A i \in 1..Len(s) : IsPayload(s[i])

LEMMA NoCells == Cells(<<>>)
<1>1. PICK s : s = <<>> /\ IsSeq(s) /\ Len(s) = 0
  BY IsEmpty
<1>2. \A i \in 1..0 : IsPayload(s[i])
  OBVIOUS
<1> QED BY <1>1, <1>2 DEF Cells

LEMMA OneCell == ASSUME NEW x, IsPayload(x) PROVE Cells(<<x>>)
<1>1. PICK s : s = <<x>> /\ IsSeq(s) /\ Len(s) = 1 /\ s[1] = x
  BY IsOne
<1>2. \A i \in 1..1 : IsPayload(s[i])
  BY <1>1
<1> QED BY <1>1, <1>2 DEF Cells

LEMMA MoreCells == ASSUME NEW s, NEW t, Cells(s), Cells(t) PROVE Cells(s \o t)
<1>1. IsSeq(s) /\ IsSeq(t)
  BY DEF Cells
<1>2. PICK u : u = s \o t
  OBVIOUS
<1>3. /\ IsSeq(u) /\ Len(u) = Len(s) + Len(t)
      /\ \A i \in 1..Len(s) : u[i] = s[i]
      /\ \A i \in 1..Len(t) : u[Len(s) + i] = t[i]
  BY <1>1, <1>2, Concat
<1>4. Len(s) \in Nat /\ Len(t) \in Nat
  BY <1>1, IsSeqLen
<1>5. ASSUME NEW i \in 1..Len(u) PROVE IsPayload(u[i])
  <2>1. CASE i <= Len(s)
    <3>1. i \in 1..Len(s)
      BY <1>3, <1>4, <2>1
    <3> QED BY <1>3, <3>1 DEF Cells
  <2>2. CASE i > Len(s)
    <3>1. PICK j \in 1..Len(t) : i = Len(s) + j
      <4>1. i - Len(s) \in 1..Len(t) /\ i = Len(s) + (i - Len(s))
        BY <1>3, <1>4, <2>2
      <4> QED BY <4>1
    <3> QED BY <1>3, <3>1 DEF Cells
  <2> QED BY <1>3, <1>4, <2>1, <2>2
<1> QED BY <1>2, <1>3, <1>5 DEF Cells

LEMMA AllCells ==
  ASSUME NEW ss, IsSeq(ss), \A i \in 1..Len(ss) : Cells(ss[i])
  PROVE  Nested(ss) /\ Cells(FlattenSeq(ss))
<1> DEFINE Fine(uu) == IsSeq(uu) /\ \A i \in 1..Len(uu) : Cells(uu[i])
           Good(uu) == Nested(uu) /\ Cells(FlattenSeq(uu))
           S == {n \in Nat : \A uu : Fine(uu) /\ Len(uu) = n => Good(uu)}
<1>0. \A uu : Fine(uu) => Nested(uu)
  BY DEF Nested, Cells
<1>1. 0 \in S
  <2> SUFFICES ASSUME NEW uu, Fine(uu), Len(uu) = 0 PROVE Good(uu)
    OBVIOUS
  <2>1. uu = <<>>
    BY EmptyLen
  <2>2. Cells(FlattenSeq(uu))
    BY <2>1, FlattenEmpty, NoCells
  <2> QED BY <1>0, <2>2
<1>2. ASSUME NEW n \in Nat, n \in S PROVE n + 1 \in S
  <2> SUFFICES ASSUME NEW uu, Fine(uu), Len(uu) = n + 1 PROVE Good(uu)
    OBVIOUS
  <2>1. IsSeq(uu) /\ uu # <<>>
    BY EmptyLen
  <2>2. PICK vv, x : IsSeq(vv) /\ uu = Append(vv, x) /\ Len(vv) = Len(uu) - 1
    BY <2>1, FrontLast
  <2>3. Len(vv) = n
    BY <2>2
  <2>4. (\A i \in 1..Len(vv) : Append(vv, x)[i] = vv[i]) /\ Append(vv, x)[Len(vv) + 1] = x
    BY <2>2, AppendIs
  <2>5. (\A i \in 1..n : uu[i] = vv[i]) /\ uu[n + 1] = x
    BY <2>2, <2>3, <2>4
  <2>6. ASSUME NEW i \in 1..n PROVE Cells(vv[i])
    <3>1. i \in 1..(n + 1)
      OBVIOUS
    <3>2. Cells(uu[i])
      BY <3>1
    <3> QED BY <2>5, <3>2
  <2>7. Fine(vv)
    BY <2>2, <2>3, <2>6
  <2>8. Cells(x)
    <3>1. n + 1 \in 1..(n + 1)
      OBVIOUS
    <3>2. Cells(uu[n + 1])
      BY <3>1
    <3> QED BY <2>5, <3>2
  <2>9. Good(vv)
    BY <1>2, <2>3, <2>7
  <2> HIDE DEF Fine, S
  <2>10. Nested(vv) /\ IsSeq(x)
    BY <2>8, <2>9 DEF Cells
  <2>11. Nested(Append(vv, x)) /\ FlattenSeq(Append(vv, x)) = FlattenSeq(vv) \o x
    BY <2>10, FlattenMore
  <2>12. Cells(FlattenSeq(vv) \o x)
    <3>1. Cells(FlattenSeq(vv))
      BY <2>9
    <3> QED BY <2>8, <3>1, MoreCells
  <2> QED BY <2>2, <2>11, <2>12
<1>3. PICK n \in Nat : n = Len(ss)
  BY IsSeqLen
<1>4. Fine(ss)
  OBVIOUS
<1> HIDE DEF S
<1>5. n \in S
  <2> HIDE DEF Good, Fine
  <2> QED BY <1>1, <1>2, Climb
<1>6. Good(ss)
  <2> HIDE DEF Good, Fine
  <2> QED BY <1>3, <1>4, <1>5 DEF S
<1> QED BY <1>6

LEMMA IsSequences == ASSUME NEW s PROVE IsSequence(s) <=> IsSeq(s)
<1>1. Range(s) = {s[i] : i \in DOMAIN s}
  BY DEF Range
<1> QED BY <1>1 DEF IsSequence, IsSeq

\* The cells that values are written as.
LEMMA ValueCells ==
  ASSUME NEW x
  PROVE  /\ IsPayload([marker |-> x]) /\ IsPayload([length |-> x])
         /\ IsPayload([byte |-> x]) /\ IsPayload([double |-> x])
         /\ IsPayload([bool |-> x]) /\ IsPayload([count |-> x])
         /\ IsPayload([zone |-> x]) /\ IsPayload([size |-> x])
         /\ IsPayload([event |-> x]) /\ IsPayload([media |-> x])
BY DEF IsPayload

LEMMA BytesIs == ASSUME NEW t PROVE Bytes(t) \in 0..2 /\ Chars(t) \in 0..1
BY DEF Bytes, Chars

LEMMA LettersSeq ==
  ASSUME NEW t
  PROVE  Cells(Letters(t)) /\ Len(Letters(t)) = Bytes(t)
<1>1. Bytes(t) \in 0..2
  BY BytesIs
<1>2. PICK n : n = Bytes(t)
  OBVIOUS
<1>3. PICK s : s = Letters(t)
  OBVIOUS
<1>4. DOMAIN s = 1..n /\ s = [i \in 1..n |-> s[i]] /\ \A i \in 1..n : s[i] = [byte |-> t]
  BY <1>2, <1>3 DEF Letters
<1>5. n \in Nat
  BY <1>1, <1>2
<1>6. IsSeq(s) /\ Len(s) = n
  BY <1>4, <1>5, IsSeqFcn
<1>7. IsPayload([byte |-> t])
  BY ValueCells
<1> QED BY <1>2, <1>3, <1>4, <1>6, <1>7 DEF Cells

LEMMA TextSeq ==
  ASSUME NEW t
  PROVE  Cells(Text(t)) /\ Cells(UString(t))
<1>1. PICK l : l = Letters(t)
  OBVIOUS
<1>2. Cells(l)
  BY <1>1, LettersSeq
<1>3. ASSUME NEW x PROVE Cells(<<[length |-> x]>> \o l)
  <2>1. Cells(<<[length |-> x]>>)
    BY OneCell, ValueCells
  <2> QED BY <1>2, <2>1, MoreCells
<1> QED BY <1>1, <1>3 DEF Text, UString

\* The writer of the values within a value, by how deep they are.
PartAt(n, v) == CASE n = 0 -> <<>> [] n = 1 -> EncodeLeaf(v) [] OTHER -> EncodeInner(v)
EncodeAt(n, v) == Encode(v, LAMBDA part : PartAt(n, part))
PropsAt(n, props) == Props(props, LAMBDA part : PartAt(n, part))

LEMMA EncodeLevels ==
  ASSUME NEW v
  PROVE  /\ EncodeLeaf(v) = EncodeAt(0, v) /\ EncodeInner(v) = EncodeAt(1, v)
         /\ EncodeOne(v) = EncodeAt(2, v)
<1>0. 0 # 1 /\ 2 # 0 /\ 2 # 1
  OBVIOUS
<1>1. EncodeLeaf(v) = EncodeAt(0, v)
  BY <1>0, Zenon DEF EncodeLeaf, EncodeAt, PartAt, Encode, Props
<1>2. EncodeInner(v) = EncodeAt(1, v)
  BY <1>0, Zenon DEF EncodeInner, EncodeAt, PartAt, Encode, Props
<1>3. EncodeOne(v) = EncodeAt(2, v)
  BY <1>0, Zenon DEF EncodeOne, EncodeAt, PartAt, Encode, Props
<1> QED BY <1>1, <1>2, <1>3

\* How deep the values within a value may still be.
Shaped(n, v) == CASE n = 0 -> TRUE [] n = 1 -> IsLeaf(v) [] OTHER -> IsInner(v)
ShapedAt(n, v) == HasShape(v, LAMBDA part : Shaped(n, part))

LEMMA ShapeLevels ==
  ASSUME NEW v
  PROVE  /\ IsLeaf(v) <=> ShapedAt(0, v)
         /\ IsInner(v) <=> ShapedAt(1, v)
         /\ IsValue(v) <=> ShapedAt(2, v)
<1>0. 0 # 1 /\ 2 # 0 /\ 2 # 1
  OBVIOUS
<1>1. IsLeaf(v) <=> ShapedAt(0, v)
  BY <1>0, Zenon DEF IsLeaf, ShapedAt, Shaped, HasShape
<1>2. IsInner(v) <=> ShapedAt(1, v)
  BY <1>0, Zenon DEF IsInner, ShapedAt, Shaped, HasShape
<1>3. IsValue(v) <=> ShapedAt(2, v)
  BY <1>0, Zenon DEF IsValue, ShapedAt, Shaped, HasShape
<1> QED BY <1>1, <1>2, <1>3

LEMMA PropsCells ==
  ASSUME NEW n, NEW props, IsSeq(props), \A i \in 1..Len(props) : Cells(PartAt(n, props[i][2]))
  PROVE  Cells(PropsAt(n, props))
<1>1. PICK m \in Nat : m = Len(props) /\ DOMAIN props = 1..m
  BY IsSeqLen
<1>2. PICK ss : ss = [i \in DOMAIN props |-> UString(props[i][1]) \o PartAt(n, props[i][2])]
  OBVIOUS
<1>3. DOMAIN ss = 1..m /\ ss = [i \in 1..m |-> ss[i]]
      /\ \A i \in 1..m : ss[i] = UString(props[i][1]) \o PartAt(n, props[i][2])
  BY <1>1, <1>2
<1>4. IsSeq(ss) /\ Len(ss) = m
  BY <1>3, IsSeqFcn
<1>5. ASSUME NEW i \in 1..m PROVE Cells(ss[i])
  <2>1. Cells(UString(props[i][1]))
    BY TextSeq
  <2>2. Cells(PartAt(n, props[i][2]))
    BY <1>1
  <2>3. Cells(UString(props[i][1]) \o PartAt(n, props[i][2]))
    BY <2>1, <2>2, MoreCells
  <2> QED BY <1>3, <2>3
<1>6. PICK f : f = FlattenSeq(ss)
  OBVIOUS
<1>7. Cells(f)
  BY <1>4, <1>5, <1>6, AllCells
<1>8. PICK a : a = UString("")
  OBVIOUS
<1>9. PICK b : b = Marker("objectEnd")
  OBVIOUS
<1>10. Cells(a)
  BY <1>8, TextSeq
<1>11. Cells(b)
  BY <1>9, OneCell, ValueCells DEF Marker
<1>12. Cells(f \o a)
  BY <1>7, <1>10, MoreCells
<1>13. Cells((f \o a) \o b)
  BY <1>11, <1>12, MoreCells
<1>14. PropsAt(n, props) = (f \o a) \o b
  BY <1>2, <1>6, <1>8, <1>9, Zenon DEF PropsAt, Props
<1> QED BY <1>13, <1>14

LEMMA EncodeAtCells ==
  ASSUME NEW n \in {0, 1, 2}, NEW v, ShapedAt(n, v),
         \A w : Shaped(n, w) => Cells(PartAt(n, w))
  PROVE  Cells(EncodeAt(n, v)) /\ EncodeAt(n, v) # <<>>
<1> DEFINE body == CASE v.type = "number"  -> <<[double |-> v.number]>>
      [] v.type = "boolean" -> <<[bool |-> v.bool]>>
      [] v.type \in {"string", "xml", "longstring"} -> Text(v.text)
      [] v.type = "object"  -> PropsAt(n, v.props)
      [] v.type = "array"   -> <<[count |-> Len(v.props)]>> \o PropsAt(n, v.props)
      [] v.type = "sarray"  ->
           <<[count |-> Len(v.items)]>>
             \o FlattenSeq([i \in DOMAIN v.items |-> PartAt(n, v.items[i])])
      [] v.type = "date"    -> <<[zone |-> 0], [double |-> v.number]>>
      [] v.type = "typed"   -> Text(v.class) \o PropsAt(n, v.props)
      [] OTHER              -> <<>>
<1>1. EncodeAt(n, v) = Marker(v.type) \o body
  BY Zenon DEF EncodeAt, Encode, PropsAt, Props
<1>2. v.type \in {"object", "array", "typed"} =>
        Cells(PropsAt(n, v.props)) /\ Cells(<<[count |-> Len(v.props)]>> \o PropsAt(n, v.props))
        /\ Cells(Text(v.class) \o PropsAt(n, v.props))
  <2> SUFFICES ASSUME v.type \in {"object", "array", "typed"}
               PROVE  Cells(PropsAt(n, v.props)) /\ Cells(<<[count |-> Len(v.props)]>> \o PropsAt(n, v.props))
                      /\ Cells(Text(v.class) \o PropsAt(n, v.props))
    OBVIOUS
  <2>1. IsSequence(v.props) /\ \A i \in DOMAIN v.props : Shaped(n, v.props[i][2])
    BY DEF ShapedAt, HasShape
  <2>2. PICK props : props = v.props
    OBVIOUS
  <2>3. IsSeq(props)
    BY <2>1, <2>2, IsSequences
  <2>4. DOMAIN props = 1..Len(props)
    BY <2>3, IsSeqLen
  <2>5. \A i \in 1..Len(props) : Cells(PartAt(n, props[i][2]))
    BY <2>1, <2>2, <2>4
  <2>6. Cells(PropsAt(n, props))
    BY <2>3, <2>5, PropsCells
  <2>7. Cells(<<[count |-> Len(v.props)]>>)
    BY OneCell, ValueCells
  <2>8. Cells(Text(v.class))
    BY TextSeq
  <2>9. Cells(<<[count |-> Len(v.props)]>> \o PropsAt(n, props))
    BY <2>6, <2>7, MoreCells
  <2>10. Cells(Text(v.class) \o PropsAt(n, props))
    BY <2>6, <2>8, MoreCells
  <2> QED BY <2>2, <2>6, <2>9, <2>10
<1>3. v.type = "sarray" =>
        Cells(<<[count |-> Len(v.items)]>> \o FlattenSeq([i \in DOMAIN v.items |-> PartAt(n, v.items[i])]))
  <2> SUFFICES ASSUME v.type = "sarray"
               PROVE  Cells(<<[count |-> Len(v.items)]>>
                              \o FlattenSeq([i \in DOMAIN v.items |-> PartAt(n, v.items[i])]))
    OBVIOUS
  <2>1. IsSequence(v.items) /\ \A i \in DOMAIN v.items : Shaped(n, v.items[i])
    BY DEF ShapedAt, HasShape
  <2>2. PICK items : items = v.items
    OBVIOUS
  <2>3. IsSeq(items)
    BY <2>1, <2>2, IsSequences
  <2>4. PICK m \in Nat : m = Len(items) /\ DOMAIN items = 1..m
    BY <2>3, IsSeqLen
  <2>5. PICK ss : ss = [i \in DOMAIN items |-> PartAt(n, items[i])]
    OBVIOUS
  <2>6. DOMAIN ss = 1..m /\ ss = [i \in 1..m |-> ss[i]]
        /\ \A i \in 1..m : ss[i] = PartAt(n, items[i])
    BY <2>4, <2>5
  <2>7. IsSeq(ss) /\ Len(ss) = m
    BY <2>6, IsSeqFcn
  <2>8. \A i \in 1..m : Cells(ss[i])
    BY <2>1, <2>2, <2>4, <2>6
  <2>9. Cells(FlattenSeq(ss))
    BY <2>7, <2>8, AllCells
  <2>10. Cells(<<[count |-> Len(v.items)]>>)
    BY OneCell, ValueCells
  <2>11. Cells(<<[count |-> Len(v.items)]>> \o FlattenSeq(ss))
    BY <2>9, <2>10, MoreCells
  <2> QED BY <2>2, <2>5, <2>11
<1>4. Cells(<<[double |-> v.number]>>) /\ Cells(<<[bool |-> v.bool]>>) /\ Cells(Text(v.text))
      /\ Cells(<<>>)
  BY OneCell, ValueCells, TextSeq, NoCells
<1>5. Cells(<<[zone |-> 0], [double |-> v.number]>>)
  <2>1. PICK x, y : x = [zone |-> 0] /\ y = [double |-> v.number]
    OBVIOUS
  <2>2. IsPayload(x) /\ IsPayload(y)
    BY <2>1, ValueCells
  <2>6. PICK s : s = <<x, y>>
    OBVIOUS
  <2>3. IsSeq(s) /\ Len(s) = 2 /\ s[1] = x /\ s[2] = y
    BY <2>6, IsTwo
  <2>4. \A i \in 1..2 : i = 1 \/ i = 2
    OBVIOUS
  <2>5. Cells(s)
    BY <2>2, <2>3, <2>4 DEF Cells
  <2> QED BY <2>1, <2>6, <2>5
<1>6. PICK u : u = body
  OBVIOUS
<1>7. Cells(u)
  BY <1>2, <1>3, <1>4, <1>5, <1>6, Zenon
<1> HIDE DEF body
<1>8. PICK x : x = [marker |-> v.type]
  OBVIOUS
<1>9. PICK a : a = <<x>> /\ IsSeq(a) /\ Len(a) = 1
  BY IsOne
<1>10. Cells(a)
  BY <1>8, <1>9, OneCell, ValueCells
<1>11. Cells(a \o u)
  BY <1>7, <1>10, MoreCells
<1>12. a \o u # <<>>
  <2>1. IsSeq(a) /\ IsSeq(u)
    BY <1>7, <1>9 DEF Cells
  <2>2. Len(a \o u) = Len(a) + Len(u) /\ Len(u) \in Nat
    BY <2>1, Concat, IsSeqLen
  <2>3. Len(a \o u) # 0
    BY <1>9, <2>2
  <2> QED BY <2>3, IsEmpty
<1>13. EncodeAt(n, v) = a \o u
  BY <1>1, <1>6, <1>8, <1>9, Zenon DEF Marker
<1> QED BY <1>11, <1>12, <1>13

\* Whatever value the AMF0 encoder writes, it writes cells of a payload, at
\* least one, that no reader takes for cells of a header.
THEOREM EncodeCells ==
  ASSUME NEW v, IsValue(v)
  PROVE  Cells(EncodeOne(v)) /\ EncodeOne(v) # <<>>
<1>0. 0 # 1 /\ 2 # 0 /\ 2 # 1 /\ 0 \in {0, 1, 2} /\ 1 \in {0, 1, 2} /\ 2 \in {0, 1, 2}
  OBVIOUS
<1>1. \A w : Shaped(0, w) => Cells(PartAt(0, w))
  BY <1>0, NoCells DEF PartAt
<1>2. ASSUME NEW w, IsLeaf(w) PROVE Cells(EncodeLeaf(w))
  <2>1. ShapedAt(0, w)
    BY <1>2, ShapeLevels
  <2>2. Cells(EncodeAt(0, w))
    BY <1>0, <1>1, <2>1, EncodeAtCells
  <2> QED BY <2>2, EncodeLevels
<1>3. \A w : Shaped(1, w) => Cells(PartAt(1, w))
  BY <1>0, <1>2 DEF PartAt, Shaped
<1>4. ASSUME NEW w, IsInner(w) PROVE Cells(EncodeInner(w))
  <2>1. ShapedAt(1, w)
    BY <1>4, ShapeLevels
  <2>2. Cells(EncodeAt(1, w))
    BY <1>0, <1>3, <2>1, EncodeAtCells
  <2> QED BY <2>2, EncodeLevels
<1>5. \A w : Shaped(2, w) => Cells(PartAt(2, w))
  BY <1>0, <1>4 DEF PartAt, Shaped
<1>6. ShapedAt(2, v)
  BY ShapeLevels
<1>7. Cells(EncodeAt(2, v)) /\ EncodeAt(2, v) # <<>>
  BY <1>0, <1>5, <1>6, EncodeAtCells
<1> QED BY <1>7, EncodeLevels

(***************************************************************************)
(* Commands are written as cells of a payload.                             *)
(***************************************************************************)
LEMMA IsFour ==
  ASSUME NEW x, NEW y, NEW u, NEW v
  PROVE  IsSeq(<<x, y, u, v>>)
<1>1. <<x, y, u, v>> \in Seq({x, y, u, v})
  OBVIOUS
<1> QED BY <1>1, SeqIs

LEMMA IsSix ==
  ASSUME NEW x, NEW y, NEW u, NEW v, NEW w, NEW z
  PROVE  IsSeq(<<x, y, u, v, w, z>>)
<1>1. <<x, y, u, v, w, z>> \in Seq({x, y, u, v, w, z})
  OBVIOUS
<1> QED BY <1>1, SeqIs

LEMMA NamesSeq == ASSUME NEW t PROVE IsSeq(CmdCode(t))
<1>1. IsSeq(<<"transId", "cmdObj", "args">>)
  BY IsThree, Zenon
<1>2. IsSeq(<<"transId", "cmdObj">>)
  BY IsTwo, Zenon
<1>3. IsSeq(<<"transId", "cmdObj", "streamName", "start", "duration", "reset">>)
  BY IsSix, Zenon
<1>4. IsSeq(<<"transId", "cmdObj", "streamName", "type">>)
  BY IsFour, Zenon
<1>5. IsSeq(<<"transId", "cmdObj", "info">>)
  BY IsThree, Zenon
<1>6. IsSeq(<<"transId", "cmdObj", "info", "streamId">>)
  BY IsFour, Zenon
<1>7. IsSeq(<<"bool1", "bool2">>)
  BY IsTwo, Zenon
<1>8. IsSeq(<<>>)
  BY IsEmpty
<1> QED BY <1>1, <1>2, <1>3, <1>4, <1>5, <1>6, <1>7, <1>8, Zenon DEF CmdCode

\* The values of a command, one after the other.
Values(opt, names) ==
  [i \in DOMAIN names |-> IF names[i] \in DOMAIN opt THEN EncodeOne(opt[names[i]]) ELSE <<>>]
HasValues(opt) == "cmd" \in DOMAIN opt /\ \A x \in DOMAIN opt : IsValue(opt[x])

LEMMA ValuesCells ==
  ASSUME NEW opt, \A x \in DOMAIN opt : IsValue(opt[x]), NEW names, IsSeq(names)
  PROVE  LET es == Values(opt, names)
         IN /\ IsSeq(es) /\ Len(es) = Len(names)
            /\ \A i \in 1..Len(names) :
                 /\ Cells(es[i])
                 /\ names[i] \in DOMAIN opt => es[i] = EncodeOne(opt[names[i]])
                 /\ names[i] \notin DOMAIN opt => es[i] = <<>>
<1>1. PICK m \in Nat : m = Len(names) /\ DOMAIN names = 1..m
  BY IsSeqLen
<1>2. PICK es : es = Values(opt, names)
  OBVIOUS
<1>3. DOMAIN es = 1..m /\ es = [i \in 1..m |-> es[i]]
      /\ \A i \in 1..m : es[i] = IF names[i] \in DOMAIN opt THEN EncodeOne(opt[names[i]]) ELSE <<>>
  BY <1>1, <1>2 DEF Values
<1>4. IsSeq(es) /\ Len(es) = m
  BY <1>3, IsSeqFcn
<1>5. ASSUME NEW i \in 1..m PROVE Cells(es[i])
  <2>1. CASE names[i] \in DOMAIN opt
    <3>1. Cells(EncodeOne(opt[names[i]]))
      BY <2>1, EncodeCells
    <3> QED BY <1>3, <2>1, <3>1
  <2>2. CASE names[i] \notin DOMAIN opt
    BY <1>3, <2>2, NoCells
  <2> QED BY <2>1, <2>2
<1> QED BY <1>1, <1>2, <1>3, <1>4, <1>5

LEMMA CommandCells ==
  ASSUME NEW opt, HasValues(opt)
  PROVE  Cells(EncodeAmf0Cmd(opt)) /\ EncodeAmf0Cmd(opt) # <<>>
<1>1. PICK names : names = CmdCode(opt.cmd.text)
  OBVIOUS
<1>2. IsSeq(names)
  BY <1>1, NamesSeq
<1>3. PICK es : es = Values(opt, names)
  OBVIOUS
<1>4. IsSeq(es) /\ \A i \in 1..Len(es) : Cells(es[i])
  BY <1>2, <1>3, ValuesCells DEF HasValues
<1>5. PICK a, b : a = EncodeOne(opt.cmd) /\ b = FlattenSeq(es)
  OBVIOUS
<1>6. Cells(a) /\ a # <<>>
  BY <1>5, EncodeCells DEF HasValues
<1>7. Cells(b)
  BY <1>4, <1>5, AllCells
<1>8. Cells(a \o b)
  BY <1>6, <1>7, MoreCells
<1>9. a \o b # <<>>
  <2>1. IsSeq(a) /\ IsSeq(b)
    BY <1>6, <1>7 DEF Cells
  <2>2. Len(a \o b) = Len(a) + Len(b)
    BY <2>1, Concat
  <2>3. Len(a) \in Nat /\ Len(b) \in Nat /\ Len(a) # 0
    BY <1>6, <2>1, IsSeqLen, EmptyLen
  <2>4. Len(a \o b) # 0
    BY <2>2, <2>3
  <2> QED BY <2>4, IsEmpty
<1>10. EncodeAmf0Cmd(opt) = a \o b
  BY <1>1, <1>3, <1>5, Zenon DEF EncodeAmf0Cmd, Values
<1> QED BY <1>8, <1>9, <1>10

(***************************************************************************)
(* Reading what was written.                                               *)
(***************************************************************************)
LEMMA FromNext ==
  ASSUME NEW s, NEW t, IsSeq(s), IsSeq(t)
  PROVE  /\ From(s \o t, Len(s) + 1) = t
         /\ SubSeq(s \o t, 1, Len(s)) = s
<1>1. PICK u : u = s \o t
  OBVIOUS
<1>2. /\ IsSeq(u) /\ Len(u) = Len(s) + Len(t)
      /\ \A i \in 1..Len(s) : u[i] = s[i]
      /\ \A i \in 1..Len(t) : u[Len(s) + i] = t[i]
  BY <1>1, Concat
<1>3. PICK m \in Nat, n \in Nat : m = Len(s) /\ n = Len(t)
  BY IsSeqLen
<1>4. m <= Len(u)
  BY <1>2, <1>3
<1>5. PICK a, b : a = SubSeq(u, 1, m) /\ b = SubSeq(u, m + 1, Len(u))
  OBVIOUS
<1>6. /\ u = a \o b /\ IsSeq(a) /\ Len(a) = m /\ IsSeq(b) /\ Len(b) = Len(u) - m
      /\ \A i \in 1..m : a[i] = u[i]
  BY <1>2, <1>4, <1>5, Split
<1>7. a = s
  BY <1>2, <1>3, <1>6, SameSeq
<1>8. b = t
  <2>1. Len(b) = n
    BY <1>2, <1>3, <1>6
  <2>2. \A i \in 1..Len(b) : (a \o b)[Len(a) + i] = b[i]
    BY <1>6, Concat
  <2>3. \A i \in 1..n : b[i] = t[i]
    BY <1>2, <1>3, <1>6, <2>1, <2>2
  <2> QED BY <1>3, <1>6, <2>1, <2>3, SameSeq
<1> QED BY <1>1, <1>3, <1>5, <1>7, <1>8 DEF From

LEMMA FromPast ==
  ASSUME NEW s, IsSeq(s), NEW n \in Nat, n >= Len(s)
  PROVE  From(s, n + 1) = <<>>
<1>1. Len(s) \in Nat
  BY IsSeqLen
<1>2. PICK S : s \in Seq(S)
  BY DEF IsSeq
<1>3. SubSeq(s, n + 1, Len(s)) = <<>>
  BY <1>1, <1>2
<1> QED BY <1>3 DEF From

\* The buffer u begins with the cell x and the cells s.
Led(u, x, s, t) == IsSeq(s) /\ IsSeq(t) /\ u = (<<x>> \o s) \o t

LEMMA FromFirst ==
  ASSUME NEW x, NEW s, NEW t, NEW u, Led(u, x, s, t)
  PROVE  /\ IsSeq(u) /\ u # <<>> /\ u[1] = x /\ Len(u) = 1 + Len(s) + Len(t)
         /\ From(u, 2) = s \o t
<1>0. IsSeq(s) /\ IsSeq(t)
  BY DEF Led
<1>1. PICK o : o = <<x>> /\ IsSeq(o) /\ Len(o) = 1 /\ o[1] = x
  BY IsOne
<1>2. PICK v : v = s \o t
  OBVIOUS
<1>3. IsSeq(v) /\ Len(v) = Len(s) + Len(t)
  BY <1>0, <1>2, Concat
<1>4. u = o \o v
  <2>1. (o \o s) \o t = o \o v
    BY <1>0, <1>1, <1>2, Associative
  <2> QED BY <1>1, <2>1 DEF Led
<1>5. /\ IsSeq(o \o v) /\ Len(o \o v) = 1 + Len(v)
      /\ \A i \in 1..1 : (o \o v)[i] = o[i]
  BY <1>1, <1>3, Concat
<1>6. From(o \o v, Len(o) + 1) = v
  BY <1>1, <1>3, FromNext
<1>7. Len(s) \in Nat /\ Len(t) \in Nat
  BY <1>0, IsSeqLen
<1>8. Len(u) # 0 /\ Len(u) = 1 + Len(s) + Len(t)
  BY <1>3, <1>4, <1>5, <1>7
<1>9. u # <<>>
  BY <1>8, IsEmpty
<1>10. u[1] = x
  BY <1>1, <1>4, <1>5
<1>11. From(u, 2) = s \o t
  <2>1. Len(o) + 1 = 2
    BY <1>1
  <2> QED BY <1>2, <1>4, <1>6, <2>1
<1>12. IsSeq(u)
  BY <1>4, <1>5
<1> QED BY <1>8, <1>9, <1>10, <1>11, <1>12

LEMMA TextRead ==
  ASSUME NEW t, NEW rest, IsSeq(rest)
  PROVE  /\ DecText(UString(t) \o rest) = Got(1 + Bytes(t), Str(t))
         /\ IsSeq(UString(t)) /\ Len(UString(t)) = 1 + Bytes(t)
<1>1. PICK n \in 0..2 : n = Bytes(t)
  BY BytesIs
<1>2. PICK l : l = Letters(t)
  OBVIOUS
<1>3. IsSeq(l) /\ Len(l) = n
  BY <1>1, <1>2, LettersSeq DEF Cells
<1>4. PICK x : x = [length |-> n]
  OBVIOUS
<1>16. PICK o : o = <<x>>
  OBVIOUS
<1>5. PICK u : u = (o \o l) \o rest
  OBVIOUS
<1>6. /\ IsSeq(u) /\ u # <<>> /\ u[1] = x /\ Len(u) = 1 + n + Len(rest)
      /\ From(u, 2) = l \o rest
  <2>1. Led(u, x, l, rest)
    BY <1>3, <1>5, <1>16 DEF Led
  <2>2. /\ IsSeq(u) /\ u # <<>> /\ u[1] = x /\ Len(u) = 1 + Len(l) + Len(rest)
        /\ From(u, 2) = l \o rest
    BY <2>1, FromFirst
  <2> QED BY <1>3, <2>2
<1>7. UString(t) \o rest = u
  BY <1>1, <1>2, <1>4, <1>5, <1>16 DEF UString
<1>8. Len(rest) \in Nat
  BY IsSeqLen
<1>9. Starts(u, "length") /\ u[1].length = n /\ ~(Len(u) <= u[1].length)
  BY <1>4, <1>6, <1>8 DEF Starts
<1>10. SubSeq(u, 2, 1 + n) = l
  <2>1. PICK r : r = SubSeq(u, 2, 1 + n)
    OBVIOUS
  <2>2. /\ IsSeq(r) /\ Len(r) = IF 2 <= 1 + n THEN ((1 + n) - 2) + 1 ELSE 0
        /\ \A i \in 1..(((1 + n) - 2) + 1) : r[i] = u[(2 + i) - 1]
    <3>1. 2 \in Nat /\ 1 + n \in Nat /\ 1 <= 2 /\ 1 + n <= Len(u)
      BY <1>6, <1>8
    <3> QED BY <1>6, <2>1, <3>1, SubIs
  <2>3. Len(r) = n
    BY <2>2
  <2>4. IsSeq(o) /\ Len(o) = 1
    BY <1>16, IsOne
  <2>5. PICK v : v = o \o l
    OBVIOUS
  <2>6. IsSeq(v) /\ Len(v) = 1 + n /\ \A i \in 1..n : v[1 + i] = l[i]
    <3>0. IsSeq(o) /\ IsSeq(l)
      BY <1>3, <2>4
    <3>1. /\ IsSeq(o \o l) /\ Len(o \o l) = Len(o) + Len(l)
          /\ \A i \in 1..Len(l) : (o \o l)[Len(o) + i] = l[i]
      BY <3>0, Concat
    <3> QED BY <1>3, <2>4, <2>5, <3>1
  <2>7. \A i \in 1..(1 + n) : u[i] = v[i]
    <3>1. IsSeq(v) /\ u = v \o rest
      BY <1>5, <2>5, <2>6
    <3>2. \A i \in 1..Len(v) : (v \o rest)[i] = v[i]
      BY <3>1, Concat
    <3> QED BY <2>6, <3>1, <3>2
  <2>8. ASSUME NEW i \in 1..n PROVE r[i] = l[i]
    <3>1. i \in 1..(((1 + n) - 2) + 1) /\ (2 + i) - 1 = 1 + i /\ 1 + i \in 1..(1 + n)
      OBVIOUS
    <3>2. r[i] = u[1 + i]
      BY <2>2, <3>1
    <3> QED BY <2>6, <2>7, <3>1, <3>2
  <2> QED BY <1>3, <2>1, <2>2, <2>3, <2>8, SameSeq
<1>11. PICK text : text = IF l # <<>> /\ Starts(l, "byte") THEN l[1].byte ELSE ""
  OBVIOUS
<1>12. text = t \/ (n = 0 /\ text = "")
  <2>1. CASE n = 0
    <3>1. l = <<>>
      BY <1>3, <2>1, EmptyLen
    <3> QED BY <1>11, <2>1, <3>1
  <2>2. CASE n # 0
    <3>1. l # <<>>
      BY <1>3, <2>2, IsEmpty
    <3>2. 1 \in 1..n
      BY <2>2
    <3>3. l[1] = [byte |-> t]
      BY <1>1, <1>2, <3>2 DEF Letters
    <3> QED BY <1>11, <3>1, <3>3 DEF Starts
  <2> QED BY <2>1, <2>2
<1>13. n = 0 => t = ""
  <2>1. PICK e : e = ""
    OBVIOUS
  <2>2. t # e => Chars(t) = 1
    BY <2>1 DEF Chars
  <2>3. t \notin Wide => Bytes(t) = Chars(t)
    BY DEF Bytes
  <2>4. t \in Wide => Bytes(t) = 2
    BY DEF Bytes
  <2>5. n # 0 \/ t = e
    BY <1>1, <2>2, <2>3, <2>4
  <2> QED BY <2>1, <2>5, Zenon
<1>14. text = t
  BY <1>12, <1>13
<1>15. DecText(u) = Got(1 + Len(l), Str(t))
  BY <1>2, <1>9, <1>10, <1>11, <1>14, Zenon DEF DecText
<1>17. IsSeq(UString(t)) /\ Len(UString(t)) = 1 + n
  <2>1. o = <<x>> /\ IsSeq(o) /\ Len(o) = 1
    BY <1>16, IsOne
  <2>2. IsSeq(o \o l) /\ Len(o \o l) = 1 + n
    BY <1>3, <2>1, Concat
  <2> QED BY <1>1, <1>2, <1>4, <2>1, <2>2 DEF UString
<1> QED BY <1>1, <1>3, <1>7, <1>15, <1>17

\* What is written of v is read as r, whatever comes next; or if nothing does.
ReadsAs(v, r) ==
  \A rest : IsSeq(rest) => DecodeOne(EncodeOne(v) \o rest) = Got(Len(EncodeOne(v)), r)
ReadsLast(v, r) ==
  \E n \in Nat : n >= Len(EncodeOne(v)) /\ DecodeOne(EncodeOne(v)) = Got(n, r)
Writes(v, s) == EncodeOne(v) = s /\ IsSeq(s)

LEMMA LastToo ==
  ASSUME NEW v, NEW r, ReadsAs(v, r), IsSeq(EncodeOne(v))
  PROVE  ReadsLast(v, r)
<1>1. PICK s : s = EncodeOne(v) /\ IsSeq(s)
  OBVIOUS
<1>2. s \o <<>> = s /\ IsSeq(<<>>) /\ Len(s) \in Nat
  BY <1>1, ConcatEmpty, IsEmpty, IsSeqLen
<1>3. DecodeOne(s \o <<>>) = Got(Len(s), r)
  BY <1>1, <1>2 DEF ReadsAs
<1> QED BY <1>1, <1>2, <1>3 DEF ReadsLast

LEMMA NullReads == ReadsAs(Null, Null) /\ IsSeq(EncodeOne(Null))
<1>1. PICK x : x = [marker |-> "null"]
  OBVIOUS
<1>2. EncodeOne(Null) = <<x>> \o <<>>
  BY <1>1 DEF EncodeOne, Encode, Null, Marker
<1>3. PICK o : o = <<x>> /\ IsSeq(o) /\ Len(o) = 1
  BY IsOne
<1>4. PICK q : q = <<>> /\ IsSeq(q)
  BY IsEmpty
<1>5. o \o q = o
  BY <1>3, <1>4, ConcatEmpty
<1>6. ASSUME NEW rest, IsSeq(rest) PROVE DecodeOne(o \o rest) = Got(1, Null)
  <2>2. PICK u : u = (o \o q) \o rest
    OBVIOUS
  <2>1. Led(u, x, q, rest)
    BY <1>6, <1>3, <1>4, <2>2 DEF Led
  <2>3. u # <<>> /\ u[1] = x
    BY <2>1, FromFirst
  <2>4. Starts(u, "marker") /\ u[1].marker = "null"
    BY <1>1, <2>3 DEF Starts
  <2>5. DecodeOne(u) = Got(1, Null)
    BY <2>4 DEF DecodeOne, Decode
  <2> QED BY <1>5, <2>2, <2>5
<1>7. EncodeOne(Null) = o
  BY <1>2, <1>3, <1>4, <1>5
<1> QED BY <1>3, <1>6, <1>7 DEF ReadsAs

LEMMA NumReads == ASSUME NEW n PROVE ReadsAs(Num(n), Num(n)) /\ IsSeq(EncodeOne(Num(n)))
<1>1. PICK x, y : x = [marker |-> "number"] /\ y = [double |-> n]
  OBVIOUS
<1>2. EncodeOne(Num(n)) = <<x>> \o <<y>>
  BY <1>1 DEF EncodeOne, Encode, Num, Marker
<1>3. PICK p : p = <<y>> /\ IsSeq(p) /\ Len(p) = 1 /\ p[1] = y
  BY IsOne
<1>4. PICK o : o = <<x>> /\ IsSeq(o) /\ Len(o) = 1
  BY IsOne
<1>5. IsSeq(o \o p) /\ Len(o \o p) = 2
  BY <1>3, <1>4, Concat
<1>6. ASSUME NEW rest, IsSeq(rest) PROVE DecodeOne((o \o p) \o rest) = Got(2, Num(n))
  <2>1. PICK u : u = (o \o p) \o rest
    OBVIOUS
  <2>0. Led(u, x, p, rest)
    BY <1>3, <1>6, <1>4, <2>1 DEF Led
  <2>2. u # <<>> /\ u[1] = x
    BY <2>0, FromFirst
  <2>3. u[2] = y
    <3>1. \A i \in 1..Len(p) : (o \o p)[Len(o) + i] = p[i]
      BY <1>3, <1>4, Concat
    <3>2. \A i \in 1..Len(o \o p) : ((o \o p) \o rest)[i] = (o \o p)[i]
      BY <1>5, <1>6, Concat
    <3>3. 1 \in 1..Len(p) /\ 2 \in 1..Len(o \o p) /\ Len(o) + 1 = 2
      BY <1>3, <1>4, <1>5
    <3>4. (o \o p)[2] = y
      BY <1>3, <3>1, <3>3
    <3>5. ((o \o p) \o rest)[2] = y
      BY <3>2, <3>3, <3>4
    <3> QED BY <1>4, <2>1, <3>5
  <2>4. Starts(u, "marker") /\ u[1].marker = "number" /\ u[2].double = n
    BY <1>1, <2>2, <2>3 DEF Starts
  <2>5. DecodeOne(u) = Got(2, Num(n))
    BY <2>4 DEF DecodeOne, Decode
  <2> QED BY <1>4, <2>1, <2>5
<1>7. EncodeOne(Num(n)) = o \o p
  BY <1>2, <1>3, <1>4
<1> QED BY <1>5, <1>6, <1>7 DEF ReadsAs

LEMMA BoolReads == ASSUME NEW b PROVE ReadsAs(Bool(b), Bool(b)) /\ IsSeq(EncodeOne(Bool(b)))
<1>1. PICK x, y : x = [marker |-> "boolean"] /\ y = [bool |-> b]
  OBVIOUS
<1>2. EncodeOne(Bool(b)) = <<x>> \o <<y>>
  BY <1>1 DEF EncodeOne, Encode, Bool, Marker
<1>3. PICK p : p = <<y>> /\ IsSeq(p) /\ Len(p) = 1 /\ p[1] = y
  BY IsOne
<1>4. PICK o : o = <<x>> /\ IsSeq(o) /\ Len(o) = 1
  BY IsOne
<1>5. IsSeq(o \o p) /\ Len(o \o p) = 2
  BY <1>3, <1>4, Concat
<1>6. ASSUME NEW rest, IsSeq(rest) PROVE DecodeOne((o \o p) \o rest) = Got(2, Bool(b))
  <2>1. PICK u : u = (o \o p) \o rest
    OBVIOUS
  <2>0. Led(u, x, p, rest)
    BY <1>3, <1>6, <1>4, <2>1 DEF Led
  <2>2. u # <<>> /\ u[1] = x
    BY <2>0, FromFirst
  <2>3. u[2] = y
    <3>1. \A i \in 1..Len(p) : (o \o p)[Len(o) + i] = p[i]
      BY <1>3, <1>4, Concat
    <3>2. \A i \in 1..Len(o \o p) : ((o \o p) \o rest)[i] = (o \o p)[i]
      BY <1>5, <1>6, Concat
    <3>3. 1 \in 1..Len(p) /\ 2 \in 1..Len(o \o p) /\ Len(o) + 1 = 2
      BY <1>3, <1>4, <1>5
    <3>4. (o \o p)[2] = y
      BY <1>3, <3>1, <3>3
    <3>5. ((o \o p) \o rest)[2] = y
      BY <3>2, <3>3, <3>4
    <3> QED BY <1>4, <2>1, <3>5
  <2>4. Starts(u, "marker") /\ u[1].marker = "boolean" /\ u[2].bool = b
    BY <1>1, <2>2, <2>3 DEF Starts
  <2>5. DecodeOne(u) = Got(2, Bool(b))
    BY <2>4 DEF DecodeOne, Decode
  <2> QED BY <1>4, <2>1, <2>5
<1>7. EncodeOne(Bool(b)) = o \o p
  BY <1>2, <1>3, <1>4
<1> QED BY <1>5, <1>6, <1>7 DEF ReadsAs

LEMMA TextIs == ASSUME NEW t, t \notin Wide PROVE Text(t) = UString(t)
BY DEF Text, UString, Bytes

LEMMA StrReads ==
  ASSUME NEW t, t \notin Wide
  PROVE  /\ ReadsAs(Str(t), Str(t)) /\ IsSeq(EncodeOne(Str(t)))
         /\ EncodeInner(Str(t)) = EncodeOne(Str(t))
         /\ \A rest : IsSeq(rest) =>
              DecodeInner(EncodeOne(Str(t)) \o rest) = Got(Len(EncodeOne(Str(t))), Str(t))
<1>1. PICK x, l : x = [marker |-> "string"] /\ l = UString(t)
  OBVIOUS
<1>2. EncodeOne(Str(t)) = <<x>> \o l /\ EncodeInner(Str(t)) = <<x>> \o l
  <2>1. Text(t) = l
    BY <1>1, TextIs
  <2> QED BY <1>1, <2>1 DEF EncodeOne, EncodeInner, Encode, Str, Marker
<1>3. IsSeq(l) /\ Len(l) = 1 + Bytes(t)
  BY <1>1, IsEmpty, TextRead
<1>4. PICK o : o = <<x>> /\ IsSeq(o) /\ Len(o) = 1
  BY IsOne
<1>5. IsSeq(o \o l) /\ Len(o \o l) = 1 + Len(l)
  BY <1>3, <1>4, Concat
<1>6. ASSUME NEW rest, IsSeq(rest)
      PROVE  /\ DecodeOne((o \o l) \o rest) = Got(Len(o \o l), Str(t))
             /\ DecodeInner((o \o l) \o rest) = Got(Len(o \o l), Str(t))
  <2>1. PICK u : u = (o \o l) \o rest
    OBVIOUS
  <2>0. Led(u, x, l, rest)
    BY <1>3, <1>4, <1>6, <2>1 DEF Led
  <2>2. u # <<>> /\ u[1] = x /\ From(u, 2) = l \o rest
    BY <2>0, FromFirst
  <2>3. DecText(l \o rest) = Got(1 + Bytes(t), Str(t))
    BY <1>1, <1>6, TextRead
  <2>4. Starts(u, "marker") /\ u[1].marker = "string"
    BY <1>1, <2>2 DEF Starts
  <2>5. DecodeOne(u) = Shift(DecText(From(u, 2)), 1)
    BY <2>4 DEF DecodeOne, Decode
  <2>6. DecodeInner(u) = Shift(DecText(From(u, 2)), 1)
    BY <2>4 DEF DecodeInner, Decode
  <2>7. Shift(Got(1 + Bytes(t), Str(t)), 1) = Got(1 + Bytes(t) + 1, Str(t))
    BY DEF Shift, Got
  <2>8. Bytes(t) \in Nat /\ 1 + Bytes(t) + 1 = Len(o \o l)
    BY <1>3, <1>5, BytesIs
  <2> QED BY <1>4, <2>1, <2>2, <2>3, <2>5, <2>6, <2>7, <2>8
<1> QED BY <1>2, <1>4, <1>5, <1>6 DEF ReadsAs

(***************************************************************************)
(* A message in chunks, read whole.                                        *)
(***************************************************************************)
Sendable(m) ==
  /\ HasCid(m.cid) /\ m.time \in Nat /\ ~(m.time > MaxClock)
  /\ Cells(m.payload) /\ m.payload # <<>>

\* What a reader has of message m after n of its cells.
Partial(m, n) ==
  PacketRec(TimeShown(m.time), Len(m.payload), m.type, m.sid, m.time,
            SubSeq(m.payload, 1, n))

\* The cells that come after n others, in a chunk of a size.
Slice(m, n, size) ==
  SubSeq(m.payload, n + 1, IF n + size >= Len(m.payload) THEN Len(m.payload) ELSE n + size)

LEMMA SubNext ==
  ASSUME NEW s, IsSeq(s), NEW a \in Nat, NEW b \in Nat, a <= b, b <= Len(s)
  PROVE  /\ SubSeq(s, 1, a) \o SubSeq(s, a + 1, b) = SubSeq(s, 1, b)
         /\ IsSeq(SubSeq(s, 1, a)) /\ Len(SubSeq(s, 1, a)) = a
         /\ IsSeq(SubSeq(s, a + 1, b)) /\ Len(SubSeq(s, a + 1, b)) = b - a
         /\ \A i \in 1..(b - a) : SubSeq(s, a + 1, b)[i] = s[a + i]
<1>1. PICK u : u = SubSeq(s, 1, a)
  OBVIOUS
<1>2. IsSeq(u) /\ Len(u) = a /\ \A i \in 1..a : u[i] = s[i]
  <2>0. PICK n : n = Len(s)
    OBVIOUS
  <2>0a. n \in Nat /\ b <= n
    BY IsSeqLen, <2>0
  <2>1. a <= Len(s)
    BY <2>0, <2>0a
  <2>2. QED  BY <2>1, <1>1, Split
<1>3. PICK v : v = SubSeq(s, a + 1, b)
  OBVIOUS
<1>4. IsSeq(v) /\ Len(v) = b - a /\ \A i \in 1..(b - a) : v[i] = s[a + i]
  <2>1. /\ IsSeq(v) /\ Len(v) = IF a + 1 <= b THEN (b - (a + 1)) + 1 ELSE 0
        /\ \A i \in 1..((b - (a + 1)) + 1) : v[i] = s[((a + 1) + i) - 1]
    <3>1. a + 1 \in Nat /\ 1 <= a + 1
      OBVIOUS
    <3>2. QED  BY <3>1, <1>3, SubIs
  <2>2. ((b - (a + 1)) + 1) = b - a /\ \A i \in 1..(b - a) : ((a + 1) + i) - 1 = a + i
    OBVIOUS
  <2>3. Len(v) = b - a
    BY <2>1
  <2>4. QED  BY <2>1, <2>2, <2>3
<1>5. PICK w : w = SubSeq(s, 1, b)
  OBVIOUS
<1>6. IsSeq(w) /\ Len(w) = b /\ \A i \in 1..b : w[i] = s[i]
  BY <1>5, Split
<1>7. IsSeq(u \o v) /\ Len(u \o v) = a + (b - a)
      /\ (\A i \in 1..a : (u \o v)[i] = u[i])
      /\ (\A i \in 1..(b - a) : (u \o v)[a + i] = v[i])
  <2>1. IsSeq(u) /\ IsSeq(v)
    BY <1>2, <1>4
  <2>2. /\ IsSeq(u \o v) /\ Len(u \o v) = Len(u) + Len(v)
        /\ \A i \in 1..Len(u) : (u \o v)[i] = u[i]
        /\ \A i \in 1..Len(v) : (u \o v)[Len(u) + i] = v[i]
    BY <2>1, Concat
  <2>3. Len(u) = a /\ Len(v) = b - a
    BY <1>2, <1>4
  <2>4. QED  BY <2>2, <2>3
<1>8. PICK x : x = u \o v
  OBVIOUS
<1>9. x = w
  <2>1. Len(x) = Len(w)
    BY <1>6, <1>7, <1>8
  <2>2. ASSUME NEW i \in 1..b PROVE x[i] = w[i]
    <3>1. CASE i <= a
      BY <3>1, <1>2, <1>6, <1>7, <1>8
    <3>2. CASE i > a
      <4>1. PICK j : j = i - a
        OBVIOUS
      <4>2. j \in 1..(b - a) /\ i = a + j
        BY <3>2, <4>1
      <4>3. x[i] = s[i]
        BY <4>2, <1>4, <1>7, <1>8
      <4>4. QED  BY <4>3, <1>6
    <3>3. QED  BY <3>1, <3>2
  <2>3. IsSeq(x) /\ IsSeq(w)
    BY <1>6, <1>7, <1>8
  <2>4. Len(x) = b
    BY <2>1, <1>6
  <2>5. QED  BY <2>1, <2>2, <2>3, <2>4, SameSeq
<1>10. QED  BY <1>1, <1>2, <1>3, <1>4, <1>5, <1>8, <1>9

SliceOf(part, m, n, size) ==
  /\ Cells(m.payload) /\ n \in Nat /\ n < Len(m.payload) /\ size \in Nat \ {0}
  /\ part = Slice(m, n, size)

LEMMA SliceIs ==
  ASSUME NEW m, NEW n, NEW size, NEW part, SliceOf(part, m, n, size)
  PROVE  /\ Cells(part) /\ part # <<>>
         /\ SubSeq(m.payload, 1, n) \o part = SubSeq(m.payload, 1, n + Len(part))
         /\ Len(part) = IF n + size >= Len(m.payload) THEN Len(m.payload) - n ELSE size
<1>1. PICK s : s = m.payload
  OBVIOUS
<1>2. /\ IsSeq(s) /\ (\A i \in 1..Len(s) : IsPayload(s[i]))
      /\ n < Len(s) /\ n \in Nat /\ size \in Nat \ {0}
  BY <1>1 DEF Cells, SliceOf
<1>3. PICK l : l = Len(s)
  OBVIOUS
<1>4. l \in Nat /\ n < l
  BY <1>2, <1>3, IsSeqLen
<1>5. PICK b : b = IF n + size >= l THEN l ELSE n + size
  OBVIOUS
<1>6. b \in Nat /\ n < b /\ b <= l /\ (n + size >= l => b = l) /\ (~(n + size >= l) => b = n + size)
  BY <1>2, <1>4, <1>5
<1>7. part = SubSeq(s, n + 1, b)
  BY <1>1, <1>3, <1>5 DEF Slice, SliceOf
<1>8. /\ SubSeq(s, 1, n) \o part = SubSeq(s, 1, b)
      /\ IsSeq(part) /\ Len(part) = b - n
      /\ \A i \in 1..(b - n) : part[i] = s[n + i]
  <2>1. n <= b /\ b <= Len(s)
    BY <1>2, <1>3, <1>4, <1>6
  <2>2. IsSeq(s) /\ n \in Nat /\ b \in Nat
    BY <1>2, <1>6
  <2>3. /\ SubSeq(s, 1, n) \o SubSeq(s, n + 1, b) = SubSeq(s, 1, b)
        /\ IsSeq(SubSeq(s, n + 1, b)) /\ Len(SubSeq(s, n + 1, b)) = b - n
        /\ \A i \in 1..(b - n) : SubSeq(s, n + 1, b)[i] = s[n + i]
    BY <2>1, <2>2, SubNext
  <2>4. QED  BY <2>3, <1>7
<1>9. \A i \in 1..(b - n) : IsPayload(part[i])
  <2>1. \A i \in 1..(b - n) : n + i \in 1..l
    BY <1>2, <1>4, <1>6
  <2>2. QED  BY <2>1, <1>2, <1>3, <1>8
<1>10. Len(part) > 0 /\ n + Len(part) = b
  BY <1>2, <1>6, <1>8
<1>11. part # <<>>
  BY <1>10, IsEmpty
<1>12. Cells(part)
  BY <1>8, <1>9 DEF Cells
<1>13. Len(part) = IF n + size >= l THEN l - n ELSE size
  BY <1>2, <1>4, <1>6, <1>8
<1>14. QED  BY <1>1, <1>3, <1>8, <1>10, <1>11, <1>12, <1>13

LEMMA PartialIs ==
  ASSUME NEW m, NEW n \in Nat, n <= Len(m.payload), IsSeq(m.payload),
         NEW k, k = Partial(m, n)
  PROVE  /\ IsPacket(k) /\ k = WithPayload(k, k.payload)
         /\ k.time = TimeShown(m.time) /\ k.length = Len(m.payload) /\ k.type = m.type
         /\ k.sid = m.sid /\ k.clock = m.time /\ k.payload = SubSeq(m.payload, 1, n)
         /\ IsSeq(k.payload) /\ Len(k.payload) = n
         /\ \A u : WithPayload(k, u) =
              PacketRec(TimeShown(m.time), Len(m.payload), m.type, m.sid, m.time, u)
<1>1. PICK s : s = SubSeq(m.payload, 1, n)
  OBVIOUS
<1>2. IsSeq(s) /\ Len(s) = n
  BY <1>1, Split
<1>3. PICK t : t = TimeShown(m.time)
  OBVIOUS
<1>4. PICK l : l = Len(m.payload)
  OBVIOUS
<1>5. k = PacketRec(t, l, m.type, m.sid, m.time, s)
  BY <1>1, <1>3, <1>4 DEF Partial
<1>6. k.time = t /\ k.length = l /\ k.type = m.type /\ k.sid = m.sid /\ k.clock = m.time
      /\ k.payload = s /\ DOMAIN k = PacketKeys
  BY <1>5 DEF PacketRec, PacketKeys
<1>7. IsPacket(k)
  BY <1>2, <1>6 DEF IsPacket
<1>8. \A u : WithPayload(k, u) = PacketRec(t, l, m.type, m.sid, m.time, u)
  BY <1>6 DEF WithPayload
<1>9. QED  BY <1>1, <1>2, <1>3, <1>4, <1>5, <1>6, <1>7, <1>8

Quiet(z) ==
  \A c \in DOMAIN z.inPackets : IsPacket(z.inPackets[c]) /\ z.inPackets[c].payload = <<>>

\* n cells of m are read, and it is not complete.
Underway(z, e, m, n) ==
  /\ AtRest(e) /\ SameRest(z, e)
  /\ e.inPackets = Updated(z.inPackets, CidRead(m.cid), Partial(m, n))

Mail(m) == [type |-> m.type, sid |-> m.sid, clock |-> m.time, payload |-> m.payload]

\* m is read.
Delivered(z, e, m) ==
  /\ AtRest(e)
  /\ e.inPackets = Updated(z.inPackets, CidRead(m.cid), Partial(m, 0))
  /\ e.handled = Append(z.handled, Mail(m))
  /\ e.inChunkSize = IF m.type = "chunkSize" THEN m.payload[1].size ELSE z.inChunkSize

\* The reader takes the pieces that the writer made.
Sized(z, m, n, size) ==
  /\ size \in Nat \ {0} /\ z.inChunkSize \in Nat \ {0} /\ n \in Nat /\ n < Len(m.payload)
  /\ \/ z.inChunkSize = size /\ n % size = 0
     \/ n = 0 /\ Len(m.payload) = 1

LEMMA SliceFits ==
  ASSUME NEW z, NEW m, Sendable(m), NEW n, NEW size, Sized(z, m, n, size),
         NEW k, IsPacket(k), Len(k.payload) = n, k.length = Len(m.payload),
         NEW part, part = Slice(m, n, size)
  PROVE  PartFits(k, part, z.inChunkSize)
<1>1. PICK l : l = Len(m.payload)
  OBVIOUS
<1>2. l \in Nat /\ n \in Nat /\ n < l /\ size \in Nat \ {0} /\ z.inChunkSize \in Nat \ {0}
  BY <1>1, IsSeqLen DEF Sized, Sendable, Cells
<1>3. Cells(m.payload)
  BY DEF Sendable
<1>4. /\ Cells(part) /\ part # <<>>
      /\ Len(part) = IF n + size >= l THEN l - n ELSE size
  <2>1. SliceOf(part, m, n, size)
    BY <1>1, <1>2, <1>3 DEF SliceOf
  <2>2. QED  BY <2>1, <1>1, SliceIs
<1>5. PICK j : j = Len(part)
  OBVIOUS
<1>6. PICK i : i = z.inChunkSize
  OBVIOUS
<1>7. j \in Nat /\ j <= i /\ n + j <= l /\ (j = i \/ n + j = l) /\ n % i = 0
  <2>1. CASE i = size /\ n % size = 0
    BY <2>1, <1>2, <1>4, <1>5
  <2>2. CASE n = 0 /\ l = 1
    <3>1. 0 % i = 0
      BY <1>2, <1>6, Z3
    <3>2. QED  BY <3>1, <2>2, <1>2, <1>4, <1>5, <1>6
  <2>3. QED  BY <2>1, <2>2, <1>1, <1>6 DEF Sized
<1>8. Part(k, part, i)
  <2>1. IsSeq(part) /\ \A x \in 1..Len(part) : IsPayload(part[x])
    BY <1>4 DEF Cells
  <2>2. Len(part) <= i /\ Len(k.payload) + Len(part) <= k.length
    BY <1>1, <1>5, <1>7
  <2>3. QED  BY <2>1, <2>2 DEF Part
<1>9. i \in Nat \ {0} /\ k.length \in Nat /\ Len(k.payload) % i = 0
  BY <1>1, <1>2, <1>6, <1>7
<1>10. Len(part) = i \/ Len(k.payload) + Len(part) = k.length
  BY <1>1, <1>5, <1>7
<1>11. PartFits(k, part, i)
  BY <1>4, <1>8, <1>9, <1>10 DEF PartFits
<1>12. QED  BY <1>6, <1>11
LEMMA SubWhole ==
  ASSUME NEW s, IsSeq(s)
  PROVE  SubSeq(s, 1, Len(s)) = s /\ SubSeq(s, 1, 0) = <<>>
<1>1. PICK n : n = Len(s)
  OBVIOUS
<1>2. n \in Nat
  BY <1>1, IsSeqLen
<1>3. PICK u : u = SubSeq(s, 1, n)
  OBVIOUS
<1>4. n <= Len(s) /\ n \in Nat
  BY <1>1, <1>2
<1>5. IsSeq(u) /\ Len(u) = n /\ \A i \in 1..n : u[i] = s[i]
  BY <1>3, <1>4, Split
<1>6. u = s
  <2>1. Len(u) = Len(s)
    BY <1>1, <1>5
  <2>2. \A i \in 1..Len(u) : u[i] = s[i]
    BY <1>5
  <2>3. QED  BY <2>1, <2>2, <1>5, SameSeq
<1>7. PICK v : v = SubSeq(s, 1, 0)
  OBVIOUS
<1>8. IsSeq(v) /\ Len(v) = 0
  <2>1. 0 \in Nat /\ 0 <= Len(s)
    BY <1>1, <1>2
  <2>2. QED  BY <2>1, <1>7, Split
<1>9. v = <<>>
  BY <1>8, EmptyLen
<1>10. QED  BY <1>1, <1>3, <1>6, <1>7, <1>9

\* A chunk of m, read after n of its cells: what ChunkReads needs and says.
MoreRead(z, e, m, n) ==
  /\ n = Len(m.payload) => Delivered(z, e, m)
  /\ n < Len(m.payload) => Underway(z, e, m, n)

\* The reader d has n cells of m, and then reads a chunk of it.
Goes(z, d, m, n, size, part) ==
  /\ Sendable(m) /\ Sized(z, m, n, size) /\ part = Slice(m, n, size)
  /\ \/ n = 0 /\ d = z /\ AtRest(z) /\ Quiet(z)
     \/ n > 0 /\ Underway(z, d, m, n)

ChunkType(n) == IF n = 0 THEN 0 ELSE 3

LEMMA GoesFits ==
  ASSUME NEW z, NEW d, NEW m, NEW n, NEW size, NEW part, Goes(z, d, m, n, size, part),
         NEW c, c = CidRead(m.cid), NEW old, old = OldOf(d, c)
  PROVE  /\ HeaderFits(d, ChunkType(n), m, c, old)
         /\ Header(ChunkType(n), m, old) = Partial(m, n)
         /\ d.inChunkSize = z.inChunkSize /\ d.handled = z.handled /\ AtRest(d)
         /\ \A k : Updated(d.inPackets, c, k) = Updated(z.inPackets, c, k)
<1>1. HasCid(m.cid) /\ m.time \in Nat /\ IsSeq(m.payload)
  BY DEF Goes, Sendable, Cells
<1>2. CASE n = 0 /\ d = z /\ AtRest(z) /\ Quiet(z)
  <2>1. IsPacket(old) /\ old.payload = <<>>
    <3>1. CASE c \in DOMAIN d.inPackets
      BY <3>1, <1>2 DEF Quiet, OldOf
    <3>2. CASE c \notin DOMAIN d.inPackets
      <4>1. old = RtmpPacket
        BY <3>2 DEF OldOf
      <4>2. QED  BY <4>1, IsEmpty DEF RtmpPacket, IsPacket, PacketKeys
    <3>3. QED  BY <3>1, <3>2
  <2>2. ChunkType(n) = 0
    BY <1>2 DEF ChunkType
  <2>3. HeaderFits(d, 0, m, c, old)
    BY <1>1, <1>2, <2>1 DEF HeaderFits
  <2>4. Header(0, m, old) = Partial(m, 0)
    <3>1. PICK s : s = SubSeq(m.payload, 1, 0)
      OBVIOUS
    <3>2. s = <<>>
      BY <3>1, <1>1, SubWhole
    <3>3. PICK t : t = TimeShown(m.time)
      OBVIOUS
    <3>4. PICK l : l = Len(m.payload)
      OBVIOUS
    <3>5. Header(0, m, old) = [time |-> t, length |-> l, type |-> m.type, sid |-> m.sid,
                               clock |-> m.time, payload |-> <<>>]
      BY <2>1, <3>3, <3>4 DEF Header
    <3>6. Partial(m, 0) = PacketRec(t, l, m.type, m.sid, m.time, s)
      BY <3>1, <3>3, <3>4 DEF Partial
    <3>7. QED  BY <3>5, <3>6, <3>2 DEF PacketRec
  <2>5. QED  BY <1>2, <2>2, <2>3, <2>4
<1>3. CASE n > 0 /\ Underway(z, d, m, n)
  <2>0. n \in Nat /\ n < Len(m.payload) /\ ChunkType(n) = 3
    BY <1>3 DEF Goes, Sized, ChunkType
  <2>1. PICK k : k = Partial(m, n)
    OBVIOUS
  <2>2. PICK f : f = z.inPackets
    OBVIOUS
  <2>3. d.inPackets = Updated(f, c, k) /\ AtRest(d) /\ SameRest(z, d)
    BY <1>3, <2>1, <2>2 DEF Underway
  <2>4. old = k
    <3>1. PICK g : g = d.inPackets
      OBVIOUS
    <3>2. g = Updated(f, c, k)
      BY <3>1, <2>3
    <3>3. c \in DOMAIN g /\ g[c] = k
      <4>1. DOMAIN Updated(f, c, k) = {c} \cup DOMAIN f /\ Updated(f, c, k)[c] = k
        BY DEF Updated
      <4>2. QED  BY <4>1, <3>2
    <3>4. QED  BY <3>1, <3>3 DEF OldOf
  <2>5. /\ IsPacket(k) /\ k = WithPayload(k, k.payload)
        /\ k.time = TimeShown(m.time) /\ k.length = Len(m.payload) /\ k.type = m.type
        /\ k.sid = m.sid /\ k.clock = m.time /\ k.payload = SubSeq(m.payload, 1, n)
        /\ IsSeq(k.payload) /\ Len(k.payload) = n
    <3>1. n \in Nat /\ n <= Len(m.payload)
      <4>1. PICK l : l = Len(m.payload)
        OBVIOUS
      <4>2. l \in Nat
        BY <4>1, <1>1, IsSeqLen
      <4>3. QED  BY <4>1, <4>2, <2>0
    <3>2. QED  BY <3>1, <1>1, <2>1, PartialIs
  <2>6. HeaderFits(d, 3, m, c, old)
    BY <1>1, <2>3, <2>4, <2>5 DEF HeaderFits
  <2>7. k.payload # <<>>
    <3>1. PICK s : s = k.payload
      OBVIOUS
    <3>2. Len(s) = n /\ n # 0
      BY <3>1, <2>5, <1>3, <2>0
    <3>3. s # <<>>
      BY <3>2, IsEmpty
    <3>4. QED  BY <3>1, <3>3
  <2>8. Header(3, m, k) = k
    <3>1. Header(3, m, k) = [time |-> k.time, length |-> k.length, type |-> k.type,
                             sid |-> k.sid, clock |-> k.clock, payload |-> k.payload]
      BY <2>7 DEF Header
    <3>2. k = PacketRec(k.time, k.length, k.type, k.sid, k.clock, k.payload)
      BY <2>5 DEF WithPayload
    <3>3. QED  BY <3>1, <3>2 DEF PacketRec
  <2>9. \A j : Updated(d.inPackets, c, j) = Updated(f, c, j)
    BY <2>3, PutTwice
  <2>10. d.inChunkSize = z.inChunkSize /\ d.handled = z.handled
    BY <2>3 DEF SameRest
  <2>11. QED  BY <2>0, <2>1, <2>2, <2>3, <2>4, <2>6, <2>8, <2>9, <2>10
<1>4. QED  BY <1>2, <1>3 DEF Goes

LEMMA GoesOn ==
  ASSUME NEW z, NEW d, NEW m, NEW n, NEW size, NEW part, Goes(z, d, m, n, size, part),
         NEW e, e = ReadOn(d, Chunk(ChunkType(n), m, part))
  PROVE  /\ n + Len(part) <= Len(m.payload) /\ Len(part) \in Nat \ {0} /\ n \in Nat
         /\ MoreRead(z, e, m, n + Len(part))
         /\ n + Len(part) < Len(m.payload) => Len(part) = size
         /\ Len(part) <= size
<1>0. PICK c : c = CidRead(m.cid)
  OBVIOUS
<1>1. PICK old : old = OldOf(d, c)
  OBVIOUS
<1>2. PICK k : k = Header(ChunkType(n), m, old)
  OBVIOUS
<1>3. /\ HeaderFits(d, ChunkType(n), m, c, old) /\ k = Partial(m, n)
      /\ d.inChunkSize = z.inChunkSize /\ d.handled = z.handled /\ AtRest(d)
      /\ \A x : Updated(d.inPackets, c, x) = Updated(z.inPackets, c, x)
  BY <1>0, <1>1, <1>2, GoesFits
<1>4. PICK l : l = Len(m.payload)
  OBVIOUS
<1>5. IsSeq(m.payload) /\ Cells(m.payload) /\ Sendable(m)
  BY DEF Goes, Sendable, Cells
<1>6. l \in Nat /\ n \in Nat /\ n < l /\ size \in Nat \ {0} /\ Sized(z, m, n, size)
  BY <1>4, <1>5, IsSeqLen DEF Goes, Sized
<1>7. /\ IsPacket(k) /\ k.length = l /\ k.type = m.type
      /\ k.sid = m.sid /\ k.clock = m.time /\ k.payload = SubSeq(m.payload, 1, n)
      /\ Len(k.payload) = n
      /\ \A u : WithPayload(k, u) =
              PacketRec(TimeShown(m.time), l, m.type, m.sid, m.time, u)
  <2>1. n <= Len(m.payload)
    BY <1>4, <1>6
  <2>2. QED  BY <2>1, <1>3, <1>4, <1>5, <1>6, PartialIs
<1>8. PartFits(k, part, d.inChunkSize)
  <2>1. IsPacket(k) /\ Len(k.payload) = n /\ k.length = Len(m.payload) /\ part = Slice(m, n, size)
    BY <1>4, <1>7 DEF Goes
  <2>2. QED  BY <2>1, <1>3, <1>5, <1>6, SliceFits
<1>9. PICK j : j = WithPayload(k, k.payload \o part)
  OBVIOUS
<1>10. /\ k.length > 0 /\ Len(j.payload) = k.length => Finished(d, c, j, e)
       /\ Len(j.payload) < k.length =>
              AtRest(e) /\ SameRest(d, e) /\ e.inPackets = Updated(d.inPackets, c, j)
  <2>1. PICK f : f = ChunkType(n)
    OBVIOUS
  <2>2. HeaderFits(d, f, m, c, old) /\ k = Header(f, m, old)
    BY <2>1, <1>2, <1>3
  <2>3. e = ReadOn(d, Chunk(f, m, part))
    BY <2>1
  <2>4. /\ k.length > 0 /\ Len(j.payload) = k.length => Finished(d, c, j, e)
        /\ Len(j.payload) < k.length => Kept(d, c, j, e)
    <3>1. HeaderFits(d, f, m, c, old)
      BY <2>2
    <3>2. k = Header(f, m, old)
      BY <2>2
    <3>3. PartFits(k, part, d.inChunkSize)
      BY <1>8
    <3>4. j = WithPayload(k, k.payload \o part)
      BY <1>9
    <3>5. ChunkFits(d, f, m, c, old, k, part, j, e)
      BY <3>1, <3>2, <3>3, <3>4, <2>3 DEF ChunkFits
    <3>6. QED  BY <3>5, ChunkReads
  <2>5. QED  BY <2>4 DEF Kept
<1>11. /\ SubSeq(m.payload, 1, n) \o part = SubSeq(m.payload, 1, n + Len(part))
       /\ Len(part) = IF n + size >= l THEN l - n ELSE size
  <2>1. SliceOf(part, m, n, size)
    BY <1>4, <1>5, <1>6 DEF SliceOf, Goes
  <2>2. QED  BY <2>1, <1>4, SliceIs
<1>12. PICK p : p = Len(part)
  OBVIOUS
<1>13. /\ p \in Nat \ {0} /\ n + p <= l /\ n + p \in Nat
       /\ (n + p < l => p = size) /\ p <= size
  BY <1>6, <1>11, <1>12
<1>14. j = Partial(m, n + p)
  BY <1>4, <1>7, <1>9, <1>11, <1>12 DEF Partial
<1>15. /\ j.length = l /\ j.type = m.type /\ j.sid = m.sid /\ j.clock = m.time
       /\ j.payload = SubSeq(m.payload, 1, n + p) /\ Len(j.payload) = n + p
       /\ \A u : WithPayload(j, u) =
              PacketRec(TimeShown(m.time), l, m.type, m.sid, m.time, u)
  <2>1. n + p <= Len(m.payload) /\ n + p \in Nat
    BY <1>4, <1>13
  <2>2. QED  BY <2>1, <1>4, <1>5, <1>14, PartialIs
<1>16. n + p = l => Delivered(z, e, m)
  <2> HAVE n + p = l
  <2>1. Finished(d, c, j, e)
    BY <1>6, <1>7, <1>10, <1>15
  <2>2. SubSeq(m.payload, 1, 0) = <<>> /\ SubSeq(m.payload, 1, l) = m.payload
    BY <1>4, <1>5, SubWhole
  <2>3. WithPayload(j, <<>>) = Partial(m, 0)
    BY <1>4, <1>15, <2>2 DEF Partial
  <2>4. AtRest(e) /\ e.inPackets = Updated(z.inPackets, c, Partial(m, 0))
    BY <2>1, <2>3, <1>3 DEF Finished
  <2>5. ~(j.clock > MaxClock)
    BY <1>5, <1>15 DEF Sendable
  <2>6. Handed(j) = Mail(m)
    <3>1. j.payload = m.payload
      BY <1>15, <2>2
    <3>2. QED  BY <3>1, <1>15 DEF Handed, Mail
  <2>7. e.handled = Append(z.handled, Mail(m))
    BY <2>1, <2>5, <2>6, <1>3 DEF Finished
  <2>8. e.inChunkSize = IF m.type = "chunkSize" THEN m.payload[1].size ELSE z.inChunkSize
    <3>1. j.payload = m.payload
      BY <1>15, <2>2
    <3>2. QED  BY <3>1, <2>1, <2>5, <1>3, <1>15 DEF Finished
  <2>9. QED  BY <2>4, <2>7, <2>8, <1>0 DEF Delivered
<1>17. n + p < l => Underway(z, e, m, n + p)
  <2> HAVE n + p < l
  <2>1. AtRest(e) /\ SameRest(d, e) /\ e.inPackets = Updated(d.inPackets, c, j)
    BY <1>7, <1>10, <1>15
  <2>2. SameRest(z, e)
    BY <2>1, <1>3 DEF SameRest
  <2>3. e.inPackets = Updated(z.inPackets, c, Partial(m, n + p))
    BY <2>1, <1>3, <1>14
  <2>4. QED  BY <2>1, <2>2, <2>3, <1>0 DEF Underway
<1>18. MoreRead(z, e, m, n + p)
  BY <1>4, <1>16, <1>17 DEF MoreRead
<1>19. QED  BY <1>4, <1>6, <1>12, <1>13, <1>18

LEMMA FlattenStep ==
  ASSUME NEW ss, Nested(ss), NEW i \in Nat, i < Len(ss)
  PROVE  /\ Nested(SubSeq(ss, 1, i)) /\ IsSeq(FlattenSeq(SubSeq(ss, 1, i)))
         /\ IsSeq(ss[i + 1])
         /\ FlattenSeq(SubSeq(ss, 1, i + 1)) = FlattenSeq(SubSeq(ss, 1, i)) \o ss[i + 1]
<1>1. PICK n : n = Len(ss)
  OBVIOUS
<1>2. n \in Nat /\ IsSeq(ss) /\ (\A j \in 1..n : IsSeq(ss[j])) /\ i < n
  BY <1>1, IsSeqLen DEF Nested
<1>3. PICK a : a = SubSeq(ss, 1, i)
  OBVIOUS
<1>4. PICK b : b = SubSeq(ss, 1, i + 1)
  OBVIOUS
<1>5. IsSeq(a) /\ Len(a) = i /\ \A j \in 1..i : a[j] = ss[j]
  <2>1. i <= Len(ss)
    BY <1>1, <1>2
  <2>2. QED  BY <2>1, <1>2, <1>3, Split
<1>6. IsSeq(b) /\ Len(b) = i + 1 /\ \A j \in 1..(i + 1) : b[j] = ss[j]
  <2>1. i + 1 <= Len(ss) /\ i + 1 \in Nat
    BY <1>1, <1>2
  <2>2. QED  BY <2>1, <1>2, <1>4, Split
<1>7. Nested(a)
  <2>1. \A j \in 1..i : j \in 1..n
    BY <1>2
  <2>2. QED  BY <2>1, <1>2, <1>5 DEF Nested
<1>8. PICK x : x = ss[i + 1]
  OBVIOUS
<1>9. IsSeq(x)
  <2>1. i + 1 \in 1..n
    BY <1>2
  <2>2. QED  BY <2>1, <1>2, <1>8
<1>10. PICK d : d = Append(a, x)
  OBVIOUS
<1>11. IsSeq(d) /\ Len(d) = i + 1 /\ (\A j \in 1..i : d[j] = a[j]) /\ d[i + 1] = x
  <2>1. /\ IsSeq(d) /\ Len(d) = Len(a) + 1 /\ (\A j \in 1..Len(a) : d[j] = a[j])
        /\ d[Len(a) + 1] = x
    <3>1. Extends(d, a, x)
      BY <1>5, <1>10, Appended
    <3>2. QED  BY <3>1, Zenon DEF Extends
  <2>2. QED  BY <2>1, <1>5
<1>12. b = d
  <2>1. Len(b) = Len(d)
    BY <1>6, <1>11
  <2>2. \A j \in 1..Len(b) : b[j] = d[j]
    <3>1. ASSUME NEW j \in 1..(i + 1) PROVE b[j] = d[j]
      <4>1. CASE j = i + 1
        BY <4>1, <1>6, <1>8, <1>11
      <4>2. CASE j # i + 1
        <5>1. j \in 1..i
          BY <4>2
        <5>2. QED  BY <5>1, <1>5, <1>6, <1>11
      <4>3. QED  BY <4>1, <4>2
    <3>2. QED  BY <3>1, <1>6
  <2>3. QED  BY <2>1, <2>2, <1>6, <1>11, SameSeq
<1>13. FlattenSeq(d) = FlattenSeq(a) \o x
  BY <1>7, <1>9, <1>10, FlattenMore
<1>14. IsSeq(FlattenSeq(a))
  BY <1>7, FlattenSeqs
<1>15. QED  BY <1>3, <1>4, <1>7, <1>8, <1>9, <1>12, <1>13, <1>14

\* The states of a reader after each of some sequences of cells.
LEMMA ReadAll ==
  ASSUME NEW z, NEW ss, Nested(ss)
  PROVE  \E g : /\ g[0] = z
                /\ \A i \in 1..Len(ss) : g[i] = ReadOn(g[i - 1], ss[i])
                /\ ReadOn(z, FlattenSeq(ss)) = g[Len(ss)]
<1>1. PICK n : n = Len(ss)
  OBVIOUS
<1>2. n \in Nat /\ IsSeq(ss)
  BY <1>1, IsSeqLen DEF Nested
<1>3. PICK g : g = [i \in 0..n |-> ReadOn(z, FlattenSeq(SubSeq(ss, 1, i)))]
  OBVIOUS
<1>4. g[0] = z
  <2>1. SubSeq(ss, 1, 0) = <<>>
    BY <1>2, SubWhole
  <2>2. 0 \in 0..n
    BY <1>2
  <2>3. g[0] = ReadOn(z, FlattenSeq(SubSeq(ss, 1, 0)))
    BY <1>3, <2>2
  <2>4. g[0] = ReadOn(z, <<>>)
    BY <2>1, <2>3, FlattenEmpty
  <2>5. QED  BY <2>4, ReadNothing
<1>5. \A i \in 1..n : g[i] = ReadOn(g[i - 1], ss[i])
  <2> TAKE i \in 1..n
  <2>1. PICK j : j = i - 1
    OBVIOUS
  <2>2. j \in Nat /\ i = j + 1 /\ j \in 0..n /\ i \in 0..n /\ j < Len(ss)
    BY <1>1, <1>2, <2>1
  <2>3. /\ IsSeq(FlattenSeq(SubSeq(ss, 1, j))) /\ IsSeq(ss[j + 1])
        /\ FlattenSeq(SubSeq(ss, 1, j + 1)) = FlattenSeq(SubSeq(ss, 1, j)) \o ss[j + 1]
    BY <2>2, FlattenStep
  <2>4. ReadOn(z, FlattenSeq(SubSeq(ss, 1, j)) \o ss[j + 1])
          = ReadOn(ReadOn(z, FlattenSeq(SubSeq(ss, 1, j))), ss[j + 1])
    BY <2>3, ReadParts
  <2>5. g[i] = ReadOn(z, FlattenSeq(SubSeq(ss, 1, i))) /\ g[j] = ReadOn(z, FlattenSeq(SubSeq(ss, 1, j)))
    BY <1>3, <2>2
  <2>6. QED  BY <2>1, <2>2, <2>3, <2>4, <2>5
<1>6. g[n] = ReadOn(z, FlattenSeq(ss))
  <2>1. SubSeq(ss, 1, n) = ss
    BY <1>1, <1>2, SubWhole
  <2>2. n \in 0..n
    BY <1>2
  <2>3. g[n] = ReadOn(z, FlattenSeq(SubSeq(ss, 1, n)))
    BY <1>3, <2>2
  <2>4. QED  BY <2>1, <2>3
<1>7. QED  BY <1>1, <1>4, <1>5, <1>6

LEMMA CountIs ==
  ASSUME NEW l \in Nat \ {0}, NEW size \in Nat \ {0}, NEW count,
         count = (l + size - 1) \div size
  PROVE  /\ count \in Nat \ {0} /\ count * size >= l /\ (count - 1) * size < l
         /\ \A i \in 1..count : i * size >= l <=> i = count
         /\ l = 1 => count = 1
<1>1. PICK a \in Nat : a = l + size - 1
  OBVIOUS
<1>2. PICK q \in Nat, r \in 0..(size - 1) : q = a \div size /\ a = q * size + r
  BY DivMod
<1>3. count = q
  BY <1>1, <1>2
<1>4. PICK x \in Nat : x = q * size
  OBVIOUS
<1>5. a = x + r /\ r < size /\ r >= 0
  BY <1>2, <1>4
<1>6. x >= l /\ x - size < l
  BY <1>1, <1>5
<1>7. q # 0
  <2>1. q = 0 => x = 0
    BY <1>4
  <2>2. QED  BY <2>1, <1>6
<1>8. (q - 1) * size = x - size
  BY <1>4
<1>9. \A i \in 1..q : i * size >= l <=> i = q
  <2> TAKE i \in 1..q
  <2>1. CASE i = q
    BY <2>1, <1>4, <1>6
  <2>2. CASE i # q
    <3>1. PICK y \in Nat \ {0} : y = q - i
      BY <2>2
    <3>2. y * size >= size
      BY <3>1, AtLeast
    <3>3. PICK w \in Nat : w = y * size
      BY <3>1
    <3>4. i * size = x - w
      BY <1>4, <3>1, <3>3
    <3>5. w >= size
      BY <3>2, <3>3
    <3>6. x - w < l
      BY <3>5, <1>6
    <3>7. ~(x - w >= l)
      BY <3>6
    <3>8. QED  BY <2>2, <3>4, <3>7
  <2>3. QED  BY <2>1, <2>2
<1>10. l = 1 => q = 1
  <2> HAVE l = 1
  <2>1. 1 * size >= l
    OBVIOUS
  <2>2. 1 \in 1..q
    BY <1>7
  <2>3. QED  BY <2>1, <2>2, <1>9
<1>11. q * size >= l /\ (q - 1) * size < l
  BY <1>4, <1>6, <1>8
<1>12. QED  BY <1>3, <1>7, <1>9, <1>10, <1>11

\* The number of chunks of a message.
Count(m, size) == (Len(m.payload) + size - 1) \div size

LEMMA PieceIs ==
  ASSUME NEW m, Sendable(m), NEW size \in Nat \ {0}, NEW count, count = Count(m, size)
  PROVE  /\ InChunks(0, m, size)
              = [i \in 1..count |->
                  Chunk(ChunkType((i - 1) * size), m, Slice(m, (i - 1) * size, size))]
         /\ count \in Nat \ {0}
         /\ \A i \in 1..count : i * size >= Len(m.payload) <=> i = count
         /\ Len(m.payload) = 1 => count = 1
<1>1. PICK l : l = Len(m.payload)
  OBVIOUS
<1>2. m.payload # <<>> /\ IsSeq(m.payload) /\ HasCid(m.cid)
  BY DEF Sendable, Cells
<1>3. l \in Nat \ {0}
  BY <1>1, <1>2, IsSeqLen, EmptyLen
<1>4. count = (l + size - 1) \div size
  BY <1>1 DEF Count
<1>5. /\ count \in Nat \ {0}
      /\ \A i \in 1..count : i * size >= l <=> i = count
      /\ l = 1 => count = 1
  BY <1>3, <1>4, CountIs
<1>6. PICK p : p = m.payload
  OBVIOUS
<1>7. InChunks(0, m, size) = [i \in 1..count |->
        ChunkBasicHeaderCreate(IF i = 1 THEN 0 ELSE 3, m.cid)
          \o (IF i = 1 THEN ChunkMessageHeaderCreate(0, m) ELSE <<>>)
          \o ExtendedTimestamp(m.time)
          \o SubSeq(p, (i - 1) * size + 1, IF i = count THEN l ELSE i * size)]
  <2>1. p # <<>> /\ l = Len(p)
    BY <1>1, <1>2, <1>6
  <2>2. count = (Len(p) + size - 1) \div size
    BY <1>4, <2>1
  <2>3. QED  BY <2>1, <2>2, <1>6 DEF InChunks
<1>8. ASSUME NEW i \in 1..count
      PROVE  ChunkBasicHeaderCreate(IF i = 1 THEN 0 ELSE 3, m.cid)
               \o (IF i = 1 THEN ChunkMessageHeaderCreate(0, m) ELSE <<>>)
               \o ExtendedTimestamp(m.time)
               \o SubSeq(p, (i - 1) * size + 1, IF i = count THEN l ELSE i * size)
             = Chunk(ChunkType((i - 1) * size), m, Slice(m, (i - 1) * size, size))
  <2>1. PICK part : part = Slice(m, (i - 1) * size, size)
    OBVIOUS
  <2>2. part = SubSeq(p, (i - 1) * size + 1, IF i = count THEN l ELSE i * size)
    <3>1. (i - 1) * size + size = i * size
      BY <1>5
    <3>2. (IF (i - 1) * size + size >= l THEN l ELSE (i - 1) * size + size)
            = IF i = count THEN l ELSE i * size
      BY <3>1, <1>5
    <3>3. part = SubSeq(p, (i - 1) * size + 1,
                        IF (i - 1) * size + size >= l THEN l ELSE (i - 1) * size + size)
      BY <2>1, <1>1, <1>6 DEF Slice
    <3>4. QED  BY <3>2, <3>3
  <2>3. ChunkMessageHeaderCreate(3, m) = <<>>
    <3>1. 3 \in 0..3
      OBVIOUS
    <3>2. PICK w : w = ChunkMessageHeaderCreate(3, m)
      OBVIOUS
    <3>3. IsSeq(w) /\ Len(w) = 3 - 3
      BY <3>1, <3>2, MessageHeader
    <3>4. IsSeq(w) /\ Len(w) = 0
      BY <3>3
    <3>5. QED  BY <3>2, <3>4, EmptyLen
  <2>4. CASE i = 1
    <3>1. ChunkType((i - 1) * size) = 0
      BY <2>4 DEF ChunkType
    <3>2. QED  BY <2>1, <2>2, <2>4, <3>1 DEF Chunk, HeaderChunk
  <2>5. CASE i # 1
    <3>1. (i - 1) * size # 0
      <4>1. PICK y \in Nat \ {0} : y = i - 1
        BY <2>5, <1>5
      <4>2. y * size >= size
        BY <4>1, AtLeast
      <4>3. QED  BY <4>1, <4>2
    <3>2. ChunkType((i - 1) * size) = 3
      BY <3>1 DEF ChunkType
    <3>3. QED  BY <2>1, <2>2, <2>3, <2>5, <3>2 DEF Chunk, HeaderChunk
  <2>6. QED  BY <2>4, <2>5
<1>9. InChunks(0, m, size) = [i \in 1..count |->
        Chunk(ChunkType((i - 1) * size), m, Slice(m, (i - 1) * size, size))]
  BY <1>7, <1>8, Zenon
<1>10. QED  BY <1>1, <1>5, <1>9

\* A chunk of a message, and not a part of the handshake.
Plain(chunk) == IsSeq(chunk) /\ chunk # <<>> /\ "sig" \notin DOMAIN chunk[1]

LEMMA FirstOf ==
  ASSUME NEW s, NEW t, IsSeq(s), s # <<>>, IsSeq(t)
  PROVE  IsSeq(s \o t) /\ s \o t # <<>> /\ (s \o t)[1] = s[1]
<1>1. PICK n : n = Len(s)
  OBVIOUS
<1>2. n \in Nat \ {0}
  BY <1>1, IsSeqLen, EmptyLen
<1>3. /\ IsSeq(s \o t) /\ Len(s \o t) = Len(s) + Len(t)
      /\ \A i \in 1..Len(s) : (s \o t)[i] = s[i]
  BY Concat
<1>4. PICK k : k = Len(t)
  OBVIOUS
<1>5. k \in Nat
  BY <1>4, IsSeqLen
<1>6. 1 \in 1..n
  BY <1>2
<1>7. (s \o t)[1] = s[1]
  BY <1>1, <1>3, <1>6
<1>8. PICK u : u = s \o t
  OBVIOUS
<1>9. Len(u) # 0
  BY <1>1, <1>2, <1>3, <1>4, <1>5, <1>8
<1>10. u # <<>>
  BY <1>9, IsEmpty
<1>11. QED  BY <1>3, <1>7, <1>8, <1>10

LEMMA BasicPlain ==
  ASSUME NEW fmt, NEW cid, HasCid(cid)
  PROVE  Plain(ChunkBasicHeaderCreate(fmt, cid))
<1>1. PICK u : u = ChunkBasicHeaderCreate(fmt, cid)
  OBVIOUS
<1>2. IsSeq(u) /\ Len(u) = BasicSize(cid) /\ BasicSize(cid) \in 1..3
  BY <1>1, BasicHeader
<1>3. u # <<>>
  <2>1. Len(u) # 0
    BY <1>2
  <2>2. QED  BY <2>1, IsEmpty
<1>4. \E x : u[1] = [basic |-> x]
  <2>1. CASE cid < 64
    <3>1. u = <<[basic |-> <<fmt, cid>>]>>
      BY <2>1, <1>1 DEF ChunkBasicHeaderCreate
    <3>2. QED  BY <3>1
  <2>2. CASE ~(cid < 64) /\ cid < 64 + 255
    <3>1. u = <<[basic |-> <<fmt, 0>>], [more |-> cid - 64]>>
      BY <2>2, <1>1 DEF ChunkBasicHeaderCreate
    <3>2. QED  BY <3>1
  <2>3. CASE ~(cid < 64) /\ ~(cid < 64 + 255)
    <3>1. u = <<[basic |-> <<fmt, 1>>], [more |-> (cid - 64) % 256],
         [more |-> ((cid - 64) \div 256) % 256]>>
      BY <2>3, <1>1 DEF ChunkBasicHeaderCreate
    <3>2. PICK a : a = [more |-> (cid - 64) % 256]
      OBVIOUS
    <3>3. PICK b : b = [more |-> ((cid - 64) \div 256) % 256]
      OBVIOUS
    <3>4. u = <<[basic |-> <<fmt, 1>>], a, b>>
      BY <3>1, <3>2, <3>3
    <3>5. QED  BY <3>4
  <2>4. QED  BY <2>1, <2>2, <2>3
<1>5. "sig" \notin DOMAIN u[1]
  <2>1. PICK x : u[1] = [basic |-> x]
    BY <1>4
  <2>2. DOMAIN [basic |-> x] = {"basic"}
    OBVIOUS
  <2>3. QED  BY <2>1, <2>2
<1>6. QED  BY <1>1, <1>2, <1>3, <1>5 DEF Plain

LEMMA PlainMore ==
  ASSUME NEW s, NEW t, Plain(s), IsSeq(t)
  PROVE  Plain(s \o t)
BY FirstOf DEF Plain

LEMMA ChunkPlain ==
  ASSUME NEW fmt \in 0..3, NEW m, HasCid(m.cid), NEW part, IsSeq(part)
  PROVE  Plain(Chunk(fmt, m, part))
<1>1. PICK a : a = ChunkBasicHeaderCreate(fmt, m.cid)
  OBVIOUS
<1>2. Plain(a)
  BY <1>1, BasicPlain
<1>3. PICK b : b = ChunkMessageHeaderCreate(fmt, m)
  OBVIOUS
<1>4. IsSeq(b)
  BY <1>3, MessageHeader
<1>5. PICK c : c = ExtendedTimestamp(m.time)
  OBVIOUS
<1>6. IsSeq(c)
  BY <1>5, ExtendedIs
<1>7. Plain(a \o b)
  BY <1>2, <1>4, PlainMore
<1>8. Plain((a \o b) \o c)
  BY <1>6, <1>7, PlainMore
<1>9. Plain(((a \o b) \o c) \o part)
  BY <1>8, PlainMore
<1>10. QED  BY <1>1, <1>3, <1>5, <1>9 DEF Chunk, HeaderChunk

\* A sequence of chunks of messages.
PlainAll(cs) == IsSeq(cs) /\ \A i \in 1..Len(cs) : Plain(cs[i])

LEMMA MessagePlain ==
  ASSUME NEW m, Sendable(m), NEW size \in Nat \ {0}
  PROVE  PlainAll(InChunks(0, m, size)) /\ InChunks(0, m, size) # <<>>
<1>1. PICK count : count = Count(m, size)
  OBVIOUS
<1>2. PICK cs : cs = InChunks(0, m, size)
  OBVIOUS
<1>3. /\ cs = [i \in 1..count |->
            Chunk(ChunkType((i - 1) * size), m, Slice(m, (i - 1) * size, size))]
      /\ count \in Nat \ {0}
      /\ \A i \in 1..count : i * size >= Len(m.payload) <=> i = count
  BY <1>1, <1>2, PieceIs
<1>4. ASSUME NEW i \in 1..count PROVE Plain(cs[i])
  <2>1. PICK part : part = Slice(m, (i - 1) * size, size)
    OBVIOUS
  <2>2. IsSeq(part)
    <3>1. PICK l : l = Len(m.payload)
      OBVIOUS
    <3>2. l \in Nat \ {0}
      BY <3>1, IsSeqLen, EmptyLen DEF Sendable, Cells
    <3>3. PICK n : n = (i - 1) * size
      OBVIOUS
    <3>4. n \in Nat /\ n < l
      <4>1. CASE i = 1
        BY <4>1, <3>2, <3>3
      <4>2. CASE i # 1
        <5>1. PICK j : j = i - 1
          OBVIOUS
        <5>2. j \in 1..count /\ j # count
          BY <4>2, <5>1, <1>3
        <5>3. ~(j * size >= l)
          BY <5>2, <1>3, <3>1
        <5>4. j * size \in Nat
          BY <5>2
        <5>5. QED  BY <5>1, <5>3, <5>4, <3>2, <3>3
      <4>3. QED  BY <4>1, <4>2
    <3>5. SliceOf(part, m, n, size)
      BY <2>1, <3>1, <3>3, <3>4 DEF SliceOf, Sendable
    <3>6. QED  BY <3>5, SliceIs DEF Cells
  <2>3. HasCid(m.cid)
    BY DEF Sendable
  <2>4. PICK f : f = ChunkType((i - 1) * size)
    OBVIOUS
  <2>5. f \in 0..3
    BY <2>4 DEF ChunkType
  <2>6. Plain(Chunk(f, m, part))
    BY <2>2, <2>3, <2>5, ChunkPlain
  <2>7. QED  BY <2>1, <2>4, <2>6, <1>3
<1>5. IsSeq(cs) /\ Len(cs) = count
  <2>1. DOMAIN cs = 1..count /\ cs = [i \in 1..count |-> cs[i]]
    BY <1>3
  <2>2. count \in Nat
    BY <1>3
  <2>3. QED  BY <2>1, <2>2, IsSeqFcn
<1>6. cs # <<>>
  <2>1. Len(cs) # 0
    BY <1>3, <1>5
  <2>2. QED  BY <2>1, IsEmpty
<1>7. QED  BY <1>2, <1>4, <1>5, <1>6 DEF PlainAll

LEMMA PlainNested ==
  ASSUME NEW cs, PlainAll(cs)
  PROVE  Nested(cs) /\ IsSeq(FlattenSeq(cs))
<1>1. Nested(cs)
  BY DEF PlainAll, Plain, Nested
<1>2. QED  BY <1>1, FlattenSeqs

LEMMA Multiple == ASSUME NEW i \in Nat, NEW b \in Nat \ {0} PROVE (i * b) % b = 0
<1>1. PICK a \in Nat : a = i * b
  OBVIOUS
<1>2. PICK q \in Nat, r \in 0..(b - 1) : q = a \div b /\ r = a % b /\ a = q * b + r
  BY DivMod
<1>3. PICK x \in Int : x = i - q
  OBVIOUS
<1>4. x * b = r
  BY <1>1, <1>2, <1>3
<1>5. CASE x = 0
  BY <1>5, <1>4, <1>2, <1>1
<1>6. CASE x >= 1
  <2>1. x * b >= b
    BY <1>6, AtLeast
  <2>2. QED  BY <2>1, <1>4, <1>2
<1>7. CASE x <= -1
  <2>1. PICK y \in Int : y = 0 - x
    OBVIOUS
  <2>2. y >= 1
    BY <1>7, <2>1
  <2>3. y * b >= b
    BY <2>2, AtLeast
  <2>4. PICK w \in Int : w = y * b
    OBVIOUS
  <2>5. x * b = 0 - w
    BY <2>1, <2>4
  <2>6. QED  BY <2>3, <2>4, <2>5, <1>4, <1>2
<1>8. QED  BY <1>5, <1>6, <1>7

\* The reader can make sense of m, in chunks of that size.
Reads(z, m, size) ==
  /\ AtRest(z) /\ Quiet(z) /\ Sendable(m) /\ size \in Nat \ {0}
  /\ z.inChunkSize \in Nat \ {0}
  /\ z.inChunkSize = size \/ Len(m.payload) = 1

\* A message of any length, cut into chunks of a size that the reader goes by,
\* is handled by it: the same payload, type, stream and time, once, with nothing
\* left of it in the parser.
THEOREM MessageReads ==
  ASSUME NEW z, NEW m, NEW size, Reads(z, m, size)
  PROVE  Delivered(z, ReadOn(z, FlattenSeq(InChunks(0, m, size))), m)
<1>0. /\ AtRest(z) /\ Quiet(z) /\ Sendable(m) /\ size \in Nat \ {0}
      /\ z.inChunkSize \in Nat \ {0}
      /\ z.inChunkSize = size \/ Len(m.payload) = 1
  BY DEF Reads
<1>1. PICK count : count = Count(m, size)
  OBVIOUS
<1>2. PICK cs : cs = InChunks(0, m, size)
  OBVIOUS
<1>3. PICK l : l = Len(m.payload)
  OBVIOUS
<1>4. /\ cs = [i \in 1..count |->
            Chunk(ChunkType((i - 1) * size), m, Slice(m, (i - 1) * size, size))]
      /\ count \in Nat \ {0}
      /\ (\A i \in 1..count : i * size >= l <=> i = count)
      /\ l = 1 => count = 1
  BY <1>0, <1>1, <1>2, <1>3, PieceIs
<1>5. l \in Nat \ {0}
  BY <1>0, <1>3, IsSeqLen, EmptyLen DEF Sendable, Cells
<1>6. PlainAll(cs)
  BY <1>0, <1>2, MessagePlain
<1>7. Len(cs) = count
  <2>1. DOMAIN cs = 1..count /\ cs = [i \in 1..count |-> cs[i]]
    BY <1>4
  <2>2. count \in Nat
    BY <1>4
  <2>3. QED  BY <2>1, <2>2, IsSeqFcn
<1>8. PICK g : /\ g[0] = z
               /\ \A i \in 1..count : g[i] = ReadOn(g[i - 1], cs[i])
               /\ ReadOn(z, FlattenSeq(cs)) = g[count]
  <2>1. Nested(cs)
    BY <1>6, PlainNested
  <2>2. \E g : /\ g[0] = z
               /\ \A i \in 1..Len(cs) : g[i] = ReadOn(g[i - 1], cs[i])
               /\ ReadOn(z, FlattenSeq(cs)) = g[Len(cs)]
    BY <2>1, ReadAll
  <2>3. QED  BY <2>2, <1>7
<1>9. DEFINE P(i) == /\ i < count /\ i > 0 => Underway(z, g[i], m, i * size)
                     /\ i = count => Delivered(z, g[i], m)
<1>10. ASSUME NEW i \in Nat, i < count, P(i) PROVE P(i + 1)
  <2>1. PICK n : n = i * size
    OBVIOUS
  <2>2. n \in Nat /\ n < l /\ (i = 0 <=> n = 0) /\ n % size = 0
    <3>1. CASE i = 0
      <4>1. n = 0 /\ n % size = 0
        BY <3>1, <2>1, <1>0, Multiple
      <4>2. QED  BY <3>1, <4>1, <1>5
    <3>2. CASE i # 0
      <4>1. i \in 1..count /\ i # count
        BY <3>2, <1>10, <1>4
      <4>2. ~(i * size >= l)
        BY <4>1, <1>4
      <4>3. i * size \in Nat
        BY <1>0
      <4>4. i * size >= size
        BY <3>2, <1>0, AtLeast
      <4>5. n % size = 0
        BY <2>1, <1>0, Multiple
      <4>6. n \in Nat /\ n < l /\ n # 0
        BY <4>2, <4>3, <4>4, <2>1, <1>0, <1>5
      <4>7. QED  BY <3>2, <4>5, <4>6
    <3>3. QED  BY <3>1, <3>2
  <2>3. PICK part : part = Slice(m, n, size)
    OBVIOUS
  <2>4. PICK d : d = g[i]
    OBVIOUS
  <2>5. PICK e : e = g[i + 1]
    OBVIOUS
  <2>6. e = ReadOn(d, Chunk(ChunkType(n), m, part))
    <3>1. i + 1 \in 1..count /\ (i + 1) - 1 = i
      BY <1>10, <1>4
    <3>2. g[i + 1] = ReadOn(g[i], cs[i + 1])
      BY <3>1, <1>8
    <3>3. cs[i + 1] = Chunk(ChunkType(((i + 1) - 1) * size), m, Slice(m, ((i + 1) - 1) * size, size))
      BY <3>1, <1>4
    <3>4. cs[i + 1] = Chunk(ChunkType(n), m, part)
      BY <3>1, <3>3, <2>1, <2>3
    <3>5. QED  BY <3>2, <3>4, <2>4, <2>5
  <2>7. Sized(z, m, n, size)
    <3>1. n < Len(m.payload)
      BY <2>2, <1>3
    <3>2. l = 1 => i = 0
      BY <1>4, <1>10
    <3>3. z.inChunkSize = size \/ (n = 0 /\ Len(m.payload) = 1)
      BY <1>0, <1>3, <2>2, <3>2
    <3>4. QED  BY <1>0, <2>2, <3>1, <3>3 DEF Sized
  <2>8. Goes(z, d, m, n, size, part)
    <3>1. CASE i = 0
      BY <3>1, <2>2, <2>3, <2>4, <2>7, <1>0, <1>8 DEF Goes
    <3>2. CASE i # 0
      <4>1. i > 0 /\ n > 0
        BY <3>2, <2>2
      <4>2. Underway(z, d, m, n)
        BY <4>1, <1>10, <2>1, <2>4
      <4>3. QED  BY <4>1, <4>2, <2>3, <2>7, <1>0 DEF Goes
    <3>3. QED  BY <3>1, <3>2
  <2>9. PICK p : p = Len(part)
    OBVIOUS
  <2>10. /\ n + p <= l /\ p \in Nat \ {0} /\ MoreRead(z, e, m, n + p)
         /\ n + p < l => p = size
         /\ p <= size
    BY <2>6, <2>8, <2>9, <1>3, GoesOn
  <2>11. (i + 1) * size = n + size
    BY <2>1, <1>0
  <2>12. n + size >= l <=> i + 1 = count
    <3>1. i + 1 \in 1..count
      BY <1>10, <1>4
    <3>2. QED  BY <3>1, <2>11, <1>4
  <2>13. CASE i + 1 = count
    <3>1. n + p = l
      BY <2>13, <2>12, <2>10, <2>2, <1>0, <1>5
    <3>2. Delivered(z, e, m)
      BY <3>1, <2>10, <1>3 DEF MoreRead
    <3>3. ~(i + 1 < count)
      BY <2>13, <1>4
    <3>4. QED  BY <3>2, <3>3, <2>5
  <2>14. CASE i + 1 # count
    <3>1. n + p < l /\ n + p = n + size
      BY <2>14, <2>12, <2>10, <2>2, <1>0, <1>5
    <3>2. Underway(z, e, m, n + p)
      BY <3>1, <2>10, <1>3 DEF MoreRead
    <3>3. Underway(z, g[i + 1], m, (i + 1) * size)
      BY <3>1, <3>2, <2>5, <2>11
    <3>4. QED  BY <3>3, <2>14
  <2>15. QED  BY <2>13, <2>14
<1>11. P(0)
  BY <1>4
<1>12. PICK S : S = {i \in Nat : i <= count => P(i)}
  OBVIOUS
<1>13. 0 \in S /\ \A i \in Nat : i \in S => i + 1 \in S
  <2>1. 0 \in S
    BY <1>11, <1>12
  <2>2. ASSUME NEW i \in Nat, i \in S PROVE i + 1 \in S
    <3>1. CASE i < count
      <4>1. P(i)
        BY <3>1, <2>2, <1>12, <1>4
      <4>2. P(i + 1)
        BY <3>1, <4>1, <1>10
      <4>3. QED  BY <4>2, <1>12
    <3>2. CASE ~(i < count)
      <4>1. ~(i + 1 <= count)
        BY <3>2, <1>4
      <4>2. QED  BY <4>1, <1>12
    <3>3. QED  BY <3>1, <3>2
  <2>3. QED  BY <2>1, <2>2
<1>14. count \in S
  BY <1>4, <1>13, Climb
<1>15. P(count)
  BY <1>4, <1>12, <1>14
<1>16. Delivered(z, g[count], m)
  BY <1>15
<1>17. QED  BY <1>2, <1>8, <1>16

(***************************************************************************)
(* Chunks under way, and the parts of the handshake among them.            *)
(***************************************************************************)
\* w is u and then v, element by element.
Joins(w, u, v) ==
  /\ IsSeq(u) /\ IsSeq(v) /\ IsSeq(w) /\ Len(w) = Len(u) + Len(v)
  /\ \A i \in 1..Len(u) : w[i] = u[i]
  /\ \A i \in 1..Len(v) : w[Len(u) + i] = v[i]

LEMMA Joined ==
  ASSUME NEW u, NEW v, NEW w, Joins(w, u, v)
  PROVE  w = u \o v
<1>0. /\ IsSeq(u) /\ IsSeq(v) /\ IsSeq(w) /\ Len(w) = Len(u) + Len(v)
      /\ \A i \in 1..Len(u) : w[i] = u[i]
      /\ \A i \in 1..Len(v) : w[Len(u) + i] = v[i]
  BY DEF Joins
<1>1. PICK a : a = Len(u)
  OBVIOUS
<1>2. PICK b : b = Len(v)
  OBVIOUS
<1>3. a \in Nat /\ b \in Nat
  BY <1>0, <1>1, <1>2, IsSeqLen
<1>4. PICK x : x = u \o v
  OBVIOUS
<1>5. /\ IsSeq(x) /\ Len(x) = a + b
      /\ (\A i \in 1..a : x[i] = u[i]) /\ (\A i \in 1..b : x[a + i] = v[i])
  BY <1>0, <1>1, <1>2, <1>4, Concat
<1>6. ASSUME NEW i \in 1..(a + b) PROVE w[i] = x[i]
  <2>1. CASE i <= a
    BY <2>1, <1>0, <1>1, <1>3, <1>5
  <2>2. CASE i > a
    <3>1. PICK j : j = i - a
      OBVIOUS
    <3>2. j \in 1..b /\ i = a + j
      BY <3>1, <2>2, <1>3
    <3>3. x[a + j] = v[j]
      BY <3>2, <1>5
    <3>4. w[a + j] = v[j]
      BY <3>2, <1>0, <1>1, <1>2
    <3>5. QED  BY <3>2, <3>3, <3>4
  <2>3. QED  BY <2>1, <2>2, <1>3
<1>7. Len(w) = Len(x) /\ Len(w) = a + b
  BY <1>0, <1>1, <1>2, <1>5
<1>8. \A i \in 1..Len(w) : w[i] = x[i]
  BY <1>6, <1>7
<1>9. w = x
  BY <1>0, <1>5, <1>7, <1>8, SameSeq
<1>10. QED  BY <1>4, <1>9

\* A sequence of chunks.
Chunked(cs) == IsSeq(cs) /\ \A i \in 1..Len(cs) : IsSeq(cs[i]) /\ cs[i] # <<>>

Bare(cs) == [i \in DOMAIN cs |-> IF IsSignature(cs[i]) THEN <<>> ELSE cs[i]]
Signed(cs) == [i \in DOMAIN cs |-> IF IsSignature(cs[i]) THEN cs[i] ELSE <<>>]

LEMMA Halves ==
  ASSUME NEW cs, Chunked(cs)
  PROVE  /\ NoSigs(cs) = FlattenSeq(Bare(cs)) /\ Sigs(cs) = FlattenSeq(Signed(cs))
         /\ Nested(Bare(cs)) /\ Nested(Signed(cs))
         /\ Len(Bare(cs)) = Len(cs) /\ Len(Signed(cs)) = Len(cs)
         /\ \A i \in 1..Len(cs) :
              /\ Bare(cs)[i] = (IF IsSignature(cs[i]) THEN <<>> ELSE cs[i])
              /\ Signed(cs)[i] = (IF IsSignature(cs[i]) THEN cs[i] ELSE <<>>)
         /\ IsSeq(NoSigs(cs)) /\ IsSeq(Sigs(cs))
<1>1. PICK n : n = Len(cs)
  OBVIOUS
<1>2. n \in Nat /\ DOMAIN cs = 1..n /\ \A i \in 1..n : IsSeq(cs[i])
  BY <1>1, IsSeqLen DEF Chunked
<1>3. PICK b : b = Bare(cs)
  OBVIOUS
<1>4. /\ DOMAIN b = 1..n /\ b = [i \in 1..n |-> b[i]]
      /\ \A i \in 1..n : b[i] = (IF IsSignature(cs[i]) THEN <<>> ELSE cs[i])
  BY <1>2, <1>3 DEF Bare
<1>5. IsSeq(b) /\ Len(b) = n
  BY <1>2, <1>4, IsSeqFcn
<1>6. \A i \in 1..n : IsSeq(b[i])
  BY <1>2, <1>4, IsEmpty
<1>7. Nested(b)
  BY <1>5, <1>6 DEF Nested
<1>8. PICK d : d = Signed(cs)
  OBVIOUS
<1>9. /\ DOMAIN d = 1..n /\ d = [i \in 1..n |-> d[i]]
      /\ \A i \in 1..n : d[i] = (IF IsSignature(cs[i]) THEN cs[i] ELSE <<>>)
  BY <1>2, <1>8 DEF Signed
<1>10. IsSeq(d) /\ Len(d) = n
  BY <1>2, <1>9, IsSeqFcn
<1>11. \A i \in 1..n : IsSeq(d[i])
  BY <1>2, <1>9, IsEmpty
<1>12. Nested(d)
  BY <1>10, <1>11 DEF Nested
<1>13. NoSigs(cs) = FlattenSeq(Bare(cs)) /\ Sigs(cs) = FlattenSeq(Signed(cs))
  BY DEF NoSigs, Sigs, Bare, Signed
<1>14. IsSeq(FlattenSeq(b)) /\ IsSeq(FlattenSeq(d))
  BY <1>7, <1>12, FlattenSeqs
<1>15. QED  BY <1>1, <1>3, <1>4, <1>5, <1>7, <1>8, <1>9, <1>10, <1>12, <1>13, <1>14

LEMMA ChunkedMore ==
  ASSUME NEW a, NEW b, Chunked(a), Chunked(b)
  PROVE  /\ Chunked(a \o b)
         /\ NoSigs(a \o b) = NoSigs(a) \o NoSigs(b) /\ Sigs(a \o b) = Sigs(a) \o Sigs(b)
<1>1. PICK c : c = a \o b
  OBVIOUS
<1>2. PICK m : m = Len(a)
  OBVIOUS
<1>3. PICK n : n = Len(b)
  OBVIOUS
<1>4. IsSeq(a) /\ IsSeq(b) /\ m \in Nat /\ n \in Nat
  BY <1>2, <1>3, IsSeqLen DEF Chunked
<1>5. /\ IsSeq(c) /\ Len(c) = m + n /\ (\A i \in 1..m : c[i] = a[i])
      /\ (\A i \in 1..n : c[m + i] = b[i])
  BY <1>1, <1>2, <1>3, <1>4, Concat
<1>6. Chunked(c)
  <2>1. ASSUME NEW i \in 1..(m + n) PROVE IsSeq(c[i]) /\ c[i] # <<>>
    <3>1. CASE i <= m
      <4>1. i \in 1..m
        BY <3>1, <1>4
      <4>2. QED  BY <4>1, <1>2, <1>5 DEF Chunked
    <3>2. CASE i > m
      <4>1. PICK j : j = i - m
        OBVIOUS
      <4>2. j \in 1..n /\ i = m + j
        BY <4>1, <3>2, <1>4
      <4>3. c[i] = b[j]
        BY <4>2, <1>5
      <4>4. QED  BY <4>2, <4>3, <1>3 DEF Chunked
    <3>3. QED  BY <3>1, <3>2, <1>4
  <2>2. QED  BY <2>1, <1>5 DEF Chunked
<1>7. PICK ba : ba = Bare(a)
  OBVIOUS
<1>8. PICK bb : bb = Bare(b)
  OBVIOUS
<1>9. PICK bc : bc = Bare(c)
  OBVIOUS
<1>10. /\ Nested(ba) /\ Nested(bb) /\ Nested(bc)
       /\ Len(ba) = m /\ Len(bb) = n /\ Len(bc) = m + n
       /\ NoSigs(a) = FlattenSeq(ba) /\ NoSigs(b) = FlattenSeq(bb)
       /\ NoSigs(c) = FlattenSeq(bc)
  <2>1. NoSigs(a) = FlattenSeq(ba) /\ Nested(ba) /\ Len(ba) = m
    BY <1>2, <1>7, Halves
  <2>2. NoSigs(b) = FlattenSeq(bb) /\ Nested(bb) /\ Len(bb) = n
    BY <1>3, <1>8, Halves
  <2>3. NoSigs(c) = FlattenSeq(bc) /\ Nested(bc) /\ Len(bc) = m + n
    BY <1>5, <1>6, <1>9, Halves
  <2>4. QED  BY <2>1, <2>2, <2>3
<1>11. bc = ba \o bb
  <2>1. IsSeq(ba) /\ IsSeq(bb) /\ IsSeq(bc)
    BY <1>10 DEF Nested
  <2>2. /\ \A i \in 1..m : ba[i] = (IF IsSignature(a[i]) THEN <<>> ELSE a[i])
        /\ \A i \in 1..n : bb[i] = (IF IsSignature(b[i]) THEN <<>> ELSE b[i])
        /\ \A i \in 1..(m + n) : bc[i] = (IF IsSignature(c[i]) THEN <<>> ELSE c[i])
    <3>1. \A i \in 1..m : ba[i] = (IF IsSignature(a[i]) THEN <<>> ELSE a[i])
      BY <1>2, <1>7, Halves
    <3>2. \A i \in 1..n : bb[i] = (IF IsSignature(b[i]) THEN <<>> ELSE b[i])
      BY <1>3, <1>8, Halves
    <3>3. \A i \in 1..(m + n) : bc[i] = (IF IsSignature(c[i]) THEN <<>> ELSE c[i])
      BY <1>5, <1>6, <1>9, Halves
    <3>4. QED  BY <3>1, <3>2, <3>3
  <2>3. \A i \in 1..m : bc[i] = ba[i]
    <3>1. \A i \in 1..m : i \in 1..(m + n)
      BY <1>4
    <3>2. QED  BY <3>1, <2>2, <1>5
  <2>4. \A i \in 1..n : bc[m + i] = bb[i]
    <3>1. \A i \in 1..n : m + i \in 1..(m + n)
      BY <1>4
    <3>2. QED  BY <3>1, <2>2, <1>5
  <2>5. Joins(bc, ba, bb)
    BY <2>1, <2>3, <2>4, <1>10 DEF Joins
  <2>6. QED  BY <2>5, Joined
<1>12. FlattenSeq(bc) = FlattenSeq(ba) \o FlattenSeq(bb)
  BY <1>10, <1>11, FlattenConcat
<1>13. PICK sa : sa = Signed(a)
  OBVIOUS
<1>14. PICK sb : sb = Signed(b)
  OBVIOUS
<1>15. PICK sc : sc = Signed(c)
  OBVIOUS
<1>16. /\ Nested(sa) /\ Nested(sb) /\ Nested(sc)
       /\ Len(sa) = m /\ Len(sb) = n /\ Len(sc) = m + n
       /\ Sigs(a) = FlattenSeq(sa) /\ Sigs(b) = FlattenSeq(sb)
       /\ Sigs(c) = FlattenSeq(sc)
  BY <1>2, <1>3, <1>5, <1>6, <1>13, <1>14, <1>15, Halves
<1>17. sc = sa \o sb
  <2>1. IsSeq(sa) /\ IsSeq(sb) /\ IsSeq(sc)
    BY <1>16 DEF Nested
  <2>2. /\ \A i \in 1..m : sa[i] = (IF IsSignature(a[i]) THEN a[i] ELSE <<>>)
        /\ \A i \in 1..n : sb[i] = (IF IsSignature(b[i]) THEN b[i] ELSE <<>>)
        /\ \A i \in 1..(m + n) : sc[i] = (IF IsSignature(c[i]) THEN c[i] ELSE <<>>)
    BY <1>2, <1>3, <1>5, <1>6, <1>13, <1>14, <1>15, Halves
  <2>3. \A i \in 1..m : sc[i] = sa[i]
    <3>1. \A i \in 1..m : i \in 1..(m + n)
      BY <1>4
    <3>2. QED  BY <3>1, <2>2, <1>5
  <2>4. \A i \in 1..n : sc[m + i] = sb[i]
    <3>1. \A i \in 1..n : m + i \in 1..(m + n)
      BY <1>4
    <3>2. QED  BY <3>1, <2>2, <1>5
  <2>5. Joins(sc, sa, sb)
    BY <2>1, <2>3, <2>4, <1>16 DEF Joins
  <2>6. QED  BY <2>5, Joined
<1>18. FlattenSeq(sc) = FlattenSeq(sa) \o FlattenSeq(sb)
  BY <1>16, <1>17, FlattenConcat
<1>19. QED  BY <1>1, <1>6, <1>10, <1>12, <1>16, <1>18

LEMMA FlattenNone ==
  ASSUME NEW ss, Nested(ss), \A i \in 1..Len(ss) : ss[i] = <<>>
  PROVE  FlattenSeq(ss) = <<>>
<1>1. PICK n : n = Len(ss)
  OBVIOUS
<1>2. n \in Nat /\ IsSeq(ss)
  BY <1>1, IsSeqLen DEF Nested
<1>3. CASE n = 0
  <2>1. ss = <<>>
    BY <1>1, <1>2, <1>3, EmptyLen
  <2>2. QED  BY <2>1, FlattenEmpty
<1>4. CASE n # 0
  <2>1. PICK f : /\ f[1] = ss[1] /\ \A i \in 2..n : f[i] = f[i - 1] \o ss[i]
                 /\ FlattenSeq(ss) = f[n]
    BY <1>1, <1>2, <1>4, FlattenStates
  <2>2. PICK S : S = {i \in Nat : i + 1 <= n => f[i + 1] = <<>>}
    OBVIOUS
  <2>3. 0 \in S
    <3>1. 1 \in 1..n
      BY <1>2, <1>4
    <3>2. f[1] = <<>>
      BY <3>1, <2>1, <1>1
    <3>3. f[0 + 1] = <<>>
      BY <3>2
    <3>4. QED  BY <3>3, <2>2
  <2>4. ASSUME NEW i \in Nat, i \in S PROVE i + 1 \in S
    <3>1. CASE (i + 1) + 1 <= n
      <4>1. f[i + 1] = <<>>
        BY <3>1, <2>2, <2>4, <1>2
      <4>2. PICK j : j = i + 2
        OBVIOUS
      <4>3. j \in 2..n /\ j \in 1..n /\ j - 1 = i + 1
        BY <3>1, <4>2, <1>2
      <4>4. f[j] = f[i + 1] \o ss[j] /\ ss[j] = <<>>
        BY <4>3, <2>1, <1>1
      <4>5. f[j] = <<>> \o <<>>
        BY <4>1, <4>4
      <4>6. <<>> \o <<>> = <<>>
        BY IsEmpty, ConcatEmpty
      <4>7. (i + 1) + 1 = j
        BY <4>2
      <4>8. f[(i + 1) + 1] = <<>>
        BY <4>5, <4>6, <4>7
      <4>9. QED  BY <4>8, <2>2
    <3>2. CASE ~((i + 1) + 1 <= n)
      BY <3>2, <2>2
    <3>3. QED  BY <3>1, <3>2
  <2>5. n - 1 \in Nat
    BY <1>2, <1>4
  <2>6. n - 1 \in S
    BY <2>3, <2>4, <2>5, Climb
  <2>7. (n - 1) + 1 = n
    BY <1>2
  <2>8. f[n] = <<>>
    BY <2>2, <2>5, <2>6, <2>7, <1>2
  <2>9. QED  BY <2>1, <2>8
<1>5. QED  BY <1>3, <1>4

LEMMA PlainSigs ==
  ASSUME NEW cs, PlainAll(cs)
  PROVE  Chunked(cs) /\ NoSigs(cs) = FlattenSeq(cs) /\ Sigs(cs) = <<>>
<1>1. PICK n : n = Len(cs)
  OBVIOUS
<1>2. /\ IsSeq(cs) /\ n \in Nat
      /\ \A i \in 1..n : IsSeq(cs[i]) /\ cs[i] # <<>> /\ ~IsSignature(cs[i])
  BY <1>1, IsSeqLen DEF PlainAll, Plain, IsSignature
<1>3. Chunked(cs)
  BY <1>1, <1>2 DEF Chunked
<1>4. PICK b : b = Bare(cs)
  OBVIOUS
<1>5. PICK d : d = Signed(cs)
  OBVIOUS
<1>6. /\ NoSigs(cs) = FlattenSeq(b) /\ Sigs(cs) = FlattenSeq(d)
      /\ Nested(b) /\ Nested(d) /\ Len(b) = n /\ Len(d) = n
      /\ \A i \in 1..n : /\ b[i] = (IF IsSignature(cs[i]) THEN <<>> ELSE cs[i])
                         /\ d[i] = (IF IsSignature(cs[i]) THEN cs[i] ELSE <<>>)
  BY <1>1, <1>3, <1>4, <1>5, Halves
<1>7. b = cs
  <2>1. \A i \in 1..n : b[i] = cs[i]
    BY <1>2, <1>6
  <2>2. IsSeq(b) /\ Len(b) = Len(cs) /\ \A i \in 1..Len(b) : b[i] = cs[i]
    BY <2>1, <1>1, <1>6 DEF Nested
  <2>3. QED  BY <2>2, <1>2, SameSeq
<1>8. FlattenSeq(d) = <<>>
  <2>1. \A i \in 1..Len(d) : d[i] = <<>>
    BY <1>2, <1>6
  <2>2. QED  BY <2>1, <1>6, FlattenNone
<1>9. QED  BY <1>3, <1>6, <1>7, <1>8

LEMMA OneChunk ==
  ASSUME NEW c, IsSeq(c), c # <<>>
  PROVE  /\ Chunked(<<c>>)
         /\ IsSignature(c) => NoSigs(<<c>>) = <<>> /\ Sigs(<<c>>) = c
         /\ ~IsSignature(c) => NoSigs(<<c>>) = c /\ Sigs(<<c>>) = <<>>
<1>1. PICK cs : cs = <<c>>
  OBVIOUS
<1>2. IsSeq(cs) /\ Len(cs) = 1 /\ cs[1] = c
  BY <1>1, IsOne
<1>3. Chunked(cs)
  <2>1. \A i \in 1..1 : cs[i] = c
    BY <1>2
  <2>2. QED  BY <2>1, <1>2 DEF Chunked
<1>4. PICK b : b = Bare(cs)
  OBVIOUS
<1>5. PICK d : d = Signed(cs)
  OBVIOUS
<1>6. /\ NoSigs(cs) = FlattenSeq(b) /\ Sigs(cs) = FlattenSeq(d)
      /\ Nested(b) /\ Nested(d) /\ Len(b) = 1 /\ Len(d) = 1
      /\ \A i \in 1..1 : /\ b[i] = (IF IsSignature(cs[i]) THEN <<>> ELSE cs[i])
                         /\ d[i] = (IF IsSignature(cs[i]) THEN cs[i] ELSE <<>>)
  BY <1>2, <1>3, <1>4, <1>5, Halves
<1>7. IsSeq(b) /\ IsSeq(d)
  BY <1>6 DEF Nested
<1>8. 1 \in 1..1
  OBVIOUS
<1>9. /\ b[1] = (IF IsSignature(c) THEN <<>> ELSE c)
      /\ d[1] = (IF IsSignature(c) THEN c ELSE <<>>)
  BY <1>2, <1>6, <1>8
<1>10. ASSUME NEW x, NEW y, IsSeq(x), IsSeq(y), Len(y) = 1, y[1] = x PROVE FlattenSeq(y) = x
  <2>1. PICK z : z = <<x>>
    OBVIOUS
  <2>2. IsSeq(z) /\ Len(z) = 1 /\ z[1] = x
    BY <2>1, IsOne
  <2>3. Len(y) = Len(z) /\ \A i \in 1..Len(y) : y[i] = z[i]
    <3>1. \A i \in 1..1 : y[i] = z[i]
      BY <2>2, <1>10
    <3>2. QED  BY <3>1, <2>2, <1>10
  <2>4. y = z
    BY <2>2, <2>3, <1>10, SameSeq
  <2>5. QED  BY <2>1, <2>4, <1>10, FlattenOne
<1>11. IsSeq(<<>>)
  BY IsEmpty
<1>12. IsSignature(c) => FlattenSeq(b) = <<>> /\ FlattenSeq(d) = c
  BY <1>6, <1>7, <1>9, <1>10, <1>11
<1>13. ~IsSignature(c) => FlattenSeq(b) = c /\ FlattenSeq(d) = <<>>
  BY <1>6, <1>7, <1>9, <1>10, <1>11
<1>14. QED  BY <1>1, <1>3, <1>6, <1>12, <1>13

LEMMA NoChunks == Chunked(<<>>) /\ NoSigs(<<>>) = <<>> /\ Sigs(<<>>) = <<>>
<1>1. PICK e : e = <<>>
  OBVIOUS
<1>2. IsSeq(e) /\ Len(e) = 0
  BY <1>1, IsEmpty
<1>3. PlainAll(e)
  BY <1>2 DEF PlainAll
<1>4. Chunked(e) /\ NoSigs(e) = FlattenSeq(e) /\ Sigs(e) = <<>>
  BY <1>3, PlainSigs
<1>5. QED  BY <1>1, <1>4, FlattenEmpty

(***************************************************************************)
(* What is written.                                                        *)
(***************************************************************************)
Piece(m) == IF m.type = "signature" THEN << <<[sig |-> m.sig]>> >> ELSE ChunksCreate(m)
Writable(m) == m.type = "signature" \/ (m.type # "signature" /\ Sendable(m))
AllWritable(ms) == IsSeq(ms) /\ \A i \in 1..Len(ms) : Writable(ms[i])
Pieces(ms) == [i \in DOMAIN ms |-> Piece(ms[i])]

LEMMA SignaturePiece ==
  ASSUME NEW x
  PROVE  /\ Chunked(<< <<[sig |-> x]>> >>) /\ NoSigs(<< <<[sig |-> x]>> >>) = <<>>
         /\ Sigs(<< <<[sig |-> x]>> >>) = <<[sig |-> x]>>
<1>1. PICK r : r = [sig |-> x]
  OBVIOUS
<1>2. "sig" \in DOMAIN r
  BY <1>1
<1>3. PICK c : c = <<r>>
  OBVIOUS
<1>4. IsSeq(c) /\ Len(c) = 1 /\ c[1] = r
  BY <1>3, IsOne
<1>5. c # <<>>
  <2>1. Len(c) # 0
    BY <1>4
  <2>2. QED  BY <2>1, IsEmpty
<1>6. IsSignature(c)
  BY <1>2, <1>4 DEF IsSignature
<1>7. Chunked(<<c>>) /\ NoSigs(<<c>>) = <<>> /\ Sigs(<<c>>) = c
  BY <1>4, <1>5, <1>6, OneChunk
<1>8. QED  BY <1>1, <1>3, <1>7

LEMMA MessagePiece ==
  ASSUME NEW m, m.type # "signature", Sendable(m)
  PROVE  /\ Piece(m) = InChunks(0, m, RTMP_MAX_CHUNK_SIZE)
         /\ PlainAll(Piece(m)) /\ Chunked(Piece(m)) /\ Sigs(Piece(m)) = <<>>
         /\ NoSigs(Piece(m)) = FlattenSeq(InChunks(0, m, RTMP_MAX_CHUNK_SIZE))
<1>1. RTMP_MAX_CHUNK_SIZE \in Nat \ {0}
  BY ChunksAssumption
<1>2. m.payload # <<>>
  BY DEF Sendable
<1>3. PICK cs : cs = InChunks(0, m, RTMP_MAX_CHUNK_SIZE)
  OBVIOUS
<1>4. Piece(m) = cs
  BY <1>2, <1>3 DEF Piece, ChunksCreate
<1>5. PlainAll(cs)
  BY <1>1, <1>3, MessagePlain
<1>6. Chunked(cs) /\ NoSigs(cs) = FlattenSeq(cs) /\ Sigs(cs) = <<>>
  BY <1>5, PlainSigs
<1>7. QED  BY <1>3, <1>4, <1>5, <1>6

LEMMA PieceChunked ==
  ASSUME NEW m, Writable(m)
  PROVE  Chunked(Piece(m))
<1>1. CASE m.type = "signature"
  <2>1. PICK x : x = m.sig
    OBVIOUS
  <2>2. Piece(m) = << <<[sig |-> x]>> >>
    BY <1>1, <2>1 DEF Piece
  <2>3. Chunked(<< <<[sig |-> x]>> >>)
    BY SignaturePiece
  <2>4. QED  BY <2>2, <2>3
<1>2. CASE m.type # "signature" /\ Sendable(m)
  BY <1>2, MessagePiece
<1>3. QED  BY <1>1, <1>2 DEF Writable

LEMMA PiecesIs ==
  ASSUME NEW ms, AllWritable(ms)
  PROVE  /\ Written(ms) = FlattenSeq(Pieces(ms))
         /\ Nested(Pieces(ms)) /\ Len(Pieces(ms)) = Len(ms)
         /\ \A i \in 1..Len(ms) : Pieces(ms)[i] = Piece(ms[i]) /\ Chunked(Piece(ms[i]))
<1>1. PICK n : n = Len(ms)
  OBVIOUS
<1>2. n \in Nat /\ DOMAIN ms = 1..n
  BY <1>1, IsSeqLen DEF AllWritable
<1>3. PICK p : p = Pieces(ms)
  OBVIOUS
<1>4. DOMAIN p = 1..n /\ p = [i \in 1..n |-> p[i]] /\ \A i \in 1..n : p[i] = Piece(ms[i])
  BY <1>2, <1>3 DEF Pieces
<1>5. IsSeq(p) /\ Len(p) = n
  BY <1>2, <1>4, IsSeqFcn
<1>6. \A i \in 1..n : Chunked(Piece(ms[i]))
  BY <1>1, PieceChunked DEF AllWritable
<1>7. Nested(p)
  BY <1>4, <1>5, <1>6 DEF Nested, Chunked
<1>8. Written(ms) = FlattenSeq(Pieces(ms))
  BY DEF Written, Pieces, Piece
<1>9. QED  BY <1>1, <1>3, <1>4, <1>5, <1>6, <1>7, <1>8

LEMMA WrittenMore ==
  ASSUME NEW ms, NEW ns, AllWritable(ms), AllWritable(ns)
  PROVE  AllWritable(ms \o ns) /\ Written(ms \o ns) = Written(ms) \o Written(ns)
<1>1. PICK c : c = ms \o ns
  OBVIOUS
<1>2. PICK m : m = Len(ms)
  OBVIOUS
<1>3. PICK n : n = Len(ns)
  OBVIOUS
<1>4. IsSeq(ms) /\ IsSeq(ns) /\ m \in Nat /\ n \in Nat
  BY <1>2, <1>3, IsSeqLen DEF AllWritable
<1>5. /\ IsSeq(c) /\ Len(c) = m + n /\ (\A i \in 1..m : c[i] = ms[i])
      /\ (\A i \in 1..n : c[m + i] = ns[i])
  BY <1>1, <1>2, <1>3, <1>4, Concat
<1>6. AllWritable(c)
  <2>1. ASSUME NEW i \in 1..(m + n) PROVE Writable(c[i])
    <3>1. CASE i <= m
      <4>1. i \in 1..m
        BY <3>1, <1>4
      <4>2. QED  BY <4>1, <1>2, <1>5 DEF AllWritable
    <3>2. CASE i > m
      <4>1. PICK j : j = i - m
        OBVIOUS
      <4>2. j \in 1..n /\ i = m + j
        BY <4>1, <3>2, <1>4
      <4>3. c[i] = ns[j]
        BY <4>2, <1>5
      <4>4. QED  BY <4>2, <4>3, <1>3 DEF AllWritable
    <3>3. QED  BY <3>1, <3>2, <1>4
  <2>2. QED  BY <2>1, <1>5 DEF AllWritable
<1>7. PICK pa : pa = Pieces(ms)
  OBVIOUS
<1>8. PICK pb : pb = Pieces(ns)
  OBVIOUS
<1>9. PICK pc : pc = Pieces(c)
  OBVIOUS
<1>10. /\ Nested(pa) /\ Nested(pb) /\ Nested(pc)
       /\ Len(pa) = m /\ Len(pb) = n /\ Len(pc) = m + n
       /\ Written(ms) = FlattenSeq(pa) /\ Written(ns) = FlattenSeq(pb)
       /\ Written(c) = FlattenSeq(pc)
  BY <1>2, <1>3, <1>5, <1>6, <1>7, <1>8, <1>9, PiecesIs
<1>11. pc = pa \o pb
  <2>1. IsSeq(pa) /\ IsSeq(pb) /\ IsSeq(pc)
    BY <1>10 DEF Nested
  <2>2. /\ \A i \in 1..m : pa[i] = Piece(ms[i])
        /\ \A i \in 1..n : pb[i] = Piece(ns[i])
        /\ \A i \in 1..(m + n) : pc[i] = Piece(c[i])
    BY <1>2, <1>3, <1>5, <1>6, <1>7, <1>8, <1>9, PiecesIs
  <2>3. \A i \in 1..m : pc[i] = pa[i]
    <3>1. \A i \in 1..m : i \in 1..(m + n)
      BY <1>4
    <3>2. QED  BY <3>1, <2>2, <1>5
  <2>4. \A i \in 1..n : pc[m + i] = pb[i]
    <3>1. \A i \in 1..n : m + i \in 1..(m + n)
      BY <1>4
    <3>2. QED  BY <3>1, <2>2, <1>5
  <2>5. Joins(pc, pa, pb)
    BY <2>1, <2>3, <2>4, <1>10 DEF Joins
  <2>6. QED  BY <2>5, Joined
<1>12. FlattenSeq(pc) = FlattenSeq(pa) \o FlattenSeq(pb)
  BY <1>10, <1>11, FlattenConcat
<1>13. QED  BY <1>1, <1>6, <1>10, <1>12

LEMMA WrittenOne ==
  ASSUME NEW m, Writable(m)
  PROVE  AllWritable(<<m>>) /\ Written(<<m>>) = Piece(m)
<1>1. PICK ms : ms = <<m>>
  OBVIOUS
<1>2. IsSeq(ms) /\ Len(ms) = 1 /\ ms[1] = m
  BY <1>1, IsOne
<1>3. AllWritable(ms)
  <2>1. \A i \in 1..1 : ms[i] = m
    BY <1>2
  <2>2. QED  BY <2>1, <1>2 DEF AllWritable
<1>4. PICK p : p = Pieces(ms)
  OBVIOUS
<1>5. Written(ms) = FlattenSeq(p) /\ Nested(p) /\ Len(p) = 1 /\ p[1] = Piece(m)
  <2>1. 1 \in 1..Len(ms)
    BY <1>2
  <2>2. QED  BY <2>1, <1>2, <1>3, <1>4, PiecesIs
<1>6. PICK x : x = Piece(m)
  OBVIOUS
<1>7. IsSeq(x)
  BY <1>6, PieceChunked DEF Chunked
<1>8. PICK q : q = <<x>>
  OBVIOUS
<1>9. IsSeq(q) /\ Len(q) = 1 /\ q[1] = x
  BY <1>8, IsOne
<1>10. p = q
  <2>1. \A i \in 1..1 : p[i] = q[i]
    BY <1>5, <1>6, <1>9
  <2>2. IsSeq(p) /\ Len(p) = Len(q) /\ \A i \in 1..Len(p) : p[i] = q[i]
    BY <2>1, <1>5, <1>9 DEF Nested
  <2>3. QED  BY <2>2, <1>9, SameSeq
<1>11. FlattenSeq(q) = x
  BY <1>7, <1>8, FlattenOne
<1>12. QED  BY <1>1, <1>3, <1>5, <1>6, <1>10, <1>11

LEMMA WrittenNone == AllWritable(<<>>) /\ Written(<<>>) = <<>>
<1>1. PICK e : e = <<>>
  OBVIOUS
<1>2. IsSeq(e) /\ Len(e) = 0
  BY <1>1, IsEmpty
<1>3. AllWritable(e)
  BY <1>2 DEF AllWritable
<1>4. PICK p : p = Pieces(e)
  OBVIOUS
<1>5. Written(e) = FlattenSeq(p) /\ Nested(p) /\ Len(p) = 0
  BY <1>2, <1>3, <1>4, PiecesIs
<1>6. p = <<>>
  BY <1>5, EmptyLen DEF Nested
<1>7. QED  BY <1>1, <1>3, <1>5, <1>6, FlattenEmpty

LEMMA ChunkedFlatten ==
  ASSUME NEW css, IsSeq(css), \A i \in 1..Len(css) : Chunked(css[i])
  PROVE  Nested(css) /\ Chunked(FlattenSeq(css))
<1>1. PICK n : n = Len(css)
  OBVIOUS
<1>2. n \in Nat
  BY <1>1, IsSeqLen
<1>3. Nested(css)
  BY DEF Nested, Chunked
<1>4. CASE n = 0
  <2>1. css = <<>>
    BY <1>1, <1>4, EmptyLen
  <2>2. QED  BY <2>1, <1>3, FlattenEmpty, NoChunks
<1>5. CASE n # 0
  <2>1. PICK f : /\ f[1] = css[1] /\ \A i \in 2..n : f[i] = f[i - 1] \o css[i]
                 /\ FlattenSeq(css) = f[n]
    BY <1>1, <1>2, <1>5, FlattenStates
  <2>2. PICK S : S = {i \in Nat : i + 1 <= n => Chunked(f[i + 1])}
    OBVIOUS
  <2>3. 0 \in S
    <3>1. 1 \in 1..n
      BY <1>2, <1>5
    <3>2. Chunked(f[1])
      BY <3>1, <2>1, <1>1
    <3>3. Chunked(f[0 + 1])
      BY <3>2
    <3>4. QED  BY <3>3, <2>2
  <2>4. ASSUME NEW i \in Nat, i \in S PROVE i + 1 \in S
    <3>1. CASE (i + 1) + 1 <= n
      <4>1. Chunked(f[i + 1])
        BY <3>1, <2>2, <2>4, <1>2
      <4>2. PICK j : j = i + 2
        OBVIOUS
      <4>3. j \in 2..n /\ j \in 1..n /\ j - 1 = i + 1
        BY <3>1, <4>2, <1>2
      <4>4. f[j] = f[i + 1] \o css[j] /\ Chunked(css[j])
        BY <4>3, <2>1, <1>1
      <4>5. Chunked(f[j])
        BY <4>1, <4>4, ChunkedMore
      <4>6. (i + 1) + 1 = j
        BY <4>2
      <4>7. Chunked(f[(i + 1) + 1])
        BY <4>5, <4>6
      <4>8. QED  BY <4>7, <2>2
    <3>2. CASE ~((i + 1) + 1 <= n)
      BY <3>2, <2>2
    <3>3. QED  BY <3>1, <3>2
  <2>5. n - 1 \in Nat
    BY <1>2, <1>5
  <2>6. n - 1 \in S
    BY <2>3, <2>4, <2>5, Climb
  <2>7. (n - 1) + 1 = n
    BY <1>2
  <2>8. Chunked(f[n])
    BY <2>2, <2>5, <2>6, <2>7, <1>2
  <2>9. QED  BY <2>1, <2>8, <1>3
<1>6. QED  BY <1>4, <1>5

LEMMA WrittenChunked ==
  ASSUME NEW ms, AllWritable(ms)
  PROVE  Chunked(Written(ms))
<1>1. PICK p : p = Pieces(ms)
  OBVIOUS
<1>2. Written(ms) = FlattenSeq(p) /\ Nested(p) /\ Len(p) = Len(ms)
      /\ \A i \in 1..Len(ms) : p[i] = Piece(ms[i]) /\ Chunked(Piece(ms[i]))
  BY <1>1, PiecesIs
<1>3. IsSeq(p) /\ \A i \in 1..Len(p) : Chunked(p[i])
  BY <1>2 DEF Nested
<1>4. QED  BY <1>2, <1>3, ChunkedFlatten

\* The states of a reader after each of some messages.
LEMMA ReadMessages ==
  ASSUME NEW z, NEW css, IsSeq(css), \A i \in 1..Len(css) : PlainAll(css[i])
  PROVE  /\ IsSeq(FlattenSeq(FlattenSeq(css)))
         /\ \E g : /\ g[0] = z
                   /\ \A i \in 1..Len(css) : g[i] = ReadOn(g[i - 1], FlattenSeq(css[i]))
                   /\ ReadOn(z, FlattenSeq(FlattenSeq(css))) = g[Len(css)]
<1>1. PICK n : n = Len(css)
  OBVIOUS
<1>2. n \in Nat
  BY <1>1, IsSeqLen
<1>3. \A i \in 1..n : Nested(css[i]) /\ IsSeq(FlattenSeq(css[i]))
  BY <1>1, PlainNested
<1>4. Nested(css)
  BY <1>1, <1>3 DEF Nested
<1>5. DEFINE F(i) == FlattenSeq(SubSeq(css, 1, i))
<1>6. SubSeq(css, 1, 0) = <<>> /\ SubSeq(css, 1, n) = css
  BY <1>1, SubWhole
<1>7. F(0) = <<>> /\ F(n) = FlattenSeq(css)
  BY <1>6, FlattenEmpty
<1>8. ASSUME NEW i \in Nat, i < n PROVE F(i + 1) = F(i) \o css[i + 1]
  <2>1. i < Len(css)
    BY <1>8, <1>1
  <2>2. QED  BY <2>1, <1>4, FlattenStep
<1>9. \A i \in 0..n : Nested(F(i))
  <2>1. PICK S : S = {i \in Nat : i <= n => Nested(F(i))}
    OBVIOUS
  <2>2. 0 \in S
    <3>1. Nested(<<>>)
      <4>1. PICK e : e = <<>>
        OBVIOUS
      <4>2. IsSeq(e) /\ Len(e) = 0
        BY <4>1, IsEmpty
      <4>3. Nested(e)
        BY <4>2 DEF Nested
      <4>4. QED  BY <4>1, <4>3
    <3>2. Nested(F(0))
      BY <3>1, <1>7
    <3>3. QED  BY <3>2, <2>1
  <2>3. ASSUME NEW i \in Nat, i \in S PROVE i + 1 \in S
    <3>1. CASE i + 1 <= n
      <4>1. Nested(F(i)) /\ i < n
        BY <3>1, <2>1, <2>3, <1>2
      <4>2. i + 1 \in 1..n
        BY <3>1, <1>2
      <4>3. Nested(css[i + 1])
        BY <4>2, <1>3
      <4>4. PICK a : a = F(i)
        OBVIOUS
      <4>5. PICK b : b = css[i + 1]
        OBVIOUS
      <4>6. Nested(a \o b)
        BY <4>1, <4>3, <4>4, <4>5, FlattenConcat
      <4>7. F(i + 1) = a \o b
        BY <4>1, <4>4, <4>5, <1>8
      <4>8. Nested(F(i + 1))
        BY <4>6, <4>7
      <4>9. QED  BY <4>8, <2>1
    <3>2. CASE ~(i + 1 <= n)
      BY <3>2, <2>1
    <3>3. QED  BY <3>1, <3>2
  <2>4. Nat \subseteq S
    BY <2>2, <2>3, Climb
  <2>5. QED  BY <2>1, <2>4, <1>2
<1>10. PICK g : g = [i \in 0..n |-> ReadOn(z, FlattenSeq(F(i)))]
  OBVIOUS
<1>11. g[0] = z
  <2>1. 0 \in 0..n
    BY <1>2
  <2>2. g[0] = ReadOn(z, FlattenSeq(F(0)))
    BY <2>1, <1>10
  <2>3. g[0] = ReadOn(z, <<>>)
    BY <2>2, <1>7, FlattenEmpty
  <2>4. QED  BY <2>3, ReadNothing
<1>12. \A i \in 1..n : g[i] = ReadOn(g[i - 1], FlattenSeq(css[i]))
  <2> TAKE i \in 1..n
  <2>1. PICK j : j = i - 1
    OBVIOUS
  <2>2. j \in Nat /\ i = j + 1 /\ j \in 0..n /\ i \in 0..n /\ j < n
    BY <1>2, <2>1
  <2>3. PICK a : a = F(j)
    OBVIOUS
  <2>4. PICK b : b = css[i]
    OBVIOUS
  <2>5. F(i) = a \o b
    BY <2>2, <2>3, <2>4, <1>8
  <2>6. Nested(a) /\ Nested(b)
    BY <2>2, <2>3, <2>4, <1>3, <1>9
  <2>7. FlattenSeq(a \o b) = FlattenSeq(a) \o FlattenSeq(b)
    BY <2>6, FlattenConcat
  <2>8. IsSeq(FlattenSeq(a)) /\ IsSeq(FlattenSeq(b))
    BY <2>6, FlattenSeqs
  <2>9. ReadOn(z, FlattenSeq(a) \o FlattenSeq(b)) = ReadOn(ReadOn(z, FlattenSeq(a)), FlattenSeq(b))
    BY <2>8, ReadParts
  <2>10. g[i] = ReadOn(z, FlattenSeq(F(i))) /\ g[j] = ReadOn(z, FlattenSeq(F(j)))
    BY <2>2, <1>10
  <2>11. g[i] = ReadOn(z, FlattenSeq(a \o b)) /\ g[j] = ReadOn(z, FlattenSeq(a))
    BY <2>3, <2>5, <2>10
  <2>12. g[i] = ReadOn(g[j], FlattenSeq(b))
    BY <2>7, <2>9, <2>11
  <2>13. QED  BY <2>1, <2>4, <2>12
<1>13. g[n] = ReadOn(z, FlattenSeq(FlattenSeq(css)))
  <2>1. n \in 0..n
    BY <1>2
  <2>2. g[n] = ReadOn(z, FlattenSeq(F(n)))
    BY <2>1, <1>10
  <2>3. QED  BY <2>2, <1>7
<1>14. IsSeq(FlattenSeq(FlattenSeq(css)))
  <2>1. n \in 0..n
    BY <1>2
  <2>2. Nested(F(n))
    BY <2>1, <1>9
  <2>3. Nested(FlattenSeq(css))
    BY <2>2, <1>7
  <2>4. QED  BY <2>3, FlattenSeqs
<1>15. QED  BY <1>1, <1>11, <1>12, <1>13, <1>14

LEMMA DeliveredQuiet ==
  ASSUME NEW z, NEW m, NEW e, Sendable(m), Quiet(z), Delivered(z, e, m)
  PROVE  Quiet(e) /\ AtRest(e)
<1>1. PICK c : c = CidRead(m.cid)
  OBVIOUS
<1>2. PICK k : k = Partial(m, 0)
  OBVIOUS
<1>3. PICK f : f = z.inPackets
  OBVIOUS
<1>4. PICK d : d = e.inPackets
  OBVIOUS
<1>5. d = Updated(f, c, k) /\ AtRest(e)
  BY <1>1, <1>2, <1>3, <1>4 DEF Delivered
<1>6. IsPacket(k) /\ k.payload = <<>>
  <2>1. IsSeq(m.payload)
    BY DEF Sendable, Cells
  <2>2. 0 \in Nat /\ 0 <= Len(m.payload)
    BY <2>1, IsSeqLen
  <2>3. IsPacket(k) /\ k.payload = SubSeq(m.payload, 1, 0)
    BY <2>1, <2>2, <1>2, PartialIs
  <2>4. QED  BY <2>1, <2>3, SubWhole
<1>7. \A x \in DOMAIN d : d[x] = k \/ (x \in DOMAIN f /\ d[x] = f[x])
  BY <1>5 DEF Updated
<1>8. \A x \in DOMAIN f : IsPacket(f[x]) /\ f[x].payload = <<>>
  BY <1>3 DEF Quiet
<1>9. \A x \in DOMAIN d : IsPacket(d[x]) /\ d[x].payload = <<>>
  BY <1>6, <1>7, <1>8
<1>10. QED  BY <1>4, <1>5, <1>9 DEF Quiet

\* One more message, or part of the handshake, is under way.
LEMMA PieceRead ==
  ASSUME NEW p, NEW cs, Chunked(cs), NEW z, z = ReadOn(p, NoSigs(cs)), NEW m,
         NEW e, e = ReadOn(p, NoSigs(cs \o Piece(m)))
  PROVE  /\ m.type = "signature" => e = z
         /\ m.type # "signature" /\ Reads(z, m, RTMP_MAX_CHUNK_SIZE) => Delivered(z, e, m)
<1>1. IsSeq(NoSigs(cs))
  BY Halves
<1>2. ASSUME m.type = "signature" PROVE e = z
  <2>1. PICK x : x = m.sig
    OBVIOUS
  <2>2. PICK d : d = << <<[sig |-> x]>> >>
    OBVIOUS
  <2>3. Piece(m) = d
    BY <1>2, <2>1, <2>2 DEF Piece
  <2>4. Chunked(d) /\ NoSigs(d) = <<>>
    BY <2>2, SignaturePiece
  <2>5. NoSigs(cs \o d) = NoSigs(cs) \o NoSigs(d)
    BY <2>4, ChunkedMore
  <2>6. NoSigs(cs) \o <<>> = NoSigs(cs)
    BY <1>1, ConcatEmpty
  <2>7. QED  BY <2>3, <2>4, <2>5, <2>6
<1>3. ASSUME m.type # "signature", Reads(z, m, RTMP_MAX_CHUNK_SIZE) PROVE Delivered(z, e, m)
  <2>1. Sendable(m)
    BY <1>3 DEF Reads
  <2>2. PICK d : d = Piece(m)
    OBVIOUS
  <2>3. PICK u : u = FlattenSeq(InChunks(0, m, RTMP_MAX_CHUNK_SIZE))
    OBVIOUS
  <2>4. Chunked(d) /\ NoSigs(d) = u
    BY <2>1, <2>2, <2>3, <1>3, MessagePiece
  <2>5. NoSigs(cs \o d) = NoSigs(cs) \o u
    BY <2>4, ChunkedMore
  <2>6. IsSeq(u)
    BY <2>4, Halves
  <2>7. ReadOn(p, NoSigs(cs) \o u) = ReadOn(ReadOn(p, NoSigs(cs)), u)
    BY <2>6, <1>1, ReadParts
  <2>8. e = ReadOn(z, u)
    BY <2>2, <2>5, <2>7
  <2>9. Delivered(z, ReadOn(z, FlattenSeq(InChunks(0, m, RTMP_MAX_CHUNK_SIZE))), m)
    BY <1>3, MessageReads
  <2>10. QED  BY <2>3, <2>8, <2>9
<1>4. QED  BY <1>2, <1>3

(***************************************************************************)
(* A command that was written is read: its first values.                   *)
(***************************************************************************)
LEMMA FlattenTail ==
  ASSUME NEW es, Nested(es), NEW i \in Nat, i < Len(es)
  PROVE  /\ IsSeq(es[i + 1])
         /\ IsSeq(FlattenSeq(SubSeq(es, i + 2, Len(es))))
         /\ FlattenSeq(SubSeq(es, i + 1, Len(es)))
              = es[i + 1] \o FlattenSeq(SubSeq(es, i + 2, Len(es)))
<1>1. PICK n \in Nat : n = Len(es)
  BY IsSeqLen DEF Nested
<1>2. IsSeq(es)
  BY DEF Nested
<1>3. PICK u, v, x : u = SubSeq(es, i + 1, n) /\ v = SubSeq(es, i + 2, n) /\ x = es[i + 1]
  OBVIOUS
<1>4. /\ IsSeq(u) /\ Len(u) = n - i
      /\ \A j \in 1..(n - i) : u[j] = es[i + j]
  <2>1. i + 1 \in Nat /\ 1 <= i + 1 /\ n <= Len(es) /\ i + 1 <= n
    BY <1>1
  <2>2. /\ IsSeq(SubSeq(es, i + 1, n))
        /\ Len(SubSeq(es, i + 1, n)) = IF i + 1 <= n THEN (n - (i + 1)) + 1 ELSE 0
        /\ \A j \in 1..((n - (i + 1)) + 1) : SubSeq(es, i + 1, n)[j] = es[((i + 1) + j) - 1]
    BY <1>1, <1>2, <2>1, SubIs
  <2>3. (n - (i + 1)) + 1 = n - i /\ \A j \in 1..(n - i) : ((i + 1) + j) - 1 = i + j
    BY <1>1
  <2>4. QED  BY <1>3, <2>1, <2>2, <2>3
<1>5. /\ IsSeq(v) /\ Len(v) = (n - i) - 1
      /\ \A j \in 1..((n - i) - 1) : v[j] = es[(i + 1) + j]
  <2>1. i + 2 \in Nat /\ 1 <= i + 2 /\ n <= Len(es) /\ i + 1 <= n
    BY <1>1
  <2>2. /\ IsSeq(SubSeq(es, i + 2, n))
        /\ Len(SubSeq(es, i + 2, n)) = IF i + 2 <= n THEN (n - (i + 2)) + 1 ELSE 0
        /\ \A j \in 1..((n - (i + 2)) + 1) : SubSeq(es, i + 2, n)[j] = es[((i + 2) + j) - 1]
    BY <1>1, <1>2, <2>1, SubIs
  <2>3. /\ (n - (i + 2)) + 1 = (n - i) - 1
        /\ \A j \in 1..((n - i) - 1) : ((i + 2) + j) - 1 = (i + 1) + j
        /\ (IF i + 2 <= n THEN (n - (i + 2)) + 1 ELSE 0) = (n - i) - 1
    BY <1>1, <2>1
  <2>4. QED  BY <1>3, <2>2, <2>3
<1>6. IsSeq(<<x>>) /\ Len(<<x>>) = 1 /\ <<x>>[1] = x
  BY IsOne
<1>7. PICK o : o = <<x>>
  OBVIOUS
<1>8. /\ IsSeq(o \o v) /\ Len(o \o v) = 1 + Len(v)
      /\ (o \o v)[1] = x
      /\ \A j \in 1..Len(v) : (o \o v)[1 + j] = v[j]
  <2>1. IsSeq(o) /\ Len(o) = 1 /\ o[1] = x
    BY <1>6, <1>7
  <2>2. /\ IsSeq(o \o v) /\ Len(o \o v) = Len(o) + Len(v)
        /\ \A j \in 1..Len(o) : (o \o v)[j] = o[j]
        /\ \A j \in 1..Len(v) : (o \o v)[Len(o) + j] = v[j]
    <3>1. IsSeq(v)
      BY <1>5
    <3>2. IsSeq(o)
      BY <2>1
    <3>3. QED  BY <3>1, <3>2, Concat
  <2>3. PICK w : w = o \o v
    OBVIOUS
  <2>4. PICK l : l = Len(o)
    OBVIOUS
  <2>5. l = 1 /\ 1 \in 1..l
    BY <2>1, <2>4
  <2>6. /\ IsSeq(w) /\ Len(w) = l + Len(v)
        /\ \A j \in 1..l : w[j] = o[j]
        /\ \A j \in 1..Len(v) : w[l + j] = v[j]
    BY <2>2, <2>3, <2>4
  <2>7. QED  BY <2>1, <2>3, <2>5, <2>6
<1>9. u = o \o v
  <2>1. PICK w : w = o \o v
    OBVIOUS
  <2>2. Len(u) = Len(w) /\ Len(u) = n - i /\ Len(w) = n - i
    <3>1. Len(w) = 1 + Len(v)
      BY <1>8, <2>1
    <3>2. 1 + ((n - i) - 1) = n - i
      BY <1>1
    <3>3. QED  BY <3>1, <3>2, <1>4, <1>5
  <2>3. ASSUME NEW j \in 1..Len(u) PROVE u[j] = w[j]
    <3>1. CASE j = 1
      BY <3>1, <2>2, <1>4, <1>3, <1>8, <2>1, <2>3, <1>1
    <3>2. CASE j # 1
      <4>1. PICK h \in 1..((n - i) - 1) : j = 1 + h
        <5>1. j - 1 \in 1..((n - i) - 1) /\ j = 1 + (j - 1)
          BY <3>2, <2>3, <2>2, <1>1
        <5>2. QED  BY <5>1
      <4>2. w[1 + h] = v[h]
        BY <1>8, <1>5, <2>1, <4>1
      <4>3. v[h] = es[(i + 1) + h]
        BY <1>5, <4>1
      <4>4. u[j] = es[i + j] /\ i + j = (i + 1) + h
        BY <1>4, <2>2, <2>3, <4>1, <1>1
      <4>5. QED  BY <4>1, <4>2, <4>3, <4>4
    <3>3. QED  BY <3>1, <3>2
  <2>4. IsSeq(w)
    BY <1>8, <2>1
  <2>5. u = w
    BY <1>4, <2>2, <2>3, <2>4, SameSeq
  <2>6. QED  BY <2>1, <2>5
<1>10. IsSeq(x) /\ \A j \in 1..Len(v) : IsSeq(v[j])
  <2>1. \A j \in 1..n : IsSeq(es[j])
    BY <1>1 DEF Nested
  <2>2. i + 1 \in 1..n /\ \A j \in 1..((n - i) - 1) : (i + 1) + j \in 1..n
    BY <1>1
  <2>3. QED  BY <1>3, <1>5, <2>1, <2>2
<1>11. Nested(v) /\ IsSeq(FlattenSeq(v))
  <2>1. Nested(v)
    BY <1>5, <1>10 DEF Nested
  <2>2. QED  BY <2>1, FlattenSeqs
<1>12. FlattenSeq(o) = x /\ Nested(o)
  BY <1>7, <1>10, FlattenOne
<1>13. FlattenSeq(o \o v) = FlattenSeq(o) \o FlattenSeq(v)
  BY <1>11, <1>12, FlattenConcat
<1>14. QED  BY <1>1, <1>3, <1>9, <1>10, <1>11, <1>12, <1>13

LEMMA FlattenWhole ==
  ASSUME NEW es, Nested(es)
  PROVE  FlattenSeq(SubSeq(es, 0 + 1, Len(es))) = FlattenSeq(es)
<1>1. IsSeq(es)
  BY DEF Nested
<1>2. SubSeq(es, 1, Len(es)) = es
  BY <1>1, SubWhole
<1>3. 0 + 1 = 1
  OBVIOUS
<1>4. QED  BY <1>2, <1>3

\* The first k names are given, and no other name is like one of them.
Leads(opt, names, k, r) ==
  /\ k \in Nat /\ k <= Len(names)
  /\ \A i \in 1..k : names[i] \in DOMAIN opt /\ ReadsAs(opt[names[i]], r[i])
  /\ \A i \in 1..Len(names) :
       names[i] # "cmd" /\ \A j \in 1..k : j # i => names[j] # names[i]

\* What is read after i of the values.
Filled(acc, names, es, r, t, i) ==
  /\ acc.rest = FlattenSeq(SubSeq(es, i + 1, Len(es)))
  /\ "cmd" \in DOMAIN acc.resp /\ acc.resp["cmd"] = Str(t)
  /\ \A j \in 1..i : names[j] \in DOMAIN acc.resp /\ acc.resp[names[j]] = r[j]

LEMMA NamedIs ==
  ASSUME NEW acc, NEW n, NEW x
  PROVE  /\ Named(acc, n, x).rest = From(acc.rest, x.length + 1)
         /\ DOMAIN Named(acc, n, x).resp = DOMAIN acc.resp \cup {n}
         /\ Named(acc, n, x).resp[n] = x.value
         /\ \A y \in DOMAIN acc.resp : y # n => Named(acc, n, x).resp[y] = acc.resp[y]
  BY DEF Named

LEMMA FilledMore ==
  ASSUME NEW opt, HasValues(opt), NEW names, IsSeq(names), NEW k, NEW r,
         Leads(opt, names, k, r), NEW es, es = Values(opt, names), NEW t,
         NEW i \in Nat, i < k, NEW acc, Filled(acc, names, es, r, t, i)
  PROVE  Filled(NextValue(acc, names[i + 1]), names, es, r, t, i + 1)
<1>1. /\ IsSeq(es) /\ Len(es) = Len(names)
      /\ \A j \in 1..Len(names) :
           Cells(es[j]) /\ (names[j] \in DOMAIN opt => es[j] = EncodeOne(opt[names[j]]))
  BY ValuesCells DEF HasValues
<1>2. Nested(es)
  <2>1. \A j \in 1..Len(es) : IsSeq(es[j])
    BY <1>1 DEF Cells
  <2>2. QED  BY <1>1, <2>1 DEF Nested
<1>3. Len(names) \in Nat /\ i + 1 \in 1..k /\ i + 1 \in 1..Len(names) /\ i < Len(es)
  <2>1. Len(names) \in Nat
    BY IsSeqLen
  <2>2. QED  BY <2>1, <1>1 DEF Leads
<1>4. PICK n, e, u : n = names[i + 1] /\ e = es[i + 1]
                     /\ u = FlattenSeq(SubSeq(es, i + 2, Len(es)))
  OBVIOUS
<1>5. IsSeq(e) /\ IsSeq(u) /\ FlattenSeq(SubSeq(es, i + 1, Len(es))) = e \o u
  BY <1>2, <1>3, <1>4, FlattenTail
<1>6. n \in DOMAIN opt /\ ReadsAs(opt[n], r[i + 1]) /\ e = EncodeOne(opt[n])
  <2>1. names[i + 1] \in DOMAIN opt /\ ReadsAs(opt[names[i + 1]], r[i + 1])
    BY <1>3 DEF Leads
  <2>2. es[i + 1] = EncodeOne(opt[names[i + 1]])
    BY <1>1, <1>3, <2>1
  <2>3. QED  BY <1>4, <2>1, <2>2
<1>7. DecodeOne(e \o u) = Got(Len(e), r[i + 1])
  BY <1>5, <1>6 DEF ReadsAs
<1>8. e # <<>>
  BY <1>6, EncodeCells DEF HasValues
<1>9. e \o u # <<>>
  BY <1>5, <1>8, FirstOf
<1>10. acc.rest = e \o u
  BY <1>5 DEF Filled
<1>11. PICK x : x = Got(Len(e), r[i + 1])
  OBVIOUS
<1>12. x.length = Len(e) /\ x.value = r[i + 1]
  BY <1>11 DEF Got
<1>13. NextValue(acc, n) = Named(acc, n, x)
  BY <1>7, <1>9, <1>10, <1>11 DEF NextValue
<1>14. PICK b : b = NextValue(acc, n)
  OBVIOUS
<1>15. /\ b.rest = From(acc.rest, x.length + 1)
       /\ DOMAIN b.resp = DOMAIN acc.resp \cup {n}
       /\ b.resp[n] = x.value
       /\ \A y \in DOMAIN acc.resp : y # n => b.resp[y] = acc.resp[y]
  BY <1>13, <1>14, NamedIs
<1>16. From(e \o u, Len(e) + 1) = u
  BY <1>5, FromNext
<1>17. b.rest = u
  BY <1>10, <1>12, <1>15, <1>16
<1>18. n # "cmd" /\ \A j \in 1..i : names[j] # n
  <2>1. n # "cmd"
    BY <1>3, <1>4 DEF Leads
  <2>2. ASSUME NEW j \in 1..i PROVE names[j] # n
    <3>1. j \in 1..k /\ j # i + 1
      BY <2>2, <1>3 DEF Leads
    <3>2. QED  BY <3>1, <1>3, <1>4 DEF Leads
  <2>3. QED  BY <2>1, <2>2
<1>19. "cmd" \in DOMAIN b.resp /\ b.resp["cmd"] = Str(t)
  BY <1>15, <1>18 DEF Filled
<1>20. ASSUME NEW j \in 1..(i + 1)
       PROVE  names[j] \in DOMAIN b.resp /\ b.resp[names[j]] = r[j]
  <2>1. CASE j = i + 1
    BY <2>1, <1>4, <1>12, <1>15
  <2>2. CASE j # i + 1
    <3>1. j \in 1..i
      BY <2>2, <1>20
    <3>2. names[j] \in DOMAIN acc.resp /\ acc.resp[names[j]] = r[j]
      BY <3>1 DEF Filled
    <3>3. names[j] # n
      BY <3>1, <1>18
    <3>4. QED  BY <3>2, <3>3, <1>15
  <2>3. QED  BY <2>1, <2>2
<1>21. b.rest = FlattenSeq(SubSeq(es, (i + 1) + 1, Len(es)))
  <2>1. (i + 1) + 1 = i + 2
    OBVIOUS
  <2>2. QED  BY <1>4, <1>17, <2>1
<1>22. Filled(b, names, es, r, t, i + 1)
  BY <1>19, <1>20, <1>21, Zenon DEF Filled
<1>23. QED  BY <1>4, <1>14, <1>22

\* What was read of the first k values stays.
Keeps(acc, names, r, t, k) ==
  /\ "cmd" \in DOMAIN acc.resp /\ acc.resp["cmd"] = Str(t)
  /\ \A j \in 1..k : names[j] \in DOMAIN acc.resp /\ acc.resp[names[j]] = r[j]

LEMMA KeepsMore ==
  ASSUME NEW opt, NEW names, NEW k, NEW r, Leads(opt, names, k, r), NEW t,
         NEW i \in Nat, i + 1 <= Len(names), i >= k,
         NEW acc, Keeps(acc, names, r, t, k)
  PROVE  Keeps(NextValue(acc, names[i + 1]), names, r, t, k)
<1>1. CASE acc.rest = <<>>
  BY <1>1 DEF NextValue
<1>2. CASE acc.rest # <<>>
  <2>1. PICK n, x, b : n = names[i + 1] /\ x = DecodeOne(acc.rest) /\ b = Named(acc, n, x)
    OBVIOUS
  <2>2. NextValue(acc, names[i + 1]) = b
    BY <1>2, <2>1 DEF NextValue
  <2>3. /\ DOMAIN b.resp = DOMAIN acc.resp \cup {n}
        /\ \A y \in DOMAIN acc.resp : y # n => b.resp[y] = acc.resp[y]
    BY <2>1, NamedIs
  <2>4. k \in Nat /\ i + 1 \in 1..Len(names) /\ \A j \in 1..k : j # i + 1
    <3>1. k \in Nat
      BY DEF Leads
    <3>2. CASE Len(names) \in Int
      BY <3>1, <3>2
    <3>3. i + 1 \in 1..Len(names)
      BY <3>1, <3>2
    <3>4. QED  BY <3>1, <3>3
  <2>5. n # "cmd" /\ \A j \in 1..k : names[j] # n
    BY <2>1, <2>4 DEF Leads
  <2>6. QED  BY <2>2, <2>3, <2>5 DEF Keeps
<1>3. QED  BY <1>1, <1>2

LEMMA FoldNext ==
  ASSUME NEW opt, HasValues(opt), NEW names, IsSeq(names), NEW k, NEW r,
         Leads(opt, names, k, r), NEW es, es = Values(opt, names), NEW t,
         NEW acc, Filled(acc, names, es, r, t, 0)
  PROVE  Keeps(ValueAll(acc, names), names, r, t, k)
<1>1. PICK n \in Nat : n = Len(names)
  BY IsSeqLen
<1>2. k \in Nat /\ k <= n
  BY <1>1 DEF Leads
<1>3. PICK g : /\ g[0] = acc
               /\ \A i \in 1..n : g[i] = NextValue(g[i - 1], names[i])
               /\ ValueAll(acc, names) = g[n]
  <2>1. PICK g : /\ g[0] = acc
                 /\ \A i \in 1..Len(names) : g[i] = NextValue(g[i - 1], names[i])
                 /\ ValueAll(acc, names) = g[Len(names)]
    BY ValueFold
  <2>2. QED  BY <2>1, <1>1
<1>4. PICK S : S = {i \in Nat : i <= k => Filled(g[i], names, es, r, t, i)}
  OBVIOUS
<1>5. Nat \subseteq S
  <2>1. 0 \in S
    BY <1>3, <1>4
  <2>2. ASSUME NEW i \in Nat, i \in S PROVE i + 1 \in S
    <3>1. SUFFICES ASSUME i + 1 <= k PROVE Filled(g[i + 1], names, es, r, t, i + 1)
      BY <1>4
    <3>2. i < k /\ i + 1 \in 1..n /\ (i + 1) - 1 = i
      BY <3>1, <1>2
    <3>3. Filled(g[i], names, es, r, t, i)
      BY <1>4, <2>2, <3>2, <1>2
    <3>4. Filled(NextValue(g[i], names[i + 1]), names, es, r, t, i + 1)
      BY <3>2, <3>3, FilledMore
    <3>5. g[i + 1] = NextValue(g[i], names[i + 1])
      BY <1>3, <3>2
    <3>6. QED  BY <3>4, <3>5
  <2>3. QED  BY <2>1, <2>2, Climb
<1>6. Keeps(g[k], names, r, t, k)
  <2>1. Filled(g[k], names, es, r, t, k)
    BY <1>2, <1>4, <1>5
  <2>2. QED  BY <2>1 DEF Filled, Keeps
<1>7. PICK T : T = {i \in Nat : k + i <= n => Keeps(g[k + i], names, r, t, k)}
  OBVIOUS
<1>8. Nat \subseteq T
  <2>1. 0 \in T
    BY <1>2, <1>6, <1>7
  <2>2. ASSUME NEW i \in Nat, i \in T PROVE i + 1 \in T
    <3>1. SUFFICES ASSUME k + (i + 1) <= n PROVE Keeps(g[k + (i + 1)], names, r, t, k)
      BY <1>7
    <3>2. PICK j \in Nat : j = k + i
      BY <1>2
    <3>3. /\ j + 1 = k + (i + 1) /\ j + 1 <= n /\ j >= k /\ j + 1 \in 1..n
          /\ (j + 1) - 1 = j /\ k + i <= n
      BY <3>1, <3>2, <1>2
    <3>4. Keeps(g[j], names, r, t, k)
      BY <1>7, <2>2, <3>2, <3>3
    <3>5. Keeps(NextValue(g[j], names[j + 1]), names, r, t, k)
      BY <3>3, <3>4, <1>1, KeepsMore
    <3>6. g[j + 1] = NextValue(g[j], names[j + 1])
      BY <1>3, <3>3
    <3>7. QED  BY <3>3, <3>5, <3>6
  <2>3. QED  BY <2>1, <2>2, Climb
<1>9. Keeps(g[n], names, r, t, k)
  <2>1. n - k \in Nat /\ k + (n - k) = n
    BY <1>2
  <2>2. QED  BY <2>1, <1>7, <1>8
<1>10. QED  BY <1>3, <1>9

\* A command is read as what it was written from: its name, and its first values
\* under the names that AMF gives them, where these are read as they were written.
THEOREM CommandReads ==
  ASSUME NEW opt, HasValues(opt), NEW t, opt.cmd = Str(t), t \notin Wide,
         NEW names, names = CmdCode(t), NEW k, NEW r, Leads(opt, names, k, r),
         NEW d, d = DecodeAmf0Cmd(EncodeAmf0Cmd(opt))
  PROVE  d["cmd"] = Str(t) /\ \A j \in 1..k : d[names[j]] = r[j]
<1>1. IsSeq(names)
  BY NamesSeq
<1>2. PICK es : es = Values(opt, names)
  OBVIOUS
<1>3. Nested(es)
  <2>1. IsSeq(es) /\ Len(es) = Len(names) /\ \A j \in 1..Len(names) : Cells(es[j])
    BY <1>1, <1>2, ValuesCells DEF HasValues
  <2>2. \A j \in 1..Len(es) : IsSeq(es[j])
    BY <2>1 DEF Cells
  <2>3. QED  BY <2>1, <2>2 DEF Nested
<1>4. PICK a, b : a = EncodeOne(opt.cmd) /\ b = FlattenSeq(es)
  OBVIOUS
<1>5. Str(t).text = t /\ Str(t).type = "string"
  BY DEF Str
<1>6. EncodeAmf0Cmd(opt) = a \o b
  BY <1>2, <1>4, <1>5, Zenon DEF EncodeAmf0Cmd, Values
<1>7. IsSeq(a) /\ IsSeq(b)
  BY <1>3, <1>4, FlattenSeqs, StrReads
<1>8. PICK c : c = Got(Len(a), Str(t))
  OBVIOUS
<1>9. c.length = Len(a) /\ c.value = Str(t)
  BY <1>8 DEF Got
<1>10. DecodeOne(a \o b) = c
  <2>1. ReadsAs(Str(t), Str(t))
    BY StrReads
  <2>2. QED  BY <2>1, <1>4, <1>7, <1>8 DEF ReadsAs
<1>11. From(a \o b, Len(a) + 1) = b
  BY <1>7, FromNext
<1>12. PICK acc : acc = [rest |-> b, resp |-> [cmd |-> Str(t)]]
  OBVIOUS
<1>13. d = ValueAll(acc, names).resp
  BY <1>5, <1>6, <1>9, <1>10, <1>11, <1>12, Zenon DEF DecodeAmf0Cmd, CmdValues, ValueAll
<1>14. Filled(acc, names, es, r, t, 0)
  <2>1. acc.rest = b /\ DOMAIN acc.resp = {"cmd"} /\ acc.resp["cmd"] = Str(t)
    BY <1>12
  <2>2. b = FlattenSeq(SubSeq(es, 0 + 1, Len(es)))
    BY <1>3, <1>4, FlattenWhole
  <2>3. QED  BY <2>1, <2>2 DEF Filled
<1>15. Keeps(ValueAll(acc, names), names, r, t, k)
  BY <1>1, <1>2, <1>14, FoldNext
<1>16. QED  BY <1>13, <1>15 DEF Keeps

(***************************************************************************)
(* The messages of both ends.                                              *)
(***************************************************************************)
LEMMA SimpleValues ==
  /\ \A n : IsValue(Num(n)) /\ IsInner(Num(n))
  /\ \A t : IsValue(Str(t)) /\ IsInner(Str(t))
  /\ \A b : IsValue(Bool(b))
  /\ IsValue(Null)
<1>1. \A n : Num(n).type = "number"
  BY DEF Num
<1>2. \A t : Str(t).type = "string"
  BY DEF Str
<1>3. \A b : Bool(b).type = "boolean"
  BY DEF Bool
<1>4. Null.type = "null"
  BY DEF Null
<1>5. ASSUME NEW v, v.type \in {"number", "string", "boolean", "null"}
      PROVE  IsValue(v) /\ IsInner(v)
  <2>1. v.type \notin {"object", "array", "typed"} /\ v.type # "sarray"
    BY <1>5
  <2>2. QED  BY <2>1, Zenon DEF IsValue, IsInner, HasShape
<1>6. QED  BY <1>1, <1>2, <1>3, <1>4, <1>5

LEMMA ObjectValues ==
  /\ \A x, t : IsValue(Obj(<<<<x, Str(t)>>>>))
  /\ IsValue(Arr(<<>>))
<1>1. ASSUME NEW x, NEW t PROVE IsValue(Obj(<<<<x, Str(t)>>>>))
  <2>1. PICK v, ps, q : ps = <<<<x, Str(t)>>>> /\ v = Obj(ps) /\ q = <<x, Str(t)>>
    OBVIOUS
  <2>2. v.type = "object" /\ v.props = ps
    BY <2>1 DEF Obj
  <2>3. IsSeq(ps) /\ Len(ps) = 1 /\ ps[1] = q
    BY <2>1, IsOne
  <2>4. DOMAIN ps = {1}
    BY <2>3, IsSeqLen
  <2>5. q[2] = Str(t)
    BY <2>1
  <2>6. \A i \in DOMAIN ps : IsInner(ps[i][2])
    BY <2>3, <2>4, <2>5, SimpleValues
  <2>7. IsSequence(ps)
    BY <2>3, IsSequences
  <2>8. v.type # "sarray"
    BY <2>2
  <2>9. IsValue(v)
    BY <2>2, <2>6, <2>7, <2>8, Zenon DEF IsValue, HasShape
  <2>10. QED  BY <2>1, <2>9
<1>2. IsValue(Arr(<<>>))
  <2>1. PICK v : v = Arr(<<>>)
    OBVIOUS
  <2>2. v.type = "array" /\ v.props = <<>>
    BY <2>1 DEF Arr
  <2>3. IsSequence(<<>>) /\ DOMAIN <<>> = {}
    BY IsEmpty, IsSequences
  <2>4. v.type # "sarray" /\ \A i \in DOMAIN v.props : IsInner(v.props[i][2])
    BY <2>2, <2>3
  <2>5. IsValue(v)
    BY <2>2, <2>3, <2>4, Zenon DEF IsValue, HasShape
  <2>6. QED  BY <2>1, <2>5
<1>3. QED  BY <1>1, <1>2

\* A message of one cell that is no part of the handshake.
Short(m, x) == m.type # "signature" /\ Sendable(m) /\ m.payload = <<x>> /\ Len(m.payload) = 1

LEMMA ShortControl ==
  ASSUME NEW type, type # "signature", NEW x, IsPayload(x),
         NEW m, m = Control(type, <<x>>)
  PROVE  Short(m, x) /\ m.type = type
<1>1. /\ m.type = type /\ m.time = 0 /\ m.cid = 2 /\ m.payload = <<x>>
  BY DEF Control, RTMP_CHANNEL_PROTOCOL
<1>2. Cells(<<x>>) /\ Len(<<x>>) = 1
  BY OneCell, IsOne
<1>3. <<x>> # <<>>
  BY <1>2, IsEmpty
<1>4. HasCid(2) /\ 0 \in Nat /\ ~(0 > MaxClock)
  BY ChunksAssumption DEF HasCid
<1>5. QED  BY <1>1, <1>2, <1>3, <1>4 DEF Short, Sendable

WindowCell == [size |-> 5000000]
LEMMA WindowPayload == IsPayload(WindowCell)
  BY SMT DEF WindowCell, IsPayload

LEMMA Controls ==
  /\ \A x : \E c : /\ Short(SetChunkSize(x), c) /\ c.size = x
                   /\ SetChunkSize(x).type = "chunkSize"
  /\ \E c : Short(SendWindowACK, c) /\ SendWindowACK.type = "windowAck"
  /\ \E c : Short(SetPeerBandwidth, c) /\ SetPeerBandwidth.type = "bandwidth"
  /\ \A x : \E c : Short(UserEvent(x), c) /\ UserEvent(x).type = "event"
<1>1. ASSUME NEW x PROVE \E c : /\ Short(SetChunkSize(x), c) /\ c.size = x
                                /\ SetChunkSize(x).type = "chunkSize"
  <2>1. PICK c : c = [size |-> x]
    OBVIOUS
  <2>2. IsPayload(c) /\ c.size = x
    BY <2>1, ValueCells
  <2>3. SetChunkSize(x) = Control("chunkSize", <<c>>)
    BY <2>1 DEF SetChunkSize
  <2>4. QED  BY <2>2, <2>3, ShortControl
<1>2. \E c : Short(SendWindowACK, c) /\ SendWindowACK.type = "windowAck"
  <2>1. PICK c : c = WindowCell
    OBVIOUS
  <2>2. IsPayload(c)
    BY <2>1, WindowPayload
  <2>3. SendWindowACK = Control("windowAck", <<c>>)
    BY <2>1, SMT DEF SendWindowACK, WindowCell
  <2>4. QED  BY <2>2, <2>3, ShortControl
<1>3. \E c : Short(SetPeerBandwidth, c) /\ SetPeerBandwidth.type = "bandwidth"
  <2>1. PICK c : c = WindowCell
    OBVIOUS
  <2>2. IsPayload(c)
    BY <2>1, WindowPayload
  <2>3. SetPeerBandwidth = Control("bandwidth", <<c>>)
    BY <2>1, SMT DEF SetPeerBandwidth, WindowCell
  <2>4. QED  BY <2>2, <2>3, ShortControl
<1>4. ASSUME NEW x PROVE \E c : Short(UserEvent(x), c) /\ UserEvent(x).type = "event"
  <2>1. PICK c : c = [event |-> x]
    OBVIOUS
  <2>2. IsPayload(c)
    BY <2>1, ValueCells
  <2>3. UserEvent(x) = Control("event", <<c>>)
    BY <2>1 DEF UserEvent
  <2>4. QED  BY <2>2, <2>3, ShortControl
<1>5. QED  BY <1>1, <1>2, <1>3, <1>4

\* A command.
LEMMA InvokeIs ==
  ASSUME NEW opt, HasValues(opt), NEW sid, NEW m, m = Invoke(sid, opt)
  PROVE  /\ m.type = "invoke" /\ m.sid = sid /\ m.payload = EncodeAmf0Cmd(opt)
         /\ Sendable(m) /\ m.type # "signature" /\ m.type # "chunkSize"
<1>1. /\ m.type = "invoke" /\ m.time = 0 /\ m.cid = 3 /\ m.sid = sid
      /\ m.payload = EncodeAmf0Cmd(opt)
  BY DEF Invoke, RTMP_CHANNEL_INVOKE
<1>2. Cells(EncodeAmf0Cmd(opt)) /\ EncodeAmf0Cmd(opt) # <<>>
  BY CommandCells
<1>3. HasCid(3) /\ 0 \in Nat /\ ~(0 > MaxClock)
  BY ChunksAssumption DEF HasCid
<1>4. QED  BY <1>1, <1>2, <1>3 DEF Sendable

LEMMA DataIs ==
  ASSUME NEW opt, HasValues(opt), NEW sid, NEW m, m = DataMessage(sid, opt)
  PROVE  m.type = "data" /\ Sendable(m) /\ m.type # "signature" /\ m.type # "chunkSize"
<1>1. /\ m.type = "data" /\ m.time = 0 /\ m.cid = 6
      /\ m.payload = EncodeAmf0Cmd(opt)
  BY DEF DataMessage, RTMP_CHANNEL_DATA
<1>2. Cells(EncodeAmf0Cmd(opt)) /\ EncodeAmf0Cmd(opt) # <<>>
  BY CommandCells
<1>3. HasCid(6) /\ 0 \in Nat /\ ~(0 > MaxClock)
  BY ChunksAssumption DEF HasCid
<1>4. QED  BY <1>1, <1>2, <1>3 DEF Sendable

\* Answers.
LEMMA ResultIs ==
  ASSUME NEW cmd, NEW id, IsValue(id), NEW info, IsValue(info)
  PROVE  \E opt : /\ HasValues(opt) /\ Result(cmd, id, info) = Invoke(0, opt)
                  /\ DOMAIN opt = {"cmd", "transId", "cmdObj", "info"}
                  /\ opt["cmd"] = Str(cmd) /\ opt["transId"] = id
                  /\ opt["cmdObj"] = Null /\ opt["info"] = info
<1>1. PICK opt : opt = [cmd |-> Str(cmd), transId |-> id, cmdObj |-> Null, info |-> info]
  OBVIOUS
<1>2. /\ DOMAIN opt = {"cmd", "transId", "cmdObj", "info"}
      /\ opt["cmd"] = Str(cmd) /\ opt["transId"] = id
      /\ opt["cmdObj"] = Null /\ opt["info"] = info
  BY <1>1
<1>3. HasValues(opt)
  BY <1>2, SimpleValues DEF HasValues
<1>4. Result(cmd, id, info) = Invoke(0, opt)
  BY <1>1 DEF Result
<1>5. QED  BY <1>2, <1>3, <1>4

LEMMA StatusIs ==
  ASSUME NEW sid, NEW code
  PROVE  \E opt : /\ HasValues(opt) /\ Status(sid, code) = Invoke(sid, opt)
                  /\ opt["cmd"] = Str("onStatus")
<1>1. PICK opt : opt = [cmd |-> Str("onStatus"), transId |-> Num(0), cmdObj |-> Null,
                        info |-> Obj(<<<<"code", Str(code)>>>>)]
  OBVIOUS
<1>2. /\ DOMAIN opt = {"cmd", "transId", "cmdObj", "info"}
      /\ opt["cmd"] = Str("onStatus") /\ opt["transId"] = Num(0)
      /\ opt["cmdObj"] = Null /\ opt["info"] = Obj(<<<<"code", Str(code)>>>>)
  BY <1>1
<1>3. IsValue(opt["info"])
  BY <1>2, ObjectValues
<1>4. HasValues(opt)
  BY <1>2, <1>3, SimpleValues DEF HasValues
<1>5. Status(sid, code) = Invoke(sid, opt)
  BY <1>1 DEF Status
<1>6. QED  BY <1>2, <1>4, <1>5

LEMMA SampleAccess ==
  ASSUME NEW opt, opt = [cmd |-> Str("|RtmpSampleAccess"), bool1 |-> Bool(FALSE),
                         bool2 |-> Bool(FALSE)]
  PROVE  HasValues(opt)
<1>1. /\ DOMAIN opt = {"cmd", "bool1", "bool2"}
      /\ opt["cmd"] = Str("|RtmpSampleAccess") /\ opt["bool1"] = Bool(FALSE)
      /\ opt["bool2"] = Bool(FALSE)
  OBVIOUS
<1>2. QED  BY <1>1, SimpleValues DEF HasValues

(***************************************************************************)
(* The names under which the values of a command are read.                 *)
(***************************************************************************)
LEMMA FourIs ==
  ASSUME NEW x, NEW y, NEW u, NEW v
  PROVE  /\ Len(<<x, y, u, v>>) = 4
         /\ <<x, y, u, v>>[1] = x /\ <<x, y, u, v>>[2] = y
         /\ <<x, y, u, v>>[3] = u /\ <<x, y, u, v>>[4] = v
  OBVIOUS

LEMMA SixIs ==
  ASSUME NEW x, NEW y, NEW u, NEW v, NEW w, NEW z
  PROVE  /\ Len(<<x, y, u, v, w, z>>) = 6
         /\ <<x, y, u, v, w, z>>[1] = x /\ <<x, y, u, v, w, z>>[2] = y
         /\ <<x, y, u, v, w, z>>[3] = u /\ <<x, y, u, v, w, z>>[4] = v
         /\ <<x, y, u, v, w, z>>[5] = w /\ <<x, y, u, v, w, z>>[6] = z
  OBVIOUS

\* The first name of a command is the one of its number, and no other is.
Numbered(names) ==
  /\ Len(names) \in Nat /\ Len(names) >= 2 /\ names[1] = "transId" /\ names[2] = "cmdObj"
  /\ \A i \in 1..Len(names) :
       names[i] # "cmd" /\ (i # 1 => names[i] # "transId") /\ (i # 2 => names[i] # "cmdObj")

LEMMA NamesOf ==
  /\ \A c \in Calling : Numbered(CmdCode(c))
  /\ Numbered(CmdCode("_result")) /\ Len(CmdCode("_result")) = 3
  /\ CmdCode("_result")[3] = "info"
<1>1. Numbered(CmdCode("connect"))
  <2>1. PICK n : n = <<"transId", "cmdObj", "args">>
    OBVIOUS
  <2>2. CmdCode("connect") = n
    BY <2>1, Zenon DEF CmdCode
  <2>3. Len(n) = 3 /\ n[1] = "transId" /\ n[2] = "cmdObj" /\ n[3] = "args"
    BY <2>1, IsThree, Zenon
  <2>4. QED  BY <2>2, <2>3 DEF Numbered
<1>2. Numbered(CmdCode("createStream"))
  <2>1. PICK n : n = <<"transId", "cmdObj">>
    OBVIOUS
  <2>2. CmdCode("createStream") = n
    <3>1. "createStream" # "connect" /\ "createStream" \in {"createStream", "close"}
      OBVIOUS
    <3>2. QED  BY <2>1, <3>1, Zenon DEF CmdCode
  <2>3. Len(n) = 2 /\ n[1] = "transId" /\ n[2] = "cmdObj"
    BY <2>1, IsTwo, Zenon
  <2>4. QED  BY <2>2, <2>3 DEF Numbered
<1>3. Numbered(CmdCode("play"))
  <2>1. PICK n : n = <<"transId", "cmdObj", "streamName", "start", "duration", "reset">>
    OBVIOUS
  <2>2. CmdCode("play") = n
    <3>1. "play" # "connect" /\ "play" \notin {"createStream", "close"}
      OBVIOUS
    <3>2. QED  BY <2>1, <3>1, Zenon DEF CmdCode
  <2>3. /\ Len(n) = 6 /\ n[1] = "transId" /\ n[2] = "cmdObj" /\ n[3] = "streamName"
        /\ n[4] = "start" /\ n[5] = "duration" /\ n[6] = "reset"
    BY <2>1, SixIs, Zenon
  <2>4. QED  BY <2>2, <2>3 DEF Numbered
<1>4. Numbered(CmdCode("publish"))
  <2>1. PICK n : n = <<"transId", "cmdObj", "streamName", "type">>
    OBVIOUS
  <2>2. CmdCode("publish") = n
    <3>1. "publish" # "connect" /\ "publish" \notin {"createStream", "close"}
          /\ "publish" # "play"
      OBVIOUS
    <3>2. QED  BY <2>1, <3>1, Zenon DEF CmdCode
  <2>3. /\ Len(n) = 4 /\ n[1] = "transId" /\ n[2] = "cmdObj" /\ n[3] = "streamName"
        /\ n[4] = "type"
    BY <2>1, FourIs, Zenon
  <2>4. QED  BY <2>2, <2>3 DEF Numbered
<1>5. /\ Numbered(CmdCode("_result")) /\ Len(CmdCode("_result")) = 3
      /\ CmdCode("_result")[3] = "info"
  <2>1. PICK n : n = <<"transId", "cmdObj", "info">>
    OBVIOUS
  <2>2. CmdCode("_result") = n
    <3>1. /\ "_result" # "connect" /\ "_result" \notin {"createStream", "close"}
          /\ "_result" # "play" /\ "_result" # "publish"
          /\ "_result" \in {"_result", "onStatus"}
      OBVIOUS
    <3>2. QED  BY <2>1, <3>1, Zenon DEF CmdCode
  <2>3. Len(n) = 3 /\ n[1] = "transId" /\ n[2] = "cmdObj" /\ n[3] = "info"
    BY <2>1, IsThree, Zenon
  <2>4. QED  BY <2>2, <2>3 DEF Numbered
<1>6. ASSUME NEW c \in Calling PROVE Numbered(CmdCode(c))
  <2>1. c = "connect" \/ c = "createStream" \/ c = "play" \/ c = "publish"
    BY <1>6 DEF Calling
  <2>2. QED  BY <2>1, <1>1, <1>2, <1>3, <1>4
<1>7. QED  BY <1>5, <1>6

LEMMA NotWide == "_result" \notin Wide /\ \A c \in Calling : c \notin Wide
<1>2. \A x \in {"connect", "createStream", "play", "publish", "_result"} : x \notin Wide
  BY NarrowAssumption, Zenon
<1>3. \A c \in Calling : c \in {"connect", "createStream", "play", "publish", "_result"}
  BY DEF Calling
<1>4. "_result" \in {"connect", "createStream", "play", "publish", "_result"}
  OBVIOUS
<1>5. QED  BY <1>2, <1>3, <1>4, Zenon

\* A command with its number, as it was read.
Asks(d, c, n) == d["cmd"] = Str(c) /\ d["transId"] = Num(n)

LEMMA NumberReads ==
  ASSUME NEW opt, HasValues(opt), NEW c, opt.cmd = Str(c), c \notin Wide,
         Numbered(CmdCode(c)), NEW n, "transId" \in DOMAIN opt, opt["transId"] = Num(n)
  PROVE  Asks(DecodeAmf0Cmd(EncodeAmf0Cmd(opt)), c, n)
<1>1. PICK names : names = CmdCode(c)
  OBVIOUS
<1>2. PICK r : r = <<Num(n)>> /\ r[1] = Num(n)
  <2>1. <<Num(n)>>[1] = Num(n)
    BY IsOne
  <2>2. QED  BY <2>1
<1>3. Leads(opt, names, 1, r)
  <2>1. 1 \in Nat /\ 1 <= Len(names) /\ names[1] = "transId"
    BY <1>1 DEF Numbered
  <2>2. ReadsAs(opt[names[1]], r[1])
    BY <2>1, <1>2, NumReads
  <2>3. \A i \in 1..1 : i = 1
    OBVIOUS
  <2>4. \A i \in 1..1 : names[i] \in DOMAIN opt /\ ReadsAs(opt[names[i]], r[i])
    BY <2>1, <2>2, <2>3
  <2>5. \A i \in 1..Len(names) :
          names[i] # "cmd" /\ \A j \in 1..1 : j # i => names[j] # names[i]
    BY <1>1, <2>1, <2>3 DEF Numbered
  <2>6. QED  BY <2>1, <2>4, <2>5 DEF Leads
<1>4. PICK d : d = DecodeAmf0Cmd(EncodeAmf0Cmd(opt))
  OBVIOUS
<1>5. d["cmd"] = Str(c) /\ \A j \in 1..1 : d[names[j]] = r[j]
  BY <1>1, <1>3, <1>4, CommandReads
<1>6. 1 \in 1..1 /\ names[1] = "transId"
  BY <1>1 DEF Numbered
<1>7. d["transId"] = Num(n)
  BY <1>2, <1>5, <1>6
<1>8. QED  BY <1>4, <1>5, <1>7 DEF Asks

\* What the server reads as a question of the client.
Question(h) ==
  h.type = "invoke" =>
    \E c, n : c \in Calling /\ n \in Nat /\ Asks(DecodeAmf0Cmd(h.payload), c, n)

\* sendCommand's message.
Posed(opt, cmd, id) == Updated(Updated(opt, "cmd", Str(cmd)), "transId", Num(id))

LEMMA PosedIs ==
  ASSUME NEW opt, \A x \in DOMAIN opt : IsValue(opt[x]), NEW cmd, NEW id,
         NEW o, o = Posed(opt, cmd, id)
  PROVE  /\ HasValues(o) /\ o["cmd"] = Str(cmd)
         /\ "transId" \in DOMAIN o /\ o["transId"] = Num(id)
<1>0. PICK x, y, k, l : x = "cmd" /\ y = "transId" /\ k = Str(cmd) /\ l = Num(id)
  OBVIOUS
<1>1. PICK u : u = Updated(opt, x, k)
  OBVIOUS
<1>2. o = Updated(u, y, l)
  BY <1>0, <1>1 DEF Posed
<1>3. /\ DOMAIN u = {"cmd"} \cup DOMAIN opt /\ u["cmd"] = Str(cmd)
      /\ \A d \in DOMAIN opt : d # "cmd" => u[d] = opt[d]
  <2>1. /\ DOMAIN u = {x} \cup DOMAIN opt /\ u[x] = k
        /\ \A d \in DOMAIN opt : d # x => u[d] = opt[d]
    BY <1>1 DEF Updated
  <2>2. QED  BY <2>1, <1>0
<1>4. /\ DOMAIN o = {"transId"} \cup DOMAIN u /\ o["transId"] = Num(id)
      /\ \A d \in DOMAIN u : d # "transId" => o[d] = u[d]
  <2>1. /\ DOMAIN o = {y} \cup DOMAIN u /\ o[y] = l
        /\ \A d \in DOMAIN u : d # y => o[d] = u[d]
    BY <1>2 DEF Updated
  <2>2. QED  BY <2>1, <1>0
<1>5. "cmd" # "transId"
  OBVIOUS
<1>6. o["cmd"] = Str(cmd) /\ "cmd" \in DOMAIN o
  BY <1>3, <1>4, <1>5
<1>7. \A d \in DOMAIN u : IsValue(u[d])
  BY <1>3, SimpleValues
<1>8. \A d \in DOMAIN o : IsValue(o[d])
  BY <1>4, <1>7, SimpleValues
<1>9. QED  BY <1>4, <1>6, <1>8 DEF HasValues

LEMMA PosedReads ==
  ASSUME NEW opt, \A x \in DOMAIN opt : IsValue(opt[x]), NEW cmd \in Calling,
         NEW id \in Nat, NEW sid, NEW m, m = Invoke(sid, Posed(opt, cmd, id))
  PROVE  /\ m.type = "invoke" /\ m.type # "signature" /\ m.type # "chunkSize"
         /\ m.sid = sid /\ Sendable(m)
         /\ Asks(DecodeAmf0Cmd(m.payload), cmd, id) /\ Question(Mail(m))
<1>1. PICK o : o = Posed(opt, cmd, id)
  OBVIOUS
<1>2. /\ HasValues(o) /\ o["cmd"] = Str(cmd)
      /\ "transId" \in DOMAIN o /\ o["transId"] = Num(id)
  BY <1>1, PosedIs
<1>3. /\ m.type = "invoke" /\ m.sid = sid /\ m.payload = EncodeAmf0Cmd(o)
      /\ Sendable(m) /\ m.type # "signature" /\ m.type # "chunkSize"
  BY <1>1, <1>2, InvokeIs
<1>4. Asks(DecodeAmf0Cmd(EncodeAmf0Cmd(o)), cmd, id)
  BY <1>2, NotWide, NamesOf, NumberReads
<1>5. Asks(DecodeAmf0Cmd(m.payload), cmd, id)
  BY <1>3, <1>4
<1>6. Mail(m).type = "invoke" /\ Mail(m).payload = m.payload
  BY <1>3 DEF Mail
<1>7. QED  BY <1>3, <1>5, <1>6 DEF Question

(***************************************************************************)
(* What the server reads of the client.                                    *)
(***************************************************************************)
Listening(z) ==
  /\ AtRest(z) /\ Quiet(z) /\ z.inChunkSize \in Nat \ {0}
  /\ \A i \in 1..Len(z.handled) : Question(z.handled[i])

\* A message of the client, or its part of the handshake.
Said(m) ==
  \/ m.type = "signature"
  \/ /\ m.type # "signature" /\ Sendable(m) /\ Question(Mail(m))
     /\ m.type = "chunkSize" => m.payload[1].size = RTMP_MAX_CHUNK_SIZE

Fitting(m, z) ==
  \/ m.type = "signature" \/ Len(m.payload) = 1 \/ z.inChunkSize = RTMP_MAX_CHUNK_SIZE

LEMMA SaidWritable == ASSUME NEW m, Said(m) PROVE Writable(m)
  BY DEF Said, Writable

LEMMA HearOne ==
  ASSUME NEW p, NEW w, Chunked(w), NEW z, z = ReadOn(p, NoSigs(w)), Listening(z),
         NEW m, Said(m), Fitting(m, z), NEW e, e = ReadOn(p, NoSigs(w \o Piece(m)))
  PROVE  /\ Listening(e)
         /\ m.type = "signature" => e = z
         /\ m.type = "chunkSize" => e.inChunkSize = RTMP_MAX_CHUNK_SIZE
         /\ m.type # "chunkSize" => e.inChunkSize = z.inChunkSize
         /\ m.type # "signature" => e.handled = Append(z.handled, Mail(m))
<1>1. CASE m.type = "signature"
  <2>1. e = z
    BY <1>1, PieceRead
  <2>2. QED  BY <2>1, <1>1
<1>2. CASE m.type # "signature"
  <2>1. Sendable(m) /\ Question(Mail(m))
        /\ (m.type = "chunkSize" => m.payload[1].size = RTMP_MAX_CHUNK_SIZE)
    BY <1>2 DEF Said
  <2>2. RTMP_MAX_CHUNK_SIZE \in Nat \ {0}
    BY ChunksAssumption
  <2>3. Reads(z, m, RTMP_MAX_CHUNK_SIZE)
    BY <1>2, <2>1, <2>2 DEF Fitting, Listening, Reads
  <2>4. Delivered(z, e, m)
    BY <1>2, <2>3, PieceRead
  <2>5. Quiet(z)
    BY DEF Listening
  <2>6. Quiet(e) /\ AtRest(e)
    BY <2>1, <2>4, <2>5, DeliveredQuiet
  <2>7. /\ e.handled = Append(z.handled, Mail(m))
        /\ e.inChunkSize = IF m.type = "chunkSize" THEN m.payload[1].size ELSE z.inChunkSize
    BY <2>4 DEF Delivered
  <2>8. IsSeq(z.handled) /\ z.inChunkSize \in Nat \ {0}
        /\ \A i \in 1..Len(z.handled) : Question(z.handled[i])
    BY DEF Listening, AtRest, IsParser
  <2>9. PICK zs, es, x : zs = z.handled /\ es = e.handled /\ x = Mail(m)
    OBVIOUS
  <2>10. /\ Len(es) = Len(zs) + 1 /\ \A i \in 1..Len(zs) : es[i] = zs[i]
         /\ es[Len(zs) + 1] = x /\ Len(zs) \in Nat
    <3>1. IsSeq(zs)
      BY <2>8, <2>9
    <3>2. /\ Len(Append(zs, x)) = Len(zs) + 1 /\ \A i \in 1..Len(zs) : Append(zs, x)[i] = zs[i]
          /\ Append(zs, x)[Len(zs) + 1] = x
      BY <3>1, AppendIs
    <3>3. Len(zs) \in Nat
      BY <3>1, IsSeqLen
    <3>4. es = Append(zs, x)
      BY <2>7, <2>9
    <3>5. QED  BY <3>2, <3>3, <3>4
  <2>11. \A i \in 1..Len(es) : Question(es[i])
    <3>1. ASSUME NEW i \in 1..Len(es) PROVE Question(es[i])
      <4>1. CASE i \in 1..Len(zs)
        BY <4>1, <2>8, <2>9, <2>10
      <4>2. CASE i \notin 1..Len(zs)
        <5>1. i = Len(zs) + 1
          BY <4>2, <3>1, <2>10
        <5>2. QED  BY <5>1, <2>1, <2>9, <2>10
      <4>3. QED  BY <4>1, <4>2
    <3>2. QED  BY <3>1
  <2>12. /\ m.type = "chunkSize" => e.inChunkSize = RTMP_MAX_CHUNK_SIZE
         /\ m.type # "chunkSize" => e.inChunkSize = z.inChunkSize
    BY <2>1, <2>7
  <2>13. e.inChunkSize \in Nat \ {0}
    BY <2>2, <2>8, <2>12
  <2>14. Listening(e)
    BY <2>6, <2>9, <2>11, <2>13 DEF Listening
  <2>15. QED  BY <1>2, <2>7, <2>12, <2>14
<1>3. QED  BY <1>1, <1>2

LEMMA WrittenAppend ==
  ASSUME NEW ms, AllWritable(ms), NEW m, Writable(m)
  PROVE  /\ AllWritable(Append(ms, m)) /\ Written(Append(ms, m)) = Written(ms) \o Piece(m)
         /\ Chunked(Written(ms)) /\ Chunked(Piece(m)) /\ Chunked(Written(Append(ms, m)))
         /\ Sigs(Written(Append(ms, m))) = Sigs(Written(ms)) \o Sigs(Piece(m))
<1>1. PICK o : o = <<m>>
  OBVIOUS
<1>2. AllWritable(o) /\ Written(o) = Piece(m)
  BY <1>1, WrittenOne
<1>3. IsSeq(ms)
  BY DEF AllWritable
<1>4. Append(ms, m) = ms \o o
  BY <1>1, <1>3, AppendIs
<1>5. AllWritable(ms \o o) /\ Written(ms \o o) = Written(ms) \o Written(o)
  BY <1>2, WrittenMore
<1>6. PICK a, b : a = Written(ms) /\ b = Piece(m)
  OBVIOUS
<1>7. Chunked(a) /\ Chunked(b)
  BY <1>6, WrittenChunked, PieceChunked
<1>8. Chunked(a \o b) /\ Sigs(a \o b) = Sigs(a) \o Sigs(b)
  BY <1>7, ChunkedMore
<1>9. QED  BY <1>2, <1>4, <1>5, <1>6, <1>7, <1>8

\* Parser p, cells w on their way to it, and messages ms still to be sent.
Hearing(p, w, ms, sizes) ==
  /\ AllWritable(ms) /\ Chunked(w) /\ Chunked(w \o Written(ms)) /\ sizes \subseteq Nat \ {0}
  /\ Listening(ReadOn(p, NoSigs(w \o Written(ms))))
  /\ ReadOn(p, NoSigs(w \o Written(ms))).inChunkSize \in sizes

LEMMA HearMore ==
  ASSUME NEW p, NEW w, NEW ms, NEW sizes, Hearing(p, w, ms, sizes), NEW m, Said(m),
         NEW zz, zz = ReadOn(p, NoSigs(w \o Written(ms))),
         m.type = "signature" \/ Len(m.payload) = 1 \/ sizes = {RTMP_MAX_CHUNK_SIZE},
         NEW e, e = ReadOn(p, NoSigs(w \o Written(Append(ms, m))))
  PROVE  /\ m.type # "chunkSize" => Hearing(p, w, Append(ms, m), sizes)
         /\ m.type = "chunkSize" => Hearing(p, w, Append(ms, m), {RTMP_MAX_CHUNK_SIZE})
         /\ m.type = "signature" => e = zz
         /\ m.type # "signature" => e.handled = Append(zz.handled, Mail(m))
<1>1. AllWritable(ms) /\ Chunked(w) /\ Chunked(w \o Written(ms)) /\ sizes \subseteq Nat \ {0}
  BY DEF Hearing
<1>2. Writable(m)
  BY SaidWritable
<1>3. PICK a, b, ns : a = Written(ms) /\ b = Piece(m) /\ ns = Append(ms, m)
  OBVIOUS
<1>4. AllWritable(ns) /\ Written(ns) = a \o b /\ Chunked(a) /\ Chunked(b)
  BY <1>1, <1>2, <1>3, WrittenAppend
<1>5. IsSeq(w) /\ IsSeq(a) /\ IsSeq(b)
  BY <1>1, <1>4 DEF Chunked
<1>6. (w \o a) \o b = w \o (a \o b)
  BY <1>5, Associative
<1>7. PICK u : u = w \o a
  OBVIOUS
<1>8. Chunked(u)
  BY <1>1, <1>3, <1>7
<1>9. PICK z : z = ReadOn(p, NoSigs(u))
  OBVIOUS
<1>10. Listening(z) /\ z.inChunkSize \in sizes
  BY <1>3, <1>7, <1>9 DEF Hearing
<1>11. Fitting(m, z)
  BY <1>10 DEF Fitting
<1>12. Chunked(u \o b)
  BY <1>4, <1>8, ChunkedMore
<1>13. PICK f : f = ReadOn(p, NoSigs(u \o b))
  OBVIOUS
<1>14. f = ReadOn(p, NoSigs(u \o Piece(m)))
  BY <1>3, <1>13
<1>15. /\ Listening(f)
       /\ m.type = "signature" => f = z
       /\ m.type = "chunkSize" => f.inChunkSize = RTMP_MAX_CHUNK_SIZE
       /\ m.type # "chunkSize" => f.inChunkSize = z.inChunkSize
       /\ m.type # "signature" => f.handled = Append(z.handled, Mail(m))
  BY <1>8, <1>9, <1>10, <1>11, <1>14, HearOne
<1>16. u \o b = w \o Written(ns)
  BY <1>4, <1>6, <1>7
<1>17. f = e /\ z = zz /\ Chunked(w \o Written(ns))
  BY <1>3, <1>7, <1>9, <1>12, <1>13, <1>16
<1>18. RTMP_MAX_CHUNK_SIZE \in Nat \ {0}
  BY ChunksAssumption
<1>19. m.type # "chunkSize" => Hearing(p, w, ns, sizes)
  <2>1. SUFFICES ASSUME m.type # "chunkSize" PROVE Hearing(p, w, ns, sizes)
    OBVIOUS
  <2>2. f.inChunkSize \in sizes
    BY <2>1, <1>10, <1>15
  <2>3. QED  BY <2>2, <1>1, <1>4, <1>13, <1>15, <1>16, <1>17 DEF Hearing
<1>20. m.type = "chunkSize" => Hearing(p, w, ns, {RTMP_MAX_CHUNK_SIZE})
  <2>1. SUFFICES ASSUME m.type = "chunkSize" PROVE Hearing(p, w, ns, {RTMP_MAX_CHUNK_SIZE})
    OBVIOUS
  <2>2. f.inChunkSize \in {RTMP_MAX_CHUNK_SIZE} /\ {RTMP_MAX_CHUNK_SIZE} \subseteq Nat \ {0}
    BY <2>1, <1>15, <1>18
  <2>3. QED  BY <2>2, <1>1, <1>4, <1>13, <1>15, <1>16, <1>17 DEF Hearing
<1>21. QED  BY <1>3, <1>15, <1>17, <1>19, <1>20

\* Whatever was to be sent is sent.
LEMMA HearSent ==
  ASSUME NEW p, NEW w, NEW ms, NEW sizes, Hearing(p, w, ms, sizes)
  PROVE  Hearing(p, w \o Written(ms), <<>>, sizes)
<1>1. PICK u : u = w \o Written(ms)
  OBVIOUS
<1>2. Chunked(u) /\ sizes \subseteq Nat \ {0}
  BY <1>1 DEF Hearing
<1>3. AllWritable(<<>>) /\ Written(<<>>) = <<>>
  BY WrittenNone
<1>4. IsSeq(u)
  BY <1>2 DEF Chunked
<1>5. u \o <<>> = u
  BY <1>4, ConcatEmpty
<1>6. Listening(ReadOn(p, NoSigs(u))) /\ ReadOn(p, NoSigs(u)).inChunkSize \in sizes
  BY <1>1 DEF Hearing
<1>7. u \o Written(<<>>) = u
  BY <1>3, <1>5
<1>8. Hearing(p, u, <<>>, sizes)
  BY <1>2, <1>3, <1>6, <1>7 DEF Hearing
<1>9. QED  BY <1>1, <1>8

LEMMA HearWider ==
  ASSUME NEW p, NEW w, NEW ms, NEW sizes, Hearing(p, w, ms, sizes),
         NEW more, more \subseteq Nat \ {0}, sizes \subseteq more
  PROVE  Hearing(p, w, ms, more)
  BY DEF Hearing

\* The server takes no part of a message for a part of the handshake.
LEMMA TellMore ==
  ASSUME NEW ms, AllWritable(ms), NEW m, m.type # "signature", Sendable(m)
  PROVE  /\ AllWritable(Append(ms, m))
         /\ Sigs(Written(Append(ms, m))) = Sigs(Written(ms))
<1>1. Writable(m)
  BY DEF Writable
<1>2. Sigs(Piece(m)) = <<>>
  BY MessagePiece
<1>3. /\ AllWritable(Append(ms, m)) /\ Chunked(Written(ms))
      /\ Sigs(Written(Append(ms, m))) = Sigs(Written(ms)) \o Sigs(Piece(m))
  BY <1>1, WrittenAppend
<1>4. IsSeq(Sigs(Written(ms)))
  BY <1>3, Halves
<1>5. Sigs(Written(ms)) \o <<>> = Sigs(Written(ms))
  BY <1>4, ConcatEmpty
<1>6. QED  BY <1>2, <1>3, <1>5

\* Messages only.
AllPlain(ms) ==
  IsSeq(ms) /\ \A i \in 1..Len(ms) : ms[i].type # "signature" /\ Sendable(ms[i])

LEMMA TellAll ==
  ASSUME NEW ns, AllWritable(ns), NEW ms, AllPlain(ms)
  PROVE  AllWritable(ns \o ms) /\ Sigs(Written(ns \o ms)) = Sigs(Written(ns))
<1>1. IsSeq(ms) /\ IsSeq(ns)
  BY DEF AllPlain, AllWritable
<1>2. PICK n \in Nat : n = Len(ms)
  BY <1>1, IsSeqLen
<1>3. PICK S : S = {i \in Nat : i <= n =>
                      /\ AllWritable(ns \o SubSeq(ms, 1, i))
                      /\ Sigs(Written(ns \o SubSeq(ms, 1, i))) = Sigs(Written(ns))}
  OBVIOUS
<1>4. 0 \in S
  <2>1. SubSeq(ms, 1, 0) = <<>> /\ ns \o <<>> = ns
    BY <1>1, SubWhole, ConcatEmpty
  <2>2. QED  BY <2>1, <1>3
<1>5. ASSUME NEW i \in Nat, i \in S PROVE i + 1 \in S
  <2>1. SUFFICES ASSUME i + 1 <= n
                 PROVE  /\ AllWritable(ns \o SubSeq(ms, 1, i + 1))
                        /\ Sigs(Written(ns \o SubSeq(ms, 1, i + 1))) = Sigs(Written(ns))
    BY <1>3
  <2>2. i \in Nat /\ i + 1 \in Nat /\ i <= i + 1 /\ i + 1 <= Len(ms) /\ i <= n
    BY <2>1, <1>2
  <2>3. PICK a, b, x : a = SubSeq(ms, 1, i) /\ b = SubSeq(ms, i + 1, i + 1) /\ x = ms[i + 1]
    OBVIOUS
  <2>4. /\ a \o b = SubSeq(ms, 1, i + 1) /\ IsSeq(a) /\ IsSeq(b)
        /\ Len(b) = (i + 1) - i
        /\ \A j \in 1..((i + 1) - i) : SubSeq(ms, i + 1, i + 1)[j] = ms[i + j]
    BY <1>1, <2>2, <2>3, SubNext
  <2>5. Len(b) = 1 /\ b[1] = x
    BY <2>3, <2>4
  <2>6. b = <<x>>
    <3>1. IsSeq(<<x>>) /\ Len(<<x>>) = 1 /\ <<x>>[1] = x
      BY IsOne
    <3>2. PICK o : o = <<x>>
      OBVIOUS
    <3>3. IsSeq(o) /\ Len(b) = Len(o) /\ \A j \in 1..Len(b) : b[j] = o[j]
      BY <3>1, <3>2, <2>5
    <3>4. b = o
      BY <3>3, <2>4, SameSeq
    <3>5. QED  BY <3>2, <3>4
  <2>7. PICK u : u = ns \o a
    OBVIOUS
  <2>8. IsSeq(u)
    BY <1>1, <2>4, <2>7, Concat
  <2>9. (ns \o a) \o b = ns \o (a \o b)
    <3>1. IsSeq(ns) /\ IsSeq(a) /\ IsSeq(b)
      BY <1>1, <2>4
    <3>2. QED  BY <3>1, Associative
  <2>10. Append(u, x) = u \o <<x>>
    BY <2>8, AppendIs
  <2>11. ns \o SubSeq(ms, 1, i + 1) = Append(u, x)
    BY <2>4, <2>6, <2>7, <2>9, <2>10
  <2>12. AllWritable(u) /\ Sigs(Written(u)) = Sigs(Written(ns))
    BY <1>3, <1>5, <2>2, <2>3, <2>7
  <2>13. x.type # "signature" /\ Sendable(x)
    <3>1. i + 1 \in 1..Len(ms)
      BY <2>2
    <3>2. QED  BY <3>1, <2>3 DEF AllPlain
  <2>14. AllWritable(Append(u, x)) /\ Sigs(Written(Append(u, x))) = Sigs(Written(u))
    BY <2>12, <2>13, TellMore
  <2>15. QED  BY <2>11, <2>12, <2>14
<1>6. n \in S
  BY <1>4, <1>5, Climb
<1>7. SubSeq(ms, 1, n) = ms
  BY <1>1, <1>2, SubWhole
<1>8. /\ AllWritable(ns \o SubSeq(ms, 1, n))
      /\ Sigs(Written(ns \o SubSeq(ms, 1, n))) = Sigs(Written(ns))
  <2>1. n <= n
    OBVIOUS
  <2>2. QED  BY <2>1, <1>3, <1>6
<1>9. QED  BY <1>7, <1>8

(***************************************************************************)
(* A parser that no message without payload comes to, of those that are    *)
(* handed on, whatever else it reads and even if it has lost its place.    *)
(***************************************************************************)
Media == {"audio", "video", "data"}

\* What a cell says, if it is of a header.
FineCell(x) ==
  /\ "basic" \in DOMAIN x => x.basic[1] \in 0..3
  /\ "time" \in DOMAIN x => x.time \in Nat
  /\ "lengthType" \in DOMAIN x =>
       x.lengthType[1] \in Nat /\ (x.lengthType[2] \in Media => x.lengthType[1] # 0)
  /\ "ext" \in DOMAIN x => x.ext \in Nat
FineCells(s) == IsSeq(s) /\ \A i \in 1..Len(s) : FineCell(s[i])

FinePacket(k) ==
  /\ IsPacket(k) /\ k.time \in Nat /\ k.length \in Nat /\ k.clock \in Nat
  /\ k.type \in Media => k.length # 0
  /\ Cells(k.payload)
FinePackets(f) == \A c \in DOMAIN f : FinePacket(f[c])

\* What is handed on, if it is, can be written again.
FineMail(h) ==
  /\ h = Handed(h)
  /\ h.type \in Media =>
       /\ h.clock \in Nat /\ ~(h.clock > MaxClock)
       /\ Cells(h.payload) /\ h.payload # <<>>
FineMails(hs) == IsSeq(hs) /\ \A i \in 1..Len(hs) : FineMail(hs[i])

\* The cells of the header are those that the state says.
FineState(st, w, n, cid, f) ==
  /\ st # "INIT" => w # <<>> /\ "basic" \in DOMAIN w[1] /\ n \in 1..3
  /\ st = "BASIC_HEADER" => Len(w) <= n
  /\ st = "MESSAGE_HEADER" =>
       /\ n <= Len(w) /\ Len(w) <= n + Len(HeaderFields(w[1].basic[1]))
       /\ \A i \in 1..(Len(w) - n) : HeaderFields(w[1].basic[1])[i] \in DOMAIN w[n + i]
  /\ st = "EXTENDED_TIMESTAMP" =>
       Len(w) = n + Len(HeaderFields(w[1].basic[1])) \/ "ext" \in DOMAIN w[Len(w)]
  /\ st \in {"EXTENDED_TIMESTAMP", "PAYLOAD"} => cid \in DOMAIN f
FineParser(p) ==
  /\ DOMAIN p = Fields /\ FineCells(p.buffer) /\ FinePackets(p.inPackets)
  /\ FineMails(p.handled)
  /\ FineState(p.state, p.buffer, p.basicBytes, p.cid, p.inPackets)

LEMMA FinePut ==
  ASSUME NEW f, FinePackets(f), NEW c, NEW k, FinePacket(k)
  PROVE  FinePackets(Updated(f, c, k)) /\ c \in DOMAIN Updated(f, c, k)
<1>1. DOMAIN Updated(f, c, k) = {c} \cup DOMAIN f /\ Updated(f, c, k)[c] = k
      /\ \A d \in DOMAIN f : d # c => Updated(f, c, k)[d] = f[d]
  BY DEF Updated
<1>2. PICK g : g = Updated(f, c, k)
  OBVIOUS
<1>3. ASSUME NEW d \in DOMAIN g PROVE FinePacket(g[d])
  <2>1. CASE d = c
    <3>1. g[d] = k
      BY <1>1, <1>2, <2>1
    <3>2. QED  BY <3>1
  <2>2. CASE d # c
    <3>1. d \in DOMAIN f /\ g[d] = f[d]
      BY <1>1, <1>2, <1>3, <2>2
    <3>2. QED  BY <3>1 DEF FinePackets
  <2>3. QED  BY <2>1, <2>2
<1>4. QED  BY <1>1, <1>2, <1>3 DEF FinePackets

LEMMA NoMails == FineMails(<<>>)
<1>1. PICK s : s = <<>> /\ IsSeq(s) /\ Len(s) = 0
  BY IsEmpty
<1>2. \A i \in 1..0 : FineMail(s[i])
  OBVIOUS
<1>3. QED  BY <1>1, <1>2 DEF FineMails

LEMMA MoreMails ==
  ASSUME NEW hs, FineMails(hs), NEW h, FineMail(h) PROVE FineMails(Append(hs, h))
<1>1. PICK t : t = Append(hs, h)
  OBVIOUS
<1>2. PICK n : n = Len(hs)
  OBVIOUS
<1>3. IsSeq(hs) /\ n \in Nat
  BY <1>2, IsSeqLen DEF FineMails
<1>4. IsSeq(t) /\ Len(t) = n + 1 /\ (\A i \in 1..n : t[i] = hs[i]) /\ t[n + 1] = h
  BY <1>1, <1>2, <1>3, AppendIs, Zenon
<1>5. ASSUME NEW i \in 1..(n + 1) PROVE FineMail(t[i])
  <2>1. CASE i = n + 1
    <3>1. t[i] = h
      BY <1>4, <2>1
    <3>2. QED  BY <3>1
  <2>2. CASE i # n + 1
    <3>1. i \in 1..n
      BY <1>3, <2>2
    <3>2. t[i] = hs[i] /\ FineMail(hs[i])
      BY <1>2, <1>4, <3>1 DEF FineMails
    <3>3. QED  BY <3>2
  <2>3. QED  BY <2>1, <2>2
<1>6. QED  BY <1>1, <1>4, <1>5 DEF FineMails

LEMMA MoreFine ==
  ASSUME NEW w, FineCells(w), NEW x, FineCell(x) PROVE FineCells(Append(w, x))
<1>1. PICK t : t = Append(w, x)
  OBVIOUS
<1>2. PICK n : n = Len(w)
  OBVIOUS
<1>3. IsSeq(w) /\ n \in Nat
  BY <1>2, IsSeqLen DEF FineCells
<1>4. IsSeq(t) /\ Len(t) = n + 1 /\ (\A i \in 1..n : t[i] = w[i]) /\ t[n + 1] = x
  BY <1>1, <1>2, <1>3, AppendIs, Zenon
<1>5. ASSUME NEW i \in 1..(n + 1) PROVE FineCell(t[i])
  <2>1. CASE i = n + 1
    <3>1. t[i] = x
      BY <1>4, <2>1
    <3>2. QED  BY <3>1
  <2>2. CASE i # n + 1
    <3>1. i \in 1..n
      BY <1>3, <2>2
    <3>2. t[i] = w[i] /\ FineCell(w[i])
      BY <1>2, <1>4, <3>1 DEF FineCells
    <3>3. QED  BY <3>2
  <2>3. QED  BY <2>1, <2>2
<1>6. QED  BY <1>1, <1>4, <1>5 DEF FineCells

\* The first cell says how long the header is.
LEMMA HeaderIs ==
  ASSUME NEW w, FineCells(w), w # <<>>, "basic" \in DOMAIN w[1],
         NEW fmt, fmt = w[1].basic[1], NEW n, n = Len(HeaderFields(fmt))
  PROVE  /\ fmt \in 0..3 /\ n = 3 - fmt /\ Len(w) \in Nat /\ Len(w) # 0
         /\ n >= 1 => HeaderFields(fmt)[1] = "time"
         /\ n >= 2 => HeaderFields(fmt)[2] = "lengthType"
<1>1. IsSeq(w)
  BY DEF FineCells
<1>2. Len(w) \in Nat /\ Len(w) # 0
  BY <1>1, IsSeqLen, EmptyLen
<1>3. FineCell(w[1])
  <2>1. 1 \in 1..Len(w)
    BY <1>2
  <2>2. QED  BY <2>1 DEF FineCells
<1>4. fmt \in 0..3
  BY <1>3 DEF FineCell
<1>5. n = 3 - fmt /\ \A i \in 1..(3 - fmt) :
        HeaderFields(fmt)[i] = <<"time", "lengthType", "streamId">>[i]
  BY <1>4, FieldsOfHeader
<1>6. n >= 1 => HeaderFields(fmt)[1] = "time"
  <2>1. n >= 1 => 1 \in 1..(3 - fmt)
    BY <1>4, <1>5
  <2>2. QED  BY <2>1, <1>5
<1>7. n >= 2 => HeaderFields(fmt)[2] = "lengthType"
  <2>1. n >= 2 => 2 \in 1..(3 - fmt)
    BY <1>4, <1>5
  <2>2. QED  BY <2>1, <1>5
<1>8. QED  BY <1>2, <1>4, <1>5, <1>6, <1>7

LEMMA FineBasic ==
  ASSUME NEW p, FineParser(p), NEW q, q = BasicHeaderRead(p)
  PROVE  FineParser(q) /\ (q.state = "BASIC_HEADER" => Len(q.buffer) # q.basicBytes)
<1>1. CASE ~(p.state = "BASIC_HEADER" /\ Len(p.buffer) = p.basicBytes)
  <2>1. q = p
    BY <1>1 DEF BasicHeaderRead
  <2>2. QED  BY <1>1, <2>1
<1>2. CASE p.state = "BASIC_HEADER" /\ Len(p.buffer) = p.basicBytes
  <2>1. q = [p EXCEPT !.state = "MESSAGE_HEADER"]
    BY <1>2 DEF BasicHeaderRead
  <2>2. /\ DOMAIN q = Fields /\ q.state = "MESSAGE_HEADER" /\ q.buffer = p.buffer
        /\ q.inPackets = p.inPackets /\ q.handled = p.handled /\ q.basicBytes = p.basicBytes
    BY <2>1, StateFields DEF FineParser, SameBuffer, SameRest
  <2>3. PICK w, n : w = p.buffer /\ n = p.basicBytes
    OBVIOUS
  <2>4. FineCells(w) /\ w # <<>> /\ "basic" \in DOMAIN w[1] /\ n \in 1..3 /\ Len(w) = n
    BY <1>2, <2>3 DEF FineParser, FineState
  <2>5. PICK fmt, m : fmt = w[1].basic[1] /\ m = Len(HeaderFields(fmt))
    OBVIOUS
  <2>6. fmt \in 0..3 /\ m = 3 - fmt
    BY <2>4, <2>5, HeaderIs
  <2>7. \A i \in 1..(Len(w) - n) : FALSE
    BY <2>4
  <2>8. FineState("MESSAGE_HEADER", w, n, q.cid, q.inPackets)
    BY <2>4, <2>5, <2>6, <2>7 DEF FineState
  <2>9. QED  BY <2>2, <2>3, <2>8 DEF FineParser
<1>3. QED  BY <1>1, <1>2

LEMMA FineParsed ==
  ASSUME NEW p, FineParser(p), p.state = "MESSAGE_HEADER", Len(p.buffer) = HeaderSize(p)
  PROVE  FinePacket(Parsed(p))
<1>1. PICK w, n : w = p.buffer /\ n = p.basicBytes
  OBVIOUS
<1>2. PICK fmt : fmt = w[1].basic[1]
  OBVIOUS
<1>3. PICK m : m = Len(HeaderFields(fmt))
  OBVIOUS
<1>4. /\ FineCells(w) /\ w # <<>> /\ "basic" \in DOMAIN w[1] /\ n \in 1..3
      /\ \A i \in 1..(Len(w) - n) : HeaderFields(fmt)[i] \in DOMAIN w[n + i]
      /\ Len(w) = n + m
  BY <1>1, <1>2, <1>3 DEF FineParser, FineState, HeaderSize, Fmt
<1>5. /\ fmt \in 0..3 /\ m = 3 - fmt /\ Len(w) \in Nat
      /\ m >= 1 => HeaderFields(fmt)[1] = "time"
      /\ m >= 2 => HeaderFields(fmt)[2] = "lengthType"
  BY <1>2, <1>3, <1>4, HeaderIs
<1>6. fmt <= 2 => w[n + 1].time \in Nat
  <2>1. SUFFICES ASSUME fmt <= 2 PROVE w[n + 1].time \in Nat
    OBVIOUS
  <2>2. 1 \in 1..(Len(w) - n) /\ n + 1 \in 1..Len(w) /\ m >= 1
    BY <1>4, <1>5, <2>1
  <2>3. "time" \in DOMAIN w[n + 1]
    BY <1>4, <1>5, <2>2
  <2>4. FineCell(w[n + 1])
    BY <1>4, <2>2 DEF FineCells
  <2>5. QED  BY <2>3, <2>4 DEF FineCell
<1>7. fmt <= 1 => /\ w[n + 2].lengthType[1] \in Nat
                  /\ w[n + 2].lengthType[2] \in Media => w[n + 2].lengthType[1] # 0
  <2>1. SUFFICES ASSUME fmt <= 1
                 PROVE  /\ w[n + 2].lengthType[1] \in Nat
                        /\ w[n + 2].lengthType[2] \in Media => w[n + 2].lengthType[1] # 0
    OBVIOUS
  <2>2. 2 \in 1..(Len(w) - n) /\ n + 2 \in 1..Len(w) /\ m >= 2
    BY <1>4, <1>5, <2>1
  <2>3. "lengthType" \in DOMAIN w[n + 2]
    BY <1>4, <1>5, <2>2
  <2>4. FineCell(w[n + 2])
    BY <1>4, <2>2 DEF FineCells
  <2>5. QED  BY <2>3, <2>4 DEF FineCell
<1>8. PICK old : old = IF Cid(p) \in DOMAIN p.inPackets THEN p.inPackets[Cid(p)] ELSE RtmpPacket
  OBVIOUS
<1>9. FinePacket(old)
  <2>1. FinePacket(RtmpPacket)
    <3>1. DOMAIN RtmpPacket = PacketKeys /\ RtmpPacket.payload = <<>> /\ RtmpPacket.time = 0
          /\ RtmpPacket.length = 0 /\ RtmpPacket.clock = 0 /\ RtmpPacket.type = "none"
      BY DEF RtmpPacket, PacketKeys
    <3>2. PICK k : k = RtmpPacket
      OBVIOUS
    <3>3. IsPacket(k) /\ Cells(k.payload)
      BY <3>1, <3>2, NoCells, IsEmpty DEF IsPacket
    <3>4. k.type \notin Media
      BY <3>1, <3>2 DEF Media
    <3>5. QED  BY <3>1, <3>2, <3>3, <3>4 DEF FinePacket
  <2>2. QED  BY <1>8, <2>1 DEF FineParser, FinePackets
<1>10. PICK a, b, t, s :
         /\ a = IF fmt <= 2 THEN w[n + 1].time ELSE old.time
         /\ b = IF fmt <= 1 THEN w[n + 2].lengthType[1] ELSE old.length
         /\ t = IF fmt <= 1 THEN w[n + 2].lengthType[2] ELSE old.type
         /\ s = IF fmt = 0 THEN w[n + 3].streamId ELSE old.sid
  OBVIOUS
<1>11. Parsed(p) = [old EXCEPT !.time = a, !.length = b, !.type = t, !.sid = s]
  BY <1>1, <1>2, <1>8, <1>10 DEF Parsed, Fmt
<1>12. PICK k : k = Parsed(p)
  OBVIOUS
<1>13. DOMAIN old = PacketKeys
  BY <1>9 DEF FinePacket, IsPacket
<1>14. /\ DOMAIN k = PacketKeys /\ k.time = a /\ k.length = b /\ k.type = t
       /\ k.clock = old.clock /\ k.payload = old.payload
  BY <1>11, <1>12, <1>13 DEF PacketKeys
<1>15. a \in Nat /\ b \in Nat /\ (t \in Media => b # 0)
  BY <1>5, <1>6, <1>7, <1>9, <1>10 DEF FinePacket
<1>16. FinePacket(k)
  BY <1>9, <1>14, <1>15 DEF FinePacket, IsPacket
<1>17. QED  BY <1>12, <1>16

LEMMA FineMessage ==
  ASSUME NEW p, FineParser(p), NEW q, q = MessageHeaderRead(p)
  PROVE  /\ FineParser(q) /\ (q = p \/ q.state = "EXTENDED_TIMESTAMP")
         /\ q.state = "MESSAGE_HEADER" => Len(q.buffer) # HeaderSize(q)
<1>1. CASE ~(p.state = "MESSAGE_HEADER" /\ Len(p.buffer) = HeaderSize(p))
  <2>1. q = p
    BY <1>1 DEF MessageHeaderRead
  <2>2. QED  BY <1>1, <2>1
<1>2. CASE p.state = "MESSAGE_HEADER" /\ Len(p.buffer) = HeaderSize(p)
  <2>1. PICK r : r = PacketParse(p)
    OBVIOUS
  <2>2. /\ DOMAIN r = Fields /\ r.cid = Cid(p)
        /\ r.inPackets = Updated(p.inPackets, Cid(p), Parsed(p))
        /\ r.buffer = p.buffer /\ r.basicBytes = p.basicBytes /\ r.handled = p.handled
    BY <2>1, PacketParseFields DEF FineParser, SameBuffer, SameRest
  <2>3. q = [r EXCEPT !.state = "EXTENDED_TIMESTAMP"]
    BY <1>2, <2>1 DEF MessageHeaderRead
  <2>4. /\ DOMAIN q = Fields /\ q.state = "EXTENDED_TIMESTAMP" /\ q.buffer = r.buffer
        /\ q.cid = r.cid /\ q.inPackets = r.inPackets /\ q.handled = r.handled
        /\ q.basicBytes = r.basicBytes
    BY <2>2, <2>3, StateFields DEF SameBuffer, SameRest
  <2>5. FinePacket(Parsed(p))
    BY <1>2, FineParsed
  <2>6. FinePackets(q.inPackets) /\ q.cid \in DOMAIN q.inPackets
    BY <2>2, <2>4, <2>5, FinePut DEF FineParser
  <2>7. FineState("EXTENDED_TIMESTAMP", q.buffer, q.basicBytes, q.cid, q.inPackets)
    BY <1>2, <2>2, <2>4, <2>6 DEF FineParser, FineState, HeaderSize, Fmt
  <2>8. QED  BY <2>2, <2>4, <2>6, <2>7 DEF FineParser
<1>3. QED  BY <1>1, <1>2

LEMMA FineExtended ==
  ASSUME NEW p, FineParser(p), NEW q, q = ExtendedTimestampRead(p)
  PROVE  FineParser(q) /\ (q = p \/ q.state = "PAYLOAD")
<1>1. CASE p.state # "EXTENDED_TIMESTAMP" \/ (Extended(p) /\ Len(p.buffer) = HeaderSize(p))
  <2>1. q = p
    BY <1>1 DEF ExtendedTimestampRead
  <2>2. QED  BY <2>1
<1>2. CASE ~(p.state # "EXTENDED_TIMESTAMP" \/ (Extended(p) /\ Len(p.buffer) = HeaderSize(p)))
  <2>1. PICK k : k = ParserPacket(p)
    OBVIOUS
  <2>2. PICK w : w = p.buffer
    OBVIOUS
  <2>3. p.state = "EXTENDED_TIMESTAMP" /\ p.cid \in DOMAIN p.inPackets
    BY <1>2 DEF FineParser, FineState
  <2>4. FinePacket(k)
    BY <2>1, <2>3 DEF FineParser, FinePackets, ParserPacket
  <2>5. FineCells(w) /\ w # <<>>
    BY <2>2, <2>3 DEF FineParser, FineState
  <2>6. Extended(p) => Last(w).ext \in Nat
    <3>1. SUFFICES ASSUME Extended(p) PROVE Last(w).ext \in Nat
      OBVIOUS
    <3>2. Len(w) # HeaderSize(p)
      BY <1>2, <2>2, <3>1
    <3>3. "ext" \in DOMAIN w[Len(w)]
      BY <2>2, <2>3, <3>2 DEF FineParser, FineState, HeaderSize, Fmt
    <3>4. IsSeq(w)
      BY <2>5 DEF FineCells
    <3>5. Len(w) \in 1..Len(w)
      BY <2>5, <3>4, IsSeqLen, EmptyLen
    <3>6. FineCell(w[Len(w)])
      BY <2>5, <3>5 DEF FineCells
    <3>7. QED  BY <3>3, <3>6 DEF FineCell, Last
  <2>7. PICK time : time = IF Extended(p) THEN Last(w).ext ELSE k.time
    OBVIOUS
  <2>8. time \in Nat
    BY <2>4, <2>6, <2>7 DEF FinePacket
  <2>9. PICK r : r = [p EXCEPT !.state = "PAYLOAD"]
    OBVIOUS
  <2>10. /\ DOMAIN r = Fields /\ r.state = "PAYLOAD" /\ r.cid = p.cid
         /\ r.inPackets = p.inPackets /\ r.buffer = p.buffer /\ r.basicBytes = p.basicBytes
         /\ r.handled = p.handled
    BY <2>9, StateFields DEF FineParser, SameBuffer, SameRest
  <2>11. PICK j : j = ClockOf(p, time)
    OBVIOUS
  <2>12. q = WithPacket(r, j)
    BY <1>2, <2>1, <2>2, <2>7, <2>9, <2>11, Zenon DEF ExtendedTimestampRead
  <2>13. FinePacket(j)
    <3>1. CASE k.payload # <<>>
      <4>1. j = k
        BY <2>1, <2>11, <3>1 DEF ClockOf
      <4>2. QED  BY <2>4, <4>1
    <3>2. CASE k.payload = <<>>
      <4>1. PICK clock : clock = IF Fmt(p) = 0 THEN time ELSE k.clock + time
        OBVIOUS
      <4>2. clock \in Nat
        BY <2>4, <2>8, <4>1 DEF FinePacket
      <4>3. j = [k EXCEPT !.clock = clock]
        BY <2>1, <2>11, <3>2, <4>1 DEF ClockOf
      <4>4. /\ DOMAIN j = PacketKeys /\ j.time = k.time /\ j.length = k.length
            /\ j.type = k.type /\ j.clock = clock /\ j.payload = k.payload
        BY <2>4, <4>3 DEF FinePacket, IsPacket, PacketKeys
      <4>5. QED  BY <2>4, <4>2, <4>4 DEF FinePacket, IsPacket
    <3>3. QED  BY <3>1, <3>2
  <2>14. /\ DOMAIN q = Fields /\ q.inPackets = Updated(r.inPackets, r.cid, j)
         /\ q.state = "PAYLOAD" /\ q.cid = r.cid /\ q.buffer = r.buffer
         /\ q.basicBytes = r.basicBytes /\ q.handled = r.handled
    BY <2>10, <2>12, WithPacketFields DEF SameBuffer, SameRest
  <2>15. FinePackets(q.inPackets) /\ q.cid \in DOMAIN q.inPackets
    BY <2>10, <2>13, <2>14, FinePut DEF FineParser
  <2>16. FineState("PAYLOAD", q.buffer, q.basicBytes, q.cid, q.inPackets)
    BY <2>3, <2>10, <2>14, <2>15 DEF FineParser, FineState
  <2>17. QED  BY <2>10, <2>14, <2>15, <2>16 DEF FineParser
<1>3. QED  BY <1>1, <1>2

\* A message is complete: it is handed on, and has a payload.
LEMMA FineHandler ==
  ASSUME NEW p, FineParser(p), p.state = "PAYLOAD", NEW k, k = ParserPacket(p),
         Len(k.payload) >= k.length, NEW q, q = PacketHandler(p)
  PROVE  FineParser(q) /\ q.state = "INIT"
<1>1. p.cid \in DOMAIN p.inPackets
  BY DEF FineParser, FineState
<1>2. FinePacket(k)
  BY <1>1 DEF FineParser, FinePackets, ParserPacket
<1>3. PICK j : j = [k EXCEPT !.payload = <<>>]
  OBVIOUS
<1>4. DOMAIN p = Fields
  BY DEF FineParser
<1>5. /\ DOMAIN q = Fields /\ q.state = "INIT" /\ q.cid = p.cid
      /\ q.inPackets = Updated(p.inPackets, p.cid, j)
      /\ q.buffer = p.buffer
      /\ k.clock > MaxClock => q.handled = p.handled
      /\ ~(k.clock > MaxClock) => q.handled = Append(p.handled, Handed(k))
  BY <1>3, <1>4, PacketHandlerFields DEF SameBuffer, SameRest
<1>6. FinePacket(j)
  <2>1. /\ DOMAIN j = PacketKeys /\ j.time = k.time /\ j.length = k.length
        /\ j.type = k.type /\ j.clock = k.clock /\ j.payload = <<>>
    BY <1>2, <1>3 DEF FinePacket, IsPacket, PacketKeys
  <2>2. Cells(j.payload) /\ IsSeq(j.payload)
    BY <2>1, NoCells, IsEmpty
  <2>3. QED  BY <1>2, <2>1, <2>2 DEF FinePacket, IsPacket
<1>7. FinePackets(q.inPackets)
  BY <1>5, <1>6, FinePut DEF FineParser
<1>8. FineMails(q.handled)
  <2>1. CASE k.clock > MaxClock
    BY <1>5, <2>1 DEF FineParser
  <2>2. CASE ~(k.clock > MaxClock)
    <3>1. PICK h : h = Handed(k)
      OBVIOUS
    <3>2. /\ h.type = k.type /\ h.sid = k.sid /\ h.clock = k.clock
          /\ h.payload = k.payload /\ h = Handed(h)
      BY <3>1 DEF Handed
    <3>3. k.type \in Media => k.payload # <<>>
      <4>1. IsSeq(k.payload)
        BY <1>2 DEF FinePacket, IsPacket
      <4>2. QED  BY <1>2, <4>1, EmptyLen DEF FinePacket
    <3>4. FineMail(h)
      BY <1>2, <2>2, <3>2, <3>3 DEF FinePacket, FineMail
    <3>5. FineMails(Append(p.handled, h))
      BY <3>4, MoreMails DEF FineParser
    <3>6. QED  BY <1>5, <2>2, <3>1, <3>5
  <2>3. QED  BY <2>1, <2>2
<1>9. FineState("INIT", q.buffer, q.basicBytes, q.cid, q.inPackets)
  BY DEF FineState
<1>10. FineCells(q.buffer)
  BY <1>5 DEF FineParser
<1>11. QED  BY <1>5, <1>7, <1>8, <1>9, <1>10 DEF FineParser

LEMMA FinePayload ==
  ASSUME NEW p, FineParser(p), NEW q, q = PayloadRead(p)
  PROVE  FineParser(q) /\ (q = p \/ q.state = "INIT")
<1>1. CASE p.state # "PAYLOAD"
  BY <1>1 DEF PayloadRead
<1>2. CASE p.state = "PAYLOAD"
  <2>1. PICK k : k = ParserPacket(p)
    OBVIOUS
  <2>2. PICK r : r = [p EXCEPT !.state = "INIT"]
    OBVIOUS
  <2>3. PICK h : h = PacketHandler(p)
    OBVIOUS
  <2>4. (q = h /\ Len(k.payload) >= k.length) \/ q = r \/ q = p
    BY <1>2, <2>1, <2>2, <2>3 DEF PayloadRead
  <2>5. FineParser(r) /\ r.state = "INIT"
    <3>1. /\ DOMAIN r = Fields /\ r.state = "INIT" /\ r.cid = p.cid
          /\ r.inPackets = p.inPackets /\ r.buffer = p.buffer /\ r.handled = p.handled
      BY <2>2, StateFields DEF FineParser, SameBuffer, SameRest
    <3>2. FineState("INIT", r.buffer, r.basicBytes, r.cid, r.inPackets)
      BY DEF FineState
    <3>3. QED  BY <3>1, <3>2 DEF FineParser
  <2>6. Len(k.payload) >= k.length => FineParser(h) /\ h.state = "INIT"
    BY <1>2, <2>1, <2>3, FineHandler
  <2>7. QED  BY <2>4, <2>5, <2>6
<1>3. QED  BY <1>1, <1>2

LEMMA FineSettle ==
  ASSUME NEW p, FineParser(p), NEW q, q = Settle(p)
  PROVE  /\ FineParser(q)
         /\ q.state = "BASIC_HEADER" => Len(q.buffer) # q.basicBytes
         /\ q.state = "MESSAGE_HEADER" => Len(q.buffer) # HeaderSize(q)
<1>1. PICK a : a = BasicHeaderRead(p)
  OBVIOUS
<1>2. PICK b : b = MessageHeaderRead(a)
  OBVIOUS
<1>3. PICK c : c = ExtendedTimestampRead(b)
  OBVIOUS
<1>4. q = EmptyPayload(c)
  BY <1>1, <1>2, <1>3 DEF Settle
<1>5. FineParser(a) /\ (a.state = "BASIC_HEADER" => Len(a.buffer) # a.basicBytes)
  BY <1>1, FineBasic
<1>6. /\ FineParser(b) /\ (b = a \/ b.state = "EXTENDED_TIMESTAMP")
      /\ b.state = "MESSAGE_HEADER" => Len(b.buffer) # HeaderSize(b)
  BY <1>2, <1>5, FineMessage
<1>7. FineParser(c) /\ (c = b \/ c.state = "PAYLOAD")
  BY <1>3, <1>6, FineExtended
<1>8. PICK d : d = PayloadRead(c)
  OBVIOUS
<1>9. FineParser(d) /\ (d = c \/ d.state = "INIT")
  BY <1>7, <1>8, FinePayload
<1>10. q = c \/ q = d
  BY <1>4, <1>8 DEF EmptyPayload
<1>11. QED  BY <1>5, <1>6, <1>7, <1>9, <1>10

LEMMA FineBegun ==
  ASSUME NEW p, FineParser(p), NEW x, FineCell(x), "basic" \in DOMAIN x,
         NEW q, q = Begun(p, x)
  PROVE  FineParser(q)
<1>1. PICK n : n = CASE x.basic[2] = 0 -> 2 [] x.basic[2] = 1 -> 3 [] OTHER -> 1
  OBVIOUS
<1>2. n \in 1..3
  BY <1>1
<1>3. DOMAIN p = Fields
  BY DEF FineParser
<1>4. PICK w : w = <<x>>
  OBVIOUS
<1>5. IsSeq(w) /\ Len(w) = 1 /\ w[1] = x
  BY <1>4, IsOne
<1>6. /\ DOMAIN q = Fields /\ q.state = "BASIC_HEADER" /\ q.buffer = w /\ q.basicBytes = n
      /\ q.cid = p.cid /\ q.inPackets = p.inPackets /\ q.handled = p.handled
  BY <1>1, <1>3, <1>4, BegunFields DEF SameRest
<1>7. FineCells(w) /\ w # <<>>
  BY <1>5, IsEmpty DEF FineCells
<1>8. FineState("BASIC_HEADER", w, n, q.cid, q.inPackets)
  BY <1>2, <1>5, <1>7 DEF FineState
<1>9. QED  BY <1>6, <1>7, <1>8 DEF FineParser

LEMMA FineLonger ==
  ASSUME NEW p, FineParser(p), NEW x, FineCell(x), Expects(p, x),
         p.state \notin {"INIT", "PAYLOAD"},
         p.state = "BASIC_HEADER" => Len(p.buffer) # p.basicBytes,
         p.state = "MESSAGE_HEADER" => Len(p.buffer) # HeaderSize(p),
         NEW q, q = Longer(p, x)
  PROVE  FineParser(q)
<1>1. PICK v, w : v = p.buffer /\ w = Append(p.buffer, x)
  OBVIOUS
<1>2. PICK st, n : st = p.state /\ n = p.basicBytes
  OBVIOUS
<1>3. PICK l : l = Len(v)
  OBVIOUS
<1>4. PICK fmt : fmt = v[1].basic[1]
  OBVIOUS
<1>5. PICK m : m = Len(HeaderFields(fmt))
  OBVIOUS
<1>6. /\ FineCells(v) /\ v # <<>> /\ "basic" \in DOMAIN v[1] /\ n \in 1..3
      /\ DOMAIN p = Fields /\ IsSeq(v)
  BY <1>1, <1>2 DEF FineParser, FineState, FineCells
<1>7. fmt \in 0..3 /\ m = 3 - fmt /\ l \in Nat /\ l # 0
  BY <1>3, <1>4, <1>5, <1>6, HeaderIs
<1>8. /\ IsSeq(w) /\ Len(w) = l + 1 /\ (\A i \in 1..l : w[i] = v[i]) /\ w[l + 1] = x
  <2>1. Extends(w, v, x)
    BY <1>1, <1>6, Appended
  <2>2. QED  BY <1>3, <2>1 DEF Extends
<1>9. /\ DOMAIN q = Fields /\ q.state = st /\ q.buffer = w /\ q.basicBytes = n
      /\ q.cid = p.cid /\ q.inPackets = p.inPackets /\ q.handled = p.handled
  BY <1>1, <1>2, <1>6, LongerFields DEF SameRest
<1>10. FineCells(w)
  BY <1>1, <1>6, MoreFine
<1>11. w # <<>> /\ w[1] = v[1]
  <2>1. 1 \in 1..l /\ Len(w) # 0
    BY <1>7, <1>8
  <2>2. QED  BY <2>1, <1>8, IsEmpty
<1>12. st = "BASIC_HEADER" => Len(w) <= n
  <2>1. st = "BASIC_HEADER" => l <= n /\ l # n
    BY <1>1, <1>2, <1>3 DEF FineParser, FineState
  <2>2. QED  BY <2>1, <1>6, <1>7, <1>8
<1>13. st = "MESSAGE_HEADER" =>
         /\ n <= Len(w) /\ Len(w) <= n + m
         /\ \A i \in 1..(Len(w) - n) : HeaderFields(fmt)[i] \in DOMAIN w[n + i]
  <2>1. SUFFICES ASSUME st = "MESSAGE_HEADER"
                 PROVE  /\ n <= Len(w) /\ Len(w) <= n + m
                        /\ \A i \in 1..(Len(w) - n) : HeaderFields(fmt)[i] \in DOMAIN w[n + i]
    OBVIOUS
  <2>2. /\ n <= l /\ l <= n + m
        /\ \A i \in 1..(l - n) : HeaderFields(fmt)[i] \in DOMAIN v[n + i]
    BY <2>1, <1>1, <1>2, <1>3, <1>4, <1>5 DEF FineParser, FineState
  <2>3. l # n + m
    BY <2>1, <1>1, <1>2, <1>3, <1>4, <1>5 DEF HeaderSize, Fmt
  <2>4. HeaderFields(fmt)[l - n + 1] \in DOMAIN x
    BY <2>1, <1>1, <1>2, <1>3, <1>4 DEF Expects, Fmt
  <2>5. ASSUME NEW i \in 1..(Len(w) - n) PROVE HeaderFields(fmt)[i] \in DOMAIN w[n + i]
    <3>1. CASE i = l - n + 1
      <4>1. n + i = l + 1
        BY <3>1, <1>6, <1>7
      <4>2. QED  BY <3>1, <4>1, <2>4, <1>8
    <3>2. CASE i # l - n + 1
      <4>1. i \in 1..(l - n) /\ n + i \in 1..l
        BY <3>2, <2>2, <2>5, <1>6, <1>7, <1>8
      <4>2. w[n + i] = v[n + i]
        BY <4>1, <1>8
      <4>3. QED  BY <4>1, <4>2, <2>2
    <3>3. QED  BY <3>1, <3>2
  <2>6. QED  BY <2>2, <2>3, <2>5, <1>6, <1>7, <1>8
<1>14. st = "EXTENDED_TIMESTAMP" => "ext" \in DOMAIN w[Len(w)]
  <2>1. st = "EXTENDED_TIMESTAMP" => "ext" \in DOMAIN x
    BY <1>2 DEF Expects
  <2>2. QED  BY <2>1, <1>8
<1>15. st \in {"EXTENDED_TIMESTAMP", "PAYLOAD"} => p.cid \in DOMAIN p.inPackets
  BY <1>2 DEF FineParser, FineState
<1>16. FineState(st, w, n, p.cid, p.inPackets)
  BY <1>4, <1>5, <1>6, <1>11, <1>12, <1>13, <1>14, <1>15 DEF FineState
<1>17. QED  BY <1>9, <1>10, <1>16 DEF FineParser

LEMMA FineTaken ==
  ASSUME NEW p, FineParser(p), NEW x, IsPayload(x), p.state = "PAYLOAD",
         NEW q, q = Taken(p, x)
  PROVE  FineParser(q)
<1>1. PICK k : k = ParserPacket(p)
  OBVIOUS
<1>2. p.cid \in DOMAIN p.inPackets
  BY DEF FineParser, FineState
<1>3. FinePacket(k)
  BY <1>1, <1>2 DEF FineParser, FinePackets, ParserPacket
<1>4. PICK u : u = Append(k.payload, x)
  OBVIOUS
<1>5. PICK j : j = [k EXCEPT !.payload = u]
  OBVIOUS
<1>6. Cells(u) /\ IsSeq(u)
  <2>1. Cells(k.payload) /\ IsSeq(k.payload)
    BY <1>3 DEF FinePacket, Cells
  <2>2. u = k.payload \o <<x>>
    BY <2>1, <1>4, AppendIs, Zenon
  <2>3. Cells(u)
    BY <2>1, <2>2, OneCell, MoreCells
  <2>4. QED  BY <2>3 DEF Cells
<1>7. DOMAIN k = PacketKeys
  BY <1>3 DEF FinePacket, IsPacket
<1>8. /\ DOMAIN j = PacketKeys /\ j.time = k.time /\ j.length = k.length
      /\ j.type = k.type /\ j.clock = k.clock /\ j.payload = u
  BY <1>5, <1>7 DEF PacketKeys
<1>9. FinePacket(j)
  BY <1>3, <1>6, <1>8 DEF FinePacket, IsPacket
<1>10. q = WithPacket(p, j)
  BY <1>1, <1>4, <1>5 DEF Taken
<1>11. DOMAIN p = Fields
  BY DEF FineParser
<1>12. /\ DOMAIN q = Fields /\ q.inPackets = Updated(p.inPackets, p.cid, j)
       /\ q.state = "PAYLOAD" /\ q.cid = p.cid /\ q.buffer = p.buffer
       /\ q.basicBytes = p.basicBytes /\ q.handled = p.handled
  BY <1>10, <1>11, WithPacketFields DEF SameBuffer, SameRest
<1>13. FinePackets(q.inPackets) /\ q.cid \in DOMAIN q.inPackets
  BY <1>9, <1>12, FinePut DEF FineParser
<1>14. FineState("PAYLOAD", q.buffer, q.basicBytes, q.cid, q.inPackets)
  BY <1>12, <1>13 DEF FineParser, FineState
<1>15. QED  BY <1>12, <1>13, <1>14 DEF FineParser

LEMMA FineTakes ==
  ASSUME NEW p, FineParser(p), NEW x, FineCell(x),
         p.state = "BASIC_HEADER" => Len(p.buffer) # p.basicBytes,
         p.state = "MESSAGE_HEADER" => Len(p.buffer) # HeaderSize(p),
         NEW q, q = TakeCell(p, x)
  PROVE  FineParser(q)
<1>1. PICK lost : lost = [p EXCEPT !.inStep = FALSE]
  OBVIOUS
<1>2. PICK a, b, c, d : a = Begun(p, x) /\ b = Longer(p, x) /\ c = Taken(p, x)
                        /\ d = PayloadRead(c)
  OBVIOUS
<1>3. q = IF ~p.inStep \/ ~Expects(p, x) THEN lost
          ELSE IF p.state = "INIT" THEN a ELSE IF p.state # "PAYLOAD" THEN b ELSE d
  BY <1>1, <1>2, TakeCases, Zenon
<1>4. FineParser(lost)
  <2>1. DOMAIN p = Fields
    BY DEF FineParser
  <2>2. /\ DOMAIN lost = Fields /\ lost.state = p.state /\ lost.buffer = p.buffer
        /\ lost.basicBytes = p.basicBytes /\ lost.cid = p.cid
        /\ lost.inPackets = p.inPackets /\ lost.handled = p.handled
    BY <1>1, <2>1, LostFields DEF SameRest
  <2>3. QED  BY <2>2 DEF FineParser
<1>5. CASE ~p.inStep \/ ~Expects(p, x)
  BY <1>3, <1>4, <1>5
<1>6. CASE p.inStep /\ Expects(p, x) /\ p.state = "INIT"
  <2>1. "basic" \in DOMAIN x
    BY <1>6 DEF Expects
  <2>2. QED  BY <1>2, <1>3, <1>6, <2>1, FineBegun
<1>7. CASE p.inStep /\ Expects(p, x) /\ p.state \notin {"INIT", "PAYLOAD"}
  BY <1>2, <1>3, <1>7, FineLonger
<1>8. CASE p.inStep /\ Expects(p, x) /\ p.state = "PAYLOAD"
  <2>1. IsPayload(x)
    BY <1>8 DEF Expects
  <2>2. FineParser(c)
    BY <1>2, <1>8, <2>1, FineTaken
  <2>3. FineParser(d)
    BY <1>2, <2>2, FinePayload
  <2>4. QED  BY <1>3, <1>8, <2>3
<1>9. QED  BY <1>5, <1>6, <1>7, <1>8

LEMMA FineCellRead ==
  ASSUME NEW p, FineParser(p), NEW x, FineCell(x), NEW q, q = ChunkRead(p, x)
  PROVE  FineParser(q)
<1>1. CASE p.inStep
  <2>1. PICK r : r = Settle(p)
    OBVIOUS
  <2>2. /\ FineParser(r)
        /\ r.state = "BASIC_HEADER" => Len(r.buffer) # r.basicBytes
        /\ r.state = "MESSAGE_HEADER" => Len(r.buffer) # HeaderSize(r)
    BY <2>1, FineSettle
  <2>3. q = TakeCell(r, x)
    BY <1>1, <2>1 DEF ChunkRead
  <2>4. QED  BY <2>2, <2>3, FineTakes
<1>2. CASE ~p.inStep
  <2>1. PICK lost : lost = [p EXCEPT !.inStep = FALSE]
    OBVIOUS
  <2>2. q = lost
    BY <1>2, <2>1 DEF ChunkRead, TakeCell
  <2>3. DOMAIN p = Fields
    BY DEF FineParser
  <2>4. /\ DOMAIN lost = Fields /\ lost.state = p.state /\ lost.buffer = p.buffer
        /\ lost.basicBytes = p.basicBytes /\ lost.cid = p.cid
        /\ lost.inPackets = p.inPackets /\ lost.handled = p.handled
    BY <2>1, <2>3, LostFields DEF SameRest
  <2>5. QED  BY <2>2, <2>4 DEF FineParser
<1>3. QED  BY <1>1, <1>2

\* Whatever chunks a reader is sent, in whatever order and even if it takes them
\* for others than they are: if none begins an audio, video or data message
\* without payload, it hands none on.
THEOREM FineRead ==
  ASSUME NEW p, FineParser(p), NEW cells, FineCells(cells)
  PROVE  FineParser(ReadOn(p, cells))
<1>0. IsSeq(cells)
  BY DEF FineCells
<1>1. PICK n \in Nat : n = Len(cells)
  BY <1>0, IsSeqLen
<1>2. DEFINE S == {m \in Nat : \A u : FineCells(u) /\ Len(u) = m => FineParser(ReadOn(p, u))}
<1>3. 0 \in S
  <2>1. SUFFICES ASSUME NEW u, FineCells(u), Len(u) = 0 PROVE FineParser(ReadOn(p, u))
    OBVIOUS
  <2>2. u = <<>>
    BY <2>1, EmptyLen DEF FineCells
  <2>3. QED  BY <2>2, ReadNothing
<1>4. ASSUME NEW m \in Nat, m \in S PROVE m + 1 \in S
  <2>1. SUFFICES ASSUME NEW u, FineCells(u), Len(u) = m + 1 PROVE FineParser(ReadOn(p, u))
    OBVIOUS
  <2>2. IsSeq(u) /\ u # <<>>
    BY <2>1, EmptyLen DEF FineCells
  <2>3. PICK v, x : IsSeq(v) /\ u = Append(v, x) /\ Len(v) = Len(u) - 1
    BY <2>2, FrontLast
  <2>4. Len(v) = m
    BY <2>1, <2>3
  <2>5. (\A i \in 1..m : u[i] = v[i]) /\ u[m + 1] = x
    BY <2>3, <2>4, AppendIs, Zenon
  <2>6. FineCells(v) /\ FineCell(x)
    <3>1. \A i \in 1..m : i \in 1..(m + 1)
      OBVIOUS
    <3>2. m + 1 \in 1..(m + 1)
      OBVIOUS
    <3>3. QED  BY <3>1, <3>2, <2>1, <2>3, <2>4, <2>5 DEF FineCells
  <2>7. FineParser(ReadOn(p, v))
    BY <1>4, <2>4, <2>6
  <2>8. FineParser(ChunkRead(ReadOn(p, v), x))
    BY <2>6, <2>7, FineCellRead
  <2>9. QED  BY <2>3, <2>8, ReadMore
<1>5. n \in S
  <2> HIDE DEF S
  <2>1. QED  BY <1>3, <1>4, Climb
<1>6. QED  BY <1>1, <1>5

\* What is written is fine, if no message of media is without payload.
LEMMA FineNothing == FineCells(<<>>)
<1>1. PICK s : s = <<>> /\ IsSeq(s) /\ Len(s) = 0
  BY IsEmpty
<1>2. \A i \in 1..0 : FineCell(s[i])
  OBVIOUS
<1>3. QED  BY <1>1, <1>2 DEF FineCells

LEMMA FineOne == ASSUME NEW x, FineCell(x) PROVE FineCells(<<x>>)
<1>1. PICK s : s = <<x>> /\ IsSeq(s) /\ Len(s) = 1 /\ s[1] = x
  BY IsOne
<1>2. \A i \in 1..1 : FineCell(s[i])
  BY <1>1
<1>3. QED  BY <1>1, <1>2 DEF FineCells

LEMMA FineConcat ==
  ASSUME NEW s, NEW t, FineCells(s), FineCells(t) PROVE FineCells(s \o t)
<1>1. IsSeq(s) /\ IsSeq(t)
  BY DEF FineCells
<1>2. PICK u : u = s \o t
  OBVIOUS
<1>3. PICK a, b : a = Len(s) /\ b = Len(t)
  OBVIOUS
<1>4. /\ IsSeq(u) /\ Len(u) = a + b
      /\ \A i \in 1..a : u[i] = s[i]
      /\ \A i \in 1..b : u[a + i] = t[i]
  BY <1>1, <1>2, <1>3, Concat
<1>5. a \in Nat /\ b \in Nat
  BY <1>1, <1>3, IsSeqLen
<1>6. ASSUME NEW i \in 1..(a + b) PROVE FineCell(u[i])
  <2>1. CASE i <= a
    <3>1. i \in 1..a
      BY <1>5, <2>1
    <3>2. u[i] = s[i] /\ FineCell(s[i])
      BY <1>3, <1>4, <3>1 DEF FineCells
    <3>3. QED  BY <3>2
  <2>2. CASE i > a
    <3>1. PICK j \in 1..b : i = a + j
      <4>1. i - a \in 1..b /\ i = a + (i - a)
        BY <1>5, <2>2
      <4>2. QED  BY <4>1
    <3>2. u[i] = t[j] /\ FineCell(t[j])
      BY <1>3, <1>4, <3>1 DEF FineCells
    <3>3. QED  BY <3>2
  <2>3. QED  BY <1>5, <2>1, <2>2
<1>7. QED  BY <1>2, <1>4, <1>6 DEF FineCells

LEMMA PayloadFine == ASSUME NEW x, IsPayload(x) PROVE FineCell(x)
BY DEF IsPayload, FineCell

LEMMA PayloadsFine == ASSUME NEW s, Cells(s) PROVE FineCells(s)
BY PayloadFine DEF Cells, FineCells

LEMMA FineBasicHeader ==
  ASSUME NEW fmt \in 0..3, NEW cid PROVE FineCells(ChunkBasicHeaderCreate(fmt, cid))
<1>1. ASSUME NEW y PROVE FineCell([basic |-> <<fmt, y>>])
  <2>1. PICK x : x = [basic |-> <<fmt, y>>]
    OBVIOUS
  <2>2. DOMAIN x = {"basic"} /\ x.basic[1] = fmt
    BY <2>1
  <2>3. QED  BY <2>1, <2>2 DEF FineCell
<1>2. ASSUME NEW y PROVE FineCell([more |-> y])
  <2>1. PICK x : x = [more |-> y]
    OBVIOUS
  <2>2. DOMAIN x = {"more"}
    BY <2>1
  <2>3. QED  BY <2>1, <2>2 DEF FineCell
<1>3. PICK a, b, c : a = [basic |-> <<fmt, cid>>] /\ b = [basic |-> <<fmt, 0>>]
                     /\ c = [basic |-> <<fmt, 1>>]
  OBVIOUS
<1>4. PICK d, e, g : d = [more |-> cid - 64] /\ e = [more |-> (cid - 64) % 256]
                     /\ g = [more |-> ((cid - 64) \div 256) % 256]
  OBVIOUS
<1>5. FineCell(a) /\ FineCell(b) /\ FineCell(c) /\ FineCell(d) /\ FineCell(e) /\ FineCell(g)
  BY <1>1, <1>2, <1>3, <1>4
<1>6. FineCells(<<a>>)
  BY <1>5, FineOne
<1>7. FineCells(<<b, d>>)
  <2>0. IsSeq(<<b, d>>) /\ Len(<<b, d>>) = 2 /\ <<b, d>>[1] = b /\ <<b, d>>[2] = d
    BY IsTwo
  <2>1. PICK s : s = <<b, d>> /\ IsSeq(s) /\ Len(s) = 2 /\ s[1] = b /\ s[2] = d
    BY <2>0, Zenon
  <2>2. \A i \in 1..2 : i = 1 \/ i = 2
    OBVIOUS
  <2>3. \A i \in 1..2 : FineCell(s[i])
    BY <1>5, <2>1, <2>2
  <2>4. QED  BY <2>1, <2>3 DEF FineCells
<1>8. FineCells(<<c, e, g>>)
  <2>0. IsSeq(<<c, e, g>>) /\ Len(<<c, e, g>>) = 3
        /\ <<c, e, g>>[1] = c /\ <<c, e, g>>[2] = e /\ <<c, e, g>>[3] = g
    BY IsThree
  <2>1. PICK s : s = <<c, e, g>> /\ IsSeq(s) /\ Len(s) = 3 /\ s[1] = c /\ s[2] = e /\ s[3] = g
    BY <2>0, Zenon
  <2>2. \A i \in 1..3 : i = 1 \/ i = 2 \/ i = 3
    OBVIOUS
  <2>3. \A i \in 1..3 : FineCell(s[i])
    BY <1>5, <2>1, <2>2
  <2>4. QED  BY <2>1, <2>3 DEF FineCells
<1>9. ChunkBasicHeaderCreate(fmt, cid)
        = IF cid < 64 THEN <<a>> ELSE IF cid < 64 + 255 THEN <<b, d>> ELSE <<c, e, g>>
  BY <1>3, <1>4 DEF ChunkBasicHeaderCreate
<1>10. QED  BY <1>6, <1>7, <1>8, <1>9

LEMMA FineMessageHeader ==
  ASSUME NEW fmt \in 0..3, NEW m, m.time \in Nat, IsSeq(m.payload),
         fmt <= 1 => (m.type \in Media => m.payload # <<>>)
  PROVE  FineCells(ChunkMessageHeaderCreate(fmt, m))
<1>1. PICK w : w = ChunkMessageHeaderCreate(fmt, m)
  OBVIOUS
<1>2. PICK a, b, c : /\ a = [time |-> TimeShown(m.time)]
                     /\ b = [lengthType |-> <<Len(m.payload), m.type>>]
                     /\ c = [streamId |-> m.sid]
  OBVIOUS
<1>3. /\ IsSeq(w) /\ Len(w) = 3 - fmt
      /\ fmt <= 2 => w[1] = a
      /\ fmt <= 1 => w[2] = b
      /\ fmt = 0 => w[3] = c
  BY <1>1, <1>2, MessageHeader
<1>4. FineCell(a)
  <2>1. TimeShown(m.time) \in Nat
    BY ChunksAssumption DEF TimeShown
  <2>2. DOMAIN a = {"time"} /\ a.time \in Nat
    BY <1>2, <2>1
  <2>3. QED  BY <2>2 DEF FineCell
<1>5. fmt <= 1 => FineCell(b)
  <2>1. PICK l : l = Len(m.payload)
    OBVIOUS
  <2>2. l \in Nat /\ (m.payload # <<>> => l # 0)
    BY <2>1, IsSeqLen, EmptyLen
  <2>3. DOMAIN b = {"lengthType"} /\ b.lengthType[1] = l /\ b.lengthType[2] = m.type
    BY <1>2, <2>1
  <2>4. QED  BY <2>2, <2>3 DEF FineCell
<1>6. FineCell(c)
  <2>1. DOMAIN c = {"streamId"}
    BY <1>2
  <2>2. QED  BY <2>1 DEF FineCell
<1>7. ASSUME NEW i \in 1..(3 - fmt) PROVE FineCell(w[i])
  <2>1. \/ i = 1 /\ fmt <= 2
        \/ i = 2 /\ fmt <= 1
        \/ i = 3 /\ fmt = 0
    OBVIOUS
  <2>2. CASE i = 1 /\ fmt <= 2
    <3>1. w[i] = a
      BY <1>3, <2>2
    <3>2. QED  BY <1>4, <3>1
  <2>3. CASE i = 2 /\ fmt <= 1
    <3>1. w[i] = b
      BY <1>3, <2>3
    <3>2. QED  BY <1>5, <2>3, <3>1
  <2>4. CASE i = 3 /\ fmt = 0
    <3>1. w[i] = c
      BY <1>3, <2>4
    <3>2. QED  BY <1>6, <3>1
  <2>5. QED  BY <2>1, <2>2, <2>3, <2>4
<1>8. QED  BY <1>1, <1>3, <1>7 DEF FineCells

LEMMA FineTime == ASSUME NEW time \in Nat PROVE FineCells(ExtendedTimestamp(time))
<1>1. PICK x : x = [ext |-> time]
  OBVIOUS
<1>2. DOMAIN x = {"ext"} /\ x.ext = time
  BY <1>1
<1>3. FineCell(x)
  BY <1>2 DEF FineCell
<1>4. FineCells(<<x>>)
  BY <1>3, FineOne
<1>5. QED  BY <1>1, <1>4, ExtendedIs, FineNothing

LEMMA FineChunk ==
  ASSUME NEW fmt \in 0..3, NEW m, m.time \in Nat, IsSeq(m.payload),
         fmt <= 1 => (m.type \in Media => m.payload # <<>>), NEW part, Cells(part)
  PROVE  FineCells(Chunk(fmt, m, part))
<1>1. PICK a : a = ChunkBasicHeaderCreate(fmt, m.cid)
  OBVIOUS
<1>2. PICK b : b = ChunkMessageHeaderCreate(fmt, m)
  OBVIOUS
<1>3. PICK e : e = ExtendedTimestamp(m.time)
  OBVIOUS
<1>4. FineCells(a)
  BY <1>1, FineBasicHeader
<1>5. FineCells(b)
  BY <1>2, FineMessageHeader
<1>6. FineCells(e)
  BY <1>3, FineTime
<1>7. FineCells(part)
  BY PayloadsFine
<1>8. FineCells(((a \o b) \o e) \o part)
  BY <1>4, <1>5, <1>6, <1>7, FineConcat
<1>9. QED  BY <1>1, <1>2, <1>3, <1>8 DEF Chunk, HeaderChunk

\* Chunks under way.
FineChunks(cs) == IsSeq(cs) /\ \A i \in 1..Len(cs) : FineCells(cs[i])

LEMMA PartCells ==
  ASSUME NEW m, Sendable(m), NEW size \in Nat \ {0}, NEW count, count = Count(m, size),
         NEW i \in 1..count, NEW part, part = Slice(m, (i - 1) * size, size)
  PROVE  Cells(part)
<1>1. /\ count \in Nat \ {0}
      /\ \A j \in 1..count : j * size >= Len(m.payload) <=> j = count
  BY PieceIs
<1>2. PICK l : l = Len(m.payload)
  OBVIOUS
<1>3. l \in Nat \ {0}
  BY <1>2, IsSeqLen, EmptyLen DEF Sendable, Cells
<1>4. PICK n : n = (i - 1) * size
  OBVIOUS
<1>5. n \in Nat /\ n < l
  <2>1. CASE i = 1
    BY <2>1, <1>3, <1>4
  <2>2. CASE i # 1
    <3>1. PICK j : j = i - 1
      OBVIOUS
    <3>2. j \in 1..count /\ j # count
      BY <2>2, <3>1, <1>1
    <3>3. ~(j * size >= l)
      BY <3>2, <1>1, <1>2
    <3>4. j * size \in Nat
      BY <3>2
    <3>5. QED  BY <3>1, <3>3, <3>4, <1>3, <1>4
  <2>3. QED  BY <2>1, <2>2
<1>6. SliceOf(part, m, n, size)
  BY <1>2, <1>4, <1>5 DEF SliceOf, Sendable
<1>7. QED  BY <1>6, SliceIs

LEMMA FineInChunks ==
  ASSUME NEW m, Sendable(m), NEW size \in Nat \ {0}
  PROVE  FineChunks(InChunks(0, m, size))
<1>1. PICK count : count = Count(m, size)
  OBVIOUS
<1>2. PICK cs : cs = InChunks(0, m, size)
  OBVIOUS
<1>3. /\ cs = [i \in 1..count |->
            Chunk(ChunkType((i - 1) * size), m, Slice(m, (i - 1) * size, size))]
      /\ count \in Nat \ {0}
  BY <1>1, <1>2, PieceIs
<1>4. m.time \in Nat /\ IsSeq(m.payload) /\ m.payload # <<>>
  BY DEF Sendable, Cells
<1>5. ASSUME NEW i \in 1..count PROVE FineCells(cs[i])
  <2>1. PICK part : part = Slice(m, (i - 1) * size, size)
    OBVIOUS
  <2>2. Cells(part)
    BY <1>1, <2>1, PartCells
  <2>3. PICK fmt : fmt = ChunkType((i - 1) * size)
    OBVIOUS
  <2>4. fmt \in 0..3
    BY <2>3 DEF ChunkType
  <2>5. FineCells(Chunk(fmt, m, part))
    BY <1>4, <2>2, <2>4, FineChunk
  <2>6. QED  BY <1>3, <2>1, <2>3, <2>5
<1>6. IsSeq(cs) /\ Len(cs) = count
  <2>1. DOMAIN cs = 1..count /\ cs = [i \in 1..count |-> cs[i]]
    BY <1>3
  <2>2. QED  BY <2>1, <1>3, IsSeqFcn
<1>7. QED  BY <1>2, <1>5, <1>6 DEF FineChunks

\* Every element of sequences put together is of one of them.
LEMMA FlattenFrom ==
  ASSUME NEW ss, Nested(ss), NEW fs, fs = FlattenSeq(ss)
  PROVE  /\ IsSeq(fs)
         /\ \A k \in 1..Len(fs) : \E i \in 1..Len(ss) : \E j \in 1..Len(ss[i]) : fs[k] = ss[i][j]
<1>1. PICK n : n = Len(ss)
  OBVIOUS
<1>2. n \in Nat /\ IsSeq(ss)
  BY <1>1, IsSeqLen DEF Nested
<1>3. IsSeq(fs)
  BY FlattenSeqs
<1>4. DEFINE Of(u) == IsSeq(u) /\ \A k \in 1..Len(u) :
                        \E i \in 1..Len(ss) : \E j \in 1..Len(ss[i]) : u[k] = ss[i][j]
<1>5. ASSUME NEW i \in 1..n PROVE Of(ss[i])
  <2>1. IsSeq(ss[i])
    BY <1>1 DEF Nested
  <2>2. QED  BY <1>1, <2>1
<1>6. ASSUME NEW u, NEW v, Of(u), Of(v) PROVE Of(u \o v)
  <2>1. PICK w : w = u \o v
    OBVIOUS
  <2>2. PICK a, b : a = Len(u) /\ b = Len(v)
    OBVIOUS
  <2>3. /\ IsSeq(w) /\ Len(w) = a + b
        /\ \A i \in 1..a : w[i] = u[i]
        /\ \A i \in 1..b : w[a + i] = v[i]
    BY <1>6, <2>1, <2>2, Concat
  <2>4. a \in Nat /\ b \in Nat
    BY <1>6, <2>2, IsSeqLen
  <2>5. ASSUME NEW k \in 1..(a + b)
        PROVE  \E i \in 1..Len(ss) : \E j \in 1..Len(ss[i]) : w[k] = ss[i][j]
    <3>1. CASE k <= a
      <4>1. k \in 1..a
        BY <2>4, <3>1
      <4>2. w[k] = u[k]
        BY <2>3, <4>1
      <4>3. QED  BY <1>6, <2>2, <4>1, <4>2
    <3>2. CASE k > a
      <4>1. PICK j \in 1..b : k = a + j
        <5>1. k - a \in 1..b /\ k = a + (k - a)
          BY <2>4, <3>2
        <5>2. QED  BY <5>1
      <4>2. w[k] = v[j]
        BY <2>3, <4>1
      <4>3. QED  BY <1>6, <2>2, <4>1, <4>2
    <3>3. QED  BY <2>4, <3>1, <3>2
  <2>6. Of(w)
    BY <2>3, <2>5
  <2>7. QED  BY <2>1, <2>6
<1>7. CASE n = 0
  <2>1. ss = <<>>
    BY <1>1, <1>2, <1>7, EmptyLen
  <2>2. fs = <<>>
    BY <2>1, FlattenEmpty
  <2>3. Len(fs) = 0
    BY <2>2, IsEmpty
  <2>4. QED  BY <1>3, <2>3
<1>8. CASE n # 0
  <2>1. PICK f : /\ f[1] = ss[1] /\ \A i \in 2..n : f[i] = f[i - 1] \o ss[i]
                 /\ FlattenSeq(ss) = f[n]
    BY <1>1, <1>2, <1>8, FlattenStates
  <2> HIDE DEF Of
  <2>2. PICK S : S = {i \in Nat : i + 1 <= n => Of(f[i + 1])}
    OBVIOUS
  <2>3. 0 \in S
    <3>1. 1 \in 1..n
      BY <1>2, <1>8
    <3>2. Of(f[1])
      BY <3>1, <2>1, <1>5
    <3>3. QED  BY <3>2, <2>2
  <2>4. ASSUME NEW i \in Nat, i \in S PROVE i + 1 \in S
    <3>1. CASE (i + 1) + 1 <= n
      <4>1. Of(f[i + 1])
        BY <3>1, <2>2, <2>4, <1>2
      <4>2. PICK j : j = i + 2
        OBVIOUS
      <4>3. j \in 2..n /\ j \in 1..n /\ j - 1 = i + 1
        BY <3>1, <4>2, <1>2
      <4>4. f[j] = f[i + 1] \o ss[j] /\ Of(ss[j])
        BY <4>3, <2>1, <1>5
      <4>5. Of(f[j])
        BY <4>1, <4>4, <1>6
      <4>6. (i + 1) + 1 = j
        BY <4>2
      <4>7. Of(f[(i + 1) + 1])
        BY <4>5, <4>6
      <4>8. QED  BY <4>7, <2>2
    <3>2. CASE ~((i + 1) + 1 <= n)
      BY <3>2, <2>2
    <3>3. QED  BY <3>1, <3>2
  <2>5. n - 1 \in Nat /\ (n - 1) + 1 = n
    BY <1>2, <1>8
  <2>6. n - 1 \in S
    BY <2>3, <2>4, <2>5, Climb
  <2>7. Of(f[n])
    BY <2>2, <2>5, <2>6
  <2>8. Of(fs)
    BY <2>1, <2>7
  <2>9. QED  BY <2>8 DEF Of
<1>9. QED  BY <1>7, <1>8

LEMMA FineWritten ==
  ASSUME NEW ms, AllWritable(ms) PROVE FineChunks(Written(ms))
<1>1. PICK ps : ps = Pieces(ms)
  OBVIOUS
<1>2. PICK fs : fs = FlattenSeq(ps)
  OBVIOUS
<1>3. Written(ms) = fs /\ Nested(ps) /\ Len(ps) = Len(ms)
      /\ \A i \in 1..Len(ms) : ps[i] = Piece(ms[i])
  BY <1>1, <1>2, PiecesIs
<1>4. ASSUME NEW i \in 1..Len(ms) PROVE FineChunks(Piece(ms[i]))
  <2>1. PICK m : m = ms[i]
    OBVIOUS
  <2>2. Writable(m)
    BY <2>1 DEF AllWritable
  <2>3. CASE m.type = "signature"
    <3>1. PICK x : x = [sig |-> m.sig]
      OBVIOUS
    <3>2. DOMAIN x = {"sig"}
      BY <3>1
    <3>3. FineCell(x)
      BY <3>2 DEF FineCell
    <3>4. PICK c : c = <<x>>
      OBVIOUS
    <3>5. FineCells(c)
      BY <3>3, <3>4, FineOne
    <3>6. PICK cs : cs = <<c>> /\ IsSeq(cs) /\ Len(cs) = 1 /\ cs[1] = c
      BY IsOne
    <3>7. \A k \in 1..1 : FineCells(cs[k])
      BY <3>5, <3>6
    <3>8. FineChunks(cs)
      BY <3>6, <3>7 DEF FineChunks
    <3>9. Piece(m) = cs
      BY <2>3, <3>1, <3>4, <3>6 DEF Piece
    <3>10. QED  BY <2>1, <3>8, <3>9
  <2>4. CASE m.type # "signature"
    <3>1. Sendable(m)
      BY <2>2, <2>4 DEF Writable
    <3>2. m.payload # <<>>
      BY <3>1 DEF Sendable
    <3>3. Piece(m) = InChunks(0, m, RTMP_MAX_CHUNK_SIZE)
      BY <2>4, <3>2 DEF Piece, ChunksCreate
    <3>4. RTMP_MAX_CHUNK_SIZE \in Nat \ {0}
      BY ChunksAssumption
    <3>5. FineChunks(InChunks(0, m, RTMP_MAX_CHUNK_SIZE))
      BY <3>1, <3>4, FineInChunks
    <3>6. QED  BY <2>1, <3>3, <3>5
  <2>5. QED  BY <2>3, <2>4
<1>5. /\ IsSeq(fs)
      /\ \A k \in 1..Len(fs) : \E i \in 1..Len(ps) : \E j \in 1..Len(ps[i]) : fs[k] = ps[i][j]
  BY <1>2, <1>3, FlattenFrom
<1>6. ASSUME NEW k \in 1..Len(fs) PROVE FineCells(fs[k])
  <2>1. PICK i \in 1..Len(ps) : \E j \in 1..Len(ps[i]) : fs[k] = ps[i][j]
    BY <1>5
  <2>2. PICK j \in 1..Len(ps[i]) : fs[k] = ps[i][j]
    BY <2>1
  <2>3. FineChunks(ps[i])
    BY <1>3, <1>4
  <2>4. QED  BY <2>2, <2>3 DEF FineChunks
<1>7. QED  BY <1>3, <1>5, <1>6 DEF FineChunks

LEMMA FineMore ==
  ASSUME NEW s, NEW t, FineChunks(s), FineChunks(t) PROVE FineChunks(s \o t)
<1>1. IsSeq(s) /\ IsSeq(t)
  BY DEF FineChunks
<1>2. PICK u : u = s \o t
  OBVIOUS
<1>3. PICK a, b : a = Len(s) /\ b = Len(t)
  OBVIOUS
<1>4. /\ IsSeq(u) /\ Len(u) = a + b
      /\ \A i \in 1..a : u[i] = s[i]
      /\ \A i \in 1..b : u[a + i] = t[i]
  BY <1>1, <1>2, <1>3, Concat
<1>5. a \in Nat /\ b \in Nat
  BY <1>1, <1>3, IsSeqLen
<1>6. ASSUME NEW i \in 1..(a + b) PROVE FineCells(u[i])
  <2>1. CASE i <= a
    <3>1. i \in 1..a
      BY <1>5, <2>1
    <3>2. u[i] = s[i] /\ FineCells(s[i])
      BY <1>3, <1>4, <3>1 DEF FineChunks
    <3>3. QED  BY <3>2
  <2>2. CASE i > a
    <3>1. PICK j \in 1..b : i = a + j
      <4>1. i - a \in 1..b /\ i = a + (i - a)
        BY <1>5, <2>2
      <4>2. QED  BY <4>1
    <3>2. u[i] = t[j] /\ FineCells(t[j])
      BY <1>3, <1>4, <3>1 DEF FineChunks
    <3>3. QED  BY <3>2
  <2>3. QED  BY <1>5, <2>1, <2>2
<1>7. QED  BY <1>2, <1>4, <1>6 DEF FineChunks

\* The cells of chunks, but for parts of the handshake.
LEMMA FineNoSigs ==
  ASSUME NEW cs, FineChunks(cs) PROVE FineCells(NoSigs(cs))
<1>1. PICK ps : ps = [i \in DOMAIN cs |-> IF IsSignature(cs[i]) THEN <<>> ELSE cs[i]]
  OBVIOUS
<1>2. PICK fs : fs = FlattenSeq(ps)
  OBVIOUS
<1>3. NoSigs(cs) = fs
  BY <1>1, <1>2 DEF NoSigs
<1>4. PICK n : n = Len(cs)
  OBVIOUS
<1>5. n \in Nat /\ DOMAIN cs = 1..n
  BY <1>4, IsSeqLen DEF FineChunks
<1>6. IsSeq(ps) /\ Len(ps) = n
  <2>1. DOMAIN ps = 1..n /\ ps = [i \in 1..n |-> ps[i]]
    BY <1>1, <1>5
  <2>2. QED  BY <1>5, <2>1, IsSeqFcn
<1>7. ASSUME NEW i \in 1..n PROVE FineCells(ps[i])
  <2>1. ps[i] = IF IsSignature(cs[i]) THEN <<>> ELSE cs[i]
    BY <1>1, <1>5
  <2>2. FineCells(cs[i])
    BY <1>4 DEF FineChunks
  <2>3. QED  BY <2>1, <2>2, FineNothing
<1>8. Nested(ps)
  BY <1>6, <1>7 DEF Nested, FineCells
<1>9. /\ IsSeq(fs)
      /\ \A k \in 1..Len(fs) : \E i \in 1..Len(ps) : \E j \in 1..Len(ps[i]) : fs[k] = ps[i][j]
  BY <1>2, <1>8, FlattenFrom
<1>10. ASSUME NEW k \in 1..Len(fs) PROVE FineCell(fs[k])
  <2>1. PICK i \in 1..Len(ps) : \E j \in 1..Len(ps[i]) : fs[k] = ps[i][j]
    BY <1>9
  <2>2. PICK j \in 1..Len(ps[i]) : fs[k] = ps[i][j]
    BY <2>1
  <2>3. FineCells(ps[i])
    BY <1>6, <1>7
  <2>4. QED  BY <2>2, <2>3 DEF FineCells
<1>11. QED  BY <1>3, <1>9, <1>10 DEF FineCells

=============================================================================
