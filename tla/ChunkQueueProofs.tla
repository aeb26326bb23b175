-------------------------- MODULE ChunkQueueProofs --------------------------
(***************************************************************************)
(* Proofs about the chunk queues, for all limits, any number of chunks of  *)
(* any size, and any outcome of write(), close() and mkstemp().            *)
(*                                                                         *)
(* Each operation is described by what it does with the counters of a      *)
(* queue and with the bytes in it: SameBytes leaves both, Moves takes      *)
(* bytes from the front of one queue to the end of another, Appended puts  *)
(* a chunk at the end, Taken takes bytes off the front.  The loops of      *)
(* mchunk.c have these effects because each turn of them has.              *)
(*                                                                         *)
(* A move into temporary files has bytes in its hands between two calls of *)
(* write(): `todo' is still to be written, and the first `piece' bytes of  *)
(* src, which todo is the rest of, are not taken off src yet.  What is on  *)
(* its way is therefore Pending: out, dst, todo, and src behind `piece'.   *)
(* The invariant says that this is, in order, what arrived, until a move   *)
(* is given up; then the bytes in hand are those that src still has.       *)
(***************************************************************************)
EXTENDS ChunkQueue, SequenceTheorems, SetFacts

-----------------------------------------------------------------------------
(***************************************************************************)
(* Sequences.                                                              *)
(***************************************************************************)

\* A sequence is its head and its tail.
LEMMA HeadAndTail ==
  ASSUME NEW S, NEW s \in Seq(S), s # <<>>
  PROVE  /\ Head(s) \in S /\ Head(s) = s[1] /\ Tail(s) \in Seq(S)
         /\ Len(Tail(s)) = Len(s) - 1 /\ Len(s) \in Nat \ {0}
         /\ s = <<Head(s)>> \o Tail(s)
<1>1. Len(s) \in Nat \ {0} /\ Tail(s) \in Seq(S) /\ Len(Tail(s)) = Len(s) - 1
  BY EmptySeq, LenProperties, HeadTailProperties
<1>2. Head(s) = s[1] /\ Head(s) \in S
  BY <1>1, HeadTailProperties
<1>3. SubSeq(s, 1, Len(s)) = <<s[1]>> \o SubSeq(s, 2, Len(s))
  BY <1>1, SubSeqRecursiveFirst
<1> QED
  BY <1>1, <1>2, <1>3, SubSeqFull, TailIsSubSeq

\* The first n elements and the others.
LEMMA SplitAt ==
  ASSUME NEW S, NEW s \in Seq(S), NEW n \in 0 .. Len(s)
  PROVE  /\ SubSeq(s, 1, n) \in Seq(S) /\ Len(SubSeq(s, 1, n)) = n
         /\ SubSeq(s, n + 1, Len(s)) \in Seq(S)
         /\ Len(SubSeq(s, n + 1, Len(s))) = Len(s) - n
         /\ s = SubSeq(s, 1, n) \o SubSeq(s, n + 1, Len(s))
<1>1. Len(s) \in Nat /\ \A i \in 1 .. Len(s) : s[i] \in S
  BY LenProperties, ElementOfSeq
<1>2. SubSeq(s, 1, n) \in Seq(S) /\ Len(SubSeq(s, 1, n)) = n
  BY <1>1, SubSeqProperties
<1>3. SubSeq(s, n + 1, Len(s)) \in Seq(S) /\ Len(SubSeq(s, n + 1, Len(s))) = Len(s) - n
  BY <1>1, SubSeqProperties
<1>4. s = SubSeq(s, 1, n) \o SubSeq(s, n + 1, Len(s))
  <2>1. 1 \in 1 .. Len(s) + 1 /\ n \in 1 - 1 .. Len(s) /\ Len(s) \in n .. Len(s)
    BY <1>1
  <2>2. SubSeq(s, 1, n) \o SubSeq(s, n + 1, Len(s)) = SubSeq(s, 1, Len(s))
    BY <2>1, ConcatAdjacentSubSeq
  <2> QED
    BY <2>2, SubSeqFull
<1> QED
  BY <1>2, <1>3, <1>4

\* A sequence is what comes before its last element, and that.
LEMMA FrontAndLast ==
  ASSUME NEW S, NEW s \in Seq(S), s # <<>>
  PROVE  /\ s[Len(s)] \in S /\ SubSeq(s, 1, Len(s) - 1) \in Seq(S)
         /\ Len(SubSeq(s, 1, Len(s) - 1)) = Len(s) - 1 /\ Len(s) \in Nat \ {0}
         /\ s = Append(SubSeq(s, 1, Len(s) - 1), s[Len(s)])
<1>1. Len(s) \in Nat \ {0}
  BY EmptySeq, LenProperties
<1>2. s[Len(s)] \in S /\ Len(s) - 1 \in 0 .. Len(s)
  BY <1>1, ElementOfSeq
<1>3. SubSeq(s, 1, Len(s) - 1) \in Seq(S) /\ Len(SubSeq(s, 1, Len(s) - 1)) = Len(s) - 1
  BY <1>2, SplitAt
<1>4. SubSeq(s, 1, Len(s)) = SubSeq(s, 1, Len(s) - 1) \o <<s[Len(s)]>>
  BY <1>1, SubSeqRecursiveSecond
<1> QED
  BY <1>1, <1>2, <1>3, <1>4, SubSeqFull, AppendIsConcat

\* The parts of a concatenation, by their lengths.
LEMMA ConcatParts ==
  ASSUME NEW S, NEW s \in Seq(S), NEW t \in Seq(S)
  PROVE  /\ SubSeq(s \o t, 1, Len(s)) = s
         /\ SubSeq(s \o t, Len(s) + 1, Len(s \o t)) = t
<1> DEFINE u == s \o t
<1>1. u \in Seq(S) /\ Len(u) = Len(s) + Len(t) /\ Len(s) \in Nat /\ Len(t) \in Nat
  BY ConcatProperties, LenProperties
<1>2. \A i \in 1 .. Len(u) : u[i] = IF i <= Len(s) THEN s[i] ELSE t[i - Len(s)]
  BY <1>1, ConcatProperties
<1>3. \A i \in 1 .. Len(u) : u[i] \in S
  BY <1>1, ElementOfSeq
<1> HIDE DEF u
<1>4. SubSeq(u, 1, Len(s)) = s
  <2>1. /\ SubSeq(u, 1, Len(s)) \in Seq(S)
        /\ Len(SubSeq(u, 1, Len(s))) = Len(s)
        /\ \A i \in 1 .. Len(s) : SubSeq(u, 1, Len(s))[i] = u[i]
    <3>1. \A i \in 1 .. Len(s) : u[i] \in S
      BY <1>1, <1>3
    <3> QED
      BY <1>1, <3>1, SubSeqProperties
  <2>2. \A i \in 1 .. Len(s) : SubSeq(u, 1, Len(s))[i] = s[i]
    BY <1>1, <1>2, <2>1
  <2> QED
    BY <2>1, <2>2, SeqEqual
<1>5. SubSeq(u, Len(s) + 1, Len(u)) = t
  <2>1. /\ SubSeq(u, Len(s) + 1, Len(u)) \in Seq(S)
        /\ Len(SubSeq(u, Len(s) + 1, Len(u))) = Len(t)
        /\ \A i \in 1 .. Len(t) : SubSeq(u, Len(s) + 1, Len(u))[i] = u[Len(s) + i]
    <3>1. \A i \in Len(s) + 1 .. Len(u) : u[i] \in S
      BY <1>1, <1>3
    <3>2. Len(s) + 1 \in Int /\ Len(u) \in Int
      BY <1>1
    <3>3. /\ SubSeq(u, Len(s) + 1, Len(u)) \in Seq(S)
          /\ Len(SubSeq(u, Len(s) + 1, Len(u))) =
               IF Len(s) + 1 <= Len(u) THEN Len(u) - (Len(s) + 1) + 1 ELSE 0
          /\ \A i \in 1 .. Len(u) - (Len(s) + 1) + 1 :
               SubSeq(u, Len(s) + 1, Len(u))[i] = u[Len(s) + 1 + i - 1]
      BY <3>1, <3>2, SubSeqProperties
    <3>4. \A i \in 1 .. Len(t) : Len(s) + 1 + i - 1 = Len(s) + i /\ i \in 1 .. Len(u) - (Len(s) + 1) + 1
      BY <1>1
    <3> QED
      BY <1>1, <3>3, <3>4
  <2>2. \A i \in 1 .. Len(t) : SubSeq(u, Len(s) + 1, Len(u))[i] = t[i]
    <3>1. ASSUME NEW i \in 1 .. Len(t) PROVE u[Len(s) + i] = t[i]
      <4>1. Len(s) + i \in 1 .. Len(u) /\ ~ (Len(s) + i <= Len(s)) /\ Len(s) + i - Len(s) = i
        BY <1>1
      <4> QED
        BY <1>2, <4>1
    <3> QED
      BY <2>1, <3>1
  <2> QED
    BY <2>1, <2>2, SeqEqual
<1> QED
  BY <1>4, <1>5 DEF u

-----------------------------------------------------------------------------
(***************************************************************************)
(* What is left of a chunk, and of a queue.                                *)
(***************************************************************************)

LEMMA RemainingType ==
  ASSUME NEW c \in ChunkRecord
  PROVE  Remaining(c) \in Int
<1>1. c.data \in Seq(Nat) /\ c.offset \in Nat
  BY DEF ChunkRecord
<1> QED
  BY <1>1, LenProperties DEF Remaining

LEMMA UnreadType ==
  ASSUME NEW c \in ChunkRecord
  PROVE  Unread(c) \in Seq(Nat)
<1>1. c.data \in Seq(Nat) /\ c.offset \in Nat /\ Len(c.data) \in Nat
  BY LenProperties DEF ChunkRecord
<1>2. \A i \in c.offset + 1 .. Len(c.data) : c.data[i] \in Nat
  BY <1>1, ElementOfSeq
<1> QED
  BY <1>1, <1>2, SubSeqProperties DEF Unread

\* The recursion of Length.
LEMMA LengthSteps ==
  ASSUME NEW s \in Seq(ChunkRecord)
  PROVE  \E f \in [0 .. Len(s) -> Int] :
           /\ f[0] = 0
           /\ \A n \in 1 .. Len(s) : f[n] = f[n - 1] + Remaining(s[n])
           /\ Length(s) = f[Len(s)]
<1> DEFINE N == Len(s)
           Is(g) == g = [n \in 0 .. N |-> IF n = 0 THEN 0 ELSE g[n - 1] + Remaining(s[n])]
           step == [x \in (1 .. N) \X Int |-> x[2] + Remaining(s[x[1]])]
<1>1. N \in Nat /\ \A n \in 1 .. N : Remaining(s[n]) \in Int
  BY LenProperties, ElementOfSeq, RemainingType
<1>2. step \in [(1 .. N) \X Int -> Int]
  BY <1>1
<1>3. 0 \in Int
  OBVIOUS
<1>4. PICK g \in [0 .. N -> Int] : IsRecursion(g, N, 0, step)
  <2> HIDE DEF step
  <2> QED
    BY <1>1, <1>2, <1>3, RecursionExists
<1>5. ASSUME NEW n \in 1 .. N PROVE step[<<n, g[n - 1]>>] = g[n - 1] + Remaining(s[n])
  <2>1. n - 1 \in 0 .. N
    BY <1>1
  <2>2. <<n, g[n - 1]>> \in (1 .. N) \X Int
    BY <2>1
  <2> QED
    BY <2>2
<1>6. Is(g)
  <2> HIDE DEF step
  <2>1. \A n \in 0 .. N :
          (IF n = 0 THEN 0 ELSE step[<<n, g[n - 1]>>])
            = IF n = 0 THEN 0 ELSE g[n - 1] + Remaining(s[n])
    <3> TAKE n \in 0 .. N
    <3>1. n = 0 \/ n \in 1 .. N
      BY <1>1
    <3> QED
      BY <3>1, <1>5
  <2> HIDE DEF N
  <2> QED
    BY <1>4, <2>1 DEF IsRecursion
<1> DEFINE F == CHOOSE f : Is(f)
<1>7. Is(F)
  BY <1>6
<1>8. Length(s) = F[N]
  BY DEF Length
<1> HIDE DEF F
<1> DEFINE E == {k \in 0 .. N : F[k] = g[k]}
<1>9. \A n \in 0 .. N : n \in E
  <2>1. 0 \in E
    BY <1>1, <1>6, <1>7
  <2>2. ASSUME NEW n \in 0 .. N - 1, n \in E PROVE n + 1 \in E
    <3>1. n + 1 \in 0 .. N /\ n + 1 # 0 /\ n + 1 - 1 = n
      BY <1>1
    <3>2. F[n + 1] = F[n + 1 - 1] + Remaining(s[n + 1])
      BY <3>1, <1>7
    <3>3. g[n + 1] = g[n + 1 - 1] + Remaining(s[n + 1])
      BY <3>1, <1>6
    <3>4. F[n] = g[n]
      BY <2>2
    <3> QED
      BY <3>1, <3>2, <3>3, <3>4
  <2> HIDE DEF E, N
  <2> QED
    BY <1>1, <2>1, <2>2, InductionUpTo
<1>10. g[0] = 0 /\ \A n \in 1 .. N : g[n] = g[n - 1] + Remaining(s[n])
  <2> HIDE DEF step
  <2>1. g[0] = 0
    BY <1>1, <1>6
  <2>2. ASSUME NEW n \in 1 .. N PROVE n \in 0 .. N /\ n # 0
    BY <1>1
  <2> HIDE DEF N
  <2> QED
    BY <1>6, <2>1, <2>2
<1>11. Length(s) = g[N]
  BY <1>1, <1>8, <1>9
<1> QED
  BY <1>4, <1>10, <1>11

\* Length of no chunk, and of one chunk more.
LEMMA LengthAppend ==
  /\ Length(<<>>) = 0
  /\ \A s \in Seq(ChunkRecord) : Length(s) \in Int
  /\ \A s \in Seq(ChunkRecord), c \in ChunkRecord :
       Length(Append(s, c)) = Length(s) + Remaining(c)
<1>1. Length(<<>>) = 0
  <2>1. <<>> \in Seq(ChunkRecord) /\ Len(<<>>) = 0
    BY EmptySeq
  <2> QED
    BY <2>1, LengthSteps
<1>2. ASSUME NEW s \in Seq(ChunkRecord) PROVE Length(s) \in Int
  <2>1. Len(s) \in 0 .. Len(s)
    BY LenProperties
  <2> QED
    BY <2>1, LengthSteps
<1>3. ASSUME NEW s \in Seq(ChunkRecord), NEW c \in ChunkRecord
      PROVE  Length(Append(s, c)) = Length(s) + Remaining(c)
  <2> DEFINE N == Len(s)
             t == Append(s, c)
  <2>1. t \in Seq(ChunkRecord) /\ Len(t) = N + 1 /\ N \in Nat /\ t[N + 1] = c
        /\ \A n \in 1 .. N : t[n] = s[n]
    BY AppendProperties, LenProperties
  <2> HIDE DEF t
  <2>2. PICK f \in [0 .. N -> Int] :
          /\ f[0] = 0
          /\ \A n \in 1 .. N : f[n] = f[n - 1] + Remaining(s[n])
          /\ Length(s) = f[N]
    BY LengthSteps
  <2>3. PICK g \in [0 .. N + 1 -> Int] :
          /\ g[0] = 0
          /\ \A n \in 1 .. N + 1 : g[n] = g[n - 1] + Remaining(t[n])
          /\ Length(t) = g[N + 1]
    BY <2>1, LengthSteps
  <2> DEFINE E == {k \in 0 .. N : f[k] = g[k]}
  <2>4. \A n \in 0 .. N : n \in E
    <3>1. 0 \in E
      BY <2>1, <2>2, <2>3
    <3>2. ASSUME NEW n \in 0 .. N - 1, n \in E PROVE n + 1 \in E
      <4>1. n + 1 \in 1 .. N /\ n + 1 \in 1 .. N + 1 /\ n + 1 - 1 = n
        BY <2>1
      <4>2. f[n + 1] = f[n + 1 - 1] + Remaining(s[n + 1])
        BY <4>1, <2>2
      <4>3. g[n + 1] = g[n + 1 - 1] + Remaining(t[n + 1])
        BY <4>1, <2>3
      <4>4. f[n] = g[n] /\ t[n + 1] = s[n + 1] /\ n + 1 \in 0 .. N
        BY <2>1, <3>2, <4>1
      <4> QED
        BY <4>1, <4>2, <4>3, <4>4
    <3> HIDE DEF E, N
    <3> QED
      BY <2>1, <3>1, <3>2, InductionUpTo
  <2>5. f[N] = g[N]
    BY <2>1, <2>4
  <2>6. N + 1 \in 1 .. N + 1 /\ N + 1 - 1 = N
    BY <2>1
  <2>7. g[N + 1] = g[N + 1 - 1] + Remaining(t[N + 1])
    BY <2>3, <2>6
  <2> QED
    BY <2>1, <2>2, <2>3, <2>5, <2>6, <2>7 DEF t
<1> QED
  BY <1>1, <1>2, <1>3

\* Length of two sequences of chunks.
LEMMA LengthConcat ==
  ASSUME NEW s \in Seq(ChunkRecord), NEW t \in Seq(ChunkRecord)
  PROVE  Length(s \o t) = Length(s) + Length(t)
<1> DEFINE E == {n \in 0 .. Len(t) : \A u \in Seq(ChunkRecord) :
                  Len(u) = n => Length(s \o u) = Length(s) + Length(u)}
<1>0. Len(t) \in Nat
  BY LenProperties
<1>1. 0 \in E
  <2> SUFFICES ASSUME NEW u \in Seq(ChunkRecord), Len(u) = 0
               PROVE  Length(s \o u) = Length(s) + Length(u)
    BY <1>0
  <2>1. u = <<>>
    BY EmptySeq
  <2>2. s \o <<>> = s
    BY ConcatEmptySeq
  <2>3. Length(s) \in Int /\ Length(<<>>) = 0
    BY LengthAppend
  <2> QED
    BY <2>1, <2>2, <2>3
<1>2. ASSUME NEW n \in 0 .. Len(t) - 1, n \in E PROVE n + 1 \in E
  <2>0. n + 1 \in 0 .. Len(t) /\ n \in Nat
    BY <1>0
  <2> SUFFICES ASSUME NEW u \in Seq(ChunkRecord), Len(u) = n + 1
               PROVE  Length(s \o u) = Length(s) + Length(u)
    BY <2>0
  <2> DEFINE v == SubSeq(u, 1, Len(u) - 1)
             c == u[Len(u)]
  <2>1. u # <<>>
    BY <2>0, EmptySeq
  <2>2. v \in Seq(ChunkRecord) /\ c \in ChunkRecord /\ Len(v) = Len(u) - 1 /\ u = Append(v, c)
    BY <2>1, FrontAndLast
  <2> HIDE DEF v, c
  <2>3. Len(v) = n
    BY <2>0, <2>2
  <2>4. Length(s \o v) = Length(s) + Length(v)
    BY <1>2, <2>2, <2>3
  <2>5. s \o v \in Seq(ChunkRecord) /\ s \o u = Append(s \o v, c)
    <3>1. <<c>> \in Seq(ChunkRecord) /\ s \o v \in Seq(ChunkRecord)
      BY <2>2, ConcatProperties
    <3>2. (s \o v) \o <<c>> = s \o (v \o <<c>>)
      BY <2>2, <3>1, ConcatAssociative
    <3> QED
      BY <2>2, <3>1, <3>2, AppendIsConcat
  <2>6. Length(s \o u) = Length(s \o v) + Remaining(c)
    BY <2>2, <2>5, LengthAppend
  <2>7. Length(u) = Length(v) + Remaining(c)
    BY <2>2, LengthAppend
  <2>8. Length(s) \in Int /\ Length(v) \in Int /\ Remaining(c) \in Int
    BY <2>2, LengthAppend, RemainingType
  <2> QED
    BY <2>4, <2>6, <2>7, <2>8
<1>3. Len(t) \in E
  <2> HIDE DEF E
  <2>1. \A n \in 0 .. Len(t) : n \in E
    BY <1>0, <1>1, <1>2, InductionUpTo
  <2> QED
    BY <1>0, <2>1
<1> QED
  BY <1>3

\* Length from the first chunk on.
LEMMA LengthCons ==
  /\ \A c \in ChunkRecord : Length(<<c>>) = Remaining(c)
  /\ \A s \in Seq(ChunkRecord) :
       s # <<>> => Length(s) = Remaining(Head(s)) + Length(Tail(s))
  /\ \A c \in ChunkRecord, s \in Seq(ChunkRecord) : Length(<<c>> \o s) = Remaining(c) + Length(s)
<1>1. ASSUME NEW c \in ChunkRecord PROVE Length(<<c>>) = Remaining(c)
  <2>1. <<>> \in Seq(ChunkRecord) /\ Append(<<>>, c) = <<c>>
    OBVIOUS
  <2>2. Remaining(c) \in Int
    BY RemainingType
  <2>3. Length(Append(<<>>, c)) = Length(<<>>) + Remaining(c) /\ Length(<<>>) = 0
    BY <2>1, LengthAppend
  <2> QED
    BY <2>1, <2>2, <2>3
<1>2. ASSUME NEW c \in ChunkRecord, NEW s \in Seq(ChunkRecord)
      PROVE  Length(<<c>> \o s) = Remaining(c) + Length(s)
  <2>1. <<c>> \in Seq(ChunkRecord)
    OBVIOUS
  <2> QED
    BY <1>1, <2>1, LengthConcat
<1>3. ASSUME NEW s \in Seq(ChunkRecord), s # <<>>
      PROVE  Length(s) = Remaining(Head(s)) + Length(Tail(s))
  <2>1. Head(s) \in ChunkRecord /\ Tail(s) \in Seq(ChunkRecord) /\ s = <<Head(s)>> \o Tail(s)
    BY <1>3, HeadAndTail
  <2>2. Length(<<Head(s)>> \o Tail(s)) = Remaining(Head(s)) + Length(Tail(s))
    BY <1>2, <2>1
  <2> QED
    BY <2>1, <2>2
<1> QED
  BY <1>1, <1>2, <1>3

\* The bytes of s and those of t.
Join(s, t) == s \o t

LEMMA JoinFacts ==
  ASSUME NEW s \in Seq(Nat), NEW t \in Seq(Nat)
  PROVE  /\ Join(s, t) \in Seq(Nat) /\ Len(Join(s, t)) = Len(s) + Len(t)
         /\ Join(s, <<>>) = s /\ Join(<<>>, s) = s
BY ConcatProperties, ConcatEmptySeq DEF Join

LEMMA JoinAssociative ==
  ASSUME NEW s \in Seq(Nat), NEW t \in Seq(Nat), NEW u \in Seq(Nat)
  PROVE  Join(Join(s, t), u) = Join(s, Join(t, u))
BY ConcatAssociative DEF Join

\* The recursion of Content.
LEMMA ContentSteps ==
  ASSUME NEW s \in Seq(ChunkRecord)
  PROVE  \E f \in [0 .. Len(s) -> Seq(Nat)] :
           /\ f[0] = <<>>
           /\ \A n \in 1 .. Len(s) : f[n] = Join(f[n - 1], Unread(s[n]))
           /\ Content(s) = f[Len(s)]
<1> DEFINE N == Len(s)
           Is(g) == g = [n \in 0 .. N |-> IF n = 0 THEN <<>> ELSE Join(g[n - 1], Unread(s[n]))]
           step == [x \in (1 .. N) \X Seq(Nat) |-> Join(x[2], Unread(s[x[1]]))]
<1>1. N \in Nat /\ \A n \in 1 .. N : Unread(s[n]) \in Seq(Nat)
  BY LenProperties, ElementOfSeq, UnreadType
<1>2. step \in [(1 .. N) \X Seq(Nat) -> Seq(Nat)]
  BY <1>1, JoinFacts
<1>3. <<>> \in Seq(Nat)
  BY EmptySeq
<1>4. PICK g \in [0 .. N -> Seq(Nat)] : IsRecursion(g, N, <<>>, step)
  <2> HIDE DEF step
  <2> QED
    BY <1>1, <1>2, <1>3, RecursionExists
<1>5. ASSUME NEW n \in 1 .. N PROVE step[<<n, g[n - 1]>>] = Join(g[n - 1], Unread(s[n]))
  <2>1. n - 1 \in 0 .. N
    BY <1>1
  <2>2. <<n, g[n - 1]>> \in (1 .. N) \X Seq(Nat)
    BY <2>1
  <2> QED
    BY <2>2
<1>6. Is(g)
  <2> HIDE DEF step
  <2>1. \A n \in 0 .. N :
          (IF n = 0 THEN <<>> ELSE step[<<n, g[n - 1]>>])
            = IF n = 0 THEN <<>> ELSE Join(g[n - 1], Unread(s[n]))
    <3> TAKE n \in 0 .. N
    <3>1. n = 0 \/ n \in 1 .. N
      BY <1>1
    <3> QED
      BY <3>1, <1>5
  <2> HIDE DEF N
  <2> QED
    BY <1>4, <2>1 DEF IsRecursion
<1> DEFINE F == CHOOSE f : Is(f)
<1>7. Is(F)
  BY <1>6
<1>8. Content(s) = F[N]
  BY DEF Content, Join
<1> HIDE DEF F
<1> DEFINE E == {k \in 0 .. N : F[k] = g[k]}
<1>9. \A n \in 0 .. N : n \in E
  <2>1. 0 \in E
    BY <1>1, <1>6, <1>7
  <2>2. ASSUME NEW n \in 0 .. N - 1, n \in E PROVE n + 1 \in E
    <3>1. n + 1 \in 0 .. N /\ n + 1 # 0 /\ n + 1 - 1 = n
      BY <1>1
    <3>2. F[n + 1] = Join(F[n + 1 - 1], Unread(s[n + 1]))
      BY <3>1, <1>7
    <3>3. g[n + 1] = Join(g[n + 1 - 1], Unread(s[n + 1]))
      BY <3>1, <1>6
    <3>4. F[n] = g[n]
      BY <2>2
    <3> QED
      BY <3>1, <3>2, <3>3, <3>4
  <2> HIDE DEF E, N
  <2> QED
    BY <1>1, <2>1, <2>2, InductionUpTo
<1>10. g[0] = <<>> /\ \A n \in 1 .. N : g[n] = Join(g[n - 1], Unread(s[n]))
  <2> HIDE DEF step
  <2>1. g[0] = <<>>
    BY <1>1, <1>6
  <2>2. ASSUME NEW n \in 1 .. N PROVE n \in 0 .. N /\ n # 0
    BY <1>1
  <2> HIDE DEF N
  <2> QED
    BY <1>6, <2>1, <2>2
<1>11. Content(s) = g[N]
  BY <1>1, <1>8, <1>9
<1> QED
  BY <1>4, <1>10, <1>11

\* Content of no chunk, and of one chunk more.
LEMMA ContentAppend ==
  /\ Content(<<>>) = <<>>
  /\ \A s \in Seq(ChunkRecord) : Content(s) \in Seq(Nat)
  /\ \A s \in Seq(ChunkRecord), c \in ChunkRecord :
       Content(Append(s, c)) = Join(Content(s), Unread(c))
<1>1. Content(<<>>) = <<>>
  <2>1. <<>> \in Seq(ChunkRecord) /\ Len(<<>>) = 0
    BY EmptySeq
  <2> QED
    BY <2>1, ContentSteps
<1>2. ASSUME NEW s \in Seq(ChunkRecord) PROVE Content(s) \in Seq(Nat)
  <2>1. Len(s) \in 0 .. Len(s)
    BY LenProperties
  <2> QED
    BY <2>1, ContentSteps
<1>3. ASSUME NEW s \in Seq(ChunkRecord), NEW c \in ChunkRecord
      PROVE  Content(Append(s, c)) = Join(Content(s), Unread(c))
  <2> DEFINE N == Len(s)
             t == Append(s, c)
  <2>1. t \in Seq(ChunkRecord) /\ Len(t) = N + 1 /\ N \in Nat /\ t[N + 1] = c
        /\ \A n \in 1 .. N : t[n] = s[n]
    BY AppendProperties, LenProperties
  <2> HIDE DEF t
  <2>2. PICK f \in [0 .. N -> Seq(Nat)] :
          /\ f[0] = <<>>
          /\ \A n \in 1 .. N : f[n] = Join(f[n - 1], Unread(s[n]))
          /\ Content(s) = f[N]
    BY ContentSteps
  <2>3. PICK g \in [0 .. N + 1 -> Seq(Nat)] :
          /\ g[0] = <<>>
          /\ \A n \in 1 .. N + 1 : g[n] = Join(g[n - 1], Unread(t[n]))
          /\ Content(t) = g[N + 1]
    BY <2>1, ContentSteps
  <2> DEFINE E == {k \in 0 .. N : f[k] = g[k]}
  <2>4. \A n \in 0 .. N : n \in E
    <3>1. 0 \in E
      BY <2>1, <2>2, <2>3
    <3>2. ASSUME NEW n \in 0 .. N - 1, n \in E PROVE n + 1 \in E
      <4>1. n + 1 \in 1 .. N /\ n + 1 \in 1 .. N + 1 /\ n + 1 - 1 = n
        BY <2>1
      <4>2. f[n + 1] = Join(f[n + 1 - 1], Unread(s[n + 1]))
        BY <4>1, <2>2
      <4>3. g[n + 1] = Join(g[n + 1 - 1], Unread(t[n + 1]))
        BY <4>1, <2>3
      <4>4. f[n] = g[n] /\ t[n + 1] = s[n + 1] /\ n + 1 \in 0 .. N
        BY <2>1, <3>2, <4>1
      <4> QED
        BY <4>1, <4>2, <4>3, <4>4
    <3> HIDE DEF E, N
    <3> QED
      BY <2>1, <3>1, <3>2, InductionUpTo
  <2>5. f[N] = g[N]
    BY <2>1, <2>4
  <2>6. N + 1 \in 1 .. N + 1 /\ N + 1 - 1 = N
    BY <2>1
  <2>7. ASSUME NEW n \in 1 .. N + 1, n = N + 1 PROVE g[n] = Join(g[N], Unread(t[n]))
    <3>1. g[n] = Join(g[n - 1], Unread(t[n]))
      BY <2>3
    <3>2. n - 1 = N
      BY <2>1, <2>7
    <3> QED
      BY <3>1, <3>2
  <2>8. g[N + 1] = Join(g[N], Unread(t[N + 1]))
    BY <2>6, <2>7
  <2> QED
    BY <2>1, <2>2, <2>3, <2>5, <2>8 DEF t
<1> QED
  BY <1>1, <1>2, <1>3

\* Content of two sequences of chunks.
LEMMA ContentConcat ==
  ASSUME NEW s \in Seq(ChunkRecord), NEW t \in Seq(ChunkRecord)
  PROVE  Content(s \o t) = Join(Content(s), Content(t))
<1> DEFINE E == {n \in 0 .. Len(t) : \A u \in Seq(ChunkRecord) :
                  Len(u) = n => Content(s \o u) = Join(Content(s), Content(u))}
<1>0. Len(t) \in Nat
  BY LenProperties
<1>1. 0 \in E
  <2> SUFFICES ASSUME NEW u \in Seq(ChunkRecord), Len(u) = 0
               PROVE  Content(s \o u) = Join(Content(s), Content(u))
    BY <1>0
  <2>1. u = <<>>
    BY EmptySeq
  <2>2. s \o <<>> = s
    BY ConcatEmptySeq
  <2>3. Content(s) \in Seq(Nat) /\ Content(<<>>) = <<>>
    BY ContentAppend
  <2> QED
    BY <2>1, <2>2, <2>3, JoinFacts
<1>2. ASSUME NEW n \in 0 .. Len(t) - 1, n \in E PROVE n + 1 \in E
  <2>0. n + 1 \in 0 .. Len(t) /\ n \in Nat
    BY <1>0
  <2> SUFFICES ASSUME NEW u \in Seq(ChunkRecord), Len(u) = n + 1
               PROVE  Content(s \o u) = Join(Content(s), Content(u))
    BY <2>0
  <2> DEFINE v == SubSeq(u, 1, Len(u) - 1)
             c == u[Len(u)]
  <2>1. u # <<>>
    BY <2>0, EmptySeq
  <2>2. v \in Seq(ChunkRecord) /\ c \in ChunkRecord /\ Len(v) = Len(u) - 1 /\ u = Append(v, c)
    BY <2>1, FrontAndLast
  <2> HIDE DEF v, c
  <2>3. Len(v) = n
    BY <2>0, <2>2
  <2>4. Content(s \o v) = Join(Content(s), Content(v))
    BY <1>2, <2>2, <2>3
  <2>5. s \o v \in Seq(ChunkRecord) /\ s \o u = Append(s \o v, c)
    <3>1. <<c>> \in Seq(ChunkRecord) /\ s \o v \in Seq(ChunkRecord)
      BY <2>2, ConcatProperties
    <3>2. (s \o v) \o <<c>> = s \o (v \o <<c>>)
      BY <2>2, <3>1, ConcatAssociative
    <3> QED
      BY <2>2, <3>1, <3>2, AppendIsConcat
  <2>6. Content(s \o u) = Join(Content(s \o v), Unread(c))
    BY <2>2, <2>5, ContentAppend
  <2>7. Content(u) = Join(Content(v), Unread(c))
    BY <2>2, ContentAppend
  <2>8. Content(s) \in Seq(Nat) /\ Content(v) \in Seq(Nat) /\ Unread(c) \in Seq(Nat)
    BY <2>2, ContentAppend, UnreadType
  <2> QED
    BY <2>4, <2>6, <2>7, <2>8, JoinAssociative
<1>3. Len(t) \in E
  <2> HIDE DEF E
  <2>1. \A n \in 0 .. Len(t) : n \in E
    BY <1>0, <1>1, <1>2, InductionUpTo
  <2> QED
    BY <1>0, <2>1
<1> QED
  BY <1>3

\* Content from the first chunk on.
LEMMA ContentCons ==
  /\ \A c \in ChunkRecord : Content(<<c>>) = Unread(c)
  /\ \A s \in Seq(ChunkRecord) :
       s # <<>> => Content(s) = Join(Unread(Head(s)), Content(Tail(s)))
  /\ \A c \in ChunkRecord, s \in Seq(ChunkRecord) : Content(<<c>> \o s) = Join(Unread(c), Content(s))
<1>1. ASSUME NEW c \in ChunkRecord PROVE Content(<<c>>) = Unread(c)
  <2>1. <<>> \in Seq(ChunkRecord) /\ Append(<<>>, c) = <<c>>
    OBVIOUS
  <2>2. Unread(c) \in Seq(Nat)
    BY UnreadType
  <2> QED
    BY <2>1, <2>2, ContentAppend, JoinFacts
<1>2. ASSUME NEW c \in ChunkRecord, NEW s \in Seq(ChunkRecord)
      PROVE  Content(<<c>> \o s) = Join(Unread(c), Content(s))
  <2>1. <<c>> \in Seq(ChunkRecord)
    OBVIOUS
  <2> QED
    BY <1>1, <2>1, ContentConcat
<1>3. ASSUME NEW s \in Seq(ChunkRecord), s # <<>>
      PROVE  Content(s) = Join(Unread(Head(s)), Content(Tail(s)))
  <2>1. Head(s) \in ChunkRecord /\ Tail(s) \in Seq(ChunkRecord) /\ s = <<Head(s)>> \o Tail(s)
    BY <1>3, HeadAndTail
  <2>2. Content(<<Head(s)>> \o Tail(s)) = Join(Unread(Head(s)), Content(Tail(s)))
    BY <1>2, <2>1
  <2> QED
    BY <2>1, <2>2
<1> QED
  BY <1>1, <1>2, <1>3

-----------------------------------------------------------------------------
(***************************************************************************)
(* What each step of an operation does with a queue.                       *)
(***************************************************************************)

\* A chunk with an offset that its bytes reach.
SoundChunk == {c \in ChunkRecord : c.offset <= Len(c.data)}
Sound(q) == q.chunks \in Seq(SoundChunk)

Balance(q) == q.bytes_in - q.bytes_out - Length(q.chunks)

\* The counters of p are those of q.
SameCounts(p, q) == p.bytes_in = q.bytes_in /\ p.bytes_out = q.bytes_out /\ p.stale = q.stale

LEMMA QueueType ==
  ASSUME NEW q \in Queue
  PROVE  /\ q.chunks \in Seq(ChunkRecord) /\ q.pool \in Seq(Nat)
         /\ q.bytes_in \in Int /\ q.bytes_out \in Int /\ q.stale \in Nat
         /\ Length(q.chunks) \in Int /\ Content(q.chunks) \in Seq(Nat)
         /\ Len(q.chunks) \in Nat /\ Balance(q) \in Int
<1>1. /\ q.chunks \in Seq(ChunkRecord) /\ q.pool \in Seq(Nat)
      /\ q.bytes_in \in Int /\ q.bytes_out \in Int /\ q.stale \in Nat
  BY DEF Queue
<1>2. /\ Length(q.chunks) \in Int /\ Content(q.chunks) \in Seq(Nat)
      /\ Len(q.chunks) \in Nat
  BY <1>1, LengthAppend, ContentAppend, LenProperties
<1> QED
  BY <1>1, <1>2 DEF Balance

LEMMA ChunkType ==
  /\ \A data \in Seq(Nat) :
       /\ Chunk("mem", data) \in SoundChunk /\ Chunk("file", data) \in SoundChunk
       /\ Chunk("mem", data).data = data /\ Chunk("file", data).data = data
       /\ Chunk("mem", data).offset = 0 /\ Chunk("file", data).offset = 0
  /\ TempFile \in SoundChunk /\ TempFile.data = <<>> /\ TempFile.offset = 0
  /\ SoundChunk \subseteq ChunkRecord
<1>1. ASSUME NEW data \in Seq(Nat)
      PROVE  /\ Chunk("mem", data) \in SoundChunk /\ Chunk("file", data) \in SoundChunk
             /\ Chunk("mem", data).data = data /\ Chunk("file", data).data = data
             /\ Chunk("mem", data).offset = 0 /\ Chunk("file", data).offset = 0
  <2>1. Len(data) \in Nat
    BY LenProperties
  <2> QED
    BY <2>1 DEF Chunk, SoundChunk, ChunkRecord
<1>2. TempFile \in SoundChunk /\ TempFile.data = <<>> /\ TempFile.offset = 0
  <2> DEFINE nothing == <<>>
  <2>1. nothing \in Seq(Nat) /\ Len(nothing) = 0
    BY EmptySeq
  <2>2. TempFile = [Chunk("file", nothing) EXCEPT !.temp = TRUE, !.open = TRUE]
    BY DEF TempFile
  <2> HIDE DEF nothing
  <2>3. TempFile \in ChunkRecord /\ TempFile.offset = 0 /\ TempFile.data = nothing
    BY <2>1, <2>2 DEF ChunkRecord, Chunk
  <2> QED
    BY <2>1, <2>3 DEF SoundChunk, nothing
<1> QED
  BY <1>1, <1>2 DEF SoundChunk

\* A chunk that nothing of is left has no bytes, and else as many as are left.
LEMMA UnreadLength ==
  ASSUME NEW c \in SoundChunk
  PROVE  /\ Remaining(c) \in Nat /\ Len(Unread(c)) = Remaining(c)
         /\ Remaining(c) = 0 => Unread(c) = <<>>
         /\ c.offset = 0 => Unread(c) = c.data
<1>1. c.data \in Seq(Nat) /\ c.offset \in 0 .. Len(c.data) /\ Len(c.data) \in Nat
  <2>1. c.data \in Seq(Nat) /\ c.offset \in Nat /\ c.offset <= Len(c.data)
    BY DEF SoundChunk, ChunkRecord
  <2> QED
    BY <2>1, LenProperties
<1>2. Unread(c) \in Seq(Nat) /\ Len(Unread(c)) = Remaining(c)
  BY <1>1, SplitAt DEF Unread, Remaining
<1>3. Remaining(c) \in Nat
  BY <1>1 DEF Remaining
<1>4. ASSUME c.offset = 0 PROVE Unread(c) = c.data
  BY <1>1, <1>4, SubSeqFull DEF Unread
<1> QED
  BY <1>2, <1>3, <1>4, EmptySeq

\* The bytes of chunks that are sound are as many as their length says.
LEMMA ContentLength ==
  ASSUME NEW s \in Seq(SoundChunk)
  PROVE  s \in Seq(ChunkRecord) /\ Len(Content(s)) = Length(s)
<1> DEFINE E == {n \in 0 .. Len(s) : \A u \in Seq(SoundChunk) :
                  Len(u) = n => Len(Content(u)) = Length(u)}
<1>0. Len(s) \in Nat /\ \A u \in Seq(SoundChunk) : u \in Seq(ChunkRecord)
  BY LenProperties, SeqMonotonic, ChunkType
<1>1. 0 \in E
  <2>1. \A u \in Seq(SoundChunk) : Len(u) = 0 => u = <<>>
    BY EmptySeq
  <2>2. Len(Content(<<>>)) = 0 /\ Length(<<>>) = 0
    BY ContentAppend, LengthAppend, EmptySeq
  <2> QED
    BY <1>0, <2>1, <2>2
<1>2. ASSUME NEW n \in 0 .. Len(s) - 1, n \in E PROVE n + 1 \in E
  <2>0. n + 1 \in 0 .. Len(s) /\ n \in Nat
    BY <1>0
  <2> SUFFICES ASSUME NEW u \in Seq(SoundChunk), Len(u) = n + 1
               PROVE  Len(Content(u)) = Length(u)
    BY <2>0
  <2> DEFINE v == SubSeq(u, 1, Len(u) - 1)
             c == u[Len(u)]
  <2>1. u # <<>>
    BY <2>0, EmptySeq
  <2>2. v \in Seq(SoundChunk) /\ c \in SoundChunk /\ Len(v) = Len(u) - 1 /\ u = Append(v, c)
    BY <2>1, FrontAndLast
  <2> HIDE DEF v, c
  <2>3. Len(v) = n
    BY <2>0, <2>2
  <2>4. Len(Content(v)) = Length(v)
    BY <1>2, <2>2, <2>3
  <2>5. v \in Seq(ChunkRecord) /\ c \in ChunkRecord
    BY <1>0, <2>2, ChunkType
  <2>6. Content(u) = Join(Content(v), Unread(c)) /\ Length(u) = Length(v) + Remaining(c)
    BY <2>2, <2>5, ContentAppend, LengthAppend
  <2>7. Content(v) \in Seq(Nat) /\ Unread(c) \in Seq(Nat)
    BY <2>5, ContentAppend, UnreadType
  <2> QED
    BY <2>2, <2>4, <2>6, <2>7, JoinFacts, UnreadLength
<1>3. Len(s) \in E
  <2> HIDE DEF E
  <2>1. \A n \in 0 .. Len(s) : n \in E
    BY <1>0, <1>1, <1>2, InductionUpTo
  <2> QED
    BY <1>0, <2>1
<1> QED
  BY <1>0, <1>3

\* chunkqueue_push_unused_chunk changes the pool only.
LEMMA PushUnusedEffect ==
  ASSUME NEW q \in Queue, NEW c \in ChunkRecord
  PROVE  /\ PushUnused(q, c) \in Queue /\ PushUnused(q, c).chunks = q.chunks
         /\ SameCounts(PushUnused(q, c), q)
<1>1. <<c.offset>> \in Seq(Nat)
  BY DEF ChunkRecord
<1>2. <<c.offset>> \o q.pool \in Seq(Nat)
  BY <1>1, QueueType, ConcatProperties
<1>3. CASE Len(q.pool) > PoolMax - 1
  BY <1>3 DEF PushUnused, SameCounts
<1>4. CASE ~ (Len(q.pool) > PoolMax - 1)
  <2> DEFINE pool == <<c.offset>> \o q.pool
  <2>1. PushUnused(q, c) = [q EXCEPT !.pool = pool]
    BY <1>4 DEF PushUnused
  <2>2. pool \in Seq(Nat)
    BY <1>2
  <2> HIDE DEF pool
  <2> QED
    BY <2>1, <2>2 DEF Queue, SameCounts
<1> QED
  BY <1>3, <1>4

\* The chunk at the head leaves.
LEMMA DropFirstEffect ==
  ASSUME NEW q \in Queue, ~IsEmpty(q)
  PROVE  /\ DropFirst(q) \in Queue /\ DropFirst(q).chunks = Tail(q.chunks)
         /\ SameCounts(DropFirst(q), q)
<1> DEFINE p == [q EXCEPT !.chunks = Tail(q.chunks)]
<1>1. Head(q.chunks) \in ChunkRecord /\ Tail(q.chunks) \in Seq(ChunkRecord)
  BY QueueType, HeadAndTail DEF IsEmpty
<1>2. p \in Queue /\ p.chunks = Tail(q.chunks) /\ SameCounts(p, q)
  BY <1>1 DEF Queue, SameCounts
<1>3. DropFirst(q) = PushUnused(p, Head(q.chunks))
  BY DEF DropFirst
<1> HIDE DEF p
<1> QED
  BY <1>1, <1>2, <1>3, PushUnusedEffect DEF SameCounts

\* chunkqueue_get_unused_chunk changes the pool only.
LEMMA TakeUnusedEffect ==
  ASSUME NEW q \in Queue
  PROVE  /\ TakeUnused(q) \in Queue /\ TakeUnused(q).chunks = q.chunks
         /\ SameCounts(TakeUnused(q), q) /\ UnusedOffset(q) \in Nat
<1>1. CASE q.pool = <<>>
  BY <1>1 DEF TakeUnused, UnusedOffset, SameCounts
<1>2. CASE q.pool # <<>>
  <2>1. Head(q.pool) \in Nat /\ Tail(q.pool) \in Seq(Nat)
    BY <1>2, QueueType, HeadAndTail
  <2> QED
    BY <1>2, <2>1 DEF TakeUnused, UnusedOffset, Queue, SameCounts
<1> QED
  BY <1>1, <1>2

\* chunkqueue_append_chunk: a chunk comes behind the others and is counted.
Appended(p, q, c) ==
  /\ p \in Queue /\ p.chunks = Append(q.chunks, c)
  /\ p.bytes_in = q.bytes_in + Remaining(c) /\ p.bytes_out = q.bytes_out

LEMMA AppendChunkEffect ==
  ASSUME NEW q \in Queue, NEW c \in ChunkRecord
  PROVE  Appended(AppendChunk(q, c), q, c) /\ AppendChunk(q, c).stale = q.stale
<1>1. Append(q.chunks, c) \in Seq(ChunkRecord) /\ q.bytes_in + Remaining(c) \in Int
  BY QueueType, RemainingType, AppendProperties
<1> QED
  BY <1>1 DEF AppendChunk, Appended, Queue

LEMMA AppendFreshEffect ==
  ASSUME NEW q \in Queue, NEW c \in ChunkRecord
  PROVE  Appended(AppendFresh(q, c), q, c) /\ AppendFresh(q, c).stale = q.stale
<1>1. TakeUnused(q) \in Queue
  BY TakeUnusedEffect
<1>2. Appended(AppendFresh(q, c), TakeUnused(q), c) /\ AppendFresh(q, c).stale = TakeUnused(q).stale
  BY <1>1, AppendChunkEffect DEF AppendFresh
<1> QED
  BY <1>2, TakeUnusedEffect DEF Appended, SameCounts

\* With the offset of the pool the chunk is another one, unless that is 0.
LEMMA AppendStaleEffect ==
  ASSUME NEW q \in Queue, NEW c \in ChunkRecord, c.offset = 0
  PROVE  \E d \in ChunkRecord :
           /\ d.data = c.data /\ d.type = c.type
           /\ Appended(AppendStale(q, c), q, d)
           /\ \/ AppendStale(q, c).stale = q.stale /\ d = c
              \/ AppendStale(q, c).stale = q.stale + 1
<1> DEFINE d == [c EXCEPT !.offset = UnusedOffset(q)]
           p == AppendChunk(TakeUnused(q), d)
<1>1. d \in ChunkRecord /\ d.data = c.data /\ d.type = c.type /\ (UnusedOffset(q) = 0 => d = c)
  BY TakeUnusedEffect DEF ChunkRecord
<1> HIDE DEF d
<1>2. Appended(p, TakeUnused(q), d) /\ p.stale = TakeUnused(q).stale
  BY <1>1, TakeUnusedEffect, AppendChunkEffect
<1>3. Appended(p, q, d) /\ p.stale = q.stale
  BY <1>2, TakeUnusedEffect DEF Appended, SameCounts
<1>4. AppendStale(q, c) = [p EXCEPT !.stale = IF UnusedOffset(q) = 0 THEN p.stale ELSE p.stale + 1]
  BY DEF AppendStale, d
<1> HIDE DEF p
<1>5. q.stale \in Nat
  BY QueueType
<1>6. AppendStale(q, c).stale = IF UnusedOffset(q) = 0 THEN q.stale ELSE q.stale + 1
  BY <1>3, <1>4, <1>5 DEF Appended, Queue
<1>7. Appended(AppendStale(q, c), q, d)
  <2> DEFINE n == IF UnusedOffset(q) = 0 THEN p.stale ELSE p.stale + 1
  <2>1. p \in Queue /\ n \in Nat
    BY <1>3, <1>5 DEF Appended
  <2> HIDE DEF n
  <2>2. [p EXCEPT !.stale = n] \in Queue
    BY <2>1 DEF Queue
  <2>3. AppendStale(q, c) = [p EXCEPT !.stale = n]
    BY <1>4 DEF n
  <2>4. p.chunks = AppendStale(q, c).chunks /\ p.bytes_in = AppendStale(q, c).bytes_in
        /\ p.bytes_out = AppendStale(q, c).bytes_out
    BY <2>1, <2>3 DEF Queue
  <2> QED
    BY <1>3, <2>2, <2>3, <2>4 DEF Appended
<1> QED
  BY <1>1, <1>6, <1>7

\* A chunk with its offset moved.
Moved(c, k) == [c EXCEPT !.offset = c.offset + k]

LEMMA MovedFacts ==
  ASSUME NEW c \in ChunkRecord, NEW k \in Int, c.offset + k \in Nat
  PROVE  /\ Moved(c, k) \in ChunkRecord /\ Moved(c, k).data = c.data
         /\ Moved(c, k).offset = c.offset + k /\ Remaining(Moved(c, k)) = Remaining(c) - k
<1> DEFINE m == c.offset + k
           d == [c EXCEPT !.offset = m]
<1>1. m \in Nat /\ Moved(c, k) = d
  BY DEF Moved
<1> HIDE DEF m
<1>2. d \in ChunkRecord /\ d.data = c.data /\ d.offset = m
  BY <1>1 DEF ChunkRecord
<1>3. Len(c.data) \in Int /\ c.offset \in Int
  BY LenProperties DEF ChunkRecord
<1>4. Remaining(d) = Len(c.data) - m
  BY <1>2 DEF Remaining
<1>5. Remaining(d) = Remaining(c) - k
  BY <1>3, <1>4 DEF Remaining, m
<1> HIDE DEF d
<1> QED
  BY <1>1, <1>2, <1>5 DEF m

\* The first k bytes that are left of a chunk, and the others.
LEMMA UnreadSplit ==
  ASSUME NEW c \in SoundChunk, NEW k \in 0 .. Remaining(c)
  PROVE  /\ Moved(c, k) \in SoundChunk /\ Remaining(Moved(c, k)) = Remaining(c) - k
         /\ SubSeq(Unread(c), 1, k) \in Seq(Nat) /\ Len(SubSeq(Unread(c), 1, k)) = k
         /\ SubSeq(c.data, c.offset + 1, c.offset + k) = SubSeq(Unread(c), 1, k)
         /\ Unread(c) = Join(SubSeq(Unread(c), 1, k), Unread(Moved(c, k)))
<1> DEFINE D == c.data
           o == c.offset
           m == o + k
           L == Len(D)
           part == SubSeq(D, o + 1, m)
           d == Moved(c, k)
<1>1. D \in Seq(Nat) /\ o \in Nat /\ L \in Nat /\ o <= L /\ c \in ChunkRecord
  BY LenProperties DEF SoundChunk, ChunkRecord
<1>2. k \in Nat /\ m \in o .. L
  BY <1>1 DEF Remaining
<1>3. d \in ChunkRecord /\ d.data = D /\ d.offset = m /\ Remaining(d) = Remaining(c) - k
  BY <1>1, <1>2, MovedFacts
<1>4. d \in SoundChunk
  <2> HIDE DEF d, m, L
  <2> QED
    BY <1>1, <1>2, <1>3 DEF SoundChunk, L
<1>5. Unread(c) = SubSeq(D, o + 1, L) /\ Unread(d) = SubSeq(D, m + 1, L)
  <2> HIDE DEF d, m
  <2> QED
    BY <1>3 DEF Unread
<1>6. m - o = k
  BY <1>1, <1>2
<1> HIDE DEF m, D, o, d
<1>7. part \in Seq(Nat) /\ Len(part) = k
  <2>1. \A i \in o + 1 .. m : D[i] \in Nat
    BY <1>1, <1>2, ElementOfSeq
  <2>2. o + 1 \in Int /\ m \in Int
    BY <1>1, <1>2
  <2>3. part \in Seq(Nat) /\ Len(part) = IF o + 1 <= m THEN m - (o + 1) + 1 ELSE 0
    BY <2>1, <2>2, SubSeqProperties
  <2> HIDE DEF part
  <2> QED
    BY <1>1, <1>2, <1>6, <2>3
<1>8. Unread(c) = part \o Unread(d)
  <2> DEFINE a == o + 1
  <2>1. a \in 1 .. L + 1 /\ m \in a - 1 .. L /\ L \in m .. L
    BY <1>1, <1>2
  <2> HIDE DEF a
  <2>2. SubSeq(D, a, m) \o SubSeq(D, m + 1, L) = SubSeq(D, a, L)
    BY <1>1, <2>1, ConcatAdjacentSubSeq
  <2> USE DEF a
  <2> QED
    BY <1>5, <2>2
<1>9. Unread(d) \in Seq(Nat)
  BY <1>3, UnreadType
<1>10. SubSeq(Unread(c), 1, k) = part
  <2> HIDE DEF part
  <2>1. SubSeq(part \o Unread(d), 1, Len(part)) = part
    BY <1>7, <1>9, ConcatParts
  <2> QED
    BY <1>7, <1>8, <2>1
<1>11. Unread(c) = Join(part, Unread(d))
  BY <1>8 DEF Join
<1>12. part = SubSeq(c.data, c.offset + 1, c.offset + k)
  BY DEF m, D, o
<1> HIDE DEF part
<1> QED
  BY <1>3, <1>4, <1>7, <1>10, <1>11, <1>12 DEF d

\* The offset of the chunk at the head moves.
LEMMA AdvanceEffect ==
  ASSUME NEW q \in Queue, ~IsEmpty(q), NEW k \in Int, Head(q.chunks).offset + k \in Nat
  PROVE  /\ Advance(q, k) \in Queue /\ SameCounts(Advance(q, k), q) /\ ~IsEmpty(Advance(q, k))
         /\ Len(Advance(q, k).chunks) = Len(q.chunks)
         /\ Moved(Head(q.chunks), k) \in ChunkRecord
         /\ Head(Advance(q, k).chunks) = Moved(Head(q.chunks), k)
         /\ Tail(Advance(q, k).chunks) = Tail(q.chunks)
         /\ Remaining(Moved(Head(q.chunks), k)) = Remaining(Head(q.chunks)) - k
         /\ Length(Advance(q, k).chunks) = Length(q.chunks) - k
<1> DEFINE s == q.chunks
           c == s[1]
           d == Moved(c, k)
           t == [s EXCEPT ![1] = d]
           p == Advance(q, k)
<1>1. /\ s \in Seq(ChunkRecord) /\ s # <<>> /\ Head(s) = c /\ c \in ChunkRecord
      /\ Len(s) \in Nat \ {0} /\ Tail(s) \in Seq(ChunkRecord) /\ Len(Tail(s)) = Len(s) - 1
  BY QueueType, HeadAndTail DEF IsEmpty
<1>2. d \in ChunkRecord /\ Remaining(d) = Remaining(c) - k
  <2>1. c.offset + k \in Nat
    BY <1>1
  <2> HIDE DEF c
  <2> QED
    BY <1>1, <2>1, MovedFacts
<1>3. p = [q EXCEPT !.chunks = t]
  <2>1. 1 \in DOMAIN s
    BY <1>1, LenProperties
  <2> QED
    BY <2>1 DEF Advance, Moved
<1> HIDE DEF d
<1>4. t \in Seq(ChunkRecord) /\ Len(t) = Len(s)
      /\ \A j \in 1 .. Len(s) : t[j] = IF j = 1 THEN d ELSE s[j]
  <2>1. 1 \in 1 .. Len(s)
    BY <1>1
  <2> HIDE DEF s
  <2> QED
    BY <1>1, <1>2, <2>1, ExceptSeq
<1>5. t # <<>> /\ Head(t) = t[1] /\ Tail(t) \in Seq(ChunkRecord) /\ Len(Tail(t)) = Len(s) - 1
  <2> HIDE DEF t
  <2>1. t # <<>>
    BY <1>1, <1>4, EmptySeq
  <2> QED
    BY <1>4, <2>1, HeadAndTail
<1>6. Head(t) = d
  BY <1>1, <1>4, <1>5
<1>7. Tail(t) = Tail(s)
  <2> HIDE DEF t, s
  <2>1. \A i \in 1 .. Len(Tail(t)) : Tail(t)[i] = t[i + 1]
    BY <1>4, <1>5, HeadTailProperties
  <2>2. \A i \in 1 .. Len(Tail(s)) : Tail(s)[i] = s[i + 1]
    BY <1>1, HeadTailProperties
  <2>3. \A i \in 1 .. Len(Tail(t)) : Tail(t)[i] = Tail(s)[i]
    <3> TAKE i \in 1 .. Len(Tail(t))
    <3>1. i \in 1 .. Len(Tail(s)) /\ i + 1 \in 1 .. Len(s) /\ i + 1 # 1
      BY <1>1, <1>5
    <3> QED
      BY <1>4, <2>1, <2>2, <3>1
  <2> QED
    BY <1>1, <1>5, <2>3, SeqEqual
<1>8. p \in Queue /\ SameCounts(p, q) /\ p.chunks = t
  <2> HIDE DEF t, p
  <2> QED
    BY <1>3, <1>4 DEF Queue, SameCounts
<1> HIDE DEF t, p, s
<1>9. Length(s) = Remaining(c) + Length(Tail(s)) /\ Length(t) = Remaining(d) + Length(Tail(t))
  BY <1>1, <1>4, <1>5, <1>6, LengthCons
<1>10. Remaining(c) \in Int /\ Length(Tail(s)) \in Int
  BY <1>1, RemainingType, LengthAppend
<1>11. Length(t) = Length(s) - k
  <2> DEFINE rc == Remaining(c)
             rd == Remaining(d)
             ls == Length(Tail(s))
  <2>1. rd = rc - k /\ Length(s) = rc + ls /\ Length(t) = rd + ls /\ rc \in Int /\ ls \in Int
    BY <1>2, <1>7, <1>9, <1>10
  <2> HIDE DEF rc, rd, ls
  <2> QED
    BY <2>1
<1>12. d = Moved(Head(s), k) /\ c = Head(s)
  BY <1>1 DEF d
<1> HIDE DEF c
<1> QED
  BY <1>1, <1>2, <1>4, <1>5, <1>6, <1>7, <1>8, <1>11, <1>12 DEF IsEmpty, s, p

\* The same of a queue that is sound: bytes are taken off its content.
LEMMA AdvanceContent ==
  ASSUME NEW q \in Queue, ~IsEmpty(q), Sound(q), NEW k \in 0 .. Remaining(Head(q.chunks))
  PROVE  /\ Sound(Advance(q, k))
         /\ SubSeq(Unread(Head(q.chunks)), 1, k) \in Seq(Nat)
         /\ Len(SubSeq(Unread(Head(q.chunks)), 1, k)) = k
         /\ Content(q.chunks) = Join(SubSeq(Unread(Head(q.chunks)), 1, k), Content(Advance(q, k).chunks))
<1> DEFINE c == Head(q.chunks)
           d == Moved(c, k)
           p == Advance(q, k)
           part == SubSeq(Unread(c), 1, k)
<1>1. /\ q.chunks \in Seq(SoundChunk) /\ q.chunks # <<>> /\ c \in SoundChunk
      /\ Tail(q.chunks) \in Seq(SoundChunk) /\ q.chunks = <<c>> \o Tail(q.chunks)
  BY HeadAndTail DEF Sound, IsEmpty
<1>2. Remaining(c) \in Nat
  BY <1>1, UnreadLength
<1>3. /\ d \in SoundChunk /\ part \in Seq(Nat) /\ Len(part) = k
      /\ Unread(c) = Join(part, Unread(d))
  BY <1>1, UnreadSplit
<1>4. k \in Int /\ c.offset + k \in Nat
  <2>1. c.offset \in Nat /\ k \in Nat
    BY <1>1, <1>2 DEF SoundChunk, ChunkRecord
  <2> QED
    BY <2>1
<1>5. p \in Queue /\ ~IsEmpty(p) /\ Head(p.chunks) = d /\ Tail(p.chunks) = Tail(q.chunks)
  BY <1>4, AdvanceEffect
<1> HIDE DEF part, p, d, c
<1>6. p.chunks = <<d>> \o Tail(q.chunks)
  BY <1>5, QueueType, HeadAndTail DEF IsEmpty
<1>7. Sound(p)
  <2>1. <<d>> \in Seq(SoundChunk)
    BY <1>3
  <2> QED
    BY <1>1, <1>6, <2>1, ConcatProperties DEF Sound
<1>8. /\ Tail(q.chunks) \in Seq(ChunkRecord) /\ c \in ChunkRecord /\ d \in ChunkRecord
  BY <1>1, <1>3, ContentLength, ChunkType
<1>9. Content(q.chunks) = Join(Unread(c), Content(Tail(q.chunks)))
      /\ Content(p.chunks) = Join(Unread(d), Content(Tail(q.chunks)))
  BY <1>1, <1>6, <1>8, ContentCons
<1>10. Unread(d) \in Seq(Nat) /\ Content(Tail(q.chunks)) \in Seq(Nat)
  BY <1>8, UnreadType, ContentAppend
<1>11. Content(q.chunks) = Join(part, Content(p.chunks))
  BY <1>3, <1>9, <1>10, JoinAssociative
<1> QED
  BY <1>3, <1>7, <1>11 DEF part, p, c

\* The head of a queue that is sound, and what is behind it.
LEMMA SoundHead ==
  ASSUME NEW q \in Queue, ~IsEmpty(q)
  PROVE  /\ Head(q.chunks) \in ChunkRecord /\ Tail(q.chunks) \in Seq(ChunkRecord)
         /\ Len(Tail(q.chunks)) = Len(q.chunks) - 1 /\ Len(q.chunks) \in Nat \ {0}
         /\ Length(q.chunks) = Remaining(Head(q.chunks)) + Length(Tail(q.chunks))
         /\ Content(q.chunks) = Join(Unread(Head(q.chunks)), Content(Tail(q.chunks)))
         /\ Sound(q) => Head(q.chunks) \in SoundChunk /\ Tail(q.chunks) \in Seq(SoundChunk)
<1>1. q.chunks \in Seq(ChunkRecord) /\ q.chunks # <<>>
  BY QueueType DEF IsEmpty
<1>2. Sound(q) => Head(q.chunks) \in SoundChunk /\ Tail(q.chunks) \in Seq(SoundChunk)
  BY <1>1, HeadAndTail DEF Sound
<1> QED
  BY <1>1, <1>2, HeadAndTail, LengthCons, ContentCons

-----------------------------------------------------------------------------
(***************************************************************************)
(* Loops: what a turn keeps, the loop keeps.  One lemma for each, because  *)
(* a lemma cannot be about any turn.                                       *)
(***************************************************************************)
LEMMA FinishedTurnLoop ==
  ASSUME NEW N \in Nat, NEW S, NEW a \in S, \A x \in S : FinishedTurn(x) \in S
  PROVE  Loop(FinishedTurn, N, a) \in S
<1> DEFINE f == [x \in S |-> FinishedTurn(x)]
           Is(g) == g = [i \in 0 .. N |-> IF i = 0 THEN a ELSE FinishedTurn(g[i - 1])]
<1>1. f \in [S -> S]
  OBVIOUS
<1>2. PICK g \in [0 .. N -> S] : g = [i \in 0 .. N |-> IF i = 0 THEN a ELSE f[g[i - 1]]]
  <2> HIDE DEF f
  <2> QED
    BY <1>1, IterationExists
<1>3. Is(g)
  <2>1. \A i \in 0 .. N : (IF i = 0 THEN a ELSE f[g[i - 1]]) = IF i = 0 THEN a ELSE FinishedTurn(g[i - 1])
    <3> TAKE i \in 0 .. N
    <3>1. i = 0 \/ i - 1 \in 0 .. N
      OBVIOUS
    <3> QED
      BY <3>1
  <2> HIDE DEF f
  <2> QED
    BY <1>2, <2>1
<1> DEFINE F == CHOOSE h : Is(h)
<1>4. Is(F)
  BY <1>3
<1>5. Loop(FinishedTurn, N, a) = F[N]
  BY DEF Loop
<1> HIDE DEF F
<1> DEFINE E == {i \in 0 .. N : F[i] \in S}
<1>6. \A n \in 0 .. N : n \in E
  <2>1. 0 \in E
    BY <1>4
  <2>2. ASSUME NEW n \in 0 .. N - 1, n \in E PROVE n + 1 \in E
    <3>1. ASSUME NEW m \in 1 .. N, m = n + 1 PROVE F[m] \in S
      <4>1. F[m] = FinishedTurn(F[m - 1]) /\ m - 1 = n
        BY <1>4, <3>1
      <4> QED
        BY <2>2, <4>1
    <3>2. n + 1 \in 1 .. N /\ n + 1 \in 0 .. N
      OBVIOUS
    <3> QED
      BY <3>1, <3>2
  <2> HIDE DEF E
  <2> QED
    BY <2>1, <2>2, InductionUpTo
<1> QED
  BY <1>5, <1>6

LEMMA StealTurnLoop ==
  ASSUME NEW N \in Nat, NEW S, NEW a \in S, \A x \in S : StealTurn(x) \in S
  PROVE  Loop(StealTurn, N, a) \in S
<1> DEFINE f == [x \in S |-> StealTurn(x)]
           Is(g) == g = [i \in 0 .. N |-> IF i = 0 THEN a ELSE StealTurn(g[i - 1])]
<1>1. f \in [S -> S]
  OBVIOUS
<1>2. PICK g \in [0 .. N -> S] : g = [i \in 0 .. N |-> IF i = 0 THEN a ELSE f[g[i - 1]]]
  <2> HIDE DEF f
  <2> QED
    BY <1>1, IterationExists
<1>3. Is(g)
  <2>1. \A i \in 0 .. N : (IF i = 0 THEN a ELSE f[g[i - 1]]) = IF i = 0 THEN a ELSE StealTurn(g[i - 1])
    <3> TAKE i \in 0 .. N
    <3>1. i = 0 \/ i - 1 \in 0 .. N
      OBVIOUS
    <3> QED
      BY <3>1
  <2> HIDE DEF f
  <2> QED
    BY <1>2, <2>1
<1> DEFINE F == CHOOSE h : Is(h)
<1>4. Is(F)
  BY <1>3
<1>5. Loop(StealTurn, N, a) = F[N]
  BY DEF Loop
<1> HIDE DEF F
<1> DEFINE E == {i \in 0 .. N : F[i] \in S}
<1>6. \A n \in 0 .. N : n \in E
  <2>1. 0 \in E
    BY <1>4
  <2>2. ASSUME NEW n \in 0 .. N - 1, n \in E PROVE n + 1 \in E
    <3>1. ASSUME NEW m \in 1 .. N, m = n + 1 PROVE F[m] \in S
      <4>1. F[m] = StealTurn(F[m - 1]) /\ m - 1 = n
        BY <1>4, <3>1
      <4> QED
        BY <2>2, <4>1
    <3>2. n + 1 \in 1 .. N /\ n + 1 \in 0 .. N
      OBVIOUS
    <3> QED
      BY <3>1, <3>2
  <2> HIDE DEF E
  <2> QED
    BY <2>1, <2>2, InductionUpTo
<1> QED
  BY <1>5, <1>6

LEMMA SweepTurnLoop ==
  ASSUME NEW N \in Nat, NEW S, NEW a \in S, \A x \in S : SweepTurn(x) \in S
  PROVE  Loop(SweepTurn, N, a) \in S
<1> DEFINE f == [x \in S |-> SweepTurn(x)]
           Is(g) == g = [i \in 0 .. N |-> IF i = 0 THEN a ELSE SweepTurn(g[i - 1])]
<1>1. f \in [S -> S]
  OBVIOUS
<1>2. PICK g \in [0 .. N -> S] : g = [i \in 0 .. N |-> IF i = 0 THEN a ELSE f[g[i - 1]]]
  <2> HIDE DEF f
  <2> QED
    BY <1>1, IterationExists
<1>3. Is(g)
  <2>1. \A i \in 0 .. N : (IF i = 0 THEN a ELSE f[g[i - 1]]) = IF i = 0 THEN a ELSE SweepTurn(g[i - 1])
    <3> TAKE i \in 0 .. N
    <3>1. i = 0 \/ i - 1 \in 0 .. N
      OBVIOUS
    <3> QED
      BY <3>1
  <2> HIDE DEF f
  <2> QED
    BY <1>2, <2>1
<1> DEFINE F == CHOOSE h : Is(h)
<1>4. Is(F)
  BY <1>3
<1>5. Loop(SweepTurn, N, a) = F[N]
  BY DEF Loop
<1> HIDE DEF F
<1> DEFINE E == {i \in 0 .. N : F[i] \in S}
<1>6. \A n \in 0 .. N : n \in E
  <2>1. 0 \in E
    BY <1>4
  <2>2. ASSUME NEW n \in 0 .. N - 1, n \in E PROVE n + 1 \in E
    <3>1. ASSUME NEW m \in 1 .. N, m = n + 1 PROVE F[m] \in S
      <4>1. F[m] = SweepTurn(F[m - 1]) /\ m - 1 = n
        BY <1>4, <3>1
      <4> QED
        BY <2>2, <4>1
    <3>2. n + 1 \in 1 .. N /\ n + 1 \in 0 .. N
      OBVIOUS
    <3> QED
      BY <3>1, <3>2
  <2> HIDE DEF E
  <2> QED
    BY <2>1, <2>2, InductionUpTo
<1> QED
  BY <1>5, <1>6

\* Here the turns are counted.
LEMMA WriteTurnLoop ==
  ASSUME NEW N \in Nat, NEW S, NEW a \in S, \A x \in S : WriteTurn(x) \in S,
         NEW T, <<0, a>> \in T,
         \A n \in 0 .. N - 1 : \A x \in S : <<n, x>> \in T => <<n + 1, WriteTurn(x)>> \in T
  PROVE  Loop(WriteTurn, N, a) \in S /\ <<N, Loop(WriteTurn, N, a)>> \in T
<1> DEFINE f == [x \in S |-> WriteTurn(x)]
           Is(g) == g = [i \in 0 .. N |-> IF i = 0 THEN a ELSE WriteTurn(g[i - 1])]
<1>1. f \in [S -> S]
  OBVIOUS
<1>2. PICK g \in [0 .. N -> S] : g = [i \in 0 .. N |-> IF i = 0 THEN a ELSE f[g[i - 1]]]
  <2> HIDE DEF f
  <2> QED
    BY ONLY <1>1, IterationExists, N \in Nat, a \in S
<1>3. Is(g)
  <2>1. \A i \in 0 .. N : (IF i = 0 THEN a ELSE f[g[i - 1]]) = IF i = 0 THEN a ELSE WriteTurn(g[i - 1])
    <3> TAKE i \in 0 .. N
    <3>1. i = 0 \/ i - 1 \in 0 .. N
      OBVIOUS
    <3> QED
      BY <3>1
  <2> HIDE DEF f
  <2> QED
    BY <1>2, <2>1
<1> DEFINE F == CHOOSE h : Is(h)
<1>4. Is(F)
  BY <1>3
<1>5. Loop(WriteTurn, N, a) = F[N]
  BY DEF Loop
<1> HIDE DEF F
<1> DEFINE E == {i \in 0 .. N : F[i] \in S /\ <<i, F[i]>> \in T}
<1>6. \A n \in 0 .. N : n \in E
  <2>1. 0 \in E
    BY <1>4
  <2>2. ASSUME NEW n \in 0 .. N - 1, n \in E PROVE n + 1 \in E
    <3>1. ASSUME NEW m \in 1 .. N, m = n + 1 PROVE F[m] \in S /\ <<m, F[m]>> \in T
      <4>1. F[m] = WriteTurn(F[m - 1]) /\ m - 1 = n
        BY <1>4, <3>1
      <4> QED
        BY <2>2, <4>1
    <3>2. n + 1 \in 1 .. N /\ n + 1 \in 0 .. N
      OBVIOUS
    <3> QED
      BY <3>1, <3>2
  <2> HIDE DEF E
  <2> QED
    BY <2>1, <2>2, InductionUpTo
<1> QED
  BY <1>5, <1>6

-----------------------------------------------------------------------------
(***************************************************************************)
(* The operations.                                                         *)
(***************************************************************************)

\* p has the counters and the bytes of q.
SameBytes(p, q) ==
  /\ p \in Queue /\ SameCounts(p, q) /\ Length(p.chunks) = Length(q.chunks)
  /\ Sound(q) => Sound(p) /\ Content(p.chunks) = Content(q.chunks)

LEMMA SameBytesTransitive ==
  ASSUME NEW p, NEW q, NEW r, SameBytes(p, q), SameBytes(q, r)
  PROVE  SameBytes(p, r)
BY DEF SameBytes, SameCounts

\* A chunk at the head that is used up leaves.
LEMMA DropUsedUp ==
  ASSUME NEW q \in Queue, ~IsEmpty(q), Remaining(Head(q.chunks)) = 0
  PROVE  SameBytes(DropFirst(q), q) /\ Len(DropFirst(q).chunks) = Len(q.chunks) - 1
<1> DEFINE c == Head(q.chunks)
           r == Tail(q.chunks)
<1>1. /\ c \in ChunkRecord /\ r \in Seq(ChunkRecord) /\ Len(r) = Len(q.chunks) - 1
      /\ Length(q.chunks) = Remaining(c) + Length(r)
      /\ Content(q.chunks) = Join(Unread(c), Content(r))
      /\ Sound(q) => c \in SoundChunk /\ r \in Seq(SoundChunk)
  BY SoundHead
<1>2. DropFirst(q) \in Queue /\ DropFirst(q).chunks = r /\ SameCounts(DropFirst(q), q)
  BY DropFirstEffect
<1>3. Remaining(c) = 0
  OBVIOUS
<1> HIDE DEF c, r
<1>4. Length(r) \in Int /\ Content(r) \in Seq(Nat)
  BY <1>1, LengthAppend, ContentAppend
<1>5. Length(r) = Length(q.chunks)
  BY <1>1, <1>3, <1>4
<1>6. ASSUME Sound(q) PROVE Sound(DropFirst(q)) /\ Content(r) = Content(q.chunks)
  <2>1. Unread(c) = <<>>
    BY <1>1, <1>3, <1>6, UnreadLength
  <2>2. Join(<<>>, Content(r)) = Content(r)
    BY <1>4, JoinFacts
  <2> QED
    BY <1>1, <1>2, <1>6, <2>1, <2>2 DEF Sound
<1> QED
  BY <1>1, <1>2, <1>5, <1>6 DEF SameBytes

\* chunkqueue_remove_finished_chunks takes no byte away.
LEMMA RemoveFinishedEffect ==
  ASSUME NEW q \in Queue
  PROVE  SameBytes(RemoveFinished(q), q)
<1> DEFINE S == {p \in Queue : SameBytes(p, q)}
<1>1. q \in S
  BY DEF SameBytes, SameCounts
<1>2. ASSUME NEW p \in S PROVE FinishedTurn(p) \in S
  <2>1. CASE ~IsEmpty(p) /\ Remaining(Head(p.chunks)) = 0
    <3>1. SameBytes(DropFirst(p), p)
      BY <2>1, DropUsedUp
    <3>2. SameBytes(DropFirst(p), q)
      BY <3>1, SameBytesTransitive
    <3> QED
      BY <2>1, <3>2 DEF FinishedTurn, SameBytes
  <2>2. CASE ~(~IsEmpty(p) /\ Remaining(Head(p.chunks)) = 0)
    BY <2>2 DEF FinishedTurn
  <2> QED
    BY <2>1, <2>2
<1>3. Len(q.chunks) \in Nat
  BY QueueType
<1> HIDE DEF S
<1>4. RemoveFinished(q) \in S
  BY <1>1, <1>2, <1>3, FinishedTurnLoop DEF RemoveFinished
<1> QED
  BY <1>4 DEF S

\* A chunk that is not the first leaves the queue: it was used up.
LEMMA DropInside ==
  ASSUME NEW q \in Queue, NEW i \in Nat, i < Len(q.chunks), Remaining(q.chunks[i + 1]) = 0
  PROVE  /\ q.chunks[i + 1] \in ChunkRecord
         /\ SameBytes([q EXCEPT !.chunks = SubSeq(q.chunks, 1, i)
                                            \o SubSeq(q.chunks, i + 2, Len(q.chunks))], q)
<1> DEFINE s == q.chunks
           j == i + 1
           c == s[j]
           a == SubSeq(s, 1, i)
           b == SubSeq(s, i + 1, Len(s))
           d == SubSeq(s, i + 2, Len(s))
           p == [q EXCEPT !.chunks = a \o d]
<1>1. s \in Seq(ChunkRecord) /\ i \in 0 .. Len(s) /\ j \in 1 .. Len(s) /\ Len(s) \in Nat
  BY QueueType
<1>2. c \in ChunkRecord /\ Remaining(c) = 0
  BY <1>1, ElementOfSeq
<1>3. SubSeq(s, 1, i) \in Seq(ChunkRecord) /\ b \in Seq(ChunkRecord) /\ s = a \o b
  <2> HIDE DEF s
  <2> QED
    BY <1>1, SplitAt
<1>4. SubSeq(s, j + 1, Len(s)) \in Seq(ChunkRecord)
  <2> HIDE DEF s, j
  <2> QED
    BY <1>1, SplitAt
<1>5. d \in Seq(ChunkRecord) /\ b = <<c>> \o d
  <2>1. SubSeq(s, j, Len(s)) = <<s[j]>> \o SubSeq(s, j + 1, Len(s))
    <3> HIDE DEF s, j
    <3> QED
      BY <1>1, SubSeqRecursiveFirst
  <2>2. j + 1 = i + 2
    OBVIOUS
  <2> QED
    BY <1>4, <2>1, <2>2
<1> HIDE DEF a, b, c, d, s, j
<1>6. a \in Seq(ChunkRecord)
  BY <1>3 DEF a
<1>7. a \o d \in Seq(ChunkRecord)
  BY <1>5, <1>6, ConcatProperties
<1>8. p \in Queue /\ SameCounts(p, q) /\ p.chunks = a \o d
  <2> DEFINE e == a \o d
  <2>1. e \in Seq(ChunkRecord)
    BY <1>7
  <2> HIDE DEF e
  <2>2. [q EXCEPT !.chunks = e] \in Queue /\ [q EXCEPT !.chunks = e].chunks = e
        /\ SameCounts([q EXCEPT !.chunks = e], q)
    BY <2>1 DEF Queue, SameCounts
  <2> QED
    BY <2>2 DEF e
<1>9. Length(p.chunks) = Length(s)
  <2>1. Length(s) = Length(a) + Length(b) /\ Length(a \o d) = Length(a) + Length(d)
        /\ Length(b) = Remaining(c) + Length(d)
    BY <1>2, <1>3, <1>5, <1>6, LengthConcat, LengthCons
  <2>2. Length(d) \in Int
    BY <1>5, LengthAppend
  <2> QED
    BY <1>2, <1>8, <2>1, <2>2
<1>10. ASSUME Sound(q) PROVE Sound(p) /\ Content(p.chunks) = Content(s)
  <2>1. s \in Seq(SoundChunk)
    BY <1>10 DEF Sound, s
  <2>2. c \in SoundChunk
    BY <1>1, <2>1, ElementOfSeq DEF c
  <2>3. a \in Seq(SoundChunk)
    BY <1>1, <2>1, SplitAt DEF a
  <2>4. SubSeq(s, j + 1, Len(s)) \in Seq(SoundChunk)
    BY <1>1, <2>1, SplitAt
  <2>5. d \in Seq(SoundChunk)
    <3>1. j + 1 = i + 2
      BY DEF j
    <3> QED
      BY <2>4, <3>1 DEF d
  <2>6. a \o d \in Seq(SoundChunk)
    BY <2>3, <2>5, ConcatProperties
  <2>7. Content(s) = Join(Content(a), Content(b)) /\ Content(a \o d) = Join(Content(a), Content(d))
        /\ Content(b) = Join(Unread(c), Content(d))
    BY <1>2, <1>3, <1>5, <1>6, ContentConcat, ContentCons
  <2>8. Unread(c) = <<>>
    BY <1>2, <2>2, UnreadLength
  <2>9. Join(<<>>, Content(d)) = Content(d)
    BY <1>5, ContentAppend, JoinFacts
  <2> QED
    BY <1>8, <2>6, <2>7, <2>8, <2>9 DEF Sound
<1> QED
  BY <1>2, <1>8, <1>9, <1>10 DEF SameBytes, c, s, j, a, d

\* chunkqueue_remove_empty_chunks takes no byte away.
LEMMA RemoveEmptyEffect ==
  ASSUME NEW q \in Queue
  PROVE  SameBytes(RemoveEmpty(q).queue, q)
<1> DEFINE p == RemoveFinished(q)
           begin == [queue |-> p, i |-> 1, crash |-> FALSE]
           S == {s \in [queue : Queue, i : Nat, crash : BOOLEAN] : SameBytes(s.queue, p)}
<1>1. SameBytes(p, q) /\ p \in Queue /\ SameBytes(p, p)
  BY RemoveFinishedEffect DEF SameBytes, SameCounts
<1> HIDE DEF p
<1>2. begin \in S /\ begin.queue = p
  BY <1>1
<1>3. ASSUME NEW s \in S PROVE SweepTurn(s) \in S
  <2> DEFINE c == s.queue.chunks[s.i + 1]
             rest == [s.queue EXCEPT !.chunks = SubSeq(s.queue.chunks, 1, s.i)
                                                  \o SubSeq(s.queue.chunks, s.i + 2, Len(s.queue.chunks))]
             next == [queue |-> PushUnused(rest, c), i |-> s.i + 1,
                      crash |-> s.i + 1 = Len(s.queue.chunks)]
  <2>1. s.queue \in Queue /\ s.i \in Nat /\ s.crash \in BOOLEAN /\ SameBytes(s.queue, p)
        /\ Len(s.queue.chunks) \in Nat
    BY QueueType
  <2>2. CASE s.crash \/ s.i >= Len(s.queue.chunks)
    BY <2>2 DEF SweepTurn
  <2>3. CASE ~(s.crash \/ s.i >= Len(s.queue.chunks)) /\ Remaining(c) # 0
    <3>1. SweepTurn(s) = [s EXCEPT !.i = s.i + 1]
      BY <2>3 DEF SweepTurn
    <3> QED
      BY <2>1, <3>1
  <2>4. CASE ~(s.crash \/ s.i >= Len(s.queue.chunks)) /\ Remaining(c) = 0
    <3>1. SweepTurn(s) = next
      BY <2>4 DEF SweepTurn
    <3>2. s.i < Len(s.queue.chunks)
      BY <2>1, <2>4
    <3>3. c \in ChunkRecord /\ SameBytes(rest, s.queue)
      BY <2>1, <2>4, <3>2, DropInside
    <3> HIDE DEF c, rest
    <3>4. rest \in Queue
      BY <3>3 DEF SameBytes
    <3>5. /\ PushUnused(rest, c) \in Queue /\ PushUnused(rest, c).chunks = rest.chunks
          /\ SameCounts(PushUnused(rest, c), rest)
      BY <3>3, <3>4, PushUnusedEffect
    <3>6. SameBytes(PushUnused(rest, c), rest)
      BY <3>5 DEF SameBytes, Sound
    <3>7. SameBytes(PushUnused(rest, c), p)
      BY <2>1, <3>3, <3>6, SameBytesTransitive
    <3>8. next \in S
      BY <2>1, <3>5, <3>7
    <3> QED
      BY <3>1, <3>8
  <2> QED
    BY <2>2, <2>3, <2>4
<1>4. Len(p.chunks) \in Nat
  BY <1>1, QueueType
<1>5. RemoveEmpty(q) \in S
  <2> HIDE DEF S, begin
  <2>1. Loop(SweepTurn, Len(p.chunks), begin) \in S
    BY <1>2, <1>3, <1>4, SweepTurnLoop
  <2> QED
    BY <1>2, <2>1 DEF RemoveEmpty, p, begin
<1>6. SameBytes(RemoveEmpty(q).queue, p)
  BY <1>5
<1> QED
  BY <1>1, <1>6, SameBytesTransitive

\* What chunkqueue_mark_written has done when `left' bytes are still to be taken
\* off: the others are the first of q.
Taken(s, q, k) ==
  /\ s.queue \in Queue /\ s.left \in Nat /\ SameCounts(s.queue, q)
  /\ Length(s.queue.chunks) = Length(q.chunks) - (k - s.left)
  /\ Sound(q) => /\ Sound(s.queue) /\ s.left <= k
                 /\ \E w \in Seq(Nat) : /\ Len(w) = k - s.left
                                       /\ Content(q.chunks) = Join(w, Content(s.queue.chunks))

WriteStates == [queue : Queue, left : Nat]

\* Nothing is left to do.
Stops(s) == IsEmpty(s.queue) \/ (s.left = 0 /\ Remaining(Head(s.queue.chunks)) # 0)

\* Bytes are taken off the chunk at the head.
LEMMA TakeFromHead ==
  ASSUME NEW q \in Queue, NEW k \in Nat, NEW s \in WriteStates, Taken(s, q, k),
         ~IsEmpty(s.queue), NEW n \in Int, n <= s.left, n <= Remaining(Head(s.queue.chunks)),
         n >= 0 \/ n = Remaining(Head(s.queue.chunks)), Head(s.queue.chunks).offset + n \in Nat
  PROVE  Taken([queue |-> Advance(s.queue, n), left |-> s.left - n], q, k)
<1> DEFINE p == s.queue
           c == Head(p.chunks)
           v == Advance(p, n)
           m == s.left - n
           next == [queue |-> v, left |-> m]
<1>1. /\ p \in Queue /\ s.left \in Nat /\ SameCounts(p, q)
      /\ Length(p.chunks) = Length(q.chunks) - (k - s.left)
  BY DEF Taken
<1>2. v \in Queue /\ SameCounts(v, p) /\ Length(v.chunks) = Length(p.chunks) - n
  BY <1>1, AdvanceEffect
<1>3. Length(q.chunks) \in Int
  BY QueueType
<1>4. m \in Nat /\ Length(v.chunks) = Length(q.chunks) - (k - m)
  BY <1>1, <1>2, <1>3
<1>5. ASSUME Sound(q)
      PROVE  /\ Sound(v) /\ m <= k
             /\ \E w \in Seq(Nat) : Len(w) = k - m /\ Content(q.chunks) = Join(w, Content(v.chunks))
  <2>1. Sound(p) /\ s.left <= k
    BY <1>5 DEF Taken
  <2>2. PICK w \in Seq(Nat) : Len(w) = k - s.left /\ Content(q.chunks) = Join(w, Content(p.chunks))
    BY <1>5 DEF Taken
  <2>3. c \in SoundChunk /\ c.offset \in Nat /\ Remaining(c) \in Nat
    BY <1>1, <2>1, SoundHead, UnreadLength DEF SoundChunk, ChunkRecord
  <2>4. n \in 0 .. Remaining(c)
    BY <2>3
  <2> DEFINE part == SubSeq(Unread(c), 1, n)
  <2>5. /\ Sound(v) /\ part \in Seq(Nat) /\ Len(part) = n
        /\ Content(p.chunks) = Join(part, Content(v.chunks))
    BY <1>1, <2>1, <2>4, AdvanceContent
  <2> HIDE DEF part, v
  <2>6. Content(v.chunks) \in Seq(Nat)
    BY <1>2, QueueType
  <2>7. Join(w, part) \in Seq(Nat) /\ Len(Join(w, part)) = Len(w) + Len(part)
    BY <2>5, JoinFacts
  <2>8. Content(q.chunks) = Join(Join(w, part), Content(v.chunks))
    BY <2>2, <2>5, <2>6, JoinAssociative
  <2>9. Len(Join(w, part)) = k - m /\ m <= k
    BY <1>1, <2>1, <2>2, <2>4, <2>5, <2>7
  <2> QED
    BY <2>5, <2>7, <2>8, <2>9
<1> HIDE DEF m, v, p
<1>6. next.queue = v /\ next.left = m
  OBVIOUS
<1>7. SameCounts(v, q)
  BY <1>1, <1>2 DEF SameCounts
<1> QED
  BY <1>2, <1>4, <1>5, <1>6, <1>7 DEF Taken, p, v, m

\* One turn: a chunk is taken off, or nothing is left to do after it.
LEMMA WriteTurnEffect ==
  ASSUME NEW q \in Queue, NEW k \in Nat, NEW s \in WriteStates, Taken(s, q, k)
  PROVE  /\ WriteTurn(s) \in WriteStates /\ Taken(WriteTurn(s), q, k)
         /\ Stops(s) => WriteTurn(s) = s
         /\ ~Stops(s) => \/ Stops(WriteTurn(s))
                        \/ Len(WriteTurn(s).queue.chunks) = Len(s.queue.chunks) - 1
<1> DEFINE p == s.queue
           c == Head(p.chunks)
           n == Remaining(c)
           u == Advance(p, n)
           v == Advance(p, s.left)
<1>1. p \in Queue /\ s.left \in Nat
  BY DEF WriteStates
<1>2. CASE Stops(s)
  BY <1>2 DEF WriteTurn, Stops
<1>3. CASE ~Stops(s) /\ s.left >= Remaining(c)
  <2> DEFINE t == [queue |-> u, left |-> s.left - n]
  <2>1. c \in ChunkRecord /\ n \in Int /\ ~IsEmpty(p)
    BY <1>1, <1>3, SoundHead, RemainingType DEF Stops
  <2>2. c.offset + n \in Nat
    <3>1. Len(c.data) \in Nat /\ c.offset \in Nat
      BY <2>1, LenProperties DEF ChunkRecord
    <3> HIDE DEF c
    <3> QED
      BY <3>1 DEF Remaining
  <2>3. /\ u \in Queue /\ ~IsEmpty(u) /\ Len(u.chunks) = Len(p.chunks)
        /\ Head(u.chunks) = Moved(c, n) /\ Remaining(Moved(c, n)) = n - n
    BY <1>1, <2>1, <2>2, AdvanceEffect
  <2>4. n <= s.left /\ n <= Remaining(c)
    BY <1>3, <2>1
  <2>5. Taken(t, q, k)
    BY <2>1, <2>2, <2>4, TakeFromHead
  <2>6. WriteTurn(s) = [queue |-> DropFirst(u), left |-> s.left - n]
    BY <1>3 DEF WriteTurn, Stops
  <2> HIDE DEF u, n, c
  <2>7. Remaining(Head(u.chunks)) = 0
    BY <2>1, <2>3
  <2>8. SameBytes(DropFirst(u), u) /\ Len(DropFirst(u).chunks) = Len(u.chunks) - 1
    BY <2>3, <2>7, DropUsedUp
  <2>9. Taken(WriteTurn(s), q, k) /\ WriteTurn(s) \in WriteStates
    <3> DEFINE w == DropFirst(u)
    <3>1. SameBytes(w, u) /\ WriteTurn(s) = [queue |-> w, left |-> s.left - n]
      BY <2>6, <2>8
    <3> HIDE DEF w
    <3>2. t.queue = u /\ t.left = s.left - n
      OBVIOUS
    <3>3. WriteTurn(s).queue = w /\ WriteTurn(s).left = s.left - n
      BY <3>1
    <3> HIDE DEF t
    <3>4. w \in Queue /\ s.left - n \in Nat
      BY <2>5, <3>1, <3>2 DEF SameBytes, Taken
    <3> QED
      BY <2>5, <3>1, <3>2, <3>3, <3>4 DEF Taken, SameBytes, SameCounts, WriteStates
  <2> QED
    BY <1>3, <2>3, <2>6, <2>8, <2>9
<1>4. CASE ~Stops(s) /\ ~(s.left >= Remaining(c))
  <2>1. c \in ChunkRecord /\ n \in Int /\ ~IsEmpty(p) /\ c.offset + s.left \in Nat
    <3>1. c \in ChunkRecord /\ ~IsEmpty(p)
      BY <1>1, <1>4, SoundHead DEF Stops
    <3>2. c.offset \in Nat
      BY <3>1 DEF ChunkRecord
    <3> QED
      BY <1>1, <3>1, <3>2, RemainingType
  <2>2. s.left <= s.left /\ s.left <= Remaining(c) /\ s.left >= 0 /\ s.left \in Int
    BY <1>1, <1>4, <2>1
  <2>3. Taken([queue |-> v, left |-> s.left - s.left], q, k)
    BY <2>1, <2>2, TakeFromHead
  <2>4. /\ v \in Queue /\ ~IsEmpty(v) /\ Head(v.chunks) = Moved(c, s.left)
        /\ Remaining(Moved(c, s.left)) = n - s.left
    BY <1>1, <2>1, <2>2, AdvanceEffect
  <2>5. WriteTurn(s) = [queue |-> v, left |-> 0]
    BY <1>4 DEF WriteTurn, Stops
  <2>6. s.left - s.left = 0 /\ n - s.left # 0
    BY <1>1, <1>4, <2>1
  <2> HIDE DEF v
  <2>7. WriteTurn(s) \in WriteStates /\ WriteTurn(s).queue = v /\ WriteTurn(s).left = 0
    BY <2>4, <2>5 DEF WriteStates
  <2>8. Stops(WriteTurn(s))
    BY <2>4, <2>6, <2>7 DEF Stops
  <2> QED
    BY <1>4, <2>3, <2>5, <2>6, <2>7, <2>8
<1> QED
  BY <1>2, <1>3, <1>4

\* chunkqueue_mark_written, told of no more bytes than there are: the first k go.
LEMMA WrittenEffect ==
  ASSUME NEW q \in Queue, NEW k \in Nat, k <= Length(q.chunks)
  PROVE  /\ Written(q, k) \in Queue /\ SameCounts(Written(q, k), q)
         /\ Length(Written(q, k).chunks) = Length(q.chunks) - k
         /\ Sound(q) => /\ Sound(Written(q, k))
                        /\ Content(q.chunks) = Join(SubSeq(Content(q.chunks), 1, k),
                                                    Content(Written(q, k).chunks))
<1> DEFINE N == Len(q.chunks)
           begin == [queue |-> q, left |-> k]
           S == {s \in WriteStates : Taken(s, q, k)}
           T == {x \in Nat \X S : Stops(x[2]) \/ Len(x[2].queue.chunks) + x[1] <= N}
           end == Loop(WriteTurn, N, begin)
<1>1. N \in Nat /\ Length(q.chunks) \in Int
  BY QueueType
<1>2. begin \in S
  <2>1. begin.queue = q /\ begin.left = k /\ begin \in WriteStates
    BY DEF WriteStates
  <2> HIDE DEF begin
  <2>2. \E w \in Seq(Nat) : Len(w) = k - k /\ Content(q.chunks) = Join(w, Content(q.chunks))
    <3>1. Len(<<>>) = k - k /\ Content(q.chunks) = Join(<<>>, Content(q.chunks)) /\ <<>> \in Seq(Nat)
      BY EmptySeq, QueueType, JoinFacts
    <3> QED
      BY <3>1
  <2>3. Length(q.chunks) = Length(q.chunks) - (k - k)
    BY <1>1
  <2>4. Taken(begin, q, k)
    <3>1. /\ begin.queue \in Queue /\ begin.left \in Nat /\ SameCounts(begin.queue, q)
          /\ Length(begin.queue.chunks) = Length(q.chunks) - (k - begin.left)
      BY <2>1, <2>3 DEF SameCounts
    <3>2. begin.left <= k /\ (Sound(q) => Sound(begin.queue))
      BY <2>1
    <3>3. \E w \in Seq(Nat) : /\ Len(w) = k - begin.left
                              /\ Content(q.chunks) = Join(w, Content(begin.queue.chunks))
      BY <2>1, <2>2
    <3> QED
      BY <3>1, <3>2, <3>3, Zenon DEF Taken
  <2> QED
    BY <2>1, <2>4
<1>3. \A s \in S : WriteTurn(s) \in S
  BY WriteTurnEffect
<1>4. <<0, begin>> \in T
  <2>1. Len(begin.queue.chunks) + 0 <= N
    BY <1>1
  <2> HIDE DEF begin, S
  <2> QED
    BY <1>2, <2>1
<1>5. \A n \in 0 .. N - 1 : \A s \in S : <<n, s>> \in T => <<n + 1, WriteTurn(s)>> \in T
  <2> SUFFICES ASSUME NEW n \in 0 .. N - 1, NEW s \in S, <<n, s>> \in T
               PROVE  <<n + 1, WriteTurn(s)>> \in T
    OBVIOUS
  <2>1. n + 1 \in Nat /\ WriteTurn(s) \in S /\ s.queue \in Queue
    BY <1>1, <1>3 DEF WriteStates
  <2>2. Len(s.queue.chunks) \in Nat
    BY <2>1, QueueType
  <2>3. Stops(s) \/ Len(s.queue.chunks) + n <= N
    OBVIOUS
  <2>4. /\ Stops(s) => WriteTurn(s) = s
        /\ ~Stops(s) => \/ Stops(WriteTurn(s))
                       \/ Len(WriteTurn(s).queue.chunks) = Len(s.queue.chunks) - 1
    BY WriteTurnEffect
  <2>5. Stops(WriteTurn(s)) \/ Len(WriteTurn(s).queue.chunks) + (n + 1) <= N
    <3>1. CASE Stops(s)
      BY <2>4, <3>1
    <3>2. CASE ~Stops(s)
      <4> DEFINE l == Len(s.queue.chunks)
                 m == Len(WriteTurn(s).queue.chunks)
      <4>1. l \in Nat /\ l + n <= N /\ (Stops(WriteTurn(s)) \/ m = l - 1)
        BY <2>2, <2>3, <2>4, <3>2
      <4> HIDE DEF l, m, N
      <4>2. Stops(WriteTurn(s)) \/ m + (n + 1) <= N
        BY <1>1, <4>1
      <4> QED
        BY <4>2 DEF m
    <3> QED
      BY <3>1, <3>2
  <2> HIDE DEF S
  <2> QED
    BY <2>1, <2>5
<1>6. end \in S /\ <<N, end>> \in T
  <2> HIDE DEF S, T, begin
  <2> QED
    BY <1>1, <1>2, <1>3, <1>4, <1>5, WriteTurnLoop
<1>7. Written(q, k) = end.queue
  BY DEF Written
<1> HIDE DEF end, begin
<1>8. /\ end.queue \in Queue /\ end.left \in Nat /\ Taken(end, q, k)
      /\ Stops(end) \/ Len(end.queue.chunks) + N <= N
  BY <1>6 DEF WriteStates
<1>9. end.left = 0
  <2>1. CASE IsEmpty(end.queue)
    <3>1. Length(end.queue.chunks) = 0
      BY <2>1, LengthAppend DEF IsEmpty
    <3>2. Length(end.queue.chunks) = Length(q.chunks) - (k - end.left)
      BY <1>8 DEF Taken
    <3> QED
      BY <1>1, <1>8, <3>1, <3>2
  <2>2. CASE ~IsEmpty(end.queue)
    <3>1. Len(end.queue.chunks) \in Nat \ {0}
      BY <1>8, <2>2, SoundHead
    <3>2. ~(Len(end.queue.chunks) + N <= N)
      <4> DEFINE l == Len(end.queue.chunks)
      <4>1. l \in Nat \ {0}
        BY <3>1
      <4> HIDE DEF l, N
      <4> QED
        BY <1>1, <4>1 DEF l
    <3>3. Stops(end)
      BY <1>8, <3>2
    <3> QED
      BY <2>2, <3>3 DEF Stops
  <2> QED
    BY <2>1, <2>2
<1>10. Length(end.queue.chunks) = Length(q.chunks) - k
  BY <1>1, <1>8, <1>9 DEF Taken
<1>11. ASSUME Sound(q)
       PROVE  /\ Sound(end.queue)
              /\ Content(q.chunks) = Join(SubSeq(Content(q.chunks), 1, k), Content(end.queue.chunks))
  <2>1. PICK w \in Seq(Nat) : /\ Len(w) = k - end.left
                             /\ Content(q.chunks) = Join(w, Content(end.queue.chunks))
    BY <1>8, <1>11 DEF Taken
  <2>2. Len(w) = k
    BY <1>9, <2>1
  <2>3. Content(end.queue.chunks) \in Seq(Nat)
    BY <1>8, QueueType
  <2>4. SubSeq(Content(q.chunks), 1, k) = w
    BY <2>1, <2>2, <2>3, ConcatParts DEF Join
  <2> QED
    BY <1>8, <1>11, <2>1, <2>4 DEF Taken
<1> QED
  BY <1>7, <1>8, <1>10, <1>11 DEF Taken

\* t and f are what became of `to' and `from' when bytes were moved: no queue is
\* out of balance by it, and without an old offset the bytes stay in order.
Moves(t, f, to, from) ==
  /\ t \in Queue /\ f \in Queue
  /\ Balance(t) = Balance(to) /\ Balance(f) = Balance(from)
  /\ f.stale = from.stale /\ t.stale >= to.stale
  /\ t.stale = to.stale /\ Sound(to) /\ Sound(from) =>
       /\ Sound(t) /\ Sound(f)
       /\ Join(Content(t.chunks), Content(f.chunks)) = Join(Content(to.chunks), Content(from.chunks))

LEMMA MovesTransitive ==
  ASSUME NEW a, NEW b, NEW c, NEW d, NEW to \in Queue, NEW from \in Queue,
         Moves(c, d, to, from), Moves(a, b, c, d)
  PROVE  Moves(a, b, to, from)
<1>1. a.stale \in Nat /\ c.stale \in Nat /\ to.stale \in Nat
  BY QueueType DEF Moves
<1>2. a.stale >= c.stale /\ c.stale >= to.stale
  BY DEF Moves
<1>3. a.stale >= to.stale /\ (a.stale = to.stale => a.stale = c.stale /\ c.stale = to.stale)
  BY <1>1, <1>2
<1> QED
  BY <1>3 DEF Moves

\* A chunk that comes to the end of a queue.
LEMMA AppendedEffect ==
  ASSUME NEW q \in Queue, NEW c \in ChunkRecord, NEW p, Appended(p, q, c)
  PROVE  /\ p \in Queue /\ Balance(p) = Balance(q) /\ ~IsEmpty(p)
         /\ Length(p.chunks) = Length(q.chunks) + Remaining(c)
         /\ Content(p.chunks) = Join(Content(q.chunks), Unread(c))
         /\ Sound(q) /\ c \in SoundChunk => Sound(p)
<1>1. /\ p \in Queue /\ p.chunks = Append(q.chunks, c)
      /\ p.bytes_in = q.bytes_in + Remaining(c) /\ p.bytes_out = q.bytes_out
  BY DEF Appended
<1>2. q.chunks \in Seq(ChunkRecord) /\ q.bytes_in \in Int /\ q.bytes_out \in Int /\ Remaining(c) \in Int
  BY QueueType, RemainingType
<1>3. /\ Length(p.chunks) = Length(q.chunks) + Remaining(c) /\ Length(q.chunks) \in Int
      /\ Content(p.chunks) = Join(Content(q.chunks), Unread(c))
  BY <1>1, <1>2, LengthAppend, ContentAppend
<1>4. Balance(p) = Balance(q)
  BY <1>1, <1>2, <1>3 DEF Balance
<1>5. Len(p.chunks) = Len(q.chunks) + 1 /\ Len(q.chunks) \in Nat
  BY <1>1, <1>2, AppendProperties, LenProperties
<1>6. ~IsEmpty(p)
  BY <1>5, EmptySeq DEF IsEmpty
<1>7. Sound(q) /\ c \in SoundChunk => Sound(p)
  BY <1>1, AppendProperties DEF Sound
<1> QED
  BY <1>1, <1>3, <1>4, <1>6, <1>7

\* A whole chunk changes the queue.
LEMMA MoveChunk ==
  ASSUME NEW to \in Queue, NEW from \in Queue, ~IsEmpty(from), NEW f \in Queue,
         f.chunks = Tail(from.chunks), f.bytes_in = from.bytes_in, f.stale = from.stale,
         f.bytes_out = from.bytes_out + Remaining(Head(from.chunks))
  PROVE  /\ Moves(AppendChunk(to, Head(from.chunks)), f, to, from)
         /\ Length(f.chunks) = Length(from.chunks) - Remaining(Head(from.chunks))
<1> DEFINE c == Head(from.chunks)
           t == AppendChunk(to, c)
<1>1. /\ c \in ChunkRecord /\ f.chunks \in Seq(ChunkRecord)
      /\ Length(from.chunks) = Remaining(c) + Length(f.chunks)
      /\ Content(from.chunks) = Join(Unread(c), Content(f.chunks))
      /\ Sound(from) => c \in SoundChunk /\ f.chunks \in Seq(SoundChunk)
  BY SoundHead
<1> HIDE DEF c
<1>2. Appended(t, to, c) /\ t.stale = to.stale /\ to.stale \in Nat
  BY <1>1, AppendChunkEffect, QueueType
<1>3. /\ t \in Queue /\ Balance(t) = Balance(to)
      /\ Content(t.chunks) = Join(Content(to.chunks), Unread(c))
      /\ Sound(to) /\ c \in SoundChunk => Sound(t)
  BY <1>1, <1>2, AppendedEffect
<1> HIDE DEF t
<1>4. Remaining(c) \in Int /\ Length(f.chunks) \in Int
  BY <1>1, RemainingType, LengthAppend
<1>5. Length(f.chunks) = Length(from.chunks) - Remaining(c)
  BY <1>1, <1>4
<1>6. Balance(f) = Balance(from)
  <2>1. from.bytes_in \in Int /\ from.bytes_out \in Int /\ f.bytes_out = from.bytes_out + Remaining(c)
    BY QueueType DEF c
  <2> QED
    BY <1>1, <1>4, <2>1 DEF Balance
<1>7. Join(Content(t.chunks), Content(f.chunks)) = Join(Content(to.chunks), Content(from.chunks))
  <2>1. Content(to.chunks) \in Seq(Nat) /\ Unread(c) \in Seq(Nat) /\ Content(f.chunks) \in Seq(Nat)
    BY <1>1, QueueType, UnreadType
  <2> QED
    BY <1>1, <1>3, <2>1, JoinAssociative
<1> QED
  BY <1>1, <1>2, <1>3, <1>5, <1>6, <1>7 DEF Moves, Sound, t, c

\* A part of the chunk at the head is moved to a new chunk.
LEMMA MovePart ==
  ASSUME NEW to \in Queue, NEW from \in Queue, ~IsEmpty(from),
         NEW k \in Nat \ {0}, k < Remaining(Head(from.chunks)),
         NEW f \in Queue, f.chunks = Advance(from, k).chunks, f.bytes_in = from.bytes_in,
         f.bytes_out = from.bytes_out + k, f.stale = from.stale,
         NEW d \in ChunkRecord, NEW t, Appended(t, to, d),
         \/ t.stale = to.stale + 1
         \/ t.stale = to.stale /\ d \in SoundChunk /\ Unread(d) = SubSeq(Unread(Head(from.chunks)), 1, k)
  PROVE  Moves(t, f, to, from) /\ Length(f.chunks) = Length(from.chunks) - k
<1> DEFINE c == Head(from.chunks)
           part == SubSeq(Unread(c), 1, k)
           v == Advance(from, k)
<1>1. c \in ChunkRecord /\ c.offset + k \in Nat
  <2>1. c \in ChunkRecord
    BY SoundHead
  <2>2. c.offset \in Nat
    BY <2>1 DEF ChunkRecord
  <2> QED
    BY <2>1, <2>2
<1>2. v \in Queue /\ Length(v.chunks) = Length(from.chunks) - k
  BY <1>1, AdvanceEffect
<1>3. /\ t \in Queue /\ Balance(t) = Balance(to)
      /\ Content(t.chunks) = Join(Content(to.chunks), Unread(d))
      /\ Sound(to) /\ d \in SoundChunk => Sound(t)
  BY AppendedEffect
<1>4. Balance(f) = Balance(from) /\ Length(f.chunks) = Length(from.chunks) - k
  <2>1. from.bytes_in \in Int /\ from.bytes_out \in Int /\ Length(from.chunks) \in Int
    BY QueueType
  <2> QED
    BY <1>2, <2>1 DEF Balance
<1>5. ASSUME t.stale = to.stale, Sound(to), Sound(from)
      PROVE  /\ Sound(t) /\ Sound(f)
             /\ Join(Content(t.chunks), Content(f.chunks)) = Join(Content(to.chunks), Content(from.chunks))
  <2>1. d \in SoundChunk /\ Unread(d) = part
    <3>1. to.stale # to.stale + 1
      BY QueueType
    <3> QED
      BY <1>5, <3>1
  <2>2. c \in SoundChunk /\ Remaining(c) \in Nat /\ k \in 0 .. Remaining(c)
    BY <1>5, SoundHead, UnreadLength
  <2>3. Sound(v) /\ part \in Seq(Nat) /\ Content(from.chunks) = Join(part, Content(v.chunks))
    BY <1>5, <2>2, AdvanceContent
  <2> HIDE DEF c, part, v
  <2>4. Sound(f) /\ Content(f.chunks) = Content(v.chunks)
    BY <2>3 DEF Sound, v
  <2>5. Content(to.chunks) \in Seq(Nat) /\ Content(v.chunks) \in Seq(Nat)
    BY <1>2, QueueType
  <2>6. Join(Content(t.chunks), Content(f.chunks)) = Join(Content(to.chunks), Content(from.chunks))
    BY <1>3, <2>1, <2>3, <2>4, <2>5, JoinAssociative
  <2> QED
    BY <1>3, <1>5, <2>1, <2>4, <2>6
<1>6. t.stale >= to.stale
  BY QueueType
<1> QED
  BY <1>3, <1>4, <1>5, <1>6 DEF Moves

\* A new chunk for a part, with the offset cleared or with that of the pool.
LEMMA PartChunk ==
  ASSUME NEW to \in Queue, NEW part \in Seq(Nat)
  PROVE  /\ \E d \in ChunkRecord :
              /\ Appended(AppendFresh(to, Chunk("file", part)), to, d)
              /\ AppendFresh(to, Chunk("file", part)).stale = to.stale
              /\ d \in SoundChunk /\ Unread(d) = part
         /\ \A type \in {"mem", "file"} : \E d \in ChunkRecord :
              /\ Appended(AppendStale(to, Chunk(type, part)), to, d)
              /\ \/ AppendStale(to, Chunk(type, part)).stale = to.stale + 1
                 \/ /\ AppendStale(to, Chunk(type, part)).stale = to.stale
                    /\ d \in SoundChunk /\ Unread(d) = part
<1>1. ASSUME NEW type \in {"mem", "file"}
      PROVE  /\ Chunk(type, part) \in SoundChunk /\ Chunk(type, part) \in ChunkRecord
             /\ Unread(Chunk(type, part)) = part /\ Chunk(type, part).offset = 0
  <2>1. Chunk(type, part) \in SoundChunk /\ Chunk(type, part).data = part /\ Chunk(type, part).offset = 0
    BY ChunkType
  <2> QED
    BY <2>1, UnreadLength DEF SoundChunk
<1>2. \E d \in ChunkRecord :
        /\ Appended(AppendFresh(to, Chunk("file", part)), to, d)
        /\ AppendFresh(to, Chunk("file", part)).stale = to.stale
        /\ d \in SoundChunk /\ Unread(d) = part
  <2> DEFINE d == Chunk("file", part)
  <2>1. d \in SoundChunk /\ d \in ChunkRecord /\ Unread(d) = part
    BY <1>1
  <2> HIDE DEF d
  <2>2. Appended(AppendFresh(to, d), to, d) /\ AppendFresh(to, d).stale = to.stale
    BY <2>1, AppendFreshEffect
  <2> QED
    BY <2>1, <2>2 DEF d
<1>3. ASSUME NEW type \in {"mem", "file"}
      PROVE  \E d \in ChunkRecord :
              /\ Appended(AppendStale(to, Chunk(type, part)), to, d)
              /\ \/ AppendStale(to, Chunk(type, part)).stale = to.stale + 1
                 \/ /\ AppendStale(to, Chunk(type, part)).stale = to.stale
                    /\ d \in SoundChunk /\ Unread(d) = part
  <2> DEFINE c == Chunk(type, part)
  <2>1. c \in SoundChunk /\ c \in ChunkRecord /\ Unread(c) = part /\ c.offset = 0
    BY <1>1
  <2> HIDE DEF c
  <2>2. PICK d \in ChunkRecord :
          /\ Appended(AppendStale(to, c), to, d)
          /\ \/ AppendStale(to, c).stale = to.stale /\ d = c
             \/ AppendStale(to, c).stale = to.stale + 1
    BY <2>1, AppendStaleEffect
  <2>3. \/ AppendStale(to, c).stale = to.stale + 1
        \/ AppendStale(to, c).stale = to.stale /\ d \in SoundChunk /\ Unread(d) = part
    BY <2>1, <2>2
  <2> QED
    BY <2>2, <2>3 DEF c
<1> QED
  BY <1>2, <1>3

StealStates == [to : Queue, from : Queue, left : Nat]

\* A turn of chunkqueue_steal.
LEMMA StealTurnEffect ==
  ASSUME NEW s \in StealStates
  PROVE  StealTurn(s) \in StealStates /\ Moves(StealTurn(s).to, StealTurn(s).from, s.to, s.from)
<1> DEFINE q == s.from
           c == Head(q.chunks)
           r == Remaining(c)
<1>1. s.to \in Queue /\ q \in Queue /\ s.left \in Nat
  BY DEF StealStates
<1>2. ASSUME NEW t, NEW f, NEW n \in Nat, Moves(t, f, s.to, q),
             StealTurn(s) = [to |-> t, from |-> f, left |-> n]
      PROVE  StealTurn(s) \in StealStates /\ Moves(StealTurn(s).to, StealTurn(s).from, s.to, s.from)
  <2>1. t \in Queue /\ f \in Queue
    BY <1>2 DEF Moves
  <2> QED
    BY <1>2, <2>1 DEF StealStates
<1>3. CASE s.left <= 0 \/ IsEmpty(q)
  <2>1. StealTurn(s) = s
    BY <1>3 DEF StealTurn
  <2>2. Moves(s.to, q, s.to, q)
    BY <1>1, QueueType DEF Moves
  <2> QED
    BY <2>1, <2>2
<1>4. CASE ~(s.left <= 0 \/ IsEmpty(q)) /\ r = 0
  <2>1. StealTurn(s) = [s EXCEPT !.from = DropFirst(q)]
    BY <1>4 DEF StealTurn
  <2>2. SameBytes(DropFirst(q), q)
    BY <1>1, <1>4, DropUsedUp
  <2> DEFINE f == DropFirst(q)
  <2>3. StealTurn(s) = [to |-> s.to, from |-> f, left |-> s.left] /\ SameBytes(f, q)
    BY <2>1, <2>2 DEF StealStates
  <2> HIDE DEF f
  <2>4. Moves(s.to, f, s.to, q)
    BY <1>1, <2>3, QueueType DEF Moves, SameBytes, SameCounts, Balance
  <2> QED
    BY <1>1, <1>2, <2>3, <2>4
<1>5. CASE ~(s.left <= 0 \/ IsEmpty(q)) /\ r # 0 /\ s.left >= r
  <2>1. c \in ChunkRecord /\ r \in Int /\ Tail(q.chunks) \in Seq(ChunkRecord)
    BY <1>1, <1>5, SoundHead, RemainingType
  <2> DEFINE t == AppendChunk(s.to, c)
             b == q.bytes_out + r
             h == Tail(q.chunks)
             f == [q EXCEPT !.bytes_out = b, !.chunks = h]
  <2>2. f \in Queue /\ f.chunks = Tail(q.chunks) /\ f.bytes_in = q.bytes_in /\ f.stale = q.stale
        /\ f.bytes_out = q.bytes_out + r
    <3>1. b \in Int /\ h \in Seq(ChunkRecord)
      BY <1>1, <2>1, QueueType
    <3> HIDE DEF b, h
    <3>2. f \in Queue /\ f.chunks = h /\ f.bytes_in = q.bytes_in /\ f.stale = q.stale
          /\ f.bytes_out = b
      BY <1>1, <3>1 DEF Queue
    <3> QED
      BY <3>2 DEF b, h
  <2>3. StealTurn(s) = [to |-> t, from |-> f, left |-> s.left - r]
    BY <1>5 DEF StealTurn
  <2> HIDE DEF f
  <2>4. Moves(t, f, s.to, q)
    BY <1>1, <1>5, <2>2, MoveChunk
  <2>5. s.left - r \in Nat
    BY <1>1, <1>5, <2>1
  <2> HIDE DEF t
  <2> QED
    BY <1>2, <2>3, <2>4, <2>5
<1>6. CASE ~(s.left <= 0 \/ IsEmpty(q)) /\ r # 0 /\ ~(s.left >= r)
  <2>1. c \in ChunkRecord /\ r \in Int /\ s.left \in Nat \ {0} /\ s.left < r
    BY <1>1, <1>6, SoundHead, RemainingType
  <2>2. c \in SoundChunk /\ s.left \in 0 .. r
    <3>1. c.offset \in Nat /\ Len(c.data) \in Nat
      BY <2>1, LenProperties DEF ChunkRecord
    <3> HIDE DEF c
    <3>2. c.offset <= Len(c.data)
      BY <2>1, <3>1 DEF Remaining
    <3> QED
      BY <2>1, <3>2 DEF SoundChunk
  <2> DEFINE part == SubSeq(Unread(c), 1, s.left)
             t == IF c.type = "mem" THEN AppendStale(s.to, Chunk("mem", part))
                                    ELSE AppendFresh(s.to, Chunk("file", part))
             b == q.bytes_out + s.left
             p == [q EXCEPT !.bytes_out = b]
             f == Advance(p, s.left)
  <2>3. part \in Seq(Nat) /\ SubSeq(c.data, c.offset + 1, c.offset + s.left) = part
    BY <2>2, UnreadSplit
  <2>4. StealTurn(s) = [to |-> t, from |-> f, left |-> 0]
    <3>1. s.left # r
      BY <2>1
    <3> HIDE DEF part
    <3> QED
      BY <1>6, <2>3, <3>1 DEF StealTurn
  <2>5. p \in Queue /\ p.chunks = q.chunks /\ p.bytes_in = q.bytes_in /\ p.bytes_out = b
        /\ p.stale = q.stale
    <3>1. b \in Int
      BY <1>1, QueueType
    <3> HIDE DEF b
    <3> QED
      BY <1>1, <3>1 DEF Queue
  <2>6. c.offset + s.left \in Nat
    <3>1. c.offset \in Nat
      BY <2>1 DEF ChunkRecord
    <3> QED
      BY <2>1, <3>1
  <2>7. f \in Queue /\ SameCounts(f, p)
    <3> HIDE DEF p
    <3> QED
      BY <1>6, <2>1, <2>5, <2>6, AdvanceEffect DEF IsEmpty
  <2>8. f.chunks = Advance(q, s.left).chunks
    BY <1>1 DEF Advance, Queue
  <2>9. PICK d \in ChunkRecord :
          /\ Appended(t, s.to, d)
          /\ t.stale = s.to.stale + 1 \/ (t.stale = s.to.stale /\ d \in SoundChunk /\ Unread(d) = part)
    <3> HIDE DEF part
    <3>1. CASE c.type = "mem"
      BY <1>1, <2>3, <3>1, PartChunk
    <3>2. CASE c.type # "mem"
      BY <1>1, <2>3, <3>2, PartChunk
    <3> QED
      BY <3>1, <3>2
  <2> HIDE DEF f, p, t
  <2>10. /\ f.bytes_in = q.bytes_in /\ f.bytes_out = q.bytes_out + s.left /\ f.stale = q.stale
    BY <2>5, <2>7 DEF SameCounts
  <2>11. Moves(t, f, s.to, q)
    BY <1>1, <1>6, <2>1, <2>7, <2>8, <2>9, <2>10, MovePart
  <2> QED
    BY <1>2, <2>4, <2>11
<1> QED
  BY <1>3, <1>4, <1>5, <1>6

\* chunkqueue_steal.
LEMMA StealEffect ==
  ASSUME NEW to \in Queue, NEW from \in Queue, NEW k \in Nat
  PROVE  Moves(Steal(to, from, k).to, Steal(to, from, k).from, to, from)
<1> DEFINE begin == [to |-> to, from |-> from, left |-> k]
           S == {s \in StealStates : Moves(s.to, s.from, to, from)}
<1>1. begin \in S
  <2>1. Moves(to, from, to, from)
    BY QueueType DEF Moves
  <2>2. begin \in StealStates /\ begin.to = to /\ begin.from = from
    BY DEF StealStates
  <2> HIDE DEF begin
  <2> QED
    BY <2>1, <2>2
<1>2. \A s \in S : StealTurn(s) \in S
  <2> TAKE s \in S
  <2>1. StealTurn(s) \in StealStates /\ Moves(StealTurn(s).to, StealTurn(s).from, s.to, s.from)
    BY StealTurnEffect
  <2>2. Moves(StealTurn(s).to, StealTurn(s).from, to, from)
    BY <2>1, MovesTransitive
  <2> QED
    BY <2>1, <2>2
<1>3. Len(from.chunks) \in Nat
  BY QueueType
<1> HIDE DEF S, begin
<1>4. Steal(to, from, k) \in S
  BY <1>1, <1>2, <1>3, StealTurnLoop DEF Steal, begin
<1> QED
  BY <1>4 DEF S

\* chunkqueue_mark_written.
LEMMA MarkWrittenEffect ==
  ASSUME NEW q \in Queue, NEW k \in Nat, k <= Length(q.chunks)
  PROVE  /\ MarkWritten(q, k) \in Queue /\ Balance(MarkWritten(q, k)) = Balance(q)
         /\ MarkWritten(q, k).stale = q.stale
         /\ Sound(q) => /\ Sound(MarkWritten(q, k))
                        /\ Content(q.chunks) = Join(SubSeq(Content(q.chunks), 1, k),
                                                    Content(MarkWritten(q, k).chunks))
<1> DEFINE v == Written(q, k)
           b == v.bytes_out + k
           p == [v EXCEPT !.bytes_out = b]
<1>1. v \in Queue /\ SameCounts(v, q) /\ Length(v.chunks) = Length(q.chunks) - k
  BY WrittenEffect
<1>2. b \in Int /\ q.bytes_in \in Int /\ q.bytes_out \in Int /\ Length(q.chunks) \in Int
  BY <1>1, QueueType
<1>3. MarkWritten(q, k) = p
  BY DEF MarkWritten
<1>4. p \in Queue /\ p.chunks = v.chunks /\ p.bytes_in = v.bytes_in /\ p.bytes_out = b /\ p.stale = v.stale
  <2> HIDE DEF b, v
  <2> QED
    BY <1>1, <1>2 DEF Queue
<1>5. v.bytes_in = q.bytes_in /\ v.bytes_out = q.bytes_out /\ v.stale = q.stale
  BY <1>1 DEF SameCounts
<1> HIDE DEF p
<1>6. Balance(p) = Balance(q)
  <2> HIDE DEF v
  <2> QED
    BY <1>1, <1>2, <1>4, <1>5 DEF Balance
<1>7. ASSUME Sound(q)
      PROVE  Sound(p) /\ Content(q.chunks) = Join(SubSeq(Content(q.chunks), 1, k), Content(p.chunks))
  BY <1>4, <1>7, WrittenEffect DEF Sound
<1> QED
  BY <1>3, <1>4, <1>5, <1>6, <1>7

\* The last chunk becomes another one.
LEMMA LastChangedEffect ==
  ASSUME NEW q \in Queue, ~IsEmpty(q), NEW d \in ChunkRecord,
         NEW p \in Queue, p.chunks = [q.chunks EXCEPT ![Len(q.chunks)] = d]
  PROVE  /\ LastChunk(q) \in ChunkRecord /\ ~IsEmpty(p)
         /\ Sound(q) => LastChunk(q) \in SoundChunk
         /\ Length(p.chunks) = Length(q.chunks) - Remaining(LastChunk(q)) + Remaining(d)
         /\ Sound(q) /\ d \in SoundChunk => Sound(p)
         /\ \E w \in Seq(Nat) : /\ Content(q.chunks) = Join(w, Unread(LastChunk(q)))
                               /\ Content(p.chunks) = Join(w, Unread(d))
<1> DEFINE s == q.chunks
           n == Len(s)
           c == s[n]
           a == SubSeq(s, 1, n - 1)
           t == [s EXCEPT ![n] = d]
<1>1. s \in Seq(ChunkRecord) /\ s # <<>>
  BY QueueType DEF IsEmpty
<1>2. /\ c \in ChunkRecord /\ a \in Seq(ChunkRecord) /\ Len(a) = n - 1 /\ n \in Nat \ {0}
      /\ s = Append(a, c)
  <2> HIDE DEF s
  <2> QED
    BY <1>1, FrontAndLast
<1>3. c = LastChunk(q)
  BY DEF LastChunk
<1>4. t = Append(a, d)
  <2>1. /\ Append(a, d) \in Seq(ChunkRecord) /\ Len(Append(a, d)) = n /\ Append(a, d)[n] = d
        /\ \A i \in 1 .. n - 1 : Append(a, d)[i] = a[i]
    <3> HIDE DEF a, n
    <3>1. n - 1 + 1 = n
      BY <1>2
    <3> QED
      BY <1>2, <3>1, AppendProperties
  <2>2. /\ s[n] = c /\ \A i \in 1 .. n - 1 : s[i] = a[i]
    <3> HIDE DEF a, c
    <3>1. Append(a, c)[Len(a) + 1] = c /\ \A i \in 1 .. Len(a) : Append(a, c)[i] = a[i]
      BY <1>2, AppendProperties
    <3> HIDE DEF n, s
    <3> QED
      BY <1>2, <3>1 DEF c
  <2>3. t \in Seq(ChunkRecord) /\ Len(t) = n /\ \A i \in 1 .. n : t[i] = IF i = n THEN d ELSE s[i]
    <3>1. n \in 1 .. Len(s)
      BY <1>2
    <3> HIDE DEF s, n
    <3>2. t \in Seq(ChunkRecord) /\ Len(t) = Len(s)
          /\ \A i \in 1 .. Len(s) : t[i] = IF i = n THEN d ELSE s[i]
      BY <1>1, <1>2, <3>1, ExceptSeq
    <3> QED
      BY <3>2 DEF n
  <2>4. \A i \in 1 .. n : t[i] = Append(a, d)[i]
    <3> TAKE i \in 1 .. n
    <3> HIDE DEF t, a, s, n
    <3>1. i = n \/ i \in 1 .. n - 1
      BY <1>2
    <3>2. CASE i = n
      BY <2>1, <2>3, <3>2
    <3>3. CASE i \in 1 .. n - 1
      <4>1. i # n
        BY <1>2, <3>3
      <4> QED
        BY <2>1, <2>2, <2>3, <3>3, <4>1
    <3> QED
      BY <3>1, <3>2, <3>3
  <2> HIDE DEF t, a, s, n
  <2> QED
    BY <2>1, <2>3, <2>4, SeqEqual
<1>5. p.chunks = Append(a, d)
  BY <1>4
<1> HIDE DEF s, a, c
<1>6. /\ Length(s) = Length(a) + Remaining(c) /\ Length(p.chunks) = Length(a) + Remaining(d)
      /\ Length(a) \in Int /\ Remaining(c) \in Int /\ Remaining(d) \in Int
  BY <1>2, <1>5, LengthAppend, RemainingType
<1>7. Length(p.chunks) = Length(s) - Remaining(c) + Remaining(d)
  BY <1>6
<1>8. /\ Content(s) = Join(Content(a), Unread(c)) /\ Content(p.chunks) = Join(Content(a), Unread(d))
      /\ Content(a) \in Seq(Nat)
  BY <1>2, <1>5, ContentAppend
<1>9. ASSUME Sound(q) PROVE c \in SoundChunk /\ (d \in SoundChunk => Sound(p))
  <2>1. s \in Seq(SoundChunk)
    BY <1>9 DEF Sound, s
  <2>2. c \in SoundChunk /\ a \in Seq(SoundChunk)
    BY <1>1, <2>1, FrontAndLast DEF c, a
  <2>3. ASSUME d \in SoundChunk PROVE Append(a, d) \in Seq(SoundChunk)
    BY <2>2, <2>3, AppendProperties
  <2> QED
    BY <1>5, <2>2, <2>3 DEF Sound
<1>10. ~IsEmpty(p)
  <2>1. Len(Append(a, d)) = Len(a) + 1 /\ Len(a) \in Nat
    BY <1>2, AppendProperties, LenProperties
  <2> QED
    BY <1>5, <2>1, EmptySeq DEF IsEmpty
<1> QED
  BY <1>2, <1>3, <1>7, <1>8, <1>9, <1>10 DEF s

\* The fd of the last file is closed: no byte moves.
LEMMA CloseLastEffect ==
  ASSUME NEW q \in Queue, ~IsEmpty(q)
  PROVE  SameBytes(CloseLast(q), q) /\ ~IsEmpty(CloseLast(q))
<1> DEFINE c == LastChunk(q)
           d == [c EXCEPT !.open = FALSE]
           t == [q.chunks EXCEPT ![Len(q.chunks)] = d]
           p == [q EXCEPT !.chunks = t]
<1>1. q.chunks \in Seq(ChunkRecord) /\ Len(q.chunks) \in 1 .. Len(q.chunks) /\ c \in ChunkRecord
  <2>1. q.chunks \in Seq(ChunkRecord) /\ q.chunks # <<>>
    BY QueueType DEF IsEmpty
  <2> QED
    BY <2>1, FrontAndLast DEF LastChunk
<1>2. d \in ChunkRecord /\ d.data = c.data /\ d.offset = c.offset
  <2> HIDE DEF c
  <2> QED
    BY <1>1 DEF ChunkRecord
<1>3. CloseLast(q) = p
  <2>1. Len(q.chunks) \in DOMAIN q.chunks
    BY <1>1, LenProperties
  <2> QED
    BY <2>1 DEF CloseLast, LastChunk
<1> HIDE DEF d
<1>4. t \in Seq(ChunkRecord)
  BY <1>1, <1>2, ExceptSeq
<1> HIDE DEF t
<1>5. p \in Queue /\ p.chunks = t /\ SameCounts(p, q)
  BY <1>4 DEF Queue, SameCounts
<1>6. p.chunks = [q.chunks EXCEPT ![Len(q.chunks)] = d]
  BY <1>5 DEF t
<1> HIDE DEF p, c
<1>7. Remaining(d) = Remaining(c) /\ Unread(d) = Unread(c) /\ Remaining(c) \in Int
  BY <1>1, <1>2, RemainingType DEF Remaining, Unread
<1>8. /\ ~IsEmpty(p) /\ Length(p.chunks) = Length(q.chunks) - Remaining(c) + Remaining(d)
      /\ \E w \in Seq(Nat) : /\ Content(q.chunks) = Join(w, Unread(c))
                            /\ Content(p.chunks) = Join(w, Unread(d))
  BY <1>2, <1>5, <1>6, LastChangedEffect DEF c
<1>9. ASSUME Sound(q) PROVE Sound(p)
  <2>1. c \in SoundChunk
    BY <1>2, <1>5, <1>6, <1>9, LastChangedEffect DEF c
  <2>2. d \in SoundChunk
    BY <1>2, <2>1 DEF SoundChunk
  <2> QED
    BY <1>2, <1>5, <1>6, <1>9, <2>2, LastChangedEffect
<1>10. Length(p.chunks) = Length(q.chunks)
  <2>1. Length(q.chunks) \in Int
    BY QueueType
  <2> QED
    BY <1>7, <1>8, <2>1
<1> QED
  BY <1>3, <1>5, <1>7, <1>8, <1>9, <1>10 DEF SameBytes

\* Bytes come to the end of the last chunk.
LEMMA UseMemoryEffect ==
  ASSUME NEW q \in Queue, ~IsEmpty(q), NEW x \in Seq(Nat)
  PROVE  /\ UseMemory(q, x) \in Queue /\ Balance(UseMemory(q, x)) = Balance(q)
         /\ UseMemory(q, x).stale = q.stale /\ ~IsEmpty(UseMemory(q, x))
         /\ Sound(q) => /\ Sound(UseMemory(q, x))
                        /\ Content(UseMemory(q, x).chunks) = Join(Content(q.chunks), x)
<1> DEFINE c == LastChunk(q)
           y == c.data \o x
           d == [c EXCEPT !.data = y]
           t == [q.chunks EXCEPT ![Len(q.chunks)] = d]
           b == q.bytes_in + Len(x)
           p == [q EXCEPT !.chunks = t, !.bytes_in = b]
<1>1. q.chunks \in Seq(ChunkRecord) /\ Len(q.chunks) \in 1 .. Len(q.chunks) /\ c \in ChunkRecord
  <2>1. q.chunks \in Seq(ChunkRecord) /\ q.chunks # <<>>
    BY QueueType DEF IsEmpty
  <2> QED
    BY <2>1, FrontAndLast DEF LastChunk
<1>2. /\ c.data \in Seq(Nat) /\ c.offset \in Nat /\ Len(c.data) \in Nat /\ Len(x) \in Nat
      /\ y \in Seq(Nat) /\ Len(y) = Len(c.data) + Len(x)
  <2>1. c.data \in Seq(Nat) /\ c.offset \in Nat
    BY <1>1 DEF ChunkRecord
  <2> HIDE DEF c
  <2> QED
    BY <2>1, LenProperties, ConcatProperties
<1>3. UseMemory(q, x) = p
  <2>1. Len(q.chunks) \in DOMAIN q.chunks
    BY <1>1, LenProperties
  <2> QED
    BY <2>1 DEF UseMemory, LastChunk
<1>4. d \in ChunkRecord /\ d.data = y /\ d.offset = c.offset
  <2> HIDE DEF c, y
  <2> QED
    BY <1>1, <1>2 DEF ChunkRecord
<1> HIDE DEF d
<1>5. t \in Seq(ChunkRecord) /\ b \in Int
  BY <1>1, <1>2, <1>4, QueueType, ExceptSeq
<1> HIDE DEF t, b
<1>6. p \in Queue /\ p.chunks = t /\ p.bytes_in = b /\ p.bytes_out = q.bytes_out /\ p.stale = q.stale
  BY <1>5 DEF Queue
<1>7. p.chunks = [q.chunks EXCEPT ![Len(q.chunks)] = d]
  BY <1>6 DEF t
<1> HIDE DEF p, c, y
<1>8. Remaining(d) = Remaining(c) + Len(x) /\ Remaining(c) \in Int
  <2>1. Remaining(d) = Len(y) - c.offset
    BY <1>4 DEF Remaining
  <2> QED
    BY <1>2, <2>1 DEF Remaining
<1>9. /\ ~IsEmpty(p) /\ Length(p.chunks) = Length(q.chunks) - Remaining(c) + Remaining(d)
  BY <1>4, <1>6, <1>7, LastChangedEffect DEF c
<1>10. Balance(p) = Balance(q)
  <2>1. Length(q.chunks) \in Int /\ q.bytes_in \in Int /\ q.bytes_out \in Int
    BY QueueType
  <2>2. Length(p.chunks) = Length(q.chunks) + Len(x)
    BY <1>2, <1>8, <1>9, <2>1
  <2>3. p.bytes_in = q.bytes_in + Len(x)
    BY <1>6 DEF b
  <2> QED
    BY <1>2, <1>6, <2>1, <2>2, <2>3 DEF Balance
<1>11. ASSUME Sound(q) PROVE Sound(p) /\ Content(p.chunks) = Join(Content(q.chunks), x)
  <2>1. c \in SoundChunk
    BY <1>4, <1>6, <1>7, <1>11, LastChangedEffect DEF c
  <2>2. c.offset <= Len(c.data)
    BY <2>1 DEF SoundChunk
  <2>3. d \in SoundChunk
    <3>1. d.offset <= Len(d.data)
      BY <1>2, <1>4, <2>2
    <3> QED
      BY <1>4, <3>1 DEF SoundChunk
  <2>4. Unread(d) = Join(Unread(c), x)
    <3> DEFINE o == c.offset
               a == SubSeq(c.data, 1, o)
               u == SubSeq(c.data, o + 1, Len(c.data))
    <3>1. o \in 0 .. Len(c.data)
      BY <1>2, <2>2
    <3> HIDE DEF o
    <3>2. a \in Seq(Nat) /\ Len(a) = o /\ u \in Seq(Nat) /\ c.data = a \o u
      BY <1>2, <3>1, SplitAt
    <3> HIDE DEF a, u
    <3>3. y = a \o (u \o x) /\ u \o x \in Seq(Nat)
      BY <3>2, ConcatAssociative, ConcatProperties DEF y
    <3> DEFINE z == u \o x
    <3>4. z \in Seq(Nat) /\ y = a \o z
      BY <3>3
    <3> HIDE DEF z
    <3>5. SubSeq(y, o + 1, Len(y)) = z
      BY <3>2, <3>4, ConcatParts
    <3>6. Unread(d) = z
      BY <1>4, <3>5 DEF Unread, o
    <3>7. Unread(c) = u
      BY DEF Unread, u, o
    <3> QED
      BY <3>6, <3>7 DEF z, Join
  <2>5. PICK w \in Seq(Nat) : /\ Content(q.chunks) = Join(w, Unread(c))
                             /\ Content(p.chunks) = Join(w, Unread(d))
    BY <1>4, <1>6, <1>7, LastChangedEffect DEF c
  <2>6. Unread(c) \in Seq(Nat)
    BY <1>1, UnreadType
  <2>7. Content(p.chunks) = Join(Content(q.chunks), x)
    BY <2>4, <2>5, <2>6, JoinAssociative
  <2>8. Sound(p)
    BY <1>4, <1>6, <1>7, <1>11, <2>3, LastChangedEffect
  <2> QED
    BY <2>7, <2>8
<1> QED
  BY <1>3, <1>6, <1>9, <1>10, <1>11

\* What is behind the first k.
Rest(s, k) == SubSeq(s, k + 1, Len(s))

\* k bytes of the chunk at the head were copied and are consumed.
LEMMA ConsumedEffect ==
  ASSUME NEW q \in Queue, ~IsEmpty(q), NEW k \in Nat, k <= Remaining(Head(q.chunks))
  PROVE  /\ Consumed(q, k) \in Queue /\ Balance(Consumed(q, k)) = Balance(q)
         /\ Consumed(q, k).stale = q.stale /\ Length(Consumed(q, k).chunks) = Length(q.chunks) - k
         /\ Sound(q) => /\ Sound(Consumed(q, k)) /\ k \in 0 .. Len(Content(q.chunks))
                        /\ SubSeq(Content(q.chunks), 1, k) = SubSeq(Unread(Head(q.chunks)), 1, k)
                        /\ Content(Consumed(q, k).chunks) = Rest(Content(q.chunks), k)
<1> DEFINE c == Head(q.chunks)
           b == q.bytes_out + k
           r == [q EXCEPT !.bytes_out = b]
           v == Advance(r, k)
           w == Consumed(q, k)
<1>1. b \in Int /\ q.bytes_in \in Int /\ q.bytes_out \in Int /\ Length(q.chunks) \in Int
  BY QueueType
<1>2. r \in Queue /\ r.chunks = q.chunks /\ r.bytes_in = q.bytes_in /\ r.bytes_out = b /\ r.stale = q.stale
  <2> HIDE DEF b
  <2> QED
    BY <1>1 DEF Queue
<1>3. c \in ChunkRecord /\ Remaining(c) \in Int /\ c.offset + k \in Nat
  <2>1. c \in ChunkRecord
    BY SoundHead
  <2>2. c.offset \in Nat
    BY <2>1 DEF ChunkRecord
  <2> QED
    BY <2>1, <2>2, RemainingType
<1>4. w = IF k = Remaining(c) THEN DropFirst(r) ELSE v
  BY <1>2 DEF Consumed
<1> HIDE DEF r, b, c
<1>5. ~IsEmpty(r) /\ Head(r.chunks) = c
  BY <1>2 DEF IsEmpty, c
<1>6. /\ v \in Queue /\ SameCounts(v, r) /\ ~IsEmpty(v) /\ Length(v.chunks) = Length(q.chunks) - k
      /\ Head(v.chunks) = Moved(c, k) /\ Tail(v.chunks) = Tail(q.chunks)
      /\ Remaining(Moved(c, k)) = Remaining(c) - k
  <2> DEFINE h == Head(r.chunks)
  <2>1. k \in Int /\ h.offset + k \in Nat /\ r \in Queue
    BY <1>2, <1>3, <1>5
  <2>2. /\ v \in Queue /\ SameCounts(v, r) /\ ~IsEmpty(v) /\ Length(v.chunks) = Length(r.chunks) - k
        /\ Head(v.chunks) = Moved(h, k) /\ Tail(v.chunks) = Tail(r.chunks)
        /\ Remaining(Moved(h, k)) = Remaining(h) - k
    BY <1>5, <2>1, AdvanceEffect
  <2> HIDE DEF v, h
  <2> QED
    BY <1>2, <1>5, <2>2 DEF h
<1>7. /\ w \in Queue /\ SameCounts(w, r) /\ Length(w.chunks) = Length(v.chunks)
      /\ Sound(v) => Sound(w) /\ Content(w.chunks) = Content(v.chunks)
  <2>1. CASE k # Remaining(c)
    BY <1>4, <1>6, <2>1
  <2>2. CASE k = Remaining(c)
    <3>1. w = DropFirst(r)
      BY <1>4, <2>2
    <3>2. w \in Queue /\ SameCounts(w, r) /\ w.chunks = Tail(q.chunks)
      BY <1>2, <1>5, <3>1, DropFirstEffect
    <3>3. Remaining(Head(v.chunks)) = 0
      BY <1>3, <1>6, <2>2
    <3> HIDE DEF v, w
    <3>4. SameBytes(DropFirst(v), v) /\ DropFirst(v).chunks = Tail(v.chunks)
      BY <1>6, <3>3, DropUsedUp, DropFirstEffect
    <3>5. DropFirst(v).chunks = w.chunks
      BY <1>6, <3>2, <3>4
    <3> QED
      BY <3>2, <3>4, <3>5 DEF SameBytes, Sound
  <2> QED
    BY <2>1, <2>2
<1> HIDE DEF v, w
<1>8. Balance(w) = Balance(q)
  <2>1. w.bytes_in = q.bytes_in /\ w.bytes_out = q.bytes_out + k
    BY <1>2, <1>7 DEF SameCounts, b
  <2> QED
    BY <1>1, <1>6, <1>7, <2>1 DEF Balance
<1>9. ASSUME Sound(q)
      PROVE  /\ Sound(w) /\ k \in 0 .. Len(Content(q.chunks))
             /\ SubSeq(Content(q.chunks), 1, k) = SubSeq(Unread(c), 1, k)
             /\ Content(w.chunks) = Rest(Content(q.chunks), k)
  <2>1. Sound(r) /\ k \in 0 .. Remaining(Head(r.chunks))
    BY <1>2, <1>3, <1>5, <1>9 DEF Sound, c
  <2> DEFINE part == SubSeq(Unread(c), 1, k)
  <2>2. /\ Sound(v) /\ part \in Seq(Nat) /\ Len(part) = k
        /\ Content(q.chunks) = Join(part, Content(v.chunks))
    BY <1>2, <1>5, <2>1, AdvanceContent DEF v
  <2> HIDE DEF part
  <2>3. Sound(w) /\ Content(w.chunks) = Content(v.chunks) /\ Content(v.chunks) \in Seq(Nat)
    BY <1>6, <1>7, <2>2, QueueType
  <2>4. SubSeq(Content(q.chunks), 1, k) = part /\ Rest(Content(q.chunks), k) = Content(v.chunks)
    BY <2>2, <2>3, ConcatParts DEF Join, Rest
  <2>5. k \in 0 .. Len(Content(q.chunks))
    <3>1. Len(Content(q.chunks)) = k + Len(Content(v.chunks))
      BY <2>2, <2>3, JoinFacts
    <3>2. Len(Content(v.chunks)) \in Nat
      BY <2>3, LenProperties
    <3> QED
      BY <3>1, <3>2
  <2> QED
    BY <2>3, <2>4, <2>5 DEF part
<1> QED
  BY <1>2, <1>6, <1>7, <1>8, <1>9 DEF SameCounts, w, c

\* chunkqueue_reset.
LEMMA ResetEffect ==
  ASSUME NEW q \in Queue
  PROVE  /\ ResetQueue(q) \in Queue /\ Balance(ResetQueue(q)) = 0 /\ ResetQueue(q).stale = q.stale
         /\ Sound(ResetQueue(q)) /\ Content(ResetQueue(q).chunks) = <<>>
<1> DEFINE pool == IF IsEmpty(q) THEN q.pool ELSE PushUnused(q, Head(q.chunks)).pool
           nothing == <<>>
           p == [chunks |-> nothing, pool |-> pool, bytes_in |-> 0, bytes_out |-> 0, stale |-> q.stale]
<1>1. pool \in Seq(Nat)
  <2>1. CASE IsEmpty(q)
    BY <2>1, QueueType
  <2>2. CASE ~IsEmpty(q)
    BY <2>2, SoundHead, PushUnusedEffect, QueueType
  <2> QED
    BY <2>1, <2>2
<1>2. q.stale \in Nat /\ nothing \in Seq(ChunkRecord) /\ nothing \in Seq(SoundChunk)
  BY QueueType, EmptySeq
<1>3. ResetQueue(q) = p
  <2>1. ResetQueue(q) = [EmptyQueue EXCEPT !.stale = q.stale, !.pool = pool]
    BY DEF ResetQueue
  <2>2. EmptyQueue = [chunks |-> nothing, pool |-> nothing, bytes_in |-> 0, bytes_out |-> 0, stale |-> 0]
    BY DEF EmptyQueue
  <2> HIDE DEF pool, nothing
  <2> QED
    BY <2>1, <2>2
<1>4. Length(nothing) = 0 /\ Content(nothing) = <<>>
  BY LengthAppend, ContentAppend
<1> HIDE DEF pool, nothing
<1>5. p \in Queue
  BY <1>1, <1>2 DEF Queue
<1>6. Balance(p) = 0
  BY <1>4 DEF Balance
<1> QED
  BY <1>2, <1>3, <1>4, <1>5, <1>6 DEF Sound

\* There are as many bytes as the length says, or more where an offset is wrong.
LEMMA UnreadAtLeast ==
  ASSUME NEW c \in ChunkRecord
  PROVE  Unread(c) \in Seq(Nat) /\ Len(Unread(c)) \in Nat /\ Remaining(c) <= Len(Unread(c))
<1>1. Unread(c) \in Seq(Nat) /\ Len(Unread(c)) \in Nat
  BY UnreadType, LenProperties
<1>2. c.offset \in Nat /\ Len(c.data) \in Nat
  BY LenProperties DEF ChunkRecord
<1>3. CASE c.offset <= Len(c.data)
  <2>1. c \in SoundChunk
    BY <1>3 DEF SoundChunk
  <2> QED
    BY <1>1, <2>1, UnreadLength
<1>4. CASE ~(c.offset <= Len(c.data))
  BY <1>1, <1>2, <1>4 DEF Remaining
<1> QED
  BY <1>1, <1>3, <1>4

LEMMA ContentAtLeast ==
  ASSUME NEW s \in Seq(ChunkRecord)
  PROVE  Length(s) <= Len(Content(s))
<1> DEFINE E == {n \in 0 .. Len(s) : \A u \in Seq(ChunkRecord) :
                  Len(u) = n => Length(u) <= Len(Content(u))}
<1>0. Len(s) \in Nat
  BY LenProperties
<1>1. 0 \in E
  <2>1. \A u \in Seq(ChunkRecord) : Len(u) = 0 => u = <<>>
    BY EmptySeq
  <2>2. Length(<<>>) <= Len(Content(<<>>))
    BY ContentAppend, LengthAppend, EmptySeq
  <2> QED
    BY <1>0, <2>1, <2>2
<1>2. ASSUME NEW n \in 0 .. Len(s) - 1, n \in E PROVE n + 1 \in E
  <2>0. n + 1 \in 0 .. Len(s) /\ n \in Nat
    BY <1>0
  <2> SUFFICES ASSUME NEW u \in Seq(ChunkRecord), Len(u) = n + 1
               PROVE  Length(u) <= Len(Content(u))
    BY <2>0
  <2> DEFINE v == SubSeq(u, 1, Len(u) - 1)
             c == u[Len(u)]
  <2>1. u # <<>>
    BY <2>0, EmptySeq
  <2>2. v \in Seq(ChunkRecord) /\ c \in ChunkRecord /\ Len(v) = Len(u) - 1 /\ u = Append(v, c)
    BY <2>1, FrontAndLast
  <2> HIDE DEF v, c
  <2>3. Len(v) = n
    BY <2>0, <2>2
  <2>4. Length(v) <= Len(Content(v)) /\ Length(v) \in Int
    BY <1>2, <2>2, <2>3, LengthAppend
  <2>5. Content(u) = Join(Content(v), Unread(c)) /\ Length(u) = Length(v) + Remaining(c)
    BY <2>2, ContentAppend, LengthAppend
  <2>6. Content(v) \in Seq(Nat) /\ Len(Content(v)) \in Nat /\ Remaining(c) \in Int
    BY <2>2, ContentAppend, LenProperties, RemainingType
  <2>7. Unread(c) \in Seq(Nat) /\ Len(Unread(c)) \in Nat /\ Remaining(c) <= Len(Unread(c))
    BY <2>2, UnreadAtLeast
  <2>8. Len(Content(u)) = Len(Content(v)) + Len(Unread(c))
    BY <2>5, <2>6, <2>7, JoinFacts
  <2> QED
    BY <2>4, <2>5, <2>6, <2>7, <2>8
<1>3. Len(s) \in E
  <2> HIDE DEF E
  <2>1. \A n \in 0 .. Len(s) : n \in E
    BY <1>0, <1>1, <1>2, InductionUpTo
  <2> QED
    BY <1>0, <2>1
<1> QED
  BY <1>0, <1>3

\* A queue with a length has a chunk.
LEMMA NotEmpty ==
  ASSUME NEW q \in Queue, Length(q.chunks) > 0
  PROVE  ~IsEmpty(q)
BY LengthAppend DEF IsEmpty

-----------------------------------------------------------------------------
(***************************************************************************)
(* The invariant.                                                          *)
(***************************************************************************)

\* The numbers in a sequence.
Bytes(s) == {s[i] : i \in 1 .. Len(s)}

LEMMA BytesJoin ==
  ASSUME NEW s \in Seq(Nat), NEW t \in Seq(Nat)
  PROVE  Bytes(Join(s, t)) = Bytes(s) \union Bytes(t)
<1> DEFINE u == s \o t
           m == Len(s)
           n == Len(t)
<1>1. /\ Len(u) = m + n /\ m \in Nat /\ n \in Nat
      /\ \A i \in 1 .. m + n : u[i] = IF i <= m THEN s[i] ELSE t[i - m]
  BY ConcatProperties, LenProperties
<1>2. Join(s, t) = u
  BY DEF Join
<1> HIDE DEF u
<1>3. \A i \in 1 .. Len(u) : u[i] \in Bytes(s) \union Bytes(t)
  <2> TAKE i \in 1 .. Len(u)
  <2>1. CASE i <= m
    <3>1. i \in 1 .. m /\ u[i] = s[i]
      BY <1>1, <2>1
    <3> QED
      BY <3>1 DEF Bytes
  <2>2. CASE ~(i <= m)
    <3>1. i - m \in 1 .. n /\ u[i] = t[i - m]
      BY <1>1, <2>2
    <3> QED
      BY <3>1 DEF Bytes
  <2> QED
    BY <2>1, <2>2
<1>4. \A i \in 1 .. m : s[i] \in Bytes(u)
  <2> TAKE i \in 1 .. m
  <2>1. i \in 1 .. Len(u) /\ u[i] = s[i]
    BY <1>1
  <2> QED
    BY <2>1 DEF Bytes
<1>5. \A i \in 1 .. n : t[i] \in Bytes(u)
  <2> TAKE i \in 1 .. n
  <2> DEFINE j == m + i
  <2>1. j \in 1 .. m + n /\ ~(j <= m) /\ j - m = i
    BY <1>1
  <2> HIDE DEF j
  <2>2. u[j] = t[i]
    BY <1>1, <2>1
  <2> QED
    BY <1>1, <2>1, <2>2 DEF Bytes
<1>6. \A x \in Bytes(u) : x \in Bytes(s) \union Bytes(t)
  BY <1>3 DEF Bytes
<1>7. \A x \in Bytes(s) : x \in Bytes(u)
  BY <1>4 DEF Bytes
<1>8. \A x \in Bytes(t) : x \in Bytes(u)
  BY <1>5 DEF Bytes
<1> QED
  BY <1>2, <1>6, <1>7, <1>8

LEMMA RestFacts ==
  ASSUME NEW s \in Seq(Nat), NEW k \in Nat
  PROVE  Rest(s, k) \in Seq(Nat) /\ Bytes(Rest(s, k)) \subseteq Bytes(s) /\ Rest(s, 0) = s
<1>1. Len(s) \in Nat /\ \A i \in 1 .. Len(s) : s[i] \in Nat
  BY LenProperties, ElementOfSeq
<1>2. Rest(s, 0) = s
  BY SubSeqFull DEF Rest
<1>3. CASE k <= Len(s)
  <2>1. k \in 0 .. Len(s)
    BY <1>1, <1>3
  <2>2. SubSeq(s, 1, k) \in Seq(Nat) /\ Rest(s, k) \in Seq(Nat) /\ s = Join(SubSeq(s, 1, k), Rest(s, k))
    BY <2>1, SplitAt DEF Rest, Join
  <2>3. Bytes(s) = Bytes(SubSeq(s, 1, k)) \union Bytes(Rest(s, k))
    BY <2>2, BytesJoin
  <2> QED
    BY <1>2, <2>2, <2>3
<1>4. CASE ~(k <= Len(s))
  <2> DEFINE m == k + 1
             n == Len(s)
             u == SubSeq(s, m, n)
  <2>1. m \in Int /\ n \in Int /\ (\A i \in m .. n : s[i] \in Nat) /\ ~(m <= n)
    BY <1>1, <1>4
  <2> HIDE DEF m, n
  <2>2. u \in Seq(Nat) /\ Len(u) = 0
    BY <2>1, SubSeqProperties
  <2>3. Rest(s, k) = u
    BY DEF Rest, m, n
  <2> HIDE DEF u
  <2> QED
    BY <1>2, <2>2, <2>3 DEF Bytes
<1> QED
  BY <1>3, <1>4

\* The bytes that went out and those on their way: in d, in the hands of a move to
\* a temporary file, and those of s behind the k that this move has in hand.
Line(o, d, t, s, k) ==
  Join(Join(Join(o, Content(d.chunks)), t), Rest(Content(s.chunks), k))

LEMMA LineFacts ==
  ASSUME NEW o \in Seq(Nat), NEW d \in Queue, NEW t \in Seq(Nat), NEW s \in Queue, NEW k \in Nat
  PROVE  /\ Line(o, d, t, s, k) \in Seq(Nat)
         /\ Bytes(Line(o, d, t, s, k)) = (Bytes(o) \union Bytes(Content(d.chunks)) \union Bytes(t))
                                           \union Bytes(Rest(Content(s.chunks), k))
         /\ Line(o, d, <<>>, s, 0) = Join(Join(o, Content(d.chunks)), Content(s.chunks))
<1> DEFINE c == Content(d.chunks)
           r == Rest(Content(s.chunks), k)
<1>1. c \in Seq(Nat) /\ Content(s.chunks) \in Seq(Nat) /\ r \in Seq(Nat)
      /\ Rest(Content(s.chunks), 0) = Content(s.chunks)
  BY QueueType, RestFacts
<1> HIDE DEF c, r
<1>2. Join(o, c) \in Seq(Nat) /\ Join(Join(o, c), t) \in Seq(Nat)
      /\ Join(Join(Join(o, c), t), r) \in Seq(Nat)
  BY <1>1, JoinFacts
<1>3. /\ Bytes(Join(o, c)) = Bytes(o) \union Bytes(c)
      /\ Bytes(Join(Join(o, c), t)) = Bytes(Join(o, c)) \union Bytes(t)
      /\ Bytes(Join(Join(Join(o, c), t), r)) = Bytes(Join(Join(o, c), t)) \union Bytes(r)
  BY <1>1, <1>2, BytesJoin
<1>4. Join(Join(o, c), <<>>) = Join(o, c)
  BY <1>2, JoinFacts
<1> QED
  BY <1>1, <1>2, <1>3, <1>4 DEF Line, c, r

LEMMA LineBytes ==
  ASSUME NEW o \in Seq(Nat), NEW d \in Queue, NEW t \in Seq(Nat), NEW s \in Queue, NEW k \in Nat
  PROVE  Bytes(Line(o, d, t, s, k)) = (Bytes(o) \union Bytes(Content(d.chunks)) \union Bytes(t))
                                       \union Bytes(Rest(Content(s.chunks), k))
BY LineFacts

Pending == Line(out, dst, todo, src, piece)

\* Where a move into temporary files is.
CallState ==
  /\ pc \in {"idle", "steal"} => piece = 0 /\ todo = <<>>
  /\ pc = "steal" => len <= Length(src.chunks)
  /\ pc \in {"tempfile", "write"} =>
       /\ ~IsEmpty(src) /\ piece # 0 /\ piece <= Remaining(Head(src.chunks))
       /\ len <= Length(src.chunks) - piece
  /\ pc = "write" => ~IsEmpty(dst)

\* While no old offset was used, every byte is on its way, and until a move failed
\* they are in the order of their arrival.
Streamed ==
  Clear =>
    /\ Sound(src) /\ Sound(dst)
    /\ Bytes(todo) \subseteq Bytes(Content(src.chunks))
    /\ 1 .. arrived \subseteq Bytes(Pending)
    /\ ~failed => Pending = [i \in 1 .. arrived |-> i]

Inv == TypeOK /\ Accounting /\ CallState /\ Streamed

LEMMA InBalance ==
  ASSUME NEW q \in Queue
  PROVE  Balance(q) = 0 <=> q.bytes_in - q.bytes_out = Length(q.chunks)
<1> DEFINE a == q.bytes_in
           b == q.bytes_out
           n == Length(q.chunks)
<1>1. a \in Int /\ b \in Int /\ n \in Int
  BY QueueType
<1>2. Balance(q) = a - b - n
  BY DEF Balance
<1> HIDE DEF a, b, n
<1>3. Balance(q) = 0 <=> a - b = n
  BY <1>1, <1>2
<1> QED
  BY <1>3 DEF a, b, n

\* The bytes that arrive are the next ones.
LEMMA ArrivalsNext ==
  ASSUME NEW n \in Nat, NEW k \in Nat
  PROVE  LET a == [i \in 1 .. n |-> i]
             b == [i \in 1 .. k |-> n + i]
         IN  /\ b \in Seq(Nat) /\ Len(b) = k /\ Join(a, b) = [i \in 1 .. n + k |-> i]
             /\ Bytes(b) = n + 1 .. n + k
<1> DEFINE a == [i \in 1 .. n |-> i]
           b == [i \in 1 .. k |-> n + i]
           c == [i \in 1 .. n + k |-> i]
           u == a \o b
<1>1. a \in Seq(Nat) /\ Len(a) = n /\ b \in Seq(Nat) /\ Len(b) = k /\ c \in Seq(Nat) /\ Len(c) = n + k
  OBVIOUS
<1>2. \A i \in 1 .. n : a[i] = i
  OBVIOUS
<1>3. \A i \in 1 .. k : b[i] = n + i
  OBVIOUS
<1>4. \A i \in 1 .. n + k : c[i] = i
  OBVIOUS
<1> HIDE DEF a, b, c
<1>5. u \in Seq(Nat) /\ Len(u) = n + k /\ \A i \in 1 .. n + k : u[i] = IF i <= n THEN a[i] ELSE b[i - n]
  BY <1>1, ConcatProperties
<1> HIDE DEF u
<1>6. \A i \in 1 .. n + k : u[i] = c[i]
  <2> TAKE i \in 1 .. n + k
  <2>1. CASE i <= n
    BY <1>2, <1>4, <1>5, <2>1
  <2>2. CASE ~(i <= n)
    <3>1. i - n \in 1 .. k /\ n + (i - n) = i
      BY <2>2
    <3> QED
      BY <1>3, <1>4, <1>5, <2>2, <3>1
  <2> QED
    BY <2>1, <2>2
<1>7. u = c
  BY <1>1, <1>5, <1>6, SeqEqual
<1>8. Bytes(b) = n + 1 .. n + k
  <2>1. \A x \in n + 1 .. n + k : x - n \in 1 .. k /\ n + (x - n) = x
    OBVIOUS
  <2>2. \A x \in n + 1 .. n + k : x \in Bytes(b)
    <3> TAKE x \in n + 1 .. n + k
    <3>1. b[x - n] = x /\ x - n \in 1 .. Len(b)
      BY <1>1, <1>3, <2>1
    <3> QED
      BY <3>1 DEF Bytes
  <2>3. \A x \in Bytes(b) : x \in n + 1 .. n + k
    BY <1>1, <1>3 DEF Bytes
  <2> QED
    BY <2>2, <2>3
<1> QED
  BY <1>1, <1>7, <1>8 DEF Join, a, b, c, u

LEMMA StateType ==
  ASSUME TypeOK
  PROVE  /\ src \in Queue /\ dst \in Queue /\ out \in Seq(Nat) /\ todo \in Seq(Nat)
         /\ piece \in Nat /\ len \in Int /\ arrived \in Nat /\ Pending \in Seq(Nat)
<1>1. /\ src \in Queue /\ dst \in Queue /\ out \in Seq(Nat) /\ todo \in Seq(Nat)
      /\ piece \in Nat /\ len \in Int
  BY DEF TypeOK
<1>2. arrived \in Nat
  <2>1. arrived \in 0 .. MaxBytes
    BY DEF TypeOK
  <2>2. MaxBytes \in Nat
    BY LimitsAssumption
  <2> QED
    BY <2>1, <2>2
<1> QED
  BY <1>1, <1>2, LineFacts DEF Pending

Steady == src'.stale = src.stale /\ dst'.stale = dst.stale

\* What a step has to do with the bytes on their way so that Streamed is kept:
\* leave them as they are, repeat some in a move that failed, take more behind them,
\* or start afresh.
LEMMA StreamStep ==
  ASSUME TypeOK, Streamed, src' \in Queue, dst' \in Queue,
         src'.stale >= src.stale, dst'.stale >= dst.stale,
         Steady /\ Sound(src) /\ Sound(dst) /\ Bytes(todo) \subseteq Bytes(Content(src.chunks)) =>
           /\ Sound(src') /\ Sound(dst') /\ Bytes(todo') \subseteq Bytes(Content(src'.chunks))
           /\ \/ Pending' = Pending /\ arrived' = arrived /\ failed' = failed
              \/ Bytes(Pending) \subseteq Bytes(Pending') /\ arrived' = arrived /\ failed' = TRUE
              \/ \E k \in Nat : /\ Pending' = Join(Pending, Arrivals(k))
                               /\ arrived' = arrived + k /\ failed' = failed
              \/ Pending' = <<>> /\ arrived' = 0
  PROVE  Streamed'
<1>1. SUFFICES ASSUME Clear'
               PROVE  /\ Sound(src') /\ Sound(dst')
                      /\ Bytes(todo') \subseteq Bytes(Content(src'.chunks))
                      /\ 1 .. arrived' \subseteq Bytes(Pending')
                      /\ ~failed' => Pending' = [i \in 1 .. arrived' |-> i]
  BY DEF Streamed
<1>2. Clear /\ Steady
  <2>1. src.stale \in Nat /\ dst.stale \in Nat /\ src'.stale \in Nat /\ dst'.stale \in Nat
    BY QueueType DEF TypeOK
  <2> QED
    BY <1>1, <2>1 DEF Clear, Steady
<1>3. /\ Sound(src) /\ Sound(dst) /\ Bytes(todo) \subseteq Bytes(Content(src.chunks))
      /\ 1 .. arrived \subseteq Bytes(Pending)
      /\ ~failed => Pending = [i \in 1 .. arrived |-> i]
  BY <1>2 DEF Streamed
<1>4. /\ Sound(src') /\ Sound(dst') /\ Bytes(todo') \subseteq Bytes(Content(src'.chunks))
      /\ \/ Pending' = Pending /\ arrived' = arrived /\ failed' = failed
         \/ Bytes(Pending) \subseteq Bytes(Pending') /\ arrived' = arrived /\ failed' = TRUE
         \/ \E k \in Nat : /\ Pending' = Join(Pending, Arrivals(k))
                          /\ arrived' = arrived + k /\ failed' = failed
         \/ Pending' = <<>> /\ arrived' = 0
  BY <1>2, <1>3
<1>5. CASE Pending' = Pending /\ arrived' = arrived /\ failed' = failed
  BY <1>3, <1>4, <1>5
<1>6. CASE Bytes(Pending) \subseteq Bytes(Pending') /\ arrived' = arrived /\ failed' = TRUE
  BY <1>3, <1>4, <1>6
<1>7. CASE \E k \in Nat : /\ Pending' = Join(Pending, Arrivals(k))
                        /\ arrived' = arrived + k /\ failed' = failed
  <2>1. PICK k \in Nat : /\ Pending' = Join(Pending, Arrivals(k))
                        /\ arrived' = arrived + k /\ failed' = failed
    BY <1>7
  <2>2. arrived \in Nat /\ Pending \in Seq(Nat)
    BY StateType
  <2>3. /\ Arrivals(k) \in Seq(Nat) /\ Bytes(Arrivals(k)) = arrived + 1 .. arrived + k
        /\ Join([i \in 1 .. arrived |-> i], Arrivals(k)) = [i \in 1 .. arrived + k |-> i]
    BY <2>2, ArrivalsNext DEF Arrivals
  <2>4. Bytes(Pending') = Bytes(Pending) \union (arrived + 1 .. arrived + k)
    BY <2>1, <2>2, <2>3, BytesJoin
  <2>5. 1 .. arrived + k \subseteq (1 .. arrived) \union (arrived + 1 .. arrived + k)
    BY <2>2
  <2> QED
    BY <1>3, <1>4, <2>1, <2>3, <2>4, <2>5
<1>8. CASE Pending' = <<>> /\ arrived' = 0
  <2>1. [i \in 1 .. 0 |-> i] = <<>> /\ 1 .. 0 = {}
    OBVIOUS
  <2> QED
    BY <1>4, <1>8, <2>1
<1> QED
  BY <1>4, <1>5, <1>6, <1>7, <1>8

\* Bytes are moved from src to dst while no move into temporary files has any in hand.
LEMMA MovesStep ==
  ASSUME TypeOK, Streamed, todo = <<>>, piece = 0, Moves(dst', src', dst, src),
         UNCHANGED <<todo, piece, out, arrived, failed>>
  PROVE  Streamed'
<1>1. src \in Queue /\ dst \in Queue /\ out \in Seq(Nat) /\ src' \in Queue /\ dst' \in Queue
  BY DEF TypeOK, Moves
<1>2. src'.stale = src.stale /\ dst'.stale >= dst.stale /\ src.stale \in Nat
  BY <1>1, QueueType DEF Moves
<1>3. ASSUME Steady, Sound(src), Sound(dst)
      PROVE  /\ Sound(src') /\ Sound(dst') /\ Bytes(todo') \subseteq Bytes(Content(src'.chunks))
             /\ Pending' = Pending /\ arrived' = arrived /\ failed' = failed
  <2>1. /\ Sound(src') /\ Sound(dst')
        /\ Join(Content(dst'.chunks), Content(src'.chunks)) = Join(Content(dst.chunks), Content(src.chunks))
    BY <1>3 DEF Moves, Steady
  <2>2. Bytes(todo') = {}
    <3>1. todo' = <<>> /\ Len(<<>>) = 0
      BY EmptySeq
    <3> QED
      BY <3>1 DEF Bytes
  <2>3. Pending' = Pending
    <3> DEFINE a == Content(dst.chunks)
               b == Content(src.chunks)
               c == Content(dst'.chunks)
               d == Content(src'.chunks)
    <3>1. a \in Seq(Nat) /\ b \in Seq(Nat) /\ c \in Seq(Nat) /\ d \in Seq(Nat)
      BY <1>1, QueueType
    <3>2. Pending = Join(Join(out, a), b) /\ Pending' = Join(Join(out, c), d)
      BY <1>1, LineFacts DEF Pending
    <3>3. Join(c, d) = Join(a, b)
      BY <2>1
    <3> HIDE DEF a, b, c, d
    <3> QED
      BY <1>1, <3>1, <3>2, <3>3, JoinAssociative
  <2> QED
    BY <2>1, <2>2, <2>3
<1>4. Steady /\ Sound(src) /\ Sound(dst) /\ Bytes(todo) \subseteq Bytes(Content(src.chunks)) =>
        /\ Sound(src') /\ Sound(dst') /\ Bytes(todo') \subseteq Bytes(Content(src'.chunks))
        /\ Pending' = Pending /\ arrived' = arrived /\ failed' = failed
  BY <1>3
<1>5. src'.stale >= src.stale
  BY <1>2
<1> QED
  BY <1>1, <1>2, <1>4, <1>5, StreamStep

\* Bytes come into src.
LEMMA ArriveStep ==
  ASSUME Inv, NEW k \in Nat, Arrive(k), src' \in Queue, Balance(src') = Balance(src),
         src'.stale >= src.stale,
         src'.stale = src.stale /\ Sound(src) =>
           Sound(src') /\ Content(src'.chunks) = Join(Content(src.chunks), Arrivals(k))
  PROVE  Inv'
<1>1. /\ src \in Queue /\ dst \in Queue /\ out \in Seq(Nat) /\ arrived \in Nat
      /\ pc = "idle" /\ piece = 0 /\ todo = <<>>
  BY StateType DEF Inv, CallState, Arrive, Idle
<1>2. /\ dst' = dst /\ tempdir_idx' = tempdir_idx /\ pc' = pc /\ len' = len /\ piece' = piece
      /\ todo' = todo /\ close_rc' = close_rc /\ log' = log /\ arrived' = arrived + k
      /\ out' = out /\ failed' = failed /\ arrived + k <= MaxBytes
  BY DEF Arrive, callVars
<1>3. TypeOK'
  <2>1. arrived + k \in 0 .. MaxBytes
    BY <1>1, <1>2, LimitsAssumption
  <2> QED
    BY <1>2, <2>1 DEF Inv, TypeOK
<1>4. Accounting'
  <2>1. Balance(src) = 0 /\ Balance(dst) = 0
    BY <1>1, InBalance DEF Inv, Accounting
  <2>2. src'.bytes_in - src'.bytes_out = Length(src'.chunks)
    BY <2>1, InBalance
  <2> QED
    BY <1>2, <2>2 DEF Inv, Accounting
<1>5. CallState'
  BY <1>1, <1>2 DEF CallState
<1>6. Streamed'
  <2>1. ASSUME Steady, Sound(src), Sound(dst)
        PROVE  /\ Sound(src') /\ Sound(dst') /\ Bytes(todo') \subseteq Bytes(Content(src'.chunks))
               /\ \E j \in Nat : /\ Pending' = Join(Pending, Arrivals(j))
                                /\ arrived' = arrived + j /\ failed' = failed
    <3>1. /\ Sound(src') /\ Sound(dst')
          /\ Content(src'.chunks) = Join(Content(src.chunks), Arrivals(k))
      BY <1>2, <2>1 DEF Steady
    <3>2. Bytes(todo') = {}
      <4>1. todo' = <<>> /\ Len(<<>>) = 0
        BY <1>1, <1>2, EmptySeq
      <4> QED
        BY <4>1 DEF Bytes
    <3>3. Pending' = Join(Pending, Arrivals(k))
      <4>1. /\ Pending = Join(Join(out, Content(dst.chunks)), Content(src.chunks))
            /\ Pending' = Join(Join(out, Content(dst.chunks)), Content(src'.chunks))
        <5>1. Pending = Line(out, dst, <<>>, src, 0) /\ Pending' = Line(out, dst, <<>>, src', 0)
          BY <1>1, <1>2 DEF Pending
        <5> QED
          BY <1>1, <5>1, LineFacts
      <4>2. Arrivals(k) \in Seq(Nat) /\ Content(dst.chunks) \in Seq(Nat) /\ Content(src.chunks) \in Seq(Nat)
        BY <1>1, ArrivalsNext, QueueType DEF Arrivals
      <4>3. Join(out, Content(dst.chunks)) \in Seq(Nat)
        BY <1>1, <4>2, JoinFacts
      <4> QED
        BY <3>1, <4>1, <4>2, <4>3, JoinAssociative
    <3> QED
      BY <1>2, <3>1, <3>2, <3>3
  <2>2. dst'.stale >= dst.stale
    BY <1>1, <1>2, QueueType
  <2> QED
    BY <1>1, <1>2, <2>1, <2>2, StreamStep DEF Inv
<1> QED
  BY <1>3, <1>4, <1>5, <1>6 DEF Inv

LEMMA AppendFileStep ==
  ASSUME Inv, NEW k \in Pieces, AppendFile(k)
  PROVE  Inv'
<1>1. k \in Nat /\ Arrive(k) /\ src' = AppendFresh(src, Chunk("file", Arrivals(k)))
  BY LimitsAssumption DEF AppendFile, Pieces
<1>2. src \in Queue /\ Arrivals(k) \in Seq(Nat)
  BY <1>1, StateType, ArrivalsNext DEF Inv, Arrivals
<1>3. PICK d \in ChunkRecord :
        /\ Appended(src', src, d) /\ src'.stale = src.stale
        /\ d \in SoundChunk /\ Unread(d) = Arrivals(k)
  BY <1>1, <1>2, PartChunk
<1>4. /\ src' \in Queue /\ Balance(src') = Balance(src)
      /\ Sound(src) => Sound(src') /\ Content(src'.chunks) = Join(Content(src.chunks), Arrivals(k))
  BY <1>2, <1>3, AppendedEffect
<1>5. src'.stale >= src.stale
  BY <1>2, <1>3, QueueType
<1> QED
  BY <1>1, <1>3, <1>4, <1>5, ArriveStep

\* A chunk is taken from the pool as it is, for bytes that arrive or for none.
LEMMA StaleAppend ==
  ASSUME NEW q \in Queue, NEW x \in Seq(Nat)
  PROVE  LET p == AppendStale(q, Chunk("mem", x)) IN
         /\ p \in Queue /\ Balance(p) = Balance(q) /\ ~IsEmpty(p) /\ p.stale >= q.stale
         /\ p.stale = q.stale /\ Sound(q) => Sound(p) /\ Content(p.chunks) = Join(Content(q.chunks), x)
<1> DEFINE p == AppendStale(q, Chunk("mem", x))
<1>1. PICK d \in ChunkRecord :
        /\ Appended(p, q, d)
        /\ p.stale = q.stale + 1 \/ (p.stale = q.stale /\ d \in SoundChunk /\ Unread(d) = x)
  BY PartChunk
<1> HIDE DEF p
<1>2. q.stale \in Nat /\ q.stale # q.stale + 1
  BY QueueType
<1>3. p.stale >= q.stale
  BY <1>1, <1>2
<1>4. /\ p \in Queue /\ Balance(p) = Balance(q) /\ ~IsEmpty(p)
      /\ Content(p.chunks) = Join(Content(q.chunks), Unread(d))
      /\ Sound(q) /\ d \in SoundChunk => Sound(p)
  BY <1>1, AppendedEffect
<1>5. p.stale = q.stale /\ Sound(q) => Sound(p) /\ Content(p.chunks) = Join(Content(q.chunks), x)
  BY <1>1, <1>2, <1>4
<1> QED
  BY <1>3, <1>4, <1>5 DEF p

LEMMA AppendBufferStep ==
  ASSUME Inv, NEW k \in Pieces, AppendBuffer(k)
  PROVE  Inv'
<1>1. k \in Nat /\ Arrive(k) /\ src' = AppendFresh(src, Chunk("mem", Arrivals(k)))
  BY LimitsAssumption DEF AppendBuffer, Pieces
<1>2. src \in Queue /\ Arrivals(k) \in Seq(Nat)
  BY <1>1, StateType, ArrivalsNext DEF Inv, Arrivals
<1> DEFINE d == Chunk("mem", Arrivals(k))
<1>3. d \in SoundChunk /\ d \in ChunkRecord /\ Unread(d) = Arrivals(k)
  <2>1. d \in SoundChunk /\ d.data = Arrivals(k) /\ d.offset = 0 /\ SoundChunk \subseteq ChunkRecord
    BY <1>2, ChunkType
  <2> HIDE DEF d
  <2> QED
    BY <2>1, UnreadLength
<1> HIDE DEF d
<1>4. Appended(src', src, d) /\ src'.stale = src.stale
  BY <1>1, <1>2, <1>3, AppendFreshEffect DEF d
<1>5. /\ src' \in Queue /\ Balance(src') = Balance(src)
      /\ Sound(src) => Sound(src') /\ Content(src'.chunks) = Join(Content(src.chunks), Arrivals(k))
  BY <1>2, <1>3, <1>4, AppendedEffect
<1>6. src'.stale >= src.stale
  BY <1>2, <1>4, QueueType
<1> QED
  BY <1>1, <1>4, <1>5, <1>6, ArriveStep

LEMMA AppendMemStep ==
  ASSUME Inv, NEW k \in Pieces, AppendMem(k)
  PROVE  Inv'
<1>1. k \in Nat /\ Arrive(k) /\ src' = AppendStale(src, Chunk("mem", Arrivals(k)))
  BY LimitsAssumption DEF AppendMem, Pieces
<1>2. src \in Queue /\ Arrivals(k) \in Seq(Nat)
  BY <1>1, StateType, ArrivalsNext DEF Inv, Arrivals
<1>3. /\ src' \in Queue /\ Balance(src') = Balance(src) /\ src'.stale >= src.stale
      /\ src'.stale = src.stale /\ Sound(src) =>
           Sound(src') /\ Content(src'.chunks) = Join(Content(src.chunks), Arrivals(k))
  BY <1>1, <1>2, StaleAppend
<1> QED
  BY <1>1, <1>3, ArriveStep

LEMMA GetMemoryStep ==
  ASSUME Inv, NEW k \in 0 .. MaxPiece, GetMemory(k)
  PROVE  Inv'
<1>1. k \in Nat /\ Arrive(k)
  BY LimitsAssumption DEF GetMemory
<1>2. src \in Queue /\ Arrivals(k) \in Seq(Nat) /\ src.stale \in Nat
  BY <1>1, StateType, ArrivalsNext, QueueType DEF Inv, Arrivals
<1>3. CASE ~IsEmpty(src) /\ src' = UseMemory(src, Arrivals(k))
  <2>1. /\ src' \in Queue /\ Balance(src') = Balance(src) /\ src'.stale = src.stale
        /\ Sound(src) => Sound(src') /\ Content(src'.chunks) = Join(Content(src.chunks), Arrivals(k))
    BY <1>2, <1>3, UseMemoryEffect
  <2>2. src'.stale >= src.stale
    BY <1>2, <2>1
  <2> QED
    BY <1>1, <2>1, <2>2, ArriveStep
<1>4. CASE src' = UseMemory(AppendStale(src, Chunk("mem", <<>>)), Arrivals(k))
  <2> DEFINE p == AppendStale(src, Chunk("mem", <<>>))
  <2>1. <<>> \in Seq(Nat)
    BY EmptySeq
  <2>2. /\ p \in Queue /\ Balance(p) = Balance(src) /\ ~IsEmpty(p) /\ p.stale >= src.stale
        /\ p.stale = src.stale /\ Sound(src) =>
             Sound(p) /\ Content(p.chunks) = Join(Content(src.chunks), <<>>)
    BY <1>2, <2>1, StaleAppend
  <2>3. src' = UseMemory(p, Arrivals(k))
    BY <1>4
  <2> HIDE DEF p
  <2>4. /\ src' \in Queue /\ Balance(src') = Balance(p) /\ src'.stale = p.stale
        /\ Sound(p) => Sound(src') /\ Content(src'.chunks) = Join(Content(p.chunks), Arrivals(k))
    BY <1>2, <2>2, <2>3, UseMemoryEffect
  <2>5. Join(Content(src.chunks), <<>>) = Content(src.chunks)
    BY <1>2, QueueType, JoinFacts
  <2>6. src'.stale = src.stale /\ Sound(src) =>
           Sound(src') /\ Content(src'.chunks) = Join(Content(src.chunks), Arrivals(k))
    BY <2>2, <2>4, <2>5
  <2> QED
    BY <1>1, <2>2, <2>4, <2>6, ArriveStep
<1> QED
  BY <1>3, <1>4 DEF GetMemory

\* Bytes are moved from src to dst, and nothing else happens.
LEMMA QueuesStep ==
  ASSUME Inv, pc = "idle" \/ pc = "steal", Moves(dst', src', dst, src),
         UNCHANGED <<tempdir_idx, pc, piece, todo, close_rc, log, history>>,
         len' \in Int, pc = "steal" => len' <= Length(src'.chunks)
  PROVE  Inv'
<1>1. /\ src \in Queue /\ dst \in Queue /\ piece = 0 /\ todo = <<>>
      /\ src' \in Queue /\ dst' \in Queue
  BY StateType DEF Inv, CallState, Moves
<1>2. /\ tempdir_idx' = tempdir_idx /\ pc' = pc /\ piece' = piece /\ todo' = todo
      /\ close_rc' = close_rc /\ log' = log /\ arrived' = arrived /\ out' = out /\ failed' = failed
  BY DEF history
<1>3. TypeOK'
  BY <1>1, <1>2 DEF Inv, TypeOK
<1>4. Accounting'
  <2>1. Balance(src) = 0 /\ Balance(dst) = 0
    BY <1>1, InBalance DEF Inv, Accounting
  <2>2. Balance(src') = 0 /\ Balance(dst') = 0
    BY <2>1 DEF Moves
  <2>3. /\ src'.bytes_in - src'.bytes_out = Length(src'.chunks)
        /\ dst'.bytes_in - dst'.bytes_out = Length(dst'.chunks)
    BY <1>1, <2>2, InBalance
  <2> QED
    BY <2>3 DEF Accounting
<1>5. CallState'
  BY <1>1, <1>2 DEF CallState
<1>6. Streamed'
  BY <1>1, <1>2, MovesStep DEF Inv
<1> QED
  BY <1>3, <1>4, <1>5, <1>6 DEF Inv

LEMMA SameBytesMoves ==
  ASSUME NEW d \in Queue, NEW q \in Queue, NEW p, SameBytes(p, q)
  PROVE  Moves(d, p, d, q)
BY QueueType DEF Moves, SameBytes, SameCounts, Balance

LEMMA StealBytesStep ==
  ASSUME Inv, NEW k \in 1 .. MaxBytes, StealBytes(k)
  PROVE  Inv'
<1>1. k \in Nat /\ src \in Queue /\ dst \in Queue /\ len \in Int
  BY LimitsAssumption, StateType DEF Inv
<1>2. Moves(dst', src', dst, src)
  BY <1>1, StealEffect DEF StealBytes
<1>3. pc = "idle" /\ UNCHANGED <<tempdir_idx, pc, len, piece, todo, close_rc, log, history>>
  BY DEF StealBytes, Idle, callVars
<1> QED
  BY <1>1, <1>2, <1>3, QueuesStep

LEMMA CleanStep ==
  ASSUME Inv, Clean
  PROVE  Inv'
<1>1. src \in Queue /\ dst \in Queue /\ len \in Int
  BY StateType DEF Inv
<1>2. src' = RemoveFinished(src) /\ dst' = dst /\ pc = "idle"
      /\ UNCHANGED <<tempdir_idx, pc, len, piece, todo, close_rc, log, history>>
  BY DEF Clean, Idle, callVars
<1>3. SameBytes(src', src)
  BY <1>1, <1>2, RemoveFinishedEffect
<1>4. Moves(dst', src', dst, src)
  BY <1>1, <1>2, <1>3, SameBytesMoves
<1> QED
  BY <1>1, <1>2, <1>4, QueuesStep

LEMMA StealSkipsEmptyStep ==
  ASSUME Inv, StealSkipsEmpty
  PROVE  Inv'
<1>1. src \in Queue /\ dst \in Queue /\ len \in Int /\ len <= Length(src.chunks)
  BY StateType DEF Inv, StealSkipsEmpty, CallState
<1>2. src' = DropFirst(src) /\ dst' = dst /\ pc = "steal" /\ len > 0 /\ Remaining(Head(src.chunks)) = 0
      /\ UNCHANGED <<tempdir_idx, pc, len, piece, todo, close_rc, log, history>>
  BY DEF StealSkipsEmpty, callVars
<1>3. ~IsEmpty(src)
  <2>1. Length(src.chunks) > 0
    BY <1>1, <1>2, QueueType
  <2> QED
    BY <1>1, <2>1, NotEmpty
<1>4. SameBytes(src', src)
  BY <1>1, <1>2, <1>3, DropUsedUp
<1>5. Moves(dst', src', dst, src)
  BY <1>1, <1>2, <1>4, SameBytesMoves
<1>6. len' \in Int /\ len' <= Length(src'.chunks)
  BY <1>1, <1>2, <1>4 DEF SameBytes
<1> QED
  BY <1>2, <1>5, <1>6, QueuesStep

\* The bytes of q are those of p, unless an old offset came in.
Holds(p, q) ==
  /\ p \in Queue /\ Balance(p) = Balance(q) /\ p.stale >= q.stale
  /\ p.stale = q.stale /\ Sound(q) => Sound(p) /\ Content(p.chunks) = Content(q.chunks)

LEMMA SameBytesHolds ==
  ASSUME NEW q \in Queue
  PROVE  Holds(q, q) /\ \A p : SameBytes(p, q) => Holds(p, q)
BY QueueType DEF Holds, SameBytes, SameCounts, Balance

\* No byte moves; a move into temporary files that is given up leaves what it has in
\* hand with src.
LEMMA HoldStep ==
  ASSUME TypeOK, Accounting, Streamed, src' = src, Holds(dst', dst), out' = out, arrived' = arrived,
         \/ piece' = piece /\ todo' = todo /\ failed' = failed
         \/ piece' = 0 /\ todo' = <<>> /\ failed' = TRUE
  PROVE  Accounting' /\ Streamed'
<1>1. /\ src \in Queue /\ dst \in Queue /\ out \in Seq(Nat) /\ todo \in Seq(Nat) /\ piece \in Nat
      /\ dst' \in Queue
  BY StateType DEF Holds
<1>2. Accounting'
  <2>1. Balance(src) = 0 /\ Balance(dst) = 0
    BY <1>1, InBalance DEF Accounting
  <2>2. Balance(src') = 0 /\ Balance(dst') = 0
    BY <2>1 DEF Holds
  <2>3. /\ src'.bytes_in - src'.bytes_out = Length(src'.chunks)
        /\ dst'.bytes_in - dst'.bytes_out = Length(dst'.chunks)
    BY <1>1, <2>2, InBalance
  <2> QED
    BY <2>3 DEF Accounting
<1>3. ASSUME Steady, Sound(src), Sound(dst), Bytes(todo) \subseteq Bytes(Content(src.chunks))
      PROVE  /\ Sound(src') /\ Sound(dst') /\ Bytes(todo') \subseteq Bytes(Content(src'.chunks))
             /\ \/ Pending' = Pending /\ arrived' = arrived /\ failed' = failed
                \/ Bytes(Pending) \subseteq Bytes(Pending') /\ arrived' = arrived /\ failed' = TRUE
  <2>1. Sound(src') /\ Sound(dst') /\ Content(dst'.chunks) = Content(dst.chunks)
    BY <1>3 DEF Holds, Steady
  <2>2. CASE piece' = piece /\ todo' = todo /\ failed' = failed
    <3>1. Pending' = Pending
      BY <2>1, <2>2 DEF Pending, Line
    <3> QED
      BY <1>3, <2>1, <2>2, <3>1
  <2>3. CASE piece' = 0 /\ todo' = <<>> /\ failed' = TRUE
    <3>1. Bytes(todo') = {}
      <4>1. todo' = <<>> /\ Len(<<>>) = 0
        BY <2>3, EmptySeq
      <4> QED
        BY <4>1 DEF Bytes
    <3>2. Bytes(Pending) \subseteq Bytes(Pending')
      <4> DEFINE a == Bytes(Content(dst.chunks))
                 b == Content(src.chunks)
                 none == <<>>
                 zero == 0
      <4>1. none \in Seq(Nat) /\ zero \in Nat
        BY EmptySeq
      <4>2. Pending' = Line(out, dst', none, src, zero)
        BY <2>3 DEF Pending
      <4>3. Bytes(Pending) = (Bytes(out) \union a \union Bytes(todo)) \union Bytes(Rest(b, piece))
        BY <1>1, LineBytes DEF Pending
      <4>4. Rest(b, zero) = b /\ Bytes(Rest(b, piece)) \subseteq Bytes(b)
        BY <1>1, QueueType, RestFacts
      <4> HIDE DEF none, zero
      <4>5. Bytes(Pending') = (Bytes(out) \union Bytes(Content(dst'.chunks)) \union Bytes(none))
                                \union Bytes(Rest(b, zero))
        BY <1>1, <4>1, <4>2, LineBytes
      <4>6. a = Bytes(Content(dst'.chunks))
        BY <2>1
      <4> HIDE DEF a, b
      <4>7. Bytes(todo) \subseteq Bytes(b)
        BY <1>3 DEF b
      <4> QED
        BY <4>3, <4>4, <4>5, <4>6, <4>7
    <3> QED
      BY <2>1, <2>3, <3>1, <3>2
  <2> QED
    BY <2>2, <2>3
<1>4. Steady /\ Sound(src) /\ Sound(dst) /\ Bytes(todo) \subseteq Bytes(Content(src.chunks)) =>
        /\ Sound(src') /\ Sound(dst') /\ Bytes(todo') \subseteq Bytes(Content(src'.chunks))
        /\ \/ Pending' = Pending /\ arrived' = arrived /\ failed' = failed
           \/ Bytes(Pending) \subseteq Bytes(Pending') /\ arrived' = arrived /\ failed' = TRUE
  BY <1>3
<1>5. src' \in Queue /\ src'.stale >= src.stale /\ dst'.stale >= dst.stale
  BY <1>1, QueueType DEF Holds
<1>6. Streamed'
  BY <1>1, <1>4, <1>5, StreamStep
<1> QED
  BY <1>2, <1>6

LEMMA StealToFilesStep ==
  ASSUME Inv, NEW k \in 1 .. MaxBytes, StealToFiles(k)
  PROVE  Inv'
<1>1. /\ src' = src /\ dst' = dst /\ tempdir_idx' = tempdir_idx /\ pc = "idle" /\ pc' = "steal"
      /\ len' = k /\ k <= Length(src.chunks) /\ piece' = piece /\ todo' = todo
      /\ close_rc' = 0 /\ log' = "none" /\ arrived' = arrived /\ out' = out /\ failed' = failed
  BY DEF StealToFiles, Idle, queues, history
<1>2. TypeOK'
  <2>1. len' \in Int /\ close_rc' \in {0, -1}
    BY <1>1, LimitsAssumption
  <2>2. UNCHANGED <<src, dst, tempdir_idx, piece, todo, arrived, out, failed>> /\ pc' = "steal" /\ log' = "none"
    BY <1>1
  <2> QED
    BY <2>1, <2>2 DEF Inv, TypeOK
<1>3. CallState'
  BY <1>1 DEF Inv, CallState
<1>4. Accounting' /\ Streamed'
  <2>1. Holds(dst', dst)
    BY <1>1, StateType, SameBytesHolds DEF Inv
  <2> QED
    BY <1>1, <2>1, HoldStep DEF Inv
<1> QED
  BY <1>2, <1>3, <1>4 DEF Inv

LEMMA StealDoneStep ==
  ASSUME Inv, StealDone
  PROVE  Inv'
<1>1. /\ src' = src /\ dst' = dst /\ tempdir_idx' = tempdir_idx /\ pc = "steal" /\ pc' = "idle"
      /\ len' = 0 /\ piece' = piece /\ todo' = todo
      /\ close_rc' = close_rc /\ log' = log /\ arrived' = arrived /\ out' = out /\ failed' = failed
  BY DEF StealDone, queues, history
<1>2. TypeOK'
  <2>1. len' \in Int
    BY <1>1
  <2>2. UNCHANGED <<src, dst, tempdir_idx, piece, todo, close_rc, log, arrived, out, failed>> /\ pc' = "idle"
    BY <1>1
  <2> QED
    BY <2>1, <2>2 DEF Inv, TypeOK
<1>3. CallState'
  BY <1>1 DEF Inv, CallState
<1>4. Accounting' /\ Streamed'
  <2>1. Holds(dst', dst)
    BY <1>1, StateType, SameBytesHolds DEF Inv
  <2> QED
    BY <1>1, <2>1, HoldStep DEF Inv
<1> QED
  BY <1>2, <1>3, <1>4 DEF Inv

LEMMA WriteStep ==
  ASSUME Inv, NEW k \in 1 .. MaxBytes, Write(k)
  PROVE  Inv'
<1>1. /\ src' = src /\ dst' = MarkWritten(dst, k) /\ tempdir_idx' = tempdir_idx /\ pc = "idle" /\ pc' = pc
      /\ len' = len /\ piece' = piece /\ todo' = todo
      /\ close_rc' = close_rc /\ log' = log /\ arrived' = arrived /\ failed' = failed
      /\ out' = out \o SubSeq(Content(dst.chunks), 1, k) /\ k <= Length(dst.chunks)
  BY DEF Write, Idle, callVars
<1>2. /\ src \in Queue /\ dst \in Queue /\ out \in Seq(Nat) /\ todo = <<>> /\ piece = 0 /\ k \in Nat
      /\ Content(dst.chunks) \in Seq(Nat) /\ Content(src.chunks) \in Seq(Nat)
  BY <1>1, StateType, LimitsAssumption, QueueType DEF Inv, CallState
<1>3. /\ dst' \in Queue /\ Balance(dst') = Balance(dst) /\ dst'.stale = dst.stale
      /\ Sound(dst) => /\ Sound(dst')
                       /\ Content(dst.chunks) = Join(SubSeq(Content(dst.chunks), 1, k), Content(dst'.chunks))
  BY <1>1, <1>2, MarkWrittenEffect
<1> DEFINE w == SubSeq(Content(dst.chunks), 1, k)
<1>4. w \in Seq(Nat) /\ out' = Join(out, w) /\ out' \in Seq(Nat)
  <2>1. Length(dst.chunks) <= Len(Content(dst.chunks)) /\ Length(dst.chunks) \in Int
        /\ Len(Content(dst.chunks)) \in Nat
    BY <1>2, QueueType, ContentAtLeast, LenProperties
  <2>2. k \in 0 .. Len(Content(dst.chunks))
    BY <1>1, <1>2, <2>1
  <2>3. w \in Seq(Nat)
    BY <1>2, <2>2, SplitAt
  <2> HIDE DEF w
  <2>4. out' = Join(out, w)
    BY <1>1 DEF w, Join
  <2> QED
    BY <1>2, <2>3, <2>4, JoinFacts
<1> HIDE DEF w
<1>5. TypeOK'
  BY <1>1, <1>3, <1>4 DEF Inv, TypeOK
<1>6. Accounting'
  <2>1. Balance(src) = 0 /\ Balance(dst) = 0
    BY <1>2, InBalance DEF Inv, Accounting
  <2>2. /\ src'.bytes_in - src'.bytes_out = Length(src'.chunks)
        /\ dst'.bytes_in - dst'.bytes_out = Length(dst'.chunks)
    BY <1>1, <1>2, <1>3, <2>1, InBalance
  <2> QED
    BY <2>2 DEF Accounting
<1>7. CallState'
  BY <1>1, <1>2 DEF CallState
<1>8. Streamed'
  <2>1. ASSUME Sound(src), Sound(dst), Bytes(todo) \subseteq Bytes(Content(src.chunks))
        PROVE  /\ Sound(src') /\ Sound(dst') /\ Bytes(todo') \subseteq Bytes(Content(src'.chunks))
               /\ Pending' = Pending /\ arrived' = arrived /\ failed' = failed
    <3> DEFINE a == Content(dst.chunks)
               b == Content(src.chunks)
               c == Content(dst'.chunks)
    <3>1. a = Join(w, c) /\ c \in Seq(Nat)
      BY <1>3, <2>1, QueueType DEF w
    <3>2. Pending = Line(out, dst, <<>>, src, 0) /\ Pending' = Line(out', dst', <<>>, src, 0)
      BY <1>1, <1>2 DEF Pending
    <3>3. Pending = Join(Join(out, a), b) /\ Pending' = Join(Join(out', c), b)
      <4>1. <<>> \in Seq(Nat) /\ 0 \in Nat
        BY EmptySeq
      <4> QED
        BY <1>2, <1>3, <1>4, <3>2, <4>1, LineFacts
    <3> HIDE DEF a, b, c
    <3>4. Pending' = Pending
      BY <1>2, <1>4, <3>1, <3>3, JoinAssociative
    <3> QED
      BY <1>1, <1>3, <2>1, <3>4
  <2>2. src' \in Queue /\ src'.stale >= src.stale /\ dst'.stale >= dst.stale
    BY <1>1, <1>2, <1>3, QueueType
  <2>3. Steady /\ Sound(src) /\ Sound(dst) /\ Bytes(todo) \subseteq Bytes(Content(src.chunks)) =>
          /\ Sound(src') /\ Sound(dst') /\ Bytes(todo') \subseteq Bytes(Content(src'.chunks))
          /\ Pending' = Pending /\ arrived' = arrived /\ failed' = failed
    BY <2>1
  <2> QED
    BY <1>3, <2>2, <2>3, StreamStep DEF Inv
<1> QED
  BY <1>5, <1>6, <1>7, <1>8 DEF Inv

LEMMA ResetStep ==
  ASSUME Inv, Reset
  PROVE  Inv'
<1>1. /\ src \in Queue /\ dst \in Queue /\ out \in Seq(Nat) /\ todo = <<>> /\ piece = 0 /\ pc = "idle"
      /\ len' = len /\ piece' = piece /\ todo' = todo /\ close_rc' = close_rc /\ log' = log
  BY StateType DEF Inv, CallState, Reset, Idle
<1>2. CASE /\ pc' = "fault" /\ src' = src /\ dst' = dst /\ tempdir_idx' = tempdir_idx
           /\ arrived' = arrived /\ out' = out /\ failed' = failed
  <2>1. TypeOK'
    <3>1. /\ pc' = "fault"
          /\ UNCHANGED <<src, dst, tempdir_idx, len, piece, todo, close_rc, log, arrived, out, failed>>
      BY <1>1, <1>2, Zenon
    <3> QED
      BY <3>1, ZenonT(30) DEF Inv, TypeOK
  <2>2. CallState'
    BY <1>2 DEF CallState
  <2>3. Holds(dst', dst)
    BY <1>1, <1>2, SameBytesHolds
  <2>4. Accounting' /\ Streamed'
    BY <1>1, <1>2, <2>3, HoldStep DEF Inv
  <2> QED
    BY <2>1, <2>2, <2>4 DEF Inv
<1>3. CASE /\ src' = ResetQueue(src) /\ dst' = ResetQueue(dst) /\ tempdir_idx' = 0
           /\ arrived' = 0 /\ out' = <<>> /\ failed' = FALSE /\ pc' = pc
  <2>1. /\ src' \in Queue /\ Balance(src') = 0 /\ src'.stale = src.stale
        /\ Sound(src') /\ Content(src'.chunks) = <<>>
        /\ dst' \in Queue /\ Balance(dst') = 0 /\ dst'.stale = dst.stale
        /\ Sound(dst') /\ Content(dst'.chunks) = <<>>
    BY <1>1, <1>3, ResetEffect
  <2>2. out' \in Seq(Nat) /\ <<>> \in Seq(Nat) /\ Len(<<>>) = 0
    BY <1>3, EmptySeq
  <2>3. TypeOK'
    <3>1. tempdir_idx' \in 0 .. TempDirs
      <4>1. 0 \in 0 .. TempDirs
        BY LimitsAssumption
      <4> QED
        BY <1>3, <4>1, Zenon
    <3>3. arrived' \in 0 .. MaxBytes
      <4>1. 0 \in 0 .. MaxBytes
        BY LimitsAssumption
      <4> QED
        BY <1>3, <4>1, Zenon
    <3>4. failed' \in BOOLEAN
      <4>1. FALSE \in BOOLEAN
        OBVIOUS
      <4> QED
        BY <1>3, <4>1, Zenon
    <3>2. src' \in Queue /\ dst' \in Queue /\ out' \in Seq(Nat) /\ UNCHANGED <<pc, len, piece, todo, close_rc, log>>
      BY <1>1, <1>3, <2>1, <2>2, Zenon
    <3> QED
      BY <3>1, <3>2, <3>3, <3>4, Zenon DEF Inv, TypeOK
  <2>4. CallState'
    BY <1>1, <1>3 DEF CallState
  <2>5. Accounting'
    <3>1. /\ src'.bytes_in - src'.bytes_out = Length(src'.chunks)
          /\ dst'.bytes_in - dst'.bytes_out = Length(dst'.chunks)
      BY <2>1, InBalance
    <3> QED
      BY <3>1 DEF Accounting
  <2>6. Streamed'
    <3>1. Bytes(todo') = {}
      <4>1. todo' = <<>>
        BY <1>1
      <4> QED
        BY <2>2, <4>1 DEF Bytes
    <3>2. Pending' = <<>>
      <4> DEFINE none == <<>>
      <4>1. none \in Seq(Nat) /\ Pending' = Line(none, dst', <<>>, src', 0)
        BY <1>1, <1>3, <2>2 DEF Pending
      <4>2. Content(dst'.chunks) = none /\ Content(src'.chunks) = none /\ Join(none, none) = none
        BY <2>1, <2>2, JoinFacts
      <4> HIDE DEF none
      <4>3. Pending' = Join(Join(none, Content(dst'.chunks)), Content(src'.chunks))
        BY <2>1, <4>1, LineFacts
      <4>4. Pending' = none
        BY <4>2, <4>3
      <4> QED
        BY <4>4 DEF none
    <3>3. Sound(src') /\ Sound(dst') /\ Bytes(todo') \subseteq Bytes(Content(src'.chunks))
      BY <2>1, <3>1
    <3>4. src'.stale >= src.stale /\ dst'.stale >= dst.stale
      BY <1>1, <2>1, QueueType
    <3> QED
      BY <1>3, <2>1, <3>2, <3>3, <3>4, StreamStep DEF Inv
  <2> QED
    BY <2>3, <2>4, <2>5, <2>6 DEF Inv
<1> QED
  BY <1>2, <1>3 DEF Reset, queues, history

\* What the loop takes from the chunk at the head.
LEMMA UseFacts ==
  ASSUME Inv, pc = "steal", len > 0
  PROVE  /\ src \in Queue /\ dst \in Queue /\ len \in Int /\ len <= Length(src.chunks)
         /\ piece = 0 /\ todo = <<>> /\ ~IsEmpty(src) /\ Head(src.chunks) \in ChunkRecord
         /\ Remaining(Head(src.chunks)) \in Int /\ Use \in Int /\ Use <= Remaining(Head(src.chunks))
         /\ \/ Use = Remaining(Head(src.chunks))
            \/ Use = len /\ Use < Remaining(Head(src.chunks))
<1>1. /\ src \in Queue /\ dst \in Queue /\ len \in Int /\ len <= Length(src.chunks)
      /\ piece = 0 /\ todo = <<>>
  BY StateType DEF Inv, CallState
<1>2. ~IsEmpty(src)
  <2>1. Length(src.chunks) > 0
    BY <1>1, QueueType
  <2> QED
    BY <1>1, <2>1, NotEmpty
<1>3. Head(src.chunks) \in ChunkRecord /\ Remaining(Head(src.chunks)) \in Int
  BY <1>1, <1>2, SoundHead, RemainingType
<1> QED
  BY <1>1, <1>2, <1>3 DEF Use

LEMMA StealFileStep ==
  ASSUME Inv, StealFile
  PROVE  Inv'
<1> DEFINE c == Head(src.chunks)
           r == Remaining(c)
<1>1. /\ pc = "steal" /\ len > 0 /\ r # 0 /\ len' = len - Use
      /\ UNCHANGED <<tempdir_idx, pc, piece, todo, close_rc, log, history>>
  BY DEF StealFile
<1>2. /\ src \in Queue /\ dst \in Queue /\ len \in Int /\ len <= Length(src.chunks)
      /\ ~IsEmpty(src) /\ c \in ChunkRecord /\ r \in Int /\ Use \in Int /\ Use <= r
      /\ Use = r \/ (Use = len /\ Use < r)
  BY <1>1, UseFacts
<1>3. Moves(dst', src', dst, src) /\ Length(src'.chunks) = Length(src.chunks) - Use
  <2>1. CASE Use = r
    <3> DEFINE b == src.bytes_out + Use
               h == Tail(src.chunks)
               f == [src EXCEPT !.chunks = h, !.bytes_out = b]
    <3>1. dst' = AppendChunk(dst, c) /\ src' = f
      BY <2>1 DEF StealFile
    <3>2. b \in Int /\ h \in Seq(ChunkRecord)
      BY <1>2, QueueType, SoundHead
    <3>3. f \in Queue /\ f.chunks = h /\ f.bytes_in = src.bytes_in /\ f.stale = src.stale /\ f.bytes_out = b
      <4> HIDE DEF b, h
      <4> QED
        BY <1>2, <3>2 DEF Queue
    <3>4. src'.bytes_out = src.bytes_out + r
      BY <2>1, <3>1, <3>3
    <3> HIDE DEF f
    <3>5. src' \in Queue /\ src'.chunks = Tail(src.chunks) /\ src'.bytes_in = src.bytes_in
          /\ src'.stale = src.stale
      BY <3>1, <3>3
    <3>6. Moves(AppendChunk(dst, c), src', dst, src) /\ Length(src'.chunks) = Length(src.chunks) - r
      BY <1>2, <3>4, <3>5, MoveChunk
    <3> QED
      BY <2>1, <3>1, <3>6
  <2>2. CASE Use # r
    <3>1. Use \in Nat \ {0} /\ Use < r
      BY <1>1, <1>2, <2>2
    <3> DEFINE u == Use
               part == SubSeq(Unread(c), 1, u)
               v == Advance(src, u)
               b == v.bytes_out + u
               f == [v EXCEPT !.bytes_out = b]
    <3>2. dst' = AppendFresh(dst, Chunk("file", part)) /\ src' = f
      BY <2>2 DEF StealFile
    <3>3. u \in Nat \ {0} /\ u < r /\ c.offset \in Nat
      BY <1>2, <3>1 DEF ChunkRecord
    <3> HIDE DEF u
    <3>4. v \in Queue /\ SameCounts(v, src)
      BY <1>2, <3>3, AdvanceEffect
    <3>5. b \in Int /\ b = src.bytes_out + u
      BY <1>2, <3>3, <3>4, QueueType DEF SameCounts
    <3>6. f \in Queue /\ f.chunks = v.chunks /\ f.bytes_in = v.bytes_in /\ f.stale = v.stale /\ f.bytes_out = b
      <4> HIDE DEF b, v
      <4> QED
        BY <3>4, <3>5 DEF Queue
    <3> HIDE DEF f, b
    <3>7. /\ src' \in Queue /\ src'.chunks = Advance(src, u).chunks /\ src'.bytes_in = src.bytes_in
          /\ src'.bytes_out = src.bytes_out + u /\ src'.stale = src.stale
      BY <3>2, <3>4, <3>5, <3>6 DEF SameCounts
    <3> HIDE DEF v
    <3>8. part \in Seq(Nat)
      <4>1. Unread(c) \in Seq(Nat) /\ Len(Unread(c)) \in Nat /\ r <= Len(Unread(c))
        BY <1>2, UnreadAtLeast
      <4>2. u \in 0 .. Len(Unread(c))
        BY <1>2, <3>3, <4>1
      <4> QED
        BY <4>1, <4>2, SplitAt
    <3>9. PICK d \in ChunkRecord :
            /\ Appended(dst', dst, d) /\ dst'.stale = dst.stale
            /\ d \in SoundChunk /\ Unread(d) = part
      BY <1>2, <3>2, <3>8, PartChunk
    <3>10. Moves(dst', src', dst, src) /\ Length(src'.chunks) = Length(src.chunks) - u
      BY <1>2, <3>3, <3>7, <3>9, MovePart
    <3> QED
      BY <3>10 DEF u
  <2> QED
    BY <2>1, <2>2
<1>4. len' \in Int /\ len' <= Length(src'.chunks)
  <2>1. Length(src.chunks) \in Int
    BY <1>2, QueueType
  <2> QED
    BY <1>1, <1>2, <1>3, <2>1
<1> QED
  BY <1>1, <1>3, <1>4, QueuesStep

LEMMA StealMemStep ==
  ASSUME Inv, StealMem
  PROVE  Inv'
<1> DEFINE c == Head(src.chunks)
           r == Remaining(c)
<1>1. /\ pc = "steal" /\ len > 0 /\ r # 0
      /\ UNCHANGED <<src, dst, tempdir_idx, close_rc, log, arrived, out, failed>>
  BY DEF StealMem, queues, history
<1>2. /\ src \in Queue /\ dst \in Queue /\ len \in Int /\ len <= Length(src.chunks)
      /\ piece = 0 /\ todo = <<>>
      /\ ~IsEmpty(src) /\ c \in ChunkRecord /\ r \in Int /\ Use \in Int /\ Use <= r
      /\ Use = r \/ (Use = len /\ Use < r)
  BY <1>1, UseFacts
<1>3. Holds(dst, dst) /\ Length(src.chunks) \in Int /\ out \in Seq(Nat)
  BY <1>2, SameBytesHolds, QueueType, StateType DEF Inv
<1>4. CASE pc' = "fault" /\ UNCHANGED <<len, piece, todo>>
  <2>1. TypeOK'
    BY <1>1, <1>4 DEF Inv, TypeOK
  <2>2. CallState'
    BY <1>4 DEF CallState
  <2>3. Accounting' /\ Streamed'
    BY <1>1, <1>3, <1>4, HoldStep DEF Inv
  <2> QED
    BY <2>1, <2>2, <2>3 DEF Inv
<1>5. CASE /\ ~(Use < 0) /\ pc' = "tempfile" /\ len' = len - Use /\ piece' = Use
           /\ todo' = SubSeq(Unread(c), 1, Use)
  <2>1. Use \in Nat \ {0}
    BY <1>1, <1>2, <1>5
  <2>2. Unread(c) \in Seq(Nat) /\ Use \in 0 .. Len(Unread(c))
    <3>1. Unread(c) \in Seq(Nat) /\ Len(Unread(c)) \in Nat /\ r <= Len(Unread(c))
      BY <1>2, UnreadAtLeast
    <3> QED
      BY <1>2, <2>1, <3>1
  <2>3. todo' \in Seq(Nat)
    BY <1>5, <2>2, SplitAt
  <2>4. TypeOK'
    <3>1. piece' \in Nat /\ len' \in Int
      BY <1>2, <1>5, <2>1
    <3> QED
      BY <1>1, <1>5, <2>3, <3>1 DEF Inv, TypeOK
  <2>5. CallState'
    <3>1. piece' # 0 /\ piece' <= r /\ len' <= Length(src.chunks) - piece'
      BY <1>2, <1>3, <1>5, <2>1
    <3> QED
      BY <1>1, <1>2, <1>5, <3>1 DEF CallState
  <2>6. Accounting'
    BY <1>1 DEF Inv, Accounting
  <2>7. Streamed'
    <3>1. ASSUME Sound(src), Sound(dst)
          PROVE  Bytes(todo') \subseteq Bytes(Content(src'.chunks)) /\ Pending' = Pending
      <4> DEFINE b == Content(src.chunks)
                 u == Use
                 first == SubSeq(b, 1, u)
                 none == <<>>
                 zero == 0
      <4>1. u \in 0 .. Len(b) /\ SubSeq(b, 1, u) = SubSeq(Unread(c), 1, u) /\ b \in Seq(Nat) /\ u \in Nat
        BY <1>2, <2>1, <3>1, ConsumedEffect, QueueType
      <4>2. todo' = first /\ piece' = u
        BY <1>5, <4>1
      <4>3. none \in Seq(Nat) /\ zero \in Nat /\ Pending = Line(out, dst, none, src, zero)
        BY <1>2, EmptySeq DEF Pending
      <4> HIDE DEF u
      <4>4. first \in Seq(Nat) /\ Rest(b, u) \in Seq(Nat) /\ b = Join(first, Rest(b, u))
        BY <4>1, SplitAt DEF Join, Rest
      <4>5. Bytes(b) = Bytes(first) \union Bytes(Rest(b, u))
        BY <4>4, BytesJoin
      <4>6. Pending' = Join(Join(Join(out, Content(dst.chunks)), first), Rest(b, u))
        BY <1>1, <4>2 DEF Pending, Line
      <4>7. Pending = Join(Join(out, Content(dst.chunks)), b)
        BY <1>2, <1>3, <4>3, LineFacts
      <4>8. Join(out, Content(dst.chunks)) \in Seq(Nat)
        BY <1>2, <1>3, QueueType, JoinFacts
      <4> HIDE DEF first, b
      <4>9. Pending' = Pending
        BY <4>4, <4>6, <4>7, <4>8, JoinAssociative
      <4>10. Bytes(todo') \subseteq Bytes(b)
        BY <4>2, <4>5
      <4> QED
        BY <1>1, <4>9, <4>10 DEF b
    <3>2. Steady /\ Sound(src) /\ Sound(dst) /\ Bytes(todo) \subseteq Bytes(Content(src.chunks)) =>
            /\ Sound(src') /\ Sound(dst') /\ Bytes(todo') \subseteq Bytes(Content(src'.chunks))
            /\ Pending' = Pending /\ arrived' = arrived /\ failed' = failed
      BY <1>1, <3>1
    <3>3. src' \in Queue /\ dst' \in Queue /\ src'.stale >= src.stale /\ dst'.stale >= dst.stale
      BY <1>1, <1>2, QueueType
    <3> QED
      BY <3>2, <3>3, StreamStep DEF Inv
  <2> QED
    BY <2>4, <2>5, <2>6, <2>7 DEF Inv
<1> QED
  BY <1>4, <1>5 DEF StealMem

\* How a turn of a move into temporary files ends in which no byte is moved: the
\* move goes on, or it is given up.
GoesOn ==
  /\ pc' \in {"tempfile", "write", "fault"}
  /\ pc' = "write" => ~IsEmpty(dst')
  /\ UNCHANGED <<len, piece, todo, log, failed>>

GivenUp ==
  /\ pc' = "idle" /\ len' = 0 /\ piece' = 0 /\ todo' = <<>> /\ failed' = TRUE
  /\ log' \in {"none", "open failed", "write failed", "close failed"}

LEMMA FileStep ==
  ASSUME Inv, pc = "tempfile" \/ pc = "write", GoesOn \/ GivenUp, Holds(dst', dst),
         UNCHANGED <<src, arrived, out>>, tempdir_idx' \in 0 .. TempDirs, close_rc' \in {0, -1}
  PROVE  Inv'
<1>1. src' = src /\ arrived' = arrived /\ out' = out /\ dst' \in Queue
  BY DEF Holds
<1>2. Accounting' /\ Streamed'
  BY <1>1, HoldStep DEF Inv, GoesOn, GivenUp
<1>3. CASE GoesOn
  <2>1. TypeOK'
    <3>1. /\ pc' \in {"idle", "steal", "tempfile", "write", "fault"} /\ dst' \in Queue
          /\ tempdir_idx' \in 0 .. TempDirs /\ close_rc' \in {0, -1}
          /\ UNCHANGED <<src, len, piece, todo, log, arrived, out, failed>>
      BY <1>1, <1>3 DEF GoesOn
    <3> QED
      BY <3>1 DEF Inv, TypeOK
  <2>2. CallState'
    BY <1>1, <1>3 DEF Inv, CallState, GoesOn
  <2> QED
    BY <1>2, <2>1, <2>2 DEF Inv
<1>4. CASE GivenUp
  <2>1. TypeOK'
    <3>1. len' \in Int /\ piece' \in Nat /\ todo' \in Seq(Nat) /\ failed' \in BOOLEAN
      <4>1. <<>> \in Seq(Nat) /\ 0 \in Nat /\ 0 \in Int /\ TRUE \in BOOLEAN
        BY EmptySeq
      <4> QED
        BY <1>4, <4>1, Zenon DEF GivenUp
    <3>2. /\ pc' \in {"idle", "steal", "tempfile", "write", "fault"} /\ dst' \in Queue
          /\ log' \in {"none", "open failed", "write failed", "close failed"}
          /\ tempdir_idx' \in 0 .. TempDirs /\ close_rc' \in {0, -1}
          /\ UNCHANGED <<src, arrived, out>>
      BY <1>1, <1>4 DEF GivenUp
    <3> QED
      BY <3>1, <3>2, ZenonT(30) DEF Inv, TypeOK
  <2>2. CallState'
    BY <1>4 DEF CallState, GivenUp
  <2> QED
    BY <1>2, <2>1, <2>2 DEF Inv
<1> QED
  BY <1>3, <1>4

LEMMA KeepTempFileStep ==
  ASSUME Inv, KeepTempFile
  PROVE  Inv'
<1>1. /\ pc = "tempfile" /\ pc' = "write" /\ ~IsEmpty(dst)
      /\ UNCHANGED <<src, dst, tempdir_idx, len, piece, todo, close_rc, log, arrived, out, failed>>
  BY DEF KeepTempFile, OpenTempFile, Goto, queues, history
<1>2. Holds(dst', dst)
  BY <1>1, StateType, SameBytesHolds DEF Inv
<1>3. GoesOn
  BY <1>1 DEF GoesOn
<1>4. tempdir_idx' \in 0 .. TempDirs /\ close_rc' \in {0, -1}
  BY <1>1 DEF Inv, TypeOK
<1> QED
  BY <1>1, <1>2, <1>3, <1>4, FileStep

LEMMA HoldsTransitive ==
  ASSUME NEW p, NEW q, NEW r \in Queue, Holds(p, q), Holds(q, r)
  PROVE  Holds(p, r)
<1>1. p.stale \in Nat /\ q.stale \in Nat /\ r.stale \in Nat
  BY QueueType DEF Holds
<1>2. p.stale >= q.stale /\ q.stale >= r.stale
  BY DEF Holds
<1>3. p.stale >= r.stale /\ (p.stale = r.stale => p.stale = q.stale /\ q.stale = r.stale)
  BY <1>1, <1>2
<1> QED
  BY <1>3 DEF Holds

\* A new temporary file brings no byte.
LEMMA TempFileEffect ==
  ASSUME NEW q \in Queue
  PROVE  LET p == AppendStale(q, TempFile) IN Holds(p, q) /\ ~IsEmpty(p)
<1> DEFINE p == AppendStale(q, TempFile)
           c == TempFile
<1>1. c \in ChunkRecord /\ c.data = <<>> /\ c.offset = 0 /\ c \in SoundChunk
  BY ChunkType
<1> HIDE DEF c
<1>2. PICK d \in ChunkRecord :
        /\ Appended(AppendStale(q, c), q, d)
        /\ \/ AppendStale(q, c).stale = q.stale /\ d = c
           \/ AppendStale(q, c).stale = q.stale + 1
  BY <1>1, AppendStaleEffect
<1>3. Appended(p, q, d) /\ (p.stale = q.stale + 1 \/ (p.stale = q.stale /\ d = c))
  BY <1>2 DEF c
<1> HIDE DEF p
<1>4. q.stale \in Nat /\ q.stale # q.stale + 1 /\ Content(q.chunks) \in Seq(Nat)
  BY QueueType
<1>5. p.stale >= q.stale
  BY <1>3, <1>4
<1>6. /\ p \in Queue /\ Balance(p) = Balance(q) /\ ~IsEmpty(p)
      /\ Content(p.chunks) = Join(Content(q.chunks), Unread(d))
      /\ Sound(q) /\ d \in SoundChunk => Sound(p)
  BY <1>3, AppendedEffect
<1>7. Unread(c) = <<>>
  <2>1. Unread(c) = c.data
    BY <1>1, UnreadLength
  <2> QED
    BY <1>1, <2>1
<1>8. ASSUME p.stale = q.stale, Sound(q) PROVE Sound(p) /\ Content(p.chunks) = Content(q.chunks)
  <2>1. d = c
    BY <1>3, <1>4, <1>8
  <2>2. Join(Content(q.chunks), <<>>) = Content(q.chunks)
    BY <1>4, JoinFacts
  <2> QED
    BY <1>1, <1>6, <1>7, <1>8, <2>1, <2>2
<1>9. Holds(p, q)
  BY <1>5, <1>6, <1>8 DEF Holds
<1> QED
  BY <1>6, <1>9 DEF p

LEMMA NewTempFileStep ==
  ASSUME Inv, NewTempFile
  PROVE  Inv'
<1> DEFINE closed == IF OpenTempFile THEN CloseLast(dst) ELSE dst
<1>1. /\ pc = "tempfile" /\ src' = src /\ close_rc' \in {0, -1}
      /\ \/ dst' = closed /\ GiveUp("close failed") /\ UNCHANGED tempdir_idx
         \/ /\ \E i \in tempdir_idx .. TempDirs - 1 : tempdir_idx' = i
            /\ dst' = AppendStale(closed, TempFile) /\ Goto("write")
         \/ /\ dst' = closed /\ tempdir_idx' \in tempdir_idx .. TempDirs
            /\ GiveUp("open failed")
         \/ dst' = closed /\ Goto("fault") /\ UNCHANGED tempdir_idx
  BY DEF NewTempFile
<1>2. src \in Queue /\ dst \in Queue /\ tempdir_idx \in 0 .. TempDirs /\ TempDirs \in Nat
  BY LimitsAssumption DEF Inv, TypeOK
<1>3. Holds(closed, dst)
  <2>1. CASE OpenTempFile
    <3>1. SameBytes(CloseLast(dst), dst)
      BY <1>2, <2>1, CloseLastEffect DEF OpenTempFile
    <3> QED
      BY <1>2, <2>1, <3>1, SameBytesHolds
  <2>2. CASE ~OpenTempFile
    BY <1>2, <2>2, SameBytesHolds
  <2> QED
    BY <2>1, <2>2
<1> HIDE DEF closed
<1>4. ASSUME dst' = closed, GiveUp("close failed") \/ GiveUp("open failed") \/ Goto("fault"),
             tempdir_idx' \in 0 .. TempDirs
      PROVE  Inv'
  <2>1. GoesOn \/ GivenUp
    BY <1>4 DEF GiveUp, Goto, GoesOn, GivenUp, history
  <2>2. UNCHANGED <<src, arrived, out>>
    BY <1>1, <1>4 DEF GiveUp, Goto, history
  <2> QED
    BY <1>1, <1>3, <1>4, <2>1, <2>2, FileStep
<1>5. CASE \E i \in tempdir_idx .. TempDirs - 1 :
             tempdir_idx' = i /\ dst' = AppendStale(closed, TempFile) /\ Goto("write")
  <2>1. tempdir_idx' \in 0 .. TempDirs
    BY <1>2, <1>5
  <2>2. closed \in Queue
    BY <1>3 DEF Holds
  <2>3. Holds(dst', closed) /\ ~IsEmpty(dst')
    BY <1>5, <2>2, TempFileEffect
  <2>4. Holds(dst', dst)
    BY <1>2, <1>3, <2>3, HoldsTransitive
  <2>5. GoesOn /\ UNCHANGED <<src, arrived, out>>
    BY <1>1, <1>5, <2>3 DEF Goto, GoesOn, history
  <2> QED
    BY <1>1, <2>1, <2>4, <2>5, FileStep
<1>6. CASE tempdir_idx' \in tempdir_idx .. TempDirs
  <2>1. tempdir_idx' \in 0 .. TempDirs
    BY <1>2, <1>6
  <2> QED
    BY <1>1, <1>4, <1>5, <2>1
<1>7. CASE UNCHANGED tempdir_idx
  <2>1. tempdir_idx' \in 0 .. TempDirs
    BY <1>2, <1>7
  <2> QED
    BY <1>1, <1>4, <1>5, <2>1
<1> QED
  BY <1>1, <1>5, <1>6, <1>7

LEMMA WriteFailsStep ==
  ASSUME Inv, NEW nospace \in BOOLEAN, WriteFails(nospace)
  PROVE  Inv'
<1>1. pc = "write" /\ src' = src
  BY DEF WriteFails
<1>2. tempdir_idx' \in 0 .. TempDirs
  <2>1. tempdir_idx \in 0 .. TempDirs /\ TempDirs \in Nat
    BY LimitsAssumption DEF Inv, TypeOK
  <2>2. tempdir_idx' = tempdir_idx \/ (tempdir_idx' = tempdir_idx + 1 /\ tempdir_idx < TempDirs)
    BY DEF WriteFails
  <2> QED
    BY <2>1, <2>2
<1>3. dst \in Queue /\ ~IsEmpty(dst)
  BY <1>1, StateType DEF Inv, CallState
<1>4. Holds(dst', dst)
  <2>1. dst' = RemoveEmpty(dst).queue \/ dst' = CloseLast(dst)
    BY DEF WriteFails
  <2>2. SameBytes(dst', dst)
    BY <1>3, <2>1, RemoveEmptyEffect, CloseLastEffect
  <2> QED
    BY <1>3, <2>2, SameBytesHolds
<1>5. close_rc' \in {0, -1}
  BY DEF WriteFails, Inv, TypeOK
<1>6. Goto("fault") \/ Goto("tempfile") \/ GiveUp("write failed") \/ GiveUp("close failed")
  BY DEF WriteFails
<1>7. (GoesOn \/ GivenUp) /\ UNCHANGED <<src, arrived, out>>
  BY <1>1, <1>6 DEF Goto, GiveUp, GoesOn, GivenUp, history
<1> QED
  BY <1>1, <1>2, <1>4, <1>5, <1>7, FileStep

\* k bytes of todo come to the end of dst.
LEMMA GrowEffect ==
  ASSUME NEW q \in Queue, ~IsEmpty(q), todo \in Seq(Nat), NEW k \in 0 .. Len(todo)
  PROVE  /\ SubSeq(todo, 1, k) \in Seq(Nat)
         /\ Grow(q, k) \in Queue /\ Balance(Grow(q, k)) = Balance(q)
         /\ Grow(q, k).stale = q.stale /\ ~IsEmpty(Grow(q, k))
         /\ Sound(q) => /\ Sound(Grow(q, k))
                        /\ Content(Grow(q, k).chunks) = Join(Content(q.chunks), SubSeq(todo, 1, k))
<1> DEFINE x == SubSeq(todo, 1, k)
<1>1. x \in Seq(Nat) /\ Len(x) = k
  BY SplitAt
<1>2. Grow(q, k) = UseMemory(q, x)
  BY <1>1 DEF Grow, UseMemory
<1> HIDE DEF x
<1>3. /\ UseMemory(q, x) \in Queue /\ Balance(UseMemory(q, x)) = Balance(q)
      /\ UseMemory(q, x).stale = q.stale /\ ~IsEmpty(UseMemory(q, x))
      /\ Sound(q) => /\ Sound(UseMemory(q, x))
                     /\ Content(UseMemory(q, x).chunks) = Join(Content(q.chunks), x)
  BY <1>1, UseMemoryEffect
<1> QED
  BY <1>1, <1>2, <1>3 DEF x

LEMMA WriteAllStep ==
  ASSUME Inv, WriteAll
  PROVE  Inv'
<1> DEFINE n == Len(todo)
<1>1. /\ pc = "write" /\ dst' = Grow(dst, n) /\ src' = Consumed(src, piece)
      /\ piece' = 0 /\ todo' = <<>> /\ pc' = "steal"
      /\ UNCHANGED <<tempdir_idx, len, close_rc, log, arrived, out, failed>>
  BY DEF WriteAll, history
<1>2. /\ src \in Queue /\ dst \in Queue /\ out \in Seq(Nat) /\ todo \in Seq(Nat) /\ piece \in Nat
      /\ len \in Int /\ ~IsEmpty(src) /\ ~IsEmpty(dst) /\ piece <= Remaining(Head(src.chunks))
      /\ len <= Length(src.chunks) - piece
  BY <1>1, StateType DEF Inv, CallState
<1>3. n \in 0 .. Len(todo) /\ SubSeq(todo, 1, n) = todo
  BY <1>2, LenProperties, SubSeqFull
<1> HIDE DEF n
<1>4. /\ dst' \in Queue /\ Balance(dst') = Balance(dst) /\ dst'.stale = dst.stale
      /\ Sound(dst) => Sound(dst') /\ Content(dst'.chunks) = Join(Content(dst.chunks), todo)
  BY <1>1, <1>2, <1>3, GrowEffect
<1>5. /\ src' \in Queue /\ Balance(src') = Balance(src) /\ src'.stale = src.stale
      /\ Length(src'.chunks) = Length(src.chunks) - piece
      /\ Sound(src) => Sound(src') /\ Content(src'.chunks) = Rest(Content(src.chunks), piece)
  BY <1>1, <1>2, ConsumedEffect
<1>6. TypeOK'
  <2>1. piece' \in Nat /\ todo' \in Seq(Nat)
    <3>1. <<>> \in Seq(Nat) /\ 0 \in Nat
      BY EmptySeq
    <3> QED
      BY <1>1, <3>1, Zenon
  <2>2. /\ src' \in Queue /\ dst' \in Queue /\ pc' = "steal"
        /\ UNCHANGED <<tempdir_idx, len, close_rc, log, arrived, out, failed>>
    BY <1>1, <1>4, <1>5, Zenon
  <2> QED
    BY <2>1, <2>2, ZenonT(30) DEF Inv, TypeOK
<1>7. CallState'
  BY <1>1, <1>2, <1>5 DEF CallState
<1>8. Accounting'
  <2>1. Balance(src') = 0 /\ Balance(dst') = 0
    BY <1>2, <1>4, <1>5, InBalance DEF Inv, Accounting
  <2>2. /\ src'.bytes_in - src'.bytes_out = Length(src'.chunks)
        /\ dst'.bytes_in - dst'.bytes_out = Length(dst'.chunks)
    BY <1>4, <1>5, <2>1, InBalance
  <2> QED
    BY <2>2 DEF Accounting
<1>9. Streamed'
  <2>1. ASSUME Sound(src), Sound(dst)
        PROVE  /\ Sound(src') /\ Sound(dst') /\ Bytes(todo') \subseteq Bytes(Content(src'.chunks))
               /\ Pending' = Pending /\ arrived' = arrived /\ failed' = failed
    <3> DEFINE a == Content(dst.chunks)
               b == Rest(Content(src.chunks), piece)
               none == <<>>
               zero == 0
    <3>1. a \in Seq(Nat) /\ b \in Seq(Nat)
      BY <1>2, QueueType, RestFacts
    <3>2. none \in Seq(Nat) /\ zero \in Nat /\ Pending' = Line(out, dst', none, src', zero)
      BY <1>1, EmptySeq DEF Pending
    <3>3. Pending = Join(Join(Join(out, a), todo), b)
      BY DEF Pending, Line
    <3>4. Pending' = Join(Join(out, Content(dst'.chunks)), Content(src'.chunks))
      BY <1>2, <1>4, <1>5, <3>2, LineFacts
    <3>5. Content(dst'.chunks) = Join(a, todo) /\ Content(src'.chunks) = b
      BY <1>4, <1>5, <2>1
    <3>6. Bytes(todo') = {}
      <4>1. todo' = <<>> /\ Len(<<>>) = 0
        BY <1>1, EmptySeq
      <4> QED
        BY <4>1 DEF Bytes
    <3> HIDE DEF a, b, none, zero
    <3>7. Pending' = Pending
      BY <1>2, <3>1, <3>3, <3>4, <3>5, JoinAssociative
    <3> QED
      BY <1>1, <1>4, <1>5, <2>1, <3>6, <3>7
  <2>2. src'.stale >= src.stale /\ dst'.stale >= dst.stale
    <3>1. src.stale \in Nat /\ dst.stale \in Nat
      BY <1>2, QueueType
    <3> QED
      BY <1>4, <1>5, <3>1
  <2> QED
    BY <1>4, <1>5, <2>1, <2>2, StreamStep DEF Inv
<1> QED
  BY <1>6, <1>7, <1>8, <1>9 DEF Inv

LEMMA WriteSomeStep ==
  ASSUME Inv, NEW k \in 0 .. MaxBytes, WriteSome(k)
  PROVE  Inv'
<1> DEFINE first == SubSeq(todo, 1, k)
           left == Left(k)
<1>1. /\ pc = "write" /\ k < Len(todo) /\ dst' = Grow(dst, k) /\ todo' = left /\ pc' = "tempfile"
      /\ UNCHANGED <<src, tempdir_idx, len, piece, close_rc, log, arrived, out, failed>>
  BY DEF WriteSome, history
<1>2. /\ src \in Queue /\ dst \in Queue /\ out \in Seq(Nat) /\ todo \in Seq(Nat)
      /\ piece \in Nat /\ ~IsEmpty(dst)
  BY <1>1, StateType DEF Inv, CallState
<1>3. k \in 0 .. Len(todo)
  <2>1. k \in Nat /\ Len(todo) \in Nat
    BY <1>2, LimitsAssumption, LenProperties
  <2> QED
    BY <1>1, <2>1
<1>4. first \in Seq(Nat) /\ left \in Seq(Nat) /\ todo = Join(first, left)
  BY <1>2, <1>3, SplitAt DEF Left, Join
<1>5. /\ dst' \in Queue /\ Balance(dst') = Balance(dst) /\ dst'.stale = dst.stale
      /\ Sound(dst) => Sound(dst') /\ Content(dst'.chunks) = Join(Content(dst.chunks), first)
  BY <1>1, <1>2, <1>3, GrowEffect
<1> HIDE DEF first, left
<1>6. TypeOK'
  <2>1. /\ todo' \in Seq(Nat) /\ dst' \in Queue /\ pc' = "tempfile"
        /\ UNCHANGED <<src, tempdir_idx, len, piece, close_rc, log, arrived, out, failed>>
    BY <1>1, <1>4, <1>5
  <2> QED
    BY <2>1, ZenonT(30) DEF Inv, TypeOK
<1>7. CallState'
  BY <1>1 DEF Inv, CallState
<1>8. Accounting'
  <2>1. Balance(src) = 0 /\ Balance(dst') = 0
    BY <1>2, <1>5, InBalance DEF Inv, Accounting
  <2>2. /\ src.bytes_in - src.bytes_out = Length(src.chunks)
        /\ dst'.bytes_in - dst'.bytes_out = Length(dst'.chunks)
    BY <1>2, <1>5, <2>1, InBalance
  <2> QED
    BY <1>1, <2>2 DEF Accounting
<1>9. Streamed'
  <2>1. ASSUME Sound(src), Sound(dst), Bytes(todo) \subseteq Bytes(Content(src.chunks))
        PROVE  /\ Sound(src') /\ Sound(dst') /\ Bytes(todo') \subseteq Bytes(Content(src'.chunks))
               /\ Pending' = Pending /\ arrived' = arrived /\ failed' = failed
    <3> DEFINE a == Content(dst.chunks)
               b == Rest(Content(src.chunks), piece)
    <3>1. a \in Seq(Nat) /\ b \in Seq(Nat) /\ Join(out, a) \in Seq(Nat)
      BY <1>2, QueueType, RestFacts, JoinFacts
    <3>2. Pending = Join(Join(Join(out, a), Join(first, left)), b)
      BY <1>4 DEF Pending, Line
    <3>3. Pending' = Join(Join(Join(out, Join(a, first)), left), b)
      BY <1>1, <1>5, <2>1 DEF Pending, Line
    <3> HIDE DEF a, b
    <3>4. Join(out, Join(a, first)) = Join(Join(out, a), first)
      BY <1>2, <1>4, <3>1, JoinAssociative
    <3>5. Pending' = Pending
      BY <1>4, <3>1, <3>2, <3>3, <3>4, JoinAssociative
    <3>6. Bytes(todo') \subseteq Bytes(todo)
      BY <1>1, <1>4, BytesJoin
    <3> QED
      BY <1>1, <1>5, <2>1, <3>5, <3>6
  <2>2. src' \in Queue /\ src'.stale >= src.stale /\ dst'.stale >= dst.stale
    BY <1>1, <1>2, <1>5, QueueType
  <2> QED
    BY <1>5, <2>1, <2>2, StreamStep DEF Inv
<1> QED
  BY <1>6, <1>7, <1>8, <1>9 DEF Inv

LEMMA InitStep ==
  ASSUME Init
  PROVE  Inv
<1> DEFINE none == <<>>
<1>1. /\ none \in Seq(Nat) /\ none \in Seq(ChunkRecord) /\ none \in Seq(SoundChunk) /\ Len(none) = 0
      /\ Length(none) = 0 /\ Content(none) = none /\ Bytes(none) = {}
  BY EmptySeq, LengthAppend, ContentAppend DEF Bytes
<1>2. EmptyQueue = [chunks |-> none, pool |-> none, bytes_in |-> 0, bytes_out |-> 0, stale |-> 0]
  BY DEF EmptyQueue
<1>3. out = none /\ todo = none
  BY DEF Init
<1> HIDE DEF none
<1>4. /\ EmptyQueue \in Queue /\ EmptyQueue.chunks = none /\ EmptyQueue.stale = 0
      /\ EmptyQueue.bytes_in = 0 /\ EmptyQueue.bytes_out = 0
  BY <1>1, <1>2 DEF Queue
<1>5. TypeOK
  <2>1. 0 \in 0 .. TempDirs /\ 0 \in 0 .. MaxBytes
    BY LimitsAssumption
  <2>2. tempdir_idx \in 0 .. TempDirs /\ arrived \in 0 .. MaxBytes
    BY <2>1, Zenon DEF Init
  <2>3. len \in Int /\ piece \in Nat /\ close_rc \in {0, -1} /\ failed \in BOOLEAN
    <3>1. 0 \in Int /\ 0 \in Nat /\ FALSE \in BOOLEAN
      OBVIOUS
    <3> QED
      BY <3>1, Zenon DEF Init
  <2>4. src \in Queue /\ dst \in Queue /\ out \in Seq(Nat) /\ todo \in Seq(Nat)
    BY <1>1, <1>3, <1>4, Zenon DEF Init
  <2>5. pc = "idle" /\ log = "none"
    BY DEF Init
  <2> QED
    BY <2>2, <2>3, <2>4, <2>5, Zenon DEF TypeOK
<1>6. Accounting
  BY <1>1, <1>4 DEF Accounting, Init
<1>7. CallState
  BY DEF CallState, Init
<1>8. Streamed
  <2>1. Sound(src) /\ Sound(dst) /\ Bytes(todo) = {}
    BY <1>1, <1>3, <1>4 DEF Init, Sound
  <2>2. Pending = none
    <3> DEFINE zero == 0
    <3>1. zero \in Nat /\ Pending = Line(none, EmptyQueue, none, EmptyQueue, zero)
      BY <1>3 DEF Pending, Init
    <3>2. Rest(none, zero) = none /\ Join(none, none) = none
      BY <1>1, RestFacts, JoinFacts DEF none
    <3> HIDE DEF zero
    <3>3. Content(EmptyQueue.chunks) = none
      BY <1>1, <1>4
    <3> QED
      BY <3>1, <3>2, <3>3 DEF Line
  <2>3. 1 .. arrived = {} /\ [i \in 1 .. arrived |-> i] = none
    <3>1. arrived = 0
      BY DEF Init
    <3>2. 1 .. 0 = {} /\ [i \in 1 .. 0 |-> i] = <<>>
      OBVIOUS
    <3> QED
      BY <3>1, <3>2 DEF none
  <2> QED
    BY <2>1, <2>2, <2>3 DEF Streamed
<1> QED
  BY <1>5, <1>6, <1>7, <1>8 DEF Inv

LEMMA NextStep ==
  ASSUME Inv, [Next]_vars
  PROVE  Inv'
<1>1. CASE UNCHANGED vars
  <2>1. UNCHANGED <<src, dst, tempdir_idx, pc, len, piece, todo, close_rc, log, arrived, out, failed>>
    BY <1>1 DEF vars, queues, callVars, history
  <2>2. TypeOK' /\ Accounting' /\ CallState'
    BY <2>1 DEF Inv, TypeOK, Accounting, CallState
  <2>3. Streamed'
    BY <2>1 DEF Inv, Streamed, Clear, Pending
  <2> QED
    BY <2>2, <2>3 DEF Inv
<1>2. CASE \E k \in Pieces : AppendFile(k) \/ AppendBuffer(k) \/ AppendMem(k)
  BY <1>2, AppendFileStep, AppendBufferStep, AppendMemStep
<1>3. CASE \E k \in 0 .. MaxPiece : GetMemory(k)
  BY <1>3, GetMemoryStep
<1>4. CASE \E k \in 1 .. MaxBytes : StealBytes(k) \/ Write(k) \/ StealToFiles(k)
  BY <1>4, StealBytesStep, WriteStep, StealToFilesStep
<1>5. CASE Clean \/ Reset
  BY <1>5, CleanStep, ResetStep
<1>6. CASE StealDone \/ StealSkipsEmpty \/ StealFile \/ StealMem
  BY <1>6, StealDoneStep, StealSkipsEmptyStep, StealFileStep, StealMemStep
<1>7. CASE KeepTempFile \/ NewTempFile
  BY <1>7, KeepTempFileStep, NewTempFileStep
<1>8. CASE WriteAll \/ \E k \in 0 .. MaxBytes : WriteSome(k)
  BY <1>8, WriteAllStep, WriteSomeStep
<1>9. CASE \E nospace \in BOOLEAN : WriteFails(nospace)
  BY <1>9, WriteFailsStep
<1> QED
  BY <1>1, <1>2, <1>3, <1>4, <1>5, <1>6, <1>7, <1>8, <1>9, Zenon DEF Next

-----------------------------------------------------------------------------
(***************************************************************************)
(* The theorems.                                                           *)
(***************************************************************************)

\* The invariant holds in every state that calls of mchunk.c can bring the two queues
\* into, for all limits and whatever write(), close() and mkstemp() answer.
THEOREM Invariant == Spec => []Inv
BY InitStep, NextStep, PTL DEF Spec

\* The queues are lists of chunks, and the call is at one of its places.
THEOREM TypeCorrect == Spec => []TypeOK
<1>1. Inv => TypeOK
  BY DEF Inv
<1> QED
  BY <1>1, Invariant, PTL

\* bytes_in - bytes_out is the length of a queue, whatever is moved, written, cut or
\* given up: also when offsets of the pool have made the length wrong.
THEOREM AccountingCorrect == Spec => []Accounting
<1>1. Inv => Accounting
  BY DEF Inv
<1> QED
  BY <1>1, Invariant, PTL

\* Stream, with the concatenation by a name.
LEMMA StreamBytes ==
  ASSUME TypeOK
  PROVE  /\ Stream = Join(Join(out, Content(dst.chunks)), Content(src.chunks))
         /\ Stream \in Seq(Nat)
         /\ Bytes(Stream) = (Bytes(out) \union Bytes(Content(dst.chunks))) \union Bytes(Content(src.chunks))
<1> DEFINE a == Content(dst.chunks)
           b == Content(src.chunks)
<1>1. out \in Seq(Nat) /\ a \in Seq(Nat) /\ b \in Seq(Nat)
  BY StateType, QueueType
<1>2. Stream = Join(Join(out, a), b)
  BY DEF Stream, Join
<1> HIDE DEF a, b
<1>3. Join(out, a) \in Seq(Nat) /\ Join(Join(out, a), b) \in Seq(Nat)
  BY <1>1, JoinFacts
<1>4. Bytes(Join(out, a)) = Bytes(out) \union Bytes(a)
      /\ Bytes(Join(Join(out, a), b)) = Bytes(Join(out, a)) \union Bytes(b)
  BY <1>1, <1>3, BytesJoin
<1> QED
  BY <1>2, <1>3, <1>4 DEF a, b

\* As long as no old offset was used and no move failed, the bytes that went out,
\* those of dst and those of src are the bytes that came, in their order.
THEOREM OrderCorrect == Spec => []InOrder
<1>1. ASSUME Inv PROVE InOrder
  <2> SUFFICES ASSUME Clear, ~failed, pc \in {"idle", "steal"}
               PROVE  Stream = [i \in 1 .. arrived |-> i]
    BY DEF InOrder
  <2>1. Pending = [i \in 1 .. arrived |-> i]
    BY <1>1 DEF Inv, Streamed
  <2>2. src \in Queue /\ dst \in Queue /\ out \in Seq(Nat)
    BY <1>1, StateType DEF Inv
  <2>3. Pending = Line(out, dst, <<>>, src, 0)
    BY <1>1 DEF Pending, Inv, CallState
  <2>4. <<>> \in Seq(Nat) /\ 0 \in Nat
    BY EmptySeq
  <2>5. Pending = Join(Join(out, Content(dst.chunks)), Content(src.chunks))
    BY <2>2, <2>3, <2>4, LineFacts
  <2>6. Stream = Pending
    BY <1>1, <2>5, StreamBytes DEF Inv
  <2> QED
    BY <2>1, <2>6
<1> QED
  BY <1>1, Invariant, PTL

\* A move into temporary files that fails half-way loses no byte: what is in the hands
\* of chunkqueue_append_mem_to_tempfile is still in src.
THEOREM NothingLostCorrect == Spec => []NothingLost
<1>1. ASSUME Inv PROVE NothingLost
  <2> SUFFICES ASSUME Clear, NEW b \in 1 .. arrived
               PROVE  \E i \in DOMAIN Stream : Stream[i] = b
    BY DEF NothingLost
  <2>1. /\ src \in Queue /\ dst \in Queue /\ out \in Seq(Nat) /\ todo \in Seq(Nat) /\ piece \in Nat
        /\ Bytes(todo) \subseteq Bytes(Content(src.chunks)) /\ b \in Bytes(Pending)
    BY <1>1, StateType DEF Inv, Streamed
  <2>2. Bytes(Pending) = (Bytes(out) \union Bytes(Content(dst.chunks)) \union Bytes(todo))
                           \union Bytes(Rest(Content(src.chunks), piece))
    BY <2>1, LineBytes DEF Pending
  <2>3. Bytes(Rest(Content(src.chunks), piece)) \subseteq Bytes(Content(src.chunks))
    BY <2>1, QueueType, RestFacts
  <2>4. Stream \in Seq(Nat) /\ b \in Bytes(Stream)
    BY <1>1, <2>1, <2>2, <2>3, StreamBytes DEF Inv
  <2>5. DOMAIN Stream = 1 .. Len(Stream)
    BY <2>4, LenProperties
  <2> QED
    BY <2>4, <2>5 DEF Bytes
<1> QED
  BY <1>1, Invariant, PTL
============
