--------------------------- MODULE CloudInitProofs ---------------------------
(***************************************************************************)
(* Proofs about CloudInit: what becomes of any cloud-config, with any      *)
(* number of sections and items.                                           *)
(***************************************************************************)
EXTENDS CloudInit, WellFoundedInduction, TLAPS

-----------------------------------------------------------------------------
(* Numbers.  Induction is over the set of the numbers of which the claim   *)
(* holds, by its least counterexample.                                     *)

(* A set of numbers that is not empty has a least element.                 *)
LEMMA LeastNumber ==
  ASSUME NEW T \in SUBSET Nat, T # {}
  PROVE  \E n \in T : \A m \in T : n <= m
<1> DEFINE R == OpToRel(<, Nat)
<1>1. IsWellFoundedOn(R, Nat)
  BY NatLessThanWellFounded
<1>2. \A x, y \in Nat : <<y, x>> \in R <=> y < x
  BY DEF OpToRel
<1> HIDE DEF R
<1>3. PICK n \in T : \A m \in T : ~(<<m, n>> \in R)
  BY <1>1, WFMin
<1>4. ASSUME NEW m \in T PROVE n <= m
  <2>1. m \in Nat /\ n \in Nat
    OBVIOUS
  <2>2. ~(m < n)
    BY <1>2, <1>3, <2>1
  <2> QED BY <2>1, <2>2
<1> QED
  BY <1>4

(* A set that holds 0, and each number up to N whose predecessor it holds, *)
(* holds all of them.                                                      *)
LEMMA SetInduction ==
  ASSUME NEW N \in Nat, NEW G, 0 \in G,
         \A n \in 1 .. N : n - 1 \in G => n \in G
  PROVE  \A n \in 0 .. N : n \in G
<1> DEFINE T == {n \in 0 .. N : n \notin G}
<1>1. T \in SUBSET Nat
  OBVIOUS
<1>2. \A n \in T : n \in 0 .. N /\ n \notin G
  OBVIOUS
<1>3. \A n \in 0 .. N : n \notin T => n \in G
  OBVIOUS
<1> HIDE DEF T
<1>4. CASE T # {}
  <2>1. PICK n \in T : \A m \in T : n <= m
    BY <1>1, <1>4, LeastNumber
  <2>2. n \in 1 .. N /\ n - 1 \in 0 .. N /\ ~(n <= n - 1)
    BY <1>2, <2>1
  <2>3. n - 1 \in G
    BY <1>3, <2>1, <2>2
  <2> QED BY <1>2, <2>2, <2>3
<1> QED
  BY <1>3, <1>4

(* Two computations that start alike and go on alike are alike.            *)
LEMMA SameTrace ==
  ASSUME NEW N \in Nat, NEW f, NEW g, f[0] = g[0],
         \A n \in 1 .. N : f[n - 1] = g[n - 1] => f[n] = g[n]
  PROVE  f[N] = g[N]
<1> DEFINE G == {n \in Nat : f[n] = g[n]}
<1>1. \A n \in Nat : n \in G <=> f[n] = g[n]
  OBVIOUS
<1> HIDE DEF G
<1>2. ASSUME NEW n \in 1 .. N, n - 1 \in G PROVE n \in G
  BY <1>1, <1>2
<1>3. \A n \in 0 .. N : n \in G
  BY <1>1, <1>2, SetInduction
<1> QED BY <1>1, <1>3

-----------------------------------------------------------------------------
(* Sequences.                                                              *)

(* What Append does, element by element.                                   *)
LEMMA AppendFacts ==
  ASSUME NEW S, NEW s \in Seq(S), NEW x \in S
  PROVE  /\ Append(s, x) \in Seq(S) /\ Len(Append(s, x)) = Len(s) + 1 /\ Len(s) \in Nat
         /\ \A i \in 1 .. Len(s) : Append(s, x)[i] = s[i] /\ s[i] \in S
         /\ Append(s, x)[Len(s) + 1] = x
         /\ s \o <<x>> = Append(s, x)
OBVIOUS

(* Appending to the second part appends to the whole.                      *)
LEMMA ConcatAppend ==
  ASSUME NEW S, NEW s \in Seq(S), NEW t \in Seq(S), NEW x \in S
  PROVE  s \o Append(t, x) = Append(s \o t, x)
OBVIOUS

(* Concatenation is associative.                                           *)
LEMMA ConcatAssoc ==
  ASSUME NEW S, NEW s \in Seq(S), NEW t \in Seq(S), NEW u \in Seq(S)
  PROVE  s \o (t \o u) = (s \o t) \o u
OBVIOUS

(* The same, with the types that the scanner's lines need.                 *)
LEMMA LinesConcat ==
  ASSUME NEW S, NEW s \in Seq(S), NEW t \in Seq(S), NEW x \in S
  PROVE  s \o t \in Seq(S) /\ Append(s \o t, x) \in Seq(S) /\ s \o Append(t, x) = Append(s \o t, x)
<1>1. s \o t \in Seq(S)
  OBVIOUS
<1> QED BY <1>1, ConcatAppend, AppendFacts

(* An element moves from the front of the second part to the end of the    *)
(* first.                                                                  *)
LEMMA Inserted ==
  ASSUME NEW S, NEW s \in Seq(S), NEW t \in Seq(S), NEW x \in S
  PROVE  Append(s, x) \in Seq(S) /\ s \o (<<x>> \o t) = Append(s, x) \o t
OBVIOUS

(* Sequences are equal when their elements are.                            *)
LEMMA SameElements ==
  ASSUME NEW S, NEW s \in Seq(S), NEW t \in Seq(S), Len(s) = Len(t),
         \A i \in 1 .. Len(s) : s[i] = t[i]
  PROVE  s = t
OBVIOUS

(* b goes on from a with y.                                                *)
LEMMA OneMore ==
  ASSUME NEW V, NEW a \in Seq(V), NEW b \in Seq(V), NEW y \in V, Len(b) = Len(a) + 1,
         \A i \in 1 .. Len(a) : b[i] = a[i],
         b[Len(a) + 1] = y
  PROVE  b = Append(a, y)
<1>1. /\ Append(a, y) \in Seq(V) /\ Len(Append(a, y)) = Len(a) + 1 /\ Len(a) \in Nat
      /\ \A i \in 1 .. Len(a) : Append(a, y)[i] = a[i]
      /\ Append(a, y)[Len(a) + 1] = y
  BY AppendFacts
<1>2. ASSUME NEW i \in 1 .. Len(b) PROVE b[i] = Append(a, y)[i]
  <2>1. i \in 1 .. Len(a) \/ i = Len(a) + 1
    BY <1>1
  <2> QED BY <1>1, <2>1
<1> QED BY <1>1, <1>2, SameElements

(* A line is moved from those left to those read: together they stay the   *)
(* same.                                                                   *)
LEMMA ConcatHead ==
  ASSUME NEW S, NEW s \in Seq(S), NEW t \in Seq(S), t # <<>>
  PROVE  /\ Head(t) \in S /\ Tail(t) \in Seq(S)
         /\ Append(s, Head(t)) \in Seq(S)
         /\ Append(s, Head(t)) \o Tail(t) = s \o t
OBVIOUS

(* The first n elements are the first n - 1 and the n-th.                  *)
LEMMA FirstLines ==
  ASSUME NEW S, NEW s \in Seq(S)
  PROVE  /\ SubSeq(s, 1, 0) = <<>> /\ SubSeq(s, 1, Len(s)) = s
         /\ \A n \in 1 .. Len(s) :
              /\ SubSeq(s, 1, n - 1) \in Seq(S) /\ s[n] \in S
              /\ SubSeq(s, 1, n) = Append(SubSeq(s, 1, n - 1), s[n])
OBVIOUS

-----------------------------------------------------------------------------
(* Flattened sequences.                                                    *)

Flattens(f, s, n) ==
  /\ f = [i \in 1 .. n |-> f[i]]
  /\ \A i \in 1 .. n : f[i] = IF i = 1 THEN s[i] ELSE f[i - 1] \o s[i]

(* For every sequence of sequences the partial results exist.              *)
LEMMA FlattenExists ==
  ASSUME NEW S, NEW s \in Seq(S)
  PROVE  \E f : Flattens(f, s, Len(s))
<1> DEFINE G == {n \in Nat : \E f : Flattens(f, s, n)}
<1>1. Len(s) \in Nat
  OBVIOUS
<1>2. 0 \in G
  <2>1. Flattens([i \in 1 .. 0 |-> 0], s, 0)
    BY DEF Flattens
  <2> QED BY <2>1
<1>3. ASSUME NEW n \in 1 .. Len(s), n - 1 \in G PROVE n \in G
  <2>1. PICK f : Flattens(f, s, n - 1)
    BY <1>3
  <2> DEFINE last == IF n = 1 THEN s[n] ELSE f[n - 1] \o s[n]
  <2> HIDE DEF last
  <2> DEFINE g == [i \in 1 .. n |-> IF i = n THEN last ELSE f[i]]
  <2>2. n \in Nat /\ n # 0
    BY <1>1
  <2>3. g[n] = last /\ \A i \in 1 .. n - 1 : g[i] = f[i]
    BY <2>2
  <2>4. g = [i \in 1 .. n |-> g[i]]
    OBVIOUS
  <2> HIDE DEF g
  <2>5. ASSUME NEW i \in 1 .. n PROVE g[i] = IF i = 1 THEN s[i] ELSE g[i - 1] \o s[i]
    <3>1. CASE i = n
      BY <2>2, <2>3, <3>1 DEF last
    <3>2. CASE i # n
      <4>1. i \in 1 .. n - 1 /\ (i # 1 => i - 1 \in 1 .. n - 1)
        BY <2>2, <3>2
      <4>2. f[i] = IF i = 1 THEN s[i] ELSE f[i - 1] \o s[i]
        BY <2>1, <4>1 DEF Flattens
      <4> QED BY <2>3, <4>1, <4>2
    <3> QED BY <3>1, <3>2
  <2>6. Flattens(g, s, n)
    BY <2>4, <2>5 DEF Flattens
  <2> QED BY <2>2, <2>6
<1>4. \A n \in G : \E f : Flattens(f, s, n)
  OBVIOUS
<1> HIDE DEF G
<1>5. \A n \in 0 .. Len(s) : n \in G
  BY <1>1, <1>2, <1>3, SetInduction
<1> QED BY <1>1, <1>4, <1>5

(* FlattenSeq is the last of them.                                         *)
LEMMA FlattenIs ==
  ASSUME NEW S, NEW s \in Seq(S), Len(s) # 0
  PROVE  \E f : Flattens(f, s, Len(s)) /\ FlattenSeq(s) = f[Len(s)]
<1> DEFINE Body(f) == [i \in 1 .. Len(s) |-> IF i = 1 THEN s[i] ELSE f[i - 1] \o s[i]]
           c == CHOOSE f : f = Body(f)
<1>1. FlattenSeq(s) = c[Len(s)]
  BY DEF FlattenSeq
<1>2. \E f : f = Body(f)
  <2>1. PICK f : Flattens(f, s, Len(s))
    BY FlattenExists
  <2>2. f = Body(f)
    BY <2>1 DEF Flattens
  <2> QED BY <2>2
<1>3. c = Body(c)
  BY <1>2
<1> HIDE DEF c
<1>4. Flattens(c, s, Len(s))
  BY <1>3 DEF Flattens
<1> QED BY <1>1, <1>4

(* What is flattened is the concatenation, in order.                       *)
LEMMA FlattenEmpty == FlattenSeq(<<>>) = <<>>
BY DEF FlattenSeq

(* One more sequence comes at the end of the flattened ones.               *)
LEMMA FlattenAppend ==
  ASSUME NEW V, NEW s \in Seq(Seq(V)), NEW x \in Seq(V)
  PROVE  FlattenSeq(Append(s, x)) = FlattenSeq(s) \o x
<1> DEFINE t == Append(s, x)
<1>1. /\ t \in Seq(Seq(V)) /\ Len(t) = Len(s) + 1 /\ Len(s) \in Nat /\ t[Len(s) + 1] = x
      /\ \A i \in 1 .. Len(s) : t[i] = s[i]
  BY AppendFacts
<1> HIDE DEF t
<1>2. PICK g : Flattens(g, t, Len(t)) /\ FlattenSeq(t) = g[Len(t)]
  <2>1. Len(t) # 0
    BY <1>1
  <2> QED BY <1>1, <2>1, FlattenIs
<1>3. CASE Len(s) = 0
  <2>1. s = <<>>
    BY <1>3
  <2>2. FlattenSeq(s) = <<>> /\ <<>> \o x = x
    BY <2>1, FlattenEmpty
  <2>3. g[1] = t[1]
    BY <1>1, <1>2, <1>3 DEF Flattens
  <2> QED BY <1>1, <1>2, <1>3, <2>2, <2>3 DEF t
<1>4. CASE Len(s) # 0
  <2>1. PICK f : Flattens(f, s, Len(s)) /\ FlattenSeq(s) = f[Len(s)]
    BY <1>4, FlattenIs
  <2> DEFINE F == [i \in 0 .. Len(s) |-> IF i = 0 THEN 0 ELSE f[i]]
             H == [i \in 0 .. Len(s) |-> IF i = 0 THEN 0 ELSE g[i]]
  <2>2. F[0] = H[0] /\ \A i \in 1 .. Len(s) : F[i] = f[i] /\ H[i] = g[i]
    BY <1>1
  <2> HIDE DEF F, H
  <2>3. ASSUME NEW n \in 1 .. Len(s), F[n - 1] = H[n - 1] PROVE F[n] = H[n]
    <3>1. n \in 1 .. Len(t) /\ t[n] = s[n]
      BY <1>1
    <3>2. CASE n = 1
      <4>1. f[1] = s[1] /\ g[1] = t[1]
        BY <2>1, <1>2, <3>1, <3>2 DEF Flattens
      <4> QED BY <2>2, <3>1, <3>2, <4>1
    <3>3. CASE n # 1
      <4>1. f[n] = f[n - 1] \o s[n]
        BY <2>1, <3>3 DEF Flattens
      <4>2. g[n] = g[n - 1] \o t[n]
        BY <1>2, <3>1, <3>3 DEF Flattens
      <4>3. n - 1 \in 1 .. Len(s)
        BY <1>1, <3>3
      <4>4. f[n - 1] = g[n - 1]
        BY <2>2, <2>3, <4>3
      <4> QED BY <2>2, <3>1, <4>1, <4>2, <4>4
    <3> QED BY <3>2, <3>3
  <2>4. F[Len(s)] = H[Len(s)]
    BY <1>1, <2>2, <2>3, SameTrace
  <2>5. f[Len(s)] = g[Len(s)]
    <3>1. Len(s) \in 1 .. Len(s)
      BY <1>1, <1>4
    <3> QED BY <2>2, <2>4, <3>1
  <2>6. g[Len(t)] = g[Len(s)] \o t[Len(t)]
    <3>1. Len(t) \in 1 .. Len(t) /\ Len(t) # 1 /\ Len(t) - 1 = Len(s)
      BY <1>1, <1>4
    <3>2. g[Len(t)] = g[Len(t) - 1] \o t[Len(t)]
      BY <1>2, <3>1 DEF Flattens
    <3> QED BY <3>1, <3>2
  <2> QED BY <1>1, <1>2, <2>1, <2>5, <2>6 DEF t
<1> QED BY <1>3, <1>4

(* A single sequence is flattened to itself.                               *)
LEMMA FlattenOne ==
  ASSUME NEW V, NEW x \in Seq(V)
  PROVE  FlattenSeq(<<x>>) = x
<1>1. <<>> \in Seq(Seq(V)) /\ <<x>> = Append(<<>>, x) /\ <<>> \o x = x
  OBVIOUS
<1> QED BY <1>1, FlattenAppend, FlattenEmpty

(* Flattening keeps the type of the elements.                              *)
LEMMA FlattenType ==
  ASSUME NEW V, NEW s \in Seq(Seq(V))
  PROVE  FlattenSeq(s) \in Seq(V)
<1> DEFINE G == {n \in Nat : FlattenSeq(SubSeq(s, 1, n)) \in Seq(V)}
<1>1. \A n \in Nat : n \in G <=> FlattenSeq(SubSeq(s, 1, n)) \in Seq(V)
  OBVIOUS
<1> HIDE DEF G
<1>2. Len(s) \in Nat
  OBVIOUS
<1>3. 0 \in G
  <2>1. <<>> \in Seq(V)
    OBVIOUS
  <2> QED BY <1>1, <2>1, FirstLines, FlattenEmpty
<1>4. ASSUME NEW n \in 1 .. Len(s), n - 1 \in G PROVE n \in G
  <2>1. n \in Nat /\ n - 1 \in Nat
    OBVIOUS
  <2> DEFINE t == SubSeq(s, 1, n - 1)
  <2>2. /\ t \in Seq(Seq(V)) /\ s[n] \in Seq(V)
        /\ SubSeq(s, 1, n) = Append(t, s[n])
    BY FirstLines
  <2>3. FlattenSeq(t) \in Seq(V)
    BY <1>1, <1>4, <2>1
  <2> HIDE DEF t
  <2>4. FlattenSeq(Append(t, s[n])) = FlattenSeq(t) \o s[n]
    BY <2>2, FlattenAppend
  <2>5. FlattenSeq(t) \o s[n] \in Seq(V)
    BY <2>2, <2>3
  <2> QED BY <1>1, <2>1, <2>2, <2>4, <2>5
<1>5. \A n \in 0 .. Len(s) : n \in G
  BY <1>2, <1>3, <1>4, SetInduction
<1>6. SubSeq(s, 1, Len(s)) = s
  BY FirstLines
<1>7. Len(s) \in 0 .. Len(s)
  BY <1>2
<1>8. FlattenSeq(SubSeq(s, 1, Len(s))) \in Seq(V)
  BY <1>1, <1>2, <1>5, <1>7
<1> QED BY <1>6, <1>8

-----------------------------------------------------------------------------
(* Blocks read line by line.                                               *)

NothingRead == [key |-> "none", items |-> <<>>]

Reads(f, K, s, n) ==
  /\ f = [i \in 0 .. n |-> f[i]]
  /\ f[0] = NothingRead
  /\ \A i \in 1 .. n : f[i] = ReadLine(K, f[i - 1], s[i])

(* For every block the partial results of Read exist.                      *)
LEMMA ReadsExists ==
  ASSUME NEW K, NEW S, NEW s \in Seq(S)
  PROVE  \E f : Reads(f, K, s, Len(s))
<1> DEFINE G == {n \in Nat : \E f : Reads(f, K, s, n)}
<1>1. Len(s) \in Nat
  OBVIOUS
<1>2. 0 \in G
  <2>1. Reads([i \in 0 .. 0 |-> NothingRead], K, s, 0)
    BY DEF Reads
  <2> QED BY <2>1
<1>3. ASSUME NEW n \in 1 .. Len(s), n - 1 \in G PROVE n \in G
  <2>1. PICK f : Reads(f, K, s, n - 1)
    BY <1>3
  <2> DEFINE last == ReadLine(K, f[n - 1], s[n])
             g == [i \in 0 .. n |-> IF i = n THEN last ELSE f[i]]
  <2> HIDE DEF last
  <2>2. n \in Nat /\ n # 0
    BY <1>1
  <2>3. g[n] = last /\ \A i \in 0 .. n - 1 : g[i] = f[i]
    BY <2>2
  <2>4. g = [i \in 0 .. n |-> g[i]] /\ g[0] = NothingRead
    BY <2>1, <2>2 DEF Reads
  <2> HIDE DEF g
  <2>5. ASSUME NEW i \in 1 .. n PROVE g[i] = ReadLine(K, g[i - 1], s[i])
    <3>1. i - 1 \in 0 .. n - 1 /\ g[i - 1] = f[i - 1]
      BY <2>2, <2>3
    <3>2. CASE i = n
      BY <2>3, <3>1, <3>2 DEF last
    <3>3. CASE i # n
      <4>1. i \in 1 .. n - 1 /\ i \in 0 .. n - 1
        BY <2>2, <3>3
      <4> QED BY <2>1, <2>3, <3>1, <4>1 DEF Reads
    <3> QED BY <3>2, <3>3
  <2>6. Reads(g, K, s, n)
    BY <2>4, <2>5 DEF Reads
  <2> QED BY <2>2, <2>6
<1>4. \A n \in G : \E f : Reads(f, K, s, n)
  OBVIOUS
<1> HIDE DEF G
<1>5. \A n \in 0 .. Len(s) : n \in G
  BY <1>1, <1>2, <1>3, SetInduction
<1> QED BY <1>1, <1>4, <1>5

(* Read is the last of them.                                               *)
LEMMA ReadIs ==
  ASSUME NEW K, NEW S, NEW s \in Seq(S)
  PROVE  \E f : Reads(f, K, s, Len(s)) /\ Read(K, s) = f[Len(s)]
<1> DEFINE Body(f) == [n \in 0 .. Len(s) |-> IF n = 0 THEN NothingRead ELSE ReadLine(K, f[n - 1], s[n])]
           c == CHOOSE f : f = Body(f)
<1>1. Read(K, s) = c[Len(s)]
  BY DEF Read, NothingRead
<1>2. \E f : f = Body(f)
  <2>1. PICK f : Reads(f, K, s, Len(s))
    BY ReadsExists
  <2>2. f = Body(f)
    BY <2>1 DEF Reads
  <2> QED BY <2>2
<1>3. c = Body(c)
  BY <1>2
<1> HIDE DEF c
<1>4. Len(s) \in Nat
  OBVIOUS
<1>5. Reads(c, K, s, Len(s))
  BY <1>3, <1>4 DEF Reads
<1> QED BY <1>1, <1>5

(* Of no lines, nothing is read.                                           *)
LEMMA ReadEmpty ==
  ASSUME NEW K
  PROVE  Read(K, <<>>) = NothingRead
<1>1. <<>> \in Seq({}) /\ Len(<<>>) = 0
  OBVIOUS
<1>2. PICK f : Reads(f, K, <<>>, 0) /\ Read(K, <<>>) = f[0]
  BY <1>1, ReadIs
<1> QED BY <1>2 DEF Reads

(* One more line is read after the others.                                 *)
LEMMA ReadAppend ==
  ASSUME NEW K, NEW S, NEW s \in Seq(S), NEW x \in S
  PROVE  Read(K, Append(s, x)) = ReadLine(K, Read(K, s), x)
<1> DEFINE t == Append(s, x)
<1>1. /\ t \in Seq(S) /\ Len(t) = Len(s) + 1 /\ Len(s) \in Nat /\ t[Len(s) + 1] = x
      /\ \A i \in 1 .. Len(s) : t[i] = s[i]
  BY AppendFacts
<1> HIDE DEF t
<1>2. PICK g : Reads(g, K, t, Len(t)) /\ Read(K, t) = g[Len(t)]
  BY <1>1, ReadIs
<1>3. PICK f : Reads(f, K, s, Len(s)) /\ Read(K, s) = f[Len(s)]
  BY ReadIs
<1>4. ASSUME NEW n \in 1 .. Len(s), f[n - 1] = g[n - 1] PROVE f[n] = g[n]
  <2>1. n \in 1 .. Len(t) /\ t[n] = s[n]
    BY <1>1
  <2> QED BY <1>2, <1>3, <1>4, <2>1 DEF Reads
<1>5. f[0] = g[0]
  BY <1>2, <1>3 DEF Reads
<1>6. f[Len(s)] = g[Len(s)]
  BY <1>1, <1>4, <1>5, SameTrace
<1>7. Len(t) \in 1 .. Len(t) /\ Len(t) - 1 = Len(s)
  BY <1>1
<1>8. g[Len(t)] = ReadLine(K, g[Len(t) - 1], t[Len(t)])
  BY <1>2, <1>7 DEF Reads
<1> QED BY <1>1, <1>2, <1>3, <1>6, <1>7, <1>8 DEF t

-----------------------------------------------------------------------------
(* Scripts run statement by statement.                                     *)

Runs(f, w, s, n) ==
  /\ f = [i \in 0 .. n |-> f[i]]
  /\ f[0] = w
  /\ \A i \in 1 .. n : f[i] = Execute(f[i - 1], s[i])

(* For every script the states between its statements exist.               *)
LEMMA RunsExists ==
  ASSUME NEW w, NEW S, NEW s \in Seq(S)
  PROVE  \E f : Runs(f, w, s, Len(s))
<1> DEFINE G == {n \in Nat : \E f : Runs(f, w, s, n)}
<1>1. Len(s) \in Nat
  OBVIOUS
<1>2. 0 \in G
  <2>1. Runs([i \in 0 .. 0 |-> w], w, s, 0)
    BY DEF Runs
  <2> QED BY <2>1
<1>3. ASSUME NEW n \in 1 .. Len(s), n - 1 \in G PROVE n \in G
  <2>1. PICK f : Runs(f, w, s, n - 1)
    BY <1>3
  <2> DEFINE last == Execute(f[n - 1], s[n])
             g == [i \in 0 .. n |-> IF i = n THEN last ELSE f[i]]
  <2> HIDE DEF last
  <2>2. n \in Nat /\ n # 0
    BY <1>1
  <2>3. g[n] = last /\ \A i \in 0 .. n - 1 : g[i] = f[i]
    BY <2>2
  <2>4. g = [i \in 0 .. n |-> g[i]] /\ g[0] = w
    BY <2>1, <2>2 DEF Runs
  <2> HIDE DEF g
  <2>5. ASSUME NEW i \in 1 .. n PROVE g[i] = Execute(g[i - 1], s[i])
    <3>1. i - 1 \in 0 .. n - 1 /\ g[i - 1] = f[i - 1]
      BY <2>2, <2>3
    <3>2. CASE i = n
      BY <2>3, <3>1, <3>2 DEF last
    <3>3. CASE i # n
      <4>1. i \in 1 .. n - 1 /\ i \in 0 .. n - 1
        BY <2>2, <3>3
      <4> QED BY <2>1, <2>3, <3>1, <4>1 DEF Runs
    <3> QED BY <3>2, <3>3
  <2>6. Runs(g, w, s, n)
    BY <2>4, <2>5 DEF Runs
  <2> QED BY <2>2, <2>6
<1>4. \A n \in G : \E f : Runs(f, w, s, n)
  OBVIOUS
<1> HIDE DEF G
<1>5. \A n \in 0 .. Len(s) : n \in G
  BY <1>1, <1>2, <1>3, SetInduction
<1> QED BY <1>1, <1>4, <1>5

(* Run is the last of them.                                                *)
LEMMA RunIs ==
  ASSUME NEW w, NEW S, NEW s \in Seq(S)
  PROVE  \E f : Runs(f, w, s, Len(s)) /\ Run(w, s) = f[Len(s)]
<1> DEFINE Body(f) == [n \in 0 .. Len(s) |-> IF n = 0 THEN w ELSE Execute(f[n - 1], s[n])]
           c == CHOOSE f : f = Body(f)
<1>1. Run(w, s) = c[Len(s)]
  BY DEF Run
<1>2. \E f : f = Body(f)
  <2>1. PICK f : Runs(f, w, s, Len(s))
    BY RunsExists
  <2>2. f = Body(f)
    BY <2>1 DEF Runs
  <2> QED BY <2>2
<1>3. c = Body(c)
  BY <1>2
<1> HIDE DEF c
<1>4. Len(s) \in Nat
  OBVIOUS
<1>5. Runs(c, w, s, Len(s))
  BY <1>3, <1>4 DEF Runs
<1> QED BY <1>1, <1>5

(* The empty script changes nothing.                                       *)
LEMMA RunEmpty ==
  ASSUME NEW w
  PROVE  Run(w, <<>>) = w
<1>1. <<>> \in Seq({}) /\ Len(<<>>) = 0
  OBVIOUS
<1>2. PICK f : Runs(f, w, <<>>, 0) /\ Run(w, <<>>) = f[0]
  BY <1>1, RunIs
<1> QED BY <1>2 DEF Runs

(* One more statement runs after the others.                               *)
LEMMA RunAppend ==
  ASSUME NEW w, NEW S, NEW s \in Seq(S), NEW x \in S
  PROVE  Run(w, Append(s, x)) = Execute(Run(w, s), x)
<1> DEFINE t == Append(s, x)
<1>1. /\ t \in Seq(S) /\ Len(t) = Len(s) + 1 /\ Len(s) \in Nat /\ t[Len(s) + 1] = x
      /\ \A i \in 1 .. Len(s) : t[i] = s[i]
  BY AppendFacts
<1> HIDE DEF t
<1>2. PICK g : Runs(g, w, t, Len(t)) /\ Run(w, t) = g[Len(t)]
  BY <1>1, RunIs
<1>3. PICK f : Runs(f, w, s, Len(s)) /\ Run(w, s) = f[Len(s)]
  BY RunIs
<1>4. ASSUME NEW n \in 1 .. Len(s), f[n - 1] = g[n - 1] PROVE f[n] = g[n]
  <2>1. n \in 1 .. Len(t) /\ t[n] = s[n]
    BY <1>1
  <2> QED BY <1>2, <1>3, <1>4, <2>1 DEF Runs
<1>5. f[0] = g[0]
  BY <1>2, <1>3 DEF Runs
<1>6. f[Len(s)] = g[Len(s)]
  BY <1>1, <1>4, <1>5, SameTrace
<1>7. Len(t) \in 1 .. Len(t) /\ Len(t) - 1 = Len(s)
  BY <1>1
<1>8. g[Len(t)] = Execute(g[Len(t) - 1], t[Len(t)])
  BY <1>2, <1>7 DEF Runs
<1> QED BY <1>1, <1>2, <1>3, <1>6, <1>7, <1>8 DEF t

-----------------------------------------------------------------------------
(* Cloud-configs followed item by item.                                    *)

Configures(f, w, s, n) ==
  /\ f = [i \in 0 .. n |-> f[i]]
  /\ f[0] = w
  /\ \A i \in 1 .. n : f[i] = Configure(f[i - 1], s[i])

(* For every list of items the states between them exist.                  *)
LEMMA ConfiguresExists ==
  ASSUME NEW w, NEW S, NEW s \in Seq(S)
  PROVE  \E f : Configures(f, w, s, Len(s))
<1> DEFINE G == {n \in Nat : \E f : Configures(f, w, s, n)}
<1>1. Len(s) \in Nat
  OBVIOUS
<1>2. 0 \in G
  <2>1. Configures([i \in 0 .. 0 |-> w], w, s, 0)
    BY DEF Configures
  <2> QED BY <2>1
<1>3. ASSUME NEW n \in 1 .. Len(s), n - 1 \in G PROVE n \in G
  <2>1. PICK f : Configures(f, w, s, n - 1)
    BY <1>3
  <2> DEFINE last == Configure(f[n - 1], s[n])
             g == [i \in 0 .. n |-> IF i = n THEN last ELSE f[i]]
  <2> HIDE DEF last
  <2>2. n \in Nat /\ n # 0
    BY <1>1
  <2>3. g[n] = last /\ \A i \in 0 .. n - 1 : g[i] = f[i]
    BY <2>2
  <2>4. g = [i \in 0 .. n |-> g[i]] /\ g[0] = w
    BY <2>1, <2>2 DEF Configures
  <2> HIDE DEF g
  <2>5. ASSUME NEW i \in 1 .. n PROVE g[i] = Configure(g[i - 1], s[i])
    <3>1. i - 1 \in 0 .. n - 1 /\ g[i - 1] = f[i - 1]
      BY <2>2, <2>3
    <3>2. CASE i = n
      BY <2>3, <3>1, <3>2 DEF last
    <3>3. CASE i # n
      <4>1. i \in 1 .. n - 1 /\ i \in 0 .. n - 1
        BY <2>2, <3>3
      <4> QED BY <2>1, <2>3, <3>1, <4>1 DEF Configures
    <3> QED BY <3>2, <3>3
  <2>6. Configures(g, w, s, n)
    BY <2>4, <2>5 DEF Configures
  <2> QED BY <2>2, <2>6
<1>4. \A n \in G : \E f : Configures(f, w, s, n)
  OBVIOUS
<1> HIDE DEF G
<1>5. \A n \in 0 .. Len(s) : n \in G
  BY <1>1, <1>2, <1>3, SetInduction
<1> QED BY <1>1, <1>4, <1>5

(* Configured is the last of them.                                         *)
LEMMA ConfiguredIs ==
  ASSUME NEW w, NEW S, NEW s \in Seq(S)
  PROVE  \E f : Configures(f, w, s, Len(s)) /\ Configured(w, s) = f[Len(s)]
<1> DEFINE Body(f) == [n \in 0 .. Len(s) |-> IF n = 0 THEN w ELSE Configure(f[n - 1], s[n])]
           c == CHOOSE f : f = Body(f)
<1>1. Configured(w, s) = c[Len(s)]
  BY DEF Configured
<1>2. \E f : f = Body(f)
  <2>1. PICK f : Configures(f, w, s, Len(s))
    BY ConfiguresExists
  <2>2. f = Body(f)
    BY <2>1 DEF Configures
  <2> QED BY <2>2
<1>3. c = Body(c)
  BY <1>2
<1> HIDE DEF c
<1>4. Len(s) \in Nat
  OBVIOUS
<1>5. Configures(c, w, s, Len(s))
  BY <1>3, <1>4 DEF Configures
<1> QED BY <1>1, <1>5

(* No items ask for no change.                                             *)
LEMMA ConfiguredEmpty ==
  ASSUME NEW w
  PROVE  Configured(w, <<>>) = w
<1>1. <<>> \in Seq({}) /\ Len(<<>>) = 0
  OBVIOUS
<1>2. PICK f : Configures(f, w, <<>>, 0) /\ Configured(w, <<>>) = f[0]
  BY <1>1, ConfiguredIs
<1> QED BY <1>2 DEF Configures

(* One more item is asked for after the others.                            *)
LEMMA ConfiguredAppend ==
  ASSUME NEW w, NEW S, NEW s \in Seq(S), NEW x \in S
  PROVE  Configured(w, Append(s, x)) = Configure(Configured(w, s), x)
<1> DEFINE t == Append(s, x)
<1>1. /\ t \in Seq(S) /\ Len(t) = Len(s) + 1 /\ Len(s) \in Nat /\ t[Len(s) + 1] = x
      /\ \A i \in 1 .. Len(s) : t[i] = s[i]
  BY AppendFacts
<1> HIDE DEF t
<1>2. PICK g : Configures(g, w, t, Len(t)) /\ Configured(w, t) = g[Len(t)]
  BY <1>1, ConfiguredIs
<1>3. PICK f : Configures(f, w, s, Len(s)) /\ Configured(w, s) = f[Len(s)]
  BY ConfiguredIs
<1>4. ASSUME NEW n \in 1 .. Len(s), f[n - 1] = g[n - 1] PROVE f[n] = g[n]
  <2>1. n \in 1 .. Len(t) /\ t[n] = s[n]
    BY <1>1
  <2> QED BY <1>2, <1>3, <1>4, <2>1 DEF Configures
<1>5. f[0] = g[0]
  BY <1>2, <1>3 DEF Configures
<1>6. f[Len(s)] = g[Len(s)]
  BY <1>1, <1>4, <1>5, SameTrace
<1>7. Len(t) \in 1 .. Len(t) /\ Len(t) - 1 = Len(s)
  BY <1>1
<1>8. g[Len(t)] = Configure(g[Len(t) - 1], t[Len(t)])
  BY <1>2, <1>7 DEF Configures
<1> QED BY <1>1, <1>2, <1>3, <1>6, <1>7, <1>8 DEF t

-----------------------------------------------------------------------------
(* What is read from the lines of a cloud-config.                          *)

AllLines == {KeyLine(k) : k \in Keys} \cup Items

(* The line of a key is one.                                               *)
LEMMA KeyLineIsKey ==
  ASSUME NEW k \in Keys
  PROVE  KeyLine(k) \in AllLines /\ IsKey(KeyLine(k)) /\ KeyLine(k).key = k
BY DEF AllLines, IsKey, KeyLine

(* The line of an item is not that of a key.                               *)
LEMMA ItemIsNoKey ==
  ASSUME NEW x \in Items
  PROVE  x \in AllLines /\ ~IsKey(x)
<1>1. CASE x \in Files
  BY <1>1, ItemsAssumption DEF AllLines, IsKey
<1>2. CASE x \in Commands
  BY <1>2, ItemsAssumption DEF AllLines, IsKey
<1>3. CASE x \in Others
  BY <1>3, ItemsAssumption DEF AllLines, IsKey
<1> QED BY <1>1, <1>2, <1>3 DEF Items

(* A line is that of a key or that of an item.                             *)
LEMMA LineKinds ==
  ASSUME NEW x \in AllLines
  PROVE  /\ IsKey(x) => x.key \in Keys
         /\ ~IsKey(x) => x \in Items
<1>1. CASE x \in Items
  BY <1>1, ItemIsNoKey
<1>2. CASE x \notin Items
  <2>1. PICK k \in Keys : x = KeyLine(k)
    BY <1>2 DEF AllLines
  <2> QED BY <2>1, KeyLineIsKey
<1> QED BY <1>1, <1>2

(* One more line: a key, an item that is read and one that is not.         *)
LEMMA ReadKey ==
  ASSUME NEW K, NEW b \in Seq(AllLines), NEW x \in AllLines, IsKey(x)
  PROVE  /\ Read(K, Append(b, x)).key = x.key
         /\ Read(K, Append(b, x)).items = Read(K, b).items
BY ReadAppend DEF ReadLine

(* An item below one of the keys is added to what was read.                *)
LEMMA ReadItem ==
  ASSUME NEW K, NEW b \in Seq(AllLines), NEW x \in AllLines, ~IsKey(x), Read(K, b).key \in K
  PROVE  /\ Read(K, Append(b, x)).key = Read(K, b).key
         /\ Read(K, Append(b, x)).items = Append(Read(K, b).items, x)
BY ReadAppend DEF ReadLine

(* An item below any other key is not.                                     *)
LEMMA ReadOther ==
  ASSUME NEW K, NEW b \in Seq(AllLines), NEW x \in AllLines, ~IsKey(x), Read(K, b).key \notin K
  PROVE  /\ Read(K, Append(b, x)).key = Read(K, b).key
         /\ Read(K, Append(b, x)).items = Read(K, b).items
BY ReadAppend DEF ReadLine

(* Items are read, whatever the lines.                                     *)
LEMMA ReadType ==
  ASSUME NEW K, NEW b \in Seq(AllLines)
  PROVE  Read(K, b).items \in Seq(Items)
<1> DEFINE G == {n \in Nat : Read(K, SubSeq(b, 1, n)).items \in Seq(Items)}
<1>1. \A n \in Nat : n \in G <=> Read(K, SubSeq(b, 1, n)).items \in Seq(Items)
  OBVIOUS
<1> HIDE DEF G
<1>2. Len(b) \in Nat /\ Len(b) \in 0 .. Len(b)
  OBVIOUS
<1>3. 0 \in G
  <2>1. NothingRead.items \in Seq(Items)
    BY DEF NothingRead
  <2>2. Read(K, <<>>).items \in Seq(Items)
    BY <2>1, ReadEmpty
  <2> QED BY <1>1, <2>2, FirstLines
<1>4. ASSUME NEW n \in 1 .. Len(b), n - 1 \in G PROVE n \in G
  <2>1. n \in Nat /\ n - 1 \in Nat
    OBVIOUS
  <2>2. PICK t \in Seq(AllLines), y \in AllLines :
          SubSeq(b, 1, n - 1) = t /\ SubSeq(b, 1, n) = Append(t, y)
    <3>1. /\ SubSeq(b, 1, n - 1) \in Seq(AllLines) /\ b[n] \in AllLines
          /\ SubSeq(b, 1, n) = Append(SubSeq(b, 1, n - 1), b[n])
      BY FirstLines
    <3> QED BY <3>1
  <2>3. Read(K, t).items \in Seq(Items)
    BY <1>1, <1>4, <2>1, <2>2
  <2>4. Read(K, Append(t, y)).items \in Seq(Items)
    <3>1. CASE IsKey(y)
      BY <2>3, <3>1, ReadKey
    <3>2. CASE ~IsKey(y)
      <4>1. Append(Read(K, t).items, y) \in Seq(Items)
        BY <2>3, <3>2, LineKinds
      <4> QED BY <2>3, <3>2, <4>1, ReadItem, ReadOther
    <3> QED BY <3>1, <3>2
  <2> QED BY <1>1, <2>1, <2>2, <2>4
<1>5. \A n \in 0 .. Len(b) : n \in G
  BY <1>2, <1>3, <1>4, SetInduction
<1>6. SubSeq(b, 1, Len(b)) = b
  BY FirstLines
<1>7. Read(K, SubSeq(b, 1, Len(b))).items \in Seq(Items)
  BY <1>1, <1>2, <1>5
<1> QED BY <1>6, <1>7

(* The items below one key.                                                *)
LEMMA ReadItems ==
  ASSUME NEW K, NEW b \in Seq(AllLines), NEW s \in Seq(Items)
  PROVE  /\ b \o s \in Seq(AllLines)
         /\ Read(K, b \o s).key = Read(K, b).key
         /\ Read(K, b \o s).items =
              IF Read(K, b).key \in K THEN Read(K, b).items \o s ELSE Read(K, b).items
<1> DEFINE r == Read(K, b)
           Claim(n) == /\ b \o SubSeq(s, 1, n) \in Seq(AllLines)
                       /\ Read(K, b \o SubSeq(s, 1, n)).key = r.key
                       /\ Read(K, b \o SubSeq(s, 1, n)).items =
                            IF r.key \in K THEN r.items \o SubSeq(s, 1, n) ELSE r.items
           G == {n \in Nat : Claim(n)}
<1>1. \A n \in Nat : n \in G <=> Claim(n)
  OBVIOUS
<1> HIDE DEF G
<1>2. Len(s) \in Nat /\ Len(s) \in 0 .. Len(s)
  OBVIOUS
<1>r. r.items \in Seq(Items)
  BY ReadType
<1>3. 0 \in G
  <2>1. SubSeq(s, 1, 0) = <<>>
    BY FirstLines
  <2>2. b \o <<>> = b /\ r.items \o <<>> = r.items
    BY <1>r
  <2> QED BY <1>1, <2>1, <2>2
<1>4. ASSUME NEW n \in 1 .. Len(s), n - 1 \in G PROVE n \in G
  <2>1. n \in Nat /\ n - 1 \in Nat
    OBVIOUS
  <2>2. PICK t \in Seq(Items), y \in Items :
          SubSeq(s, 1, n - 1) = t /\ SubSeq(s, 1, n) = Append(t, y)
    <3>1. /\ SubSeq(s, 1, n - 1) \in Seq(Items) /\ s[n] \in Items
          /\ SubSeq(s, 1, n) = Append(SubSeq(s, 1, n - 1), s[n])
      BY FirstLines
    <3> QED BY <3>1
  <2>3. /\ b \o t \in Seq(AllLines)
        /\ Read(K, b \o t).key = r.key
        /\ Read(K, b \o t).items = IF r.key \in K THEN r.items \o t ELSE r.items
    BY <1>1, <1>4, <2>1, <2>2
  <2>4. y \in AllLines /\ ~IsKey(y)
    BY ItemIsNoKey
  <2>5. t \in Seq(AllLines)
    BY ItemIsNoKey
  <2> HIDE DEF r
  <2>6. b \o Append(t, y) = Append(b \o t, y) /\ Append(b \o t, y) \in Seq(AllLines)
    BY <2>4, <2>5, LinesConcat
  <2>7. \A u \in Seq(Items) : u \o Append(t, y) = Append(u \o t, y)
    BY LinesConcat
  <2>8. r.items \o Append(t, y) = Append(r.items \o t, y)
    BY <1>r, <2>7
  <2>9. PICK d \in Seq(AllLines) : d = b \o t
    BY <2>3
  <2>10. CASE r.key \in K
    <3>1. Read(K, d).key \in K /\ Read(K, d).items = r.items \o t
      BY <2>3, <2>9, <2>10
    <3>2. Read(K, Append(d, y)).key = r.key /\ Read(K, Append(d, y)).items = Append(r.items \o t, y)
      BY <2>3, <2>4, <2>9, <3>1, ReadItem
    <3>3. Claim(n)
      BY <2>2, <2>6, <2>8, <2>9, <2>10, <3>2
    <3> QED BY <1>1, <2>1, <3>3
  <2>11. CASE r.key \notin K
    <3>1. Read(K, d).key \notin K /\ Read(K, d).items = r.items
      BY <2>3, <2>9, <2>11
    <3>2. Read(K, Append(d, y)).key = r.key /\ Read(K, Append(d, y)).items = r.items
      BY <2>3, <2>4, <2>9, <3>1, ReadOther
    <3>3. Claim(n)
      BY <2>2, <2>6, <2>9, <2>11, <3>2
    <3> QED BY <1>1, <2>1, <3>3
  <2> QED BY <2>10, <2>11
<1>5. \A n \in 0 .. Len(s) : n \in G
  BY <1>2, <1>3, <1>4, SetInduction
<1>6. SubSeq(s, 1, Len(s)) = s
  BY FirstLines
<1>7. Claim(Len(s))
  BY <1>1, <1>2, <1>5
<1> QED BY <1>6, <1>7

(* What has been read stays read.                                          *)
LEMMA ReadGrows ==
  ASSUME NEW K, NEW b \in Seq(AllLines), NEW c \in Seq(AllLines),
         NEW x \in Range(Read(K, b).items)
  PROVE  x \in Range(Read(K, b \o c).items)
<1> DEFINE Claim(n) == x \in Range(Read(K, b \o SubSeq(c, 1, n)).items)
           G == {n \in Nat : Claim(n)}
<1>1. \A n \in Nat : n \in G <=> Claim(n)
  OBVIOUS
<1> HIDE DEF G
<1>2. Len(c) \in Nat /\ Len(c) \in 0 .. Len(c)
  OBVIOUS
<1>3. 0 \in G
  <2>1. b \o SubSeq(c, 1, 0) = b
    BY FirstLines
  <2> QED BY <1>1, <2>1
<1>4. ASSUME NEW n \in 1 .. Len(c), n - 1 \in G PROVE n \in G
  <2>1. n \in Nat /\ n - 1 \in Nat
    OBVIOUS
  <2>2. PICK t \in Seq(AllLines), y \in AllLines :
          SubSeq(c, 1, n - 1) = t /\ SubSeq(c, 1, n) = Append(t, y)
    <3>1. /\ SubSeq(c, 1, n - 1) \in Seq(AllLines) /\ c[n] \in AllLines
          /\ SubSeq(c, 1, n) = Append(SubSeq(c, 1, n - 1), c[n])
      BY FirstLines
    <3> QED BY <3>1
  <2> DEFINE r == Read(K, b \o t).items
  <2>3. x \in Range(r)
    BY <1>1, <1>4, <2>1, <2>2
  <2>4. b \o t \in Seq(AllLines) /\ b \o Append(t, y) = Append(b \o t, y)
    BY LinesConcat
  <2>5. r \in Seq(Items)
    BY <2>4, ReadType
  <2>6. Read(K, b \o Append(t, y)).items \in {r} \cup {Append(r, z) : z \in Items}
    <3>1. PICK d \in Seq(AllLines) : d = b \o t
      BY <2>4
    <3>2. CASE IsKey(y)
      <4>1. Read(K, Append(d, y)).items = Read(K, d).items
        BY <3>2, ReadKey
      <4> QED BY <2>4, <3>1, <4>1
    <3>3. CASE ~IsKey(y) /\ Read(K, d).key \in K
      <4>1. Read(K, Append(d, y)).items = Append(Read(K, d).items, y) /\ y \in Items
        BY <3>3, ReadItem, LineKinds
      <4> QED BY <2>4, <3>1, <4>1
    <3>4. CASE ~IsKey(y) /\ Read(K, d).key \notin K
      <4>1. Read(K, Append(d, y)).items = Read(K, d).items
        BY <3>4, ReadOther
      <4> QED BY <2>4, <3>1, <4>1
    <3> QED BY <3>2, <3>3, <3>4
  <2> HIDE DEF r
  <2>7. ASSUME NEW z \in Items PROVE x \in Range(Append(r, z))
    <3>1. PICK i \in 1 .. Len(r) : x = r[i]
      BY <2>3, <2>5 DEF Range
    <3>2. i \in DOMAIN Append(r, z) /\ Append(r, z)[i] = x
      BY <2>5, <3>1, AppendFacts
    <3> QED BY <3>2 DEF Range
  <2>8. x \in Range(Read(K, b \o Append(t, y)).items)
    BY <2>3, <2>6, <2>7
  <2> QED BY <1>1, <2>1, <2>2, <2>8
<1>5. \A n \in 0 .. Len(c) : n \in G
  BY <1>2, <1>3, <1>4, SetInduction
<1>6. SubSeq(c, 1, Len(c)) = c
  BY FirstLines
<1>7. Claim(Len(c))
  BY <1>1, <1>2, <1>5
<1> QED BY <1>6, <1>7

(* The items of a section are of the kind that its key calls for.          *)
LEMMA SectionTypes ==
  ASSUME NEW t \in Sections
  PROVE  /\ t.key \in Keys /\ t.items \in Seq(Items)
         /\ t.key = "write_files" => t.items \in Seq(Files \cup Others)
         /\ t.key = "runcmd" => t.items \in Seq(Commands \cup Others)
<1>1. CASE t \in [key : {"write_files"}, items : Seq(Files \cup Others)]
  <2>1. t.key = "write_files" /\ t.items \in Seq(Files \cup Others)
    BY <1>1
  <2>2. t.items \in Seq(Items)
    BY <2>1 DEF Items
  <2> QED BY <2>1, <2>2 DEF Keys
<1>2. CASE t \in [key : {"runcmd"}, items : Seq(Commands \cup Others)]
  <2>1. t.key = "runcmd" /\ t.items \in Seq(Commands \cup Others)
    BY <1>2
  <2>2. t.items \in Seq(Items)
    BY <2>1 DEF Items
  <2> QED BY <2>1, <2>2 DEF Keys
<1>3. CASE t \in [key : Keys \ Supported, items : Seq(Items)]
  <2>1. t.key \in Keys \ Supported /\ t.items \in Seq(Items)
    BY <1>3
  <2> QED BY <2>1 DEF Keys, Supported
<1> QED BY <1>1, <1>2, <1>3 DEF Sections

(* A cloud-config with one more section.                                   *)
LEMMA LinesOfAppend ==
  ASSUME NEW c \in Seq(Sections), NEW s \in Sections
  PROVE  /\ LinesOf(c) \in Seq(AllLines) /\ Lines(s) \in Seq(AllLines)
         /\ LinesOf(Append(c, s)) = LinesOf(c) \o Lines(s)
<1>1. ASSUME NEW t \in Sections PROVE Lines(t) \in Seq(AllLines)
  <2>1. t.key \in Keys /\ t.items \in Seq(Items)
    BY SectionTypes
  <2>2. t.items \in Seq(AllLines)
    BY <2>1, ItemIsNoKey
  <2>3. <<KeyLine(t.key)>> \in Seq(AllLines)
    BY <2>1, KeyLineIsKey
  <2> QED BY <2>2, <2>3 DEF Lines
<1> DEFINE m == [i \in DOMAIN c |-> Lines(c[i])]
           d == Append(c, s)
<1>2. m \in Seq(Seq(AllLines))
  BY <1>1
<1>3. [i \in DOMAIN d |-> Lines(d[i])] = Append(m, Lines(s))
  <2>1. /\ DOMAIN d = 1 .. Len(c) + 1 /\ Len(c) \in Nat /\ DOMAIN c = 1 .. Len(c)
        /\ d[Len(c) + 1] = s /\ \A i \in 1 .. Len(c) : d[i] = c[i]
    OBVIOUS
  <2> DEFINE b == [i \in DOMAIN d |-> Lines(d[i])]
  <2>2. Len(m) = Len(c) /\ \A i \in 1 .. Len(c) : m[i] = Lines(c[i])
    BY <2>1
  <2>3. ASSUME NEW i \in 1 .. Len(c) + 1 PROVE Lines(d[i]) \in Seq(AllLines)
    BY <1>1
  <2>4. b \in Seq(Seq(AllLines)) /\ Len(b) = Len(c) + 1
    BY <2>1, <2>3
  <2>5. b[Len(c) + 1] = Lines(s) /\ \A i \in 1 .. Len(c) : b[i] = m[i]
    BY <2>1, <2>2
  <2>6. Lines(s) \in Seq(AllLines)
    BY <1>1
  <2> HIDE DEF b, m
  <2>7. b = Append(m, Lines(s))
    BY <1>2, <2>2, <2>4, <2>5, <2>6, OneMore
  <2> QED BY <2>7 DEF b
<1> HIDE DEF m, d
<1>4. FlattenSeq(Append(m, Lines(s))) = FlattenSeq(m) \o Lines(s) /\ FlattenSeq(m) \in Seq(AllLines)
  BY <1>1, <1>2, FlattenAppend, FlattenType
<1> QED BY <1>1, <1>3, <1>4 DEF LinesOf, m, d

Selected(K, s) == IF s.key \in K THEN s.items ELSE <<>>

(* So are those selected from a section.                                   *)
LEMMA SelectedTypes ==
  ASSUME NEW K, NEW s \in Sections
  PROVE  /\ Selected(K, s) \in Seq(Items)
         /\ Selected({"write_files"}, s) \in Seq(Files \cup Others)
         /\ Selected({"runcmd"}, s) \in Seq(Commands \cup Others)
<1>1. /\ s.key \in Keys /\ s.items \in Seq(Items)
      /\ s.key = "write_files" => s.items \in Seq(Files \cup Others)
      /\ s.key = "runcmd" => s.items \in Seq(Commands \cup Others)
  BY SectionTypes
<1>2. \A S : <<>> \in Seq(S)
  OBVIOUS
<1> QED BY <1>1, <1>2 DEF Selected

(* One more section adds its items to those of the cloud-config.           *)
LEMMA ItemsOfAppend ==
  ASSUME NEW K, NEW c \in Seq(Sections), NEW s \in Sections
  PROVE  /\ ItemsOf(K, c) \in Seq(Items)
         /\ ItemsOf(K, Append(c, s)) = ItemsOf(K, c) \o Selected(K, s)
<1>1. ASSUME NEW t \in Sections PROVE Selected(K, t) \in Seq(Items)
  BY SelectedTypes
<1> DEFINE m == [i \in DOMAIN c |-> Selected(K, c[i])]
           d == Append(c, s)
           b == [i \in DOMAIN d |-> Selected(K, d[i])]
<1>2. /\ DOMAIN d = 1 .. Len(c) + 1 /\ Len(c) \in Nat /\ DOMAIN c = 1 .. Len(c)
      /\ d[Len(c) + 1] = s /\ \A i \in 1 .. Len(c) : d[i] = c[i]
  OBVIOUS
<1>3. m \in Seq(Seq(Items)) /\ Len(m) = Len(c) /\ \A i \in 1 .. Len(c) : m[i] = Selected(K, c[i])
  BY <1>1, <1>2
<1>4. ASSUME NEW i \in 1 .. Len(c) + 1 PROVE Selected(K, d[i]) \in Seq(Items)
  BY <1>1
<1>5. b \in Seq(Seq(Items)) /\ Len(b) = Len(c) + 1
  BY <1>2, <1>4
<1>6. b[Len(c) + 1] = Selected(K, s) /\ \A i \in 1 .. Len(c) : b[i] = m[i]
  BY <1>2, <1>3
<1>7. Selected(K, s) \in Seq(Items)
  BY <1>1
<1>8. ItemsOf(K, c) = FlattenSeq(m) /\ ItemsOf(K, d) = FlattenSeq(b)
  BY DEF ItemsOf, Selected
<1> HIDE DEF b, m, d
<1>9. b = Append(m, Selected(K, s))
  BY <1>3, <1>5, <1>6, <1>7, OneMore
<1>10. /\ FlattenSeq(Append(m, Selected(K, s))) = FlattenSeq(m) \o Selected(K, s)
       /\ FlattenSeq(m) \in Seq(Items)
  BY <1>3, <1>7, FlattenAppend, FlattenType
<1> QED BY <1>8, <1>9, <1>10 DEF d

(* Whose items they are.                                                   *)
LEMMA ItemsOfTypes ==
  ASSUME NEW c \in Seq(Sections)
  PROVE  /\ ItemsOf({"write_files"}, c) \in Seq(Files \cup Others)
         /\ ItemsOf({"runcmd"}, c) \in Seq(Commands \cup Others)
<1>1. /\ [i \in DOMAIN c |-> Selected({"write_files"}, c[i])] \in Seq(Seq(Files \cup Others))
      /\ [i \in DOMAIN c |-> Selected({"runcmd"}, c[i])] \in Seq(Seq(Commands \cup Others))
  <2>1. \A i \in DOMAIN c : c[i] \in Sections
    OBVIOUS
  <2>2. \A i \in DOMAIN c : /\ Selected({"write_files"}, c[i]) \in Seq(Files \cup Others)
                            /\ Selected({"runcmd"}, c[i]) \in Seq(Commands \cup Others)
    BY <2>1, SelectedTypes
  <2>3. DOMAIN c = 1 .. Len(c) /\ Len(c) \in Nat
    OBVIOUS
  <2>4. [i \in DOMAIN c |-> Selected({"write_files"}, c[i])] \in Seq(Seq(Files \cup Others))
    BY <2>2, <2>3
  <2>5. [i \in DOMAIN c |-> Selected({"runcmd"}, c[i])] \in Seq(Seq(Commands \cup Others))
    BY <2>2, <2>3
  <2> QED BY <2>4, <2>5
<1>2. \A K : ItemsOf(K, c) = FlattenSeq([i \in DOMAIN c |-> Selected(K, c[i])])
  BY DEF ItemsOf, Selected
<1>3. FlattenSeq([i \in DOMAIN c |-> Selected({"write_files"}, c[i])]) \in Seq(Files \cup Others)
  BY <1>1, FlattenType
<1>4. FlattenSeq([i \in DOMAIN c |-> Selected({"runcmd"}, c[i])]) \in Seq(Commands \cup Others)
  BY <1>1, FlattenType
<1> QED BY <1>2, <1>3, <1>4

(* The lines of one more section.                                          *)
LEMMA ReadSection ==
  ASSUME NEW K, NEW b \in Seq(AllLines), NEW s \in Sections
  PROVE  Read(K, b \o Lines(s)).items = Read(K, b).items \o Selected(K, s)
<1>1. s.key \in Keys /\ s.items \in Seq(Items)
  BY SectionTypes
<1> DEFINE d == Append(b, KeyLine(s.key))
<1>2. /\ KeyLine(s.key) \in AllLines /\ IsKey(KeyLine(s.key)) /\ KeyLine(s.key).key = s.key
      /\ s.items \in Seq(AllLines)
  BY <1>1, KeyLineIsKey, ItemIsNoKey
<1>3. d \in Seq(AllLines) /\ b \o Lines(s) = d \o s.items
  BY <1>2, Inserted, ZenonT(60) DEF Lines
<1>4. Read(K, d).key = s.key /\ Read(K, d).items = Read(K, b).items
  BY <1>2, ReadKey
<1>5. Read(K, b).items \in Seq(Items)
  BY ReadType
<1>6. Read(K, b).items \o <<>> = Read(K, b).items
  BY <1>5
<1> HIDE DEF d
<1>7. Read(K, d \o s.items).items =
        IF Read(K, d).key \in K THEN Read(K, d).items \o s.items ELSE Read(K, d).items
  BY <1>1, <1>3, ReadItems
<1> QED BY <1>3, <1>4, <1>6, <1>7 DEF Selected

(* Reading all the lines of a cloud-config gives what it asks for.         *)
LEMMA ReadConfig ==
  ASSUME NEW K, NEW c \in Seq(Sections)
  PROVE  LinesOf(c) \in Seq(AllLines) /\ Read(K, LinesOf(c)).items = ItemsOf(K, c)
<1> DEFINE Claim(n) == /\ LinesOf(SubSeq(c, 1, n)) \in Seq(AllLines)
                       /\ Read(K, LinesOf(SubSeq(c, 1, n))).items = ItemsOf(K, SubSeq(c, 1, n))
           G == {n \in Nat : Claim(n)}
<1>1. \A n \in Nat : n \in G <=> Claim(n)
  OBVIOUS
<1> HIDE DEF G
<1>2. Len(c) \in Nat /\ Len(c) \in 0 .. Len(c)
  OBVIOUS
<1>3. 0 \in G
  <2>1. SubSeq(c, 1, 0) = <<>>
    BY FirstLines
  <2>2. LinesOf(<<>>) = <<>> /\ ItemsOf(K, <<>>) = <<>>
    <3>1. DOMAIN <<>> = {}
      OBVIOUS
    <3>2. [i \in DOMAIN <<>> |-> Lines(<<>>[i])] = <<>>
      BY <3>1
    <3>3. [i \in DOMAIN <<>> |-> IF <<>>[i].key \in K THEN <<>>[i].items ELSE <<>>] = <<>>
      BY <3>1
    <3> QED BY <3>2, <3>3, FlattenEmpty DEF LinesOf, ItemsOf
  <2>3. Read(K, <<>>).items = <<>> /\ <<>> \in Seq(AllLines)
    BY ReadEmpty DEF NothingRead
  <2> QED BY <1>1, <2>1, <2>2, <2>3
<1>4. ASSUME NEW n \in 1 .. Len(c), n - 1 \in G PROVE n \in G
  <2>1. n \in Nat /\ n - 1 \in Nat
    OBVIOUS
  <2>2. PICK t \in Seq(Sections), y \in Sections :
          SubSeq(c, 1, n - 1) = t /\ SubSeq(c, 1, n) = Append(t, y)
    <3> HIDE DEF Claim
    <3>1. /\ SubSeq(c, 1, n - 1) \in Seq(Sections) /\ c[n] \in Sections
          /\ SubSeq(c, 1, n) = Append(SubSeq(c, 1, n - 1), c[n])
      BY FirstLines
    <3> QED BY <3>1
  <2>3. LinesOf(t) \in Seq(AllLines) /\ Read(K, LinesOf(t)).items = ItemsOf(K, t)
    BY <1>1, <1>4, <2>1, <2>2
  <2>4. Lines(y) \in Seq(AllLines) /\ LinesOf(Append(t, y)) = LinesOf(t) \o Lines(y)
    BY LinesOfAppend
  <2>5. Read(K, LinesOf(t) \o Lines(y)).items = ItemsOf(K, t) \o Selected(K, y)
    BY <2>3, ReadSection
  <2>6. ItemsOf(K, Append(t, y)) = ItemsOf(K, t) \o Selected(K, y)
    BY ItemsOfAppend
  <2>7. LinesOf(t) \o Lines(y) \in Seq(AllLines)
    BY <2>3, <2>4
  <2>8. Claim(n)
    BY <2>2, <2>4, <2>5, <2>6, <2>7
  <2> QED BY <1>1, <2>1, <2>8
<1>5. \A n \in 0 .. Len(c) : n \in G
  BY <1>2, <1>3, <1>4, SetInduction
<1>6. SubSeq(c, 1, Len(c)) = c
  BY FirstLines
<1>7. Claim(Len(c))
  BY <1>1, <1>2, <1>5
<1> QED BY <1>6, <1>7

-----------------------------------------------------------------------------
(* What the statements of one item do.                                     *)

(* The second of two changes of a file is what remains.                    *)
LEMMA PutTwice ==
  ASSUME NEW w, NEW p, NEW x, NEW y
  PROVE  /\ FileAt(PutFile(w, p, x), p) = x /\ PutFile(PutFile(w, p, x), p, y) = PutFile(w, p, y)
         /\ PutFile(w, p, x).stopped = w.stopped
BY DEF FileAt, PutFile, World

(* A script that has stopped does nothing more.                            *)
LEMMA Halted ==
  ASSUME NEW w
  PROVE  /\ Halt(w).stopped /\ Halt(Halt(w)) = Halt(w)
         /\ w.stopped => \A s : Execute(w, s) = Halt(w)
         /\ w.stopped => \A x : Configure(w, x) = Halt(w)
BY DEF Halt, World, Execute, Configure

(* What each statement on files does when bash keeps its path and content. *)
LEMMA ExecuteFile ==
  ASSUME NEW w, ~w.stopped, NEW t, t.quoted = "kept", NEW v, Here(v) = "kept"
  PROVE  LET p == AsIs(t)
             f == FileAt(w, p)
         IN /\ Execute(w, Statement("write", t, v)) =
                 PutFile(w, p, FileState(<<Expand(v)>>, f.permissions, f.owner))
            /\ Execute(w, Statement("append", t, v)) =
                 PutFile(w, p, FileState(Append(f.contents, Expand(v)), f.permissions, f.owner))
<1>1. Quoted(t) = AsIs(t)
  BY DEF Quoted, AsIs
<1>2. ASSUME NEW o \in {"write", "append"}
      PROVE  Execute(w, Statement(o, t, v)) = Effect(w, Statement(o, t, v))
  <2> DEFINE st == Statement(o, t, v)
  <2>1. st.op = o /\ st.path = t /\ st.value = v
    BY DEF Statement
  <2> HIDE DEF st
  <2>2. ~Stops(st) /\ ~Ends(st)
    BY <1>2, <2>1 DEF Stops, Ends
  <2> QED BY <2>2 DEF Execute, st
<1>3. LET p == AsIs(t)
          f == FileAt(w, p)
      IN /\ Effect(w, Statement("write", t, v)) =
              PutFile(w, p, FileState(<<Expand(v)>>, f.permissions, f.owner))
         /\ Effect(w, Statement("append", t, v)) =
              PutFile(w, p, FileState(Append(f.contents, Expand(v)), f.permissions, f.owner))
  BY <1>1 DEF Effect, Statement
<1> QED BY <1>2, <1>3

(* The mode and the owner alone.                                           *)
LEMMA ExecuteMode ==
  ASSUME NEW w, ~w.stopped, NEW t, t.quoted = "kept", NEW v
  PROVE  /\ Execute(w, Statement("chmod", t, v)) =
              PutFile(w, AsIs(t), FileState(FileAt(w, AsIs(t)).contents, v, FileAt(w, AsIs(t)).owner))
         /\ Execute(w, Statement("chown", t, v)) =
              PutFile(w, AsIs(t),
                      FileState(FileAt(w, AsIs(t)).contents, FileAt(w, AsIs(t)).permissions, v))
<1>1. Quoted(t) = AsIs(t)
  BY DEF Quoted, AsIs
<1>2. ASSUME NEW o \in {"chmod", "chown"}
      PROVE  Execute(w, Statement(o, t, v)) = Effect(w, Statement(o, t, v))
  <2> DEFINE st == Statement(o, t, v)
  <2>1. st.op = o /\ st.path = t /\ st.value = v
    BY DEF Statement
  <2> HIDE DEF st
  <2>2. ~Stops(st) /\ ~Ends(st)
    BY <1>2, <2>1 DEF Stops, Ends
  <2> QED BY <2>2 DEF Execute, st
<1>3. /\ Effect(w, Statement("chmod", t, v)) =
           PutFile(w, AsIs(t), FileState(FileAt(w, AsIs(t)).contents, v, FileAt(w, AsIs(t)).owner))
      /\ Effect(w, Statement("chown", t, v)) =
           PutFile(w, AsIs(t),
                   FileState(FileAt(w, AsIs(t)).contents, FileAt(w, AsIs(t)).permissions, v))
  BY <1>1 DEF Effect, Statement
<1> QED BY <1>2, <1>3

(* The fields of a file.                                                   *)
LEMMA FileStateFields ==
  ASSUME NEW c, NEW p, NEW o
  PROVE  /\ FileState(c, p, o).contents = c /\ FileState(c, p, o).permissions = p
         /\ FileState(c, p, o).owner = o
BY DEF FileState

(* What is changed in a file after it was written.                         *)
LEMMA ExecuteAgain ==
  ASSUME NEW w, ~w.stopped, NEW t, t.quoted = "kept", NEW c, NEW m, NEW o, NEW v
  PROVE  LET p == AsIs(t)
         IN /\ Execute(PutFile(w, p, FileState(c, m, o)), Statement("chmod", t, v)) =
                 PutFile(w, p, FileState(c, v, o))
            /\ Execute(PutFile(w, p, FileState(c, m, o)), Statement("chown", t, v)) =
                 PutFile(w, p, FileState(c, m, v))
<1> DEFINE p == AsIs(t)
           x == PutFile(w, p, FileState(c, m, o))
<1> HIDE DEF p
<1>1. FileAt(x, p) = FileState(c, m, o) /\ ~x.stopped
  BY PutTwice
<1>2. \A y : PutFile(x, p, y) = PutFile(w, p, y)
  BY PutTwice
<1> HIDE DEF x
<1>3. /\ Execute(x, Statement("chmod", t, v)) =
           PutFile(x, p, FileState(FileAt(x, p).contents, v, FileAt(x, p).owner))
      /\ Execute(x, Statement("chown", t, v)) =
           PutFile(x, p, FileState(FileAt(x, p).contents, FileAt(x, p).permissions, v))
  <2>1. ~x.stopped
    BY <1>1
  <2>2. /\ Execute(x, Statement("chmod", t, v)) =
             PutFile(x, AsIs(t), FileState(FileAt(x, AsIs(t)).contents, v, FileAt(x, AsIs(t)).owner))
        /\ Execute(x, Statement("chown", t, v)) =
             PutFile(x, AsIs(t),
                     FileState(FileAt(x, AsIs(t)).contents, FileAt(x, AsIs(t)).permissions, v))
    <3> HIDE DEF x
    <3> QED BY <2>1, ExecuteMode
  <2> QED BY <2>2 DEF p
<1>4. FileAt(x, p).contents = c /\ FileAt(x, p).permissions = m /\ FileAt(x, p).owner = o
  BY <1>1, FileStateFields
<1>5. /\ Execute(x, Statement("chmod", t, v)) = PutFile(x, p, FileState(c, v, o))
      /\ Execute(x, Statement("chown", t, v)) = PutFile(x, p, FileState(c, m, v))
  BY <1>3, <1>4
<1> QED BY <1>2, <1>5 DEF x, p

(* The layers that fixContent removes are all there are, unless there are  *)
(* two.                                                                    *)
LEMMA DecodedLayers ==
  ASSUME NEW f, f.encoding # "gz+base64"
  PROVE  Layers(f.encoding) = Decoded(f)
<1> DEFINE V == {"base64", "gz"}
<1>1. PICK x : fixEncoding(f.encoding) = <<x>>
  BY DEF fixEncoding
<1>2. Decoded(f) = Layer(x)
  BY <1>1 DEF Decoded
<1>3. Layer(x) \in Seq(V)
  <2>1. <<>> \in Seq(V) /\ <<"base64">> \in Seq(V) /\ <<"gz">> \in Seq(V)
    OBVIOUS
  <2>2. Layer(x) \in {<<>>, <<"base64">>, <<"gz">>}
    BY DEF Layer
  <2> QED BY <2>1, <2>2
<1> HIDE DEF V
<1>4. [i \in DOMAIN <<x>> |-> Layer(<<x>>[i])] = <<Layer(x)>>
  <2> DEFINE m == [i \in DOMAIN <<x>> |-> Layer(<<x>>[i])]
  <2>1. DOMAIN <<x>> = 1 .. 1 /\ <<x>>[1] = x
    OBVIOUS
  <2>2. m[1] = Layer(x) /\ m \in Seq(Seq(V)) /\ Len(m) = 1
    BY <1>3, <2>1
  <2> HIDE DEF m
  <2>3. <<Layer(x)>> \in Seq(Seq(V)) /\ Len(<<Layer(x)>>) = 1 /\ <<Layer(x)>>[1] = Layer(x)
    BY <1>3
  <2>4. m = <<Layer(x)>>
    BY <2>2, <2>3, SameElements
  <2> QED BY <2>4 DEF m
<1>5. FlattenSeq(<<Layer(x)>>) = Layer(x)
  BY <1>3, FlattenOne
<1> QED BY <1>1, <1>2, <1>4, <1>5 DEF Layers

(* A file that is not mishandled is written with all its layers removed:   *)
(* fixContent, which removes one, and the here-document do it no harm.     *)
LEMMA WrittenContent ==
  ASSUME NEW f \in Files, ~Mishandled(f)
  PROVE  /\ Here(fixContent(f)) = "kept"
         /\ Expand(fixContent(f)) = Unexpanded(Decode(f.content, Layers(f.encoding)))
<1>1. f.form = "file"
  BY ItemsAssumption
<1>2. f.encoding # "gz+base64" /\ f.content.text.here = "kept"
  BY <1>1 DEF Mishandled
<1>3. Layers(f.encoding) = Decoded(f)
  BY <1>2, DecodedLayers
<1>4. fixContent(f) = Decode(f.content, Decoded(f)) /\ fixContent(f).text = f.content.text
  BY DEF fixContent, Decode, Content
<1>5. Here(fixContent(f)) = "kept"
  BY <1>2, <1>4 DEF Here
<1>6. Expand(fixContent(f)) = Unexpanded(fixContent(f))
  BY <1>5 DEF Expand, Unexpanded
<1> QED BY <1>3, <1>4, <1>5, <1>6

(* A script runs on where it was left.                                     *)
LEMMA RunOneMore ==
  ASSUME NEW w, NEW S, NEW s \in Seq(S), NEW x \in S
  PROVE  s \o <<x>> \in Seq(S) /\ Run(w, s \o <<x>>) = Execute(Run(w, s), x)
<1>1. s \o <<x>> = Append(s, x) /\ Append(s, x) \in Seq(S)
  BY AppendFacts
<1>2. Run(w, Append(s, x)) = Execute(Run(w, s), x)
  BY RunAppend
<1> QED BY <1>1, <1>2

(* The command that a runcmd item is read as.                              *)
Parse(c) == UnmarshalJSON(c).cmd

Statements ==
  {Statement(o, f.path, v) : o \in {"write", "append", "chmod", "chown"}, f \in Files,
                             v \in UNION {{fixContent(g), g.permissions, g.owner} : g \in Files}}
  \cup {[op |-> "run", command |-> hackKubeadmIgnoreErrors(Parse(c))] : c \in Commands}

(* The statements that a file leads to are statements.                     *)
LEMMA FileStatements ==
  ASSUME NEW f \in Files, NEW o \in {"write", "append", "chmod", "chown"},
         NEW v \in {fixContent(f), f.permissions, f.owner}
  PROVE  Statement(o, f.path, v) \in Statements
<1>1. v \in UNION {{fixContent(g), g.permissions, g.owner} : g \in Files}
  OBVIOUS
<1>2. \E g \in Files, x \in UNION {{fixContent(h), h.permissions, h.owner} : h \in Files} :
        Statement(o, f.path, v) = Statement(o, g.path, x)
  BY <1>1
<1> QED BY <1>2 DEF Statements

(* The statements for a file do what its item asks for.                    *)
LEMMA FileEffect ==
  ASSUME NEW w, NEW s \in Seq(Statements), NEW f \in Files
  PROVE  /\ writeFileBlock(f) \in Seq(Statements) /\ s \o writeFileBlock(f) \in Seq(Statements)
         /\ ~Mishandled(f) => Run(w, s \o writeFileBlock(f)) = Configure(Run(w, s), f)
<1> DEFINE t == f.path
           p == AsIs(t)
           st == Statement(IF f.append THEN "append" ELSE "write", t, fixContent(f))
           mod == IF fixPermissions(f.permissions) = "0644" THEN <<>>
                    ELSE <<Statement("chmod", t, fixPermissions(f.permissions))>>
           own == IF fixOwner(f.owner) = "root:root" THEN <<>>
                    ELSE <<Statement("chown", t, fixOwner(f.owner))>>
           s1 == s \o <<st>>
           s2 == s1 \o mod
           s3 == s2 \o own
           u == Run(w, s)
           old == FileAt(u, p)
           cs == IF f.append THEN Append(old.contents, Expand(fixContent(f)))
                             ELSE <<Expand(fixContent(f))>>
           ps == IF fixPermissions(f.permissions) = "0644" THEN old.permissions ELSE f.permissions
           os == IF fixOwner(f.owner) = "root:root" THEN old.owner ELSE f.owner
<1>1. st \in Statements
  BY FileStatements
<1>2. /\ fixPermissions(f.permissions) # "0644" => fixPermissions(f.permissions) = f.permissions
      /\ fixOwner(f.owner) # "root:root" => fixOwner(f.owner) = f.owner
  BY DEF fixPermissions, fixOwner
<1>3. /\ mod = <<>> \/ mod = <<Statement("chmod", t, f.permissions)>>
      /\ own = <<>> \/ own = <<Statement("chown", t, f.owner)>>
      /\ Statement("chmod", t, f.permissions) \in Statements
      /\ Statement("chown", t, f.owner) \in Statements
  BY <1>2, FileStatements
<1>4. s1 \in Seq(Statements) /\ s2 \in Seq(Statements) /\ s3 \in Seq(Statements)
  <2>1. <<st>> \in Seq(Statements) /\ mod \in Seq(Statements) /\ own \in Seq(Statements)
    BY <1>1, <1>3
  <2> HIDE DEF st, mod, own
  <2> QED BY <2>1
<1>5. writeFileBlock(f) \in Seq(Statements) /\ s \o writeFileBlock(f) = s3
  <2>1. writeFileBlock(f) = (<<st>> \o mod) \o own
    BY DEF writeFileBlock
  <2>2. <<st>> \in Seq(Statements) /\ mod \in Seq(Statements) /\ own \in Seq(Statements)
    BY <1>1, <1>3
  <2> HIDE DEF st, mod, own
  <2> QED BY <2>1, <2>2
<1>6. /\ Run(w, s1) = Execute(u, st)
      /\ mod = <<>> => s2 = s1
      /\ \A x : mod = <<x>> /\ x \in Statements => Run(w, s2) = Execute(Run(w, s1), x)
      /\ own = <<>> => s3 = s2
      /\ \A x : own = <<x>> /\ x \in Statements => Run(w, s3) = Execute(Run(w, s2), x)
  <2>1. Run(w, s1) = Execute(u, st)
    BY <1>1, RunOneMore
  <2> HIDE DEF st, mod, own, s1, s2
  <2>2. (mod = <<>> => s1 \o mod = s1) /\ (own = <<>> => s2 \o own = s2)
    BY <1>4
  <2>3. \A x \in Statements : /\ Run(w, s1 \o <<x>>) = Execute(Run(w, s1), x)
                              /\ Run(w, s2 \o <<x>>) = Execute(Run(w, s2), x)
    BY <1>4, RunOneMore, ZenonT(60)
  <2> QED BY <2>1, <2>2, <2>3 DEF s2
<1>7. ASSUME u.stopped PROVE Run(w, s3) = Configure(u, f)
  <2>1. Run(w, s1) = Halt(u) /\ Configure(u, f) = Halt(u)
    BY <1>6, <1>7, Halted
  <2> HIDE DEF st, mod, own, s1, s2, s3, u
  <2>2. \A x : Execute(Halt(u), x) = Halt(u)
    BY Halted
  <2>3. Run(w, s2) = Halt(u)
    BY <1>3, <1>6, <2>1, <2>2
  <2>4. Run(w, s3) = Halt(u)
    BY <1>3, <1>6, <2>2, <2>3
  <2> QED BY <2>1, <2>4
<1>8. ASSUME ~u.stopped, ~Mishandled(f) PROVE Run(w, s3) = Configure(u, f)
  <2>1. f.form = "file"
    BY ItemsAssumption
  <2>2. t.quoted = "kept" /\ f.permissions # "0644" /\ f.owner # "root:root"
    BY <1>8, <2>1 DEF Mishandled
  <2>3. /\ Here(fixContent(f)) = "kept"
        /\ Expand(fixContent(f)) = Unexpanded(Decode(f.content, Layers(f.encoding)))
    BY <1>8, WrittenContent
  <2>4. Run(w, s1) = PutFile(u, p, FileState(cs, old.permissions, old.owner))
    <3>1. /\ Execute(u, Statement("write", t, fixContent(f))) =
               PutFile(u, p, FileState(<<Expand(fixContent(f))>>, old.permissions, old.owner))
          /\ Execute(u, Statement("append", t, fixContent(f))) =
               PutFile(u, p, FileState(Append(old.contents, Expand(fixContent(f))),
                                       old.permissions, old.owner))
      BY <1>8, <2>2, <2>3, ExecuteFile
    <3> QED BY <1>6, <3>1
  <2> HIDE DEF st, cs, old, u, s1, s2, s3
  <2>5. Run(w, s2) = PutFile(u, p, FileState(cs, ps, old.owner))
    <3>1. CASE fixPermissions(f.permissions) = "0644"
      BY <1>6, <2>4, <3>1
    <3>2. CASE fixPermissions(f.permissions) # "0644"
      <4>1. mod = <<Statement("chmod", t, f.permissions)>> /\ ps = f.permissions
        BY <1>2, <3>2
      <4> HIDE DEF mod, ps
      <4>2. Run(w, s2) = Execute(Run(w, s1), Statement("chmod", t, f.permissions))
        BY <1>3, <1>6, <4>1
      <4>3. Execute(PutFile(u, p, FileState(cs, old.permissions, old.owner)),
                    Statement("chmod", t, f.permissions)) =
              PutFile(u, p, FileState(cs, f.permissions, old.owner))
        BY <1>8, <2>2, ExecuteAgain
      <4> QED BY <2>4, <4>1, <4>2, <4>3
    <3> QED BY <3>1, <3>2
  <2>6. Run(w, s3) = PutFile(u, p, FileState(cs, ps, os))
    <3>1. CASE fixOwner(f.owner) = "root:root"
      BY <1>6, <2>5, <3>1
    <3>2. CASE fixOwner(f.owner) # "root:root"
      <4>1. own = <<Statement("chown", t, f.owner)>> /\ os = f.owner
        BY <1>2, <3>2
      <4> HIDE DEF own, ps, os
      <4>2. Run(w, s3) = Execute(Run(w, s2), Statement("chown", t, f.owner))
        BY <1>3, <1>6, <4>1
      <4>3. Execute(PutFile(u, p, FileState(cs, ps, old.owner)), Statement("chown", t, f.owner)) =
              PutFile(u, p, FileState(cs, ps, f.owner))
        BY <1>8, <2>2, ExecuteAgain
      <4> QED BY <2>5, <4>1, <4>2, <4>3
    <3> QED BY <3>1, <3>2
  <2>7. /\ ps = IF f.permissions = "" THEN old.permissions ELSE f.permissions
        /\ os = IF f.owner = "" THEN old.owner ELSE f.owner
    BY <2>2 DEF fixPermissions, fixOwner
  <2> HIDE DEF ps, os
  <2>8. PutFile(u, p, FileState(cs, ps, os)) = Configure(u, f)
    BY <1>8, <2>1, <2>3, <2>7 DEF Configure, cs, old
  <2> QED BY <2>6, <2>8
<1> HIDE DEF s3
<1> QED BY <1>4, <1>5, <1>7, <1>8 DEF u

(* The words of a command, the shell's included.                           *)
AllTexts == Texts \cup {Word("/bin/sh"), Word("-c")}

LEMMA ArgvType ==
  ASSUME NEW c \in Commands, ~IsEmpty(c)
  PROVE  /\ Argv(c) \in Seq(AllTexts) /\ Argv(c) # <<>>
         /\ UnmarshalJSON(c).outcome = "ok"
         /\ Parse(c) = Cmd(Head(Argv(c)), Tail(Argv(c)), c.fails)
<1>1. c.form \in {"list", "string", "null"} /\ c.words \in Seq(Texts)
  BY ItemsAssumption
<1>2. c.words \in Seq(AllTexts)
  BY <1>1 DEF AllTexts
<1>3. CASE c.form = "list"
  <2>1. c.words # <<>>
    BY <1>3 DEF IsEmpty
  <2>2. UnmarshalJSON(c) = [outcome |-> "ok", cmd |-> Cmd(Head(c.words), Tail(c.words), c.fails)]
    BY <1>3 DEF UnmarshalJSON
  <2> QED BY <1>2, <1>3, <2>1, <2>2 DEF Argv, Parse
<1>4. CASE c.form = "string"
  <2> DEFINE a == Word("/bin/sh")
             b == Word("-c")
             ws == c.words
             argv == <<a, b>> \o ws
  <2>1. a \in AllTexts /\ b \in AllTexts /\ ws \in Seq(AllTexts)
    BY <1>1, <1>2 DEF AllTexts
  <2> HIDE DEF a, b, ws
  <2>2. argv \in Seq(AllTexts) /\ argv # <<>> /\ Head(argv) = a /\ Tail(argv) = <<b>> \o ws
    BY <2>1
  <2>3. UnmarshalJSON(c) = [outcome |-> "ok", cmd |-> Cmd(a, <<b>> \o ws, c.fails)]
    BY <1>4 DEF UnmarshalJSON, a, b, ws
  <2>4. Argv(c) = argv
    BY <1>4 DEF Argv, a, b, ws
  <2> HIDE DEF argv
  <2>5. UnmarshalJSON(c).outcome = "ok" /\ Parse(c) = Cmd(a, <<b>> \o ws, c.fails)
    BY <2>3 DEF Parse
  <2> QED BY <2>2, <2>4, <2>5
<1> QED BY <1>1, <1>3, <1>4 DEF IsEmpty

(* A command keeps its words, and gets the kubeadm flag when and where it  *)
(* needs it.                                                               *)
LEMMA CommandParsed ==
  ASSUME NEW c \in Commands, ~IsEmpty(c), ~Mishandled(c)
  PROVE  LET h == hackKubeadmIgnoreErrors(Parse(c))
         IN /\ Words(h) = Argv(c) /\ h.fails = c.fails
            /\ h.flag = IF Bootstraps(Argv(c)) THEN "last" ELSE "none"
            /\ \A i \in DOMAIN Argv(c) : Argv(c)[i].quoted = "kept"
<1> DEFINE argv == Argv(c)
           u == Parse(c)
           flag == IF /\ u.cmd.name = "/bin/sh" /\ Len(u.args) >= 2
                      /\ u.args[1].name = "-c" /\ RunsKubeadm(u.args[2])
                     THEN u.args[2].kubeadm
                   ELSE IF /\ u.cmd.name = "kubeadm" /\ Len(u.args) >= 1
                           /\ u.args[1].name \in {"init", "join"}
                     THEN "last"
                   ELSE "none"
           h == hackKubeadmIgnoreErrors(u)
<1>1. argv \in Seq(AllTexts) /\ argv # <<>> /\ u = Cmd(Head(argv), Tail(argv), c.fails)
  BY ArgvType
<1>2. c.form # "file"
  BY ItemsAssumption
<1>3. /\ \A i \in DOMAIN argv : argv[i].quoted = "kept"
      /\ IsScript(argv) => argv[3].kubeadm # "inside"
  BY <1>2 DEF Mishandled
<1> HIDE DEF argv, u
<1>4. u.cmd = Head(argv) /\ u.args = Tail(argv) /\ u.fails = c.fails /\ u.flag = "none"
  BY <1>1 DEF Cmd
<1>5. h = [u EXCEPT !.flag = flag]
  BY <1>4 DEF hackKubeadmIgnoreErrors
<1> HIDE DEF flag, h
<1>6. h.cmd = Head(argv) /\ h.args = Tail(argv) /\ h.fails = c.fails /\ h.flag = flag
  BY <1>1, <1>5 DEF Cmd
<1>7. /\ Head(argv) = argv[1] /\ Len(Tail(argv)) = Len(argv) - 1 /\ Len(argv) \in Nat
      /\ Len(argv) >= 2 => Tail(argv)[1] = argv[2]
      /\ Len(argv) >= 3 => Tail(argv)[2] = argv[3] /\ argv[3] \in AllTexts
      /\ <<Head(argv)>> \o Tail(argv) = argv
  BY <1>1
<1>8. flag = IF IsScript(argv) /\ RunsKubeadm(argv[3]) THEN argv[3].kubeadm
             ELSE IF Len(argv) >= 2 /\ argv[1].name = "kubeadm" /\ argv[2].name \in {"init", "join"}
               THEN "last"
             ELSE "none"
  <2>1. Len(u.args) >= 2 <=> Len(argv) >= 3
    BY <1>4, <1>7
  <2>2. Len(u.args) >= 1 <=> Len(argv) >= 2
    BY <1>4, <1>7
  <2> QED BY <1>4, <1>7, <2>1, <2>2 DEF flag, IsScript
<1>9. flag = IF Bootstraps(argv) THEN "last" ELSE "none"
  <2>1. IsScript(argv) /\ RunsKubeadm(argv[3]) => argv[3].kubeadm = "last"
    BY <1>3, <1>7 DEF IsScript, RunsKubeadm, Texts, AllTexts, Word
  <2> QED BY <1>8, <2>1 DEF Bootstraps
<1>10. Words(h) = argv
  BY <1>6, <1>7 DEF Words
<1> QED BY <1>3, <1>6, <1>9, <1>10 DEF argv, u, h

(* Running the block of a command does what the cloud-config asks for with *)
(* it, unless the command is empty or mishandled.                          *)
LEMMA CommandEffect ==
  ASSUME NEW w, NEW s \in Seq(Statements), NEW c \in Commands
  PROVE  /\ runCmdBlock(Parse(c)) \in Seq(Statements)
         /\ s \o runCmdBlock(Parse(c)) \in Seq(Statements)
         /\ ~IsEmpty(c) /\ ~Mishandled(c) =>
              Run(w, s \o runCmdBlock(Parse(c))) = Configure(Run(w, s), c)
<1> DEFINE h == hackKubeadmIgnoreErrors(Parse(c))
           st == [op |-> "run", command |-> h]
           u == Run(w, s)
<1>1. runCmdBlock(Parse(c)) = <<st>> /\ st \in Statements
  BY DEF runCmdBlock, Statements
<1>2. st.op = "run" /\ st.command = h
  OBVIOUS
<1> HIDE DEF st, h
<1>3. s \o <<st>> \in Seq(Statements) /\ Run(w, s \o <<st>>) = Execute(u, st)
  BY <1>1, RunOneMore
<1> HIDE DEF u
<1>4. ASSUME ~IsEmpty(c), ~Mishandled(c) PROVE Execute(u, st) = Configure(u, c)
  <2>1. /\ Words(h) = Argv(c) /\ h.fails = c.fails
        /\ h.flag = IF Bootstraps(Argv(c)) THEN "last" ELSE "none"
        /\ \A i \in DOMAIN Argv(c) : Argv(c)[i].quoted = "kept"
    BY <1>4, CommandParsed DEF h
  <2>2. CASE u.stopped
    BY <2>2, Halted
  <2>3. CASE ~u.stopped
    <3>1. ~Stops(st) /\ ~Ends(st)
      BY <1>2, <2>1 DEF Stops, Ends
    <3>2. Execute(u, st) = Effect(u, st)
      BY <2>3, <3>1 DEF Execute
    <3>3. Effect(u, st) = RunCommand(u, [i \in DOMAIN Words(h) |-> Quoted(Words(h)[i])], h.flag, h.fails)
      BY <1>2 DEF Effect
    <3>4. [i \in DOMAIN Words(h) |-> Quoted(Words(h)[i])] = [i \in DOMAIN Argv(c) |-> AsIs(Argv(c)[i])]
      BY <2>1 DEF Quoted, AsIs
    <3>5. c.form # "file"
      BY ItemsAssumption
    <3>6. Configure(u, c) = RunCommand(u, [i \in DOMAIN Argv(c) |-> AsIs(Argv(c)[i])],
                                       IF Bootstraps(Argv(c)) THEN "last" ELSE "none", c.fails)
      BY <2>3, <3>5 DEF Configure
    <3> QED BY <2>1, <3>2, <3>3, <3>4, <3>6
  <2> QED BY <2>2, <2>3
<1> QED BY <1>1, <1>3, <1>4 DEF u

-----------------------------------------------------------------------------
(* Actions and their blocks.  An action is known by its key and the items  *)
(* it was read from.                                                       *)

ItemsFor(k) == IF k = "write_files" THEN Files ELSE Commands

(* What a section of this key may hold.                                    *)
SectionItems(k) == ItemsFor(k) \cup Others

Parsed(k, items) ==
  IF k = "write_files" THEN items ELSE [i \in DOMAIN items |-> Parse(items[i])]

ActionOf(k, items) == [key |-> k, items |-> Parsed(k, items)]

Actions ==
  {ActionOf("write_files", s) : s \in Seq(Files)} \cup {ActionOf("runcmd", s) : s \in Seq(Commands)}

ItemBlock(k, x) == IF k = "write_files" THEN writeFileBlock(x) ELSE runCmdBlock(Parse(x))

(* The item x, below k, is one that the adapter gets right.                *)
Handled(k, x) == ~Mishandled(x) /\ (k = "runcmd" => ~IsEmpty(x))

(* The action of a known key is one.                                       *)
LEMMA ActionOfType ==
  ASSUME NEW k \in Supported, NEW s \in Seq(ItemsFor(k))
  PROVE  ActionOf(k, s) \in Actions
<1>1. CASE k = "write_files"
  BY <1>1 DEF Actions, ItemsFor
<1>2. CASE k = "runcmd"
  BY <1>2 DEF Actions, ItemsFor
<1> QED BY <1>1, <1>2 DEF Supported

(* Running the block of an item, a file or a command, does what the cloud- *)
(* config asks for with it.                                                *)
LEMMA ItemEffect ==
  ASSUME NEW w, NEW s \in Seq(Statements), NEW k \in Supported, NEW x \in ItemsFor(k)
  PROVE  /\ ItemBlock(k, x) \in Seq(Statements)
         /\ Handled(k, x) => Run(w, s \o ItemBlock(k, x)) = Configure(Run(w, s), x)
<1>1. CASE k = "write_files"
  <2>1. x \in Files /\ ItemBlock(k, x) = writeFileBlock(x)
    BY <1>1 DEF ItemsFor, ItemBlock
  <2> QED BY <2>1, FileEffect DEF Handled
<1>2. CASE k = "runcmd"
  <2>1. x \in Commands /\ ItemBlock(k, x) = runCmdBlock(Parse(x))
    BY <1>2 DEF ItemsFor, ItemBlock
  <2>2. Handled(k, x) => ~IsEmpty(x) /\ ~Mishandled(x)
    BY <1>2 DEF Handled
  <2> QED BY <2>1, <2>2, CommandEffect
<1> QED BY <1>1, <1>2 DEF Supported

(* The block of an action is the blocks of its items.                      *)
Blocks(k, items) == [i \in DOMAIN items |-> ItemBlock(k, items[i])]

(* The script block of an action is made of those of its items, in their   *)
(* order.                                                                  *)
LEMMA BlockIs ==
  ASSUME NEW k \in Supported, NEW s \in Seq(ItemsFor(k))
  PROVE  /\ Blocks(k, s) \in Seq(Seq(Statements))
         /\ Len(Blocks(k, s)) = Len(s) /\ \A i \in 1 .. Len(s) : Blocks(k, s)[i] = ItemBlock(k, s[i])
         /\ GenerateScriptBlock(ActionOf(k, s)) = FlattenSeq(Blocks(k, s))
<1> DEFINE a == ActionOf(k, s)
<1>1. DOMAIN s = 1 .. Len(s) /\ Len(s) \in Nat /\ \A i \in 1 .. Len(s) : s[i] \in ItemsFor(k)
  OBVIOUS
<1>2. <<>> \in Seq(Statements)
  OBVIOUS
<1>3. \A i \in 1 .. Len(s) : ItemBlock(k, s[i]) \in Seq(Statements)
  BY <1>1, <1>2, ItemEffect
<1>4. /\ Blocks(k, s) \in Seq(Seq(Statements)) /\ Len(Blocks(k, s)) = Len(s)
      /\ \A i \in 1 .. Len(s) : Blocks(k, s)[i] = ItemBlock(k, s[i])
  BY <1>1, <1>3 DEF Blocks
<1>5. CASE k = "write_files"
  <2>1. a.key = "write_files" /\ a.items = s
    BY <1>5 DEF ActionOf, Parsed
  <2> HIDE DEF a
  <2>2. GenerateScriptBlock(a) = FlattenSeq([i \in DOMAIN s |-> writeFileBlock(s[i])])
    BY <2>1 DEF GenerateScriptBlock
  <2>3. Blocks(k, s) = [i \in DOMAIN s |-> writeFileBlock(s[i])]
    BY <1>5 DEF Blocks, ItemBlock
  <2> QED BY <1>4, <2>2, <2>3 DEF a
<1>6. CASE k = "runcmd"
  <2>1. a.key = "runcmd" /\ a.items = [i \in DOMAIN s |-> Parse(s[i])]
    BY <1>6 DEF ActionOf, Parsed
  <2>2. DOMAIN a.items = DOMAIN s /\ \A i \in DOMAIN s : a.items[i] = Parse(s[i])
    BY <2>1
  <2> HIDE DEF a
  <2>3. GenerateScriptBlock(a) = FlattenSeq([i \in DOMAIN s |-> runCmdBlock(Parse(s[i]))])
    <3>1. [i \in DOMAIN a.items |-> IF a.key = "write_files" THEN writeFileBlock(a.items[i])
                                      ELSE runCmdBlock(a.items[i])]
            = [i \in DOMAIN s |-> runCmdBlock(Parse(s[i]))]
      BY <2>1, <2>2
    <3> QED BY <3>1 DEF GenerateScriptBlock
  <2>4. Blocks(k, s) = [i \in DOMAIN s |-> runCmdBlock(Parse(s[i]))]
    BY <1>6 DEF Blocks, ItemBlock
  <2> QED BY <1>4, <2>3, <2>4 DEF a
<1> QED BY <1>5, <1>6 DEF Supported

(* One more item adds its block to the block of the action.                *)
LEMMA BlockAppend ==
  ASSUME NEW k \in Supported, NEW s \in Seq(ItemsFor(k)), NEW x \in ItemsFor(k)
  PROVE  /\ GenerateScriptBlock(ActionOf(k, s)) \in Seq(Statements)
         /\ GenerateScriptBlock(ActionOf(k, Append(s, x))) =
              GenerateScriptBlock(ActionOf(k, s)) \o ItemBlock(k, x)
<1>1. /\ Append(s, x) \in Seq(ItemsFor(k)) /\ Len(Append(s, x)) = Len(s) + 1 /\ Len(s) \in Nat
      /\ \A i \in 1 .. Len(s) : Append(s, x)[i] = s[i]
      /\ Append(s, x)[Len(s) + 1] = x
  BY AppendFacts
<1> DEFINE t == Append(s, x)
           m == Blocks(k, s)
           b == Blocks(k, t)
<1> HIDE DEF t, m, b
<1>2. /\ m \in Seq(Seq(Statements)) /\ Len(m) = Len(s)
      /\ \A i \in 1 .. Len(s) : m[i] = ItemBlock(k, s[i])
      /\ GenerateScriptBlock(ActionOf(k, s)) = FlattenSeq(m)
  BY BlockIs DEF m
<1>3. t \in Seq(ItemsFor(k)) /\ Len(t) = Len(s) + 1 /\ Len(s) \in Nat /\ t[Len(s) + 1] = x
      /\ \A i \in 1 .. Len(s) : t[i] = s[i]
  BY <1>1 DEF t
<1>4. /\ b \in Seq(Seq(Statements)) /\ Len(b) = Len(t)
      /\ \A i \in 1 .. Len(t) : b[i] = ItemBlock(k, t[i])
      /\ GenerateScriptBlock(ActionOf(k, t)) = FlattenSeq(b)
  BY <1>3, BlockIs DEF b
<1>5. ItemBlock(k, x) \in Seq(Statements)
  <2>1. <<>> \in Seq(Statements)
    OBVIOUS
  <2> QED BY <2>1, ItemEffect
<1>6. b[Len(m) + 1] = ItemBlock(k, x) /\ \A i \in 1 .. Len(m) : b[i] = m[i]
  <2>1. Len(s) + 1 \in 1 .. Len(t) /\ \A i \in 1 .. Len(s) : i \in 1 .. Len(t)
    BY <1>3
  <2> QED BY <1>2, <1>3, <1>4, <2>1
<1>7. b = Append(m, ItemBlock(k, x))
  BY <1>2, <1>3, <1>4, <1>5, <1>6, OneMore
<1>8. FlattenSeq(m) \in Seq(Statements) /\ FlattenSeq(b) = FlattenSeq(m) \o ItemBlock(k, x)
  BY <1>2, <1>5, <1>7, FlattenAppend, FlattenType
<1> QED BY <1>2, <1>4, <1>8 DEF t

(* An action without items has an empty block.                             *)
LEMMA BlockEmpty ==
  ASSUME NEW k \in Supported
  PROVE  GenerateScriptBlock(ActionOf(k, <<>>)) = <<>>
<1>1. <<>> \in Seq(ItemsFor(k)) /\ Len(<<>>) = 0
  OBVIOUS
<1>2. /\ Blocks(k, <<>>) \in Seq(Seq(Statements)) /\ Len(Blocks(k, <<>>)) = 0
      /\ GenerateScriptBlock(ActionOf(k, <<>>)) = FlattenSeq(Blocks(k, <<>>))
  BY <1>1, BlockIs
<1>3. Blocks(k, <<>>) = <<>>
  BY <1>2
<1> QED BY <1>2, <1>3, FlattenEmpty

(* The block of an action is a list of statements.                         *)
LEMMA ActionBlockType ==
  ASSUME NEW a \in Actions
  PROVE  GenerateScriptBlock(a) \in Seq(Statements)
<1>1. PICK k, s : k \in Supported /\ s \in Seq(ItemsFor(k)) /\ a = ActionOf(k, s)
  BY DEF Actions, Supported, ItemsFor
<1>2. Blocks(k, s) \in Seq(Seq(Statements)) /\ GenerateScriptBlock(a) = FlattenSeq(Blocks(k, s))
  BY <1>1, BlockIs
<1> QED BY <1>2, FlattenType

(* The script of one more action.                                          *)
LEMMA ScriptAppend ==
  ASSUME NEW c \in Seq(Actions), NEW a \in Actions
  PROVE  /\ Script(c) \in Seq(Statements)
         /\ Script(Append(c, a)) = Script(c) \o GenerateScriptBlock(a)
<1>1. ASSUME NEW t \in Actions PROVE GenerateScriptBlock(t) \in Seq(Statements)
  BY ActionBlockType
<1> DEFINE m == [i \in DOMAIN c |-> GenerateScriptBlock(c[i])]
           d == Append(c, a)
           b == [i \in DOMAIN d |-> GenerateScriptBlock(d[i])]
<1>2. /\ DOMAIN d = 1 .. Len(c) + 1 /\ Len(c) \in Nat /\ DOMAIN c = 1 .. Len(c)
      /\ d[Len(c) + 1] = a /\ \A i \in 1 .. Len(c) : d[i] = c[i]
  OBVIOUS
<1>3. m \in Seq(Seq(Statements)) /\ Len(m) = Len(c) /\ \A i \in 1 .. Len(c) : m[i] = GenerateScriptBlock(c[i])
  BY <1>1, <1>2
<1>4. ASSUME NEW i \in 1 .. Len(c) + 1 PROVE GenerateScriptBlock(d[i]) \in Seq(Statements)
  BY <1>1
<1>5. b \in Seq(Seq(Statements)) /\ Len(b) = Len(c) + 1
  BY <1>2, <1>4
<1>6. b[Len(c) + 1] = GenerateScriptBlock(a) /\ \A i \in 1 .. Len(c) : b[i] = m[i]
  BY <1>2, <1>3
<1>7. GenerateScriptBlock(a) \in Seq(Statements)
  BY <1>1
<1>8. Script(c) = FlattenSeq(m) /\ Script(d) = FlattenSeq(b)
  BY DEF Script
<1> HIDE DEF b, m, d
<1>9. b = Append(m, GenerateScriptBlock(a))
  BY <1>3, <1>5, <1>6, <1>7, OneMore
<1>10. /\ FlattenSeq(Append(m, GenerateScriptBlock(a))) = FlattenSeq(m) \o GenerateScriptBlock(a)
       /\ FlattenSeq(m) \in Seq(Statements)
  BY <1>3, <1>7, FlattenAppend, FlattenType
<1> QED BY <1>8, <1>9, <1>10 DEF d

(* Without actions the script is empty.                                    *)
LEMMA ScriptEmpty == Script(<<>>) = <<>>
<1>1. [i \in DOMAIN <<>> |-> GenerateScriptBlock(<<>>[i])] = <<>>
  OBVIOUS
<1> QED BY <1>1, FlattenEmpty DEF Script

-----------------------------------------------------------------------------
(* The inductive invariant.  Of the cloud-config the lines b have been     *)
(* scanned, and the last key among them is k.                              *)

ConfigLines(c) ==
  {KeyLine(c[i].key) : i \in DOMAIN c} \cup UNION {Range(c[i].items) : i \in DOMAIN c}

Position(b, k) ==
  /\ b \in Seq(AllLines) /\ rest \in Seq(AllLines) /\ rest \in Seq(ConfigLines(config))
  /\ b \o rest = LinesOf(config)
  /\ \A K \in SUBSET Keys : Read(K, b).key = k

(* Nothing counts before the first key that the scanner finds.  After it,  *)
(* the lines since the current action's key hold items that the            *)
(* cloud-config has below this key, or below ca-certs.                     *)
OpenBlock(b, k) ==
  /\ lines \in Seq(AllLines) /\ actions \in Seq(Actions)
  /\ act = "none" =>
       /\ k \in {"none", "ca-certs"} /\ lines = b /\ actions = <<>>
       /\ \A K \in SUBSET (Keys \ {"ca-certs"}) : Read(K, b).items = <<>>
  /\ act # "none" =>
       /\ act \in Keys \ {"ca-certs"} /\ \E i \in DOMAIN config : config[i].key = act
       /\ k \in {act, "ca-certs"} /\ Read({act}, lines).key = k
       /\ Range(ItemsUnder(act, lines)) \subseteq Range(Read({act}, b).items)

AllHandled(items) == \A i \in DOMAIN items : ~Mishandled(items[i])

(* The script of the actions found, with the current one, does what has    *)
(* been read so far.                                                       *)
DoneSoFar(b) ==
  ~Broken /\ AllHandled(Read(Supported, b).items) =>
    Run(Fresh, Script(Found)) = Configured(Fresh, Read(Supported, b).items)

Undecodable(items) == \E f \in Range(items) : ~Decodes(f.content, Decoded(f))

(* The reasons for which a cloud-config may be refused, and for a panic.   *)
Refusable ==
  \/ \E i \in DOMAIN config : config[i].key \notin Supported \cup {"ca-certs"}
  \/ \E f \in Range(ItemsOf({"write_files"}, config)) :
       f.form # "file" \/ ~Decodes(f.content, Decoded(f))
  \/ \E c \in Range(ItemsOf({"runcmd"}, config)) :
       c.form \notin {"list", "string"} \/ IsEmpty(c)
  \/ \E x \in Long : \E i \in DOMAIN config : x \in Range(config[i].items)

MayPanic == \E c \in Range(ItemsOf({"runcmd"}, config)) : IsEmpty(c)

DecodedSoFar(b) ==
  \A a \in Range(actions) : BlockDecodes(a) \/ Undecodable(Read({"write_files"}, b).items)

Scan(b, k) == Position(b, k) /\ OpenBlock(b, k) /\ DoneSoFar(b) /\ DecodedSoFar(b)

ConfigInv ==
  /\ config \in Configs /\ yaml \in BOOLEAN
  /\ status \in {"start", "scanning", "script", "error", "panic"}
  /\ status = "scanning" => yaml
  /\ status \in {"start", "scanning"} => \E b, k : Scan(b, k)
  /\ ScriptDoesWhatConfigSays /\ OnlyEmptyCommandPanics /\ KnownModulesAccepted

-----------------------------------------------------------------------------
(* The current action.                                                     *)

(* The lines of a cloud-config are its keys and items.                     *)
LEMMA ConfigLinesOf ==
  ASSUME NEW c \in Seq(Sections)
  PROVE  LinesOf(c) \in Seq(ConfigLines(c))
<1>1. DOMAIN c = 1 .. Len(c) /\ Len(c) \in Nat /\ \A i \in DOMAIN c : c[i] \in Sections
  OBVIOUS
<1>2. ASSUME NEW i \in DOMAIN c PROVE Lines(c[i]) \in Seq(ConfigLines(c))
  <2>1. c[i].items \in Seq(Items)
    BY <1>1, SectionTypes
  <2>2. c[i].items \in Seq(ConfigLines(c))
    <3> PICK v, S : v = c[i].items /\ S = ConfigLines(c)
      OBVIOUS
    <3>1. v \in Seq(Items) /\ DOMAIN v = 1 .. Len(v)
      BY <2>1
    <3>2. \A n \in 1 .. Len(v) : v[n] \in S
      BY <3>1 DEF ConfigLines, Range
    <3>3. v \in Seq(S)
      BY <3>1, <3>2
    <3> QED BY <3>3
  <2>3. <<KeyLine(c[i].key)>> \in Seq(ConfigLines(c))
    <3>1. KeyLine(c[i].key) \in ConfigLines(c)
      BY DEF ConfigLines
    <3> QED BY <3>1
  <2> HIDE DEF ConfigLines
  <2> QED BY <2>2, <2>3 DEF Lines
<1>3. [i \in DOMAIN c |-> Lines(c[i])] \in Seq(Seq(ConfigLines(c)))
  BY <1>1, <1>2
<1> QED BY <1>3, FlattenType DEF LinesOf

(* What has been read below a known key is of its module.                  *)
LEMMA ReadKind ==
  ASSUME NEW c \in Seq(Sections), NEW b \in Seq(AllLines), NEW r \in Seq(AllLines),
         b \o r = LinesOf(c), NEW j \in Supported, NEW s \in Seq(Items),
         Range(s) \subseteq Range(Read({j}, b).items)
  PROVE  s \in Seq(SectionItems(j)) /\ Range(s) \subseteq Range(ItemsOf({j}, c))
<1>1. Read({j}, LinesOf(c)).items = ItemsOf({j}, c)
  BY ReadConfig
<1>2. ASSUME NEW x \in Range(s) PROVE x \in Range(ItemsOf({j}, c))
  <2>1. x \in Range(Read({j}, b).items)
    OBVIOUS
  <2>2. x \in Range(Read({j}, b \o r).items)
    BY <2>1, ReadGrows
  <2> QED BY <1>1, <2>2
<1>3. ItemsOf({j}, c) \in Seq(SectionItems(j))
  <2>1. CASE j = "write_files"
    BY <2>1, ItemsOfTypes DEF SectionItems, ItemsFor
  <2>2. CASE j = "runcmd"
    BY <2>2, ItemsOfTypes DEF SectionItems, ItemsFor
  <2> QED BY <2>1, <2>2 DEF Supported
<1> DEFINE u == ItemsOf({j}, c)
<1> HIDE DEF u
<1>4. \A x \in Range(u) : x \in SectionItems(j)
  <2>1. u \in Seq(SectionItems(j))
    BY <1>3 DEF u
  <2>2. DOMAIN u = 1 .. Len(u) /\ \A i \in 1 .. Len(u) : u[i] \in SectionItems(j)
    BY <2>1
  <2> QED BY <2>2 DEF Range
<1>5. \A i \in 1 .. Len(s) : s[i] \in SectionItems(j)
  <2>1. DOMAIN s = 1 .. Len(s)
    OBVIOUS
  <2>2. \A i \in 1 .. Len(s) : s[i] \in Range(s)
    BY <2>1 DEF Range
  <2> QED BY <1>2, <1>4, <2>2 DEF u
<1>6. s \in Seq(SectionItems(j))
  BY <1>5
<1> QED BY <1>2, <1>6

(* The item x can be unmarshalled below the known key k.                   *)
Readable(k, x) == IF k = "write_files" THEN x.form = "file" ELSE UnmarshalJSON(x).outcome = "ok"

(* What can be unmarshalled is a file or a command.                        *)
LEMMA ReadableItem ==
  ASSUME NEW k \in Supported, NEW x \in SectionItems(k), Readable(k, x)
  PROVE  x \in ItemsFor(k) /\ (k = "runcmd" => ~IsEmpty(x))
<1>1. x \in Others => x.form = "other"
  BY ItemsAssumption
<1>2. CASE k = "write_files"
  BY <1>1, <1>2 DEF Readable, SectionItems
<1>3. CASE k = "runcmd"
  <2>1. UnmarshalJSON(x).outcome = "ok"
    BY <1>3 DEF Readable
  <2>2. ASSUME IsEmpty(x) PROVE FALSE
    <3>1. x.form \in {"null", "list"}
      BY <2>2 DEF IsEmpty
    <3>2. UnmarshalJSON(x) = [outcome |-> "panic"]
      BY <2>2, <3>1 DEF UnmarshalJSON
    <3> QED BY <2>1, <3>2
  <2>3. ASSUME x.form = "other" PROVE FALSE
    <3>1. UnmarshalJSON(x) = [outcome |-> "error"]
      BY <2>2, <2>3 DEF UnmarshalJSON
    <3> QED BY <2>1, <3>1
  <2> QED BY <1>1, <1>3, <2>2, <2>3 DEF SectionItems
<1> QED BY <1>2, <1>3 DEF Supported

(* The same of a block's items.                                            *)
LEMMA ReadableItems ==
  ASSUME NEW k \in Supported, NEW s \in Seq(SectionItems(k)), \A x \in Range(s) : Readable(k, x)
  PROVE  s \in Seq(ItemsFor(k)) /\ \A x \in Range(s) : k = "runcmd" => ~IsEmpty(x)
<1>1. DOMAIN s = 1 .. Len(s) /\ Len(s) \in Nat /\ \A i \in 1 .. Len(s) : s[i] \in SectionItems(k)
  OBVIOUS
<1>2. \A i \in 1 .. Len(s) : s[i] \in ItemsFor(k) /\ (k = "runcmd" => ~IsEmpty(s[i]))
  BY <1>1, ReadableItem DEF Range
<1>3. s \in Seq(ItemsFor(k))
  BY <1>1, <1>2
<1> QED BY <1>1, <1>2, <1>3 DEF Range

(* The outcome of unmarshalling one item.                                  *)
LEMMA ItemOutcome ==
  ASSUME NEW x
  PROVE  LET o == UnmarshalJSON(x).outcome
         IN /\ o \in {"ok", "error", "panic"}
            /\ o = "panic" => IsEmpty(x)
            /\ o # "ok" => x.form \notin {"list", "string"} \/ IsEmpty(x)
<1>1. CASE x.form = "list" /\ ~IsEmpty(x)
  BY <1>1 DEF UnmarshalJSON
<1>2. CASE x.form = "string"
  BY <1>2 DEF UnmarshalJSON
<1>3. CASE x.form # "string" /\ IsEmpty(x)
  <2>1. UnmarshalJSON(x) = [outcome |-> "panic"]
    BY <1>3 DEF UnmarshalJSON
  <2> QED BY <1>3, <2>1
<1>4. CASE x.form \notin {"list", "string"} /\ ~IsEmpty(x)
  <2>1. UnmarshalJSON(x) = [outcome |-> "error"]
    BY <1>4 DEF UnmarshalJSON
  <2> QED BY <1>4, <2>1
<1> QED BY <1>1, <1>2, <1>3, <1>4

(* The outcome of unmarshalling a block.                                   *)
LEMMA UnmarshalIs ==
  ASSUME NEW k, NEW block
  PROVE  LET items == ItemsUnder(k, block)
             u == Unmarshal(k, block)
         IN /\ k \notin Supported => u.outcome = "error"
            /\ u.outcome \in {"ok", "error", "panic"}
            /\ u.outcome = "panic" => k = "runcmd" /\ \E x \in Range(items) : IsEmpty(x)
            /\ k = "write_files" /\ u.outcome # "ok" => \E x \in Range(items) : x.form # "file"
            /\ k = "runcmd" /\ u.outcome # "ok" =>
                 \E x \in Range(items) : x.form \notin {"list", "string"} \/ IsEmpty(x)
            /\ u.outcome = "ok" =>
                 /\ k \in Supported /\ \A x \in Range(items) : Readable(k, x)
                 /\ [key |-> k, items |-> u.items] = ActionOf(k, items)
            /\ k \in Supported /\ (\A x \in Range(items) : Readable(k, x)) => u.outcome = "ok"
<1> DEFINE items == ItemsUnder(k, block)
           u == Unmarshal(k, block)
<1> HIDE DEF items
<1>1. CASE k \notin Supported
  <2>1. u.outcome = "error"
    BY <1>1 DEF Unmarshal, UnmarshalUnknown, Supported
  <2> QED BY <1>1, <2>1 DEF Supported, items
<1>2. CASE k = "write_files"
  <2>1. u = UnmarshalWriteFiles(items)
    BY <1>2 DEF Unmarshal, items
  <2> HIDE DEF u
  <2>2. /\ u.items = items /\ u.outcome \in {"ok", "error"}
        /\ u.outcome = "ok" <=> \A i \in DOMAIN items : items[i].form = "file"
    BY <2>1 DEF UnmarshalWriteFiles
  <2>3. u.outcome = "ok" <=> \A x \in Range(items) : x.form = "file"
    BY <2>2 DEF Range
  <2>4. k \in Supported /\ [key |-> k, items |-> u.items] = ActionOf(k, items)
    BY <1>2, <2>2 DEF Supported, ActionOf, Parsed
  <2> QED BY <1>2, <2>2, <2>3, <2>4 DEF Readable, items, u
<1>3. CASE k = "runcmd"
  <2>1. u = UnmarshalRunCmd(items)
    BY <1>3 DEF Unmarshal, items
  <2> HIDE DEF u
  <2> DEFINE failed == {i \in DOMAIN items : UnmarshalJSON(items[i]).outcome # "ok"}
             read == [i \in DOMAIN items |-> UnmarshalJSON(items[i])]
  <2>2. failed = {i \in DOMAIN items : read[i].outcome # "ok"}
    OBVIOUS
  <2>3. [i \in DOMAIN items |-> read[i].cmd] = [i \in DOMAIN items |-> Parse(items[i])]
    BY DEF Parse
  <2>4. u = IF failed = {} THEN [outcome |-> "ok", items |-> [i \in DOMAIN items |-> read[i].cmd]]
            ELSE [outcome |-> IF \E i \in failed : /\ read[i].outcome = "panic"
                                                  /\ \A j \in failed : i <= j
                                THEN "panic" ELSE "error",
                  items |-> <<>>]
    BY <2>1, <2>2 DEF UnmarshalRunCmd
  <2>5. \A i \in DOMAIN items : read[i] = UnmarshalJSON(items[i]) /\ items[i] \in Range(items)
    BY DEF Range
  <2>6. failed = {} <=> \A x \in Range(items) : UnmarshalJSON(x).outcome = "ok"
    BY DEF Range
  <2>7. failed # {} => \E x \in Range(items) : x.form \notin {"list", "string"} \/ IsEmpty(x)
    <3>1. ASSUME NEW i \in failed PROVE \E x \in Range(items) : x.form \notin {"list", "string"} \/ IsEmpty(x)
      BY <2>5, ItemOutcome
    <3> QED BY <3>1
  <2>8. (\E i \in failed : read[i].outcome = "panic") => \E x \in Range(items) : IsEmpty(x)
    <3>1. ASSUME NEW i \in failed, read[i].outcome = "panic" PROVE \E x \in Range(items) : IsEmpty(x)
      BY <2>5, <3>1, ItemOutcome
    <3> QED BY <3>1
  <2>9. /\ u.outcome \in {"ok", "error", "panic"}
        /\ u.outcome = "ok" <=> failed = {}
        /\ u.outcome = "panic" => \E i \in failed : read[i].outcome = "panic"
        /\ failed = {} => u.items = [i \in DOMAIN items |-> read[i].cmd]
    <3> HIDE DEF read, failed
    <3> QED BY <2>4
  <2>10. u.outcome = "ok" => k \in Supported /\ [key |-> k, items |-> u.items] = ActionOf(k, items)
    BY <1>3, <2>3, <2>9 DEF Supported, ActionOf, Parsed
  <2>11. \A x : Readable(k, x) <=> UnmarshalJSON(x).outcome = "ok"
    BY <1>3 DEF Readable
  <2> HIDE DEF failed, read
  <2>12. k \in Supported /\ k # "write_files"
    BY <1>3 DEF Supported
  <2>13. u.outcome # "ok" => \E x \in Range(items) : x.form \notin {"list", "string"} \/ IsEmpty(x)
    BY <2>7, <2>9
  <2>14. u.outcome = "panic" => \E x \in Range(items) : IsEmpty(x)
    BY <2>8, <2>9
  <2>15. u.outcome = "ok" <=> \A x \in Range(items) : Readable(k, x)
    BY <2>6, <2>9, <2>11
  <2> QED BY <1>3, <2>9, <2>10, <2>12, <2>13, <2>14, <2>15 DEF items, u
<1> QED BY <1>1, <1>2, <1>3 DEF Supported

(* The elements with one more.                                             *)
LEMMA RangeAppend ==
  ASSUME NEW S, NEW s \in Seq(S), NEW x \in S
  PROVE  Range(Append(s, x)) = Range(s) \cup {x}
<1>1. /\ DOMAIN Append(s, x) = 1 .. Len(s) + 1 /\ DOMAIN s = 1 .. Len(s) /\ Len(s) \in Nat
      /\ \A i \in 1 .. Len(s) : Append(s, x)[i] = s[i]
      /\ Append(s, x)[Len(s) + 1] = x
  OBVIOUS
<1> DEFINE t == Append(s, x)
<1> HIDE DEF t
<1>2. DOMAIN t = (DOMAIN s) \cup {Len(s) + 1} /\ t[Len(s) + 1] = x /\ \A i \in DOMAIN s : t[i] = s[i]
  BY <1>1 DEF t
<1>3. Range(t) = Range(s) \cup {x}
  BY <1>2 DEF Range
<1> QED BY <1>3 DEF t

(* One more item in the current action is one more step of the machine.    *)
LEMMA ScriptItem ==
  ASSUME NEW c \in Seq(Actions), NEW k \in Supported, NEW s \in Seq(ItemsFor(k)),
         NEW x \in ItemsFor(k), Handled(k, x)
  PROVE  Run(Fresh, Script(Append(c, ActionOf(k, Append(s, x))))) =
           Configure(Run(Fresh, Script(Append(c, ActionOf(k, s)))), x)
<1> DEFINE p == Script(c)
           g == GenerateScriptBlock(ActionOf(k, s))
           i == ItemBlock(k, x)
           t == Append(s, x)
<1> HIDE DEF p, g, i, t
<1>1. t \in Seq(ItemsFor(k))
  BY DEF t
<1>2. ActionOf(k, s) \in Actions /\ ActionOf(k, t) \in Actions
  BY <1>1, ActionOfType
<1>3. p \in Seq(Statements) /\ Script(Append(c, ActionOf(k, s))) = p \o g
  BY <1>2, ScriptAppend DEF p, g
<1>4. Script(Append(c, ActionOf(k, t))) = p \o GenerateScriptBlock(ActionOf(k, t))
  BY <1>2, ScriptAppend DEF p
<1>5. g \in Seq(Statements) /\ GenerateScriptBlock(ActionOf(k, t)) = g \o i
  BY BlockAppend DEF g, i, t
<1>6. p \o g \in Seq(Statements)
  BY <1>3, <1>5
<1>7. i \in Seq(Statements) /\ Run(Fresh, (p \o g) \o i) = Configure(Run(Fresh, p \o g), x)
  BY <1>6, ItemEffect DEF i
<1>8. p \o (g \o i) = (p \o g) \o i
  BY <1>3, <1>5, <1>7, ConcatAssoc
<1> QED BY <1>3, <1>4, <1>5, <1>7, <1>8 DEF t

-----------------------------------------------------------------------------
(* A line that belongs to the current action, or to none.                  *)

(* What ScanLine reads, and what it leaves alone.                          *)
LEMMA LineScanned ==
  ASSUME ScanLine, NEW b, NEW k, Scan(b, k)
  PROVE  /\ Head(rest) \in AllLines
         /\ IsKey(Head(rest)) => Head(rest).key = "ca-certs"
         /\ Append(b, Head(rest)) \in Seq(AllLines)
         /\ lines \in Seq(AllLines) /\ lines' = Append(lines, Head(rest)) /\ lines' \in Seq(AllLines)
         /\ rest' \in Seq(AllLines) /\ (rest \in Seq(ConfigLines(config)))'
         /\ Append(b, Head(rest)) \o rest' = LinesOf(config')
         /\ config' = config /\ act' = act /\ actions' = actions
<1>1. /\ b \in Seq(AllLines) /\ rest \in Seq(AllLines) /\ rest \in Seq(ConfigLines(config))
      /\ b \o rest = LinesOf(config) /\ lines \in Seq(AllLines)
  BY DEF Scan, Position, OpenBlock
<1>2. /\ rest # <<>> /\ ~actionRegEx(Head(rest)) /\ lines' = Append(lines, Head(rest))
      /\ rest' = Tail(rest) /\ config' = config /\ act' = act /\ actions' = actions
  BY DEF ScanLine, ScanEnds
<1>3. /\ Head(rest) \in AllLines /\ Tail(rest) \in Seq(AllLines)
      /\ Append(b, Head(rest)) \in Seq(AllLines)
      /\ Append(b, Head(rest)) \o Tail(rest) = b \o rest
  BY <1>1, <1>2, ConcatHead, ZenonT(60)
<1>4. Append(lines, Head(rest)) \in Seq(AllLines)
  BY <1>1, <1>3, AppendFacts
<1>5. Tail(rest) \in Seq(ConfigLines(config))
  BY <1>1, <1>2, ConcatHead
<1>6. (rest \in Seq(ConfigLines(config)))'
  <2>1. ConfigLines(config)' = ConfigLines(config)
    BY <1>2 DEF ConfigLines
  <2> QED BY <1>2, <1>5, <2>1
<1>7. IsKey(Head(rest)) => Head(rest).key = "ca-certs"
  BY <1>2 DEF actionRegEx
<1>8. Append(b, Head(rest)) \o rest' = LinesOf(config')
  BY <1>1, <1>2, <1>3
<1> QED BY <1>1, <1>2, <1>3, <1>4, <1>6, <1>7, <1>8

(* What cannot be decoded stays in what has been read.                     *)
LEMMA DecodedGrows ==
  ASSUME NEW b \in Seq(AllLines), NEW x \in AllLines, NEW d, d = Append(b, x),
         actions' = actions, DecodedSoFar(b)
  PROVE  DecodedSoFar(d)'
<1>1. <<x>> \in Seq(AllLines) /\ d = b \o <<x>>
  BY AppendFacts
<1>2. Range(Read({"write_files"}, b).items) \subseteq Range(Read({"write_files"}, d).items)
  BY <1>1, ReadGrows
<1>3. Undecodable(Read({"write_files"}, b).items) => Undecodable(Read({"write_files"}, d).items)
  BY <1>2 DEF Undecodable
<1> QED BY <1>3 DEF DecodedSoFar

(* A line that adds to no section that counts.                             *)
LEMMA NothingNew ==
  ASSUME ScanLine, NEW b, NEW k, Scan(b, k), NEW d, d = Append(b, Head(rest)), NEW j,
         Position(d, j)', j \in {k, "ca-certs"},
         \A K \in SUBSET (Keys \ {"ca-certs"}) : Read(K, d).items = Read(K, b).items,
         act # "none" => /\ ItemsUnder(act, lines') = ItemsUnder(act, lines)
                         /\ Read({act}, lines').key = j
  PROVE  Scan(d, j)'
<1> PICK x : x = Head(rest)
  OBVIOUS
<1>1. /\ x \in AllLines /\ d \in Seq(AllLines) /\ lines' = Append(lines, x)
      /\ lines' \in Seq(AllLines) /\ config' = config /\ act' = act /\ actions' = actions
  BY LineScanned
<1>2. b \in Seq(AllLines) /\ DecodedSoFar(b) /\ OpenBlock(b, k) /\ DoneSoFar(b)
  BY DEF Scan, Position
<1>3. DecodedSoFar(d)'
  BY <1>1, <1>2, DecodedGrows
<1>4. \A K \in SUBSET (Keys \ {"ca-certs"}) : Read(K, d).items = Read(K, b).items
  OBVIOUS
<1>5. Supported \in SUBSET (Keys \ {"ca-certs"})
  BY DEF Supported, Keys
<1>6. Read(Supported, d).items = Read(Supported, b).items
  BY <1>4, <1>5
<1>7. OpenBlock(d, j)'
  <2>1. CASE act = "none"
    <3>1. /\ k \in {"none", "ca-certs"} /\ lines = b /\ actions = <<>> /\ actions \in Seq(Actions)
          /\ \A K \in SUBSET (Keys \ {"ca-certs"}) : Read(K, b).items = <<>>
      BY <1>2, <2>1 DEF OpenBlock
    <3>2. j \in {"none", "ca-certs"} /\ lines' = d
      BY <1>1, <3>1
    <3>3. \A K \in SUBSET (Keys \ {"ca-certs"}) : Read(K, d).items = <<>>
      BY <1>4, <3>1
    <3> QED BY <1>1, <2>1, <3>1, <3>2, <3>3 DEF OpenBlock
  <2>2. CASE act # "none"
    <3>1. /\ act \in Keys \ {"ca-certs"} /\ (\E i \in DOMAIN config : config[i].key = act)
          /\ k \in {act, "ca-certs"} /\ actions \in Seq(Actions)
          /\ Range(ItemsUnder(act, lines)) \subseteq Range(Read({act}, b).items)
      BY <1>2, <2>2 DEF OpenBlock
    <3>2. j \in {act, "ca-certs"} /\ Read({act}, lines').key = j
      BY <2>2, <3>1
    <3>3. Range(ItemsUnder(act, lines')) \subseteq Range(Read({act}, d).items)
      <4>1. {act} \in SUBSET (Keys \ {"ca-certs"})
        BY <3>1
      <4>2. Read({act}, d).items = Read({act}, b).items
        BY <1>4, <4>1
      <4> QED BY <2>2, <3>1, <4>2
    <3> QED BY <1>1, <2>2, <3>1, <3>2, <3>3 DEF OpenBlock
  <2> QED BY <2>1, <2>2
<1>8. DoneSoFar(d)'
  <2>1. CASE act = "none"
    <3>1. ~Broken /\ ~Broken' /\ Found' = Found
      BY <1>1, <2>1 DEF Broken, Found
    <3> QED BY <1>2, <1>6, <3>1 DEF DoneSoFar
  <2>2. CASE act # "none"
    <3>1. Unmarshal(act', lines') = Unmarshal(act, lines)
      BY <1>1, <2>2 DEF Unmarshal, UnmarshalUnknown
    <3>2. Broken' = Broken /\ Found' = Found
      BY <1>1, <3>1 DEF Broken, Found, Unmarshalled
    <3> QED BY <1>2, <1>6, <3>2 DEF DoneSoFar
  <2> QED BY <2>1, <2>2
<1> QED BY <1>3, <1>7, <1>8 DEF Scan

(* A line of the current action.                                           *)
LEMMA ActionGrows ==
  ASSUME ScanLine, NEW b, Scan(b, act), NEW x, x = Head(rest), NEW d, d = Append(b, x),
         ~IsKey(x), act # "none"
  PROVE  /\ x \in Items /\ ItemsUnder(act, lines) \in Seq(Items)
         /\ Read({act}, lines').key = act
         /\ ItemsUnder(act, lines') = Append(ItemsUnder(act, lines), x)
         /\ Range(ItemsUnder(act, lines')) \subseteq Range(Read({act}, d).items)
<1>1. /\ x \in AllLines /\ d \in Seq(AllLines) /\ lines \in Seq(AllLines)
      /\ lines' = Append(lines, x)
  BY LineScanned
<1>2. /\ act \in Keys \ {"ca-certs"} /\ Read({act}, lines).key = act /\ b \in Seq(AllLines)
      /\ Range(ItemsUnder(act, lines)) \subseteq Range(Read({act}, b).items)
      /\ \A K \in SUBSET Keys : Read(K, b).key = act
  BY DEF Scan, Position, OpenBlock
<1>3. x \in Items
  BY <1>1, LineKinds
<1> PICK K, m, n, l :
      K = {act} /\ l = lines /\ m = Read({act}, b).items /\ n = Read({act}, lines).items
  OBVIOUS
<1>4. Read(K, b).key \in K /\ Read(K, l).key \in K /\ l \in Seq(AllLines) /\ Read(K, l).key = act
  BY <1>1, <1>2
<1>5. Read(K, d).items = Append(m, x)
  BY <1>1, <1>2, <1>4, ReadItem
<1>6. Read(K, Append(l, x)).key = act /\ Read(K, Append(l, x)).items = Append(n, x)
  BY <1>1, <1>2, <1>4, ReadItem
<1>7. m \in Seq(Items) /\ n \in Seq(Items)
  BY <1>1, <1>2, ReadType
<1>8. Range(Append(m, x)) = Range(m) \cup {x}
  BY <1>3, <1>7, RangeAppend
<1>9. Range(Append(n, x)) = Range(n) \cup {x}
  BY <1>3, <1>7, RangeAppend
<1>10. /\ Read({act}, lines').key = act /\ Read({act}, lines').items = Append(n, x)
       /\ Read({act}, d).items = Append(m, x)
  BY <1>1, <1>5, <1>6
<1>11. Range(Append(n, x)) \subseteq Range(Append(m, x))
  BY <1>2, <1>8, <1>9 DEF ItemsUnder
<1> QED BY <1>3, <1>7, <1>10, <1>11 DEF ItemsUnder

(* An item below the key of the open block: the action that the block will *)
(* become does one thing more, and so does what has been read.             *)
LEMMA NewItem ==
  ASSUME config \in Seq(Sections), ScanLine, NEW b, NEW k, Scan(b, k),
         NEW d, NEW x, x = Head(rest), d = Append(b, x), Position(d, k)',
         ~IsKey(x), act # "none", k = act
  PROVE  Scan(d, k)'
<1>1. /\ x \in AllLines /\ d \in Seq(AllLines) /\ lines' = Append(lines, x) /\ lines \in Seq(AllLines)
      /\ lines' \in Seq(AllLines) /\ config' = config /\ act' = act /\ actions' = actions
      /\ rest' \in Seq(AllLines) /\ d \o rest' = LinesOf(config)
  BY LineScanned
<1>2. /\ b \in Seq(AllLines) /\ DecodedSoFar(b) /\ DoneSoFar(b)
      /\ rest \in Seq(AllLines) /\ b \o rest = LinesOf(config)
      /\ act \in Keys \ {"ca-certs"} /\ (\E i \in DOMAIN config : config[i].key = act)
      /\ actions \in Seq(Actions)
      /\ Range(ItemsUnder(act, lines)) \subseteq Range(Read({act}, b).items)
      /\ \A K \in SUBSET Keys : Read(K, b).key = k
  BY DEF Scan, Position, OpenBlock
<1>0. Scan(b, act)
  OBVIOUS
<1> DEFINE s == ItemsUnder(act, lines)
<1>3. /\ x \in Items /\ s \in Seq(Items) /\ Read({act}, lines').key = act
      /\ ItemsUnder(act, lines') = Append(s, x)
      /\ Range(ItemsUnder(act, lines')) \subseteq Range(Read({act}, d).items)
  BY <1>0, ActionGrows
<1>4. DecodedSoFar(d)'
  BY <1>1, <1>2, DecodedGrows
<1>5. OpenBlock(d, k)'
  BY <1>1, <1>2, <1>3 DEF OpenBlock
<1>6. DoneSoFar(d)'
  <2>1. CASE act \notin Supported
    <3>1. Unmarshal(act', lines').outcome = "error"
      BY <1>1, <2>1, UnmarshalIs
    <3>2. Broken'
      BY <1>1, <3>1 DEF Broken, Unmarshalled
    <3> QED BY <3>2 DEF DoneSoFar
  <2>2. CASE act \in Supported
    <3> PICK t, r : t = s /\ r = Read(Supported, b).items
      OBVIOUS
    <3>1. Append(t, x) \in Seq(SectionItems(act)) /\ Append(t, x)[Len(t) + 1] = x
          /\ Len(t) + 1 \in 1 .. Len(Append(t, x)) /\ t \in Seq(SectionItems(act))
      <4>1. Append(t, x) \in Seq(Items)
        BY <1>3
      <4>2. Range(Append(t, x)) \subseteq Range(Read({act}, d).items)
        BY <1>3
      <4>3. Append(t, x) \in Seq(SectionItems(act))
        BY <1>1, <2>2, <4>1, <4>2, ReadKind
      <4>4. t \in Seq(SectionItems(act))
        BY <1>2, <1>3, <2>2, ReadKind
      <4>5. Append(t, x)[Len(t) + 1] = x /\ Len(t) + 1 \in 1 .. Len(Append(t, x))
        BY <1>3
      <4> QED BY <4>3, <4>4, <4>5
    <3>2. Range(Append(t, x)) = Range(t) \cup {x}
      BY <1>3, RangeAppend
    <3>3. r \in Seq(Items) /\ Read(Supported, d).items = Append(r, x)
      <4>1. Supported \in SUBSET Keys
        BY DEF Supported, Keys
      <4>2. Read(Supported, b).key = act
        BY <1>2, <4>1
      <4> QED BY <1>1, <1>2, <2>2, <4>2, ReadItem, ReadType
    <3>4. SUFFICES ASSUME ~Broken', AllHandled(Append(r, x))
                   PROVE  Run(Fresh, Script(Found')) = Configured(Fresh, Append(r, x))
      BY <3>3 DEF DoneSoFar
    <3>5. Unmarshal(act, lines').outcome = "ok"
      BY <1>1, <3>4 DEF Broken, Unmarshalled
    <3>6. /\ \A y \in Range(Append(t, x)) : Readable(act, y)
          /\ [key |-> act, items |-> Unmarshal(act, lines').items] = ActionOf(act, Append(t, x))
      BY <1>3, <3>5, UnmarshalIs
    <3>7. t \in Seq(ItemsFor(act)) /\ x \in ItemsFor(act) /\ (act = "runcmd" => ~IsEmpty(x))
      <4>1. x \in SectionItems(act)
        BY <3>1
      <4>2. t \in Seq(ItemsFor(act))
        BY <2>2, <3>1, <3>2, <3>6, ReadableItems
      <4> QED BY <2>2, <3>2, <3>6, <4>1, <4>2, ReadableItem
    <3>8. Unmarshal(act, lines).outcome = "ok"
      BY <2>2, <3>2, <3>6, UnmarshalIs
    <3>9. [key |-> act, items |-> Unmarshal(act, lines).items] = ActionOf(act, t)
      BY <3>8, UnmarshalIs
    <3>10. Found = Append(actions, ActionOf(act, t)) /\ ~Broken
      BY <3>8, <3>9 DEF Found, Broken, Unmarshalled
    <3>11. Found' = Append(actions, ActionOf(act, Append(t, x)))
      BY <1>1, <3>6 DEF Found, Unmarshalled
    <3>12. AllHandled(r) /\ ~Mishandled(x)
      <4>1. /\ DOMAIN r = 1 .. Len(r) /\ DOMAIN Append(r, x) = 1 .. Len(r) + 1 /\ Len(r) \in Nat
            /\ Append(r, x)[Len(r) + 1] = x /\ \A i \in 1 .. Len(r) : Append(r, x)[i] = r[i]
        BY <1>3, <3>3
      <4> PICK u : u = Append(r, x)
        OBVIOUS
      <4>2. /\ DOMAIN u = 1 .. Len(r) + 1 /\ u[Len(r) + 1] = x /\ \A i \in 1 .. Len(r) : u[i] = r[i]
            /\ \A i \in DOMAIN u : ~Mishandled(u[i])
        BY <3>4, <4>1 DEF AllHandled
      <4>3. Len(r) + 1 \in DOMAIN u /\ \A i \in 1 .. Len(r) : i \in DOMAIN u
        BY <4>1, <4>2
      <4> QED BY <4>1, <4>2, <4>3 DEF AllHandled
    <3>13. Handled(act, x)
      BY <3>7, <3>12 DEF Handled
    <3>14. Run(Fresh, Script(Found)) = Configured(Fresh, r)
      BY <1>2, <3>10, <3>12 DEF DoneSoFar
    <3>15. Run(Fresh, Script(Found')) = Configure(Run(Fresh, Script(Found)), x)
      BY <1>2, <2>2, <3>7, <3>10, <3>11, <3>13, ScriptItem
    <3>16. Configured(Fresh, Append(r, x)) = Configure(Configured(Fresh, r), x)
      BY <1>3, <3>3, ConfiguredAppend
    <3> QED BY <3>14, <3>15, <3>16
  <2> QED BY <2>1, <2>2
<1> QED BY <1>4, <1>5, <1>6 DEF Scan

(* After any line that ScanLine reads, the scan is still on course.        *)
LEMMA ScanLineKeeps ==
  ASSUME config \in Seq(Sections), ScanLine, NEW b, NEW k, Scan(b, k)
  PROVE  \E d, j : Scan(d, j)'
<1> PICK x, d : x = Head(rest) /\ d = Append(b, x)
  OBVIOUS
<1>1. /\ x \in AllLines /\ d \in Seq(AllLines) /\ lines' = Append(lines, x) /\ lines \in Seq(AllLines)
      /\ lines' \in Seq(AllLines) /\ rest' \in Seq(AllLines) /\ (rest \in Seq(ConfigLines(config)))'
      /\ d \o rest' = LinesOf(config')
      /\ config' = config /\ act' = act /\ actions' = actions
      /\ IsKey(x) => x.key = "ca-certs"
  BY LineScanned
<1>2. b \in Seq(AllLines) /\ \A K \in SUBSET Keys : Read(K, b).key = k
  BY DEF Scan, Position
<1>3. ASSUME NEW j, \A K \in SUBSET Keys : Read(K, d).key = j
      PROVE  Position(d, j)'
  BY <1>1, <1>3 DEF Position
<1>4. CASE IsKey(x)
  <2>1. \A K : Read(K, d).key = "ca-certs" /\ Read(K, d).items = Read(K, b).items
    <3>1. x \in AllLines /\ b \in Seq(AllLines) /\ d = Append(b, x) /\ x.key = "ca-certs"
      BY <1>1, <1>2, <1>4
    <3>2. ASSUME NEW K
          PROVE  Read(K, Append(b, x)).key = x.key /\ Read(K, Append(b, x)).items = Read(K, b).items
      BY <1>4, <3>1, ReadKey
    <3> QED BY <3>1, <3>2
  <2>2. Position(d, "ca-certs")'
    BY <1>3, <2>1
  <2> PICK l : l = lines
    OBVIOUS
  <2>3. \A K : Read(K, Append(l, x)).key = "ca-certs" /\ Read(K, Append(l, x)).items = Read(K, l).items
    BY <1>1, <1>4, ReadKey
  <2>4. ItemsUnder(act, lines') = ItemsUnder(act, lines) /\ Read({act}, lines').key = "ca-certs"
    BY <1>1, <2>3 DEF ItemsUnder
  <2>5. Scan(d, "ca-certs")'
    BY <2>1, <2>2, <2>4, NothingNew
  <2> QED BY <2>5
<1>5. CASE ~IsKey(x)
  <2>1. \A K : Read(K, d).key = Read(K, b).key
    <3>1. ASSUME NEW K PROVE Read(K, d).key = Read(K, b).key
      BY <1>1, <1>2, <1>5, ReadItem, ReadOther
    <3> QED BY <3>1
  <2>2. Position(d, k)'
    BY <1>2, <1>3, <2>1
  <2>3. CASE act # "none" /\ k = act
    <3>1. Scan(d, k)'
      BY <1>5, <2>2, <2>3, NewItem
    <3> QED BY <3>1
  <2>4. CASE ~(act # "none" /\ k = act)
    <3>1. k \in {"none", "ca-certs"}
      BY <2>4 DEF Scan, OpenBlock
    <3>2. \A K \in SUBSET (Keys \ {"ca-certs"}) : Read(K, d).items = Read(K, b).items
      <4>1. ASSUME NEW K \in SUBSET (Keys \ {"ca-certs"}) PROVE Read(K, d).items = Read(K, b).items
        <5>1. k \notin K
          BY <3>1 DEF Keys
        <5>2. Read(K, b).key \notin K
          BY <1>2, <5>1
        <5> QED BY <1>1, <1>2, <1>5, <5>2, ReadOther
      <4> QED BY <4>1
    <3>3. ASSUME act # "none"
          PROVE  ItemsUnder(act, lines') = ItemsUnder(act, lines) /\ Read({act}, lines').key = k
      <4> PICK l, K : l = lines /\ K = {act}
        OBVIOUS
      <4>1. Read(K, l).key = k /\ Read(K, l).key \notin K /\ l \in Seq(AllLines)
        BY <1>1, <2>4, <3>3 DEF Scan, OpenBlock
      <4>2. Read(K, Append(l, x)).key = k /\ Read(K, Append(l, x)).items = Read(K, l).items
        BY <1>1, <1>5, <4>1, ReadOther
      <4> QED BY <1>1, <4>2 DEF ItemsUnder
    <3>4. Scan(d, k)'
      BY <2>2, <3>2, <3>3, NothingNew
    <3> QED BY <3>4
  <2> QED BY <2>3, <2>4
<1> QED BY <1>4, <1>5

-----------------------------------------------------------------------------
(* A key: the current action is found, and another one opens.              *)

(* When the open block can be read, the actions found are actions, and     *)
(* fail to decode only if a file does.                                     *)
LEMMA FoundIs ==
  ASSUME config \in Seq(Sections), NEW b, NEW k, Scan(b, k), ~Broken
  PROVE  /\ Found \in Seq(Actions)
         /\ \A a \in Range(Found) : BlockDecodes(a) \/ Undecodable(Read({"write_files"}, b).items)
<1>1. /\ b \in Seq(AllLines) /\ DecodedSoFar(b) /\ rest \in Seq(AllLines)
      /\ b \o rest = LinesOf(config) /\ actions \in Seq(Actions) /\ lines \in Seq(AllLines)
  BY DEF Scan, Position, OpenBlock
<1>2. CASE act = "none"
  BY <1>1, <1>2 DEF Found, DecodedSoFar
<1>3. CASE act # "none"
  <2> PICK s : s = ItemsUnder(act, lines)
    OBVIOUS
  <2>1. Range(s) \subseteq Range(Read({act}, b).items) /\ s \in Seq(Items)
    BY <1>1, <1>3, ReadType DEF Scan, OpenBlock, ItemsUnder
  <2>2. Unmarshal(act, lines).outcome = "ok"
    BY <1>3 DEF Broken, Unmarshalled
  <2>3. act \in Supported /\ \A x \in Range(s) : Readable(act, x)
    BY <2>2, UnmarshalIs
  <2>4. Found = Append(actions, ActionOf(act, s))
    BY <1>3, <2>2, UnmarshalIs DEF Found, Unmarshalled
  <2>5. s \in Seq(ItemsFor(act))
    <3>1. s \in Seq(SectionItems(act))
      BY <1>1, <2>1, <2>3, ReadKind
    <3> QED BY <2>3, <3>1, ReadableItems
  <2> PICK a : a = ActionOf(act, s)
    OBVIOUS
  <2>6. a \in Actions
    BY <2>3, <2>5, ActionOfType
  <2>7. Range(Append(actions, a)) = Range(actions) \cup {a}
    BY <1>1, <2>6, RangeAppend
  <2>8. BlockDecodes(a) \/ Undecodable(Read({"write_files"}, b).items)
    <3>1. CASE act = "write_files"
      <4>1. a.key = "write_files" /\ a.items = s
        BY <3>1 DEF ActionOf, Parsed
      <4>2. ASSUME ~BlockDecodes(a) PROVE Undecodable(Read({"write_files"}, b).items)
        <5>1. PICK i \in DOMAIN s : ~Decodes(s[i].content, Decoded(s[i]))
          BY <4>1, <4>2 DEF BlockDecodes
        <5>2. s[i] \in Range(Read({"write_files"}, b).items)
          BY <2>1, <3>1 DEF Range
        <5> QED BY <5>1, <5>2 DEF Undecodable
      <4> QED BY <4>2
    <3>2. CASE act # "write_files"
      <4>1. a.key # "write_files"
        BY <3>2 DEF ActionOf
      <4> QED BY <4>1 DEF BlockDecodes
    <3> QED BY <3>1, <3>2
  <2>9. Found \in Seq(Actions)
    BY <1>1, <2>4, <2>6, AppendFacts
  <2> QED BY <1>1, <2>4, <2>7, <2>8, <2>9 DEF DecodedSoFar
<1> QED BY <1>2, <1>3

(* What ScanKey reads, and what it closes.                                 *)
LEMMA KeyScanned ==
  ASSUME config \in Seq(Sections), ScanKey, ~Broken, NEW b, NEW k, Scan(b, k)
  PROVE  /\ Head(rest) \in AllLines /\ IsKey(Head(rest))
         /\ Head(rest).key \in Keys \ {"ca-certs"} /\ \E i \in DOMAIN config : config[i].key = Head(rest).key
         /\ Append(b, Head(rest)) \in Seq(AllLines)
         /\ lines' = Append(IF act = "none" THEN b ELSE <<>>, Head(rest))
         /\ rest' \in Seq(AllLines) /\ (rest \in Seq(ConfigLines(config)))'
         /\ Append(b, Head(rest)) \o rest' = LinesOf(config')
         /\ config' = config /\ act' = Head(rest).key /\ actions' = Found
<1>1. /\ b \in Seq(AllLines) /\ rest \in Seq(AllLines) /\ rest \in Seq(ConfigLines(config))
      /\ b \o rest = LinesOf(config) /\ (act = "none" => lines = b)
  BY DEF Scan, Position, OpenBlock
<1>2. /\ rest # <<>> /\ actionRegEx(Head(rest))
      /\ lines' = Append(IF act = "none" THEN lines ELSE <<>>, Head(rest))
      /\ rest' = Tail(rest) /\ config' = config /\ act' = Head(rest).key /\ actions' = Found
  BY DEF ScanKey, ScanEnds
<1>3. /\ Head(rest) \in AllLines /\ Tail(rest) \in Seq(AllLines)
      /\ Append(b, Head(rest)) \in Seq(AllLines)
      /\ Append(b, Head(rest)) \o Tail(rest) = b \o rest
  <2>1. b \in Seq(AllLines) /\ rest \in Seq(AllLines) /\ rest # <<>>
    BY <1>1, <1>2
  <2> QED BY <2>1, ConcatHead
<1>4. Head(rest) \in ConfigLines(config) /\ Tail(rest) \in Seq(ConfigLines(config))
  BY <1>1, <1>2, ConcatHead
<1>5. (rest \in Seq(ConfigLines(config)))'
  <2>1. ConfigLines(config)' = ConfigLines(config)
    BY <1>2 DEF ConfigLines
  <2> QED BY <1>2, <1>4, <2>1
<1>6. IsKey(Head(rest)) /\ Head(rest).key # "ca-certs"
  BY <1>2 DEF actionRegEx
<1>7. Head(rest).key \in Keys
  BY <1>3, <1>6, LineKinds
<1>8. \E i \in DOMAIN config : config[i].key = Head(rest).key
  <2>1. Head(rest) \notin Items
    BY <1>6, ItemIsNoKey
  <2>2. PICK i \in DOMAIN config : Head(rest) = KeyLine(config[i].key)
    <3>1. ASSUME NEW i \in DOMAIN config PROVE Range(config[i].items) \subseteq Items
      <4>1. config[i] \in Sections
        OBVIOUS
      <4>2. config[i].items \in Seq(Items)
        BY <4>1, SectionTypes
      <4> QED BY <4>2 DEF Range
    <3> QED BY <1>4, <2>1, <3>1 DEF ConfigLines
  <2>3. KeyLine(config[i].key).key = config[i].key
    BY DEF KeyLine
  <2> QED BY <2>2, <2>3
<1>9. Append(b, Head(rest)) \o rest' = LinesOf(config')
  BY <1>1, <1>2, <1>3
<1>10. lines' = Append(IF act = "none" THEN b ELSE <<>>, Head(rest))
  BY <1>1, <1>2
<1>11. rest' \in Seq(AllLines)
  BY <1>2, <1>3
<1> QED BY <1>2, <1>3, <1>5, <1>6, <1>7, <1>8, <1>9, <1>10, <1>11

(* After a key the scan is still on course: the open block has become an   *)
(* action, and a new one begins.                                           *)
LEMMA ScanKeyKeeps ==
  ASSUME config \in Seq(Sections), ScanKey, ~Broken, NEW b, NEW k, Scan(b, k)
  PROVE  \E d, j : Scan(d, j)'
<1> PICK x, d, e : x = Head(rest) /\ d = Append(b, x) /\ e = IF act = "none" THEN b ELSE <<>>
  OBVIOUS
<1>1. /\ x \in AllLines /\ IsKey(x) /\ x.key \in Keys \ {"ca-certs"}
      /\ (\E i \in DOMAIN config : config[i].key = x.key) /\ d \in Seq(AllLines)
      /\ lines' = Append(e, x)
      /\ rest' \in Seq(AllLines) /\ (rest \in Seq(ConfigLines(config)))'
      /\ d \o rest' = LinesOf(config')
      /\ config' = config /\ act' = x.key /\ actions' = Found
  BY KeyScanned
<1>2. b \in Seq(AllLines) /\ DoneSoFar(b)
  BY DEF Scan, Position
<1>3. /\ Found \in Seq(Actions)
      /\ \A a \in Range(Found) : BlockDecodes(a) \/ Undecodable(Read({"write_files"}, b).items)
  BY FoundIs
<1>4. \A K : Read(K, d).key = x.key /\ Read(K, d).items = Read(K, b).items
  <2>1. x \in AllLines /\ IsKey(x)
    BY <1>1
  <2>2. ASSUME NEW K
        PROVE  Read(K, Append(b, x)).key = x.key /\ Read(K, Append(b, x)).items = Read(K, b).items
    BY <1>2, <2>1, ReadKey
  <2> QED BY <2>2
<1>5. Position(d, x.key)'
  BY <1>1, <1>4 DEF Position
<1>6. /\ e \in Seq(AllLines) /\ lines' \in Seq(AllLines)
      /\ Read({x.key}, lines').key = x.key /\ ItemsUnder(x.key, lines') = <<>>
  <2>1. e \in Seq(AllLines)
    BY <1>2
  <2>2. x \in AllLines /\ IsKey(x)
    BY <1>1
  <2>3. Read({x.key}, e).items = <<>>
    <3>1. CASE act = "none"
      <4>1. {x.key} \in SUBSET (Keys \ {"ca-certs"})
        BY <1>1
      <4> QED BY <3>1, <4>1 DEF Scan, OpenBlock
    <3>2. CASE act # "none"
      BY <3>2, ReadEmpty DEF NothingRead
    <3> QED BY <3>1, <3>2
  <2>4. /\ Read({x.key}, Append(e, x)).key = x.key
        /\ Read({x.key}, Append(e, x)).items = Read({x.key}, e).items
    BY <2>1, <2>2, ReadKey
  <2>5. Append(e, x) \in Seq(AllLines)
    BY <2>1, <2>2, AppendFacts
  <2> QED BY <1>1, <2>1, <2>3, <2>4, <2>5 DEF ItemsUnder
<1>7. OpenBlock(d, x.key)'
  <2>1. x.key # "none"
    BY <1>1 DEF Keys
  <2>2. Range(ItemsUnder(x.key, lines')) = {}
    BY <1>6 DEF Range
  <2> QED BY <1>1, <1>3, <1>6, <2>1, <2>2 DEF OpenBlock
<1>8. DecodedSoFar(d)'
  <2>1. Read({"write_files"}, d).items = Read({"write_files"}, b).items
    BY <1>4
  <2> QED BY <1>1, <1>3, <2>1 DEF DecodedSoFar
<1>9. DoneSoFar(d)'
  <2>1. CASE x.key \notin Supported
    <3>1. Unmarshal(act', lines').outcome = "error"
      BY <1>1, <2>1, UnmarshalIs
    <3>2. act' # "none"
      BY <1>1 DEF Keys
    <3>3. Broken'
      BY <3>1, <3>2 DEF Broken, Unmarshalled
    <3> QED BY <3>3 DEF DoneSoFar
  <2>2. CASE x.key \in Supported
    <3>1. Range(ItemsUnder(x.key, lines')) = {} /\ x.key # "none"
      BY <1>6, <2>2 DEF Range, Supported
    <3>2. [key |-> x.key, items |-> Unmarshal(x.key, lines').items] = ActionOf(x.key, <<>>)
      BY <1>6, <2>2, <3>1, UnmarshalIs
    <3> PICK o : o = ActionOf(x.key, <<>>)
      OBVIOUS
    <3>3. Found' = Append(Found, o)
      BY <1>1, <3>1, <3>2 DEF Found, Unmarshalled
    <3>4. <<>> \in Seq(ItemsFor(x.key))
      OBVIOUS
    <3>5. o \in Actions /\ GenerateScriptBlock(o) = <<>>
      BY <2>2, <3>4, ActionOfType, BlockEmpty
    <3>6. Script(Found) \in Seq(Statements) /\ Script(Append(Found, o)) = Script(Found) \o <<>>
      BY <1>3, <3>5, ScriptAppend
    <3>7. Script(Found') = Script(Found)
      BY <3>3, <3>6
    <3>8. Read(Supported, d).items = Read(Supported, b).items
      BY <1>4
    <3> QED BY <1>2, <3>7, <3>8 DEF DoneSoFar
  <2> QED BY <2>1, <2>2
<1>10. Scan(d, x.key)'
  BY <1>5, <1>7, <1>8, <1>9 DEF Scan
<1> QED BY <1>10

-----------------------------------------------------------------------------
(* The ends of a scan.                                                     *)

(* A block that cannot be unmarshalled: of a module that is not known, or  *)
(* with an item of the wrong type or an empty command, which the           *)
(* cloud-config has below the block's key.                                 *)
LEMMA BrokenStops ==
  ASSUME config \in Seq(Sections), NEW b, NEW k, Scan(b, k), Broken
  PROVE  /\ Refusable /\ Unmarshalled.outcome \in {"error", "panic"}
         /\ Unmarshalled.outcome = "panic" => MayPanic
<1>1. act # "none" /\ Unmarshal(act, lines).outcome # "ok"
  BY DEF Broken, Unmarshalled
<1>2. /\ b \in Seq(AllLines) /\ rest \in Seq(AllLines) /\ b \o rest = LinesOf(config)
      /\ act \in Keys \ {"ca-certs"} /\ (\E i \in DOMAIN config : config[i].key = act)
      /\ Range(ItemsUnder(act, lines)) \subseteq Range(Read({act}, b).items)
      /\ lines \in Seq(AllLines)
  BY <1>1 DEF Scan, Position, OpenBlock
<1>3. CASE act \notin Supported
  <2>1. Unmarshal(act, lines).outcome = "error"
    BY <1>3, UnmarshalIs
  <2> QED BY <1>2, <1>3, <2>1 DEF Unmarshalled, Refusable
<1>4. CASE act \in Supported
  <2> PICK s : s = ItemsUnder(act, lines)
    OBVIOUS
  <2>1. /\ Unmarshal(act, lines).outcome \in {"error", "panic"}
        /\ Unmarshal(act, lines).outcome = "panic" => act = "runcmd" /\ \E x \in Range(s) : IsEmpty(x)
        /\ act = "write_files" => \E x \in Range(s) : x.form # "file"
        /\ act = "runcmd" => \E x \in Range(s) : x.form \notin {"list", "string"} \/ IsEmpty(x)
    BY <1>1, UnmarshalIs
  <2>2. s \in Seq(Items)
    BY <1>2, ReadType DEF ItemsUnder
  <2>3. Range(s) \subseteq Range(ItemsOf({act}, config))
    BY <1>2, <1>4, <2>2, ReadKind
  <2> QED BY <1>4, <2>1, <2>3 DEF Unmarshalled, Refusable, MayPanic, Supported
<1> QED BY <1>3, <1>4

(* A line that is too long is in the cloud-config.                         *)
LEMMA LongStops ==
  ASSUME NEW b, NEW k, Scan(b, k), rest # <<>>, ScanEnds
  PROVE  Refusable
<1>1. rest \in Seq(ConfigLines(config)) /\ Head(rest) \in Long
  BY DEF Scan, Position, ScanEnds
<1>2. Head(rest) \in ConfigLines(config) /\ Head(rest) \in Items
  BY <1>1, LongAssumption
<1>3. ASSUME NEW i, Head(rest) = KeyLine(config[i].key) PROVE FALSE
  <2>1. IsKey(KeyLine(config[i].key))
    BY DEF IsKey, KeyLine
  <2> QED BY <1>2, <1>3, <2>1, ItemIsNoKey
<1>4. \E i \in DOMAIN config : Head(rest) \in Range(config[i].items)
  BY <1>2, <1>3 DEF ConfigLines
<1> QED BY <1>1, <1>4 DEF Refusable

(* At the end of the lines everything has been read.                       *)
LEMMA AllRead ==
  ASSUME config \in Seq(Sections), NEW b, NEW k, Scan(b, k), rest = <<>>
  PROVE  \A K : Read(K, b).items = ItemsOf(K, config)
<1>1. b \in Seq(AllLines) /\ b \o rest = LinesOf(config)
  BY DEF Scan, Position
<1>2. b = LinesOf(config)
  BY <1>1
<1>3. ASSUME NEW K PROVE Read(K, LinesOf(config)).items = ItemsOf(K, config)
  BY ReadConfig
<1> QED BY <1>2, <1>3

(* A cloud-config is a sequence of sections.                               *)
LEMMA ConfigsAreSections ==
  ASSUME NEW c \in Configs
  PROVE  c \in Seq(Sections)
BY ConfigsAssumption

(* A step that only stops.                                                 *)
LEMMA StopKeeps ==
  ASSUME ConfigInv, status = "scanning", status' \in {"error", "panic"},
         config' = config, yaml' = yaml,
         Refusable, status' = "panic" => MayPanic
  PROVE  ConfigInv'
<1>1. config \in Configs /\ yaml
  BY DEF ConfigInv
<1>2. ScriptDoesWhatConfigSays'
  BY DEF ScriptDoesWhatConfigSays
<1>3. OnlyEmptyCommandPanics'
  BY <1>1 DEF OnlyEmptyCommandPanics, MayPanic
<1>4. KnownModulesAccepted'
  BY DEF KnownModulesAccepted, Refusable
<1> QED BY <1>1, <1>2, <1>3, <1>4 DEF ConfigInv

(* A scan that is still on course keeps the invariant.                     *)
LEMMA ScanKeepsConfigInv ==
  ASSUME ConfigInv, status' = "scanning", yaml, config' = config, yaml' = yaml,
         \E b, k : Scan(b, k)'
  PROVE  ConfigInv'
<1>1. ScriptDoesWhatConfigSays' /\ OnlyEmptyCommandPanics' /\ KnownModulesAccepted'
  BY DEF ScriptDoesWhatConfigSays, OnlyEmptyCommandPanics, KnownModulesAccepted
<1> QED BY <1>1 DEF ConfigInv

-----------------------------------------------------------------------------
(* The steps.                                                              *)

(* Before the first line the scan is on course.                            *)
LEMMA InitScan ==
  ASSUME Init
  PROVE  Scan(<<>>, "none")
<1>1. /\ config \in Seq(Sections) /\ rest = LinesOf(config) /\ act = "none" /\ lines = <<>>
      /\ actions = <<>>
  BY ConfigsAreSections DEF Init
<1>2. rest \in Seq(AllLines) /\ rest \in Seq(ConfigLines(config))
  BY <1>1, ReadConfig, ConfigLinesOf
<1>3. \A K : Read(K, <<>>).key = "none" /\ Read(K, <<>>).items = <<>>
  BY ReadEmpty DEF NothingRead
<1>4. <<>> \in Seq(AllLines) /\ <<>> \in Seq(Actions) /\ <<>> \o rest = rest
  BY <1>2
<1>5. Position(<<>>, "none")
  BY <1>1, <1>2, <1>3, <1>4 DEF Position
<1>6. OpenBlock(<<>>, "none")
  BY <1>1, <1>3, <1>4 DEF OpenBlock
<1>7. DoneSoFar(<<>>)
  <2>1. Found = <<>>
    BY <1>1 DEF Found
  <2>2. Run(Fresh, Script(Found)) = Fresh
    BY <2>1, ScriptEmpty, RunEmpty
  <2>3. Configured(Fresh, Read(Supported, <<>>).items) = Fresh
    BY <1>3, ConfiguredEmpty
  <2> QED BY <2>2, <2>3 DEF DoneSoFar
<1>8. DecodedSoFar(<<>>)
  BY <1>1 DEF DecodedSoFar, Range
<1> QED BY <1>5, <1>6, <1>7, <1>8 DEF Scan

(* The invariant holds initially.                                          *)
LEMMA InitConfigInv == Init => ConfigInv
<1> SUFFICES ASSUME Init PROVE ConfigInv
  OBVIOUS
<1>1. \E b, k : Scan(b, k)
  BY InitScan
<1>2. config \in Configs /\ yaml \in BOOLEAN /\ status = "start"
  BY DEF Init
<1>3. ScriptDoesWhatConfigSays /\ OnlyEmptyCommandPanics /\ KnownModulesAccepted
  BY <1>2 DEF ScriptDoesWhatConfigSays, OnlyEmptyCommandPanics, KnownModulesAccepted
<1> QED BY <1>1, <1>2, <1>3 DEF ConfigInv

(* A scan stays on course while nothing moves.                             *)
LEMMA ScanUnchanged ==
  ASSUME NEW b, NEW k, Scan(b, k),
         UNCHANGED <<config, rest, act, lines, actions>>
  PROVE  Scan(b, k)'
<1>1. Position(b, k)'
  <2>1. ConfigLines(config)' = ConfigLines(config)
    BY DEF ConfigLines
  <2> QED BY <2>1 DEF Scan, Position
<1>2. OpenBlock(b, k)'
  BY DEF Scan, OpenBlock
<1>3. Broken' = Broken /\ Found' = Found
  BY DEF Broken, Found, Unmarshalled
<1>4. DoneSoFar(b)'
  BY <1>3 DEF Scan, DoneSoFar
<1>5. DecodedSoFar(b)'
  BY DEF Scan, DecodedSoFar
<1> QED BY <1>1, <1>2, <1>4, <1>5 DEF Scan

(* Validation keeps the invariant: what is not YAML is an error.           *)
LEMMA ValidateKeeps ==
  ASSUME ConfigInv, Validate
  PROVE  ConfigInv'
<1>1. /\ status = "start" /\ status' = (IF yaml THEN "scanning" ELSE "error")
      /\ UNCHANGED <<config, yaml, rest, act, lines, actions>>
  BY DEF Validate, Stop
<1>2. PICK b, k : Scan(b, k)
  BY <1>1 DEF ConfigInv
<1>3. Scan(b, k)'
  BY <1>1, <1>2, ScanUnchanged
<1>4. CASE yaml
  BY <1>1, <1>3, <1>4, ScanKeepsConfigInv
<1>5. CASE ~yaml
  <2>1. ScriptDoesWhatConfigSays' /\ OnlyEmptyCommandPanics' /\ KnownModulesAccepted'
    BY <1>1, <1>5 DEF ScriptDoesWhatConfigSays, OnlyEmptyCommandPanics, KnownModulesAccepted
  <2> QED BY <1>1, <1>5, <2>1 DEF ConfigInv
<1> QED BY <1>4, <1>5

(* So does giving up over a block that cannot be read.                     *)
LEMMA BrokenKeeps ==
  ASSUME ConfigInv, status = "scanning", Broken, Stop(Unmarshalled.outcome)
  PROVE  ConfigInv'
<1>1. config \in Seq(Sections)
  BY ConfigsAreSections DEF ConfigInv
<1>2. PICK b, k : Scan(b, k)
  BY DEF ConfigInv
<1>3. /\ Refusable /\ Unmarshalled.outcome \in {"error", "panic"}
      /\ Unmarshalled.outcome = "panic" => MayPanic
  BY <1>1, <1>2, BrokenStops
<1>4. status' = Unmarshalled.outcome /\ config' = config /\ yaml' = yaml
  BY DEF Stop
<1> QED BY <1>3, <1>4, StopKeeps

(* So does ScanKey, whether the block before the key can be read or not.   *)
LEMMA ScanKeyKeepsInv ==
  ASSUME ConfigInv, ScanKey
  PROVE  ConfigInv'
<1>1. status = "scanning" /\ yaml /\ config \in Seq(Sections)
  BY ConfigsAreSections DEF ConfigInv, ScanKey
<1>2. CASE Broken
  <2>1. Stop(Unmarshalled.outcome)
    BY <1>2 DEF ScanKey
  <2> QED BY <1>1, <1>2, <2>1, BrokenKeeps
<1>3. CASE ~Broken
  <2>1. PICK b, k : Scan(b, k)
    BY <1>1 DEF ConfigInv
  <2>2. \E d, j : Scan(d, j)'
    BY <1>1, <1>3, <2>1, ScanKeyKeeps
  <2>3. status' = status /\ config' = config /\ yaml' = yaml
    BY <1>3 DEF ScanKey
  <2> QED BY <1>1, <2>2, <2>3, ScanKeepsConfigInv
<1> QED BY <1>2, <1>3

(* So does ScanLine.                                                       *)
LEMMA ScanLineKeepsInv ==
  ASSUME ConfigInv, ScanLine
  PROVE  ConfigInv'
<1>1. status = "scanning" /\ yaml /\ config \in Seq(Sections)
  BY ConfigsAreSections DEF ConfigInv, ScanLine
<1>2. PICK b, k : Scan(b, k)
  BY <1>1 DEF ConfigInv
<1>3. \E d, j : Scan(d, j)'
  BY <1>1, <1>2, ScanLineKeeps
<1>4. status' = status /\ config' = config /\ yaml' = yaml
  BY DEF ScanLine
<1> QED BY <1>1, <1>3, <1>4, ScanKeepsConfigInv

(* So does the end of the scan: all lines have been read, and the script   *)
(* does what they ask for.                                                 *)
LEMMA GenerateScriptKeepsInv ==
  ASSUME ConfigInv, GenerateScript
  PROVE  ConfigInv'
<1>1. status = "scanning" /\ ScanEnds /\ yaml /\ config \in Seq(Sections) /\ config \in Configs
  BY ConfigsAreSections DEF ConfigInv, GenerateScript
<1>2. PICK b, k : Scan(b, k)
  BY <1>1 DEF ConfigInv
<1>3. rest = <<>> => \A K : Read(K, b).items = ItemsOf(K, config)
  BY <1>1, <1>2, AllRead
<1>4. CASE Broken
  <2>1. Stop(Unmarshalled.outcome)
    BY <1>4 DEF GenerateScript
  <2> QED BY <1>1, <1>4, <2>1, BrokenKeeps
<1>5. CASE /\ ~Broken /\ Stop("error")
           /\ rest # <<>> \/ \E i \in DOMAIN Found : ~BlockDecodes(Found[i])
  <2>1. ASSUME rest # <<>> PROVE Refusable
    BY <1>1, <1>2, <2>1, LongStops
  <2>2. ASSUME rest = <<>> PROVE Refusable
    <3>1. PICK a \in Range(Found) : ~BlockDecodes(a)
      BY <1>5, <2>2 DEF Range
    <3>2. Undecodable(Read({"write_files"}, b).items)
      BY <1>1, <1>2, <1>5, <3>1, FoundIs
    <3>3. \E f \in Range(ItemsOf({"write_files"}, config)) : ~Decodes(f.content, Decoded(f))
      BY <1>3, <2>2, <3>2 DEF Undecodable
    <3> QED BY <3>3 DEF Refusable
  <2>3. Refusable
    BY <2>1, <2>2
  <2>4. status' = "error" /\ config' = config /\ yaml' = yaml
    BY <1>5 DEF Stop
  <2> QED BY <1>1, <2>3, <2>4, StopKeeps
<1>6. CASE /\ ~Broken /\ rest = <<>> /\ script' = Script(Found) /\ status' = "script"
           /\ UNCHANGED <<config, yaml>>
  <2>1. DoneSoFar(b) /\ Read(Supported, b).items = Asked
    BY <1>2, <1>3, <1>6 DEF Scan, Asked
  <2>2. AllHandled(Asked) => Run(Fresh, Script(Found)) = Configured(Fresh, Asked)
    BY <1>6, <2>1 DEF DoneSoFar
  <2>3. Asked' = Asked
    BY <1>6 DEF Asked
  <2>4. ScriptDoesWhatConfigSays'
    BY <1>6, <2>2, <2>3 DEF ScriptDoesWhatConfigSays, AllHandled
  <2>5. OnlyEmptyCommandPanics' /\ KnownModulesAccepted'
    BY <1>6 DEF OnlyEmptyCommandPanics, KnownModulesAccepted
  <2> QED BY <1>1, <1>6, <2>4, <2>5 DEF ConfigInv
<1> QED BY <1>4, <1>5, <1>6 DEF GenerateScript

(* So does a step in which nothing changes.                                *)
LEMMA StutterKeepsInv ==
  ASSUME ConfigInv, UNCHANGED vars
  PROVE  ConfigInv'
<1>1. UNCHANGED <<config, yaml, rest, act, lines, actions, script, status>>
  BY DEF vars
<1>2. status \in {"start", "scanning"} => \E b, k : Scan(b, k)'
  <2>1. ASSUME status \in {"start", "scanning"} PROVE \E b, k : Scan(b, k)'
    <3>1. PICK b, k : Scan(b, k)
      BY <2>1 DEF ConfigInv
    <3>2. Scan(b, k)'
      BY <1>1, <3>1, ScanUnchanged
    <3> QED BY <3>2
  <2> QED BY <2>1
<1>3. ScriptDoesWhatConfigSays' /\ OnlyEmptyCommandPanics' /\ KnownModulesAccepted'
  BY <1>1 DEF ConfigInv, ScriptDoesWhatConfigSays, OnlyEmptyCommandPanics, KnownModulesAccepted, Asked
<1> QED BY <1>1, <1>2, <1>3 DEF ConfigInv

(* Every cloud-config is scanned so that, at each line, the actions found  *)
(* so far do what has been read so far, and the outcomes are the ones      *)
(* below.                                                                  *)
THEOREM ConfigSafety == Spec => []ConfigInv
<1>1. Init => ConfigInv
  BY InitConfigInv
<1>2. ConfigInv /\ [Next]_vars => ConfigInv'
  BY ValidateKeeps, ScanKeyKeepsInv, ScanLineKeepsInv, GenerateScriptKeepsInv, StutterKeepsInv
     DEF Next
<1> QED BY <1>1, <1>2, PTL DEF Spec

(* For every cloud-config whose items are not mishandled: running the      *)
(* script that GenerateScript returns leaves the machine with the files,   *)
(* and runs the commands in the order and with the files in place, that    *)
(* its write_files and runcmd sections ask for, up to the first command    *)
(* that fails, however many of them there are, and whatever stands below   *)
(* keys that the scanner does not see.                                     *)
THEOREM ScriptIsFaithful == Spec => []ScriptDoesWhatConfigSays
BY ConfigSafety, PTL DEF ConfigInv

(* Only a runcmd item that is an empty list or null makes the adapter      *)
(* index past the end of a slice: Cmd.UnmarshalJSON panics for no other    *)
(* input.                                                                  *)
THEOREM PanicNeedsEmptyCommand == Spec => []OnlyEmptyCommandPanics
BY ConfigSafety, PTL DEF ConfigInv

(* A valid cloud-config is refused only for a key of an unknown module, an *)
(* item of the wrong type, a content that cannot be decoded, an empty      *)
(* command or a line that is too long.                                     *)
THEOREM KnownModulesGiveScript == Spec => []KnownModulesAccepted
BY ConfigSafety, PTL DEF ConfigInv
=============================================================================
