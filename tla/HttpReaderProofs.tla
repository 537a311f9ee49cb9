---------------------------- MODULE HttpReaderProofs ----------------------------
(* Proofs about HttpReader, for any messages and pieces of any size: whatever   *)
(* the peer sends, no handler waits for the thread it runs on, and what the     *)
(* peers frame truthfully is handed on message by message.                      *)
EXTENDS HttpReader, SequenceTheorems, WellFoundedInduction, TLAPS

--------------------------------------------------------------------------------
(* Sequences of tokens *)

\* A set of positive numbers has a least one.
LEMMA LeastExists ==
    ASSUME NEW S, S \subseteq Nat, S # {}
    PROVE  \E x \in S : \A y \in S : x <= y
<1>1. PICK x \in S : \A y \in S : ~(<<y, x>> \in OpToRel(<, Nat))
  BY NatLessThanWellFounded, WFMin
<1>2. \A y \in S : ~(y < x)
  BY <1>1 DEF OpToRel
<1> QED BY <1>2

\* Three sequences, named together so that the lemma below is used for them only.
Three(T, a, b, c) == a \in Seq(T) /\ b \in Seq(T) /\ c \in Seq(T)

\* Where the brackets are does not matter.
LEMMA Associates ==
    ASSUME NEW T, NEW a, NEW b, NEW c, Three(T, a, b, c)
    PROVE  (a \o b) \o c = a \o (b \o c)
BY DEF Three

\* How far sequences have been joined: the recursion of FlattenSeq, for the first n.
Joins(f, s, n) ==
    /\ f = [i \in 1..n |-> f[i]]
    /\ \A i \in 1..n : f[i] = IF i = 1 THEN s[i] ELSE f[i - 1] \o s[i]

\* The recursion of FlattenSeq has a solution, one more sequence at a time.
LEMMA JoinsExist ==
    ASSUME NEW s, NEW N \in Nat
    PROVE  \A n \in 0..N : \E f : Joins(f, s, n)
<1>1. PICK S : S = {n \in 0..N : ~ \E f : Joins(f, s, n)}
  OBVIOUS
<1>2. SUFFICES ASSUME S # {}
               PROVE  FALSE
  BY <1>1
<1>3. PICK n \in S : \A y \in S : n <= y
  BY <1>1, <1>2, LeastExists
<1>4. CASE n = 0
  <2>1. PICK f : f = [i \in 1..0 |-> i]
    OBVIOUS
  <2>2. Joins(f, s, 0)
    BY <2>1 DEF Joins
  <2> QED BY <1>1, <1>4, <2>2
<1>5. CASE n # 0
  <2>1. n - 1 \in 0..N /\ n - 1 \notin S /\ n \in Nat
    BY <1>1, <1>3, <1>5
  <2>2. PICK f : Joins(f, s, n - 1)
    BY <1>1, <2>1
  <2>3. PICK g : g = [i \in 1..n |-> IF i = n THEN (IF n = 1 THEN s[n] ELSE f[n - 1] \o s[n]) ELSE f[i]]
    OBVIOUS
  <2>4. \A i \in 1..(n - 1) : g[i] = f[i]
    BY <2>1, <2>3
  <2>5. g[n] = IF n = 1 THEN s[n] ELSE g[n - 1] \o s[n]
    BY <1>5, <2>1, <2>3, <2>4
  <2>6. ASSUME NEW i \in 1..n
        PROVE  g[i] = IF i = 1 THEN s[i] ELSE g[i - 1] \o s[i]
    <3>1. CASE i = n
      BY <2>5, <3>1
    <3>2. CASE i # n
      <4>1. i \in 1..(n - 1) /\ (i # 1 => i - 1 \in 1..(n - 1))
        BY <2>1, <3>2
      <4>2. f[i] = IF i = 1 THEN s[i] ELSE f[i - 1] \o s[i]
        BY <2>2, <4>1 DEF Joins
      <4> QED BY <2>4, <4>1, <4>2
    <3> QED BY <3>1, <3>2
  <2>7. g = [i \in 1..n |-> g[i]]
    BY <2>3
  <2>8. Joins(g, s, n)
    BY <2>6, <2>7 DEF Joins
  <2> QED BY <1>1, <2>8
<1> QED BY <1>4, <1>5

\* What joins sequences of tokens is a sequence of tokens.
LEMMA JoinsTyped ==
    ASSUME NEW T, NEW s \in Seq(Seq(T)), NEW f, Joins(f, s, Len(s))
    PROVE  \A n \in 1..Len(s) : f[n] \in Seq(T)
<1>1. PICK S : S = {n \in 1..Len(s) : f[n] \notin Seq(T)}
  OBVIOUS
<1>2. SUFFICES ASSUME S # {}
               PROVE  FALSE
  BY <1>1
<1>3. PICK n \in S : \A y \in S : n <= y
  <2>1. \A y \in S : y \in Nat
    BY <1>1
  <2> QED BY <1>2, <2>1, LeastExists
<1>4. n \in 1..Len(s) /\ f[n] = IF n = 1 THEN s[n] ELSE f[n - 1] \o s[n]
  BY <1>1, <1>3 DEF Joins
<1>7. s[n] \in Seq(T)
  BY <1>4
<1>5. CASE n = 1
  BY <1>1, <1>4, <1>5, <1>7
<1>6. CASE n # 1
  <2>1. n - 1 \in 1..Len(s) /\ n - 1 \notin S
    BY <1>1, <1>3, <1>4, <1>6
  <2>2. f[n - 1] \in Seq(T)
    BY <1>1, <2>1
  <2>3. f[n] \in Seq(T)
    BY <1>4, <1>6, <1>7, <2>2
  <2> QED BY <1>1, <2>3
<1> QED BY <1>5, <1>6

\* FlattenSeq of no sequence.
LEMMA FlattenNone ==
    ASSUME NEW S, NEW s \in Seq(S), Len(s) = 0
    PROVE  FlattenSeq(s) = <<>>
<1>1. s = <<>>
  OBVIOUS
<1>2. FlattenSeq(s) = s
  BY DEF FlattenSeq
<1> QED BY <1>1, <1>2, Zenon

\* FlattenSeq computes its recursion.
LEMMA FlattenJoins ==
    ASSUME NEW s, Len(s) \in Nat \ {0}
    PROVE  \E f : Joins(f, s, Len(s)) /\ FlattenSeq(s) = f[Len(s)]
<1> DEFINE F(f) == f = [i \in 1..Len(s) |-> IF i = 1 THEN s[i] ELSE f[i - 1] \o s[i]]
           flatten == CHOOSE f : F(f)
<1>1. Len(s) \in Nat /\ Len(s) \in 0..Len(s)
  OBVIOUS
<1>2. PICK g : Joins(g, s, Len(s))
  BY <1>1, JoinsExist
<1>3. F(g)
  BY <1>2 DEF Joins
<1>4. F(flatten)
  BY <1>3
<1>5. Joins(flatten, s, Len(s))
  <2> HIDE DEF flatten
  <2> QED BY <1>4 DEF Joins
<1>6. FlattenSeq(s) = flatten[Len(s)]
  BY <1>1 DEF FlattenSeq
<1> QED
  <2> HIDE DEF flatten
  <2> QED BY <1>5, <1>6

\* FlattenSeq of sequences of tokens.
LEMMA FlattenTyped ==
    ASSUME NEW T, NEW s \in Seq(Seq(T))
    PROVE  FlattenSeq(s) \in Seq(T)
<1>1. CASE Len(s) = 0
  <2>1. <<>> \in Seq(T)
    OBVIOUS
  <2> QED BY <1>1, <2>1, FlattenNone, Zenon
<1>2. CASE Len(s) # 0
  <2>1. Len(s) \in Nat \ {0}
    BY <1>2
  <2>2. PICK f : Joins(f, s, Len(s)) /\ FlattenSeq(s) = f[Len(s)]
    BY <2>1, FlattenJoins
  <2>3. Len(s) \in 1..Len(s)
    BY <2>1
  <2> QED BY <2>2, <2>3, JoinsTyped
<1> QED BY <1>1, <1>2

\* u is s without its first element.
OneBehind(s, u) == Len(u) = Len(s) - 1 /\ \A i \in 1..Len(u) : u[i] = s[i + 1]

\* The first sequence and what joins the others.
LEMMA FlattenFirst ==
    ASSUME NEW T, NEW s \in Seq(Seq(T)), Len(s) # 0,
           NEW u \in Seq(Seq(T)), OneBehind(s, u)
    PROVE  FlattenSeq(s) = s[1] \o FlattenSeq(u)
<1>1. Len(s) \in Nat \ {0} /\ Len(u) \in Nat /\ 1 \in 1..Len(s) /\ Len(u) = Len(s) - 1
  BY DEF OneBehind
<1>6. /\ \A i \in 1..Len(s) : s[i] \in Seq(T)
      /\ \A i \in 1..Len(u) : u[i] \in Seq(T)
  <2>1. PICK Q : Q = Seq(T)
    OBVIOUS
  <2>2. s \in Seq(Q) /\ u \in Seq(Q)
    BY <2>1
  <2> QED BY <2>1, <2>2, ElementOfSeq
<1>2. PICK f : Joins(f, s, Len(s)) /\ FlattenSeq(s) = f[Len(s)]
  BY <1>1, FlattenJoins
<1>3. f[1] = s[1] /\ s[1] \in Seq(T)
  BY <1>1, <1>2, <1>6 DEF Joins
<1>4. CASE Len(u) = 0
  <2>1. FlattenSeq(u) = <<>>
    BY <1>4, FlattenNone
  <2>2. Len(s) = 1
    BY <1>1, <1>4
  <2>3. s[1] \o <<>> = s[1]
    BY <1>3, ConcatEmptySeq
  <2>4. FlattenSeq(s) = s[1]
    BY <1>2, <1>3, <2>2
  <2> QED BY <2>1, <2>3, <2>4
<1>5. CASE Len(u) # 0
  <2>1. PICK g : Joins(g, u, Len(u)) /\ FlattenSeq(u) = g[Len(u)]
    BY <1>1, <1>5, FlattenJoins
  <2>2. \A n \in 1..Len(u) : g[n] \in Seq(T)
    BY <2>1, JoinsTyped
  <2>3. PICK S : S = {n \in 1..Len(u) : f[n + 1] # s[1] \o g[n]}
    OBVIOUS
  <2>4. ASSUME S # {}
        PROVE  FALSE
    <3>1. PICK n \in S : \A y \in S : n <= y
      <4>1. \A y \in S : y \in Nat
        BY <2>3
      <4> QED BY <2>4, <4>1, LeastExists
    <3>2. n \in 1..Len(u) /\ n \in Nat
      BY <2>3, <3>1
    <3>3. u[n] \in Seq(T) /\ u[n] = s[n + 1] /\ g[n] = IF n = 1 THEN u[n] ELSE g[n - 1] \o u[n]
      <4>1. u[n] = s[n + 1]
        BY <3>2 DEF OneBehind
      <4>2. g[n] = IF n = 1 THEN u[n] ELSE g[n - 1] \o u[n]
        BY <2>1, <3>2 DEF Joins
      <4> QED BY <1>6, <3>2, <4>1, <4>2
    <3>4. f[n + 1] = f[n] \o s[n + 1]
      <4>1. PICK k : k = n + 1
        OBVIOUS
      <4>2. k \in 1..Len(s) /\ k # 1 /\ k - 1 = n
        BY <1>1, <3>2, <4>1
      <4>3. f[k] = f[k - 1] \o s[k]
        BY <1>2, <4>2 DEF Joins
      <4> QED BY <4>1, <4>2, <4>3
    <3>5. CASE n = 1
      <4>1. f[n + 1] = s[1] \o g[n]
        BY <1>3, <3>3, <3>4, <3>5
      <4> QED BY <2>3, <3>1, <4>1
    <3>6. CASE n # 1
      <4>1. PICK k : k = n - 1
        OBVIOUS
      <4>2. k \in 1..Len(u) /\ k \notin S /\ k + 1 = n
        <5>1. k \in 1..Len(u) /\ k + 1 = n /\ ~(n <= k)
          BY <3>2, <3>6, <4>1
        <5>2. k \notin S
          BY <3>1, <5>1
        <5> QED BY <5>1, <5>2
      <4>3. f[n] = s[1] \o g[k] /\ g[k] \in Seq(T)
        BY <2>2, <2>3, <4>2
      <4>4. g[n] = g[k] \o u[n]
        BY <3>3, <3>6, <4>1
      <4>5. (s[1] \o g[k]) \o u[n] = s[1] \o (g[k] \o u[n])
        <5>1. PICK x, y, w : x = s[1] /\ y = g[k] /\ w = u[n]
          OBVIOUS
        <5>2. Three(T, x, y, w)
          BY <1>3, <3>3, <4>3, <5>1 DEF Three
        <5>3. (x \o y) \o w = x \o (y \o w)
          BY <5>2, Associates
        <5> QED BY <5>1, <5>3
      <4>6. f[n + 1] = s[1] \o g[n]
        BY <3>3, <3>4, <4>3, <4>4, <4>5
      <4> QED BY <2>3, <3>1, <4>6
    <3> QED BY <3>5, <3>6
  <2>5. f[Len(u) + 1] = s[1] \o g[Len(u)]
    <3>1. Len(u) \in 1..Len(u)
      BY <1>1, <1>5
    <3>2. Len(u) \notin S
      BY <2>4
    <3> QED BY <2>3, <3>1, <3>2
  <2>6. Len(u) + 1 = Len(s)
    BY <1>1
  <2> QED BY <1>2, <2>1, <2>5, <2>6
<1> QED BY <1>4, <1>5

\* Short sequences.
LEMMA ShortSequences ==
    ASSUME NEW T, NEW a \in T, NEW b \in T
    PROVE  <<>> \in Seq(T) /\ <<a>> \in Seq(T) /\ <<a, b>> \in Seq(T)
OBVIOUS

\* A function of the places of a sequence is a sequence.
LEMMA MappedSequence ==
    ASSUME NEW A, NEW s \in Seq(A), NEW T, NEW f \in [DOMAIN s -> T]
    PROVE  f \in Seq(T)
<1>1. DOMAIN s = 1..Len(s) /\ Len(s) \in Nat
  OBVIOUS
<1> QED BY <1>1

\* A sequence of elements of a subset.
LEMMA WiderSequence ==
    ASSUME NEW S, NEW T, S \subseteq T, NEW s \in Seq(S)
    PROVE  s \in Seq(T)
<1>1. DOMAIN s = 1..Len(s) /\ Len(s) \in Nat /\ \A i \in DOMAIN s : s[i] \in S
  OBVIOUS
<1>2. s \in [DOMAIN s -> T]
  BY <1>1
<1> QED BY <1>2, MappedSequence

\* The provers do not know that a literal is a STRING.
Token == STRING \cup {"r", "n"}
Tokens == Seq(Token)

\* The delimiters.
LEMMA Delimiters ==
    CRLF \in Tokens /\ CRLF \o CRLF \in Tokens /\ Len(CRLF) = 2 /\ Len(CRLF \o CRLF) = 4
<1>1. CRLF \in Tokens
  <2>1. "r" \in Token /\ "n" \in Token
    BY DEF Token
  <2> QED BY <2>1, ShortSequences, Zenon DEF CRLF, Tokens
<1>2. Len(CRLF) = 2
  BY DEF CRLF
<1>3. PICK d : d = CRLF
  OBVIOUS
<1>4. d \in Seq(Token) /\ Len(d) = 2
  BY <1>1, <1>2, <1>3, Zenon DEF Tokens
<1>5. d \o d \in Seq(Token)
  BY <1>4
<1>6. Len(d \o d) = Len(d) + Len(d)
  BY <1>4, ConcatProperties
<1>7. Len(d \o d) = 4
  BY <1>4, <1>6
<1>8. CRLF \o CRLF \in Tokens /\ Len(CRLF \o CRLF) = 4
  BY <1>3, <1>5, <1>7, Zenon DEF Tokens
<1> QED BY <1>1, <1>2, <1>8
--------------------------------------------------------------------------------
(* What is still to be read *)

\* The sequences from the i-th on, joined.
Rest(s, i) == FlattenSeq(SubSeq(s, i, Len(s)))

\* v is what s has from its i-th element on.
EndsAt(s, i, v) ==
    Len(v) = Len(s) - i + 1 /\ \A j \in 1..Len(v) : v[j] = s[i + j - 1]

\* The end of a sequence.
LEMMA LastPart ==
    ASSUME NEW S, NEW s \in Seq(S), NEW i \in 1..(Len(s) + 1), NEW v, v = SubSeq(s, i, Len(s))
    PROVE  v \in Seq(S) /\ EndsAt(s, i, v)
<1>1. Len(s) \in Nat /\ i \in Int /\ Len(s) \in Int
  OBVIOUS
<1>2. \A j \in i..Len(s) : s[j] \in S
  BY <1>1
<1>3. /\ v \in Seq(S) /\ Len(v) = IF i <= Len(s) THEN Len(s) - i + 1 ELSE 0
      /\ \A j \in 1..(Len(s) - i + 1) : v[j] = s[i + j - 1]
  BY <1>1, <1>2, SubSeqProperties
<1> QED BY <1>1, <1>3 DEF EndsAt

\* What is left is the next sequence and what is left after it.
LEMMA RestStep ==
    ASSUME NEW T, NEW s \in Seq(Seq(T)), NEW i \in 1..Len(s)
    PROVE  s[i] \in Seq(T) /\ Rest(s, i) = s[i] \o Rest(s, i + 1)
<1>1. PICK Q : Q = Seq(T)
  OBVIOUS
<1>2. s \in Seq(Q) /\ Len(s) \in Nat
  BY <1>1
<1>3. PICK v : v = SubSeq(s, i, Len(s))
  OBVIOUS
<1>4. PICK k : k = i + 1
  OBVIOUS
<1>5. PICK u : u = SubSeq(s, k, Len(s))
  OBVIOUS
<1>6. i \in 1..(Len(s) + 1) /\ k \in 1..(Len(s) + 1)
  BY <1>2, <1>4
<1>7. /\ v \in Seq(Q) /\ Len(v) = Len(s) - i + 1
      /\ \A j \in 1..Len(v) : v[j] = s[i + j - 1]
  <2>1. v \in Seq(Q) /\ EndsAt(s, i, v)
    BY <1>2, <1>3, <1>6, LastPart
  <2> QED BY <2>1 DEF EndsAt
<1>8. /\ u \in Seq(Q) /\ Len(u) = Len(s) - k + 1
      /\ \A j \in 1..Len(u) : u[j] = s[k + j - 1]
  <2>1. u \in Seq(Q) /\ EndsAt(s, k, u)
    BY <1>2, <1>5, <1>6, LastPart
  <2> QED BY <2>1 DEF EndsAt
<1>9. OneBehind(v, u)
  <2>1. Len(u) = Len(v) - 1 /\ Len(v) \in Nat
    BY <1>2, <1>4, <1>7, <1>8
  <2>2. ASSUME NEW j \in 1..Len(u)
        PROVE  u[j] = v[j + 1]
    <3>1. PICK x : x = j + 1
      OBVIOUS
    <3>2. x \in 1..Len(v) /\ i + x - 1 = k + j - 1
      BY <1>4, <2>1, <2>2, <3>1
    <3>3. v[x] = s[i + x - 1] /\ u[j] = s[k + j - 1]
      BY <1>7, <1>8, <2>2, <3>2
    <3> QED BY <3>1, <3>2, <3>3
  <2> QED BY <2>1, <2>2 DEF OneBehind
<1>10. Len(v) # 0 /\ v[1] = s[i] /\ s[i] \in Q
  <2>1. 1 \in 1..Len(v) /\ i + 1 - 1 = i
    BY <1>2, <1>7
  <2> QED BY <1>2, <1>7, <2>1
<1>11. FlattenSeq(v) = v[1] \o FlattenSeq(u)
  BY <1>1, <1>7, <1>8, <1>9, <1>10, FlattenFirst
<1> QED BY <1>1, <1>3, <1>4, <1>5, <1>10, <1>11 DEF Rest

\* What is left at first and at last.
LEMMA RestEnds ==
    ASSUME NEW T, NEW s \in Seq(Seq(T))
    PROVE  /\ Rest(s, 1) = FlattenSeq(s) /\ Rest(s, Len(s) + 1) = <<>>
           /\ \A i \in 1..(Len(s) + 1) : Rest(s, i) \in Seq(T)
<1>1. PICK Q : Q = Seq(T)
  OBVIOUS
<1>2. s \in Seq(Q) /\ Len(s) \in Nat
  BY <1>1
<1>3. Rest(s, 1) = FlattenSeq(s)
  <2>1. SubSeq(s, 1, Len(s)) = s
    BY <1>2
  <2> QED BY <2>1 DEF Rest
<1>4. Rest(s, Len(s) + 1) = <<>>
  <2>1. PICK i, v : i = Len(s) + 1 /\ v = SubSeq(s, i, Len(s))
    OBVIOUS
  <2>2. i \in 1..(Len(s) + 1) /\ Len(s) - i + 1 = 0
    BY <1>2, <2>1
  <2>3. v \in Seq(Q) /\ Len(v) = 0
    BY <1>2, <2>1, <2>2, LastPart DEF EndsAt
  <2>4. FlattenSeq(v) = <<>>
    BY <2>3, FlattenNone
  <2> QED BY <2>1, <2>4 DEF Rest
<1>5. ASSUME NEW i \in 1..(Len(s) + 1)
      PROVE  Rest(s, i) \in Seq(T)
  <2>1. PICK v : v = SubSeq(s, i, Len(s))
    OBVIOUS
  <2>2. v \in Seq(Q)
    BY <1>2, <1>5, <2>1, LastPart
  <2>3. FlattenSeq(v) \in Seq(T)
    BY <1>1, <2>2, FlattenTyped
  <2> QED BY <2>1, <2>3 DEF Rest
<1> QED BY <1>3, <1>4, <1>5

\* A buffer that holds all of the next part a of the stream begins with it, and the
\* stream goes on with what is behind it.
LEMMA TakesFirst ==
    ASSUME NEW T, NEW s \in Seq(T), NEW y \in Seq(T), NEW a \in Seq(T), NEW c \in Seq(T),
           s \o y = a \o c, Len(a) <= Len(s)
    PROVE  SubSeq(s, 1, Len(a)) = a /\ SubSeq(s, Len(a) + 1, Len(s)) \o y = c
<1>1. Len(s) \in Nat /\ Len(y) \in Nat /\ Len(a) \in Nat /\ Len(c) \in Nat
  OBVIOUS
<1>2. Len(s) + Len(y) = Len(a) + Len(c)
  <2>1. Len(s \o y) = Len(s) + Len(y) /\ Len(a \o c) = Len(a) + Len(c)
    BY ConcatProperties
  <2> QED BY <2>1
<1>3. \A i \in 1..(Len(s) + Len(y)) :
          (IF i <= Len(s) THEN s[i] ELSE y[i - Len(s)]) = IF i <= Len(a) THEN a[i] ELSE c[i - Len(a)]
  <2>1. \A i \in 1..(Len(s) + Len(y)) : (s \o y)[i] = IF i <= Len(s) THEN s[i] ELSE y[i - Len(s)]
    BY ConcatProperties
  <2>2. \A i \in 1..(Len(a) + Len(c)) : (a \o c)[i] = IF i <= Len(a) THEN a[i] ELSE c[i - Len(a)]
    BY ConcatProperties
  <2> QED BY <1>2, <2>1, <2>2
<1>4. SubSeq(s, 1, Len(a)) = a
  <2>1. PICK v : v = SubSeq(s, 1, Len(a))
    OBVIOUS
  <2>2. v \in Seq(T) /\ Len(v) = Len(a) /\ \A i \in 1..Len(a) : v[i] = s[i]
    BY <1>1, <2>1
  <2>3. ASSUME NEW i \in 1..Len(a)
        PROVE  s[i] = a[i]
    <3>1. i \in 1..(Len(s) + Len(y)) /\ i <= Len(s) /\ i <= Len(a)
      BY <1>1, <2>3
    <3> QED BY <1>3, <3>1
  <2>4. v = a
    BY <2>2, <2>3, SeqEqual
  <2> QED BY <2>1, <2>4
<1>5. PICK n \in Nat : n = Len(a)
  BY <1>1
<1>6. PICK k : k = n + 1
  OBVIOUS
<1>7. PICK v : v = SubSeq(s, k, Len(s))
  OBVIOUS
<1>8. v \in Seq(T) /\ Len(v) = Len(s) - n /\ \A i \in 1..Len(v) : v[i] = s[i + n]
  <2>1. k \in 1..(Len(s) + 1)
    BY <1>1, <1>5, <1>6
  <2>2. v \in Seq(T) /\ EndsAt(s, k, v)
    BY <1>7, <2>1, LastPart
  <2>3. Len(v) = Len(s) - k + 1 /\ \A j \in 1..Len(v) : v[j] = s[k + j - 1]
    BY <2>2 DEF EndsAt
  <2>4. Len(v) = Len(s) - n /\ Len(v) \in Nat
    BY <1>1, <1>5, <1>6, <2>3
  <2>5. ASSUME NEW i \in 1..Len(v)
        PROVE  v[i] = s[i + n]
    <3>1. k + i - 1 = i + n
      BY <1>6, <2>4, <2>5
    <3> QED BY <2>3, <2>5, <3>1
  <2> QED BY <2>2, <2>4, <2>5
<1>9. v \o y = c
  <2>1. v \o y \in Seq(T) /\ Len(v \o y) = Len(c)
    BY <1>1, <1>2, <1>5, <1>8, ConcatProperties
  <2>2. ASSUME NEW i \in 1..Len(c)
        PROVE  (v \o y)[i] = c[i]
    <3>1. PICK j : j = i + n
      OBVIOUS
    <3>2. j \in 1..(Len(s) + Len(y)) /\ ~(j <= Len(a)) /\ j - Len(a) = i
      BY <1>1, <1>2, <1>5, <2>2, <3>1
    <3>3. (IF j <= Len(s) THEN s[j] ELSE y[j - Len(s)]) = c[i]
      BY <1>3, <3>2
    <3>4. (v \o y)[i] = IF i <= Len(v) THEN v[i] ELSE y[i - Len(v)]
      <4>1. i \in 1..(Len(v) + Len(y))
        BY <1>1, <1>2, <1>5, <1>8, <2>2
      <4> QED BY <1>8, <4>1, ConcatProperties
    <3>5. CASE i <= Len(v)
      <4>1. i \in 1..Len(v) /\ j <= Len(s)
        BY <1>1, <1>5, <1>8, <2>2, <3>1, <3>5
      <4> QED BY <1>8, <3>1, <3>3, <3>4, <3>5, <4>1
    <3>6. CASE ~(i <= Len(v))
      <4>1. ~(j <= Len(s)) /\ j - Len(s) = i - Len(v)
        BY <1>1, <1>5, <1>8, <2>2, <3>1, <3>6
      <4> QED BY <3>3, <3>4, <3>6, <4>1
    <3> QED BY <3>5, <3>6
  <2> QED BY <2>1, <2>2, SeqEqual
<1> QED BY <1>4, <1>5, <1>6, <1>7, <1>9
--------------------------------------------------------------------------------
(* A message on the wire *)

\* Its chunks, the data in them, and all that follows its header.
Pieces(m) ==
    [i \in DOMAIN m.chunks |-> <<m.chunks[i].size>> \o CRLF \o m.chunks[i].data \o CRLF]
Datas(m) == [i \in DOMAIN m.chunks |-> m.chunks[i].data]
Body(m) == IF IsChunked(m) THEN Rest(Pieces(m), 1) ELSE DataOf(m)

\* The parts of a message.
LEMMA MessageParts ==
    ASSUME NEW m \in Messages
    PROVE  /\ m.lines \in Seq(Token) /\ Len(m.chunks) \in Nat
           /\ DOMAIN m.chunks = 1..Len(m.chunks)
           /\ \A i \in DOMAIN m.chunks : m.chunks[i].size \in Token /\ m.chunks[i].data \in Tokens
<1>1. PICK L, C : L = m.lines /\ C = m.chunks
  OBVIOUS
<1>2. PICK R : R = [size : STRING, data : Seq(STRING)]
  OBVIOUS
<1>3. L \in Seq(STRING) /\ C \in Seq(R)
  BY <1>1, <1>2, MessagesAssumption
<1>4. STRING \subseteq Token
  BY DEF Token
<1>5. L \in Seq(Token)
  BY <1>3, <1>4, WiderSequence
<1>6. Len(C) \in Nat /\ DOMAIN C = 1..Len(C)
  BY <1>3
<1>7. ASSUME NEW i \in DOMAIN C
      PROVE  C[i].size \in Token /\ C[i].data \in Tokens
  <2>1. C[i] \in R
    BY <1>3, <1>7
  <2>2. C[i].size \in STRING /\ C[i].data \in Seq(STRING)
    BY <1>2, <2>1
  <2>3. C[i].data \in Seq(Token)
    BY <1>4, <2>2, WiderSequence
  <2> QED BY <1>4, <2>2, <2>3 DEF Tokens
<1> QED BY <1>1, <1>5, <1>6, <1>7

\* A chunk.
LEMMA PieceParts ==
    ASSUME NEW m \in Messages, NEW i \in DOMAIN m.chunks
    PROVE  /\ Pieces(m)[i] \in Tokens
           /\ Pieces(m)[i] = <<m.chunks[i].size>> \o (CRLF \o (m.chunks[i].data \o CRLF))
<1>1. PICK s, d, a : s = <<m.chunks[i].size>> /\ d = CRLF /\ a = m.chunks[i].data
  OBVIOUS
<1>2. s \in Seq(Token)
  <2>1. PICK x \in Token : x = m.chunks[i].size
    BY MessageParts
  <2> QED BY <1>1, <2>1, ShortSequences
<1>3. d \in Seq(Token) /\ a \in Seq(Token)
  BY <1>1, MessageParts, Delimiters DEF Tokens
<1>4. Pieces(m)[i] = ((s \o d) \o a) \o d
  BY <1>1 DEF Pieces
<1>5. s \o d \in Seq(Token) /\ a \o d \in Seq(Token)
  BY <1>2, <1>3
<1>9. Three(Token, s \o d, a, d) /\ Three(Token, s, d, a \o d)
  BY <1>2, <1>3, <1>5 DEF Three
<1>6. ((s \o d) \o a) \o d = (s \o d) \o (a \o d)
  BY <1>9, Associates
<1>7. (s \o d) \o (a \o d) = s \o (d \o (a \o d))
  BY <1>9, Associates
<1>8. (s \o d) \o (a \o d) \in Seq(Token)
  BY <1>5
<1> QED BY <1>1, <1>4, <1>6, <1>7, <1>8 DEF Tokens

\* The chunks of a message and the data in them.
LEMMA ChunksTyped ==
    ASSUME NEW m \in Messages
    PROVE  /\ Pieces(m) \in Seq(Tokens) /\ Len(Pieces(m)) = Len(m.chunks)
           /\ Datas(m) \in Seq(Tokens) /\ Len(Datas(m)) = Len(m.chunks)
<1>1. PICK n \in Nat : n = Len(m.chunks) /\ DOMAIN m.chunks = 1..n
  BY MessageParts
<1>2. PICK P, D : P = Pieces(m) /\ D = Datas(m)
  OBVIOUS
<1>3. P \in [1..n -> Tokens]
  <2>1. P = [i \in 1..n |-> Pieces(m)[i]]
    BY <1>1, <1>2 DEF Pieces
  <2>2. \A i \in 1..n : Pieces(m)[i] \in Tokens
    BY <1>1, PieceParts
  <2> QED BY <2>1, <2>2
<1>4. D \in [1..n -> Tokens]
  <2>1. D = [i \in 1..n |-> m.chunks[i].data]
    BY <1>1, <1>2 DEF Datas
  <2>2. \A i \in 1..n : m.chunks[i].data \in Tokens
    BY <1>1, MessageParts
  <2> QED BY <2>1, <2>2
<1>5. P \in Seq(Tokens) /\ Len(P) = n
  BY <1>3
<1>6. D \in Seq(Tokens) /\ Len(D) = n
  BY <1>4
<1> QED BY <1>1, <1>2, <1>5, <1>6

\* What is left of the chunks and of the data.
LEMMA ChunksLeft ==
    ASSUME NEW m \in Messages
    PROVE  /\ \A i \in 1..(Len(m.chunks) + 1) :
                 Rest(Pieces(m), i) \in Tokens /\ Rest(Datas(m), i) \in Tokens
           /\ \A i \in DOMAIN m.chunks :
                 /\ Rest(Datas(m), i) = m.chunks[i].data \o Rest(Datas(m), i + 1)
                 /\ Rest(Pieces(m), i) = Pieces(m)[i] \o Rest(Pieces(m), i + 1)
           /\ Rest(Datas(m), 1) = DataOf(m)
           /\ Rest(Datas(m), Len(m.chunks) + 1) = <<>>
           /\ Rest(Pieces(m), Len(m.chunks) + 1) = <<>>
<1>1. PICK n \in Nat : n = Len(m.chunks) /\ DOMAIN m.chunks = 1..n
  BY MessageParts
<1>2. PICK P, D : P = Pieces(m) /\ D = Datas(m)
  OBVIOUS
<1>3. P \in Seq(Seq(Token)) /\ Len(P) = n /\ D \in Seq(Seq(Token)) /\ Len(D) = n
  BY <1>1, <1>2, ChunksTyped DEF Tokens
<1>4. /\ Rest(P, Len(P) + 1) = <<>>
      /\ \A i \in 1..(Len(P) + 1) : Rest(P, i) \in Seq(Token)
  BY <1>3, RestEnds
<1>5. /\ Rest(D, 1) = FlattenSeq(D) /\ Rest(D, Len(D) + 1) = <<>>
      /\ \A i \in 1..(Len(D) + 1) : Rest(D, i) \in Seq(Token)
  BY <1>3, RestEnds
<1>6. FlattenSeq(D) = DataOf(m)
  BY <1>2 DEF DataOf, Datas
<1>7. ASSUME NEW i \in 1..n
      PROVE  Rest(P, i) = P[i] \o Rest(P, i + 1) /\ Rest(D, i) = D[i] \o Rest(D, i + 1)
  <2>1. i \in 1..Len(P) /\ i \in 1..Len(D)
    BY <1>3
  <2>2. Rest(P, i) = P[i] \o Rest(P, i + 1)
    BY <1>3, <2>1, RestStep
  <2>3. Rest(D, i) = D[i] \o Rest(D, i + 1)
    BY <1>3, <2>1, RestStep
  <2> QED BY <2>2, <2>3
<1>8. \A i \in 1..n : D[i] = m.chunks[i].data
  BY <1>1, <1>2 DEF Datas
<1>9. \A i \in 1..(n + 1) : Rest(P, i) \in Tokens /\ Rest(D, i) \in Tokens
  BY <1>3, <1>4, <1>5 DEF Tokens
<1>10. \A i \in 1..n : Rest(D, i) = m.chunks[i].data \o Rest(D, i + 1)
  BY <1>7, <1>8
<1>11. Rest(P, n + 1) = <<>> /\ Rest(D, n + 1) = <<>>
  BY <1>3, <1>4, <1>5
<1> QED BY <1>1, <1>2, <1>5, <1>6, <1>7, <1>9, <1>10, <1>11, Zenon

\* The header of a message, line by line.
HeadLines(m) ==
    [i \in DOMAIN m.lines |-> (IF m.lines[i] = "" THEN <<>> ELSE <<m.lines[i]>>) \o CRLF]

\* The header.
LEMMA HeadTyped ==
    ASSUME NEW m \in Messages
    PROVE  /\ HeadLines(m) \in Seq(Tokens) /\ FlattenSeq(HeadLines(m)) \in Tokens
           /\ HeadOf(m) = FlattenSeq(HeadLines(m)) \o CRLF /\ HeadOf(m) \in Tokens
<1>1. CRLF \in Tokens
  BY Delimiters
<1>2. PICK L : L = m.lines
  OBVIOUS
<1>3. L \in Seq(Token)
  BY <1>2, MessageParts
<1>4. PICK H : H = [i \in DOMAIN L |-> (IF L[i] = "" THEN <<>> ELSE <<L[i]>>) \o CRLF]
  OBVIOUS
<1>5. \A i \in DOMAIN L : (IF L[i] = "" THEN <<>> ELSE <<L[i]>>) \o CRLF \in Tokens
  <2>1. SUFFICES ASSUME NEW i \in DOMAIN L
                 PROVE  (IF L[i] = "" THEN <<>> ELSE <<L[i]>>) \o CRLF \in Tokens
    OBVIOUS
  <2>2. PICK x : x = IF L[i] = "" THEN <<>> ELSE <<L[i]>>
    OBVIOUS
  <2>5. PICK l \in Token : l = L[i]
    BY <1>3, <2>1
  <2>3. x \in Tokens
    BY <2>2, <2>5, ShortSequences DEF Tokens
  <2>4. x \o CRLF \in Tokens
    BY <1>1, <2>3 DEF Tokens
  <2> QED BY <2>2, <2>4
<1>6. H \in Seq(Tokens)
  <2>1. H \in [DOMAIN L -> Tokens]
    BY <1>4, <1>5
  <2> QED BY <1>3, <2>1, MappedSequence
<1>7. FlattenSeq(H) \in Tokens
  BY <1>6, FlattenTyped DEF Tokens
<1>8. H = HeadLines(m) /\ HeadOf(m) = FlattenSeq(H) \o CRLF
  BY <1>2, <1>4 DEF HeadOf, HeadLines
<1>9. FlattenSeq(H) \o CRLF \in Tokens
  BY <1>1, <1>7 DEF Tokens
<1> QED BY <1>6, <1>7, <1>8, <1>9

\* What peers send is a sequence of tokens: a header and what follows it.
LEMMA WireTyped ==
    ASSUME NEW m \in Messages
    PROVE  /\ Wire(m) = HeadOf(m) \o Body(m)
           /\ HeadOf(m) \in Tokens /\ Body(m) \in Tokens /\ Wire(m) \in Tokens
<1>1. HeadOf(m) \in Tokens
  BY HeadTyped
<1>2. 1 \in 1..(Len(m.chunks) + 1) /\ Len(m.chunks) \in Nat
  BY MessageParts
<1>3. Rest(Pieces(m), 1) \in Tokens /\ DataOf(m) \in Tokens
  BY <1>2, ChunksLeft
<1>4. Body(m) \in Tokens
  BY <1>3 DEF Body
<1>5. Rest(Pieces(m), 1) = FlattenSeq(Pieces(m))
  <2>1. Pieces(m) \in Seq(Seq(Token))
    BY ChunksTyped DEF Tokens
  <2> QED BY <2>1, RestEnds
<1>6. Wire(m) = HeadOf(m) \o Body(m)
  BY <1>5 DEF Wire, Body, Pieces
<1>7. HeadOf(m) \o Body(m) \in Tokens
  BY <1>1, <1>4 DEF Tokens
<1> QED BY <1>1, <1>4, <1>6, <1>7
--------------------------------------------------------------------------------
(* The connection *)

\* The bytes of a connection, also of one whose last message is cut off.
LEMMA ConnectionTyped ==
    ASSUME Init
    PROVE  sent \in Seq(Messages) /\ wire \in Tokens /\ closes \in BOOLEAN
<1>1. PICK ms \in SeqOf(Messages, MaxMessages) :
          /\ sent = ms
          /\ \/ /\ wire = FlattenSeq([i \in DOMAIN ms |-> Wire(ms[i])])
                /\ closes \in BOOLEAN
             \/ /\ \E b \in Beginnings : wire = FlattenSeq([i \in DOMAIN ms |-> Wire(ms[i])]) \o b
                /\ closes = TRUE
  BY DEF Init
<1>2. ms \in Seq(Messages)
  <2>1. PICK n \in 0..MaxMessages : ms \in [1..n -> Messages]
    BY <1>1 DEF SeqOf
  <2> QED BY <2>1, ReaderAssumption
<1>3. PICK W : W = [i \in DOMAIN ms |-> Wire(ms[i])]
  OBVIOUS
<1>4. W \in Seq(Tokens)
  <2>1. \A i \in DOMAIN ms : Wire(ms[i]) \in Tokens
    BY <1>2, WireTyped
  <2> QED BY <1>2, <1>3, <2>1
<1>5. FlattenSeq(W) \in Tokens
  BY <1>4, FlattenTyped DEF Tokens
<1>6. ASSUME NEW b \in Beginnings
      PROVE  b \in Tokens
  <2>0. PICK m \in Messages : \E n \in 1..(Len(Wire(m)) - 1) : b = SubSeq(Wire(m), 1, n)
    BY <1>6 DEF Beginnings
  <2>1. PICK n \in 1..(Len(Wire(m)) - 1) : b = SubSeq(Wire(m), 1, n)
    BY <2>0
  <2>2. PICK s : s = Wire(m) /\ s \in Seq(Token)
    BY WireTyped DEF Tokens
  <2>3. b = SubSeq(s, 1, n) /\ n \in 1..(Len(s) - 1) /\ Len(s) \in Nat
    BY <2>1, <2>2
  <2>4. b \in Seq(Token)
    BY <2>2, <2>3
  <2> QED BY <2>4 DEF Tokens
<1>7. wire \in Tokens
  <2>1. CASE wire = FlattenSeq(W)
    BY <1>5, <2>1
  <2>2. CASE \E b \in Beginnings : wire = FlattenSeq(W) \o b
    BY <1>5, <1>6, <2>2 DEF Tokens
  <2> QED BY <1>1, <1>3, <2>1, <2>2
<1>8. closes \in BOOLEAN
  BY <1>1
<1> QED BY <1>1, <1>2, <1>7, <1>8
--------------------------------------------------------------------------------
(* The handlers *)

\* The inductive invariant.  Each search for a delimiter starts at the beginning of the
\* buffer (contains_t returns its begin when it finds nothing), as read_until does, so
\* that what completed the read is what the handler finds.
Op == [kind : {"none", "headers", "body", "size", "chunk"}, need : Nat, from : {0}]

Errors == {"none", "protocol_error", "eof"}
Delivers ==
    /\ \E S : delivered \in Seq(S)
    /\ \A i \in DOMAIN delivered : delivered[i].error \in Errors

ReaderInv ==
    /\ sent \in Seq(Messages) /\ closes \in BOOLEAN
    /\ wire \in Tokens /\ buf \in Tokens
    /\ op \in Op
    /\ Delivers
    /\ thread = "free"

\* std::search finds the delimiter inside of the buffer, or nothing.
LEMMA SearchRange ==
    ASSUME NEW s \in Tokens, NEW d \in Tokens, NEW p, p = Search(s, d)
    PROVE  p = 0 \/ p \in 1..(Len(s) - Len(d) + 1)
<1>1. PICK at : at = {i \in 1..(Len(s) - Len(d) + 1) : SubSeq(s, i, i + Len(d) - 1) = d}
  OBVIOUS
<1>2. CASE at = {}
  BY <1>1, <1>2 DEF Search
<1>3. CASE at # {}
  <2>1. \A i \in at : i \in Nat
    BY <1>1
  <2>2. \E i \in at : \A j \in at : i <= j
    BY <1>3, <2>1, LeastExists
  <2>3. p = CHOOSE i \in at : \A j \in at : i <= j
    BY <1>1, <1>3 DEF Search
  <2>4. p \in at
    BY <2>2, <2>3
  <2> QED BY <1>1, <2>4
<1> QED BY <1>2, <1>3

\* The result of a match condition.
LEMMA MatchFields ==
    ASSUME NEW x, NEW b, NEW r, r = [pos |-> x, found |-> b]
    PROVE  r.pos = x /\ r.found = b
OBVIOUS

\* What the pending read waits for is not in the buffer.
Awaits ==
    /\ op.kind = "headers" => Search(buf, CRLF \o CRLF) = 0
    /\ op.kind = "size" => Search(buf, CRLF) = 0
    /\ op.kind = "body" => Len(buf) < op.need
    /\ op.kind = "chunk" => Len(buf) < op.need + 2

\* What the pending read waits for: without a match the next search starts anew, and a
\* match is one for the handler.
LEMMA Matches ==
    ASSUME ReaderInv, pending
    PROVE  /\ ~match.found => match.pos = 0
           /\ completes("headers") => Search(buf, CRLF \o CRLF) # 0
           /\ completes("size") => Search(buf, CRLF) # 0
           /\ completes("body") => Len(buf) >= op.need
           /\ completes("chunk") => Len(buf) >= op.need + 2
           /\ ~match.found => Awaits
<1>1. /\ op.kind \in {"headers", "body", "size", "chunk"} /\ op.need \in Nat /\ op.from = 0
  BY DEF ReaderInv, pending, Op
<1>2. SubSeq(buf, 1, Len(buf)) = buf /\ Len(buf) \in Nat
  BY DEF ReaderInv, Tokens
<1>3. ASSUME NEW d
      PROVE  /\ contains_t(0, d).found <=> Search(buf, d) # 0
             /\ ~contains_t(0, d).found => contains_t(0, d).pos = 0
  <2>1. SubSeq(buf, 0 + 1, Len(buf)) = buf
    BY <1>2
  <2>2. PICK p : p = Search(buf, d)
    OBVIOUS
  <2>3. PICK b, x : b \in BOOLEAN /\ b = (p # 0) /\ x = IF p # 0 THEN 0 + p - 1 ELSE 0
    OBVIOUS
  <2>4. contains_t(0, d) = [pos |-> x, found |-> b]
    BY <2>1, <2>2, <2>3 DEF contains_t
  <2>6. PICK r : r = contains_t(0, d)
    OBVIOUS
  <2>7. r = [pos |-> x, found |-> b]
    BY <2>4, <2>6
  <2>8. r.pos = x /\ r.found = b
    BY <2>7, MatchFields
  <2>5. contains_t(0, d).found = b /\ contains_t(0, d).pos = x
    BY <2>6, <2>8
  <2> QED BY <2>2, <2>3, <2>5
<1>4. ASSUME NEW n \in Nat
      PROVE  /\ at_least(0, n).found <=> Len(buf) >= n
             /\ ~at_least(0, n).found => at_least(0, n).pos = 0
  <2>1. PICK size : size = Len(buf) - 0
    OBVIOUS
  <2>6. PICK b \in BOOLEAN : b <=> (size >= n)
    <3>1. CASE size >= n
      BY <3>1
    <3>2. CASE ~(size >= n)
      BY <3>2
    <3> QED BY <3>1, <3>2
  <2>2. PICK x : b = (size >= n) /\ x = IF size >= n THEN 0 + n ELSE 0
    BY <2>6
  <2>3. at_least(0, n) = [pos |-> x, found |-> b]
    BY <2>1, <2>2 DEF at_least
  <2>4. at_least(0, n).found = b /\ at_least(0, n).pos = x
    BY <2>3, MatchFields
  <2>5. size = Len(buf)
    BY <1>2, <2>1
  <2> QED BY <2>2, <2>4, <2>5
<1>5. /\ op.kind = "headers" => match = contains_t(0, CRLF \o CRLF)
      /\ op.kind = "size" => match = contains_t(0, CRLF)
      /\ op.kind = "body" => match = at_least(0, op.need)
      /\ op.kind = "chunk" => match = at_least(0, op.need + 2)
  BY <1>1 DEF match
<1>6. op.need \in Nat /\ op.need + 2 \in Nat
  BY <1>1
<1>7. ~match.found => match.pos = 0
  BY <1>1, <1>3, <1>4, <1>5, <1>6
<1>8. completes("headers") => Search(buf, CRLF \o CRLF) # 0
  BY <1>3, <1>5 DEF completes
<1>9. completes("size") => Search(buf, CRLF) # 0
  BY <1>3, <1>5 DEF completes
<1>10. completes("body") => Len(buf) >= op.need
  BY <1>4, <1>5, <1>6 DEF completes
<1>11. completes("chunk") => Len(buf) >= op.need + 2
  BY <1>4, <1>5, <1>6 DEF completes
<1>12. ~match.found => Awaits
  <2>1. SUFFICES ASSUME ~match.found
                 PROVE  Awaits
    OBVIOUS
  <2>2. op.kind = "headers" => Search(buf, CRLF \o CRLF) = 0
    BY <1>3, <1>5, <2>1
  <2>3. op.kind = "size" => Search(buf, CRLF) = 0
    BY <1>3, <1>5, <2>1
  <2>4. op.kind = "body" => ~(Len(buf) >= op.need)
    BY <1>4, <1>5, <1>6, <2>1
  <2>5. op.kind = "chunk" => ~(Len(buf) >= op.need + 2)
    BY <1>4, <1>5, <1>6, <2>1
  <2>6. (op.kind = "body" => Len(buf) < op.need) /\ (op.kind = "chunk" => Len(buf) < op.need + 2)
    BY <1>2, <1>6, <2>4, <2>5
  <2> QED BY <2>2, <2>3, <2>6 DEF Awaits
<1> QED BY <1>7, <1>8, <1>9, <1>10, <1>11, <1>12

\* read_until after a match does not wait, and leaves the rest of the buffer.
LEMMA FoundInBuffer ==
    ASSUME ReaderInv, NEW d \in Tokens, Len(d) > 0, Search(buf, d) # 0
    PROVE  read_until(d).ready /\ read_until(d).rest \in Tokens
<1>1. PICK p : p = Search(buf, d)
  OBVIOUS
<1>2. p \in 1..(Len(buf) - Len(d) + 1) /\ Len(buf) \in Nat /\ Len(d) \in Nat /\ buf \in Seq(Token)
  <2>1. buf \in Tokens
    BY DEF ReaderInv
  <2>2. p = 0 \/ p \in 1..(Len(buf) - Len(d) + 1)
    BY <1>1, <2>1, SearchRange
  <2> QED BY <1>1, <2>1, <2>2 DEF Tokens
<1>3. PICK b, x, y : /\ b \in BOOLEAN /\ (b <=> (p # 0))
                     /\ x = SubSeq(buf, 1, p - 1)
                     /\ y = IF p = 0 THEN buf ELSE SubSeq(buf, p + Len(d), Len(buf))
  OBVIOUS
<1>4. read_until(d) = [ready |-> b, bytes |-> x, rest |-> y]
  BY <1>1, <1>3 DEF read_until
<1>5. y = SubSeq(buf, p + Len(d), Len(buf)) /\ b
  BY <1>2, <1>3
<1>6. y \in Seq(Token)
  BY <1>2, <1>5
<1> QED BY <1>4, <1>5, <1>6 DEF Tokens

\* read of bytes that have arrived does not wait.
LEMMA EnoughInBuffer ==
    ASSUME ReaderInv, NEW n \in Nat, Len(buf) >= n
    PROVE  read(n).ready /\ read(n).rest \in Tokens
<1>1. buf \in Seq(Token) /\ Len(buf) \in Nat
  BY DEF ReaderInv, Tokens
<1>2. PICK a : a = IF n < Len(buf) THEN n ELSE Len(buf)
  OBVIOUS
<1>3. a = n
  BY <1>1, <1>2
<1>4. PICK b, x, y : /\ b \in BOOLEAN /\ (b <=> (a = n))
                     /\ x = SubSeq(buf, 1, a) /\ y = SubSeq(buf, a + 1, Len(buf))
  OBVIOUS
<1>5. read(n) = [ready |-> b, bytes |-> x, rest |-> y]
  BY <1>2, <1>4 DEF read
<1>6. y \in Seq(Token)
  BY <1>1, <1>3, <1>4
<1> QED BY <1>3, <1>4, <1>5, <1>6 DEF Tokens

\* The handler of asyncResponse is called.
LEMMA DeliverTyped ==
    ASSUME ReaderInv, NEW error \in Errors, NEW body, deliver(error, body)
    PROVE  op' \in Op /\ Delivers'
<1>1. PICK S : delivered \in Seq(S)
  BY DEF ReaderInv, Delivers
<1>2. PICK a : a = [error |-> error, body |-> body]
  OBVIOUS
<1>3. a.error \in Errors
  BY <1>2
<1>4. delivered' = Append(delivered, a)
  BY <1>2 DEF deliver, Answer
<1>5. PICK R : R = S \cup {a}
  OBVIOUS
<1>6. delivered \in Seq(R) /\ a \in R
  BY <1>1, <1>5, WiderSequence
<1>7. /\ delivered' \in Seq(R) /\ DOMAIN delivered' = DOMAIN delivered \cup {Len(delivered) + 1}
      /\ delivered'[Len(delivered) + 1] = a
      /\ \A i \in DOMAIN delivered : delivered'[i] = delivered[i]
  BY <1>4, <1>6
<1>8. Delivers'
  BY <1>3, <1>7 DEF ReaderInv, Delivers
<1>9. op' \in Op
  BY DEF deliver, NoOp, Op
<1> QED BY <1>8, <1>9

\* The next read of the chain starts.
LEMMA ReadTyped ==
    ASSUME NEW kind \in {"headers", "body", "size", "chunk"}, NEW need \in Nat, asyncRead(kind, need)
    PROVE  op' \in Op
BY DEF asyncRead, Op

\* The lengths and the chunk sizes are numbers.
LEMMA NumbersTyped ==
    /\ \A l \in DOMAIN Lengths : Lengths[l] \in Nat
    /\ \A l \in DOMAIN Sizes : Sizes[l] \in Nat
BY NumbersAssumption

\* A handler that finds its bytes goes on to its end.
LEMMA HandlerTyped ==
    ASSUME ReaderInv, buf' \in Tokens, op' \in Op, Delivers',
           UNCHANGED <<sent, closes, wire, thread>>
    PROVE  ReaderInv'
BY DEF ReaderInv

\* The headers.
LEMMA HeadersRead ==
    ASSUME ReaderInv, handleHeaders
    PROVE  ReaderInv'
<1>1. completes("headers") /\ pending
  BY DEF handleHeaders, completes, pending
<1>2. PICK d : d = CRLF \o CRLF /\ d \in Tokens /\ Len(d) = 4
  BY Delimiters
<1>3. PICK r : r = read_until(d)
  OBVIOUS
<1>4. r.ready /\ r.rest \in Tokens
  <2>1. Search(buf, d) # 0
    BY <1>1, <1>2, Matches
  <2>2. Len(d) > 0
    BY <1>2
  <2> QED BY <1>2, <1>3, <2>1, <2>2, FoundInBuffer
<1>5. PICK h : h = r.bytes
  OBVIOUS
<1>6. /\ buf' = r.rest /\ UNCHANGED <<sent, closes, wire, thread>>
      /\ \/ deliver("protocol_error", <<>>)
         \/ \E l \in DOMAIN Lengths : asyncRead("body", Lengths[l]) /\ UNCHANGED delivered
         \/ asyncRead("size", 0) /\ UNCHANGED delivered
         \/ deliver("none", <<>>)
  BY <1>2, <1>3, <1>4, <1>5 DEF handleHeaders, then
<1>7. op' \in Op /\ Delivers'
  <2>1. CASE deliver("protocol_error", <<>>)
    BY <2>1, DeliverTyped DEF Errors
  <2>2. CASE \E l \in DOMAIN Lengths : asyncRead("body", Lengths[l]) /\ UNCHANGED delivered
    BY <2>2, NumbersTyped, ReadTyped DEF ReaderInv, Delivers
  <2>3. CASE asyncRead("size", 0) /\ UNCHANGED delivered
    BY <2>3, ReadTyped DEF ReaderInv, Delivers
  <2>4. CASE deliver("none", <<>>)
    BY <2>4, DeliverTyped DEF Errors
  <2> QED BY <1>6, <2>1, <2>2, <2>3, <2>4
<1> QED BY <1>4, <1>6, <1>7, HandlerTyped

\* The body.
LEMMA BodyRead ==
    ASSUME ReaderInv, bodyCompleted
    PROVE  ReaderInv'
<1>1. completes("body") /\ pending /\ op.need \in Nat
  BY DEF bodyCompleted, completes, pending, ReaderInv, Op
<1>2. PICK r : r = read(op.need)
  OBVIOUS
<1>3. r.ready /\ r.rest \in Tokens
  BY <1>1, <1>2, Matches, EnoughInBuffer
<1>4. PICK b : b = IF "gzip" \in reply.lines THEN gzipInflate(r.bytes) ELSE r.bytes
  OBVIOUS
<1>5. buf' = r.rest /\ UNCHANGED <<sent, closes, wire, thread>> /\ deliver("none", b)
  BY <1>2, <1>3, <1>4 DEF bodyCompleted, then, processReply
<1>6. op' \in Op /\ Delivers'
  BY <1>5, DeliverTyped DEF Errors
<1> QED BY <1>3, <1>5, <1>6, HandlerTyped

\* The size of a chunk.
LEMMA SizeRead ==
    ASSUME ReaderInv, startProcessChunk
    PROVE  ReaderInv'
<1>1. completes("size") /\ pending
  BY DEF startProcessChunk, completes, pending
<1>2. PICK d : d = CRLF /\ d \in Tokens /\ Len(d) = 2
  BY Delimiters
<1>3. PICK r : r = read_until(d)
  OBVIOUS
<1>4. r.ready /\ r.rest \in Tokens
  <2>1. Search(buf, d) # 0
    BY <1>1, <1>2, Matches
  <2> QED BY <1>2, <1>3, <2>1, FoundInBuffer
<1>5. /\ buf' = r.rest /\ UNCHANGED <<sent, closes, wire, thread>>
      /\ \/ \E l \in DOMAIN Sizes : asyncRead("chunk", Sizes[l]) /\ UNCHANGED delivered
         \/ deliver("protocol_error", <<>>)
  BY <1>2, <1>3, <1>4 DEF startProcessChunk, then
<1>6. op' \in Op /\ Delivers'
  <2>1. CASE \E l \in DOMAIN Sizes : asyncRead("chunk", Sizes[l]) /\ UNCHANGED delivered
    BY <2>1, NumbersTyped, ReadTyped DEF ReaderInv, Delivers
  <2>2. CASE deliver("protocol_error", <<>>)
    BY <2>2, DeliverTyped DEF Errors
  <2> QED BY <1>5, <2>1, <2>2
<1> QED BY <1>4, <1>5, <1>6, HandlerTyped

\* A chunk and the delimiter after it.
LEMMA ChunkRead ==
    ASSUME ReaderInv, processChunk
    PROVE  ReaderInv'
<1>1. completes("chunk") /\ pending /\ op.need \in Nat
  BY DEF processChunk, completes, pending, ReaderInv, Op
<1>2. PICK r : r = read(op.need + 2)
  OBVIOUS
<1>3. r.ready /\ r.rest \in Tokens
  <2>1. op.need + 2 \in Nat /\ Len(buf) >= op.need + 2
    BY <1>1, Matches
  <2> QED BY <1>2, <2>1, EnoughInBuffer
<1>4. PICK taken, body, b :
          /\ taken = IF op.need < Len(r.bytes) THEN op.need ELSE Len(r.bytes)
          /\ body = reply.body \o SubSeq(r.bytes, 1, taken)
          /\ b = IF "gzip" \in reply.lines THEN gzipInflate(body) ELSE body
  OBVIOUS
<1>5. /\ buf' = r.rest /\ UNCHANGED <<sent, closes, wire, thread>>
      /\ \/ deliver("none", b)
         \/ asyncRead("size", 0) /\ UNCHANGED delivered
  BY <1>2, <1>3, <1>4 DEF processChunk, then, processReply
<1>6. op' \in Op /\ Delivers'
  <2>1. CASE deliver("none", b)
    BY <2>1, DeliverTyped DEF Errors
  <2>2. CASE asyncRead("size", 0) /\ UNCHANGED delivered
    BY <2>2, ReadTyped DEF ReaderInv, Delivers
  <2> QED BY <1>5, <2>1, <2>2
<1> QED BY <1>3, <1>5, <1>6, HandlerTyped

\* The socket returns a piece.
LEMMA PieceRead ==
    ASSUME ReaderInv, readSome
    PROVE  ReaderInv'
<1>1. pending /\ ~match.found /\ UNCHANGED <<sent, closes, reply, thread, delivered>>
      /\ op' = [op EXCEPT !.from = match.pos]
  BY DEF readSome
<1>2. op' \in Op
  <2>1. match.pos = 0
    BY <1>1, Matches
  <2> QED BY <1>1, <2>1 DEF ReaderInv, Op
<1>3. PICK n \in 1..MaxPiece : /\ n <= Len(wire) /\ buf' = buf \o SubSeq(wire, 1, n)
                               /\ wire' = SubSeq(wire, n + 1, Len(wire))
  BY DEF readSome
<1>4. wire \in Seq(Token) /\ buf \in Seq(Token) /\ Len(wire) \in Nat /\ n \in 1..Len(wire)
  BY <1>3, ReaderAssumption DEF ReaderInv, Tokens
<1>5. SubSeq(wire, 1, n) \in Seq(Token) /\ wire' \in Seq(Token)
  BY <1>3, <1>4
<1>6. buf' \in Seq(Token)
  BY <1>3, <1>4, <1>5
<1> QED BY <1>1, <1>2, <1>5, <1>6 DEF ReaderInv, Tokens, Delivers

\* Every step keeps the invariant.
LEMMA ReaderInductive ==
    ASSUME ReaderInv, [Next]_vars
    PROVE  ReaderInv'
<1>1. CASE asyncResponse
  <2>1. op' \in Op /\ UNCHANGED <<sent, closes, wire, buf, reply, thread, delivered>>
    BY <1>1, ReadTyped DEF asyncResponse
  <2> QED BY <2>1 DEF ReaderInv, Delivers
<1>2. CASE readFails
  <2>1. deliver("eof", <<>>) /\ UNCHANGED <<sent, closes, wire, buf, thread>>
    BY <1>2 DEF readFails
  <2>2. op' \in Op /\ Delivers'
    BY <2>1, DeliverTyped DEF Errors
  <2> QED BY <2>1, <2>2 DEF ReaderInv
<1>3. CASE UNCHANGED vars
  BY <1>3 DEF vars, ReaderInv, Delivers
<1> QED BY <1>1, <1>2, <1>3, HeadersRead, BodyRead, SizeRead, ChunkRead, PieceRead DEF Next, handlers

\* The invariant holds throughout.
LEMMA ReaderInvariant == Spec => []ReaderInv
<1>1. Init => ReaderInv
  <2>1. SUFFICES ASSUME Init
                 PROVE  ReaderInv
    OBVIOUS
  <2>2. sent \in Seq(Messages) /\ wire \in Tokens /\ closes \in BOOLEAN
    BY <2>1, ConnectionTyped
  <2>3. buf = <<>> /\ op = NoOp /\ thread = "free" /\ delivered = <<>>
    BY <2>1 DEF Init
  <2>4. buf \in Tokens /\ delivered \in Seq({})
    BY <2>3 DEF Tokens
  <2>5. op \in Op
    BY <2>3 DEF NoOp, Op
  <2>6. Delivers
    BY <2>3, <2>4 DEF Delivers
  <2> QED BY <2>2, <2>3, <2>4, <2>5, <2>6 DEF ReaderInv
<1>2. ReaderInv /\ [Next]_vars => ReaderInv'
  BY ReaderInductive
<1> QED BY <1>1, <1>2, PTL DEF Spec

\* The variables of the reader have their types; a search never starts outside of the
\* buffer, whatever the pieces.
THEOREM ReaderTypeCorrect == Spec => []TypeOK
<1>1. ReaderInv => TypeOK
  <2>1. SUFFICES ASSUME ReaderInv
                 PROVE  TypeOK
    OBVIOUS
  <2>2. Len(buf) \in Nat
    BY <2>1 DEF ReaderInv, Tokens
  <2>3. op.kind \in {"none", "headers", "body", "size", "chunk"} /\ op.need \in Nat /\ op.from = 0
    BY <2>1 DEF ReaderInv, Op
  <2> QED BY <2>1, <2>2, <2>3 DEF ReaderInv, TypeOK, Delivers, Errors
<1> QED BY <1>1, ReaderInvariant, PTL

\* Whatever the peer sends and however it is cut into pieces, read and read_until find
\* in the buffer what the completed asyncRead waited for: the only thread of the
\* io_service never waits for itself.
THEOREM HandlersNeverBlock == Spec => []NeverBlocks
<1>1. ReaderInv => NeverBlocks
  BY DEF ReaderInv, NeverBlocks
<1> QED BY <1>1, ReaderInvariant, PTL
--------------------------------------------------------------------------------
(* Delimiters in the stream *)

\* d is at place i of s, and nowhere before.
Occurs(s, d, i) == i \in 1..(Len(s) - Len(d) + 1) /\ SubSeq(s, i, i + Len(d) - 1) = d
FirstAt(s, d, i) == Occurs(s, d, i) /\ \A j \in Nat : Occurs(s, d, j) => i <= j

\* std::search finds the first place, or there is none.
LEMMA SearchFirst ==
    ASSUME NEW s \in Tokens, NEW d \in Tokens, NEW p, p = Search(s, d)
    PROVE  \/ p = 0 /\ \A i \in Nat : ~Occurs(s, d, i)
           \/ FirstAt(s, d, p) /\ p # 0
<1>1. PICK at : at = {i \in 1..(Len(s) - Len(d) + 1) : SubSeq(s, i, i + Len(d) - 1) = d}
  OBVIOUS
<1>4. \A i \in Nat : i \in at <=> Occurs(s, d, i)
  BY <1>1 DEF Occurs
<1>2. CASE at = {}
  <2>1. p = 0
    BY <1>1, <1>2 DEF Search
  <2> QED BY <1>2, <1>4, <2>1
<1>3. CASE at # {}
  <2>1. \A i \in at : i \in Nat /\ i # 0
    BY <1>1
  <2>2. \E i \in at : \A j \in at : i <= j
    BY <1>3, <2>1, LeastExists
  <2>3. p = CHOOSE i \in at : \A j \in at : i <= j
    BY <1>1, <1>3 DEF Search
  <2>4. p \in at /\ \A j \in at : p <= j
    BY <2>2, <2>3
  <2> QED BY <1>4, <2>1, <2>4 DEF FirstAt
<1> QED BY <1>2, <1>3

\* What is found in the buffer is at the same place of the stream.
LEMMA OccursInStream ==
    ASSUME NEW s \in Tokens, NEW y \in Tokens, NEW d \in Tokens, Len(d) > 0,
           NEW i \in Nat, i + Len(d) - 1 <= Len(s)
    PROVE  Occurs(s, d, i) <=> Occurs(s \o y, d, i)
<1>1. /\ s \in Seq(Token) /\ y \in Seq(Token) /\ d \in Seq(Token)
      /\ Len(s) \in Nat /\ Len(y) \in Nat /\ Len(d) \in Nat
  BY DEF Tokens
<1>2. Len(s \o y) = Len(s) + Len(y)
  BY <1>1, ConcatProperties
<1>3. CASE i = 0
  <2>1. i \notin 1..(Len(s) - Len(d) + 1) /\ i \notin 1..(Len(s \o y) - Len(d) + 1)
    BY <1>3
  <2> QED BY <2>1 DEF Occurs
<1>4. CASE i # 0
  <2>1. PICK n : n = i + Len(d) - 1
    OBVIOUS
  <2>2. i \in 1..Len(s) /\ n \in 1..Len(s)
    BY <1>1, <1>4, <2>1
  <2>3. SubSeq(s \o y, i, n) = SubSeq(s, i, n)
    BY <1>1, <2>2, SubSeqOfConcat1
  <2>4. i \in 1..(Len(s) - Len(d) + 1) /\ i \in 1..(Len(s \o y) - Len(d) + 1)
    BY <1>1, <1>2, <1>4
  <2> QED BY <2>1, <2>3, <2>4 DEF Occurs
<1> QED BY <1>3, <1>4

\* The buffer holds the delimiter exactly when it holds its first place in the stream.
LEMMA SearchInStream ==
    ASSUME NEW s \in Tokens, NEW y \in Tokens, NEW d \in Tokens, Len(d) > 0,
           NEW q \in Nat, FirstAt(s \o y, d, q)
    PROVE  IF q + Len(d) - 1 <= Len(s) THEN Search(s, d) = q ELSE Search(s, d) = 0
<1>1. Len(s) \in Nat /\ Len(d) \in Nat
  BY DEF Tokens
<1>2. PICK p : p = Search(s, d)
  OBVIOUS
<1>3. \/ p = 0 /\ \A i \in Nat : ~Occurs(s, d, i)
      \/ FirstAt(s, d, p) /\ p # 0
  BY <1>2, SearchFirst
<1>4. CASE q + Len(d) - 1 <= Len(s)
  <2>1. Occurs(s, d, q)
    BY <1>4, OccursInStream DEF FirstAt
  <2>2. FirstAt(s, d, p) /\ p # 0
    BY <1>3, <2>1
  <2>3. p \in Nat /\ p + Len(d) - 1 <= Len(s)
    BY <1>1, <2>2 DEF FirstAt, Occurs
  <2>4. Occurs(s \o y, d, p)
    BY <2>2, <2>3, OccursInStream DEF FirstAt
  <2>5. q <= p /\ p <= q
    BY <2>1, <2>2, <2>3, <2>4 DEF FirstAt
  <2> QED BY <1>2, <1>4, <2>3, <2>5
<1>5. CASE ~(q + Len(d) - 1 <= Len(s))
  <2>1. ASSUME FirstAt(s, d, p), p # 0
        PROVE  FALSE
    <3>1. p \in Nat /\ p + Len(d) - 1 <= Len(s)
      BY <1>1, <2>1 DEF FirstAt, Occurs
    <3>2. Occurs(s \o y, d, p)
      BY <2>1, <3>1, OccursInStream DEF FirstAt
    <3>3. q <= p
      BY <3>1, <3>2 DEF FirstAt
    <3> QED BY <1>1, <1>5, <3>1, <3>3
  <2> QED BY <1>2, <1>3, <1>5, <2>1
<1> QED BY <1>4, <1>5

\* The first d in the stream is the one behind h, and it has arrived.
Delimited(h, d, x, y) ==
    /\ h \in Tokens /\ d \in Tokens /\ x \in Tokens /\ y \in Tokens
    /\ Search(buf, d) # 0 /\ buf \o y = h \o (d \o x)
    /\ Len(d) > 0 /\ FirstAt(h \o (d \o x), d, Len(h) + 1)

\* read_until takes the bytes before the delimiter, and the stream goes on behind it.
LEMMA UntilFound ==
    ASSUME ReaderInv, NEW h, NEW d, NEW x, NEW y, Delimited(h, d, x, y)
    PROVE  read_until(d).bytes = h /\ read_until(d).rest \o y = x
<1>9. /\ h \in Tokens /\ d \in Tokens /\ x \in Tokens /\ y \in Tokens
      /\ Search(buf, d) # 0 /\ buf \o y = h \o (d \o x)
      /\ Len(d) > 0 /\ FirstAt(h \o (d \o x), d, Len(h) + 1)
  BY DEF Delimited
<1>10. PICK r : r = read_until(d)
  OBVIOUS
<1>1. /\ buf \in Seq(Token) /\ y \in Seq(Token) /\ d \in Seq(Token)
      /\ h \in Seq(Token) /\ x \in Seq(Token)
      /\ Len(buf) \in Nat /\ Len(h) \in Nat /\ Len(d) \in Nat
  BY <1>9 DEF Tokens, ReaderInv
<1>2. PICK q \in Nat : q = Len(h) + 1
  BY <1>1
<1>3. Search(buf, d) = q /\ q + Len(d) - 1 <= Len(buf)
  <2>1. FirstAt(buf \o y, d, q)
    BY <1>2, <1>9
  <2>2. buf \in Tokens
    BY DEF ReaderInv
  <2> QED BY <1>9, <2>1, <2>2, SearchInStream
<1>4. PICK a : a = SubSeq(buf, 1, q - 1)
  OBVIOUS
<1>5. PICK e : e = SubSeq(buf, q + Len(d), Len(buf))
  OBVIOUS
<1>6. r.bytes = a /\ r.rest = e
  <2>1. PICK b \in BOOLEAN : b = (q # 0)
    OBVIOUS
  <2>2. q # 0
    BY <1>1, <1>2
  <2>3. r = [ready |-> b, bytes |-> a, rest |-> e]
    BY <1>3, <1>4, <1>5, <1>10, <2>1, <2>2 DEF read_until
  <2> QED BY <2>3
<1>7. a = h
  <2>1. q - 1 = Len(h) /\ Len(h) <= Len(buf) /\ d \o x \in Seq(Token)
    BY <1>1, <1>2, <1>3
  <2>2. buf \o y = h \o (d \o x)
    BY <1>9
  <2> QED BY <1>1, <1>4, <2>1, <2>2, TakesFirst
<1>8. e \o y = x
  <2>1. PICK c : c = h \o d
    OBVIOUS
  <2>2. c \in Seq(Token) /\ Len(c) = Len(h) + Len(d)
    BY <1>1, <2>1, ConcatProperties
  <2>6. Three(Token, h, d, x)
    BY <1>1 DEF Three
  <2>3. c \o x = h \o (d \o x)
    BY <2>1, <2>6, Associates
  <2>4. Len(c) <= Len(buf) /\ q + Len(d) = Len(c) + 1
    BY <1>1, <1>2, <1>3, <2>2
  <2>5. buf \o y = c \o x
    BY <1>9, <2>3
  <2> QED BY <1>1, <1>5, <2>2, <2>4, <2>5, TakesFirst
<1> QED BY <1>6, <1>7, <1>8, <1>10

\* read takes the bytes it is asked for.
LEMMA ReadTakes ==
    ASSUME ReaderInv, NEW a \in Tokens, NEW x \in Tokens, NEW y \in Tokens,
           buf \o y = a \o x, Len(a) <= Len(buf)
    PROVE  read(Len(a)).bytes = a /\ read(Len(a)).rest \o y = x
<1>1. /\ buf \in Seq(Token) /\ y \in Seq(Token) /\ a \in Seq(Token) /\ x \in Seq(Token)
      /\ Len(buf) \in Nat /\ Len(a) \in Nat
  BY DEF Tokens, ReaderInv
<1>2. PICK n : n = IF Len(a) < Len(buf) THEN Len(a) ELSE Len(buf)
  OBVIOUS
<1>3. n = Len(a)
  BY <1>1, <1>2
<1>4. PICK v, w : v = SubSeq(buf, 1, Len(a)) /\ w = SubSeq(buf, Len(a) + 1, Len(buf))
  OBVIOUS
<1>5. read(Len(a)).bytes = v /\ read(Len(a)).rest = w
  <2>1. PICK b \in BOOLEAN : b = (n = Len(a))
    OBVIOUS
  <2>2. read(Len(a)) = [ready |-> b, bytes |-> v, rest |-> w]
    BY <1>2, <1>3, <1>4, <2>1 DEF read
  <2> QED BY <2>2
<1>6. v = a /\ w \o y = x
  BY <1>1, <1>4, TakesFirst
<1> QED BY <1>5, <1>6

\* The delimiters, token by token.
LEMMA DelimiterTokens ==
    /\ CRLF[1] = "r" /\ CRLF[2] = "n"
    /\ (CRLF \o CRLF)[1] = "r" /\ (CRLF \o CRLF)[2] = "n"
    /\ (CRLF \o CRLF)[3] = "r" /\ (CRLF \o CRLF)[4] = "n"
<1>1. PICK d : d = CRLF
  OBVIOUS
<1>2. d[1] = "r" /\ d[2] = "n"
  BY <1>1 DEF CRLF
<1>3. d \in Seq(Token) /\ Len(d) = 2
  BY <1>1, Delimiters DEF Tokens
<1>4. PICK w : w = d \o d
  OBVIOUS
<1>5. \A i \in 1..(Len(d) + Len(d)) : w[i] = IF i <= Len(d) THEN d[i] ELSE d[i - Len(d)]
  BY <1>3, <1>4, ConcatProperties
<1>6. w[1] = d[1] /\ w[2] = d[2] /\ w[3] = d[1] /\ w[4] = d[2]
  <2>1. PICK n : n = Len(d)
    OBVIOUS
  <2>2. n = 2 /\ \A i \in 1..(n + n) : w[i] = IF i <= n THEN d[i] ELSE d[i - n]
    BY <1>3, <1>5, <2>1
  <2> QED BY <2>2
<1> QED BY <1>1, <1>2, <1>4, <1>6

\* Where the end of a line is.
LEMMA OccursLineEnd ==
    ASSUME NEW z \in Tokens, NEW i \in Nat
    PROVE  Occurs(z, CRLF, i) <=> (i \in 1..(Len(z) - 1) /\ z[i] = "r" /\ z[i + 1] = "n")
<1>1. PICK d : d = CRLF /\ d \in Seq(Token) /\ Len(d) = 2 /\ d[1] = "r" /\ d[2] = "n"
  BY Delimiters, DelimiterTokens DEF Tokens
<1>2. z \in Seq(Token) /\ Len(z) \in Nat
  BY DEF Tokens
<1>3. Occurs(z, d, i) <=> (i \in 1..(Len(z) - 1) /\ SubSeq(z, i, i + 1) = d)
  <2>1. Len(z) - Len(d) + 1 = Len(z) - 1 /\ i + Len(d) - 1 = i + 1
    BY <1>1, <1>2
  <2> QED BY <2>1 DEF Occurs
<1>4. ASSUME i \in 1..(Len(z) - 1)
      PROVE  SubSeq(z, i, i + 1) = d <=> (z[i] = "r" /\ z[i + 1] = "n")
  <2>1. PICK v : v = SubSeq(z, i, i + 1)
    OBVIOUS
  <2>2. v \in Seq(Token) /\ Len(v) = 2 /\ v[1] = z[i] /\ v[2] = z[i + 1]
    <3>1. PICK k \in Nat : k = i + 1
      OBVIOUS
    <3>2. i \in Int /\ k \in Int /\ \A j \in i..k : z[j] \in Token
      BY <1>2, <1>4, <3>1
    <3>3. /\ v \in Seq(Token) /\ Len(v) = IF i <= k THEN k - i + 1 ELSE 0
          /\ \A j \in 1..(k - i + 1) : v[j] = z[i + j - 1]
      BY <2>1, <3>1, <3>2, SubSeqProperties
    <3>4. i <= k /\ k - i + 1 = 2 /\ i + 1 - 1 = i /\ i + 2 - 1 = i + 1
      BY <3>1
    <3> QED BY <3>3, <3>4
  <2>3. v = d <=> (v[1] = d[1] /\ v[2] = d[2])
    <3>1. ASSUME v[1] = d[1], v[2] = d[2]
          PROVE  v = d
      <4>1. \A j \in 1..Len(v) : v[j] = d[j]
        BY <2>2, <3>1
      <4> QED BY <1>1, <2>2, <4>1, SeqEqual
    <3> QED BY <3>1
  <2> QED BY <1>1, <2>1, <2>2, <2>3
<1> QED BY <1>1, <1>3, <1>4

\* Where the end of a header is.
LEMMA OccursHeaderEnd ==
    ASSUME NEW z \in Tokens, NEW i \in Nat
    PROVE  Occurs(z, CRLF \o CRLF, i) <=>
               (/\ i \in 1..(Len(z) - 3)
                /\ z[i] = "r" /\ z[i + 1] = "n" /\ z[i + 2] = "r" /\ z[i + 3] = "n")
<1>1. PICK d : /\ d = CRLF \o CRLF /\ d \in Seq(Token) /\ Len(d) = 4
               /\ d[1] = "r" /\ d[2] = "n" /\ d[3] = "r" /\ d[4] = "n"
  BY Delimiters, DelimiterTokens DEF Tokens
<1>2. z \in Seq(Token) /\ Len(z) \in Nat
  BY DEF Tokens
<1>3. Occurs(z, d, i) <=> (i \in 1..(Len(z) - 3) /\ SubSeq(z, i, i + 3) = d)
  <2>1. Len(z) - Len(d) + 1 = Len(z) - 3 /\ i + Len(d) - 1 = i + 3
    BY <1>1, <1>2
  <2> QED BY <2>1 DEF Occurs
<1>4. ASSUME i \in 1..(Len(z) - 3)
      PROVE  SubSeq(z, i, i + 3) = d <=>
                 (z[i] = "r" /\ z[i + 1] = "n" /\ z[i + 2] = "r" /\ z[i + 3] = "n")
  <2>1. PICK v : v = SubSeq(z, i, i + 3)
    OBVIOUS
  <2>2. /\ v \in Seq(Token) /\ Len(v) = 4
        /\ v[1] = z[i] /\ v[2] = z[i + 1] /\ v[3] = z[i + 2] /\ v[4] = z[i + 3]
    <3>1. PICK k \in Nat : k = i + 3
      OBVIOUS
    <3>2. i \in Int /\ k \in Int /\ \A j \in i..k : z[j] \in Token
      BY <1>2, <1>4, <3>1
    <3>3. /\ v \in Seq(Token) /\ Len(v) = IF i <= k THEN k - i + 1 ELSE 0
          /\ \A j \in 1..(k - i + 1) : v[j] = z[i + j - 1]
      BY <2>1, <3>1, <3>2, SubSeqProperties
    <3>4. /\ i <= k /\ k - i + 1 = 4
          /\ i + 1 - 1 = i /\ i + 2 - 1 = i + 1 /\ i + 3 - 1 = i + 2 /\ i + 4 - 1 = i + 3
      BY <3>1
    <3> QED BY <3>3, <3>4
  <2>3. v = d <=> (v[1] = d[1] /\ v[2] = d[2] /\ v[3] = d[3] /\ v[4] = d[4])
    <3>1. ASSUME v[1] = d[1], v[2] = d[2], v[3] = d[3], v[4] = d[4]
          PROVE  v = d
      <4>1. \A j \in 1..Len(v) : v[j] = d[j]
        BY <2>2, <3>1
      <4> QED BY <1>1, <2>2, <4>1, SeqEqual
    <3> QED BY <3>1
  <2> QED BY <1>1, <2>1, <2>2, <2>3
<1> QED BY <1>1, <1>3, <1>4

\* The first n lines of L, each with the end of its line.
LinesIn(g, L, n) ==
    /\ g \in Tokens /\ Len(g) = 3 * n
    /\ \A i \in 1..n : g[3 * i - 2] = L[i] /\ g[3 * i - 1] = "r" /\ g[3 * i] = "n"

\* One more line.
LEMMA LineAdded ==
    ASSUME NEW L, NEW n \in Nat, NEW g, LinesIn(g, L, n), NEW k, k = n + 1, L[k] \in Token
    PROVE  LinesIn(g \o (<<L[k]>> \o CRLF), L, k)
<1>1. PICK d : d = CRLF /\ d \in Seq(Token) /\ Len(d) = 2 /\ d[1] = "r" /\ d[2] = "n"
  BY Delimiters, DelimiterTokens DEF Tokens
<1>2. PICK l : l = L[k]
  OBVIOUS
<1>3. <<l>> \in Seq(Token) /\ Len(<<l>>) = 1 /\ <<l>>[1] = l
  BY <1>2
<1>4. PICK t : t = <<l>> \o d
  OBVIOUS
<1>5. t \in Seq(Token) /\ Len(t) = 3 /\ t[1] = l /\ t[2] = "r" /\ t[3] = "n"
  <2>1. PICK s : s = <<l>>
    OBVIOUS
  <2>2. s \in Seq(Token) /\ Len(s) = 1 /\ s[1] = l /\ t = s \o d
    BY <1>3, <1>4, <2>1
  <2>3. t \in Seq(Token) /\ Len(t) = Len(s) + Len(d)
    BY <1>1, <2>2, ConcatProperties
  <2>4. \A i \in 1..(Len(s) + Len(d)) : t[i] = IF i <= Len(s) THEN s[i] ELSE d[i - Len(s)]
    BY <1>1, <2>2, ConcatProperties
  <2> QED BY <1>1, <2>2, <2>3, <2>4
<1>6. g \in Seq(Token) /\ Len(g) = 3 * n
  BY DEF LinesIn, Tokens
<1>7. PICK w : w = g \o t
  OBVIOUS
<1>8. /\ w \in Seq(Token) /\ Len(w) = 3 * k
      /\ \A i \in 1..(3 * n) : w[i] = g[i]
      /\ w[3 * n + 1] = l /\ w[3 * n + 2] = "r" /\ w[3 * n + 3] = "n"
  <2>1. w \in Seq(Token) /\ Len(w) = Len(g) + Len(t)
    BY <1>5, <1>6, <1>7, ConcatProperties
  <2>2. \A i \in 1..(Len(g) + Len(t)) : w[i] = IF i <= Len(g) THEN g[i] ELSE t[i - Len(g)]
    BY <1>5, <1>6, <1>7, ConcatProperties
  <2>3. PICK e \in Nat : e = 3 * n
    OBVIOUS
  <2>4. /\ \A i \in 1..e : w[i] = g[i]
        /\ w[e + 1] = t[1] /\ w[e + 2] = t[2] /\ w[e + 3] = t[3]
    BY <1>5, <1>6, <2>2, <2>3
  <2> QED BY <1>5, <1>6, <2>1, <2>3, <2>4
<1>9. ASSUME NEW i \in 1..k
      PROVE  w[3 * i - 2] = L[i] /\ w[3 * i - 1] = "r" /\ w[3 * i] = "n"
  <2>1. CASE i = k
    <3>1. 3 * i - 2 = 3 * n + 1 /\ 3 * i - 1 = 3 * n + 2 /\ 3 * i = 3 * n + 3
      BY <2>1
    <3> QED BY <1>2, <1>8, <2>1, <3>1
  <2>2. CASE i # k
    <3>1. i \in 1..n
      BY <2>2
    <3>2. g[3 * i - 2] = L[i] /\ g[3 * i - 1] = "r" /\ g[3 * i] = "n"
      BY <3>1 DEF LinesIn
    <3>3. 3 * i - 2 \in 1..(3 * n) /\ 3 * i - 1 \in 1..(3 * n) /\ 3 * i \in 1..(3 * n)
      BY <3>1
    <3> QED BY <1>8, <3>2, <3>3
  <2> QED BY <2>1, <2>2
<1>10. LinesIn(w, L, k)
  BY <1>8, <1>9 DEF LinesIn, Tokens
<1> QED BY <1>1, <1>2, <1>4, <1>7, <1>10

\* The lines of a header, joined.
LEMMA LinesJoined ==
    ASSUME NEW L \in Seq(Token), Len(L) # 0, NEW H, H = [i \in DOMAIN L |-> <<L[i]>> \o CRLF]
    PROVE  LinesIn(FlattenSeq(H), L, Len(L))
<1>1. Len(L) \in Nat \ {0} /\ DOMAIN L = 1..Len(L) /\ \A i \in 1..Len(L) : L[i] \in Token
  OBVIOUS
<1>2. \A i \in 1..Len(L) : <<L[i]>> \o CRLF \in Tokens
  <2>1. SUFFICES ASSUME NEW i \in 1..Len(L)
                 PROVE  <<L[i]>> \o CRLF \in Tokens
    OBVIOUS
  <2>2. PICK s, d : s = <<L[i]>> /\ d = CRLF
    OBVIOUS
  <2>3. s \in Seq(Token) /\ d \in Seq(Token)
    BY <1>1, <2>2, ShortSequences, Delimiters DEF Tokens
  <2>4. s \o d \in Seq(Token)
    BY <2>3
  <2> QED BY <2>2, <2>4 DEF Tokens
<1>3. H \in Seq(Tokens) /\ Len(H) = Len(L) /\ \A i \in 1..Len(L) : H[i] = <<L[i]>> \o CRLF
  <2>1. H \in [DOMAIN L -> Tokens] /\ DOMAIN H = 1..Len(L)
    BY <1>1, <1>2
  <2>2. H \in Seq(Tokens)
    BY <2>1, MappedSequence
  <2>3. Len(H) = Len(L)
    BY <1>1, <2>1, <2>2
  <2> QED BY <1>1, <2>2, <2>3
<1>4. PICK f : Joins(f, H, Len(H)) /\ FlattenSeq(H) = f[Len(H)]
  BY <1>1, <1>3, FlattenJoins
<1>5. PICK S : S = {n \in 1..Len(L) : ~LinesIn(f[n], L, n)}
  OBVIOUS
<1>6. ASSUME S # {}
      PROVE  FALSE
  <2>1. PICK n \in S : \A y \in S : n <= y
    <3>1. \A y \in S : y \in Nat
      BY <1>5
    <3> QED BY <1>6, <3>1, LeastExists
  <2>2. n \in 1..Len(L) /\ n \in Nat /\ n # 0 /\ L[n] \in Token
    BY <1>1, <1>5, <2>1
  <2>3. f[n] = IF n = 1 THEN H[n] ELSE f[n - 1] \o H[n]
    BY <1>3, <1>4, <2>2 DEF Joins
  <2>4. PICK k : k = n - 1
    OBVIOUS
  <2>5. k \in Nat /\ n = k + 1
    BY <2>2, <2>4
  <2>6. ASSUME NEW g, LinesIn(g, L, k)
        PROVE  LinesIn(g \o H[n], L, n)
    <3>1. LinesIn(g \o (<<L[n]>> \o CRLF), L, n)
      BY <2>2, <2>5, <2>6, LineAdded
    <3> QED BY <1>3, <2>2, <3>1
  <2>7. CASE n = 1
    <3>1. k = 0
      BY <2>4, <2>7
    <3>2. PICK e : e = <<>>
      OBVIOUS
    <3>3. LinesIn(e, L, k)
      BY <3>1, <3>2 DEF LinesIn, Tokens
    <3>4. LinesIn(e \o H[n], L, n)
      BY <2>6, <3>3
    <3>5. e \o H[n] = H[n]
      <4>1. H[n] \in Seq(Token)
        BY <1>2, <1>3, <2>2 DEF Tokens
      <4> QED BY <3>2, <4>1, ConcatEmptySeq
    <3>6. LinesIn(f[n], L, n)
      BY <2>3, <2>7, <3>4, <3>5
    <3> QED BY <1>5, <2>1, <3>6
  <2>8. CASE n # 1
    <3>1. k \in 1..Len(L) /\ ~(n <= k)
      BY <2>2, <2>4, <2>8
    <3>2. LinesIn(f[k], L, k)
      BY <1>5, <2>1, <3>1
    <3>3. LinesIn(f[k] \o H[n], L, n)
      BY <2>6, <3>2
    <3>4. LinesIn(f[n], L, n)
      BY <2>3, <2>4, <2>8, <3>3
    <3> QED BY <1>5, <2>1, <3>4
  <2> QED BY <2>7, <2>8
<1>7. Len(L) \in 1..Len(L) /\ Len(L) \notin S
  BY <1>1, <1>6
<1> QED BY <1>3, <1>4, <1>5, <1>7

\* A place among the lines is that of a line, or of one of the two tokens that end it.
LEMMA PlaceOfLine ==
    ASSUME NEW n \in Nat, NEW j \in 1..(3 * n)
    PROVE  \E i \in 1..n : j = 3 * i - 2 \/ j = 3 * i - 1 \/ j = 3 * i
<1>1. PICK S : S = {i \in 1..n : j <= 3 * i}
  OBVIOUS
<1>2. n \in S
  BY <1>1
<1>3. PICK i \in S : \A y \in S : i <= y
  <2>1. \A y \in S : y \in Nat
    BY <1>1
  <2> QED BY <1>2, <2>1, LeastExists
<1>4. i \in 1..n /\ j <= 3 * i
  BY <1>1, <1>3
<1>5. j > 3 * i - 3
  <2>1. CASE i = 1
    BY <2>1
  <2>2. CASE i # 1
    <3>1. PICK k : k = i - 1
      OBVIOUS
    <3>2. k \in 1..n /\ ~(i <= k)
      BY <1>4, <2>2, <3>1
    <3>3. k \notin S
      BY <1>3, <3>2
    <3>4. ~(j <= 3 * k)
      BY <1>1, <3>2, <3>3
    <3> QED BY <1>4, <3>1, <3>4
  <2> QED BY <2>1, <2>2
<1> QED BY <1>4, <1>5

\* w is a and then b, place by place.
Glued(w, a, b, n) ==
    /\ Len(w) = n + Len(b)
    /\ \A i \in 1..n : w[i] = a[i]
    /\ \A i \in 1..Len(b) : w[n + i] = b[i]

\* Concatenation, place by place.
LEMMA Glue ==
    ASSUME NEW T, NEW a \in Seq(T), NEW b \in Seq(T), NEW w, w = a \o b, NEW n, n = Len(a)
    PROVE  w \in Seq(T) /\ Glued(w, a, b, n)
<1>1. n \in Nat /\ Len(b) \in Nat
  OBVIOUS
<1>2. /\ w \in Seq(T) /\ Len(w) = n + Len(b)
      /\ \A i \in 1..(n + Len(b)) : w[i] = IF i <= n THEN a[i] ELSE b[i - n]
  BY ConcatProperties
<1>3. \A i \in 1..n : w[i] = a[i]
  BY <1>1, <1>2
<1>4. ASSUME NEW i \in 1..Len(b)
      PROVE  w[n + i] = b[i]
  <2>1. PICK j : j = n + i
    OBVIOUS
  <2>2. j \in 1..(n + Len(b)) /\ ~(j <= n) /\ j - n = i
    BY <1>1, <2>1
  <2> QED BY <1>2, <2>1, <2>2
<1> QED BY <1>2, <1>3, <1>4 DEF Glued

\* The header ends where its lines do: no line is empty, so that the delimiter does not
\* occur before the end of the last line.
LEMMA HeaderEnds ==
    ASSUME NEW L \in Seq(Token), Len(L) # 0, Range(L) \cap {"r", "n"} = {},
           NEW g, LinesIn(g, L, Len(L)), NEW x \in Tokens
    PROVE  FirstAt(g \o (CRLF \o x), CRLF \o CRLF, 3 * Len(L) - 1)
<1>1. PICK N \in Nat : N = Len(L)
  OBVIOUS
<1>2. N # 0 /\ \A i \in 1..N : L[i] # "r"
  BY <1>1 DEF Range
<1>3. PICK d : d = CRLF /\ d \in Seq(Token) /\ Len(d) = 2 /\ d[1] = "r" /\ d[2] = "n"
  BY Delimiters, DelimiterTokens DEF Tokens
<1>4. /\ g \in Seq(Token) /\ Len(g) = 3 * N
      /\ \A i \in 1..N : g[3 * i - 2] = L[i] /\ g[3 * i - 1] = "r" /\ g[3 * i] = "n"
  BY <1>1 DEF LinesIn, Tokens
<1>5. PICK e : e = d \o x
  OBVIOUS
<1>6. e \in Seq(Token) /\ Len(e) >= 2 /\ Len(e) \in Nat /\ e[1] = "r" /\ e[2] = "n"
  <2>1. x \in Seq(Token) /\ Len(x) \in Nat
    BY DEF Tokens
  <2>2. e \in Seq(Token) /\ Len(e) = Len(d) + Len(x)
    BY <1>3, <1>5, <2>1, ConcatProperties
  <2>4. d \in Seq(Token) /\ e = d \o x
    BY <1>3, <1>5
  <2>3. \A i \in 1..(Len(d) + Len(x)) : e[i] = IF i <= Len(d) THEN d[i] ELSE x[i - Len(d)]
    BY <2>1, <2>4, ConcatProperties
  <2> QED BY <1>3, <2>1, <2>2, <2>3
<1>7. PICK z : z = g \o e
  OBVIOUS
<1>8. /\ z \in Seq(Token) /\ Len(z) \in Nat /\ Len(z) >= 3 * N + 2
      /\ \A i \in 1..(3 * N) : z[i] = g[i]
      /\ z[3 * N + 1] = "r" /\ z[3 * N + 2] = "n"
  <2>3. PICK k \in Nat : k = 3 * N
    OBVIOUS
  <2>1. z \in Seq(Token) /\ Glued(z, g, e, k)
    BY <1>4, <1>6, <1>7, <2>3, Glue
  <2>2. /\ Len(z) = k + Len(e) /\ \A i \in 1..k : z[i] = g[i]
        /\ \A i \in 1..Len(e) : z[k + i] = e[i]
    BY <2>1 DEF Glued
  <2>4. 1 \in 1..Len(e) /\ 2 \in 1..Len(e)
    BY <1>6
  <2>5. z[k + 1] = e[1] /\ z[k + 2] = e[2]
    BY <2>2, <2>4
  <2>6. Len(z) \in Nat /\ Len(z) >= k + 2
    BY <1>6, <2>2
  <2> QED BY <1>6, <2>1, <2>2, <2>3, <2>5, <2>6
<1>9. \A i \in 1..N : z[3 * i - 2] = L[i] /\ z[3 * i - 1] = "r" /\ z[3 * i] = "n"
  <2>1. SUFFICES ASSUME NEW i \in 1..N
                 PROVE  z[3 * i - 2] = L[i] /\ z[3 * i - 1] = "r" /\ z[3 * i] = "n"
    OBVIOUS
  <2>2. PICK a, b, c : a = 3 * i - 2 /\ b = 3 * i - 1 /\ c = 3 * i
    OBVIOUS
  <2>3. a \in 1..(3 * N) /\ b \in 1..(3 * N) /\ c \in 1..(3 * N)
    BY <2>2
  <2>4. g[a] = L[i] /\ g[b] = "r" /\ g[c] = "n"
    BY <1>4, <2>2
  <2>5. z[a] = g[a] /\ z[b] = g[b] /\ z[c] = g[c]
    BY <1>8, <2>3
  <2> QED BY <2>2, <2>4, <2>5
<1>10. PICK q \in Nat : q = 3 * N - 1
  BY <1>2
<1>11. Occurs(z, CRLF \o CRLF, q)
  <2>1. q \in 1..(Len(z) - 3)
    BY <1>2, <1>8, <1>10
  <2>2. z[3 * N - 1] = "r" /\ z[3 * N] = "n"
    <3>1. N \in 1..N
      BY <1>2
    <3> QED BY <1>9, <3>1
  <2>3. q + 1 = 3 * N /\ q + 2 = 3 * N + 1 /\ q + 3 = 3 * N + 2
    BY <1>10
  <2>4. z \in Tokens
    BY <1>8 DEF Tokens
  <2> QED BY <1>8, <1>10, <2>1, <2>2, <2>3, <2>4, OccursHeaderEnd
<1>12. ASSUME NEW j \in Nat, Occurs(z, CRLF \o CRLF, j), ~(q <= j)
       PROVE  FALSE
  <2>1. z \in Tokens
    BY <1>8 DEF Tokens
  <2>2. j \in 1..(Len(z) - 3) /\ z[j] = "r" /\ z[j + 2] = "r"
    BY <1>12, <2>1, OccursHeaderEnd
  <2>3. j \in 1..(3 * N) /\ j < 3 * N - 1
    BY <1>10, <1>12, <2>2
  <2>4. PICK i \in 1..N : j = 3 * i - 2 \/ j = 3 * i - 1 \/ j = 3 * i
    BY <2>3, PlaceOfLine
  <2>5. CASE j = 3 * i - 2
    BY <1>2, <1>9, <2>2, <2>4, <2>5
  <2>6. CASE j = 3 * i - 1
    <3>1. PICK k : k = i + 1
      OBVIOUS
    <3>2. k \in 1..N /\ j + 2 = 3 * k - 2
      BY <2>3, <2>4, <2>6, <3>1
    <3>3. z[3 * k - 2] = L[k] /\ L[k] # "r"
      BY <1>2, <1>9, <3>2
    <3> QED BY <2>2, <3>2, <3>3
  <2>7. CASE j = 3 * i
    BY <1>9, <2>2, <2>4, <2>7
  <2> QED BY <2>4, <2>5, <2>6, <2>7
<1>13. FirstAt(z, CRLF \o CRLF, q)
  BY <1>11, <1>12 DEF FirstAt
<1> QED BY <1>1, <1>3, <1>5, <1>7, <1>10, <1>13

\* A header is the part before its last line end and that line end.
LEMMA HeaderSplits ==
    ASSUME NEW L \in Seq(Token), Len(L) # 0, Range(L) \cap {"r", "n"} = {},
           NEW g, LinesIn(g, L, Len(L)), NEW h, h = SubSeq(g, 1, 3 * Len(L) - 2)
    PROVE  /\ h \in Tokens /\ Len(h) = 3 * Len(L) - 2 /\ g = h \o CRLF
           /\ h[1] = L[1] /\ lines(h) = Range(L)
<1>1. PICK N \in Nat : N = Len(L)
  OBVIOUS
<1>2. N # 0 /\ DOMAIN L = 1..N /\ \A i \in 1..N : L[i] \notin {"r", "n"}
  <2>1. N # 0 /\ DOMAIN L = 1..N
    BY <1>1
  <2>2. \A i \in 1..N : L[i] \in Range(L)
    BY <2>1 DEF Range
  <2> QED BY <2>1, <2>2
<1>3. PICK d : d = CRLF /\ d \in Seq(Token) /\ Len(d) = 2 /\ d[1] = "r" /\ d[2] = "n"
  BY Delimiters, DelimiterTokens DEF Tokens
<1>4. /\ g \in Seq(Token) /\ Len(g) = 3 * N
      /\ \A i \in 1..N : g[3 * i - 2] = L[i] /\ g[3 * i - 1] = "r" /\ g[3 * i] = "n"
  BY <1>1 DEF LinesIn, Tokens
<1>5. PICK k \in Nat : k = 3 * N - 2
  BY <1>2
<1>6. h \in Seq(Token) /\ Len(h) = k /\ \A i \in 1..k : h[i] = g[i]
  <2>1. k \in 1..Len(g) /\ h = SubSeq(g, 1, k)
    BY <1>1, <1>2, <1>4, <1>5
  <2>2. 1 \in Int /\ k \in Int /\ \A i \in 1..k : g[i] \in Token
    BY <1>4, <2>1
  <2>3. /\ h \in Seq(Token) /\ Len(h) = IF 1 <= k THEN k - 1 + 1 ELSE 0
        /\ \A i \in 1..(k - 1 + 1) : h[i] = g[1 + i - 1]
    BY <2>1, <2>2, SubSeqProperties
  <2>4. k - 1 + 1 = k /\ 1 <= k
    BY <2>1
  <2>5. \A i \in 1..k : 1 + i - 1 = i
    OBVIOUS
  <2> QED BY <2>3, <2>4, <2>5
<1>7. g = h \o d
  <2>1. PICK w : w = h \o d
    OBVIOUS
  <2>9. w \in Seq(Token) /\ Glued(w, h, d, k)
    BY <1>3, <1>6, <2>1, Glue
  <2>2. w \in Seq(Token) /\ Len(w) = k + 2
    BY <1>3, <2>9 DEF Glued
  <2>3. (\A i \in 1..k : w[i] = h[i]) /\ \A i \in 1..2 : w[k + i] = d[i]
    BY <1>3, <2>9 DEF Glued
  <2>4. w[k + 1] = "r" /\ w[k + 2] = "n" /\ \A i \in 1..k : w[i] = g[i]
    <3>1. 1 \in 1..2 /\ 2 \in 1..2
      OBVIOUS
    <3>2. w[k + 1] = d[1] /\ w[k + 2] = d[2]
      BY <2>3, <3>1
    <3> QED BY <1>3, <1>6, <2>3, <3>2
  <2>5. g[k + 1] = "r" /\ g[k + 2] = "n"
    <3>1. g[3 * N - 1] = "r" /\ g[3 * N] = "n"
      BY <1>2, <1>4
    <3>2. k + 1 = 3 * N - 1 /\ k + 2 = 3 * N
      BY <1>5
    <3> QED BY <3>1, <3>2
  <2>6. Len(w) = Len(g)
    BY <1>3, <1>4, <1>5, <1>6, <2>2
  <2>7. \A i \in 1..Len(w) : w[i] = g[i]
    <3>1. \A i \in 1..(k + 2) : i \in 1..k \/ i = k + 1 \/ i = k + 2
      OBVIOUS
    <3>2. w[k + 1] = g[k + 1] /\ w[k + 2] = g[k + 2]
      BY <2>4, <2>5
    <3> QED BY <2>2, <2>4, <3>1, <3>2
  <2>8. w = g
    BY <1>4, <2>2, <2>6, <2>7, SeqEqual
  <2> QED BY <2>1, <2>8
<1>8. h[1] = L[1]
  <2>1. 1 \in 1..N /\ 1 \in 1..k /\ 3 * 1 - 2 = 1
    BY <1>2, <1>5
  <2>2. g[3 * 1 - 2] = L[1] /\ h[1] = g[1]
    BY <1>4, <1>6, <2>1
  <2> QED BY <2>1, <2>2
<1>9. ASSUME NEW l \in lines(h)
      PROVE  l \in Range(L)
  <2>1. PICK j \in 1..k : l = h[j] /\ l # "r" /\ l # "n"
    BY <1>6, <1>9 DEF lines
  <2>2. j \in 1..(3 * N) /\ l = g[j]
    BY <1>5, <1>6, <2>1
  <2>3. PICK i \in 1..N : j = 3 * i - 2 \/ j = 3 * i - 1 \/ j = 3 * i
    BY <2>2, PlaceOfLine
  <2>4. l = L[i]
    BY <1>4, <2>1, <2>2, <2>3
  <2> QED BY <1>2, <2>4 DEF Range
<1>10. ASSUME NEW l \in Range(L)
       PROVE  l \in lines(h)
  <2>1. PICK i \in 1..N : l = L[i]
    BY <1>2, <1>10 DEF Range
  <2>2. PICK j : j = 3 * i - 2
    OBVIOUS
  <2>3. j \in 1..k /\ g[j] = L[i]
    BY <1>4, <1>5, <2>2
  <2>4. h[j] = l /\ l # "r" /\ l # "n" /\ j \in DOMAIN h
    BY <1>2, <1>6, <2>1, <2>3
  <2> QED BY <2>4 DEF lines
<1>11. lines(h) = Range(L)
  BY <1>9, <1>10
<1> QED BY <1>1, <1>3, <1>5, <1>6, <1>7, <1>8, <1>11 DEF Tokens

\* A part that is not empty begins the whole.
LEMMA BeginsWith ==
    ASSUME NEW T, NEW a \in Seq(T), NEW b \in Seq(T), Len(a) > 0
    PROVE  a \o b \in Seq(T) /\ Len(a \o b) > 0 /\ (a \o b)[1] = a[1]
<1>1. PICK n, w : n = Len(a) /\ w = a \o b
  OBVIOUS
<1>2. w \in Seq(T) /\ Glued(w, a, b, n)
  BY <1>1, Glue
<1>3. n \in Nat /\ n > 0 /\ Len(b) \in Nat /\ Len(w) = n + Len(b) /\ \A i \in 1..n : w[i] = a[i]
  BY <1>1, <1>2 DEF Glued
<1>4. 1 \in 1..n /\ Len(w) > 0
  BY <1>3
<1> QED BY <1>1, <1>2, <1>3, <1>4

\* The header of a message whose lines are lines.
LEMMA ProperHead ==
    ASSUME NEW m, ProperLines(m)
    PROVE  /\ Range(m.lines) \cap {"r", "n"} = {}
           /\ HeadLines(m) = [i \in DOMAIN m.lines |-> <<m.lines[i]>> \o CRLF]
<1>1. Range(m.lines) \cap {"r", "n"} = {}
  BY Zenon DEF ProperLines
<1>2. ASSUME NEW i \in DOMAIN m.lines
      PROVE  (IF m.lines[i] = "" THEN <<>> ELSE <<m.lines[i]>>) \o CRLF = <<m.lines[i]>> \o CRLF
  <2>1. m.lines[i] \in Range(m.lines)
    BY <1>2, Zenon DEF Range
  <2>2. m.lines[i] # ""
    BY <2>1, Zenon DEF ProperLines
  <2> QED BY <2>2, Zenon
<1> QED BY <1>1, <1>2, Zenon DEF HeadLines

\* A line of a header, also an empty one.
LEMMA LineOrEmpty ==
    ASSUME NEW m, NEW i \in DOMAIN m.lines
    PROVE  HeadLines(m)[i] = <<m.lines[i]>> \o CRLF \/ HeadLines(m)[i] = <<>> \o CRLF
BY Zenon DEF HeadLines

\* The header of a message whose lines are lines, in the stream.
LEMMA HeadInStream ==
    ASSUME NEW m \in Messages, m.lines # <<>>, ProperLines(m), NEW x \in Tokens
    PROVE  \E h \in Tokens :
              /\ HeadOf(m) \o x = h \o ((CRLF \o CRLF) \o x)
              /\ FirstAt(h \o ((CRLF \o CRLF) \o x), CRLF \o CRLF, Len(h) + 1)
              /\ h # <<>> /\ h[1] = m.lines[1] /\ lines(h) = Range(m.lines)
<1>1. PICK L : L = m.lines
  OBVIOUS
<1>2. L \in Seq(Token) /\ Len(L) \in Nat /\ Len(L) # 0
  <2>1. L \in Seq(Token) /\ L # <<>>
    BY <1>1, MessageParts
  <2> QED BY <2>1
<1>3. PICK d : d = CRLF /\ d \in Seq(Token)
  BY Delimiters DEF Tokens
<1>4. PICK H : H = [i \in DOMAIN L |-> <<L[i]>> \o CRLF]
  OBVIOUS
<1>5. HeadLines(m) = H
  BY <1>1, <1>4, ProperHead
<1>6. PICK g : g = FlattenSeq(H)
  OBVIOUS
<1>7. LinesIn(g, L, Len(L)) /\ g \in Seq(Token)
  <2>1. LinesIn(g, L, Len(L))
    BY <1>2, <1>4, <1>6, LinesJoined
  <2> QED BY <2>1 DEF LinesIn, Tokens
<1>8. HeadOf(m) = g \o d
  BY <1>3, <1>5, <1>6, HeadTyped
<1>9. PICK h : h = SubSeq(g, 1, 3 * Len(L) - 2)
  OBVIOUS
<1>10. Range(L) \cap {"r", "n"} = {}
  BY <1>1, ProperHead
<1>11. /\ h \in Tokens /\ Len(h) = 3 * Len(L) - 2 /\ g = h \o CRLF
       /\ h[1] = L[1] /\ lines(h) = Range(L)
  BY <1>2, <1>7, <1>9, <1>10, HeaderSplits
<1>12. FirstAt(g \o (CRLF \o x), CRLF \o CRLF, 3 * Len(L) - 1)
  BY <1>2, <1>7, <1>10, HeaderEnds
<1>13. h \in Seq(Token) /\ x \in Seq(Token) /\ g = h \o d
  BY <1>3, <1>11 DEF Tokens
<1>14. HeadOf(m) \o x = g \o (d \o x)
  <2>2. Three(Token, g, d, x)
    BY <1>3, <1>7, <1>13 DEF Three
  <2>1. (g \o d) \o x = g \o (d \o x)
    BY <2>2, Associates
  <2> QED BY <1>8, <2>1
<1>15. g \o (d \o x) = h \o ((d \o d) \o x)
  <2>1. d \o x \in Seq(Token)
    BY <1>3, <1>13
  <2>4. Three(Token, h, d, d \o x) /\ Three(Token, d, d, x)
    BY <1>3, <1>13, <2>1 DEF Three
  <2>2. (h \o d) \o (d \o x) = h \o (d \o (d \o x))
    BY <2>4, Associates
  <2>3. (d \o d) \o x = d \o (d \o x)
    BY <2>4, Associates
  <2> QED BY <1>13, <2>2, <2>3
<1>16. FirstAt(h \o ((d \o d) \o x), d \o d, Len(h) + 1)
  <2>1. 3 * Len(L) - 1 = Len(h) + 1
    BY <1>2, <1>11
  <2> QED BY <1>3, <1>12, <1>15, <2>1
<1>17. h # <<>>
  <2>1. Len(h) > 0
    BY <1>2, <1>11
  <2> QED BY <1>13, <2>1
<1> QED BY <1>1, <1>3, <1>11, <1>14, <1>15, <1>16, <1>17

\* A message that does not begin with a start line does not look as if it did.
LEMMA NoStartLine ==
    ASSUME NEW m \in Messages, m.lines # <<>>, m.lines[1] # "line", NEW x \in Tokens
    PROVE  Len(Wire(m) \o x) > 0 /\ (Wire(m) \o x)[1] # "line"
<1>1. PICK L : L = m.lines
  OBVIOUS
<1>2. L \in Seq(Token) /\ Len(L) \in Nat /\ Len(L) # 0 /\ L[1] \in Token
  <2>1. L \in Seq(Token) /\ L # <<>>
    BY <1>1, MessageParts
  <2> QED BY <2>1
<1>3. PICK d : d = CRLF /\ d \in Seq(Token) /\ Len(d) = 2 /\ d[1] = "r"
  BY Delimiters, DelimiterTokens DEF Tokens
<1>4. PICK H : H = HeadLines(m)
  OBVIOUS
<1>12. DOMAIN L = 1..Len(L) /\ 1 \in DOMAIN L
  BY <1>2
<1>5. PICK e : (e = <<>> \/ e = <<L[1]>>) /\ H[1] = e \o d
  BY <1>1, <1>3, <1>4, <1>12, LineOrEmpty
<1>6. 1 \in 1..Len(H) /\ H[1] = e \o d /\ H \in Seq(Seq(Token))
  <2>1. DOMAIN L = 1..Len(L) /\ 1 \in DOMAIN L
    BY <1>2
  <2>2. H[1] = e \o d /\ DOMAIN H = DOMAIN L
    BY <1>1, <1>4, <1>5 DEF HeadLines
  <2>3. H \in Seq(Tokens)
    BY <1>4, HeadTyped
  <2>4. 1 \in 1..Len(H)
    BY <2>1, <2>2, <2>3
  <2> QED BY <2>2, <2>3, <2>4 DEF Tokens
<1>7. e \o d \in Seq(Token) /\ Len(e \o d) > 0 /\ (e \o d)[1] # "line"
  <2>1. CASE e = <<>>
    <3>1. e \o d = d
      BY <1>3, <1>5, <2>1, ConcatEmptySeq
    <3> QED BY <1>3, <3>1
  <2>2. CASE e = <<L[1]>>
    <3>1. PICK l \in Token : l = L[1]
      BY <1>2
    <3>2. e = <<l>>
      BY <2>2, <3>1
    <3>3. e \in Seq(Token) /\ Len(e) > 0 /\ e[1] = l
      BY <3>2
    <3>4. e \o d \in Seq(Token) /\ Len(e \o d) > 0 /\ (e \o d)[1] = e[1]
      BY <1>3, <3>3, BeginsWith
    <3> QED BY <1>1, <3>1, <3>3, <3>4
  <2> QED BY <1>5, <2>1, <2>2
<1>8. PICK r : r = Rest(H, 2) /\ r \in Seq(Token) /\ FlattenSeq(H) = H[1] \o r
  <2>1. Rest(H, 1) = H[1] \o Rest(H, 1 + 1)
    BY <1>6, RestStep
  <2>2. Rest(H, 1) = FlattenSeq(H) /\ \A i \in 1..(Len(H) + 1) : Rest(H, i) \in Seq(Token)
    BY <1>6, RestEnds
  <2>3. 2 \in 1..(Len(H) + 1) /\ 1 + 1 = 2
    BY <1>6
  <2> QED BY <2>1, <2>2, <2>3
<1>9. PICK f : f = FlattenSeq(H) /\ f \in Seq(Token) /\ Len(f) > 0 /\ f[1] # "line"
  <2>1. PICK a : a = e \o d /\ a \in Seq(Token) /\ Len(a) > 0 /\ a[1] # "line"
    BY <1>7
  <2>2. a \o r \in Seq(Token) /\ Len(a \o r) > 0 /\ (a \o r)[1] = a[1]
    BY <1>8, <2>1, BeginsWith
  <2> QED BY <1>6, <1>8, <2>1, <2>2
<1>10. PICK k : k = HeadOf(m) /\ k \in Seq(Token) /\ Len(k) > 0 /\ k[1] # "line"
  <2>1. HeadOf(m) = f \o d
    BY <1>3, <1>4, <1>9, HeadTyped
  <2>2. f \o d \in Seq(Token) /\ Len(f \o d) > 0 /\ (f \o d)[1] = f[1]
    BY <1>3, <1>9, BeginsWith
  <2> QED BY <1>9, <2>1, <2>2
<1>11. PICK w : w = Wire(m) /\ w \in Seq(Token) /\ Len(w) > 0 /\ w[1] # "line"
  <2>1. PICK b : b = Body(m) /\ b \in Seq(Token) /\ Wire(m) = k \o b
    BY <1>10, WireTyped DEF Tokens
  <2> QED BY <1>10, <2>1, BeginsWith
<1> QED BY <1>11, BeginsWith DEF Tokens
--------------------------------------------------------------------------------
(* Inside of a message *)

\* Its header is not refused.
ProperHeader(m) == m.lines[1] = "line" /\ "len?" \notin Range(m.lines)
Accepted(m) == ProperHeader(m) /\ reply = [lines |-> Range(m.lines), body |-> reply.body]

\* The first n chunk sizes are numbers.
SizesProper(m, n) == \A j \in 1..n : m.chunks[j].size \in DOMAIN Sizes

\* Where the chain of handlers is in message m, with the bytes t behind it.  The bytes z
\* are those that the socket will never return.
AtHead(m, t, z) ==
    op.kind = "headers" /\ buf \o (wire \o z) = Wire(m) \o t

AtBody(m, t, z) ==
    /\ op.kind = "body" /\ op.need = Len(DataOf(m))
    /\ Accepted(m) /\ ~IsChunked(m)
    /\ buf \o (wire \o z) = DataOf(m) \o t

AtSize(m, i, t, z) ==
    /\ op.kind = "size"
    /\ Accepted(m) /\ IsChunked(m) /\ SizesProper(m, i - 1)
    /\ reply.body \in Tokens /\ reply.body \o Rest(Datas(m), i) = DataOf(m)
    /\ buf \o (wire \o z) = Rest(Pieces(m), i) \o t

AtChunk(m, i, t, z) ==
    /\ op.kind = "chunk" /\ op.need = Len(m.chunks[i].data)
    /\ Accepted(m) /\ IsChunked(m) /\ SizesProper(m, i)
    /\ reply.body \in Tokens /\ reply.body \o Rest(Datas(m), i) = DataOf(m)
    /\ buf \o (wire \o z) = m.chunks[i].data \o (CRLF \o (Rest(Pieces(m), i + 1) \o t))

Within(m, t, z) ==
    \/ AtHead(m, t, z)
    \/ AtBody(m, t, z)
    \/ \E i \in DOMAIN m.chunks : AtSize(m, i, t, z) \/ AtChunk(m, i, t, z)

\* The handler of asyncResponse is called with the outcome of m, and the stream goes on
\* behind m unless that was an error.
Completed(m, t, z) ==
    /\ delivered' = Append(delivered, Outcome(m)) /\ op'.kind = "none"
    /\ Malformed(m) \/ buf' \o (wire' \o z) = t

\* A step inside of m.
Onward(m, t, z) == Completed(m, t, z) \/ (Within(m, t, z)' /\ delivered' = delivered)

\* Three parts of the stream.
LEMMA Joined ==
    ASSUME NEW a \in Tokens, NEW b \in Tokens, NEW c \in Tokens
    PROVE  /\ (a \o b) \o c = a \o (b \o c)
           /\ a \o b \in Tokens /\ b \o c \in Tokens
           /\ <<>> \in Tokens /\ <<>> \o a = a /\ a \o <<>> = a
<1>1. a \in Seq(Token) /\ b \in Seq(Token) /\ c \in Seq(Token)
  BY DEF Tokens
<1>2. (a \o b) \o c = a \o (b \o c)
  BY <1>1, Associates DEF Three
<1>3. a \o b \in Seq(Token) /\ b \o c \in Seq(Token)
  BY <1>1
<1>4. <<>> \in Seq(Token) /\ <<>> \o a = a /\ a \o <<>> = a
  BY <1>1, ConcatEmptySeq
<1> QED BY <1>2, <1>3, <1>4 DEF Tokens

\* Nothing inflates to nothing.
LEMMA InflateNothing == gzipInflate(<<>>) = <<>>
<1>1. PICK e : e = <<>>
  OBVIOUS
<1>2. Len(e) = 0
  BY <1>1
<1>3. PICK good : good = {n \in 0..Len(e) : \A i \in 1..n : e[i] = "z"}
  OBVIOUS
<1>4. good = {0}
  BY <1>2, <1>3
<1>5. PICK n : n = CHOOSE i \in good : \A k \in good : k <= i
  OBVIOUS
<1>6. n = 0
  BY <1>4, <1>5
<1>7. gzipInflate(e) = [i \in 1..n |-> "x"]
  BY <1>3, <1>5 DEF gzipInflate
<1>8. [i \in 1..0 |-> "x"] = <<>>
  OBVIOUS
<1> QED BY <1>1, <1>6, <1>7, <1>8

\* The outcome of a message that is not refused.
LEMMA OutcomeProper ==
    ASSUME NEW m, ~Malformed(m), NEW b, b = IF "gzip" \in Range(m.lines) THEN gzipInflate(DataOf(m)) ELSE DataOf(m)
    PROVE  Outcome(m) = Answer("none", b)
BY DEF Outcome

\* What well-framed messages have in common.
LEMMA Framing ==
    ASSUME NEW m, Framed(m)
    PROVE  /\ m.lines # <<>>
           /\ m.lines[1] = "line" => ProperLines(m)
           /\ ProperHeader(m) /\ IsChunked(m) => ChunksFit(m)
           /\ ProperHeader(m) /\ ~IsChunked(m) => LengthFits(m) /\ ~Malformed(m)
BY DEF Framed, ProperHeader, Malformed

\* What handleHeaders may do with the header it has read.
HeadersDone(h) ==
    \/ refused(h) /\ deliver("protocol_error", <<>>)
    \/ /\ ~refused(h) /\ withLength(h)
       /\ \E l \in lines(h) \cap DOMAIN Lengths : asyncRead("body", Lengths[l])
       /\ reply' = [NoReply EXCEPT !.lines = lines(h)]
       /\ UNCHANGED delivered
    \/ /\ ~refused(h) /\ ~withLength(h) /\ "chunked" \in lines(h)
       /\ asyncRead("size", 0)
       /\ reply' = [NoReply EXCEPT !.lines = lines(h)]
       /\ UNCHANGED delivered
    \/ /\ ~refused(h) /\ ~withLength(h) /\ "chunked" \notin lines(h)
       /\ deliver("none", <<>>)

\* handleHeaders finds the header in the buffer.
LEMMA HeadersTaken ==
    ASSUME ReaderInv, handleHeaders
    PROVE  /\ Search(buf, CRLF \o CRLF) # 0
           /\ buf' = read_until(CRLF \o CRLF).rest /\ wire' = wire
           /\ HeadersDone(read_until(CRLF \o CRLF).bytes)
<1>1. completes("headers") /\ pending
  BY DEF handleHeaders, completes, pending
<1>2. PICK d : d = CRLF \o CRLF /\ d \in Tokens /\ Len(d) = 4
  BY Delimiters
<1>3. PICK r : r = read_until(d)
  OBVIOUS
<1>4. Search(buf, d) # 0
  BY <1>1, <1>2, Matches
<1>5. r.ready
  <2>1. Len(d) > 0
    BY <1>2
  <2> QED BY <1>2, <1>3, <1>4, <2>1, FoundInBuffer
<1>6. buf' = r.rest /\ wire' = wire /\ HeadersDone(r.bytes)
  BY <1>2, <1>3, <1>5 DEF handleHeaders, then, HeadersDone
<1> QED BY <1>2, <1>3, <1>4, <1>6

\* A header without a start line is refused.
LEMMA NoStartLineRefused ==
    ASSUME ReaderInv, NEW m \in Messages, m.lines # <<>>, m.lines[1] # "line",
           NEW t \in Tokens, NEW y \in Tokens, buf \o y = Wire(m) \o t,
           Search(buf, CRLF \o CRLF) # 0
    PROVE  refused(read_until(CRLF \o CRLF).bytes)
<1>1. PICK d : d = CRLF \o CRLF /\ d \in Tokens /\ Len(d) = 4
  BY Delimiters
<1>2. PICK p : p = Search(buf, d)
  OBVIOUS
<1>3. buf \in Seq(Token) /\ y \in Seq(Token) /\ Len(buf) \in Nat /\ buf \in Tokens
  BY DEF ReaderInv, Tokens
<1>4. p \in 1..(Len(buf) - 3) /\ p \in Nat
  <2>1. p = 0 \/ p \in 1..(Len(buf) - Len(d) + 1)
    BY <1>1, <1>2, <1>3, SearchRange
  <2>2. p # 0
    BY <1>1, <1>2
  <2> QED BY <1>1, <1>3, <2>1, <2>2
<1>5. PICK h : h = SubSeq(buf, 1, p - 1)
  OBVIOUS
<1>6. read_until(d).bytes = h
  <2>1. PICK b, r : /\ b \in BOOLEAN /\ b = (p # 0)
                    /\ r = IF p = 0 THEN buf ELSE SubSeq(buf, p + Len(d), Len(buf))
    OBVIOUS
  <2>2. read_until(d) = [ready |-> b, bytes |-> h, rest |-> r]
    BY <1>2, <1>5, <2>1 DEF read_until
  <2> QED BY <2>2
<1>7. buf[1] # "line"
  <2>1. Len(buf) > 0
    BY <1>3, <1>4
  <2>2. (buf \o y)[1] = buf[1]
    BY <1>3, <2>1, BeginsWith
  <2>3. (Wire(m) \o t)[1] # "line"
    BY NoStartLine
  <2> QED BY <2>2, <2>3
<1>8. startLine(h) # "line"
  <2>1. CASE h = <<>>
    BY <2>1 DEF startLine
  <2>2. CASE h # <<>>
    <3>1. p # 1
      BY <1>3, <1>5, <2>2
    <3>2. h[1] = buf[1]
      BY <1>3, <1>4, <1>5, <3>1
    <3> QED BY <1>7, <2>2, <3>2 DEF startLine
  <2> QED BY <2>1, <2>2
<1> QED BY <1>1, <1>6, <1>8 DEF refused

\* The outcome of a refused message.
LEMMA Refuses ==
    ASSUME NEW m, Malformed(m), NEW t, NEW z, deliver("protocol_error", <<>>)
    PROVE  Completed(m, t, z)
<1>1. Outcome(m) = Answer("protocol_error", <<>>)
  BY DEF Outcome
<1>2. op'.kind = "none"
  BY DEF deliver, NoOp
<1> QED BY <1>1, <1>2 DEF deliver, Completed

\* The outcome of a message that was read to its end.
LEMMA Completes ==
    ASSUME NEW m, ~Malformed(m), NEW t, NEW z, buf' \o (wire' \o z) = t,
           deliver("none", IF "gzip" \in Range(m.lines) THEN gzipInflate(DataOf(m)) ELSE DataOf(m))
    PROVE  Completed(m, t, z)
<1>1. PICK b : b = IF "gzip" \in Range(m.lines) THEN gzipInflate(DataOf(m)) ELSE DataOf(m)
  OBVIOUS
<1>2. Outcome(m) = Answer("none", b)
  BY <1>1, OutcomeProper
<1>3. delivered' = Append(delivered, Answer("none", b))
  BY <1>1 DEF deliver
<1>4. op'.kind = "none"
  BY DEF deliver, NoOp
<1> QED BY <1>2, <1>3, <1>4 DEF Completed

\* The reply that starts with the lines of a header.
LEMMA NewReply ==
    ASSUME NEW L, reply' = [NoReply EXCEPT !.lines = L]
    PROVE  reply' = [lines |-> L, body |-> reply'.body] /\ reply'.body = <<>>
BY DEF NoReply

\* ... and the one that goes on with more of the body.
LEMMA LongerReply ==
    ASSUME NEW m, Accepted(m), NEW b, reply' = [reply EXCEPT !.body = b]
    PROVE  Accepted(m)' /\ reply'.body = b
<1>1. PICK L, a : L = Range(m.lines) /\ a = reply.body
  OBVIOUS
<1>2. reply = [lines |-> L, body |-> a]
  BY <1>1 DEF Accepted
<1>3. reply' = [lines |-> L, body |-> b]
  BY <1>2
<1>4. reply'.body = b
  BY <1>3
<1> QED BY <1>1, <1>3, <1>4 DEF Accepted, ProperHeader

\* The lines of an accepted header.
LEMMA AcceptedLines ==
    ASSUME NEW m, Accepted(m)
    PROVE  reply.lines = Range(m.lines)
<1>1. PICK L, a : L = Range(m.lines) /\ a = reply.body
  OBVIOUS
<1>2. reply = [lines |-> L, body |-> a]
  BY <1>1 DEF Accepted
<1> QED BY <1>1, <1>2

\* The next read.
LEMMA NextRead ==
    ASSUME NEW kind, NEW need, asyncRead(kind, need)
    PROVE  op'.kind = kind /\ op'.need = need
BY DEF asyncRead

\* The header of m has been read.
LEMMA HeadersFollow ==
    ASSUME ReaderInv, handleHeaders, NEW m \in Messages, Framed(m),
           NEW t \in Tokens, NEW z \in Tokens, AtHead(m, t, z)
    PROVE  Onward(m, t, z)
<1>1. PICK d : d = CRLF \o CRLF /\ d \in Tokens /\ Len(d) = 4
  BY Delimiters
<1>2. Search(buf, d) # 0 /\ buf' = read_until(d).rest /\ wire' = wire /\ HeadersDone(read_until(d).bytes)
  BY <1>1, HeadersTaken
<1>3. PICK y : y = wire \o z /\ y \in Tokens
  BY Joined DEF ReaderInv
<1>4. buf \o y = Wire(m) \o t
  BY <1>3 DEF AtHead
<1>5. CASE m.lines[1] # "line"
  <2>1. refused(read_until(d).bytes)
    BY <1>1, <1>2, <1>3, <1>4, <1>5, NoStartLineRefused, Framing
  <2>2. deliver("protocol_error", <<>>)
    BY <1>2, <2>1 DEF HeadersDone
  <2>3. Malformed(m)
    BY <1>5 DEF Malformed
  <2> QED BY <2>2, <2>3, Refuses DEF Onward
<1>6. CASE m.lines[1] = "line"
  <2>1. PICK x : x = Body(m) \o t /\ x \in Tokens
    BY Joined, WireTyped
  <2>2. PICK h \in Tokens :
              /\ HeadOf(m) \o x = h \o ((CRLF \o CRLF) \o x)
              /\ FirstAt(h \o ((CRLF \o CRLF) \o x), CRLF \o CRLF, Len(h) + 1)
              /\ h # <<>> /\ h[1] = m.lines[1] /\ lines(h) = Range(m.lines)
    BY <1>6, <2>1, HeadInStream, Framing
  <2>3. buf \o y = h \o (d \o x)
    <3>1. Wire(m) \o t = HeadOf(m) \o x
      <4>1. PICK a \in Tokens : a = HeadOf(m)
        BY WireTyped
      <4>2. PICK b \in Tokens : b = Body(m)
        BY WireTyped
      <4>5. Three(Token, a, b, t)
        BY DEF Three, Tokens
      <4>3. (a \o b) \o t = a \o (b \o t)
        BY <4>5, Associates
      <4>4. Wire(m) = a \o b
        BY <4>1, <4>2, WireTyped
      <4> QED BY <2>1, <4>1, <4>2, <4>3, <4>4
    <3> QED BY <1>1, <1>4, <2>2, <3>1
  <2>4. read_until(d).bytes = h /\ read_until(d).rest \o y = x
    <3>1. Len(d) > 0 /\ d \in Tokens /\ x \in Tokens /\ y \in Tokens /\ h \in Tokens
      BY <1>1, <1>3, <2>1, <2>2
    <3>2. Delimited(h, d, x, y)
      BY <1>1, <1>2, <2>2, <2>3, <3>1 DEF Delimited
    <3> QED BY <3>2, UntilFound
  <2>5. buf' \o (wire' \o z) = x /\ HeadersDone(h)
    BY <1>2, <1>3, <2>4
  <2>6. startLine(h) = "line"
    BY <1>6, <2>2 DEF startLine
  <2>7. CASE "len?" \in Range(m.lines)
    <3>1. refused(h) /\ Malformed(m)
      BY <2>2, <2>7 DEF refused, Malformed
    <3>2. deliver("protocol_error", <<>>)
      BY <2>5, <3>1 DEF HeadersDone
    <3> QED BY <3>1, <3>2, Refuses DEF Onward
  <2>8. CASE "len?" \notin Range(m.lines)
    <3>1. ~refused(h) /\ ProperHeader(m)
      BY <1>6, <2>2, <2>6, <2>8 DEF refused, ProperHeader
    <3>2. withLength(h) <=> LengthsOf(m) # {}
      BY <2>2 DEF withLength, LengthsOf
    <3>3. "chunked" \in lines(h) <=> IsChunked(m)
      BY <2>2 DEF IsChunked
    <3>4. CASE IsChunked(m)
      <4>1. ChunksFit(m)
        BY <3>1, <3>4, Framing
      <4>2. asyncRead("size", 0) /\ reply' = [NoReply EXCEPT !.lines = lines(h)] /\ UNCHANGED delivered
        BY <2>5, <3>1, <3>2, <3>3, <3>4, <4>1 DEF HeadersDone, ChunksFit
      <4>3. 1 \in DOMAIN m.chunks /\ Len(m.chunks) \in Nat
        <5>1. m.chunks # <<>>
          BY <4>1 DEF ChunksFit
        <5>2. PICK R : m.chunks \in Seq(R)
          BY MessagesAssumption
        <5> QED BY <5>1, <5>2
      <4>4. op'.kind = "size" /\ Accepted(m)' /\ reply'.body = <<>>
        BY <2>2, <3>1, <4>2, NewReply, NextRead DEF Accepted, ProperHeader
      <4>5. reply'.body \in Tokens /\ reply'.body \o Rest(Datas(m), 1) = DataOf(m)
        <5>1. 1 \in 1..(Len(m.chunks) + 1)
          BY <4>3
        <5>2. Rest(Datas(m), 1) \in Tokens /\ Rest(Datas(m), 1) = DataOf(m)
          BY <5>1, ChunksLeft
        <5> QED BY <4>4, <5>2, Joined
      <4>6. SizesProper(m, 1 - 1)
        BY DEF SizesProper
      <4>7. buf' \o (wire' \o z) = Rest(Pieces(m), 1) \o t
        BY <2>1, <2>5, <3>4 DEF Body
      <4>8. AtSize(m, 1, t, z)'
        BY <3>4, <4>4, <4>5, <4>6, <4>7 DEF AtSize
      <4> QED BY <4>2, <4>3, <4>8 DEF Onward, Within
    <3>5. CASE ~IsChunked(m) /\ LengthsOf(m) # {}
      <4>1. LengthFits(m)
        BY <3>1, <3>5, Framing
      <4>2. PICK l \in lines(h) \cap DOMAIN Lengths :
               /\ asyncRead("body", Lengths[l])
               /\ reply' = [NoReply EXCEPT !.lines = lines(h)] /\ UNCHANGED delivered
        BY <2>5, <3>1, <3>2, <3>5 DEF HeadersDone
      <4>3. op'.kind = "body" /\ op'.need = Lengths[l] /\ Accepted(m)'
        BY <2>2, <3>1, <4>2, NewReply, NextRead DEF Accepted, ProperHeader
      <4>4. Lengths[l] = Len(DataOf(m))
        BY <2>2, <4>1, <4>2 DEF LengthFits, LengthsOf
      <4>5. buf' \o (wire' \o z) = DataOf(m) \o t
        BY <2>1, <2>5, <3>5 DEF Body
      <4>6. AtBody(m, t, z)'
        BY <3>5, <4>3, <4>4, <4>5 DEF AtBody
      <4> QED BY <4>2, <4>6 DEF Onward, Within
    <3>6. CASE ~IsChunked(m) /\ LengthsOf(m) = {}
      <4>1. DataOf(m) = <<>> /\ ~Malformed(m)
        BY <3>1, <3>6, Framing DEF LengthFits
      <4>2. deliver("none", <<>>)
        BY <2>5, <3>1, <3>2, <3>3, <3>6 DEF HeadersDone
      <4>3. buf' \o (wire' \o z) = t
        <5>1. x = <<>> \o t
          BY <2>1, <3>6, <4>1 DEF Body
        <5> QED BY <2>5, <5>1, Joined
      <4>4. deliver("none", IF "gzip" \in Range(m.lines) THEN gzipInflate(DataOf(m)) ELSE DataOf(m))
        BY <4>1, <4>2, InflateNothing
      <4> QED BY <4>1, <4>3, <4>4, Completes DEF Onward
    <3> QED BY <3>4, <3>5, <3>6
  <2> QED BY <2>7, <2>8
<1> QED BY <1>5, <1>6

\* The body of m has been read.
LEMMA BodyFollow ==
    ASSUME ReaderInv, bodyCompleted, NEW m \in Messages, Framed(m),
           NEW t \in Tokens, NEW z \in Tokens, AtBody(m, t, z)
    PROVE  Onward(m, t, z)
<1>1. completes("body") /\ pending /\ op.need \in Nat
  BY DEF bodyCompleted, completes, pending, ReaderInv, Op
<1>2. PICK a : a = DataOf(m) /\ a \in Tokens /\ op.need = Len(a)
  <2>1. 1 \in 1..(Len(m.chunks) + 1)
    BY MessageParts
  <2> QED BY <2>1, ChunksLeft DEF AtBody
<1>3. PICK y : y = wire \o z /\ y \in Tokens
  BY Joined DEF ReaderInv
<1>4. buf \o y = a \o t
  BY <1>2, <1>3 DEF AtBody
<1>5. Len(buf) >= op.need
  BY <1>1, Matches
<1>6. Len(a) <= Len(buf)
  BY <1>1, <1>2, <1>5 DEF ReaderInv, Tokens
<1>7. PICK r : r = read(op.need)
  OBVIOUS
<1>8. r.ready
  BY <1>1, <1>5, <1>7, EnoughInBuffer
<1>9. r.bytes = a /\ r.rest \o y = t
  <2>1. a \in Tokens /\ y \in Tokens
    BY <1>2, <1>3
  <2>2. read(Len(a)).bytes = a /\ read(Len(a)).rest \o y = t
    BY <1>4, <1>6, <2>1, ReadTakes
  <2> QED BY <1>2, <1>7, <2>2
<1>10. buf' = r.rest /\ wire' = wire /\ processReply(r.bytes)
  BY <1>7, <1>8 DEF bodyCompleted, then
<1>11. deliver("none", IF "gzip" \in Range(m.lines) THEN gzipInflate(DataOf(m)) ELSE DataOf(m))
  BY <1>2, <1>9, <1>10, AcceptedLines DEF processReply, AtBody
<1>12. ~Malformed(m)
  BY Framing DEF AtBody, Accepted
<1>13. buf' \o (wire' \o z) = t
  BY <1>3, <1>9, <1>10
<1> QED BY <1>11, <1>12, <1>13, Completes DEF Onward

\* Parts of the stream, named together so that the lemmas below are used for them only.
Parts(a, b, c) == a \in Tokens /\ b \in Tokens /\ c \in Tokens

\* Associates for them.
LEMMA Brackets ==
    ASSUME NEW a, NEW b, NEW c, Parts(a, b, c)
    PROVE  (a \o b) \o c = a \o (b \o c)
<1>1. Three(Token, a, b, c)
  BY DEF Parts, Three, Tokens
<1> QED BY <1>1, Associates

\* A chunk size s, the end of a line d, the data a and what follows.
ChunkParts(s, d, a, r, t) == Parts(s, d, a) /\ r \in Tokens /\ t \in Tokens

\* The stream from a chunk on, taken apart.
LEMMA Regroup ==
    ASSUME NEW s, NEW d, NEW a, NEW r, NEW t, ChunkParts(s, d, a, r, t)
    PROVE  /\ ((s \o (d \o (a \o d))) \o r) \o t = s \o (d \o (a \o (d \o (r \o t))))
           /\ r \o t \in Tokens /\ a \o (d \o (r \o t)) \in Tokens
<1>0. s \in Tokens /\ d \in Tokens /\ a \in Tokens /\ r \in Tokens /\ t \in Tokens
  BY DEF ChunkParts, Parts
<1>1. PICK e \in Tokens : e = r \o t
  BY <1>0, Joined
<1>2. PICK f \in Tokens : f = d \o e
  BY <1>0, <1>1, Joined
<1>3. PICK g \in Tokens : g = a \o f
  BY <1>0, <1>2, Joined
<1>4. PICK b \in Tokens : b = a \o d
  BY <1>0, Joined
<1>5. PICK c \in Tokens : c = d \o b
  BY <1>0, <1>4, Joined
<1>6. PICK k \in Tokens : k = s \o c
  BY <1>0, <1>5, Joined
<1>7. (k \o r) \o t = k \o e
  <2>1. Parts(k, r, t)
    BY <1>0, <1>6 DEF Parts
  <2> QED BY <1>1, <2>1, Brackets
<1>8. k \o e = s \o (c \o e)
  <2>1. Parts(s, c, e)
    BY <1>0, <1>1, <1>5 DEF Parts
  <2> QED BY <1>6, <2>1, Brackets
<1>9. c \o e = d \o (b \o e)
  <2>1. Parts(d, b, e)
    BY <1>0, <1>1, <1>4 DEF Parts
  <2> QED BY <1>5, <2>1, Brackets
<1>10. b \o e = a \o f
  <2>1. Parts(a, d, e)
    BY <1>0, <1>1 DEF Parts
  <2> QED BY <1>2, <1>4, <2>1, Brackets
<1>11. (k \o r) \o t = s \o (d \o g)
  BY <1>3, <1>7, <1>8, <1>9, <1>10
<1> QED BY <1>1, <1>2, <1>3, <1>4, <1>5, <1>6, <1>11

\* What is behind the size of the i-th chunk.
Behind(m, i, t) == m.chunks[i].data \o (CRLF \o (Rest(Pieces(m), i + 1) \o t))

\* The stream begins with the size of the next chunk.
LEMMA ChunkInStream ==
    ASSUME NEW m \in Messages, NEW i \in DOMAIN m.chunks, NEW t \in Tokens
    PROVE  /\ Rest(Pieces(m), i) \o t = <<m.chunks[i].size>> \o (CRLF \o Behind(m, i, t))
           /\ Behind(m, i, t) \in Tokens /\ Rest(Pieces(m), i + 1) \o t \in Tokens
<1>1. PICK x \in Token : x = m.chunks[i].size
  BY MessageParts
<1>2. PICK s \in Tokens : s = <<x>>
  BY <1>1, ShortSequences DEF Tokens
<1>3. PICK d \in Tokens : d = CRLF
  BY Delimiters
<1>4. PICK a \in Tokens : a = m.chunks[i].data
  BY MessageParts
<1>5. PICK r \in Tokens : r = Rest(Pieces(m), i + 1)
  <2>1. i + 1 \in 1..(Len(m.chunks) + 1)
    BY MessageParts
  <2> QED BY <2>1, ChunksLeft
<1>6. Rest(Pieces(m), i) = (s \o (d \o (a \o d))) \o r
  <2>1. Rest(Pieces(m), i) = Pieces(m)[i] \o r
    BY <1>5, ChunksLeft
  <2>2. Pieces(m)[i] = s \o (d \o (a \o d))
    BY <1>1, <1>2, <1>3, <1>4, PieceParts
  <2> QED BY <2>1, <2>2
<1>7. /\ ((s \o (d \o (a \o d))) \o r) \o t = s \o (d \o (a \o (d \o (r \o t))))
      /\ r \o t \in Tokens /\ a \o (d \o (r \o t)) \in Tokens
  <2>1. ChunkParts(s, d, a, r, t)
    BY <1>2, <1>3, <1>4, <1>5 DEF ChunkParts, Parts
  <2> QED BY <2>1, Regroup
<1>8. Behind(m, i, t) = a \o (d \o (r \o t))
  BY <1>3, <1>4, <1>5 DEF Behind
<1> QED BY <1>1, <1>2, <1>3, <1>5, <1>6, <1>7, <1>8

\* The line of a chunk size ends behind it.
LEMMA SizeEnds ==
    ASSUME NEW x \in Token, x # "r", NEW y \in Tokens
    PROVE  /\ <<x>> \in Tokens /\ Len(<<x>>) = 1
           /\ FirstAt(<<x>> \o (CRLF \o y), CRLF, 2)
           /\ <<x>> \o (CRLF \o y) \in Tokens /\ Len(<<x>> \o (CRLF \o y)) >= 3
<1>1. PICK d : d = CRLF /\ d \in Seq(Token) /\ Len(d) = 2 /\ d[1] = "r" /\ d[2] = "n"
  BY Delimiters, DelimiterTokens DEF Tokens
<1>2. PICK s : s = <<x>> /\ s \in Seq(Token) /\ Len(s) = 1 /\ s[1] = x
  <2>1. <<x>> \in Seq(Token) /\ Len(<<x>>) = 1 /\ <<x>>[1] = x
    OBVIOUS
  <2> QED BY <2>1
<1>3. PICK e : e = d \o y
  OBVIOUS
<1>4. e \in Seq(Token) /\ Glued(e, d, y, 2)
  <2>1. y \in Seq(Token)
    BY DEF Tokens
  <2> QED BY <1>1, <1>3, <2>1, Glue
<1>5. Len(e) \in Nat /\ Len(e) >= 2 /\ e[1] = "r" /\ e[2] = "n"
  <2>1. Len(e) = 2 + Len(y) /\ \A i \in 1..2 : e[i] = d[i]
    BY <1>4 DEF Glued
  <2>2. Len(y) \in Nat /\ 1 \in 1..2 /\ 2 \in 1..2
    BY DEF Tokens
  <2> QED BY <1>1, <2>1, <2>2
<1>6. PICK w : w = s \o e
  OBVIOUS
<1>7. w \in Seq(Token) /\ Glued(w, s, e, 1)
  BY <1>2, <1>4, <1>6, Glue
<1>8. Len(w) \in Nat /\ Len(w) >= 3 /\ w[1] = x /\ w[2] = "r" /\ w[3] = "n"
  <2>1. Len(w) = 1 + Len(e) /\ (\A i \in 1..1 : w[i] = s[i]) /\ \A i \in 1..Len(e) : w[1 + i] = e[i]
    BY <1>7 DEF Glued
  <2>2. 1 \in 1..1 /\ 1 \in 1..Len(e) /\ 2 \in 1..Len(e) /\ 1 + 1 = 2 /\ 1 + 2 = 3
    BY <1>5
  <2>3. w[1] = s[1] /\ w[1 + 1] = e[1] /\ w[1 + 2] = e[2]
    BY <2>1, <2>2
  <2> QED BY <1>2, <1>5, <2>1, <2>2, <2>3
<1>9. w \in Tokens
  BY <1>7 DEF Tokens
<1>10. Occurs(w, CRLF, 2)
  <2>1. 2 \in 1..(Len(w) - 1) /\ 2 + 1 = 3 /\ 2 \in Nat
    BY <1>8
  <2> QED BY <1>8, <1>9, <2>1, OccursLineEnd
<1>11. ASSUME NEW j \in Nat, Occurs(w, CRLF, j)
       PROVE  2 <= j
  <2>1. j \in 1..(Len(w) - 1) /\ w[j] = "r"
    BY <1>9, <1>11, OccursLineEnd
  <2>2. j # 1
    BY <1>8, <2>1
  <2> QED BY <2>1, <2>2
<1>12. FirstAt(w, CRLF, 2)
  BY <1>10, <1>11 DEF FirstAt
<1>13. s \in Tokens
  BY <1>2 DEF Tokens
<1> QED BY <1>1, <1>2, <1>3, <1>6, <1>8, <1>9, <1>12, <1>13

\* The size of a chunk of m has been read.
LEMMA SizeFollow ==
    ASSUME ReaderInv, startProcessChunk, NEW m \in Messages, Framed(m), NEW i \in DOMAIN m.chunks,
           NEW t \in Tokens, NEW z \in Tokens, AtSize(m, i, t, z)
    PROVE  Onward(m, t, z)
<1>1. completes("size") /\ pending
  BY DEF startProcessChunk, completes, pending
<1>2. PICK d : d = CRLF /\ d \in Tokens /\ Len(d) = 2
  BY Delimiters
<1>3. PICK y : y = wire \o z /\ y \in Tokens
  BY Joined DEF ReaderInv
<1>4. PICK s \in Token : s = m.chunks[i].size
  BY MessageParts
<1>5. PICK x : x = Behind(m, i, t) /\ x \in Tokens /\ Rest(Pieces(m), i) \o t = <<s>> \o (d \o x)
  <2>1. Rest(Pieces(m), i) \o t = <<m.chunks[i].size>> \o (CRLF \o Behind(m, i, t))
    BY ChunkInStream
  <2>2. Behind(m, i, t) \in Tokens
    BY ChunkInStream
  <2>3. PICK x : x = Behind(m, i, t)
    OBVIOUS
  <2>4. x \in Tokens /\ Rest(Pieces(m), i) \o t = <<s>> \o (d \o x)
    BY <1>2, <1>4, <2>1, <2>2, <2>3
  <2> QED BY <2>3, <2>4
<1>6. ChunksFit(m) /\ s # "r" /\ i \in 1..Len(m.chunks)
  <2>1. ChunksFit(m)
    BY Framing DEF AtSize, Accepted
  <2> QED BY <1>4, <2>1, MessageParts DEF ChunksFit
<1>7. PICK h : h = <<s>> /\ h \in Tokens /\ Len(h) = 1 /\ FirstAt(h \o (d \o x), d, 2)
  BY <1>2, <1>4, <1>5, <1>6, SizeEnds
<1>8. Search(buf, d) # 0
  BY <1>1, <1>2, Matches
<1>9. Delimited(h, d, x, y)
  <2>1. buf \o y = h \o (d \o x)
    BY <1>3, <1>5, <1>7 DEF AtSize
  <2>2. Len(h) + 1 = 2 /\ Len(d) > 0
    BY <1>2, <1>7
  <2>3. FirstAt(h \o (d \o x), d, Len(h) + 1)
    BY <1>7, <2>2
  <2> QED BY <1>2, <1>3, <1>5, <1>7, <1>8, <2>1, <2>2, <2>3 DEF Delimited
<1>10. PICK r : r = read_until(d)
  OBVIOUS
<1>11. r.bytes = h /\ r.rest \o y = x
  BY <1>9, <1>10, UntilFound
<1>12. r.ready
  <2>1. Len(d) > 0
    BY <1>2
  <2> QED BY <1>2, <1>8, <1>10, <2>1, FoundInBuffer
<1>13. Len(r.bytes) = 1 /\ r.bytes[1] = s
  BY <1>7, <1>11
<1>14. /\ buf' = r.rest /\ wire' = wire
       /\ \/ s \in DOMAIN Sizes /\ asyncRead("chunk", Sizes[s]) /\ UNCHANGED <<reply, delivered>>
          \/ s \notin DOMAIN Sizes /\ deliver("protocol_error", <<>>)
  BY <1>2, <1>10, <1>12, <1>13 DEF startProcessChunk, then
<1>15. CASE s \notin DOMAIN Sizes
  <2>1. Malformed(m)
    BY <1>4, <1>15 DEF Malformed, AtSize
  <2>2. deliver("protocol_error", <<>>)
    BY <1>14, <1>15
  <2> QED BY <2>1, <2>2, Refuses DEF Onward
<1>16. CASE s \in DOMAIN Sizes
  <2>1. asyncRead("chunk", Sizes[s]) /\ UNCHANGED <<reply, delivered>>
    BY <1>14, <1>16
  <2>2. op'.kind = "chunk" /\ op'.need = Len(m.chunks[i].data)
    <3>1. Sizes[s] = Len(m.chunks[i].data)
      BY <1>4, <1>6, <1>16 DEF ChunksFit
    <3> QED BY <2>1, <3>1, NextRead
  <2>3. SizesProper(m, i)
    <3>1. SizesProper(m, i - 1)
      BY DEF AtSize
    <3>2. \A j \in 1..i : j \in 1..(i - 1) \/ j = i
      BY <1>6
    <3> QED BY <1>4, <1>16, <3>1, <3>2 DEF SizesProper
  <2>4. buf' \o (wire' \o z) = Behind(m, i, t)
    BY <1>3, <1>5, <1>11, <1>14
  <2>5. AtChunk(m, i, t, z)'
    BY <2>1, <2>2, <2>3, <2>4 DEF AtSize, AtChunk, Accepted, ProperHeader, Behind
  <2> QED BY <2>1, <2>5 DEF Onward, Within
<1> QED BY <1>15, <1>16

\* A chunk of m has been read.
LEMMA ChunkFollow ==
    ASSUME ReaderInv, processChunk, NEW m \in Messages, Framed(m), NEW i \in DOMAIN m.chunks,
           NEW t \in Tokens, NEW z \in Tokens, AtChunk(m, i, t, z)
    PROVE  Onward(m, t, z)
<1>1. completes("chunk") /\ pending /\ op.need \in Nat
  BY DEF processChunk, completes, pending, ReaderInv, Op
<1>2. PICK d \in Tokens : d = CRLF /\ Len(d) = 2
  BY Delimiters
<1>3. PICK y : y = wire \o z /\ y \in Tokens
  BY Joined DEF ReaderInv
<1>4. PICK a \in Tokens : a = m.chunks[i].data
  BY MessageParts
<1>5. PICK e \in Tokens : e = Rest(Pieces(m), i + 1) \o t
  BY ChunkInStream
<1>6. op.need = Len(a)
  BY <1>4 DEF AtChunk
<1>7. PICK c \in Tokens : c = a \o d /\ Len(c) = op.need + 2
  <2>1. a \in Seq(Token) /\ d \in Seq(Token)
    BY <1>2, <1>4 DEF Tokens
  <2>2. a \o d \in Seq(Token) /\ Len(a \o d) = Len(a) + Len(d)
    BY <2>1, ConcatProperties
  <2> QED BY <1>2, <1>6, <2>2 DEF Tokens
<1>8. buf \o y = c \o e
  <2>1. buf \o y = a \o (d \o e)
    BY <1>2, <1>3, <1>4, <1>5 DEF AtChunk
  <2>2. Parts(a, d, e)
    BY <1>2, <1>4, <1>5 DEF Parts
  <2> QED BY <1>7, <2>1, <2>2, Brackets
<1>9. Len(buf) >= op.need + 2 /\ Len(c) <= Len(buf)
  <2>1. Len(buf) >= op.need + 2
    BY <1>1, Matches
  <2> QED BY <1>1, <1>7, <2>1 DEF ReaderInv, Tokens
<1>10. PICK r : r = read(op.need + 2)
  OBVIOUS
<1>11. r.ready
  <2>1. op.need + 2 \in Nat
    BY <1>1
  <2> QED BY <1>9, <1>10, <2>1, EnoughInBuffer
<1>12. r.bytes = c /\ r.rest \o y = e
  <2>1. c \in Tokens /\ y \in Tokens /\ e \in Tokens
    BY <1>3, <1>5, <1>7
  <2>2. read(Len(c)).bytes = c /\ read(Len(c)).rest \o y = e
    BY <1>8, <1>9, <2>1, ReadTakes
  <2> QED BY <1>7, <1>10, <2>2
<1>13. PICK taken, body :
          /\ taken = IF op.need < Len(r.bytes) THEN op.need ELSE Len(r.bytes)
          /\ body = reply.body \o SubSeq(r.bytes, 1, taken)
  OBVIOUS
<1>14. body = reply.body \o a
  <2>1. taken = Len(a)
    BY <1>1, <1>6, <1>7, <1>12, <1>13
  <2>2. SubSeq(c, 1, Len(a)) = a
    <3>1. a \in Seq(Token) /\ d \in Seq(Token) /\ c \in Seq(Token) /\ <<>> \in Seq(Token)
      BY <1>2, <1>4, <1>7 DEF Tokens
    <3>2. c \o <<>> = a \o d
      BY <1>7, <3>1, ConcatEmptySeq
    <3>3. Len(a) <= Len(c)
      BY <1>1, <1>6, <1>7
    <3> QED BY <3>1, <3>2, <3>3, TakesFirst
  <2> QED BY <1>12, <1>13, <2>1, <2>2
<1>15. /\ buf' = r.rest /\ wire' = wire
       /\ \/ op.need = 0 /\ processReply(body)
          \/ op.need # 0 /\ asyncRead("size", 0) /\ reply' = [reply EXCEPT !.body = body] /\ UNCHANGED delivered
  BY <1>10, <1>11, <1>13 DEF processChunk, then
<1>16. buf' \o (wire' \o z) = e
  BY <1>3, <1>12, <1>15
<1>17. ChunksFit(m) /\ (a = <<>> <=> i = Len(m.chunks)) /\ i \in 1..Len(m.chunks)
  <2>1. ChunksFit(m)
    BY Framing DEF AtChunk, Accepted
  <2>2. i \in 1..Len(m.chunks) /\ Len(m.chunks) \in Nat
    BY MessageParts
  <2>3. m.chunks[i].size \in DOMAIN Sizes
    <3>1. i \in 1..i
      BY <2>2
    <3> QED BY <3>1 DEF AtChunk, SizesProper
  <2> QED BY <1>4, <2>1, <2>2, <2>3 DEF ChunksFit
<1>18. op.need = 0 <=> a = <<>>
  BY <1>4, <1>6 DEF Tokens
<1>19. PICK b \in Tokens : b = reply.body /\ b \o Rest(Datas(m), i) = DataOf(m)
  BY DEF AtChunk
<1>20. PICK k \in Tokens : k = Rest(Datas(m), i + 1)
  <2>1. i + 1 \in 1..(Len(m.chunks) + 1)
    BY <1>17
  <2> QED BY <2>1, ChunksLeft
<1>21. (b \o a) \o k = DataOf(m) /\ b \o a \in Tokens
  <2>1. Rest(Datas(m), i) = a \o k
    BY <1>4, <1>20, ChunksLeft
  <2>2. Parts(b, a, k)
    BY <1>4, <1>19, <1>20 DEF Parts
  <2>3. b \o a \in Tokens
    BY <1>4, <1>19, Joined
  <2>4. (b \o a) \o k = b \o (a \o k)
    BY <2>2, Brackets
  <2>5. b \o (a \o k) = DataOf(m)
    BY <1>19, <2>1
  <2> QED BY <2>3, <2>4, <2>5
<1>22. CASE op.need = 0
  <2>1. i = Len(m.chunks)
    BY <1>17, <1>18, <1>22
  <2>2. k = <<>> /\ e = <<>> \o t
    BY <1>5, <1>20, <2>1, ChunksLeft
  <2>3. body = DataOf(m)
    BY <1>14, <1>19, <1>21, <2>2, Joined
  <2>4. buf' \o (wire' \o z) = t
    BY <1>16, <2>2, Joined
  <2>5. processReply(body)
    BY <1>15, <1>22
  <2>6. deliver("none", IF "gzip" \in Range(m.lines) THEN gzipInflate(DataOf(m)) ELSE DataOf(m))
    BY <2>3, <2>5, AcceptedLines DEF processReply, AtChunk
  <2>7. ~Malformed(m)
    <3>1. \A j \in DOMAIN m.chunks : m.chunks[j].size \in DOMAIN Sizes
      BY <2>1, MessageParts DEF AtChunk, SizesProper
    <3> QED BY <3>1 DEF Malformed, AtChunk, Accepted, ProperHeader
  <2> QED BY <2>4, <2>6, <2>7, Completes DEF Onward
<1>23. CASE op.need # 0
  <2>1. asyncRead("size", 0) /\ reply' = [reply EXCEPT !.body = body] /\ UNCHANGED delivered
    BY <1>15, <1>23
  <2>2. PICK n : n = i + 1 /\ n \in DOMAIN m.chunks /\ n - 1 = i
    <3>1. i # Len(m.chunks)
      BY <1>17, <1>18, <1>23
    <3> QED BY <1>17, <3>1, MessageParts
  <2>3. op'.kind = "size"
    BY <2>1, NextRead
  <2>4. Accepted(m)' /\ reply'.body = b \o a
    BY <1>14, <1>19, <2>1, LongerReply DEF AtChunk
  <2>5. AtSize(m, n, t, z)'
    BY <1>5, <1>16, <1>20, <1>21, <2>2, <2>3, <2>4 DEF AtSize, AtChunk
  <2> QED BY <2>1, <2>2, <2>5 DEF Onward, Within
<1> QED BY <1>22, <1>23

\* The socket returns a piece: the stream is what it was.
LEMMA PieceFollow ==
    ASSUME ReaderInv, readSome, NEW m \in Messages, NEW t \in Tokens, NEW z \in Tokens, Within(m, t, z)
    PROVE  Within(m, t, z)' /\ delivered' = delivered
<1>1. PICK n \in 1..MaxPiece : /\ n <= Len(wire) /\ buf' = buf \o SubSeq(wire, 1, n)
                               /\ wire' = SubSeq(wire, n + 1, Len(wire))
  BY DEF readSome
<1>2. /\ wire \in Seq(Token) /\ buf \in Seq(Token) /\ z \in Seq(Token)
      /\ Len(wire) \in Nat /\ n \in 1..Len(wire)
  BY <1>1, ReaderAssumption DEF ReaderInv, Tokens
<1>3. PICK a, b : a = SubSeq(wire, 1, n) /\ b = SubSeq(wire, n + 1, Len(wire))
  OBVIOUS
<1>4. a \in Seq(Token) /\ b \in Seq(Token)
  BY <1>2, <1>3
<1>5. wire = a \o b
  BY <1>2, <1>3
<1>6. buf' \o (wire' \o z) = buf \o (wire \o z)
  <2>1. Parts(a, b, z)
    BY <1>2, <1>4 DEF Parts, Tokens
  <2>2. PICK c \in Tokens : c = b \o z
    BY <1>2, <1>4, Joined DEF Tokens
  <2>3. Parts(buf, a, c)
    BY <1>2, <1>4, <2>2 DEF Parts, Tokens
  <2>4. wire \o z = a \o c
    BY <1>5, <2>1, <2>2, Brackets
  <2>5. (buf \o a) \o c = buf \o (a \o c)
    BY <2>3, Brackets
  <2> QED BY <1>1, <1>3, <2>2, <2>4, <2>5
<1>7. op'.kind = op.kind /\ op'.need = op.need /\ reply' = reply /\ delivered' = delivered
  BY DEF readSome, ReaderInv, Op
<1>8. CASE AtHead(m, t, z)
  BY <1>6, <1>7, <1>8 DEF AtHead, Within
<1>9. CASE AtBody(m, t, z)
  <2>1. AtBody(m, t, z)'
    BY <1>6, <1>7, <1>9 DEF AtBody, Accepted, ProperHeader
  <2> QED BY <1>7, <2>1 DEF Within
<1>10. ASSUME NEW i \in DOMAIN m.chunks, AtSize(m, i, t, z)
       PROVE  Within(m, t, z)' /\ delivered' = delivered
  <2>1. AtSize(m, i, t, z)'
    BY <1>6, <1>7, <1>10 DEF AtSize, Accepted, ProperHeader, SizesProper
  <2> QED BY <1>7, <2>1 DEF Within
<1>11. ASSUME NEW i \in DOMAIN m.chunks, AtChunk(m, i, t, z)
       PROVE  Within(m, t, z)' /\ delivered' = delivered
  <2>1. AtChunk(m, i, t, z)'
    BY <1>6, <1>7, <1>11 DEF AtChunk, Accepted, ProperHeader, SizesProper
  <2> QED BY <1>7, <2>1 DEF Within
<1> QED BY <1>8, <1>9, <1>10, <1>11 DEF Within

\* A handler that runs inside of m goes on with m, or calls the handler of asyncResponse.
LEMMA HandlerFollows ==
    ASSUME ReaderInv, handleHeaders \/ bodyCompleted \/ startProcessChunk \/ processChunk,
           NEW m \in Messages, Framed(m), NEW t \in Tokens, NEW z \in Tokens, Within(m, t, z)
    PROVE  Onward(m, t, z)
<1>1. CASE handleHeaders
  <2>1. AtHead(m, t, z)
    BY <1>1 DEF handleHeaders, completes, Within, AtHead, AtBody, AtSize, AtChunk
  <2> QED BY <1>1, <2>1, HeadersFollow
<1>2. CASE bodyCompleted
  <2>1. AtBody(m, t, z)
    BY <1>2 DEF bodyCompleted, completes, Within, AtHead, AtBody, AtSize, AtChunk
  <2> QED BY <1>2, <2>1, BodyFollow
<1>3. CASE startProcessChunk
  <2>1. PICK i \in DOMAIN m.chunks : AtSize(m, i, t, z)
    BY <1>3 DEF startProcessChunk, completes, Within, AtHead, AtBody, AtSize, AtChunk
  <2> QED BY <1>3, <2>1, SizeFollow
<1>4. CASE processChunk
  <2>1. PICK i \in DOMAIN m.chunks : AtChunk(m, i, t, z)
    BY <1>4 DEF processChunk, completes, Within, AtHead, AtBody, AtSize, AtChunk
  <2> QED BY <1>4, <2>1, ChunkFollow
<1> QED BY <1>1, <1>2, <1>3, <1>4
--------------------------------------------------------------------------------
(* The end of the stream *)

\* std::search finds a delimiter that is there.
LEMMA FoundBehind ==
    ASSUME NEW a \in Tokens, NEW d \in Tokens, NEW b \in Tokens, Len(d) > 0
    PROVE  Search(a \o (d \o b), d) # 0
<1>1. /\ a \in Seq(Token) /\ d \in Seq(Token) /\ b \in Seq(Token) /\ <<>> \in Seq(Token)
      /\ Len(a) \in Nat /\ Len(d) \in Nat
  BY DEF Tokens
<1>2. PICK c : c = a \o d
  OBVIOUS
<1>3. c \in Seq(Token) /\ Len(c) = Len(a) + Len(d) /\ c \o <<>> = c
  <2>1. c \in Seq(Token) /\ Len(c) = Len(a) + Len(d)
    BY <1>1, <1>2, ConcatProperties
  <2> QED BY <2>1, ConcatEmptySeq
<1>4. PICK i \in Nat : i = Len(a) + 1
  BY <1>1
<1>5. SubSeq(c, i, Len(c)) = d
  <2>1. c \o <<>> = a \o d /\ Len(a) <= Len(c)
    BY <1>1, <1>2, <1>3
  <2>2. SubSeq(c, Len(a) + 1, Len(c)) \o <<>> = d
    BY <1>1, <1>3, <2>1, TakesFirst
  <2>3. PICK v : v = SubSeq(c, i, Len(c))
    OBVIOUS
  <2>4. v \in Seq(Token)
    BY <1>1, <1>3, <1>4, <2>3
  <2>5. v \o <<>> = v
    BY <2>4, ConcatEmptySeq
  <2> QED BY <1>4, <2>2, <2>3, <2>5
<1>6. Occurs(c, d, i)
  <2>1. i \in 1..(Len(c) - Len(d) + 1) /\ i + Len(d) - 1 = Len(c)
    BY <1>1, <1>3, <1>4
  <2> QED BY <1>5, <2>1 DEF Occurs
<1>7. PICK s : s = c \o b /\ s \in Tokens
  <2>1. c \o b \in Seq(Token)
    BY <1>1, <1>3
  <2> QED BY <2>1 DEF Tokens
<1>8. Occurs(s, d, i)
  <2>1. i + Len(d) - 1 <= Len(c) /\ c \in Tokens
    BY <1>1, <1>3, <1>4 DEF Tokens
  <2> QED BY <1>6, <1>7, <2>1, OccursInStream
<1>9. Search(s, d) # 0
  BY <1>7, <1>8, SearchFirst
<1>11. Three(Token, a, d, b)
  BY <1>1 DEF Three
<1>10. s = a \o (d \o b)
  BY <1>2, <1>7, <1>11, Associates
<1> QED BY <1>9, <1>10

\* A header ends with an empty line, also one whose lines are not lines.
LEMMA HeadClosed ==
    ASSUME NEW m \in Messages, m.lines # <<>>
    PROVE  \E a \in Tokens : HeadOf(m) = a \o (CRLF \o CRLF)
<1>1. PICK L : L = m.lines
  OBVIOUS
<1>2. L \in Seq(Token) /\ Len(L) \in Nat /\ Len(L) # 0
  <2>1. L \in Seq(Token) /\ L # <<>>
    BY <1>1, MessageParts
  <2> QED BY <2>1
<1>3. PICK d \in Tokens : d = CRLF
  BY Delimiters
<1>4. PICK H : H = HeadLines(m)
  OBVIOUS
<1>5. H \in Seq(Seq(Token)) /\ DOMAIN H = DOMAIN L /\ Len(H) = Len(L)
  <2>1. H \in Seq(Tokens)
    BY <1>4, HeadTyped
  <2>2. DOMAIN H = DOMAIN L
    BY <1>1, <1>4 DEF HeadLines
  <2>3. Len(H) = Len(L)
    BY <1>2, <2>1, <2>2
  <2> QED BY <2>1, <2>2, <2>3 DEF Tokens
<1>6. PICK N \in Nat \ {0} : N = Len(H)
  BY <1>2, <1>5
<1>7. PICK e \in Tokens : H[N] = e \o d
  <2>1. N \in DOMAIN L
    BY <1>2, <1>5, <1>6
  <2>2. PICK l \in Token : l = L[N]
    BY <1>2, <2>1
  <2>3. <<l>> \in Tokens /\ <<>> \in Tokens
    BY ShortSequences DEF Tokens
  <2>4. H[N] = <<l>> \o d \/ H[N] = <<>> \o d
    BY <1>1, <1>3, <1>4, <2>1, <2>2, LineOrEmpty
  <2> QED BY <2>3, <2>4
<1>8. PICK f : Joins(f, H, N) /\ FlattenSeq(H) = f[N]
  BY <1>6, FlattenJoins
<1>9. \A i \in 1..N : f[i] \in Seq(Token)
  BY <1>5, <1>6, <1>8, JoinsTyped
<1>10. PICK a \in Tokens : f[N] = a \o d
  <2>4. N \in 1..N
    BY <1>6
  <2>1. f[N] = IF N = 1 THEN H[N] ELSE f[N - 1] \o H[N]
    BY <1>8, <2>4 DEF Joins
  <2>2. CASE N = 1
    BY <1>7, <2>1, <2>2
  <2>3. CASE N # 1
    <3>1. PICK k : k = f[N - 1] /\ k \in Tokens
      <4>1. N - 1 \in 1..N
        BY <1>6, <2>3
      <4> QED BY <1>9, <4>1 DEF Tokens
    <3>2. f[N] = k \o (e \o d)
      BY <1>7, <2>1, <2>3, <3>1
    <3>3. Parts(k, e, d)
      BY <1>3, <1>7, <3>1 DEF Parts
    <3>4. f[N] = (k \o e) \o d
      BY <3>2, <3>3, Brackets
    <3>5. k \o e \in Tokens
      BY <1>7, <3>1, Joined
    <3> QED BY <3>4, <3>5
  <2> QED BY <2>2, <2>3
<1>11. HeadOf(m) = (a \o d) \o d
  BY <1>3, <1>4, <1>8, <1>10, HeadTyped
<1>12. Parts(a, d, d)
  BY <1>3, <1>10 DEF Parts
<1>13. (a \o d) \o d = a \o (d \o d)
  BY <1>12, Brackets
<1> QED BY <1>3, <1>10, <1>11, <1>13, Zenon

\* Once all of a message has arrived, the reader does not wait for more of it.
LEMMA WholeNotAwaited ==
    ASSUME ReaderInv, Awaits, wire = <<>>, NEW m \in Messages, Framed(m),
           NEW t \in Tokens, Within(m, t, <<>>)
    PROVE  FALSE
<1>1. buf \in Tokens /\ buf \o (wire \o <<>>) = buf
  <2>1. buf \in Seq(Token) /\ <<>> \in Seq(Token)
    BY DEF ReaderInv, Tokens
  <2>2. <<>> \o <<>> = <<>> /\ buf \o <<>> = buf
    BY <2>1, ConcatEmptySeq
  <2> QED BY <2>1, <2>2 DEF Tokens
<1>2. CASE AtHead(m, t, <<>>)
  <2>1. PICK d \in Tokens : d = CRLF \o CRLF /\ Len(d) > 0
    <3>1. PICK d : d = CRLF \o CRLF /\ d \in Tokens /\ Len(d) = 4
      BY Delimiters
    <3>2. Len(d) > 0
      BY <3>1
    <3> QED BY <3>1, <3>2, Zenon
  <2>2. PICK a \in Tokens : HeadOf(m) = a \o d
    BY <2>1, HeadClosed, Framing
  <2>3. PICK b \in Tokens : b = Body(m)
    BY WireTyped
  <2>4. PICK c \in Tokens : c = b \o t
    BY <2>3, Joined
  <2>5. PICK g \in Tokens : g = a \o d
    BY <2>1, <2>2, Joined
  <2>6. Wire(m) \o t = g \o c
    <3>1. Parts(g, b, t)
      BY <2>3, <2>5 DEF Parts
    <3>2. Wire(m) = g \o b
      BY <2>2, <2>3, <2>5, WireTyped
    <3> QED BY <2>4, <3>1, <3>2, Brackets
  <2>7. g \o c = a \o (d \o c)
    <3>1. Parts(a, d, c)
      BY <2>1, <2>2, <2>4 DEF Parts
    <3> QED BY <2>5, <3>1, Brackets
  <2>8. buf = a \o (d \o c)
    BY <1>1, <1>2, <2>6, <2>7 DEF AtHead
  <2>9. Search(buf, d) # 0
    BY <2>1, <2>2, <2>4, <2>8, FoundBehind
  <2> QED BY <1>2, <2>1, <2>9 DEF AtHead, Awaits
<1>3. CASE AtBody(m, t, <<>>)
  <2>1. PICK a : a = DataOf(m) /\ a \in Seq(Token)
    <3>1. 1 \in 1..(Len(m.chunks) + 1)
      BY MessageParts
    <3> QED BY <3>1, ChunksLeft DEF Tokens
  <2>2. t \in Seq(Token) /\ Len(t) \in Nat /\ Len(a) \in Nat
    BY <2>1 DEF Tokens
  <2>3. buf = a \o t
    BY <1>1, <1>3, <2>1 DEF AtBody
  <2>4. Len(buf) = Len(a) + Len(t)
    BY <2>1, <2>2, <2>3, ConcatProperties
  <2>5. Len(buf) < Len(a)
    BY <1>3, <2>1 DEF AtBody, Awaits
  <2> QED BY <2>2, <2>4, <2>5
<1>4. ASSUME NEW i \in DOMAIN m.chunks, AtSize(m, i, t, <<>>)
      PROVE  FALSE
  <2>1. PICK d \in Tokens : d = CRLF /\ Len(d) > 0
    BY Delimiters
  <2>2. PICK s \in Token : s = m.chunks[i].size
    BY MessageParts
  <2>3. PICK a \in Tokens : a = <<s>>
    BY ShortSequences DEF Tokens
  <2>4. PICK x \in Tokens : x = Behind(m, i, t)
    BY ChunkInStream
  <2>5. Rest(Pieces(m), i) \o t = a \o (d \o x)
    BY <2>1, <2>2, <2>3, <2>4, ChunkInStream
  <2>6. buf = a \o (d \o x)
    BY <1>1, <1>4, <2>5 DEF AtSize
  <2>7. Search(buf, d) # 0
    BY <2>1, <2>3, <2>4, <2>6, FoundBehind
  <2> QED BY <1>4, <2>1, <2>7 DEF AtSize, Awaits
<1>5. ASSUME NEW i \in DOMAIN m.chunks, AtChunk(m, i, t, <<>>)
      PROVE  FALSE
  <2>1. PICK d : d = CRLF /\ d \in Seq(Token) /\ Len(d) = 2
    BY Delimiters DEF Tokens
  <2>2. PICK a : a = m.chunks[i].data /\ a \in Seq(Token) /\ Len(a) \in Nat
    BY MessageParts DEF Tokens
  <2>3. PICK e : e = Rest(Pieces(m), i + 1) \o t /\ e \in Seq(Token) /\ Len(e) \in Nat
    <3>1. PICK e \in Tokens : e = Rest(Pieces(m), i + 1) \o t
      BY ChunkInStream
    <3>2. e \in Seq(Token)
      BY <3>1 DEF Tokens
    <3>3. Len(e) \in Nat
      BY <3>2
    <3> QED BY <3>1, <3>2, <3>3
  <2>4. buf = a \o (d \o e)
    BY <1>1, <1>5, <2>1, <2>2, <2>3 DEF AtChunk
  <2>5. PICK f : f = d \o e /\ f \in Seq(Token) /\ Len(f) = 2 + Len(e)
    <3>1. d \o e \in Seq(Token) /\ Len(d \o e) = Len(d) + Len(e)
      BY <2>1, <2>3, ConcatProperties
    <3> QED BY <2>1, <3>1
  <2>6. Len(buf) = Len(a) + Len(f)
    BY <2>2, <2>4, <2>5, ConcatProperties
  <2>7. Len(buf) < Len(a) + 2
    BY <1>5, <2>2 DEF AtChunk, Awaits
  <2>8. PICK n, k : n = Len(a) /\ k = Len(e) /\ n \in Nat /\ k \in Nat
    BY <2>2, <2>3
  <2>9. Len(buf) = n + (2 + k) /\ Len(buf) < n + 2
    BY <2>5, <2>6, <2>7, <2>8
  <2> QED BY <2>8, <2>9
<1> QED BY <1>2, <1>3, <1>4, <1>5 DEF Within
--------------------------------------------------------------------------------
(* From message to message *)

\* What the peer sends behind the first k messages; b is the beginning it leaves off at.
Wires(ms) == [i \in DOMAIN ms |-> Wire(ms[i])]
After(ms, k, b) == Rest(Wires(ms), k + 1) \o b
LeftOff == {<<>>} \cup (IF closes THEN Beginnings ELSE {})

\* The handler was called with the outcomes of the first k messages, ...
Answered(k) ==
    /\ k \in 0..Len(sent) /\ k <= Len(delivered)
    /\ \A i \in 1..k : ~Malformed(sent[i]) /\ delivered[i] = Outcome(sent[i])

\* ... and with nothing else.
Stands(k) == Answered(k) /\ Len(delivered) = k

\* Nothing is asked for, ...
Idle(k) ==
    op.kind = "none" /\ \E b \in LeftOff : buf \o wire = After(sent, k, b)

\* ... or the next message although there is none, ...
Drained(k) ==
    op.kind = "headers" /\ k = Len(sent) /\ buf = <<>> /\ wire = <<>>

\* ... or the reader is inside of a message that arrives as a whole, ...
InWhole(k) ==
    /\ k < Len(sent)
    /\ \E b \in LeftOff, m \in Messages, t \in Tokens :
          m = sent[k + 1] /\ t = After(sent, k + 1, b) /\ Within(m, t, <<>>)

\* ... or of the one that the peer leaves off.
InCut(k) ==
    /\ k = Len(sent) /\ closes
    /\ \E m \in Messages, z \in Tokens : z # <<>> /\ ~Malformed(m) /\ Within(m, <<>>, z)

\* The error that ends the connection has been handed on.
Over(k) ==
    /\ op.kind = "none" /\ Len(delivered) = k + 1
    /\ \/ /\ k < Len(sent) /\ Malformed(sent[k + 1])
          /\ delivered[k + 1] = Outcome(sent[k + 1])
       \/ k = Len(sent) /\ closes /\ delivered[k + 1] = Answer("eof", <<>>)

\* The inductive invariant of a connection.
Follows ==
    \E k \in Nat :
       \/ Stands(k) /\ (Idle(k) \/ Drained(k) \/ InWhole(k) \/ InCut(k))
       \/ Answered(k) /\ Over(k)

\* What is behind the first k messages.
LEMMA AfterParts ==
    ASSUME NEW ms \in Seq(Messages), NEW b \in Tokens
    PROVE  /\ \A k \in 0..Len(ms) : After(ms, k, b) \in Tokens
           /\ \A k \in 0..(Len(ms) - 1) : After(ms, k, b) = Wire(ms[k + 1]) \o After(ms, k + 1, b)
           /\ After(ms, Len(ms), b) = b
           /\ After(ms, 0, b) = FlattenSeq(Wires(ms)) \o b
<1>1. PICK W : W = Wires(ms)
  OBVIOUS
<1>2. W \in Seq(Seq(Token)) /\ Len(W) = Len(ms) /\ \A i \in 1..Len(ms) : W[i] = Wire(ms[i])
  <2>1. DOMAIN ms = 1..Len(ms) /\ Len(ms) \in Nat
    OBVIOUS
  <2>2. \A i \in DOMAIN ms : Wire(ms[i]) \in Tokens
    BY WireTyped
  <2>3. PICK n \in Nat : n = Len(ms) /\ DOMAIN ms = 1..n
    BY <2>1
  <2>4. W = [i \in 1..n |-> Wire(ms[i])]
    BY <1>1, <2>3 DEF Wires
  <2>5. W \in [1..n -> Tokens]
    BY <2>2, <2>3, <2>4
  <2>6. W \in Seq(Tokens) /\ Len(W) = n
    BY <2>5
  <2> QED BY <2>3, <2>4, <2>6 DEF Tokens
<1>3. /\ Rest(W, 1) = FlattenSeq(W) /\ Rest(W, Len(W) + 1) = <<>>
      /\ \A i \in 1..(Len(W) + 1) : Rest(W, i) \in Tokens
  BY <1>2, RestEnds DEF Tokens
<1>4. Len(ms) \in Nat
  OBVIOUS
<1>5. ASSUME NEW k \in 0..Len(ms)
      PROVE  After(ms, k, b) \in Tokens
  <2>1. k + 1 \in 1..(Len(W) + 1)
    BY <1>2, <1>4
  <2>2. PICK r \in Tokens : r = Rest(W, k + 1)
    BY <1>3, <2>1
  <2>3. r \o b \in Tokens
    BY Joined
  <2> QED BY <1>1, <2>2, <2>3 DEF After
<1>6. ASSUME NEW k \in 0..(Len(ms) - 1)
      PROVE  After(ms, k, b) = Wire(ms[k + 1]) \o After(ms, k + 1, b)
  <2>1. PICK i : i = k + 1
    OBVIOUS
  <2>2. i \in 1..Len(W) /\ i \in 1..Len(ms) /\ i + 1 \in 1..(Len(W) + 1)
    BY <1>2, <1>4, <2>1
  <2>3. Rest(W, i) = W[i] \o Rest(W, i + 1) /\ W[i] \in Tokens
    BY <1>2, <2>2, RestStep DEF Tokens
  <2>4. PICK w \in Tokens : w = Wire(ms[i]) /\ w = W[i]
    BY <1>2, <2>2, <2>3
  <2>5. PICK r \in Tokens : r = Rest(W, i + 1)
    BY <1>3, <2>2
  <2>6. Parts(w, r, b)
    BY <2>4, <2>5 DEF Parts
  <2>7. (w \o r) \o b = w \o (r \o b)
    BY <2>6, Brackets
  <2>8. Rest(W, i) = w \o r
    BY <2>3, <2>4, <2>5
  <2>9. After(ms, k, b) = (w \o r) \o b /\ After(ms, k + 1, b) = r \o b
    BY <1>1, <2>1, <2>5, <2>8 DEF After
  <2> QED BY <2>1, <2>4, <2>7, <2>9
<1>7. After(ms, Len(ms), b) = b
  <2>1. After(ms, Len(ms), b) = <<>> \o b
    BY <1>1, <1>2, <1>3 DEF After
  <2> QED BY <2>1, Joined
<1>8. After(ms, 0, b) = FlattenSeq(Wires(ms)) \o b
  <2>1. 0 + 1 = 1
    OBVIOUS
  <2> QED BY <1>1, <1>3, <2>1 DEF After
<1> QED BY <1>5, <1>6, <1>7, <1>8

\* A beginning of a message that the peer leaves off.
LEMMA BeginningParts ==
    ASSUME NEW b \in Beginnings
    PROVE  /\ b \in Tokens
           /\ \E m \in Messages, z \in Tokens : ~Malformed(m) /\ z # <<>> /\ Wire(m) = b \o z
<1>1. PICK m \in Messages : ~Malformed(m) /\ \E n \in 1..(Len(Wire(m)) - 1) : b = SubSeq(Wire(m), 1, n)
  BY DEF Beginnings
<1>2. PICK s : s = Wire(m) /\ s \in Seq(Token)
  BY WireTyped DEF Tokens
<1>3. PICK n \in 1..(Len(s) - 1) : b = SubSeq(s, 1, n)
  BY <1>1, <1>2
<1>4. PICK z : z = SubSeq(s, n + 1, Len(s))
  OBVIOUS
<1>5. Len(s) \in Nat
  BY <1>2
<1>6. b \in Seq(Token) /\ z \in Seq(Token)
  BY <1>2, <1>3, <1>4, <1>5
<1>7. s = b \o z
  BY <1>2, <1>3, <1>4, <1>5
<1>8. z # <<>>
  <2>1. Len(z) = Len(s) - n
    BY <1>2, <1>3, <1>4, <1>5
  <2>2. Len(z) > 0
    BY <1>3, <1>5, <2>1
  <2> QED BY <1>6, <2>2
<1>9. b \in Tokens /\ z \in Tokens
  BY <1>6 DEF Tokens
<1> QED BY <1>1, <1>2, <1>7, <1>8, <1>9

\* What a peer leaves off at.
LEMMA LeftOffParts ==
    ASSUME NEW b \in LeftOff
    PROVE  b \in Tokens /\ (b = <<>> \/ (closes /\ b \in Beginnings))
<1>1. <<>> \in Tokens
  BY DEF Tokens
<1> QED BY <1>1, BeginningParts DEF LeftOff

\* No step changes what the peer sends.
LEMMA PeerKept ==
    ASSUME ReaderInv, [Next]_vars
    PROVE  sent' = sent /\ closes' = closes
<1>1. CASE asyncResponse \/ readSome \/ readFails \/ UNCHANGED vars
  BY <1>1 DEF asyncResponse, readSome, readFails, vars
<1>2. CASE handleHeaders
  BY <1>2 DEF handleHeaders, then
<1>3. CASE bodyCompleted
  BY <1>3 DEF bodyCompleted, then
<1>4. CASE startProcessChunk
  BY <1>4 DEF startProcessChunk, then
<1>5. CASE processChunk
  BY <1>5 DEF processChunk, then
<1> QED BY <1>1, <1>2, <1>3, <1>4, <1>5 DEF Next, handlers

\* The handler has not been called.
LEMMA StandsStill ==
    ASSUME NEW k, Stands(k), sent' = sent, delivered' = delivered
    PROVE  Stands(k)'
BY DEF Stands, Answered

\* The handler has been called once more.
LEMMA OneMore ==
    ASSUME ReaderInv, NEW k, Stands(k), NEW a, delivered' = Append(delivered, a), sent' = sent
    PROVE  /\ k \in Nat /\ Answered(k)' /\ Len(delivered') = k + 1 /\ delivered'[k + 1] = a
           /\ \A i \in 1..k : delivered'[i] = delivered[i]
<1>1. PICK S : delivered \in Seq(S)
  BY DEF ReaderInv, Delivers
<1>2. PICK R : R = S \cup {a}
  OBVIOUS
<1>3. delivered \in Seq(R) /\ a \in R
  BY <1>1, <1>2, WiderSequence
<1>4. k \in Nat /\ Len(delivered) = k /\ k \in 0..Len(sent)
  <2>1. Len(sent) \in Nat
    BY DEF ReaderInv
  <2> QED BY <2>1 DEF Stands, Answered
<1>5. /\ Len(delivered') = k + 1 /\ delivered'[k + 1] = a
      /\ \A i \in 1..k : delivered'[i] = delivered[i]
  BY <1>3, <1>4
<1>6. Answered(k)'
  <2>1. k <= Len(delivered')
    BY <1>4, <1>5
  <2>2. ASSUME NEW i \in 1..k
        PROVE  ~Malformed(sent[i]) /\ delivered'[i] = Outcome(sent[i])
    BY <1>5, <2>2 DEF Stands, Answered
  <2> QED BY <1>4, <2>1, <2>2 DEF Answered
<1> QED BY <1>4, <1>5, <1>6

\* The owner asks for the next message.
LEMMA IdleFollows ==
    ASSUME ReaderInv, [Next]_vars, NEW k \in Nat, Stands(k), Idle(k)
    PROVE  Follows'
<1>1. sent' = sent /\ closes' = closes /\ LeftOff' = LeftOff
  BY PeerKept DEF LeftOff
<1>2. PICK b \in LeftOff : buf \o wire = After(sent, k, b)
  BY DEF Idle
<1>3. b \in Tokens /\ (b = <<>> \/ (closes /\ b \in Beginnings))
  BY <1>2, LeftOffParts
<1>4. CASE UNCHANGED vars
  <2>1. op' = op /\ buf' = buf /\ wire' = wire /\ delivered' = delivered
    BY <1>4 DEF vars
  <2>2. Stands(k)'
    BY <1>1, <2>1, StandsStill
  <2>3. Idle(k)'
    BY <1>1, <1>2, <2>1 DEF Idle
  <2> QED BY <2>2, <2>3 DEF Follows
<1>5. CASE asyncResponse
  <2>1. op'.kind = "headers" /\ buf' = buf /\ wire' = wire /\ delivered' = delivered
    BY <1>5, NextRead DEF asyncResponse
  <2>2. Stands(k)'
    BY <1>1, <2>1, StandsStill
  <2>3. sent \in Seq(Messages) /\ Len(sent) \in Nat /\ k \in 0..Len(sent)
    <3>1. sent \in Seq(Messages) /\ Len(sent) \in Nat
      BY DEF ReaderInv
    <3> QED BY <3>1 DEF Stands, Answered
  <2>4. buf \in Tokens /\ wire \in Tokens /\ <<>> \in Tokens
    BY DEF ReaderInv, Tokens
  <2>5. CASE k < Len(sent)
    <3>1. k \in 0..(Len(sent) - 1) /\ k + 1 \in 0..Len(sent) /\ k + 1 \in DOMAIN sent
      BY <2>3, <2>5
    <3>2. PICK m \in Messages : m = sent[k + 1]
      BY <2>3, <3>1
    <3>3. PICK t \in Tokens : t = After(sent, k + 1, b)
      BY <1>3, <2>3, <3>1, AfterParts
    <3>4. After(sent, k, b) = Wire(m) \o t
      BY <1>3, <2>3, <3>1, <3>2, <3>3, AfterParts
    <3>5. buf' \o (wire' \o <<>>) = Wire(m) \o t
      <4>1. wire \o <<>> = wire
        BY <2>4, Joined
      <4> QED BY <1>2, <2>1, <3>4, <4>1
    <3>6. AtHead(m, t, <<>>)'
      BY <2>1, <3>5 DEF AtHead
    <3>7. Within(m, t, <<>>)'
      BY <3>6 DEF Within
    <3>8. InWhole(k)'
      BY <1>1, <1>2, <2>5, <3>2, <3>3, <3>7 DEF InWhole
    <3> QED BY <2>2, <3>8 DEF Follows
  <2>6. CASE k = Len(sent) /\ b = <<>>
    <3>1. buf \o wire = <<>>
      BY <1>2, <1>3, <2>3, <2>6, AfterParts
    <3>2. buf \in Seq(Token) /\ wire \in Seq(Token)
      BY <2>4 DEF Tokens
    <3>3. Len(buf \o wire) = Len(buf) + Len(wire) /\ Len(buf) \in Nat /\ Len(wire) \in Nat
      BY <3>2, ConcatProperties
    <3>4. Len(buf) = 0 /\ Len(wire) = 0
      BY <3>1, <3>3
    <3>5. buf = <<>> /\ wire = <<>>
      BY <3>2, <3>4
    <3>6. Drained(k)'
      BY <1>1, <2>1, <2>6, <3>5 DEF Drained
    <3> QED BY <2>2, <3>6 DEF Follows
  <2>7. CASE k = Len(sent) /\ b # <<>>
    <3>1. closes /\ b \in Beginnings
      BY <1>3, <2>7
    <3>2. PICK m \in Messages, z \in Tokens : ~Malformed(m) /\ z # <<>> /\ Wire(m) = b \o z
      BY <3>1, BeginningParts
    <3>3. buf \o wire = b
      BY <1>2, <1>3, <2>3, <2>7, AfterParts
    <3>4. buf \o (wire \o z) = b \o z
      <4>1. Parts(buf, wire, z)
        BY <2>4, <3>2 DEF Parts
      <4>2. (buf \o wire) \o z = buf \o (wire \o z)
        BY <4>1, Brackets
      <4> QED BY <3>3, <4>2
    <3>5. Wire(m) \o <<>> = Wire(m)
      BY WireTyped, Joined
    <3>6. AtHead(m, <<>>, z)'
      BY <2>1, <3>2, <3>4, <3>5 DEF AtHead
    <3>7. Within(m, <<>>, z)'
      BY <3>6 DEF Within
    <3>8. InCut(k)'
      BY <1>1, <2>7, <3>1, <3>2, <3>7 DEF InCut
    <3> QED BY <2>2, <3>8 DEF Follows
  <2> QED BY <2>3, <2>5, <2>6, <2>7
<1>6. ~pending
  BY DEF Idle, pending
<1>7. ~(readSome \/ handlers)
  BY <1>6 DEF readSome, handlers, handleHeaders, bodyCompleted, startProcessChunk, processChunk,
              readFails, completes, pending
<1> QED BY <1>4, <1>5, <1>7 DEF Next

\* The last message has been read, and the owner waits for another one.
LEMMA DrainedFollows ==
    ASSUME ReaderInv, [Next]_vars, NEW k \in Nat, Stands(k), Drained(k)
    PROVE  Follows'
<1>1. sent' = sent /\ closes' = closes
  BY PeerKept
<1>2. op.kind = "headers" /\ k = Len(sent) /\ buf = <<>> /\ wire = <<>> /\ pending
  BY DEF Drained, pending
<1>3. CASE UNCHANGED vars
  <2>1. op' = op /\ buf' = buf /\ wire' = wire /\ delivered' = delivered
    BY <1>3 DEF vars
  <2>2. Stands(k)'
    BY <1>1, <2>1, StandsStill
  <2>3. Drained(k)'
    BY <1>1, <1>2, <2>1 DEF Drained
  <2> QED BY <2>2, <2>3 DEF Follows
<1>4. CASE readFails
  <2>1. closes /\ op'.kind = "none" /\ delivered' = Append(delivered, Answer("eof", <<>>))
    BY <1>4 DEF readFails, deliver, NoOp
  <2>2. Answered(k)' /\ Len(delivered') = k + 1 /\ delivered'[k + 1] = Answer("eof", <<>>)
    BY <1>1, <2>1, OneMore
  <2>3. Over(k)'
    BY <1>1, <1>2, <2>1, <2>2 DEF Over
  <2> QED BY <2>2, <2>3 DEF Follows
<1>5. ~readSome
  <2>1. Len(wire) = 0
    BY <1>2
  <2> QED BY <2>1, ReaderAssumption DEF readSome
<1>6. ~handleHeaders
  <2>1. PICK d \in Tokens : d = CRLF \o CRLF /\ Len(d) = 4
    BY Delimiters
  <2>2. Len(buf) = 0 /\ buf \in Tokens
    BY <1>2 DEF ReaderInv
  <2>3. Search(buf, d) = 0
    <3>1. PICK p : p = Search(buf, d)
      OBVIOUS
    <3>2. p = 0 \/ p \in 1..(Len(buf) - Len(d) + 1)
      BY <2>2, <3>1, SearchRange
    <3> QED BY <2>1, <2>2, <3>1, <3>2
  <2> QED BY <2>1, <2>3, HeadersTaken
<1>7. ~(asyncResponse \/ bodyCompleted \/ startProcessChunk \/ processChunk)
  BY <1>2 DEF asyncResponse, bodyCompleted, startProcessChunk, processChunk, completes
<1> QED BY <1>3, <1>4, <1>5, <1>6, <1>7 DEF Next, handlers

\* Inside of a message nothing is pending but its own reads.
LEMMA WithinPending ==
    ASSUME NEW m, NEW t, NEW z, Within(m, t, z)
    PROVE  pending
BY DEF Within, AtHead, AtBody, AtSize, AtChunk, pending

\* Steps inside of a message: no other step than its own, and the read of one that has
\* arrived does not fail.
LEMMA WithinSteps ==
    ASSUME ReaderInv, [Next]_vars, NEW m \in Messages, Framed(m),
           NEW t \in Tokens, NEW z \in Tokens, Within(m, t, z)
    PROVE  \/ Onward(m, t, z)
           \/ readFails /\ z # <<>>
<1>1. CASE UNCHANGED vars
  <2>1. op' = op /\ buf' = buf /\ wire' = wire /\ delivered' = delivered /\ reply' = reply
    BY <1>1 DEF vars
  <2>2. Within(m, t, z)'
    BY <2>1 DEF Within, AtHead, AtBody, AtSize, AtChunk, Accepted, ProperHeader, SizesProper
  <2> QED BY <2>1, <2>2 DEF Onward
<1>2. CASE readSome
  BY <1>2, PieceFollow DEF Onward
<1>3. CASE handleHeaders \/ bodyCompleted \/ startProcessChunk \/ processChunk
  BY <1>3, HandlerFollows
<1>4. CASE readFails
  <2>1. wire = <<>> /\ pending /\ ~match.found
    BY <1>4 DEF readFails
  <2>2. Awaits
    BY <2>1, Matches
  <2>3. z # <<>>
    BY <2>1, <2>2, WholeNotAwaited
  <2> QED BY <1>4, <2>3
<1>5. ~asyncResponse
  BY WithinPending DEF asyncResponse
<1> QED BY <1>1, <1>2, <1>3, <1>4, <1>5 DEF Next, handlers

\* Inside of a message that arrives as a whole.
LEMMA WholeFollows ==
    ASSUME ReaderInv, [Next]_vars, \A m \in Messages : Framed(m),
           NEW k \in Nat, Stands(k), InWhole(k)
    PROVE  Follows'
<1>1. sent' = sent /\ closes' = closes /\ LeftOff' = LeftOff
  BY PeerKept DEF LeftOff
<1>2. PICK b \in LeftOff, m \in Messages, t \in Tokens :
          m = sent[k + 1] /\ t = After(sent, k + 1, b) /\ Within(m, t, <<>>)
  BY DEF InWhole
<1>3. k < Len(sent) /\ <<>> \in Tokens
  BY DEF InWhole, Tokens
<1>4. Onward(m, t, <<>>)
  BY <1>2, <1>3, WithinSteps
<1>5. CASE Within(m, t, <<>>)' /\ delivered' = delivered
  <2>1. Stands(k)'
    BY <1>1, <1>5, StandsStill
  <2>2. InWhole(k)'
    BY <1>1, <1>2, <1>3, <1>5 DEF InWhole
  <2> QED BY <2>1, <2>2 DEF Follows
<1>6. CASE Completed(m, t, <<>>)
  <2>1. delivered' = Append(delivered, Outcome(m)) /\ op'.kind = "none"
    BY <1>6 DEF Completed
  <2>2. /\ Answered(k)' /\ Len(delivered') = k + 1 /\ delivered'[k + 1] = Outcome(m)
        /\ \A i \in 1..k : delivered'[i] = delivered[i]
    BY <1>1, <2>1, OneMore
  <2>3. CASE Malformed(m)
    <3>1. Over(k)'
      BY <1>1, <1>2, <1>3, <2>1, <2>2, <2>3 DEF Over
    <3> QED BY <2>2, <3>1 DEF Follows
  <2>4. CASE ~Malformed(m)
    <3>1. buf' \o (wire' \o <<>>) = t
      BY <1>6, <2>4 DEF Completed
    <3>2. wire' \in Tokens
      BY ReaderInductive DEF ReaderInv
    <3>3. buf' \o wire' = t
      <4>1. wire' \o <<>> = wire'
        BY <3>2, Joined
      <4> QED BY <3>1, <4>1
    <3>4. PICK n \in Nat : n = k + 1
      OBVIOUS
    <3>5. Idle(n)'
      BY <1>1, <1>2, <2>1, <3>3, <3>4 DEF Idle
    <3>6. Stands(n)'
      <4>1. n \in 0..Len(sent) /\ n <= Len(delivered') /\ Len(delivered') = n
        <5>1. Len(sent) \in Nat
          BY DEF ReaderInv
        <5> QED BY <1>3, <2>2, <3>4, <5>1
      <4>2. ASSUME NEW i \in 1..n
            PROVE  ~Malformed(sent[i]) /\ delivered'[i] = Outcome(sent[i])
        <5>1. CASE i = k + 1
          BY <1>2, <2>2, <2>4, <5>1
        <5>2. CASE i # k + 1
          <6>1. i \in 1..k
            BY <3>4, <4>2, <5>2
          <6> QED BY <2>2, <6>1 DEF Stands, Answered
        <5> QED BY <5>1, <5>2
      <4> QED BY <1>1, <4>1, <4>2 DEF Stands, Answered
    <3> QED BY <3>5, <3>6 DEF Follows
  <2> QED BY <2>3, <2>4
<1> QED BY <1>4, <1>5, <1>6 DEF Onward

\* Inside of the message that the peer leaves off.
LEMMA CutFollows ==
    ASSUME ReaderInv, [Next]_vars, \A m \in Messages : Framed(m),
           NEW k \in Nat, Stands(k), InCut(k)
    PROVE  Follows'
<1>1. sent' = sent /\ closes' = closes
  BY PeerKept
<1>2. PICK m \in Messages, z \in Tokens : z # <<>> /\ ~Malformed(m) /\ Within(m, <<>>, z)
  BY DEF InCut
<1>3. k = Len(sent) /\ closes /\ <<>> \in Tokens
  BY DEF InCut, Tokens
<1>4. Onward(m, <<>>, z) \/ readFails
  BY <1>2, <1>3, WithinSteps
<1>5. CASE Within(m, <<>>, z)' /\ delivered' = delivered
  <2>1. Stands(k)'
    BY <1>1, <1>5, StandsStill
  <2>2. InCut(k)'
    BY <1>1, <1>2, <1>3, <1>5 DEF InCut
  <2> QED BY <2>1, <2>2 DEF Follows
<1>6. ~Completed(m, <<>>, z)
  <2>1. SUFFICES ASSUME buf' \o (wire' \o z) = <<>>
                 PROVE  FALSE
    BY <1>2 DEF Completed
  <2>2. PICK a, b : a = buf' /\ b = wire' /\ a \in Seq(Token) /\ b \in Seq(Token)
    BY ReaderInductive DEF ReaderInv, Tokens
  <2>3. PICK c : c = b \o z
    OBVIOUS
  <2>4. z \in Seq(Token)
    BY DEF Tokens
  <2>5. c \in Seq(Token) /\ Len(c) = Len(b) + Len(z)
    BY <2>2, <2>3, <2>4, ConcatProperties
  <2>6. Len(a \o c) = Len(a) + Len(c)
    BY <2>2, <2>5, ConcatProperties
  <2>7. a \o c = <<>>
    BY <2>1, <2>2, <2>3
  <2>8. Len(a) \in Nat /\ Len(b) \in Nat /\ Len(z) \in Nat
    BY <2>2, <2>4
  <2>9. Len(z) = 0
    BY <2>5, <2>6, <2>7, <2>8
  <2> QED BY <1>2, <2>4, <2>9
<1>7. CASE readFails
  <2>1. op'.kind = "none" /\ delivered' = Append(delivered, Answer("eof", <<>>))
    BY <1>7 DEF readFails, deliver, NoOp
  <2>2. Answered(k)' /\ Len(delivered') = k + 1 /\ delivered'[k + 1] = Answer("eof", <<>>)
    BY <1>1, <2>1, OneMore
  <2>3. Over(k)'
    BY <1>1, <1>3, <2>1, <2>2 DEF Over
  <2> QED BY <2>2, <2>3 DEF Follows
<1> QED BY <1>4, <1>5, <1>6, <1>7 DEF Onward

\* After an error the owner reads no more.
LEMMA OverFollows ==
    ASSUME ReaderInv, [Next]_vars, NEW k \in Nat, Answered(k), Over(k)
    PROVE  Follows'
<1>1. ~pending
  BY DEF Over, pending
<1>2. ~(readSome \/ handlers)
  BY <1>1 DEF readSome, handlers, handleHeaders, bodyCompleted, startProcessChunk, processChunk,
              readFails, completes, pending
<1>3. delivered[k + 1].error # "none"
  <2>1. delivered[k + 1] = Answer("protocol_error", <<>>) \/ delivered[k + 1] = Answer("eof", <<>>)
    BY DEF Over, Outcome
  <2> QED BY <2>1 DEF Answer
<1>4. k + 1 \in DOMAIN delivered
  <2>1. PICK S : delivered \in Seq(S)
    BY DEF ReaderInv, Delivers
  <2>2. Len(delivered) = k + 1
    BY DEF Over
  <2> QED BY <2>1, <2>2
<1>5. ~asyncResponse
  BY <1>3, <1>4 DEF asyncResponse
<1>6. UNCHANGED vars
  BY <1>2, <1>5 DEF Next
<1>7. op' = op /\ sent' = sent /\ closes' = closes /\ delivered' = delivered
  BY <1>6 DEF vars
<1>8. Answered(k)' /\ Over(k)'
  BY <1>7 DEF Answered, Over
<1> QED BY <1>8 DEF Follows

\* Before the first read.
LEMMA FollowsStart ==
    ASSUME Init
    PROVE  Follows
<1>1. PICK ms \in SeqOf(Messages, MaxMessages) :
          /\ sent = ms
          /\ \/ wire = FlattenSeq(Wires(ms))
             \/ closes = TRUE /\ \E b \in Beginnings : wire = FlattenSeq(Wires(ms)) \o b
  BY DEF Init, Wires
<1>2. sent \in Seq(Messages) /\ wire \in Tokens /\ <<>> \in Tokens
  BY ConnectionTyped DEF Tokens
<1>3. buf = <<>> /\ op.kind = "none" /\ delivered = <<>>
  BY DEF Init, NoOp
<1>4. PICK b \in LeftOff : b \in Tokens /\ wire = FlattenSeq(Wires(sent)) \o b
  <2>1. CASE wire = FlattenSeq(Wires(ms))
    <3>1. PICK w : w = FlattenSeq(Wires(sent)) /\ w \in Tokens
      BY <1>1, <1>2, <2>1
    <3>2. w \o <<>> = w
      BY <3>1, Joined
    <3>3. <<>> \in LeftOff
      BY DEF LeftOff
    <3> QED BY <1>1, <1>2, <2>1, <3>1, <3>2, <3>3
  <2>2. CASE closes = TRUE /\ \E b \in Beginnings : wire = FlattenSeq(Wires(ms)) \o b
    <3>1. PICK b \in Beginnings : wire = FlattenSeq(Wires(ms)) \o b
      BY <2>2
    <3>2. b \in LeftOff
      BY <2>2, <3>1 DEF LeftOff
    <3>3. b \in Tokens
      BY <3>1, BeginningParts
    <3> QED BY <1>1, <3>1, <3>2, <3>3
  <2> QED BY <1>1, <2>1, <2>2
<1>5. buf \o wire = After(sent, 0, b)
  <2>1. After(sent, 0, b) = FlattenSeq(Wires(sent)) \o b
    BY <1>2, <1>4, AfterParts
  <2>2. <<>> \o wire = wire
    BY <1>2, Joined
  <2> QED BY <1>3, <1>4, <2>1, <2>2
<1>6. Idle(0)
  BY <1>3, <1>4, <1>5 DEF Idle
<1>7. Stands(0)
  <2>1. Len(sent) \in Nat /\ Len(delivered) = 0
    BY <1>2, <1>3
  <2>2. 0 \in 0..Len(sent) /\ 0 <= Len(delivered) /\ \A i \in 1..0 : FALSE
    BY <2>1
  <2> QED BY <2>1, <2>2 DEF Stands, Answered
<1> QED BY <1>6, <1>7 DEF Follows

\* Every step keeps the invariant of the connection.
LEMMA FollowsInductive ==
    ASSUME ReaderInv, \A m \in Messages : Framed(m), Follows, [Next]_vars
    PROVE  Follows'
<1>1. PICK k \in Nat :
          \/ Stands(k) /\ (Idle(k) \/ Drained(k) \/ InWhole(k) \/ InCut(k))
          \/ Answered(k) /\ Over(k)
  BY DEF Follows
<1>2. CASE Stands(k) /\ Idle(k)
  BY <1>2, IdleFollows
<1>3. CASE Stands(k) /\ Drained(k)
  BY <1>3, DrainedFollows
<1>4. CASE Stands(k) /\ InWhole(k)
  BY <1>4, WholeFollows
<1>5. CASE Stands(k) /\ InCut(k)
  BY <1>5, CutFollows
<1>6. CASE Answered(k) /\ Over(k)
  BY <1>6, OverFollows
<1> QED BY <1>1, <1>2, <1>3, <1>4, <1>5, <1>6

\* What the reader owes for a connection whose first k messages are not refused.
Owed(e, k) ==
    /\ k <= Len(e)
    /\ \A i \in 1..k : e[i] = Outcome(sent[i])
    /\ k < Len(sent) /\ Malformed(sent[k + 1]) => k + 1 <= Len(e) /\ e[k + 1] = Outcome(sent[k + 1])
    /\ k = Len(sent) /\ closes => k + 1 <= Len(e) /\ e[k + 1] = Answer("eof", <<>>)

\* ... is what Expected says.
LEMMA ExpectedOwed ==
    ASSUME ReaderInv, NEW k \in 0..Len(sent), \A i \in 1..k : ~Malformed(sent[i])
    PROVE  Owed(Expected, k) /\ \E S : Expected \in Seq(S)
<1>1. PICK N \in Nat : N = Len(sent) /\ DOMAIN sent = 1..N
  BY DEF ReaderInv
<1>2. PICK bad : bad = {i \in DOMAIN sent : Malformed(sent[i])}
  OBVIOUS
<1>3. PICK eof : eof = Answer("eof", <<>>)
  OBVIOUS
<1>4. PICK S : S = {Outcome(sent[i]) : i \in 1..N} \cup {eof}
  OBVIOUS
<1>5. PICK all : all = [i \in DOMAIN sent |-> Outcome(sent[i])]
  OBVIOUS
<1>6. all \in Seq(S) /\ Len(all) = N /\ \A i \in 1..N : all[i] = Outcome(sent[i])
  <2>1. all \in [1..N -> S]
    BY <1>1, <1>4, <1>5
  <2>2. all \in Seq(S) /\ Len(all) = N
    BY <2>1
  <2> QED BY <1>1, <1>5, <2>2
<1>7. PICK e : e = Expected
  OBVIOUS
<1>8. k \in Nat /\ k <= N
  BY <1>1
<1>9. CASE bad # {}
  <2>1. \A i \in bad : i \in Nat
    BY <1>1, <1>2
  <2>2. \E i \in bad : \A j \in bad : i <= j
    BY <1>9, <2>1, LeastExists
  <2>3. PICK n : n = CHOOSE i \in bad : \A j \in bad : i <= j
    OBVIOUS
  <2>4. n \in bad /\ \A j \in bad : n <= j
    BY <2>2, <2>3
  <2>5. e = SubSeq(all, 1, n)
    BY <1>2, <1>5, <1>7, <1>9, <2>3 DEF Expected
  <2>6. n \in 1..N /\ Malformed(sent[n])
    BY <1>1, <1>2, <2>4
  <2>7. n > k
    BY <1>8, <2>6
  <2>8. e \in Seq(S) /\ Len(e) = n /\ \A i \in 1..n : e[i] = all[i]
    BY <1>6, <2>5, <2>6
  <2>9. k <= Len(e) /\ \A i \in 1..k : e[i] = Outcome(sent[i])
    BY <1>6, <1>8, <2>6, <2>7, <2>8
  <2>10. ASSUME k < Len(sent), Malformed(sent[k + 1])
         PROVE  k + 1 <= Len(e) /\ e[k + 1] = Outcome(sent[k + 1])
    <3>1. PICK j : j = k + 1
      OBVIOUS
    <3>2. j \in 1..N
      BY <1>1, <1>8, <2>10, <3>1
    <3>3. j \in bad
      BY <1>1, <1>2, <2>10, <3>1, <3>2
    <3>4. n = j
      BY <1>8, <2>4, <2>6, <2>7, <3>1, <3>3
    <3>5. e[n] = all[n] /\ all[n] = Outcome(sent[n])
      BY <1>6, <2>6, <2>8
    <3> QED BY <1>8, <2>8, <3>1, <3>4, <3>5
  <2>11. k # Len(sent)
    BY <1>1, <2>6, <2>7
  <2>12. Owed(e, k)
    BY <2>9, <2>10, <2>11 DEF Owed
  <2> QED BY <1>7, <2>8, <2>12
<1>10. CASE bad = {}
  <2>1. PICK x : x = IF closes THEN <<eof>> ELSE <<>>
    OBVIOUS
  <2>2. e = all \o x
    BY <1>2, <1>3, <1>5, <1>7, <1>10, <2>1 DEF Expected
  <2>3. x \in Seq(S) /\ (closes => Len(x) = 1 /\ x[1] = eof)
    <3>1. eof \in S
      BY <1>4
    <3>2. <<eof>> \in Seq(S) /\ <<>> \in Seq(S) /\ Len(<<eof>>) = 1 /\ <<eof>>[1] = eof
      BY <3>1
    <3> QED BY <2>1, <3>2
  <2>4. e \in Seq(S) /\ Glued(e, all, x, N)
    BY <1>6, <2>2, <2>3, Glue
  <2>5. Len(e) = N + Len(x) /\ (\A i \in 1..N : e[i] = all[i]) /\ \A i \in 1..Len(x) : e[N + i] = x[i]
    BY <2>4 DEF Glued
  <2>6. Len(x) \in Nat
    BY <2>3
  <2>7. k <= Len(e) /\ \A i \in 1..k : e[i] = Outcome(sent[i])
    BY <1>6, <1>8, <2>5, <2>6
  <2>8. ~(k < Len(sent) /\ Malformed(sent[k + 1]))
    <3>1. SUFFICES ASSUME k < Len(sent), Malformed(sent[k + 1])
                   PROVE  FALSE
      OBVIOUS
    <3>2. k + 1 \in DOMAIN sent
      BY <1>1, <1>8, <3>1
    <3> QED BY <1>2, <1>10, <3>1, <3>2
  <2>9. ASSUME k = Len(sent), closes
        PROVE  k + 1 <= Len(e) /\ e[k + 1] = eof
    <3>1. Len(x) = 1 /\ x[1] = eof /\ 1 \in 1..Len(x) /\ k = N
      BY <1>1, <2>3, <2>9
    <3>2. e[N + 1] = x[1]
      BY <2>5, <3>1
    <3> QED BY <1>1, <2>5, <3>1, <3>2
  <2>10. Owed(e, k)
    BY <1>3, <2>7, <2>8, <2>9 DEF Owed
  <2> QED BY <1>7, <2>4, <2>10
<1> QED BY <1>9, <1>10

\* A sequence that another one begins with.
LEMMA PrefixOf ==
    ASSUME NEW S, NEW s \in Seq(S), NEW T, NEW t \in Seq(T), Len(s) <= Len(t),
           \A i \in 1..Len(s) : s[i] = t[i]
    PROVE  IsPrefix(s, t)
<1>1. PICK n \in Nat : n = Len(s)
  OBVIOUS
<1>2. PICK v : v = SubSeq(t, 1, n)
  OBVIOUS
<1>3. v \in Seq(T) /\ Len(v) = n /\ \A i \in 1..n : v[i] = t[i]
  BY <1>1, <1>2
<1>4. v = s
  BY <1>1, <1>3
<1>5. SubSeq(s, 1, n) = s
  BY <1>1
<1> QED BY <1>1, <1>2, <1>4, <1>5 DEF IsPrefix

\* The invariant of the connection says that the handler was called with what is owed.
LEMMA FollowsInOrder ==
    ASSUME ReaderInv, Follows
    PROVE  WholeAndInOrder
<1>1. PICK k \in Nat : Stands(k) \/ (Answered(k) /\ Over(k))
  BY DEF Follows
<1>2. k \in 0..Len(sent) /\ \A i \in 1..k : ~Malformed(sent[i]) /\ delivered[i] = Outcome(sent[i])
  BY <1>1 DEF Stands, Answered
<1>3. PICK e : e = Expected
  OBVIOUS
<1>4. Owed(e, k) /\ \E S : e \in Seq(S)
  BY <1>2, <1>3, ExpectedOwed
<1>5. PICK T : e \in Seq(T)
  BY <1>4
<1>6. PICK S : delivered \in Seq(S)
  BY DEF ReaderInv, Delivers
<1>7. Len(delivered) <= Len(e) /\ \A i \in 1..Len(delivered) : delivered[i] = e[i]
  <2>1. CASE Stands(k)
    <3>1. Len(delivered) = k
      BY <2>1 DEF Stands
    <3> QED BY <1>2, <1>4, <3>1 DEF Owed
  <2>2. CASE Over(k)
    <3>1. Len(delivered) = k + 1 /\ k + 1 <= Len(e) /\ delivered[k + 1] = e[k + 1]
      BY <1>4, <2>2 DEF Over, Owed
    <3>2. \A i \in 1..(k + 1) : i \in 1..k \/ i = k + 1
      BY <1>2
    <3> QED BY <1>2, <1>4, <3>1, <3>2 DEF Owed
  <2> QED BY <1>1, <2>1, <2>2
<1>8. IsPrefix(delivered, e)
  BY <1>5, <1>6, <1>7, PrefixOf
<1> QED BY <1>3, <1>8 DEF WholeAndInOrder

\* When peers send messages whose framing tells the truth about them, the handler given
\* to asyncResponse is called once for each message, in the order sent and with the body
\* sent, however the bytes are cut into pieces; a message that is malformed or cut off
\* yields one error and nothing after it.
THEOREM MessagesWholeAndInOrder == FramedMessages /\ Spec => []WholeAndInOrder
<1>1. Init => Follows
  BY FollowsStart
<1>2. ReaderInv /\ FramedMessages /\ Follows /\ [Next]_vars => Follows'
  BY FollowsInductive DEF FramedMessages
<1>3. ReaderInv /\ Follows => WholeAndInOrder
  BY FollowsInOrder
<1>4. FramedMessages => FramedMessages'
  BY DEF FramedMessages
<1> QED BY <1>1, <1>2, <1>3, <1>4, ReaderInvariant, PTL DEF Spec
================================================================================
