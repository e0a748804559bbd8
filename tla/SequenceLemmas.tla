--------------------------- MODULE SequenceLemmas ---------------------------
(***************************************************************************)
(* What appending to, updating, removing from and joining sequences        *)
(* yields, entry by entry: the facts about std::vector the proofs of       *)
(* FrameServer use, and the ones about layouts, where rows of the same     *)
(* length follow each other, that the proofs of Wire and StripOrder use.   *)
(*                                                                         *)
(* Induction is stated on sets, not on predicates: what does not hold for  *)
(* all numbers has a least counterexample.                                 *)
(***************************************************************************)
EXTENDS Integers, Sequences, SequencesExt, SequenceTheorems,
        WellFoundedInduction, TLAPS

(* push_back: the new entry is last, the others stay.                      *)
LEMMA AppendEntries ==
  ASSUME NEW S, NEW s \in Seq(S), NEW e \in S
  PROVE  /\ Append(s, e) \in Seq(S)
         /\ Len(Append(s, e)) = Len(s) + 1
         /\ \A k \in 1..Len(s) : Append(s, e)[k] = s[k]
         /\ Append(s, e)[Len(s) + 1] = e
  BY AppendProperties

(* Assignment through an index: only that entry changes.                   *)
LEMMA ExceptEntries ==
  ASSUME NEW S, NEW s \in Seq(S), NEW e \in S, NEW k \in 1..Len(s)
  PROVE  /\ [s EXCEPT ![k] = e] \in Seq(S)
         /\ Len([s EXCEPT ![k] = e]) = Len(s)
         /\ \A j \in 1..Len(s) : [s EXCEPT ![k] = e][j] = IF j = k THEN e ELSE s[j]
  BY ExceptSeq

(* A function on 1..n is a sequence of n entries.                          *)
LEMMA FunctionIsSequence ==
  ASSUME NEW S, NEW n \in Nat, NEW s \in [1..n -> S]
  PROVE  s \in Seq(S) /\ Len(s) = n
  OBVIOUS

(* erase: the entries in front stay, the ones behind move up by one.       *)
LEMMA RemoveAtEntries ==
  ASSUME NEW S, NEW s \in Seq(S), NEW k \in 1..Len(s)
  PROVE  /\ RemoveAt(s, k) \in Seq(S)
         /\ Len(RemoveAt(s, k)) = Len(s) - 1
         /\ \A j \in 1..(Len(s) - 1) :
              RemoveAt(s, k)[j] = IF j < k THEN s[j] ELSE s[j + 1]
<1> DEFINE front == SubSeq(s, 1, k - 1)
           back == SubSeq(s, k + 1, Len(s))
<1>0. Len(s) \in Nat /\ k \in Int
  OBVIOUS
<1>1. /\ front \in Seq(S)
      /\ Len(front) = k - 1
      /\ \A j \in 1..(k - 1) : front[j] = s[j]
  BY SubSeqProperties
<1>2. /\ back \in Seq(S)
      /\ Len(back) = Len(s) - k
      /\ \A j \in 1..(Len(s) - k) : back[j] = s[k + j]
  <2>1. CASE k = Len(s)
    BY <2>1, SubSeqProperties
  <2>2. CASE k < Len(s)
    BY <2>2, SubSeqProperties
  <2> QED BY <2>1, <2>2
<1>3. RemoveAt(s, k) = front \o back
  BY DEF RemoveAt
<1> HIDE DEF front, back
<1>4. /\ front \o back \in Seq(S)
      /\ Len(front \o back) = Len(front) + Len(back)
  BY <1>1, <1>2, ConcatProperties, Zenon
<1>5. Len(front) + Len(back) = Len(s) - 1
  BY <1>0, <1>1, <1>2
<1>6. ASSUME NEW j \in 1..(Len(s) - 1)
      PROVE  (front \o back)[j] = IF j < k THEN s[j] ELSE s[j + 1]
  <2>1. (front \o back)[j] = IF j <= Len(front) THEN front[j] ELSE back[j - Len(front)]
    BY <1>1, <1>2, ConcatProperties
  <2>2. CASE j < k
    BY <1>1, <2>1, <2>2
  <2>3. CASE j >= k
    <3>1. j - (k - 1) \in 1..(Len(s) - k) /\ k + (j - (k - 1)) = j + 1
      BY <2>3
    <3> QED BY <1>1, <1>2, <2>1, <2>3, <3>1
  <2>4. j < k \/ j >= k
    BY <1>0
  <2> QED BY <2>2, <2>3, <2>4, Zenon
<1> QED BY <1>3, <1>4, <1>5, <1>6

-----------------------------------------------------------------------------
(* A set of naturals has a least element.                                  *)
LEMMA LeastNatural ==
  ASSUME NEW T \in SUBSET Nat, T # {}
  PROVE  \E x \in T : \A y \in T : x <= y
<1> DEFINE Less == {ss \in Nat \X Nat : ss[1] < ss[2]}
<1>1. IsWellFoundedOn(Less, Nat)
  BY NatLessThanWellFounded, Zenon DEF OpToRel
<1>2. \A x, y \in Nat : y < x => <<y, x>> \in Less
  OBVIOUS
<1> HIDE DEF Less
<1>3. PICK x \in T : \A y \in T : ~(<<y, x>> \in Less)
  BY <1>1, WFMin
<1>4. ASSUME NEW y \in T
      PROVE  x <= y
  <2>1. x \in Nat /\ y \in Nat
    OBVIOUS
  <2>2. ~(y < x)
    BY <1>2, <1>3, <2>1, Zenon
  <2> QED
    BY <2>1, <2>2
<1> QED
  BY <1>4

(* What holds of 0 and passes on from a number to the next holds up to n.  *)
LEMMA UpTo ==
  ASSUME NEW n \in Nat, NEW T, 0 \in T, \A p \in 1..n : p - 1 \in T => p \in T
  PROVE  0..n \subseteq T
<1> DEFINE Missing == (0..n) \ T
<1>1. CASE Missing # {}
  <2>1. PICK p \in Missing : \A q \in Missing : p <= q
    <3>1. Missing \in SUBSET Nat
      OBVIOUS
    <3> HIDE DEF Missing
    <3> QED BY <1>1, <3>1, LeastNatural, Zenon
  <2>2. p \in 1..n /\ p - 1 \in 0..n /\ ~(p <= p - 1)
    BY <2>1
  <2>3. p - 1 \in T
    BY <2>1, <2>2, Zenon
  <2> QED BY <2>1, <2>2, <2>3
<1> QED BY <1>1

(* A recursion over 0..n has a solution.                                   *)
Solvable(V, v, n, h) ==
  \E f \in [0..n -> V] : f[0] = v /\ \A p \in 1..n : f[p] = h[<<p, f[p - 1]>>]

LEMMA RecursionExists ==
  ASSUME NEW V, NEW v \in V, NEW n \in Nat, NEW h \in [(1..n) \X V -> V]
  PROVE  Solvable(V, v, n, h)
<1> DEFINE Recursion(f, m) == f[0] = v /\ \A p \in 1..m : f[p] = h[<<p, f[p - 1]>>]
           T == {m \in 0..n : \E f \in [0..m -> V] : Recursion(f, m)}
<1>1. 0 \in T
  <2>1. [p \in 0..0 |-> v] \in [0..0 -> V] /\ Recursion([p \in 0..0 |-> v], 0)
    OBVIOUS
  <2> HIDE DEF Recursion
  <2>2. \E f \in [0..0 -> V] : Recursion(f, 0)
    BY <2>1, Zenon
  <2> QED BY <2>2
<1>2. ASSUME NEW m \in 1..n, m - 1 \in T
      PROVE  m \in T
  <2>1. PICK f \in [0..(m - 1) -> V] : Recursion(f, m - 1)
    BY <1>2
  <2> DEFINE g == [p \in 0..m |-> IF p = m THEN h[<<m, f[m - 1]>>] ELSE f[p]]
  <2>2. m - 1 \in 0..(m - 1) /\ f[m - 1] \in V /\ h[<<m, f[m - 1]>>] \in V
    OBVIOUS
  <2>3. g \in [0..m -> V]
    BY <2>2
  <2>4. g[0] = v
    BY <2>1
  <2>5. ASSUME NEW p \in 1..m
        PROVE  g[p] = h[<<p, g[p - 1]>>]
    <3>1. CASE p = m
      <4>1. g[m] = h[<<m, f[m - 1]>>]
        OBVIOUS
      <4>2. g[m - 1] = f[m - 1]
        OBVIOUS
      <4> HIDE DEF g
      <4> QED BY <3>1, <4>1, <4>2, Zenon
    <3>2. CASE p # m
      <4>1. p \in 1..(m - 1) /\ p \in 0..m /\ p - 1 \in 0..m /\ p - 1 # m
        BY <3>2
      <4>2. f[p] = h[<<p, f[p - 1]>>]
        BY <2>1, <4>1
      <4> QED BY <3>2, <4>1, <4>2
    <3> QED BY <3>1, <3>2
  <2> HIDE DEF g
  <2>6. Recursion(g, m)
    BY <2>4, <2>5
  <2>7. m \in 0..n
    OBVIOUS
  <2> QED BY <2>3, <2>6, <2>7
<1> HIDE DEF T
<1>3. 0..n \subseteq T
  BY <1>1, <1>2, UpTo
<1>4. n \in T
  BY <1>3
<1> QED BY <1>4, Zenon DEF T, Solvable

-----------------------------------------------------------------------------
(* Division with remainder.                                                *)
LEMMA QuotientRemainder ==
  ASSUME NEW n \in Nat \ {0}, NEW p \in Nat
  PROVE  /\ p = n * (p \div n) + (p % n)
         /\ p % n \in 0..n - 1
         /\ p \div n \in Nat
  OBVIOUS

(* Quotient and remainder are unique.                                      *)
LEMMA UniqueQuotient ==
  ASSUME NEW n \in Nat \ {0}, NEW q \in Nat, NEW r \in 0..n - 1
  PROVE  (n * q + r) \div n = q /\ (n * q + r) % n = r
  OBVIOUS

(* Equal positions have the same quotient and the same remainder.          *)
LEMMA SamePlace ==
  ASSUME NEW n \in Nat \ {0}, NEW q \in Nat, NEW r \in 0..n - 1, NEW a \in Nat, NEW s \in 0..n - 1,
         n * q + r = n * a + s
  PROVE  q = a /\ r = s
<1>1. (n * q + r) \div n = q /\ (n * q + r) % n = r
  BY UniqueQuotient
<1>2. (n * a + s) \div n = a /\ (n * a + s) % n = s
  BY UniqueQuotient
<1> QED BY <1>1, <1>2

(* A product grows with its second factor.                                 *)
LEMMA TimesMonotonic ==
  ASSUME NEW n \in Nat, NEW a \in Int, NEW b \in Int, a <= b
  PROVE  n * a <= n * b /\ n * a \in Int /\ n * b \in Int
  OBVIOUS

(* Rows of n entries each: the position of entry j of row k, and back.     *)
Block(n, p) == (p - 1) \div n + 1
Offset(n, p) == ((p - 1) % n) + 1
Position(n, k, j) == n * (k - 1) + j

(* Every entry lies in one of the rows, at one offset.                     *)
LEMMA BlockOf ==
  ASSUME NEW n \in Nat \ {0}, NEW i \in Nat, NEW p \in 1..n * i
  PROVE  /\ Block(n, p) \in 1..i
         /\ Offset(n, p) \in 1..n
         /\ p = Position(n, Block(n, p), Offset(n, p))
<1> DEFINE q == (p - 1) \div n
           r == (p - 1) % n
<1>0. n * i \in Nat /\ p - 1 \in Nat
  OBVIOUS
<1>1. p - 1 = n * q + r /\ r \in 0..n - 1 /\ q \in Nat
  BY <1>0, QuotientRemainder, Zenon
<1>2. Block(n, p) = q + 1 /\ Offset(n, p) = r + 1
  BY DEF Block, Offset
<1> HIDE DEF q, r
<1>3. n * q \in Nat /\ n * q < n * i
  BY <1>0, <1>1
<1>4. CASE q >= i
  BY <1>1, <1>3, <1>4, TimesMonotonic
<1>5. CASE q < i
  BY <1>0, <1>1, <1>2, <1>5 DEF Position
<1> QED BY <1>1, <1>4, <1>5

(* The entries of row k lie within those of i rows.                        *)
LEMMA PositionRange ==
  ASSUME NEW n \in Nat \ {0}, NEW i \in Nat, NEW k \in 1..i, NEW j \in 1..n
  PROVE  Position(n, k, j) \in 1..n * i
<1>1. n * k <= n * i /\ n * (k - 1) = n * k - n /\ n * (k - 1) \in Nat /\ n * i \in Nat
  BY TimesMonotonic
<1> QED BY <1>1 DEF Position

(* Different rows and offsets are different positions.                     *)
LEMMA BlockOfPosition ==
  ASSUME NEW n \in Nat \ {0}, NEW k \in Nat \ {0}, NEW j \in 1..n
  PROVE  Block(n, Position(n, k, j)) = k /\ Offset(n, Position(n, k, j)) = j
<1>1. n * (k - 1) \in Nat
  OBVIOUS
<1>2. Position(n, k, j) - 1 = n * (k - 1) + (j - 1)
  BY <1>1 DEF Position
<1> DEFINE q == k - 1
           r == j - 1
<1>0. q \in Nat /\ r \in 0..n - 1
  OBVIOUS
<1> HIDE DEF q, r
<1>3. (n * q + r) \div n = q /\ (n * q + r) % n = r
  BY <1>0, UniqueQuotient
<1> USE DEF q, r
<1> HIDE DEF Position
<1>4. Block(n, Position(n, k, j)) = (k - 1) + 1
  BY <1>2, <1>3, Zenon DEF Block
<1>5. (Position(n, k, j) - 1) % n = j - 1
  BY <1>2, <1>3, SMT
<1>6. Offset(n, Position(n, k, j)) = (j - 1) + 1
  BY <1>5 DEF Offset
<1> QED BY <1>4, <1>6

(* Behind its first at entries, r holds s.                                 *)
Holds(r, at, s) == \A p \in 1..Len(s) : r[at + p] = s[p]

(* Joining two sequences: the entries of one, then those of the other.     *)
LEMMA ConcatEntries ==
  ASSUME NEW S, NEW u \in Seq(S), NEW v \in Seq(S)
  PROVE  /\ u \o v \in Seq(S)
         /\ Len(u \o v) = Len(u) + Len(v)
         /\ Holds(u \o v, 0, u)
         /\ Holds(u \o v, Len(u), v)
<1>1. u \o v \in Seq(S) /\ Len(u \o v) = Len(u) + Len(v)
  BY ConcatProperties
<1>2. ASSUME NEW p \in 1..Len(u)
      PROVE  (u \o v)[0 + p] = u[p]
  BY 0 + p = p
<1>3. ASSUME NEW p \in 1..Len(v)
      PROVE  (u \o v)[Len(u) + p] = v[p]
  <2>1. Len(u) + p \in 1..Len(u) + Len(v) /\ ~(Len(u) + p <= Len(u)) /\ Len(u) + p - Len(u) = p
    OBVIOUS
  <2> QED BY <2>1
<1> QED BY <1>1, <1>2, <1>3 DEF Holds

(* What is held by a part is held by the whole.                            *)
LEMMA HoldsPart ==
  ASSUME NEW r, NEW S, NEW s \in Seq(S), NEW t \in Seq(S), NEW i \in Nat, NEW j \in Nat,
         Holds(r, i, s), Holds(s, j, t), j + Len(t) <= Len(s)
  PROVE  Holds(r, i + j, t)
<1> SUFFICES ASSUME NEW p \in 1..Len(t)
             PROVE  r[i + j + p] = t[p]
  BY DEF Holds
<1>1. j + p \in 1..Len(s) /\ i + (j + p) = i + j + p
  OBVIOUS
<1>2. r[i + (j + p)] = s[j + p]
  BY <1>1, Zenon DEF Holds
<1>3. s[j + p] = t[p]
  BY Zenon DEF Holds
<1> QED BY <1>1, <1>2, <1>3

(* A sequence that has the entries of u and then those of v is u \o v.      *)
LEMMA ConcatIs ==
  ASSUME NEW S, NEW u \in Seq(S), NEW v \in Seq(S), NEW w \in Seq(S),
         Len(w) = Len(u) + Len(v),
         \A p \in 1..Len(u) : w[p] = u[p],
         \A p \in 1..Len(v) : w[Len(u) + p] = v[p]
  PROVE  w = u \o v
<1>1. u \o v \in Seq(S) /\ Len(u \o v) = Len(w)
  BY ConcatProperties
<1>2. ASSUME NEW p \in 1..Len(w)
      PROVE  w[p] = (u \o v)[p]
  <2>1. CASE p <= Len(u)
    BY <2>1
  <2>2. CASE p > Len(u)
    <3>1. p - Len(u) \in 1..Len(v) /\ Len(u) + (p - Len(u)) = p
      BY <2>2
    <3>2. (u \o v)[p] = v[p - Len(u)]
      BY <2>2
    <3> QED BY <3>1, <3>2
  <2> QED BY <2>1, <2>2
<1> QED BY <1>1, <1>2, SeqEqual, Zenon

(* Joining rows of the same length: the recursion of FlattenSeq, solved.   *)
LEMMA FlattenUniform ==
  ASSUME NEW S, NEW n \in Nat \ {0}, NEW seqs \in Seq(Seq(S)),
         \A k \in 1..Len(seqs) : Len(seqs[k]) = n
  PROVE  FlattenSeq(seqs) = [p \in 1..n * Len(seqs) |-> seqs[Block(n, p)][Offset(n, p)]]
<1> DEFINE D == 1..Len(seqs)
           Entry(p) == seqs[Block(n, p)][Offset(n, p)]
           g == [i \in D |-> [p \in 1..n * i |-> Entry(p)]]
           Body(f) == [i \in D |-> IF i = 1 THEN seqs[i] ELSE f[i - 1] \o seqs[i]]
<1>1. CASE Len(seqs) = 0
  <2>1. seqs = << >>
    BY <1>1
  <2>2. n * Len(seqs) = 0
    BY <1>1
  <2> QED BY <2>1, <2>2, <1>1 DEF FlattenSeq
<1>2. CASE Len(seqs) # 0
  <2>0. Len(seqs) \in D /\ Len(seqs) \in Nat /\ D \subseteq Nat \ {0}
    BY <1>2
  <2>1. \A i \in D : seqs[i] \in Seq(S) /\ Len(seqs[i]) = n
    OBVIOUS
  <2>2. \A i \in D : seqs[i] = [j \in 1..n |-> seqs[i][j]]
    OBVIOUS
  <2>3. ASSUME NEW i \in D, NEW j \in 1..n
        PROVE  Position(n, i, j) \in 1..n * i /\ Entry(Position(n, i, j)) = seqs[i][j]
    <3>1. i \in Nat \ {0} /\ i \in 1..i
      BY <2>0
    <3>2. Position(n, i, j) \in 1..n * i
      BY <3>1, PositionRange
    <3>3. Block(n, Position(n, i, j)) = i /\ Offset(n, Position(n, i, j)) = j
      BY <3>1, BlockOfPosition, Zenon
    <3> QED BY <3>2, <3>3, Zenon
  <2>4. ASSUME NEW i \in D, NEW p \in 1..n * i
        PROVE  Entry(p) \in S
    <3>1. i \in Nat
      BY <2>0
    <3>2. Block(n, p) \in 1..i /\ Offset(n, p) \in 1..n
      BY <3>1, BlockOf, Zenon
    <3>3. Block(n, p) \in D
      BY <3>1, <3>2
    <3> QED BY <2>1, <3>2, <3>3
  <2> HIDE DEF Entry
  <2>5. g[1] = seqs[1]
    <3>1. 1 \in D /\ n * 1 = n
      BY <2>0
    <3>2. \A j \in 1..n : Position(n, 1, j) = j
      BY DEF Position
    <3> HIDE DEF D
    <3>3. \A j \in 1..n : Entry(j) = seqs[1][j]
      BY <2>3, <3>1, <3>2
    <3> QED BY <2>2, <3>1, <3>3
  <2>6. ASSUME NEW i \in D, i # 1
        PROVE  g[i] = g[i - 1] \o seqs[i]
    <3>1. i - 1 \in D /\ n * i \in Nat /\ n * (i - 1) \in Nat /\ n * i = n * (i - 1) + n
      BY <2>6
    <3>2. g[i - 1] \in Seq(S) /\ Len(g[i - 1]) = n * (i - 1)
      BY <2>4, <3>1
    <3>3. g[i] \in Seq(S) /\ Len(g[i]) = n * (i - 1) + n
      BY <2>4, <3>1
    <3>4. \A p \in 1..n * (i - 1) : g[i][p] = g[i - 1][p]
      BY <3>1
    <3>5. \A j \in 1..n : g[i][n * (i - 1) + j] = seqs[i][j]
      <4>1. TAKE j \in 1..n
      <4>2. n * (i - 1) + j \in 1..n * i
        BY <3>1
      <4> QED BY <4>2, <2>3, Zenon DEF Position
    <3> HIDE DEF g
    <3>6. /\ seqs[i] \in Seq(S)
          /\ Len(g[i]) = Len(g[i - 1]) + Len(seqs[i])
          /\ \A p \in 1..Len(g[i - 1]) : g[i][p] = g[i - 1][p]
          /\ \A p \in 1..Len(seqs[i]) : g[i][Len(g[i - 1]) + p] = seqs[i][p]
      BY <2>1, <3>2, <3>3, <3>4, <3>5
    <3> QED BY <3>2, <3>3, <3>6, ConcatIs, Zenon
  <2>7. g = Body(g)
    BY <2>5, <2>6, Zenon
  <2>8. ASSUME NEW f, f = Body(f)
        PROVE  f = g
    <3>0. \A i \in D : f[i] = IF i = 1 THEN seqs[i] ELSE f[i - 1] \o seqs[i]
      BY <2>8, Zenon
    <3> DEFINE Wrong == {i \in D : f[i] # g[i]}
    <3>1. CASE Wrong # {}
      <4>1. PICK i \in Wrong : \A k \in Wrong : i <= k
        BY <2>0, <3>1, LeastNatural
      <4>2. i \in D /\ f[i] # g[i]
        BY <4>1
      <4>3. i # 1
        BY <3>0, <4>2, <2>5, Zenon
      <4>4. i - 1 \in D /\ ~(i <= i - 1)
        BY <4>2, <4>3
      <4>5. f[i - 1] = g[i - 1]
        BY <4>1, <4>4, Zenon
      <4>6. f[i] = g[i - 1] \o seqs[i]
        BY <3>0, <4>2, <4>3, <4>5, Zenon
      <4> QED BY <2>6, <4>2, <4>3, <4>6, Zenon
    <3>2. CASE Wrong = {}
      <4>1. f = [i \in D |-> f[i]]
        BY <2>8, Zenon
      <4>2. \A i \in D : f[i] = g[i]
        BY <3>2, Zenon
      <4> QED BY <4>1, <4>2, Zenon
    <3> QED BY <3>1, <3>2
  <2> HIDE DEF g
  <2>9. (CHOOSE f : f = Body(f)) = g
    BY <2>7, <2>8, Zenon
  <2>10. FlattenSeq(seqs) = (CHOOSE f : f = Body(f))[Len(seqs)]
    BY <1>2, Zenon DEF FlattenSeq
  <2> QED BY <2>9, <2>10, <2>0, Zenon DEF g, Entry
<1> QED BY <1>1, <1>2

(* Joining rows of the same length: what results, ...                      *)
LEMMA FlattenShape ==
  ASSUME NEW S, NEW n \in Nat \ {0}, NEW seqs \in Seq(Seq(S)),
         \A k \in 1..Len(seqs) : Len(seqs[k]) = n
  PROVE  FlattenSeq(seqs) \in Seq(S) /\ Len(FlattenSeq(seqs)) = n * Len(seqs)
<1> DEFINE flat == FlattenSeq(seqs)
<1>1. flat = [p \in 1..n * Len(seqs) |-> seqs[Block(n, p)][Offset(n, p)]]
  BY FlattenUniform
<1>2. Len(seqs) \in Nat /\ n * Len(seqs) \in Nat
  OBVIOUS
<1>3. ASSUME NEW p \in 1..n * Len(seqs)
      PROVE  seqs[Block(n, p)][Offset(n, p)] \in S
  <2>1. Block(n, p) \in 1..Len(seqs) /\ Offset(n, p) \in 1..n
    BY <1>2, BlockOf, Zenon
  <2>2. seqs[Block(n, p)] \in Seq(S) /\ Len(seqs[Block(n, p)]) = n
    BY <2>1
  <2> QED BY <2>1, <2>2
<1> HIDE DEF flat
<1>4. flat \in Seq(S) /\ Len(flat) = n * Len(seqs)
  BY <1>1, <1>2, <1>3
<1> QED BY <1>4 DEF flat

(* ... and what lies where.                                                *)
LEMMA FlattenHolds ==
  ASSUME NEW S, NEW n \in Nat \ {0}, NEW seqs \in Seq(Seq(S)),
         \A k \in 1..Len(seqs) : Len(seqs[k]) = n,
         NEW k \in 1..Len(seqs)
  PROVE  Holds(FlattenSeq(seqs), n * (k - 1), seqs[k])
<1> SUFFICES ASSUME NEW j \in 1..n
             PROVE  FlattenSeq(seqs)[Position(n, k, j)] = seqs[k][j]
  BY DEF Holds, Position
<1>1. FlattenSeq(seqs) = [p \in 1..n * Len(seqs) |-> seqs[Block(n, p)][Offset(n, p)]]
  BY FlattenUniform
<1>2. Len(seqs) \in Nat /\ k \in Nat \ {0}
  OBVIOUS
<1>3. Position(n, k, j) \in 1..n * Len(seqs)
  BY <1>2, PositionRange
<1>4. Block(n, Position(n, k, j)) = k /\ Offset(n, Position(n, k, j)) = j
  BY <1>2, BlockOfPosition, Zenon
<1> QED BY <1>1, <1>3, <1>4, Zenon
=============================================================================
