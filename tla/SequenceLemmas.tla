--------------------------- MODULE SequenceLemmas ---------------------------
(***************************************************************************)
(* Lemmas about sequences and about what Keep leaves of one, for sequences *)
(* of any length.  The induction theorems of the library take an operator; *)
(* here induction is over a set of natural numbers.                        *)
(***************************************************************************)
EXTENDS Rows, SequenceTheorems, FiniteSetTheorems, WellFoundedInduction, TLAPS

-----------------------------------------------------------------------------
(* Induction *)

(* A nonempty set of natural numbers has a least element. *)
LEMMA LeastNatural ==
    ASSUME NEW T, T \subseteq Nat, T # {}
    PROVE  \E n \in T : \A m \in T : n <= m
<1>1. PICK n \in T : \A m \in T : ~ (<<m, n>> \in OpToRel(<, Nat))
  BY WFMin, NatLessThanWellFounded
<1>2. \A m \in T : ~ (m < n)
  BY <1>1 DEF OpToRel
<1> QED  BY <1>2

(* What holds of 0, and of n + 1 if it holds of n, holds up to any bound. *)
LEMMA InductionUpTo ==
    ASSUME NEW N \in Nat, NEW T, 0 \in T,
           \A n \in 0..N - 1 : n \in T => n + 1 \in T
    PROVE  0..N \subseteq T
<1> DEFINE U == (0..N) \ T
<1>1. SUFFICES ASSUME U # {}  PROVE FALSE
  OBVIOUS
<1>2. PICK n \in U : \A m \in U : n <= m
  <2> U \subseteq Nat
    OBVIOUS
  <2> HIDE DEF U
  <2> QED  BY <1>1, LeastNatural
<1>3. n # 0 /\ n - 1 \in 0..N - 1 /\ n - 1 \notin U
  BY <1>2
<1> QED  BY <1>3, <1>2

-----------------------------------------------------------------------------
(* Keep *)

(* What Keep has after each element of the sequence. *)
LEMMA KeepStages ==
    ASSUME NEW s, NEW A, Len(s) \in Nat
    PROVE  \E kept : /\ kept[0] = <<>> /\ kept[Len(s)] = Keep(s, A)
                     /\ \A n \in 0..Len(s)-1 :
                          kept[n+1] = IF s[n+1] \in A THEN Append(kept[n], s[n+1]) ELSE kept[n]
<1> DEFINE N == Len(s)
           Next1(h, n) == IF s[n] \in A THEN Append(h[n-1], s[n]) ELSE h[n-1]
           Upto(h, k) == h = [n \in 0..k |-> IF n = 0 THEN <<>> ELSE Next1(h, n)]
           Defined == {k \in 0..N : \E h : Upto(h, k)}
<1>1. Keep(s, A) = (CHOOSE h : Upto(h, N))[N]
  BY DEF Keep
<1>2. 0 \in Defined
  <2>1. Upto([n \in 0..0 |-> <<>>], 0)
    OBVIOUS
  <2> HIDE DEF Upto
  <2> QED  BY <2>1
<1>3. ASSUME NEW k \in 0..N-1, k \in Defined  PROVE k + 1 \in Defined
  <2>1. PICK h : Upto(h, k)
    BY <1>3
  <2> DEFINE g == [n \in 0..k+1 |-> IF n = k + 1 THEN Next1(h, n) ELSE h[n]]
  <2>2. ASSUME NEW n \in 0..k+1  PROVE g[n] = IF n = 0 THEN <<>> ELSE Next1(g, n)
    <3>1. CASE n = k + 1
      <4>1. n # 0 /\ n \in 0..k+1 /\ n - 1 \in 0..k+1 /\ n - 1 # k + 1
        BY <3>1
      <4>2. g[n-1] = h[n-1] /\ g[n] = Next1(h, n)
        BY <3>1, <4>1
      <4> HIDE DEF g
      <4> QED  BY <4>1, <4>2
    <3>2. CASE n \in 0..k
      <4>1. g[n] = h[n] /\ h[n] = IF n = 0 THEN <<>> ELSE Next1(h, n)
        <5>1. n # k + 1 /\ n \in 0..k+1
          BY <3>2
        <5>2. g[n] = h[n]
          BY <5>1
        <5>3. h[n] = IF n = 0 THEN <<>> ELSE Next1(h, n)
          <6> HIDE DEF g
          <6> QED  BY <2>1, <3>2
        <5> QED  BY <5>2, <5>3
      <4>2. ASSUME n # 0  PROVE g[n-1] = h[n-1]
        BY <3>2, <4>2
      <4> QED  BY <4>1, <4>2
    <3> QED  BY <3>1, <3>2
  <2>3. Upto(g, k + 1)
    BY <2>2
  <2> HIDE DEF g, Upto
  <2> QED  BY <2>3
<1>4. \E h : Upto(h, N)
  <2> HIDE DEF Upto
  <2>1. N \in Defined
    <3> HIDE DEF Defined
    <3>1. 0..N \subseteq Defined
      BY <1>2, <1>3, InductionUpTo
    <3> QED  BY <3>1
  <2> QED  BY <2>1
<1> DEFINE kept == CHOOSE h : Upto(h, N)
<1>5. Upto(kept, N)
  <2> HIDE DEF Upto
  <2> QED  BY <1>4
<1>6. kept[N] = Keep(s, A)
  BY <1>1
<1> HIDE DEF kept
<1>7. kept[0] = <<>>
  BY <1>5
<1>8. ASSUME NEW n \in 0..N-1
      PROVE  kept[n+1] = IF s[n+1] \in A THEN Append(kept[n], s[n+1]) ELSE kept[n]
  <2>1. n + 1 \in 0..N /\ n + 1 # 0 /\ (n + 1) - 1 = n
    OBVIOUS
  <2> HIDE DEF N
  <2>2. kept[n+1] = Next1(kept, n + 1)
    BY <1>5, <2>1
  <2> QED  BY <2>1, <2>2
<1> QED  BY <1>6, <1>7, <1>8

(* Keep keeps the elements that are in A, and repeats none. *)
LEMMA KeepFacts ==
    ASSUME NEW S, NEW s \in Seq(S), NEW A
    PROVE  /\ Keep(s, A) \in Seq(S)
           /\ Range(Keep(s, A)) = Range(s) \intersect A
           /\ Len(Keep(s, A)) <= Len(s)
           /\ IsInjective(s) => IsInjective(Keep(s, A))
<1> DEFINE N == Len(s)
           Seen(n) == {s[i] : i \in 1..n}
           Good(k, n) ==
               /\ k \in Seq(S) /\ Len(k) <= n
               /\ \A i \in 1..Len(k) : k[i] \in Seen(n) \intersect A
               /\ \A x \in Seen(n) \intersect A : \E i \in 1..Len(k) : k[i] = x
               /\ IsInjective(s) => \A i, j \in 1..Len(k) : k[i] = k[j] => i = j
<1>1. N \in Nat /\ DOMAIN s = 1..N /\ \A i \in 1..N : s[i] \in S
  OBVIOUS
<1>2. PICK kept : /\ kept[0] = <<>> /\ kept[N] = Keep(s, A)
                  /\ \A n \in 0..N-1 :
                       kept[n+1] = IF s[n+1] \in A THEN Append(kept[n], s[n+1]) ELSE kept[n]
  BY <1>1, KeepStages
<1> HIDE DEF N
<1>3. Good(kept[0], 0)
  <2>1. Seen(0) = {}
    OBVIOUS
  <2> QED  BY <1>2, <2>1
<1>4. ASSUME NEW n \in 0..N-1, Good(kept[n], n)  PROVE Good(kept[n+1], n + 1)
  <2>1. Seen(n + 1) = Seen(n) \union {s[n+1]}
    OBVIOUS
  <2>2. s[n+1] \in S /\ n + 1 \in 1..N
    BY <1>1
  <2>3. CASE s[n+1] \in A
    <3> DEFINE k == kept[n]
               w == Append(k, s[n+1])
    <3>1. kept[n+1] = w
      BY <1>2, <2>3
    <3>2. /\ w \in Seq(S) /\ Len(w) = Len(k) + 1 /\ w[Len(w)] = s[n+1]
          /\ \A i \in 1..Len(k) : w[i] = k[i]
      BY <1>4, <2>2, AppendProperties
    <3>3. k \in Seq(S) /\ Len(k) \in Nat
      BY <1>4
    <3>4. IsInjective(s) => s[n+1] \notin Seen(n)
      BY <1>1, <2>2 DEF IsInjective
    <3> HIDE DEF k, w, Seen
    <3>5. Len(w) <= n + 1
      BY <1>4, <3>2, <3>3 DEF k
    <3>6. \A i \in 1..Len(w) : w[i] \in Seen(n + 1) \intersect A
      <4>1. SUFFICES ASSUME NEW i \in 1..Len(w)  PROVE w[i] \in Seen(n + 1) \intersect A
        OBVIOUS
      <4>2. CASE i \in 1..Len(k)
        BY <1>4, <2>1, <3>2, <4>2 DEF k
      <4>3. CASE i = Len(w)
        BY <2>1, <2>3, <3>2, <4>3
      <4> QED  BY <3>2, <3>3, <4>2, <4>3
    <3>7. \A x \in Seen(n + 1) \intersect A : \E i \in 1..Len(w) : w[i] = x
      <4>1. SUFFICES ASSUME NEW x \in Seen(n + 1) \intersect A  PROVE \E i \in 1..Len(w) : w[i] = x
        OBVIOUS
      <4>2. CASE x = s[n+1]
        BY <3>2, <3>3, <4>2
      <4>3. CASE x \in Seen(n)
        <5>1. PICK i \in 1..Len(k) : k[i] = x
          BY <1>4, <4>1, <4>3 DEF k
        <5> QED  BY <3>2, <3>3, <5>1
      <4> QED  BY <2>1, <4>2, <4>3
    <3>8. IsInjective(s) => \A i, j \in 1..Len(w) : w[i] = w[j] => i = j
      <4>1. SUFFICES ASSUME IsInjective(s), NEW i \in 1..Len(w), NEW j \in 1..Len(w), w[i] = w[j]
                     PROVE  i = j
        OBVIOUS
      <4>2. \A m \in 1..Len(k) : w[m] \in Seen(n)
        BY <1>4, <3>2 DEF k
      <4>3. CASE i \in 1..Len(k) /\ j \in 1..Len(k)
        BY <1>4, <3>2, <4>1, <4>3 DEF k
      <4> QED  BY <3>2, <3>3, <3>4, <4>1, <4>2, <4>3
    <3> QED  BY <3>1, <3>2, <3>5, <3>6, <3>7, <3>8
  <2>4. CASE s[n+1] \notin A
    <3>1. kept[n+1] = kept[n] /\ Seen(n + 1) \intersect A = Seen(n) \intersect A
      BY <1>2, <2>1, <2>4
    <3>2. Len(kept[n]) \in Nat
      BY <1>4
    <3> HIDE DEF Seen
    <3> QED  BY <1>4, <3>1, <3>2
  <2> QED  BY <2>3, <2>4
<1>5. Good(kept[N], N)
  <2> DEFINE T == {n \in 0..N : Good(kept[n], n)}
  <2>1. 0 \in T
    <3> HIDE DEF Good
    <3> QED  BY <1>1, <1>3
  <2>2. ASSUME NEW n \in 0..N-1, n \in T  PROVE n + 1 \in T
    <3> HIDE DEF Good
    <3> QED  BY <1>1, <1>4, <2>2
  <2> HIDE DEF Good
  <2>3. N \in T
    <3> HIDE DEF T
    <3>1. 0..N \subseteq T
      BY <1>1, <2>1, <2>2, InductionUpTo
    <3> QED  BY <1>1, <3>1
  <2> QED  BY <2>3
<1> DEFINE k == Keep(s, A)
<1>6. Good(k, N)
  BY <1>2, <1>5
<1>7. k \in Seq(S) /\ Len(k) <= N /\ DOMAIN k = 1..Len(k)
  BY <1>6
<1>8. Range(k) = Range(s) \intersect A
  <2>1. Range(s) = Seen(N) /\ Range(k) = {k[i] : i \in 1..Len(k)}
    BY <1>1, <1>7 DEF Range
  <2> HIDE DEF k, Seen
  <2> QED  BY <1>6, <2>1
<1>9. IsInjective(s) => IsInjective(k)
  BY <1>6, <1>7 DEF IsInjective
<1> QED  BY <1>7, <1>8, <1>9 DEF N

-----------------------------------------------------------------------------
(* Removing and inserting at a place *)

(* RemoveAt moves what follows. *)
LEMMA RemoveAtFacts ==
    ASSUME NEW S, NEW s \in Seq(S), NEW k \in 1..Len(s)
    PROVE  /\ RemoveAt(s, k) \in Seq(S)
           /\ Len(RemoveAt(s, k)) = Len(s) - 1
           /\ \A i \in 1..Len(s)-1 : RemoveAt(s, k)[i] = s[IF i < k THEN i ELSE i + 1]
<1> DEFINE l == SubSeq(s, 1, k - 1)
           r == SubSeq(s, k + 1, Len(s))
           w == RemoveAt(s, k)
<1>1. w = l \o r
  BY DEF RemoveAt
<1>2. Len(s) \in Nat /\ k \in Nat /\ 1 <= k /\ k <= Len(s)
  OBVIOUS
<1>3. l \in Seq(S) /\ Len(l) = k - 1 /\ \A i \in 1..k-1 : l[i] = s[i]
  BY <1>2
<1>4. /\ r \in Seq(S) /\ Len(r) = Len(s) - k
      /\ \A i \in 1..Len(s)-k : r[i] = s[k+i]
  <2>1. \A i \in k+1..Len(s) : s[i] \in S
    BY <1>2
  <2>2. /\ r \in Seq(S)
        /\ Len(r) = IF k + 1 <= Len(s) THEN Len(s) - (k + 1) + 1 ELSE 0
        /\ \A i \in 1 .. Len(s) - (k + 1) + 1 : r[i] = s[k + 1 + i - 1]
    BY <1>2, <2>1, SubSeqProperties
  <2> HIDE DEF r
  <2>3. Len(r) = Len(s) - k
    BY <1>2, <2>2
  <2>4. ASSUME NEW i \in 1..Len(s)-k  PROVE r[i] = s[k+i]
    <3>1. i \in 1 .. Len(s) - (k + 1) + 1 /\ k + 1 + i - 1 = k + i
      BY <1>2
    <3> QED  BY <2>2, <3>1
  <2> QED  BY <2>2, <2>3, <2>4
<1> HIDE DEF l, r, w
<1>5. /\ w \in Seq(S) /\ Len(w) = Len(s) - 1
      /\ \A i \in 1..Len(s)-1 : w[i] = IF i <= k - 1 THEN l[i] ELSE r[i - (k - 1)]
  <2>1. /\ l \o r \in Seq(S) /\ Len(l \o r) = Len(l) + Len(r)
        /\ \A i \in 1 .. Len(l) + Len(r) :
              (l \o r)[i] = IF i <= Len(l) THEN l[i] ELSE r[i - Len(l)]
    BY <1>3, <1>4, ConcatProperties
  <2> QED  BY <1>1, <1>2, <1>3, <1>4, <2>1
<1>6. ASSUME NEW i \in 1..Len(s)-1  PROVE w[i] = s[IF i < k THEN i ELSE i + 1]
  <2>1. CASE i < k
    BY <1>2, <1>3, <1>5, <2>1
  <2>2. CASE ~ (i < k)
    <3>1. i - (k - 1) \in 1..Len(s)-k /\ k + (i - (k - 1)) = i + 1 /\ ~ (i <= k - 1)
      BY <1>2, <2>2
    <3> QED  BY <1>4, <1>5, <2>2, <3>1
  <2> QED  BY <2>1, <2>2
<1> QED  BY <1>5, <1>6 DEF w

(* InsertAt moves what follows. *)
\* w is s with e put at the place k
IsWith(w, s, k, e, S) ==
    /\ w \in Seq(S) /\ Len(w) = Len(s) + 1
    /\ \A i \in 1..Len(s)+1 : w[i] = IF i < k THEN s[i] ELSE IF i = k THEN e ELSE s[i-1]

LEMMA InsertAtIsWith ==
    ASSUME NEW S, NEW s \in Seq(S), NEW k \in 1..Len(s)+1, NEW e \in S
    PROVE  IsWith(InsertAt(s, k, e), s, k, e, S)
<1> DEFINE l == SubSeq(s, 1, k - 1)
           m == l \o <<e>>
           r == SubSeq(s, k, Len(s))
           w == InsertAt(s, k, e)
<1>1. w = m \o r
  BY DEF InsertAt
<1>2. Len(s) \in Nat /\ k \in Nat /\ 1 <= k /\ k <= Len(s) + 1
  OBVIOUS
<1>3. l \in Seq(S) /\ Len(l) = k - 1 /\ \A i \in 1..k-1 : l[i] = s[i]
  BY <1>2
<1>4. /\ r \in Seq(S) /\ Len(r) = Len(s) - k + 1
      /\ \A i \in 1..Len(s)-k+1 : r[i] = s[k+i-1]
  <2>1. \A i \in k..Len(s) : s[i] \in S
    BY <1>2
  <2>2. /\ r \in Seq(S)
        /\ Len(r) = IF k <= Len(s) THEN Len(s) - k + 1 ELSE 0
        /\ \A i \in 1 .. Len(s) - k + 1 : r[i] = s[k + i - 1]
    BY <1>2, <2>1, SubSeqProperties
  <2> HIDE DEF r
  <2> QED  BY <1>2, <2>2
<1> HIDE DEF l, r, w
<1>5. m \in Seq(S) /\ Len(m) = k /\ \A i \in 1..k : m[i] = IF i < k THEN s[i] ELSE e
  BY <1>2, <1>3
<1> HIDE DEF m
<1>6. /\ w \in Seq(S) /\ Len(w) = Len(s) + 1
      /\ \A i \in 1..Len(s)+1 : w[i] = IF i <= k THEN m[i] ELSE r[i - k]
  <2>1. /\ m \o r \in Seq(S) /\ Len(m \o r) = Len(m) + Len(r)
        /\ \A i \in 1 .. Len(m) + Len(r) :
              (m \o r)[i] = IF i <= Len(m) THEN m[i] ELSE r[i - Len(m)]
    BY <1>4, <1>5, ConcatProperties
  <2> QED  BY <1>1, <1>2, <1>4, <1>5, <2>1
<1>7. ASSUME NEW i \in 1..Len(s)+1
      PROVE  w[i] = IF i < k THEN s[i] ELSE IF i = k THEN e ELSE s[i-1]
  <2>1. CASE i <= k
    BY <1>2, <1>5, <1>6, <2>1
  <2>2. CASE ~ (i <= k)
    <3>1. i - k \in 1..Len(s)-k+1 /\ k + (i - k) - 1 = i - 1
      BY <1>2, <2>2
    <3> QED  BY <1>2, <1>4, <1>6, <2>2, <3>1
  <2> QED  BY <2>1, <2>2
<1>8. IsWith(w, s, k, e, S)
  BY <1>6, <1>7 DEF IsWith
<1> QED  BY <1>8 DEF w
-----------------------------------------------------------------------------
(* Sequences without repetitions *)

(* Range and IsInjective of a sequence, by its places. *)
LEMMA PlacesOf ==
    ASSUME NEW S, NEW s \in Seq(S)
    PROVE  /\ Len(s) \in Nat
           /\ \A x : x \in Range(s) <=> \E i \in 1..Len(s) : s[i] = x
           /\ IsInjective(s) <=> \A i, j \in 1..Len(s) : s[i] = s[j] => i = j
           /\ Range(s) \subseteq S
BY DEF Range, IsInjective

LEMMA ReverseFacts ==
    ASSUME NEW S, NEW s \in Seq(S)
    PROVE  /\ Reverse(s) \in Seq(S)
           /\ Len(Reverse(s)) = Len(s)
           /\ Range(Reverse(s)) = Range(s)
           /\ IsInjective(s) => IsInjective(Reverse(s))
<1> DEFINE r == Reverse(s)
           n == Len(s)
<1>1. n \in Nat
  OBVIOUS
<1>2. r \in Seq(S) /\ Len(r) = n /\ \A i \in 1..n : r[i] = s[(n - i) + 1]
  BY <1>1 DEF Reverse
<1>3. \A i \in 1..n : (n - i) + 1 \in 1..n /\ (n - ((n - i) + 1)) + 1 = i
  BY <1>1
<1> HIDE DEF r, n
<1>4. \A i \in 1..n : s[i] = r[(n - i) + 1]
  BY <1>2, <1>3
<1>5. Len(s) = n
  BY DEF n
<1>6. ASSUME NEW x  PROVE x \in Range(r) <=> x \in Range(s)
  <2>1. ASSUME x \in Range(r)  PROVE x \in Range(s)
    <3>1. PICK i \in 1..n : r[i] = x
      BY <1>2, <2>1, PlacesOf
    <3>2. (n - i) + 1 \in 1..n /\ s[(n - i) + 1] = x
      BY <1>2, <1>3, <3>1
    <3> QED  BY <1>5, <3>2, PlacesOf
  <2>2. ASSUME x \in Range(s)  PROVE x \in Range(r)
    <3>1. PICK i \in 1..n : s[i] = x
      BY <1>5, <2>2, PlacesOf
    <3> QED  BY <1>2, <1>3, <1>4, <3>1, PlacesOf
  <2> QED  BY <2>1, <2>2
<1>7. ASSUME IsInjective(s)  PROVE IsInjective(r)
  <2>1. \A i, j \in 1..n : s[i] = s[j] => i = j
    BY <1>5, <1>7, PlacesOf
  <2>2. ASSUME NEW i \in 1..n, NEW j \in 1..n, r[i] = r[j]  PROVE i = j
    <3>1. s[(n - i) + 1] = s[(n - j) + 1]
      BY <1>2, <2>2
    <3>2. (n - i) + 1 \in 1..n /\ (n - j) + 1 \in 1..n
      BY <1>3
    <3> DEFINE a == (n - i) + 1
               b == (n - j) + 1
    <3>3. a = b
      <4> HIDE DEF a, b
      <4> QED  BY <2>1, <3>1, <3>2 DEF a, b
    <3> QED  BY <1>1, <3>3
  <2> QED  BY <1>2, <2>2, PlacesOf
<1> QED  BY <1>2, <1>5, <1>6, <1>7 DEF r

(* Two sequences that have no element in common, one after the other. *)
LEMMA ConcatFacts ==
    ASSUME NEW S, NEW s \in Seq(S), NEW t \in Seq(S)
    PROVE  /\ s \o t \in Seq(S)
           /\ Range(s \o t) = Range(s) \union Range(t)
           /\ IsInjective(s) /\ IsInjective(t) /\ Range(s) \intersect Range(t) = {}
              => IsInjective(s \o t)
<1> DEFINE m == Len(s)
           n == Len(t)
           w == s \o t
<1>1. m \in Nat /\ n \in Nat
  OBVIOUS
<1>2. /\ w \in Seq(S) /\ Len(w) = m + n
      /\ \A i \in 1..m + n : w[i] = IF i <= m THEN s[i] ELSE t[i - m]
  OBVIOUS
<1>3. Len(s) = m /\ Len(t) = n
  OBVIOUS
<1> HIDE DEF m, n, w
<1>4. \A i \in 1..m : i \in 1..m + n /\ w[i] = s[i]
  BY <1>1, <1>2
<1>5. \A i \in 1..n : m + i \in 1..m + n /\ w[m + i] = t[i]
  <2> TAKE i \in 1..n
  <2>1. m + i \in 1..m + n /\ ~ (m + i <= m) /\ (m + i) - m = i
    BY <1>1
  <2> QED  BY <1>2, <2>1
<1>6. \A i \in 1..m + n : i \in 1..m \/ (i - m \in 1..n /\ m + (i - m) = i)
  BY <1>1
<1>7. ASSUME NEW x  PROVE x \in Range(w) <=> x \in Range(s) \union Range(t)
  <2>1. ASSUME x \in Range(w)  PROVE x \in Range(s) \union Range(t)
    <3>1. PICK i \in 1..m + n : w[i] = x
      BY <1>2, <2>1, PlacesOf
    <3>2. CASE i \in 1..m
      BY <1>3, <1>4, <3>1, <3>2, PlacesOf
    <3>3. CASE i - m \in 1..n /\ m + (i - m) = i
      <4>1. t[i - m] = x
        BY <1>5, <3>1, <3>3
      <4> QED  BY <1>3, <3>3, <4>1, PlacesOf
    <3> QED  BY <1>6, <3>2, <3>3
  <2>2. ASSUME x \in Range(s)  PROVE x \in Range(w)
    <3>1. PICK i \in 1..m : s[i] = x
      BY <1>3, <2>2, PlacesOf
    <3> QED  BY <1>2, <1>4, <3>1, PlacesOf
  <2>3. ASSUME x \in Range(t)  PROVE x \in Range(w)
    <3>1. PICK i \in 1..n : t[i] = x
      BY <1>3, <2>3, PlacesOf
    <3> QED  BY <1>2, <1>5, <3>1, PlacesOf
  <2> QED  BY <2>1, <2>2, <2>3
<1>8. ASSUME IsInjective(s), IsInjective(t), Range(s) \intersect Range(t) = {}
      PROVE  IsInjective(w)
  <2>1. \A i, j \in 1..m : s[i] = s[j] => i = j
    BY <1>3, <1>8, PlacesOf
  <2>2. \A i, j \in 1..n : t[i] = t[j] => i = j
    BY <1>3, <1>8, PlacesOf
  <2>3. \A i \in 1..m, j \in 1..n : s[i] # t[j]
    BY <1>3, <1>8, PlacesOf
  <2>4. ASSUME NEW i \in 1..m + n, NEW j \in 1..m + n, w[i] = w[j]  PROVE i = j
    <3>1. CASE i \in 1..m /\ j \in 1..m
      BY <1>4, <2>1, <2>4, <3>1
    <3>2. CASE i \in 1..m /\ j - m \in 1..n /\ m + (j - m) = j
      BY <1>4, <1>5, <2>3, <2>4, <3>2
    <3>3. CASE i - m \in 1..n /\ m + (i - m) = i /\ j \in 1..m
      BY <1>4, <1>5, <2>3, <2>4, <3>3
    <3>4. CASE i - m \in 1..n /\ m + (i - m) = i /\ j - m \in 1..n /\ m + (j - m) = j
      <4>1. t[i - m] = t[j - m]
        BY <1>5, <2>4, <3>4
      <4> QED  BY <2>2, <3>4, <4>1
    <3> QED  BY <1>6, <3>1, <3>2, <3>3, <3>4
  <2> QED  BY <1>2, <2>4, PlacesOf
<1> QED  BY <1>2, <1>7, <1>8 DEF w

(* The place that a fold takes next is the last one of those that are left. *)
LEMMA MaxUpTo ==
    ASSUME NEW n \in Nat \ {0}, NEW T \in SUBSET (1..n), n \in T
    PROVE  Max(T) = n
<1>1. \A x \in T : (\A y \in T : x >= y) => x = n
  OBVIOUS
<1>2. \A y \in T : n >= y
  OBVIOUS
<1> QED  BY <1>1, <1>2 DEF Max

(* The elements of a finite set in some order, each of them once. *)
LEMMA SetToSeqFacts ==
    ASSUME NEW S, IsFiniteSet(S)
    PROVE  SetToSeq(S) \in Seq(S) /\ IsInjective(SetToSeq(S))
<1> DEFINE n == Cardinality(S)
<1>1. n \in Nat /\ ExistsBijection(1..n, S)
  BY FS_CardinalityType
<1> HIDE DEF n
<1>2. \E f \in [1..n -> S] : IsInjective(f)
  BY <1>1 DEF ExistsBijection, Bijection, Injection
<1>3. SetToSeq(S) = CHOOSE f \in [1..n -> S] : IsInjective(f)
  BY DEF SetToSeq, n
<1>4. SetToSeq(S) \in [1..n -> S] /\ IsInjective(SetToSeq(S))
  BY <1>2, <1>3
<1>5. SetToSeq(S) \in Seq(S)
  BY <1>1, <1>4
<1> QED  BY <1>4, <1>5

-----------------------------------------------------------------------------
(* The beginnings of a sequence, for induction *)

First(s, n) == SubSeq(s, 1, n)

LEMMA FirstFacts ==
    ASSUME NEW S, NEW s \in Seq(S)
    PROVE  /\ Len(s) \in Nat /\ First(s, 0) = <<>> /\ First(s, Len(s)) = s
           /\ \A n \in 0..Len(s) : /\ First(s, n) \in Seq(S) /\ Len(First(s, n)) = n
                                   /\ \A i \in 1..n : First(s, n)[i] = s[i]
           /\ \A n \in 0..Len(s)-1 :
                 s[n+1] \in S /\ First(s, n + 1) = Append(First(s, n), s[n+1])
<1>1. Len(s) \in Nat
  OBVIOUS
<1>2. First(s, 0) = <<>> /\ First(s, Len(s)) = s
  BY SubSeqEmpty, SubSeqFull DEF First
<1>3. ASSUME NEW n \in 0..Len(s)
      PROVE  /\ First(s, n) \in Seq(S) /\ Len(First(s, n)) = n
             /\ \A i \in 1..n : First(s, n)[i] = s[i]
  <2>1. \A i \in 1..n : s[i] \in S
    OBVIOUS
  <2>2. /\ First(s, n) \in Seq(S) /\ Len(First(s, n)) = IF 1 <= n THEN n - 1 + 1 ELSE 0
        /\ \A i \in 1..n - 1 + 1 : First(s, n)[i] = s[1 + i - 1]
    BY <2>1, SubSeqProperties DEF First
  <2> QED  BY <2>2
<1>4. ASSUME NEW n \in 0..Len(s)-1
      PROVE  s[n+1] \in S /\ First(s, n + 1) = Append(First(s, n), s[n+1])
  <2> DEFINE a == First(s, n + 1)
             b == Append(First(s, n), s[n+1])
  <2>1. s[n+1] \in S /\ n \in 0..Len(s) /\ n + 1 \in 0..Len(s)
    BY <1>1
  <2>2. /\ a \in Seq(S) /\ Len(a) = n + 1 /\ \A i \in 1..n+1 : a[i] = s[i]
    BY <1>3, <2>1
  <2>3. /\ b \in Seq(S) /\ Len(b) = n + 1 /\ \A i \in 1..n+1 : b[i] = s[i]
    <3> DEFINE c == First(s, n)
    <3>1. c \in Seq(S) /\ Len(c) = n /\ \A i \in 1..n : c[i] = s[i]
      BY <1>3, <2>1
    <3> HIDE DEF c
    <3>2. /\ Append(c, s[n+1]) \in Seq(S) /\ Len(Append(c, s[n+1])) = n + 1
          /\ \A i \in 1..n : Append(c, s[n+1])[i] = c[i]
          /\ Append(c, s[n+1])[n+1] = s[n+1]
      BY <2>1, <3>1, AppendProperties
    <3> QED  BY <3>1, <3>2 DEF c
  <2> HIDE DEF a, b
  <2>4. a = b
    BY <2>2, <2>3, SeqEqual
  <2> QED  BY <2>1, <2>4 DEF a, b
<1> QED  BY <1>1, <1>2, <1>3, <1>4

-----------------------------------------------------------------------------
(* Keep, an element at a time *)

LEMMA KeepEmpty == ASSUME NEW A PROVE Keep(<<>>, A) = <<>>
<1> DEFINE none == <<>>
<1>1. Len(none) = 0
  OBVIOUS
<1> HIDE DEF none
<1>2. PICK kept : kept[0] = <<>> /\ kept[Len(none)] = Keep(none, A)
  BY <1>1, KeepStages
<1> QED  BY <1>1, <1>2 DEF none

LEMMA KeepAppend ==
    ASSUME NEW S, NEW s \in Seq(S), NEW x \in S, NEW A
    PROVE  Keep(Append(s, x), A) = IF x \in A THEN Append(Keep(s, A), x) ELSE Keep(s, A)
<1> DEFINE w == Append(s, x)
           N == Len(s)
<1>1. N \in Nat /\ Len(w) = N + 1 /\ w[N+1] = x /\ \A i \in 1..N : w[i] = s[i]
  OBVIOUS
<1> HIDE DEF w, N
<1>2. PICK h : /\ h[0] = <<>> /\ h[N] = Keep(s, A)
               /\ \A n \in 0..N-1 : h[n+1] = IF s[n+1] \in A THEN Append(h[n], s[n+1]) ELSE h[n]
  BY <1>1, KeepStages DEF N
<1>3. PICK g : /\ g[0] = <<>> /\ g[N+1] = Keep(w, A)
               /\ \A n \in 0..N : g[n+1] = IF w[n+1] \in A THEN Append(g[n], w[n+1]) ELSE g[n]
  <2>1. Len(w) \in Nat /\ Len(w) = N + 1 /\ 0..Len(w)-1 = 0..N
    BY <1>1
  <2>2. PICK g : /\ g[0] = <<>> /\ g[Len(w)] = Keep(w, A)
                 /\ \A n \in 0..Len(w)-1 :
                       g[n+1] = IF w[n+1] \in A THEN Append(g[n], w[n+1]) ELSE g[n]
    BY <2>1, KeepStages
  <2> QED  BY <2>1, <2>2
<1> DEFINE T == {n \in 0..N : g[n] = h[n]}
<1>4. 0 \in T
  BY <1>1, <1>2, <1>3
<1>5. ASSUME NEW n \in 0..N-1, n \in T  PROVE n + 1 \in T
  <2>1. n \in 0..N /\ n + 1 \in 0..N /\ n + 1 \in 1..N
    BY <1>1
  <2>2. w[n+1] = s[n+1] /\ g[n] = h[n]
    BY <1>1, <1>5, <2>1
  <2> QED  BY <1>2, <1>3, <2>1, <2>2
<1> HIDE DEF T
<1>6. 0..N \subseteq T
  BY <1>1, <1>4, <1>5, InductionUpTo
<1>7. g[N] = h[N]
  BY <1>1, <1>6 DEF T
<1>8. N \in 0..N
  BY <1>1
<1>9. g[N+1] = IF x \in A THEN Append(g[N], x) ELSE g[N]
  BY <1>1, <1>3, <1>8
<1> QED  BY <1>2, <1>3, <1>7, <1>9 DEF w

(* Induction on a sequence that grows at its end. *)
LEMMA AppendInduction ==
    ASSUME NEW S, NEW T, <<>> \in T,
           \A q \in Seq(S), x \in S : q \in T => Append(q, x) \in T
    PROVE  Seq(S) \subseteq T
<1> SUFFICES ASSUME NEW s \in Seq(S)  PROVE s \in T
  OBVIOUS
<1> DEFINE N == Len(s)
           U == {n \in 0..N : First(s, n) \in T}
<1>1. N \in Nat /\ First(s, N) = s
  BY FirstFacts
<1>2. 0 \in U
  BY <1>1, FirstFacts
<1>3. ASSUME NEW n \in 0..N-1, n \in U  PROVE n + 1 \in U
  <2> DEFINE q == First(s, n)
             x == s[n+1]
             r == First(s, n + 1)
  <2>1. n \in 0..N /\ n + 1 \in 0..N
    BY <1>1
  <2>2. q \in Seq(S) /\ x \in S /\ r = Append(q, x)
    BY <2>1, FirstFacts
  <2>3. q \in T
    BY <1>3
  <2> HIDE DEF q, x, r
  <2>4. r \in T
    BY <2>2, <2>3
  <2> QED  BY <2>1, <2>4 DEF r
<1> HIDE DEF U
<1>4. 0..N \subseteq U
  BY <1>1, <1>2, <1>3, InductionUpTo
<1>5. N \in U
  BY <1>1, <1>4
<1> QED  BY <1>1, <1>5 DEF U

LEMMA AppendRange ==
    ASSUME NEW S, NEW s \in Seq(S), NEW x \in S
    PROVE  Append(s, x) \in Seq(S) /\ Range(Append(s, x)) = Range(s) \union {x}
<1> DEFINE w == Append(s, x)
           N == Len(s)
<1>1. /\ N \in Nat /\ Len(w) = N + 1 /\ w[N+1] = x /\ \A i \in 1..N : w[i] = s[i]
      /\ w \in Seq(S) /\ Len(s) = N
  OBVIOUS
<1> HIDE DEF w, N
<1>2. ASSUME NEW y  PROVE y \in Range(w) <=> y \in Range(s) \union {x}
  <2>1. y \in Range(w) <=> \E i \in 1..N+1 : w[i] = y
    BY <1>1, PlacesOf
  <2>2. y \in Range(s) <=> \E i \in 1..N : s[i] = y
    BY <1>1, PlacesOf
  <2>3. \A i \in 1..N+1 : i = N + 1 \/ i \in 1..N
    BY <1>1
  <2>4. N + 1 \in 1..N+1 /\ \A i \in 1..N : i \in 1..N+1
    BY <1>1
  <2> QED  BY <1>1, <2>1, <2>2, <2>3, <2>4
<1> QED  BY <1>1, <1>2 DEF w

(* Only the elements of s matter. *)
LEMMA KeepSame ==
    ASSUME NEW S, NEW s \in Seq(S), NEW A, NEW B,
           \A x \in Range(s) : x \in A <=> x \in B
    PROVE  Keep(s, A) = Keep(s, B)
<1> DEFINE T == {q \in Seq(S) : (\A x \in Range(q) : x \in A <=> x \in B) =>
                                Keep(q, A) = Keep(q, B)}
<1>1. <<>> \in T
  BY KeepEmpty
<1>2. ASSUME NEW q \in Seq(S), NEW x \in S, q \in T  PROVE Append(q, x) \in T
  <2> DEFINE w == Append(q, x)
  <2>1. w \in Seq(S) /\ Range(w) = Range(q) \union {x}
    BY AppendRange
  <2>2. /\ Keep(w, A) = IF x \in A THEN Append(Keep(q, A), x) ELSE Keep(q, A)
        /\ Keep(w, B) = IF x \in B THEN Append(Keep(q, B), x) ELSE Keep(q, B)
    BY KeepAppend
  <2> HIDE DEF w
  <2>3. ASSUME \A y \in Range(w) : y \in A <=> y \in B  PROVE Keep(w, A) = Keep(w, B)
    BY <1>2, <2>1, <2>2, <2>3
  <2>4. w \in T
    BY <2>1, <2>3
  <2> QED  BY <2>4 DEF w
<1> HIDE DEF T
<1>3. s \in T
  BY <1>1, <1>2, AppendInduction
<1> QED  BY <1>3 DEF T

LEMMA KeepWhole ==
    ASSUME NEW S, NEW s \in Seq(S), NEW A, Range(s) \subseteq A
    PROVE  Keep(s, A) = s
<1> DEFINE T == {q \in Seq(S) : Range(q) \subseteq A => Keep(q, A) = q}
<1>1. <<>> \in T
  BY KeepEmpty
<1>2. ASSUME NEW q \in Seq(S), NEW x \in S, q \in T  PROVE Append(q, x) \in T
  <2> DEFINE w == Append(q, x)
  <2>1. w \in Seq(S) /\ Range(w) = Range(q) \union {x}
    BY AppendRange
  <2>2. Keep(w, A) = IF x \in A THEN Append(Keep(q, A), x) ELSE Keep(q, A)
    BY KeepAppend
  <2>3. ASSUME Range(w) \subseteq A  PROVE Keep(w, A) = w
    BY <1>2, <2>1, <2>2, <2>3
  <2>4. w \in T
    <3> HIDE DEF w
    <3> QED  BY <2>1, <2>3
  <2> QED  BY <2>4
<1> HIDE DEF T
<1>3. s \in T
  BY <1>1, <1>2, AppendInduction
<1> QED  BY <1>3 DEF T

LEMMA KeepKeep ==
    ASSUME NEW S, NEW s \in Seq(S), NEW A, NEW B
    PROVE  Keep(Keep(s, A), B) = Keep(s, A \intersect B)
<1> DEFINE C == A \intersect B
           T == {q \in Seq(S) : Keep(Keep(q, A), B) = Keep(q, C)}
<1>1. <<>> \in T
  BY KeepEmpty
<1>2. ASSUME NEW q \in Seq(S), NEW x \in S, q \in T  PROVE Append(q, x) \in T
  <2> DEFINE w == Append(q, x)
             k == Keep(q, A)
  <2>1. w \in Seq(S) /\ k \in Seq(S)
    BY AppendRange, KeepFacts
  <2>2. x \in C <=> x \in A /\ x \in B
    OBVIOUS
  <2>3. Keep(k, B) = Keep(q, C)
    BY <1>2
  <2> HIDE DEF k, C
  <2>4. /\ Keep(w, A) = IF x \in A THEN Append(k, x) ELSE k
        /\ Keep(w, C) = IF x \in C THEN Append(Keep(q, C), x) ELSE Keep(q, C)
    BY KeepAppend DEF k
  <2>5. Keep(Append(k, x), B) = IF x \in B THEN Append(Keep(k, B), x) ELSE Keep(k, B)
    BY <2>1, KeepAppend
  <2> HIDE DEF w
  <2>6. Keep(Keep(w, A), B) = Keep(w, C)
    BY <2>2, <2>3, <2>4, <2>5
  <2>7. w \in T
    BY <2>1, <2>6
  <2> QED  BY <2>7 DEF w
<1> HIDE DEF T
<1>3. s \in T
  BY <1>1, <1>2, AppendInduction
<1> QED  BY <1>3 DEF T

LEMMA ConcatAppend ==
    ASSUME NEW S, NEW s \in Seq(S), NEW t \in Seq(S), NEW x \in S
    PROVE  s \o Append(t, x) = Append(s \o t, x)
<1> DEFINE one == <<x>>
           u == s \o t
<1>1. u \in Seq(S) /\ one \in Seq(S)
  OBVIOUS
<1> HIDE DEF u
<1>2. Append(t, x) = t \o one /\ Append(u, x) = u \o one
  BY <1>1, AppendIsConcat
<1> HIDE DEF one
<1>3. one \in Seq(S)
  BY <1>1
<1>4. (s \o t) \o one = s \o (t \o one)
  BY <1>3, ConcatAssociative, SMT
<1> QED  BY <1>2, <1>4 DEF u

LEMMA KeepConcat ==
    ASSUME NEW S, NEW s \in Seq(S), NEW t \in Seq(S), NEW A
    PROVE  Keep(s \o t, A) = Keep(s, A) \o Keep(t, A)
<1> DEFINE k == Keep(s, A)
           T == {q \in Seq(S) : Keep(s \o q, A) = k \o Keep(q, A)}
<1>0. k \in Seq(S)
  BY KeepFacts
<1>1. <<>> \in T
  <2>1. s \o <<>> = s
    BY ConcatEmptySeq
  <2>2. Keep(<<>>, A) = <<>>
    BY KeepEmpty
  <2>3. k \o <<>> = k
    <3> HIDE DEF k
    <3> QED  BY <1>0, ConcatEmptySeq
  <2> DEFINE none == <<>>
  <2>4. none \in Seq(S) /\ s \o none = s /\ Keep(none, A) = none /\ k \o none = k
    BY <2>1, <2>2, <2>3
  <2> HIDE DEF none
  <2>5. none \in T
    BY <2>4
  <2> QED  BY <2>5 DEF none
<1>2. ASSUME NEW q \in Seq(S), NEW x \in S, q \in T  PROVE Append(q, x) \in T
  <2> DEFINE w == Append(q, x)
             u == s \o q
             d == Keep(q, A)
  <2>1. w \in Seq(S) /\ u \in Seq(S) /\ d \in Seq(S)
    BY AppendRange, ConcatFacts, KeepFacts
  <2>2. s \o w = Append(u, x)
    BY ConcatAppend
  <2>3. Keep(u, A) = k \o d
    BY <1>2
  <2>4. Keep(w, A) = IF x \in A THEN Append(d, x) ELSE d
    BY KeepAppend
  <2> HIDE DEF w, u, d, k
  <2>5. Keep(Append(u, x), A) = IF x \in A THEN Append(Keep(u, A), x) ELSE Keep(u, A)
    BY <2>1, KeepAppend
  <2>6. k \o Append(d, x) = Append(k \o d, x)
    BY <1>0, <2>1, ConcatAppend
  <2>7. Keep(s \o w, A) = k \o Keep(w, A)
    BY <2>2, <2>3, <2>4, <2>5, <2>6
  <2>8. w \in T
    BY <2>1, <2>7
  <2> QED  BY <2>8 DEF w
<1> HIDE DEF T
<1>3. t \in T
  BY <1>1, <1>2, AppendInduction
<1> QED  BY <1>3 DEF T, k

-----------------------------------------------------------------------------
(* Keep and the places of the elements *)

\* the elements of k are in the order that they have in q
Follows(q, k) ==
    \A i, j \in 1..Len(k) : i < j =>
        \E a, b \in 1..Len(q) : a < b /\ q[a] = k[i] /\ q[b] = k[j]

(* Keep leaves the elements in their order. *)
LEMMA KeepFollows ==
    ASSUME NEW S, NEW s \in Seq(S), NEW A
    PROVE  Follows(s, Keep(s, A))
<1> DEFINE T == {q \in Seq(S) : Follows(q, Keep(q, A))}
<1>1. <<>> \in T
  BY KeepEmpty DEF Follows
<1>2. ASSUME NEW q \in Seq(S), NEW x \in S, q \in T  PROVE Append(q, x) \in T
  <2> DEFINE w == Append(q, x)
             k == Keep(q, A)
             kw == Keep(w, A)
             N == Len(q)
             K == Len(k)
  <2>1. Follows(q, k)
    BY <1>2
  <2>2. w \in Seq(S) /\ N \in Nat /\ Len(w) = N + 1 /\ w[N+1] = x /\ \A i \in 1..N : w[i] = q[i]
    OBVIOUS
  <2>3. k \in Seq(S) /\ Range(k) \subseteq Range(q)
    BY KeepFacts
  <2>4. kw = IF x \in A THEN Append(k, x) ELSE k
    BY KeepAppend
  <2>5. \A i \in 1..K : \E a \in 1..N : q[a] = k[i]
    BY <2>3, PlacesOf
  <2>6. \A i, j \in 1..K : i < j => \E a, b \in 1..N : a < b /\ q[a] = k[i] /\ q[b] = k[j]
    BY <2>1 DEF Follows
  <2> HIDE DEF w, k, kw, N
  <2>7. ASSUME NEW i \in 1..K, NEW j \in 1..K, i < j
        PROVE  \E a, b \in 1..N+1 : a < b /\ w[a] = k[i] /\ w[b] = k[j]
    <3> HIDE DEF K
    <3>1. PICK a \in 1..N, b \in 1..N : a < b /\ q[a] = k[i] /\ q[b] = k[j]
      BY <2>6, <2>7
    <3>2. a \in 1..N+1 /\ b \in 1..N+1
      BY <2>2
    <3> QED  BY <2>2, <3>1, <3>2
  <2>8. CASE x \in A
    <3>1. /\ K \in Nat /\ Len(kw) = K + 1 /\ kw[K+1] = x /\ \A i \in 1..K : kw[i] = k[i]
      BY <2>3, <2>4, <2>8
    <3> HIDE DEF K
    <3>2. ASSUME NEW i \in 1..K+1, NEW j \in 1..K+1, i < j
          PROVE  \E a, b \in 1..N+1 : a < b /\ w[a] = kw[i] /\ w[b] = kw[j]
      <4>1. i \in 1..K /\ (j \in 1..K \/ j = K + 1)
        BY <3>1, <3>2
      <4>2. CASE j \in 1..K
        <5>1. PICK a \in 1..N+1, b \in 1..N+1 : a < b /\ w[a] = k[i] /\ w[b] = k[j]
          BY <2>7, <3>2, <4>1, <4>2
        <5>2. kw[i] = k[i] /\ kw[j] = k[j]
          BY <3>1, <4>1, <4>2
        <5> QED  BY <5>1, <5>2
      <4>3. CASE j = K + 1
        <5>1. PICK a \in 1..N : q[a] = k[i]
          BY <2>5, <4>1 DEF K
        <5>2. a \in 1..N+1 /\ N + 1 \in 1..N+1 /\ a < N + 1
          BY <2>2
        <5> QED  BY <2>2, <3>1, <4>1, <4>3, <5>1, <5>2
      <4> QED  BY <4>1, <4>2, <4>3
    <3>3. Follows(w, kw)
      BY <2>2, <3>1, <3>2 DEF Follows
    <3> QED  BY <2>2, <3>3 DEF w, kw
  <2>9. CASE x \notin A
    <3>1. kw = k
      BY <2>4, <2>9
    <3>2. Follows(w, kw)
      BY <2>2, <2>7, <3>1 DEF Follows
    <3> QED  BY <2>2, <3>2 DEF w, kw
  <2> QED  BY <2>8, <2>9
<1> HIDE DEF T
<1>3. s \in T
  BY <1>1, <1>2, AppendInduction
<1> QED  BY <1>3 DEF T

(* A sequence taken apart at a place. *)
Front1(s, p) == SubSeq(s, 1, p - 1)
Rest1(s, p)  == SubSeq(s, p + 1, Len(s))

LEMMA Apart ==
    ASSUME NEW S, NEW s \in Seq(S), NEW p \in 1..Len(s)
    PROVE  LET l == Front1(s, p)
               r == Rest1(s, p)
           IN  /\ l \in Seq(S) /\ r \in Seq(S) /\ s[p] \in S /\ Len(l) = p - 1
               /\ s = Append(l, s[p]) \o r
               /\ RemoveAt(s, p) = l \o r
               /\ \A x \in Range(l) : \E i \in 1..p-1 : s[i] = x
               /\ IsInjective(s) => s[p] \notin Range(r)
<1> DEFINE l == SubSeq(s, 1, p - 1)
           r == SubSeq(s, p + 1, Len(s))
           N == Len(s)
           m == Append(l, s[p])
           w == m \o r
<1>1. N \in Nat /\ p \in 1..N /\ s[p] \in S /\ Len(s) = N
  OBVIOUS
<1>2. l \in Seq(S) /\ Len(l) = p - 1 /\ \A i \in 1..p-1 : l[i] = s[i]
  BY <1>1
<1>3. r \in Seq(S) /\ Len(r) = N - p /\ \A i \in 1..N-p : r[i] = s[p+i]
  <2>1. \A i \in p+1..N : s[i] \in S
    BY <1>1
  <2>2. /\ r \in Seq(S) /\ Len(r) = IF p + 1 <= N THEN N - (p + 1) + 1 ELSE 0
        /\ \A i \in 1 .. N - (p + 1) + 1 : r[i] = s[p + 1 + i - 1]
    BY <1>1, <2>1, SubSeqProperties
  <2> HIDE DEF r, N
  <2>3. Len(r) = N - p
    BY <1>1, <2>2
  <2>4. ASSUME NEW i \in 1..N-p  PROVE r[i] = s[p+i]
    <3>1. i \in 1 .. N - (p + 1) + 1 /\ p + 1 + i - 1 = p + i
      BY <1>1
    <3> QED  BY <2>2, <3>1
  <2> QED  BY <2>2, <2>3, <2>4
<1>4. RemoveAt(s, p) = l \o r
  BY DEF RemoveAt
<1> HIDE DEF l, r, N
<1>5. m \in Seq(S) /\ Len(m) = p /\ \A i \in 1..p : m[i] = s[i]
  BY <1>1, <1>2
<1> HIDE DEF m
<1>6. /\ w \in Seq(S) /\ Len(w) = N
      /\ \A i \in 1..N : w[i] = IF i <= p THEN m[i] ELSE r[i - p]
  <2>1. /\ m \o r \in Seq(S) /\ Len(m \o r) = Len(m) + Len(r)
        /\ \A i \in 1..Len(m) + Len(r) : (m \o r)[i] = IF i <= Len(m) THEN m[i] ELSE r[i - Len(m)]
    BY <1>3, <1>5, ConcatProperties
  <2>2. Len(m) + Len(r) = N
    BY <1>1, <1>3, <1>5
  <2> QED  BY <1>5, <2>1, <2>2
<1> HIDE DEF w
<1>7. ASSUME NEW i \in 1..N  PROVE w[i] = s[i]
  <2>1. CASE i <= p
    <3>1. i \in 1..p
      BY <1>1, <2>1
    <3> QED  BY <1>5, <1>6, <2>1, <3>1
  <2>2. CASE ~ (i <= p)
    <3>1. i - p \in 1..N-p /\ p + (i - p) = i
      BY <1>1, <2>2
    <3> QED  BY <1>3, <1>6, <2>2, <3>1
  <2> QED  BY <2>1, <2>2
<1>8. s = w
  BY <1>1, <1>6, <1>7, SeqEqual
<1>9. \A x \in Range(l) : \E i \in 1..p-1 : s[i] = x
  BY <1>2, PlacesOf
<1>10. ASSUME IsInjective(s), s[p] \in Range(r)  PROVE FALSE
  <2>1. PICK i \in 1..N-p : r[i] = s[p]
    BY <1>3, <1>10, PlacesOf
  <2>2. p + i \in 1..Len(s) /\ p + i # p
    BY <1>1
  <2>3. \A a, b \in 1..Len(s) : s[a] = s[b] => a = b
    BY <1>10, PlacesOf
  <2>4. s[p + i] = s[p]
    BY <1>3, <2>1
  <2> QED  BY <2>2, <2>3, <2>4
<1> QED  BY <1>1, <1>2, <1>3, <1>4, <1>8, <1>9, <1>10 DEF w, m, l, r, N, Front1, Rest1

(* A sequence put together around an element. *)
IsAround(w, v, p, l, x, r) == w = Append(l, x) \o r /\ v = l \o r /\ p = Len(l) + 1

LEMMA Around ==
    ASSUME NEW S, NEW l \in Seq(S), NEW r \in Seq(S), NEW x \in S,
           NEW w, NEW v, NEW p, IsAround(w, v, p, l, x, r)
    PROVE  /\ w \in Seq(S) /\ p \in 1..Len(w) /\ w[p] = x /\ RemoveAt(w, p) = v
           /\ v \in Seq(S) /\ p \in 1..Len(v)+1 /\ InsertAt(v, p, x) = w
<1> DEFINE m == Append(l, x)
           L == Len(l)
           R == Len(r)
<1>1. L \in Nat /\ R \in Nat /\ Len(l) = L /\ Len(r) = R /\ p = L + 1 /\ w = m \o r /\ v = l \o r
  BY DEF IsAround
<1>2. m \in Seq(S) /\ Len(m) = L + 1 /\ m[L+1] = x /\ \A i \in 1..L : m[i] = l[i]
  OBVIOUS
<1> HIDE DEF m, L, R
<1>3. /\ w \in Seq(S) /\ Len(w) = L + 1 + R
      /\ \A i \in 1..L+1+R : w[i] = IF i <= L + 1 THEN m[i] ELSE r[i - (L + 1)]
  <2>1. m \in Seq(S)
    BY <1>2
  <2>2. /\ m \o r \in Seq(S) /\ Len(m \o r) = Len(m) + Len(r)
        /\ \A i \in 1..Len(m) + Len(r) : (m \o r)[i] = IF i <= Len(m) THEN m[i] ELSE r[i - Len(m)]
    BY <2>1, ConcatProperties
  <2> QED  BY <1>1, <1>2, <2>2
<1>4. /\ v \in Seq(S) /\ Len(v) = L + R
      /\ \A i \in 1..L+R : v[i] = IF i <= L THEN l[i] ELSE r[i - L]
  <2>1. /\ l \o r \in Seq(S) /\ Len(l \o r) = Len(l) + Len(r)
        /\ \A i \in 1..Len(l) + Len(r) : (l \o r)[i] = IF i <= Len(l) THEN l[i] ELSE r[i - Len(l)]
    BY ConcatProperties
  <2> QED  BY <1>1, <2>1
<1>5. p \in 1..Len(w) /\ p \in 1..Len(v)+1 /\ w[p] = x
  <2>1. p \in 1..L+1+R /\ p <= L + 1 /\ p \in 1..L+R+1
    BY <1>1
  <2> QED  BY <1>1, <1>2, <1>3, <1>4, <2>1
<1>6. RemoveAt(w, p) = v
  <2> DEFINE q == RemoveAt(w, p)
  <2>1. /\ q \in Seq(S) /\ Len(q) = Len(w) - 1
        /\ \A i \in 1..Len(w)-1 : q[i] = w[IF i < p THEN i ELSE i + 1]
    <3> QED  BY <1>3, <1>5, RemoveAtFacts
  <2> HIDE DEF q
  <2>2. Len(q) = L + R
    BY <1>1, <1>3, <2>1
  <2>3. ASSUME NEW i \in 1..L+R  PROVE q[i] = v[i]
    <3>1. q[i] = w[IF i < p THEN i ELSE i + 1]
      <4>1. i \in 1..Len(w)-1
        BY <1>1, <1>3
      <4> QED  BY <2>1, <4>1
    <3>2. CASE i <= L
      <4>1. i < p /\ i \in 1..L+1+R /\ i <= L + 1 /\ i \in 1..L
        BY <1>1, <3>2
      <4> QED  BY <1>2, <1>3, <1>4, <3>1, <3>2, <4>1
    <3>3. CASE ~ (i <= L)
      <4>1. ~ (i < p) /\ i + 1 \in 1..L+1+R /\ ~ (i + 1 <= L + 1) /\ (i + 1) - (L + 1) = i - L
        BY <1>1, <3>3
      <4>2. w[i + 1] = r[i - L]
        BY <1>3, <4>1
      <4> QED  BY <1>4, <3>1, <3>3, <4>1, <4>2
    <3> QED  BY <3>2, <3>3
  <2>4. q = v
    BY <1>4, <2>1, <2>2, <2>3, SeqEqual
  <2> QED  BY <2>4 DEF q
<1>7. InsertAt(v, p, x) = w
  <2> DEFINE q == InsertAt(v, p, x)
  <2>1. /\ q \in Seq(S) /\ Len(q) = Len(v) + 1
        /\ \A i \in 1..Len(v)+1 : q[i] = IF i < p THEN v[i] ELSE IF i = p THEN x ELSE v[i-1]
    <3>1. v \in Seq(S)
      BY <1>4
    <3>2. p \in 1..Len(v)+1
      BY <1>5
    <3>3. IsWith(q, v, p, x, S)
      BY <3>1, <3>2, InsertAtIsWith
    <3> HIDE DEF q
    <3> QED  BY <3>3 DEF IsWith
  <2> HIDE DEF q
  <2>2. Len(q) = L + 1 + R /\ L + 1 + R \in Nat
    BY <1>1, <1>4, <2>1
  <2>3. ASSUME NEW i \in 1..L+1+R  PROVE q[i] = w[i]
    <3>1. q[i] = IF i < p THEN v[i] ELSE IF i = p THEN x ELSE v[i-1]
      <4>1. i \in 1..Len(v)+1
        BY <1>1, <1>4
      <4> QED  BY <2>1, <4>1
    <3>2. CASE i <= L
      <4>1. i < p /\ i \in 1..L+R /\ i <= L + 1 /\ i \in 1..L
        BY <1>1, <3>2
      <4> QED  BY <1>2, <1>3, <1>4, <3>1, <3>2, <4>1
    <3>3. CASE i = L + 1
      <4>1. ~ (i < p) /\ i = p
        BY <1>1, <3>3
      <4> QED  BY <1>5, <3>1, <4>1
    <3>4. CASE i > L + 1
      <4>1. /\ ~ (i < p) /\ i # p /\ i - 1 \in 1..L+R /\ ~ (i - 1 <= L) /\ ~ (i <= L + 1)
            /\ i - 1 - L = i - (L + 1)
        BY <1>1, <3>4
      <4>2. v[i - 1] = r[i - (L + 1)]
        BY <1>4, <4>1
      <4> QED  BY <1>3, <3>1, <4>1, <4>2
    <3>5. i <= L \/ i = L + 1 \/ i > L + 1
      BY <1>1
    <3> QED  BY <3>2, <3>3, <3>4, <3>5
  <2>4. q = w
    BY <1>3, <2>1, <2>2, <2>3, SeqEqual
  <2> QED  BY <2>4 DEF q
<1> QED  BY <1>3, <1>4, <1>5, <1>6, <1>7

(* An element that is preceded by elements of A only keeps its place, and can be *)
(* taken out or put in there.                                                    *)
BeginsIn(s, p, A) == \A i \in 1..p : s[i] \in A

LEMMA KeepWithout ==
    ASSUME NEW S, NEW s \in Seq(S), IsInjective(s), NEW A, NEW p \in 1..Len(s),
           BeginsIn(s, p, A)
    PROVE  LET w == Keep(s, A)
               v == Keep(s, A \ {s[p]})
           IN  /\ p \in 1..Len(w) /\ w[p] = s[p] /\ RemoveAt(w, p) = v
               /\ p \in 1..Len(v)+1 /\ InsertAt(v, p, s[p]) = w
<1> DEFINE l == Front1(s, p)
           r == Rest1(s, p)
           x == s[p]
           B == A \ {x}
           m == Append(l, x)
<1>1. /\ l \in Seq(S) /\ r \in Seq(S) /\ x \in S /\ Len(l) = p - 1
      /\ s = m \o r /\ x \notin Range(r) /\ \A y \in Range(l) : \E i \in 1..p-1 : s[i] = y
  BY Apart
<1>2. p \in Nat /\ \A i \in 1..p-1 : i \in 1..p /\ i \in 1..Len(s) /\ i # p
  OBVIOUS
<1>3. Range(l) \subseteq A
  BY <1>1, <1>2 DEF BeginsIn
<1>4. x \in A /\ x \notin Range(l)
  <2>1. x \in A
    BY DEF BeginsIn
  <2>2. \A i, j \in 1..Len(s) : s[i] = s[j] => i = j
    BY PlacesOf
  <2>3. \A y \in Range(l) : y # x
    BY <1>1, <1>2, <2>2
  <2> QED  BY <2>1, <2>3
<1> HIDE DEF l, r, x
<1>5. m \in Seq(S)
  BY <1>1
<1>6. Keep(l, A) = l /\ Keep(l, B) = l
  <2>1. Range(l) \subseteq B
    BY <1>3, <1>4
  <2> HIDE DEF B
  <2> QED  BY <1>1, <1>3, <2>1, KeepWhole
<1> DEFINE k == Keep(r, A)
<1>7. Keep(r, B) = k
  <2>1. \A y \in Range(r) : y \in A <=> y \in B
    BY <1>1
  <2> HIDE DEF B
  <2> QED  BY <1>1, <2>1, KeepSame
<1>8. k \in Seq(S)
  BY <1>1, KeepFacts
<1>9. Keep(m, A) = m
  <2>1. Keep(Append(l, x), A) = IF x \in A THEN Append(Keep(l, A), x) ELSE Keep(l, A)
    BY <1>1, KeepAppend
  <2> QED  BY <1>4, <1>6, <2>1
<1>10. Keep(m, B) = l
  <2>1. x \notin B
    OBVIOUS
  <2> HIDE DEF B
  <2>2. Keep(Append(l, x), B) = IF x \in B THEN Append(Keep(l, B), x) ELSE Keep(l, B)
    BY <1>1, KeepAppend
  <2> QED  BY <1>6, <2>1, <2>2
<1>11. Keep(s, A) = m \o k
  <2> HIDE DEF m
  <2>1. Keep(m \o r, A) = Keep(m, A) \o Keep(r, A)
    BY <1>1, <1>5, KeepConcat
  <2> QED  BY <1>1, <1>9, <2>1
<1>12. Keep(s, B) = l \o k
  <2> HIDE DEF m, B, k
  <2>1. Keep(m \o r, B) = Keep(m, B) \o Keep(r, B)
    BY <1>1, <1>5, KeepConcat
  <2> QED  BY <1>1, <1>7, <1>10, <2>1
<1> HIDE DEF k
<1> DEFINE w == m \o k
           v == l \o k
<1>13. p = Len(l) + 1
  BY <1>1, <1>2
<1> HIDE DEF w, v
<1>14. IsAround(w, v, p, l, x, k)
  BY <1>13 DEF w, v, IsAround
<1>15. /\ p \in 1..Len(w) /\ w[p] = x /\ RemoveAt(w, p) = v
       /\ p \in 1..Len(v)+1 /\ InsertAt(v, p, x) = w
  BY <1>1, <1>8, <1>14, Around
<1> QED  BY <1>11, <1>12, <1>15 DEF B, x, w, v
(* A sequence without repetitions is as long as its set of elements. *)
LEMMA LenIsCardinality ==
    ASSUME NEW S, NEW s \in Seq(S), IsInjective(s)
    PROVE  IsFiniteSet(Range(s)) /\ Cardinality(Range(s)) = Len(s)
<1> DEFINE n == Len(s)
           R == Range(s)
           I == 1..n
<1>1. n \in Nat
  OBVIOUS
<1>2. s \in [I -> R] /\ (\A i, j \in I : s[i] = s[j] => i = j) /\ \A x \in R : \E i \in I : s[i] = x
  BY PlacesOf DEF Range
<1> HIDE DEF n, R
<1>3. IsFiniteSet(I) /\ Cardinality(I) = n
  BY <1>1, FS_Interval
<1> HIDE DEF I
<1>4. s \in Bijection(I, R)
  BY <1>2 DEF Bijection, Injection, Surjection, IsInjective
<1>5. ExistsBijection(I, R)
  BY <1>4 DEF ExistsBijection
<1> QED  BY <1>3, <1>5, FS_Bijection DEF n, R

\* the places in s of the elements of t
PlacesIn(s, t) == [i \in DOMAIN t |-> CHOOSE a \in DOMAIN s : s[a] = t[i]]

(* Two sequences of the same elements are as long, and the places in the one of *)
(* the elements of the other are a permutation.                                 *)
\* the places o take the elements of s to those of t
IsPermuted(s, t, o) ==
    LET n == Len(s)
    IN  /\ n \in Nat /\ Len(t) = n /\ o \in [1..n -> 1..n]
        /\ \A a \in 1..n : \E i \in 1..n : o[i] = a
        /\ \A i \in 1..n : s[o[i]] = t[i]
        /\ t = [i \in 1..n |-> s[o[i]]]

LEMMA Permutes ==
    ASSUME NEW S, NEW s \in Seq(S), NEW t \in Seq(S), IsInjective(s), IsInjective(t),
           Range(s) = Range(t)
    PROVE  IsPermuted(s, t, PlacesIn(s, t))
<1> USE DEF IsPermuted
<1> DEFINE n == Len(s)
           o == PlacesIn(s, t)
<1>1. n \in Nat /\ Len(t) = n /\ DOMAIN s = 1..n /\ DOMAIN t = 1..n
  <2>1. Cardinality(Range(s)) = Len(s) /\ Cardinality(Range(t)) = Len(t)
    BY LenIsCardinality
  <2> QED  BY <2>1
<1>2. ASSUME NEW i \in 1..n  PROVE o[i] \in 1..n /\ s[o[i]] = t[i]
  <2>1. t[i] \in Range(s)
    BY <1>1, PlacesOf
  <2>2. \E a \in 1..n : s[a] = t[i]
    BY <2>1, PlacesOf
  <2>3. o[i] = CHOOSE a \in 1..n : s[a] = t[i]
    BY <1>1 DEF PlacesIn
  <2> QED  BY <2>2, <2>3
<1>3. o \in [1..n -> 1..n]
  <2>1. DOMAIN o = 1..n /\ o = [i \in DOMAIN o |-> o[i]]
    BY <1>1 DEF PlacesIn
  <2> HIDE DEF o
  <2> QED  BY <1>2, <2>1
<1> HIDE DEF o
<1>4. ASSUME NEW a \in 1..n  PROVE \E i \in 1..n : o[i] = a
  <2>1. s[a] \in Range(t)
    BY PlacesOf
  <2>2. PICK i \in 1..n : t[i] = s[a]
    BY <1>1, <2>1, PlacesOf
  <2>3. \A b, c \in 1..Len(s) : s[b] = s[c] => b = c
    BY PlacesOf
  <2>4. o[i] \in 1..n /\ s[o[i]] = s[a]
    BY <1>2, <2>2
  <2> QED  BY <2>3, <2>4
<1>5. t = [i \in 1..n |-> s[o[i]]]
  BY <1>1, <1>2
<1> QED  BY <1>1, <1>2, <1>3, <1>4, <1>5 DEF o

(* An element of a sequence without repetitions has one place. *)
LEMMA PlaceOf ==
    ASSUME NEW S, NEW s \in Seq(S), IsInjective(s), NEW x \in Range(s),
           NEW p, p = CHOOSE a \in DOMAIN s : s[a] = x
    PROVE  p \in 1..Len(s) /\ s[p] = x /\ \A i \in 1..Len(s) : s[i] = x => i = p
<1>1. DOMAIN s = 1..Len(s)
  OBVIOUS
<1>2. \E a \in 1..Len(s) : s[a] = x
  BY PlacesOf
<1>3. p \in 1..Len(s) /\ s[p] = x
  BY <1>1, <1>2
<1> QED  BY <1>3, PlacesOf

(* The elements of the part of a sequence are in its order. *)
LEMMA KeptOrder ==
    ASSUME NEW S, NEW s \in Seq(S), IsInjective(s), NEW A,
           NEW i \in 1..Len(Keep(s, A)), NEW j \in 1..Len(Keep(s, A)), i < j,
           NEW a \in 1..Len(s), NEW b \in 1..Len(s),
           s[a] = Keep(s, A)[i], s[b] = Keep(s, A)[j]
    PROVE  a < b
<1> DEFINE k == Keep(s, A)
<1>1. \A x, y \in 1..Len(s) : s[x] = s[y] => x = y
  BY PlacesOf
<1>2. Follows(s, k)
  BY KeepFollows
<1> HIDE DEF k
<1>3. i \in 1..Len(k) /\ j \in 1..Len(k) /\ s[a] = k[i] /\ s[b] = k[j]
  BY DEF k
<1>4. PICK c, d \in 1..Len(s) : c < d /\ s[c] = k[i] /\ s[d] = k[j]
  BY <1>2, <1>3 DEF Follows
<1>5. s[a] = s[c] /\ s[b] = s[d]
  BY <1>3, <1>4
<1>6. a = c /\ b = d
  BY <1>1, <1>5
<1> QED  BY <1>4, <1>6

-----------------------------------------------------------------------------
(* Elements are taken out and put in, one by one *)

\* q[n] is the sequence after n removals at the places pos
Removals(q, pos, N) ==
    \A n \in 0..N-1 : pos[n+1] \in 1..Len(q[n]) /\ q[n+1] = RemoveAt(q[n], pos[n+1])

\* q[n] is the sequence after n elements of a were inserted at the places pos
Additions(q, pos, a, N) ==
    \A n \in 0..N-1 : pos[n+1] \in 1..Len(q[n])+1 /\ q[n+1] = InsertAt(q[n], pos[n+1], a[n+1])

\* s without the first n elements of h, and the elements of s that are in A or among
\* the first n of a
Leavings(S, s, h) == [n \in 0..Len(h) |-> Keep(s, S \ {h[j] : j \in 1..n})]
Within(s, A, a)  == [n \in 0..Len(a) |-> Keep(s, A \union {a[j] : j \in 1..n})]

(* Elements that are taken out from the last one on keep their places until then. *)
LEMMA TakenOut ==
    ASSUME NEW S, NEW s \in Seq(S), IsInjective(s), NEW A, NEW h, h = Reverse(Keep(s, A))
    PROVE  LET q == Leavings(S, s, h)
           IN  /\ Len(h) \in Nat /\ q[0] = s /\ q[Len(h)] = Keep(s, S \ A)
               /\ Removals(q, PlacesIn(s, h), Len(h))
<1> DEFINE k == Keep(s, A)
           N == Len(k)
           q == Leavings(S, s, h)
           pos == PlacesIn(s, h)
           Gone(n) == {h[j] : j \in 1..n}
<1>1. k \in Seq(S) /\ Range(k) = Range(s) \intersect A /\ IsInjective(k)
  BY KeepFacts
<1> HIDE DEF k
<1>2. /\ h \in Seq(S) /\ Len(h) = N /\ N \in Nat /\ Range(h) = Range(s) \intersect A
      /\ \A i \in 1..N : h[i] = k[N - i + 1]
  <2>1. N \in Nat
    BY <1>1
  <2>2. h = [i \in 1..N |-> k[(N - i) + 1]]
    BY DEF Reverse, k
  <2>3. h \in Seq(S) /\ Len(h) = N /\ Range(h) = Range(k)
    BY <1>1, ReverseFacts DEF k
  <2> QED  BY <1>1, <2>1, <2>2, <2>3
<1> HIDE DEF N
<1>3. Range(s) \subseteq S /\ (\A x : x \in Range(s) <=> \E i \in 1..Len(s) : s[i] = x)
      /\ (\A x, y \in 1..Len(s) : s[x] = s[y] => x = y) /\ Len(s) \in Nat
  BY PlacesOf
<1>4. \A n \in 0..N : q[n] = Keep(s, S \ Gone(n))
  BY <1>2 DEF Leavings
<1>5. q[0] = s
  <2>1. S \ Gone(0) = S
    OBVIOUS
  <2>2. Keep(s, S) = s
    BY <1>3, KeepWhole
  <2> HIDE DEF Gone, q
  <2> QED  BY <1>2, <1>4, <2>1, <2>2
<1>6. q[N] = Keep(s, S \ A)
  <2>1. Gone(N) = Range(h)
    BY <1>2, PlacesOf
  <2> DEFINE B == S \ Gone(N)
             C == S \ A
  <2>2. \A x \in Range(s) : x \in B <=> x \in C
    BY <1>2, <1>3, <2>1
  <2>3. q[N] = Keep(s, B)
    BY <1>2, <1>4
  <2> HIDE DEF B, C, q
  <2>4. Keep(s, B) = Keep(s, C)
    BY <2>2, KeepSame
  <2> QED  BY <2>3, <2>4 DEF C
<1>7. ASSUME NEW n \in 0..N-1
      PROVE  pos[n+1] \in 1..Len(q[n]) /\ q[n+1] = RemoveAt(q[n], pos[n+1])
  <2> DEFINE x == h[n+1]
             p == pos[n+1]
             B == S \ Gone(n)
  <2>1. n \in Nat /\ n + 1 \in 1..N /\ n \in 0..N /\ n + 1 \in 0..N /\ DOMAIN h = 1..N
    BY <1>2
  <2>2. x \in Range(s)
    BY <1>2, <2>1, PlacesOf
  <2>3. p = CHOOSE a \in DOMAIN s : s[a] = x
    BY <2>1 DEF PlacesIn
  <2> HIDE DEF p, x
  <2>4. p \in 1..Len(s) /\ s[p] = x
    BY <2>2, <2>3, PlaceOf
  <2>5. ASSUME NEW i \in 1..p  PROVE s[i] \in B
    <3>1. i \in 1..Len(s) /\ i <= p
      BY <1>3, <2>4
    <3>2. s[i] \in S
      BY <3>1
    <3>3. ASSUME NEW j \in 1..n, h[j] = s[i]  PROVE FALSE
      <4>1. j \in 1..N /\ j < n + 1
        BY <1>2
      <4> DEFINE c == N - (n + 1) + 1
                 d == N - j + 1
      <4>2. c \in 1..N /\ d \in 1..N /\ c < d
        BY <1>2, <2>1, <4>1
      <4>3. k[c] = s[p] /\ k[d] = s[i]
        BY <1>2, <2>1, <2>4, <3>3, <4>1 DEF x
      <4> HIDE DEF c, d
      <4>4. p < i
        BY <2>4, <3>1, <4>2, <4>3, KeptOrder DEF k, N
      <4> QED  BY <2>4, <3>1, <4>4
    <3> QED  BY <3>2, <3>3
  <2>6. q[n] = Keep(s, B)
    BY <1>4, <2>1
  <2>7. q[n+1] = Keep(s, B \ {s[p]})
    <3>1. Gone(n + 1) = Gone(n) \union {x}
      BY <2>1 DEF x
    <3>2. S \ Gone(n + 1) = B \ {s[p]}
      BY <2>4, <3>1
    <3>3. q[n+1] = Keep(s, S \ Gone(n + 1))
      BY <1>4, <2>1
    <3> HIDE DEF Gone, q
    <3> QED  BY <3>2, <3>3
  <2> HIDE DEF B, q
  <2>8. BeginsIn(s, p, B)
    BY <2>5 DEF BeginsIn
  <2>9. p \in 1..Len(Keep(s, B)) /\ RemoveAt(Keep(s, B), p) = Keep(s, B \ {s[p]})
    <3>1. p \in 1..Len(s)
      BY <2>4
    <3> QED  BY <2>8, <3>1, KeepWithout
  <2> QED  BY <2>6, <2>7, <2>9 DEF p
<1> HIDE DEF q, pos
<1>8. Removals(q, pos, Len(h))
  BY <1>2, <1>7 DEF Removals
<1> QED  BY <1>2, <1>5, <1>6, <1>8 DEF q, pos


(* Elements that are put in from the first one on are put where they will be. *)
LEMMA PutIn ==
    ASSUME NEW S, NEW s \in Seq(S), IsInjective(s), NEW A, NEW B,
           Range(s) \subseteq A \union B, A \intersect B = {}, NEW a, a = Keep(s, B)
    PROVE  LET q == Within(s, A, a)
           IN  /\ Len(a) \in Nat /\ q[0] = Keep(s, A) /\ q[Len(a)] = s
               /\ Additions(q, PlacesIn(s, a), a, Len(a))
<1> DEFINE N == Len(a)
           q == Within(s, A, a)
           pos == PlacesIn(s, a)
           Put(n) == {a[j] : j \in 1..n}
<1>1. a \in Seq(S) /\ Range(a) = Range(s) \intersect B /\ IsInjective(a)
  BY KeepFacts
<1>2. N \in Nat /\ DOMAIN a = 1..N /\ \A i, j \in 1..N : a[i] = a[j] => i = j
  BY <1>1, PlacesOf
<1> HIDE DEF N
<1>3. Range(s) \subseteq S /\ (\A x : x \in Range(s) <=> \E i \in 1..Len(s) : s[i] = x)
      /\ (\A x, y \in 1..Len(s) : s[x] = s[y] => x = y) /\ Len(s) \in Nat
  BY PlacesOf
<1>4. \A n \in 0..N : q[n] = Keep(s, A \union Put(n))
  BY DEF Within, N
<1>5. q[0] = Keep(s, A)
  <2>1. A \union Put(0) = A
    OBVIOUS
  <2> HIDE DEF Put, q
  <2> QED  BY <1>2, <1>4, <2>1
<1>6. q[N] = s
  <2>1. Put(N) = Range(a)
    BY <1>1, <1>2, PlacesOf DEF N
  <2> DEFINE C == A \union Put(N)
  <2>2. Range(s) \subseteq C
    BY <1>1, <2>1
  <2>3. q[N] = Keep(s, C)
    BY <1>2, <1>4
  <2> HIDE DEF C, q
  <2> QED  BY <2>2, <2>3, KeepWhole
<1>7. ASSUME NEW n \in 0..N-1
      PROVE  pos[n+1] \in 1..Len(q[n])+1 /\ q[n+1] = InsertAt(q[n], pos[n+1], a[n+1])
  <2> DEFINE x == a[n+1]
             p == pos[n+1]
             C == A \union Put(n + 1)
  <2>1. n \in Nat /\ n + 1 \in 1..N /\ n \in 0..N /\ n + 1 \in 0..N
    BY <1>2
  <2>2. x \in Range(s) /\ x \in B
    BY <1>1, <1>2, <2>1, PlacesOf DEF N
  <2>3. p = CHOOSE i \in DOMAIN s : s[i] = x
    BY <1>2, <2>1 DEF PlacesIn
  <2> HIDE DEF p, x
  <2>4. p \in 1..Len(s) /\ s[p] = x
    BY <2>2, <2>3, PlaceOf
  <2>5. ASSUME NEW i \in 1..p  PROVE s[i] \in C
    <3>1. i \in 1..Len(s) /\ i <= p /\ i \in Nat
      BY <1>3, <2>4
    <3>2. s[i] \in A \union B /\ s[i] \in Range(s)
      BY <1>3, <3>1
    <3>3. CASE s[i] \in B
      <4>1. s[i] \in Range(a)
        BY <1>1, <3>2, <3>3
      <4>2. PICK j \in 1..N : a[j] = s[i]
        BY <1>1, <4>1, PlacesOf DEF N
      <4>3. a[n+1] = s[p]
        BY <2>4 DEF x
      <4> DEFINE c == n + 1
      <4>4. c \in 1..N /\ a[c] = s[p]
        BY <2>1, <4>3
      <4>5. ASSUME c < j  PROVE FALSE
        <5> HIDE DEF c
        <5>1. p \in 1..Len(s) /\ a[j] = s[i]
          BY <2>4, <4>2
        <5>2. p < i
          BY <2>4, <3>1, <4>2, <4>4, <4>5, <5>1, KeptOrder DEF N
        <5> QED  BY <2>4, <3>1, <5>2
      <4>6. j \in 1..n+1
        BY <1>2, <2>1, <4>2, <4>5
      <4> QED  BY <4>2, <4>6
    <3> QED  BY <3>2, <3>3
  <2>6. q[n+1] = Keep(s, C)
    BY <1>4, <2>1
  <2>7. q[n] = Keep(s, C \ {s[p]})
    <3>1. Put(n + 1) = Put(n) \union {x}
      BY <2>1 DEF x
    <3>2. x \notin Put(n)
      BY <1>2, <2>1 DEF x
    <3>3. x \notin A
      BY <2>2
    <3>4. C \ {s[p]} = A \union Put(n)
      <4> HIDE DEF Put
      <4> QED  BY <2>4, <3>1, <3>2, <3>3
    <3>5. q[n] = Keep(s, A \union Put(n))
      BY <1>4, <2>1
    <3> HIDE DEF C, Put, q
    <3> QED  BY <3>4, <3>5
  <2> HIDE DEF C, q
  <2>8. BeginsIn(s, p, C)
    BY <2>5 DEF BeginsIn
  <2>9. LET v == Keep(s, C \ {s[p]})
        IN  p \in 1..Len(v)+1 /\ InsertAt(v, p, s[p]) = Keep(s, C)
    <3>1. p \in 1..Len(s)
      BY <2>4
    <3> QED  BY <2>8, <3>1, KeepWithout
  <2>10. s[p] = a[n+1]
    BY <2>4 DEF x
  <2> QED  BY <2>6, <2>7, <2>9, <2>10 DEF p
<1> HIDE DEF q, pos
<1>8. Additions(q, pos, a, Len(a))
  BY <1>7 DEF Additions, N
<1>9. Len(a) \in Nat /\ q[Len(a)] = s
  BY <1>2, <1>6 DEF N
<1> QED  BY <1>5, <1>8, <1>9 DEF q, pos

(* The two parts of a sequence. *)
AreParts(s, x, y, B) == Range(x) = Range(s) \ B /\ Range(y) = Range(s) \intersect B

LEMMA PartLengths ==
    ASSUME NEW S, NEW s \in Seq(S), NEW x \in Seq(S), NEW y \in Seq(S),
           IsInjective(s), IsInjective(x), IsInjective(y),
           NEW B, AreParts(s, x, y, B)
    PROVE  Len(s) \in Nat /\ Len(x) \in Nat /\ Len(y) \in Nat /\ Len(s) = Len(x) + Len(y)
<1>1. Len(s) \in Nat /\ Len(x) \in Nat /\ Len(y) \in Nat
  OBVIOUS
<1>2. IsFiniteSet(Range(s)) /\ Cardinality(Range(s)) = Len(s)
  BY LenIsCardinality
<1>3. Cardinality(Range(x)) = Len(x) /\ Cardinality(Range(y)) = Len(y)
  BY LenIsCardinality
<1>4. Cardinality(Range(s) \ B) = Cardinality(Range(s)) - Cardinality(Range(s) \intersect B)
  BY <1>2, FS_Difference
<1> USE DEF AreParts
<1>5. Len(x) = Len(s) - Len(y)
  BY <1>2, <1>3, <1>4
<1> QED  BY <1>1, <1>5


\* the places pos for N elements, the first of them in a sequence of L
HavePlaces(pos, L, N) == \A n \in 0..N-1 : pos[n+1] \in 1..L+n+1

LEMMA PutInLengths ==
    ASSUME NEW S, NEW s \in Seq(S), IsInjective(s), NEW A, NEW B,
           Range(s) \subseteq A \union B, A \intersect B = {}, NEW a, a = Keep(s, B)
    PROVE  LET L == Len(Keep(s, A))
           IN  /\ L \in Nat /\ Len(a) \in Nat /\ Len(s) = L + Len(a)
               /\ HavePlaces(PlacesIn(s, a), L, Len(a))
<1> DEFINE N == Len(a)
           L == Len(Keep(s, A))
           q == Within(s, A, a)
           pos == PlacesIn(s, a)
           Good(n) == q[n] \in Seq(S) /\ Len(q[n]) = L + n
<1>1. N \in Nat /\ q[0] = Keep(s, A) /\ q[N] = s /\ Additions(q, pos, a, N)
  <2>1. LET p == Within(s, A, a)
        IN  /\ Len(a) \in Nat /\ p[0] = Keep(s, A) /\ p[Len(a)] = s
            /\ Additions(p, PlacesIn(s, a), a, Len(a))
    BY PutIn
  <2> QED  BY <2>1
<1>2. a \in Seq(S) /\ Keep(s, A) \in Seq(S)
  <2>1. Keep(s, B) \in Seq(S)
    BY KeepFacts
  <2>2. Keep(s, A) \in Seq(S)
    BY KeepFacts
  <2> QED  BY <2>1, <2>2
<1>3. L \in Nat /\ DOMAIN a = 1..N
  BY <1>2
<1>4. Good(0)
  BY <1>1, <1>2, <1>3
<1> HIDE DEF q, pos, N, L
<1>5. ASSUME NEW n \in 0..N-1, Good(n)  PROVE Good(n + 1)
  <2> DEFINE u == q[n]
             p == pos[n+1]
             x == a[n+1]
  <2>1. n + 1 \in 1..N /\ n \in Nat
    BY <1>1
  <2>2. x \in S
    <3>1. a[n+1] \in S
      BY <1>2, <2>1 DEF N
    <3> QED  BY <3>1
  <2>3. p \in 1..Len(u)+1 /\ q[n+1] = InsertAt(u, p, x)
    BY <1>1 DEF Additions
  <2>4. u \in Seq(S) /\ Len(u) = L + n
    BY <1>5
  <2> HIDE DEF u, p, x
  <2>5. p \in 1..Len(u)+1
    BY <2>3
  <2>6. InsertAt(u, p, x) \in Seq(S) /\ Len(InsertAt(u, p, x)) = Len(u) + 1
    <3> DEFINE r == InsertAt(u, p, x)
    <3>1. IsWith(r, u, p, x, S)
      BY <2>2, <2>4, <2>5, InsertAtIsWith
    <3> HIDE DEF r
    <3>2. r \in Seq(S) /\ Len(r) = Len(u) + 1
      BY <3>1 DEF IsWith
    <3> QED  BY <3>2 DEF r
  <2>7. (L + n) + 1 = L + (n + 1)
    BY <1>3, <2>1
  <2> QED  BY <2>3, <2>4, <2>6, <2>7
<1>6. \A n \in 0..N : Good(n)
  <2> DEFINE T == {n \in 0..N : Good(n)}
  <2> HIDE DEF Good
  <2>1. 0 \in T
    BY <1>1, <1>4
  <2>2. ASSUME NEW n \in 0..N-1, n \in T  PROVE n + 1 \in T
    BY <1>1, <1>5, <2>2
  <2> HIDE DEF T
  <2>3. 0..N \subseteq T
    BY <1>1, <2>1, <2>2, InductionUpTo
  <2> QED  BY <2>3 DEF T
<1>7. Len(s) = L + N
  BY <1>1, <1>6
<1>8. HavePlaces(pos, L, N)
  <2> SUFFICES ASSUME NEW n \in 0..N-1  PROVE pos[n+1] \in 1..L+n+1
    BY DEF HavePlaces
  <2>1. n \in 0..N /\ n \in Nat
    BY <1>1
  <2>2. Len(q[n]) = L + n
    BY <1>6, <2>1
  <2>3. pos[n+1] \in 1..Len(q[n])+1
    BY <1>1 DEF Additions
  <2> QED  BY <2>2, <2>3
<1> QED  BY <1>1, <1>3, <1>7, <1>8 DEF pos, N, L


=============================================================================
